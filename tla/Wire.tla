-------------------------------- MODULE Wire --------------------------------
(***************************************************************************)
(* From the bytes of a websocket message to a push, a response or a        *)
(* refusal (tydomio/protocol.py), with the constructors it calls           *)
(* (tydomio/requests.py, tydomio/response.py).                             *)
(*                                                                         *)
(* The start line, the headers and the meaning of the content are          *)
(* classes; the body is its bytes, because of its chunks.  One iteration   *)
(* of the decoder's loop is one step.                                      *)
(***************************************************************************)
EXTENDS Naturals, Sequences, SequencesExt

CONSTANTS
  Data,      \* the bytes of a content
  MaxChunk,  \* bound on the size of a chunk
  MaxChunks, \* bound on the number of chunks, the last one excepted
  MaxDigits  \* bound on the digits of a size

ASSUME BoundsAreNat == MaxChunk \in Nat /\ MaxChunks \in Nat /\ MaxDigits \in Nat

Lower == <<"0", "1", "2", "3", "4", "5", "6", "7", "8", "9", "a", "b", "c", "d", "e", "f">>
Upper == <<"0", "1", "2", "3", "4", "5", "6", "7", "8", "9", "A", "B", "C", "D", "E", "F">>
Digits == UNION {{Lower[n], Upper[n]} : n \in 1..16}
Value == [digit \in Digits |-> (CHOOSE n \in 1..16 : digit \in {Lower[n], Upper[n]}) - 1]

Space == {"SP", "CR", "LF"}
CRLF == <<"CR", "LF">>

VARIABLES
  message,  \* the head, and what the content means
  asked,    \* the request whose transaction id a response has
  chunks,   \* the content as the Tydom cut it
  damage,   \* what became of the body on its way
  body,     \* the bytes after the head
  phase,    \* head, chunks, typing, read
  position, \* the decoder's `position'
  content,  \* the content decoded so far
  kind      \* what the message was taken for

vars == <<message, asked, chunks, damage, body, phase, position, content, kind>>

Starts == {"status", "bad_status", "devices", "areas", "other", "bad_request"}
Meanings == {"devices", "areas", "config", "json", "text", "binary"}
Requests == {"ping", "config", "devices", "areas"}
\* `ok' is status 200, `origin' the header uri-origin.
Messages ==
  [prefix : {"expected", "missing", "foreign"}, start : Starts,
   head : {"sound", "unended", "not_ascii", "no_colon"},
   encoding : {"none", "chunked", "gzip"}, json : BOOLEAN,
   transac : {"none", "number", "text"}, ok : BOOLEAN, origin : {"config", "devices"},
   meaning : Meanings]
Kinds == {"answer", "error", "unexpected", "devices", "areas", "other", "malformed", "poison"}

Plain == [prefix |-> "missing", start |-> "devices", head |-> "sound", encoding |-> "chunked",
          json |-> TRUE, transac |-> "none", ok |-> TRUE, origin |-> "config", meaning |-> "devices"]

Payload == FlattenSeq(chunks)

-----------------------------------------------------------------------------
(* The size of a chunk                                                     *)

IsSize(text) == text # <<>> /\ \A i \in DOMAIN text : text[i] \in Digits
HexValue(text) ==
  LET value[n \in 0..Len(text)] ==
        IF n = 0 THEN 0 ELSE 16 * value[n - 1] + Value[text[n]]
  IN value[Len(text)]

-----------------------------------------------------------------------------
(* What the Tydom sends                                                    *)

\* A size may have zeros before it, spaces around it and an extension after it.
SizeTexts == {text \in SeqOf(Digits, MaxDigits) : IsSize(text) /\ HexValue(text) <= MaxChunk}
Bare == [before |-> <<>>, after |-> <<>>]
Framings == {Bare, [before |-> <<"SP">>, after |-> <<"SP", "SEMI", "a">>]}
SizeLine(size, framing) == framing.before \o size \o framing.after \o CRLF

\* The last chunk is empty.
AllChunks == Append(chunks, <<>>)
Sizes ==
  {sizes \in [DOMAIN AllChunks -> SizeTexts] :
     \A i \in DOMAIN sizes : HexValue(sizes[i]) = Len(AllChunks[i])}

\* A chunk between its size and its end, a byte of which may get lost.
Frame(line, data, i, harm) ==
  CASE harm.is = "size" /\ harm.frame = i -> RemoveAt(line, harm.at) \o data
    [] harm.is = "lost" /\ harm.frame = i -> line \o RemoveAt(data, harm.at)
    [] OTHER -> line \o data
Frames(sizes, framing, harm) ==
  [i \in DOMAIN AllChunks |-> Frame(SizeLine(sizes[i], framing), AllChunks[i] \o CRLF, i, harm)]

Framed(sizes, framing, harm) ==
  LET bytes == FlattenSeq(Frames(sizes, framing, harm))
  IN CASE harm.is = "cut" -> SubSeq(bytes, 1, harm.at - 1)
       [] harm.is = "added" -> Append(bytes, harm.byte)
       [] OTHER -> bytes

Unharmed == [is |-> "none"]
Damages(sizes, framing) ==
  {Unharmed} \cup [is : {"added"}, byte : Data]
  \cup [is : {"cut"}, at : 1..Len(Framed(sizes, framing, Unharmed))]
  \cup UNION {[is : {"size"}, frame : {i}, at : 1..Len(SizeLine(sizes[i], framing))]
              \cup [is : {"lost"}, frame : {i}, at : 1..(Len(AllChunks[i]) + 2)] : i \in DOMAIN sizes}

\* Every content in every framing with every damage, and every head.
Sent ==
  /\ chunks \in SeqOf(UNION {[1..n -> Data] : n \in 1..MaxChunk}, MaxChunks)
  /\ \E sizes \in Sizes, framing \in Framings :
       \/ /\ message = Plain
          /\ damage \in Damages(sizes, framing)
          /\ body = Framed(sizes, framing, damage)
       \/ /\ framing = Bare /\ \A i \in DOMAIN sizes : Len(sizes[i]) = 1
          /\ Len(chunks) <= 1 /\ Len(Payload) <= 1
          /\ message \in Messages
          /\ message.start # "status" => message.ok /\ message.origin = "config"
          /\ message.start = "status" => message.json
          /\ damage = Unharmed
          /\ body = IF message.encoding = "chunked" THEN Framed(sizes, framing, damage) ELSE Payload
  /\ asked \in IF message.start = "status" THEN Requests ELSE {"ping"}

Init == Sent /\ phase = "head" /\ position = 1 /\ content = <<>> /\ kind = "malformed"

-----------------------------------------------------------------------------
(* _split_message and _decode_content                                      *)

\* Any other encoding, or a broken head, is an error of the message.
SplitMessage ==
  /\ phase = "head"
  /\ IF message.head # "sound" \/ message.encoding = "gzip"
     THEN phase' = "read" /\ UNCHANGED content
     ELSE IF message.encoding = "chunked" THEN phase' = "chunks" /\ UNCHANGED content
     ELSE phase' = "typing" /\ content' = body
  /\ UNCHANGED <<message, asked, chunks, damage, body, position, kind>>

-----------------------------------------------------------------------------
(* _decode_chunked                                                         *)

Slice(first, last) ==
  SubSeq(body, first, IF last < Len(body) THEN last ELSE Len(body))
FindLineEnd(from) == {i \in from..(Len(body) - 1) : Slice(i, i + 1) = CRLF}
Strip(line) ==
  LET kept == {i \in DOMAIN line : line[i] \notin Space}
  IN IF kept = {} THEN <<>> ELSE SubSeq(line, Min(kept), Max(kept))

\* The text of the size on the line that ends at the given place.
SizeText(lineEnd) ==
  LET line == Slice(position, lineEnd - 1)
      extension == SelectInSeq(line, LAMBDA byte : byte = "SEMI")
  IN Strip(IF extension = 0 THEN line ELSE SubSeq(line, 1, extension - 1))

Refuse == phase' = "read" /\ UNCHANGED <<position, content>>

\* Mutants: a chunk ends where its line does; its end is not looked at; the
\* position does not move.
TakeChunkToLineEnd(start, end) ==
  LET ends == FindLineEnd(start) IN
  IF ends = {} THEN Refuse
  ELSE /\ content' = content \o Slice(start, Min(ends) - 1)
       /\ position' = Min(ends) + 2 /\ UNCHANGED phase
TakeChunkUnchecked(start, end) ==
  content' = content \o Slice(start, end - 1) /\ position' = end + 2 /\ UNCHANGED phase
TakeChunkInPlace(start, end) ==
  IF Slice(end, end + 1) # CRLF THEN Refuse
  ELSE content' = Slice(start, end - 1) /\ UNCHANGED <<phase, position>>

TakeChunk(start, end) ==
  IF Slice(end, end + 1) # CRLF THEN Refuse
  ELSE content' = content \o Slice(start, end - 1) /\ position' = end + 2 /\ UNCHANGED phase

\* The last chunk, and nothing after its line but the end of the trailers.
TakeLast(start) ==
  IF Slice(start, Len(body)) # CRLF THEN Refuse
  ELSE phase' = "typing" /\ UNCHANGED <<position, content>>

DecodeChunk ==
  /\ phase = "chunks"
  /\ \/ FindLineEnd(position) = {} /\ Refuse
     \/ \E lineEnd \in {Min(e) : e \in {FindLineEnd(position)} \ {{}}} :
          \E text \in {SizeText(lineEnd)} :
            \/ ~IsSize(text) /\ Refuse
            \/ /\ IsSize(text)
               /\ \E size \in {HexValue(text)} :
                    \/ size = 0 /\ TakeLast(lineEnd + 2)
                    \/ size # 0 /\ TakeChunk(lineEnd + 2, lineEnd + 2 + size)
  /\ UNCHANGED <<message, asked, chunks, damage, body, kind>>

-----------------------------------------------------------------------------
(* parse_message, parse_response, parse_request                            *)

\* What the constructors make of the content: an empty one is None, and one that is
\* not the content sent may mean anything.
Meaning ==
  IF content = <<>> THEN {"empty"} ELSE IF content = Payload THEN {message.meaning} ELSE Meanings

\* JsonRequest: json.loads raises UnicodeDecodeError, which nobody foresees, for
\* bytes that are not UTF-8.
JsonRequest(meaning) ==
  IF ~message.json \/ meaning = "text" THEN "malformed"
  ELSE IF meaning = "binary" THEN "poison" ELSE "other"

\* With a prefix that is not the expected one, the method is not PUT.
ParseRequest(meaning) ==
  IF message.start \in {"status", "bad_status", "bad_request"} THEN "malformed"
  ELSE IF message.prefix # "foreign" /\ message.start \in {"devices", "areas"}
            /\ meaning = message.start
       THEN message.start ELSE JsonRequest(meaning)

\* Each response class wants its own content: a ping none, the others the content
\* of their url.  Data with invalid entities are accepted without them.
Ok(meaning) == meaning = "empty"
ConfigResponse(meaning) == message.origin = "config" /\ meaning = "config"
DataResponse(meaning) == message.origin = asked /\ meaning = asked

Accepts(meaning) ==
  /\ message.ok
  /\ CASE asked = "ping" -> Ok(meaning)
       [] asked = "config" -> ConfigResponse(meaning)
       [] asked \in {"devices", "areas"} -> DataResponse(meaning)

\* The transaction id is read by PendingRequests.resolve, as an int; the response
\* is parsed by the request that waits for it.
ParseResponse(meaning) ==
  IF message.start = "bad_status" THEN "malformed"
  ELSE IF message.transac = "text" THEN "poison"
  ELSE IF message.transac = "none" THEN "unexpected"
  ELSE IF Accepts(meaning) THEN "answer" ELSE "error"

ParseMessage ==
  /\ phase = "typing" /\ phase' = "read"
  /\ \E meaning \in Meaning :
       kind' = IF message.start \in {"status", "bad_status"} /\ message.prefix # "foreign"
               THEN ParseResponse(meaning) ELSE ParseRequest(meaning)
  /\ UNCHANGED <<message, asked, chunks, damage, body, position, content>>

\* Only a message that was read is left alone.
Done == phase = "read" /\ UNCHANGED vars

Next == SplitMessage \/ DecodeChunk \/ ParseMessage \/ Done

Spec == Init /\ [][Next]_vars
=============================================================================
