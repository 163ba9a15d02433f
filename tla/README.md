# Formal models of tydomio

TLA+ models of [tydomio](../src/README.md), a client library of the Delta Dore Tydom
home automation gateway, of the MCP server built on it and of its capture tool. TLC
model-checks small instances; TLAPS proves the theorems for every value of the
constants. `PROJECT.json` lists the runs, the lines each definition models, the hazards
and the theorems.

## The system

One process, one asyncio event loop, one websocket to the Tydom. Concurrency is between
tasks, which interleave at each `await`; failures come from the network, the Tydom and
cancellation.

| Component | State | Operations | Talks to |
| --- | --- | --- | --- |
| Websocket client (`client.py`, `pending_requests.py`) | `_websocket`, `_connected`, `_futures`, the tasks of the connection | `run_websocket`, `_read_messages`, `_ping`, `send`, `_disconnect` | the Tydom; runs the connection routines and push handlers; called by everything that sends |
| Messages (`protocol.py`, `requests.py`, `response.py`) | the transaction counter | parse and format | the client |
| Cache and sync (`mcp_server/cache.py`, `sync.py`) | config, endpoints, areas, connection, synced | bootstrap routine, push handlers, apply, replace, merge, mark | sends through the client, called by its tasks; read by the tools |
| Write tools (`mcp_server/writes.py`) | `_last_send` | `set_shutter`, `set_heating` | reads the cache, sends through the client |
| Read tool (`mcp_server/tools.py`, `view.py`) | none | `get_state` | reads the cache |
| Server (`mcp_server/server.py`) | the tasks of the process | start, end of stdin, fatal error | runs the client, the sync and the MCP SDK |
| Installation and usage models (`installation.py`, `model/`) | none | references by id; validation of values | the cache, the tools, the command line |
| Capture (`capture/fetch.py`, `cli.py`, `store.py`) | results per endpoint; files | a pass per connection, anonymize, scan for secrets, write, remove | sends through the client; the file system |
| Anonymizer and catalog (`capture/anonymize.py`, `policy.py`, `catalog.py`) | maps of ids, names and keys; the catalog file | anonymize a capture; extract and merge its catalog | called by the capture; reads what it wrote |
| Command line, TLS and authorization, logging | none of interest | | |

What is hard: a send may be ended by its response, its timeout, its caller's
cancellation, a lost connection or several of them in one pass of the loop; responses
and pushes share one stream, and their order must survive into tasks; connections come
and go under the cache and the write tools; a command may take effect although its call
failed.

What makes each component correct:

- **client**: a pending entry exists exactly while its send waits; a lost connection
  fails every waiting send; responses reach the send they answer; push handlers and
  responses keep the order of the wire; the loop reconnects, and stops when cancelled;
- **cache**: fresh means current; no value goes back; no state is read with the model of
  another usage; after faults it becomes fresh again;
- **write tools**: at most one command per call and one per interval, only to a target of
  the tool's usages, and a report that is true;
- **server**: it ends when stdin does, with the exit code that fits;
- **messages**: a message is read as it was sent, or refused; a part of a content is never
  taken for all of it;
- **capture**: each endpoint is fetched until it has a final result, the deadline ends
  the run, the directory holds a complete capture with its manifest or nothing, and the
  exit status says which;
- **anonymizer and catalog**: what is published depends on the secrets only through which
  of them are equal, still says of the data what the capture said, and the catalog is the
  union of the captures merged into it.

## Modules

| Module | Models |
| --- | --- |
| `Client` | `run_websocket` and its task group, the reader, the ping, the connection routines, `send`, `PendingRequests`, the Tydom and the websocket |
| `CacheSync` | `Sync` and `Cache` over the stream of messages of a connection |
| `View` | what `get_state` answers, an operator on the cache of `CacheSync` |
| `WriteOnce` | abstract: what the write tools promise their callers |
| `Writes` | the write tools, composed with `CacheSync`, whose steps are `Synchronise` |
| `Server` | the process of the MCP server: extends `Client` with stdin, the SDK's task and the exit status |
| `Wire` | from the bytes of a message to what it is taken for: `protocol.py` and the constructors it calls |
| `Fetch` | `Fetcher` and `run_capture`, in seconds |
| `Capture` | `tydomio-capture` from its directory to its exit status: extends `Fetch` with the files |
| `Policy`, `Anonymize` | the table of rules, and the anonymization of a capture, as operators |
| `Catalog` | the entries of a capture and the merging of catalogs, as operators |
| `Publish` | captures anonymized and merged one after another: composes `Anonymize` and `Catalog` |
| `*Props` | the properties of each component |
| `MC*` | symmetry sets and instances for TLC |
| `ClientProofs`, `CacheSyncProofs`, `WritesProofs`, `CaptureProofs`, `ServerProofs`, `WireProofs`, `PublishProofs` | the theorems and their proofs |
| `DataInduction` | lemmas they share: induction, functions defined step by step, what `FlattenSeq` returns |

### Client

`run` is where `run_websocket` is suspended: `authorizing`, `authPause`, `opening`,
`connected` (in its task group), `unwinding` (the group waits for its cancelled tasks),
`closing` (the exit stack), `disconnecting` or `exiting` (in `_disconnect`), `pausing`,
or how it ended. `errors` are the kinds of errors its group collected: `lost`, a
`CommunicationError`, and `fatal`, any other. A caller is a task that sends: `Breaking`
(the ping, whose failed send ends the connection), `Routines` (a connection routine that
survives one, as `Sync` does) and `Outer` (tool calls, which outlive the connection).
`call`, `tid`, `future` and `interrupt` are where its `send` is, its transaction id, its
future and whether its task was cancelled, and by what. `futures` is `_futures`. `ready`
is the part of asyncio's FIFO ready queue that carries an order the client promises: the
first step of the push handlers and the wakeup of the answered sends.

Every step runs from one `await` to the next. A cancellation marks the task and, if its
future is pending, cancels it; what the task then sees is `ResumeAs`. `Abort` is the
task group cancelling its tasks. `Disconnect` is the `except*` clauses with the part of
`_disconnect` before its first `await`, as nothing can run in between.

Left out: the texts, the durations (a timeout may fire at any moment; the ping's pause
ends at any moment), subscribing while running (a push has one handler), and handlers
that await. `websocket.send` may be suspended by flow control; it is assumed to end,
with the websocket at the latest.

The ready queue drains in order, and a websocket handing over several messages does not
change it: the reader creates the tasks of the handlers and sets the results of the
futures in the order it reads them, and each is one entry in the queue.

A request object that is sent twice keeps its transaction id. With `Resend` the outer
callers do that; the response to the first sending may then answer the second, which
nothing in the protocol can prevent, so `OwnResponse` is checked without it.

### CacheSync

The connection is what the runs of `Client` show of it: one FIFO from the Tydom
(`inbox`), one FIFO of what was read and not handled (`ready`), both gone with the
connection; the tasks of a connection end before the next begins. `source` and `config`
are the Tydom's own state. A value counts its changes, so that older and newer values
differ, and `MaxVersion` bounds the changes of all of them together; `BadVersions` are
values that do not validate: a snapshot then hides the entity, and a push is rejected
whole. `Unreadable` ones are cached, but the model of the usage refuses them in `View`,
which is where `FreshMeansCurrent` looks: it is stated on the answer of `get_state`.

`step` is the `await` of `Sync.routine`: the `send` of one of the four requests, the
backoff, or the wait for cancellation. `GotConfig`, `GotDevices` and `GotAreas` apply
what they received and send the next request in one step, as the code has no `await`
between. `CancelTasks` is the end of the connection's task group with the routine's
`finally` clause. An error of a push handler, or of the parser, is `fatal`: the client stops once
the connection has ended. Two parts of an entity are not in the code: the usage it was
created under and whether its snapshot was invalid.

`Conso` are the fields of the meters. docs/threats/mcp.md:319-326 says what the Tydom does
of them: it pushes them only once it has taken a `POST /refresh/all`, first the whole
state, then each change, as long as the connection lasts. `refresh` is that request: to
send, sent with `GotAreas`, or refused; `Feed` is the first push of a field after it, and
`fed` the fields that had one. A change of a meter that is not fed is either not pushed,
or pushed all the same, as the pushes that another client asked for reach every
connection. A request that fails for the client may have been taken, except that a refresh
fed before is known to be (`TakenOrNot`). `_refresh` does not try again, so after a refused
refresh the meters are stale in a fresh cache for as long as the connection lasts.
`FreshMeansCurrent` says exactly how far that goes: every other field is the Tydom's, up to
the pushes on their way, and no value shown, of a meter or not, is older than the
connection (`since`), which is also what is asked while a connection ends. `CatchesUp`
excuses the meters of a refused refresh and nothing else. What the description of
`get_state` says instead is the third disagreement below.

### Writes and WriteOnce

A call is one step from its arguments to the first suspension of `send`, since nothing
awaits before: `Refuse`, `RateLimit` or `Issue`. It then waits, and ends as
`Acknowledged`, `Unknown` (any `CommunicationError`) or `Cancelled`, or with the
connection (`Fails`). `command` is what became of its command, which the Tydom may take
or never receive at any later time (`Settles`). `Check` keeps the order of the refusals.
The clock counts ticks, `Grain` to a millisecond, so an interval need not be a whole
number of milliseconds, and `RetryAfter` rounds as the code does.
`Zones` are the usages `set_heating` writes: a list for endpoints and another for areas.
The run has an area and a group, as a third target is too large for TLC; endpoints, and the
difference between the two lists, are in the theorem `TargetsAreRight` only.

`WriteOnce` knows calls only by their report and their command: a call is refused and
has no command, or issues one, once; it is acknowledged only if the command was taken.
`Writes` implements it with the refusals mapped to one report, `not_sent`.

### Server

`stdin` is what the process can read, `stdio` the task of `_run_stdio` and `exit` the exit
status. The task leaves when its stdin ends, is `cancelled` when the client fails and
`broken` when the SDK cannot write; in the last two it waits for the thread that reads
stdin, as the comment of `_serve` says, and in all three for the tool calls it runs.
`CancelWebsocket` is `Cancel` of `Client`, by `_serve` or by the failed task group. The
configuration errors that exit with 2 happen before any task exists and are left out.

### Wire

The body is a sequence of bytes, because the decoder works on their places; the start
line, the headers and the meaning of the content are classes, each a set of texts the code
treats alike. The Tydom sends any content in any chunks: `Sizes` are the texts that say how
long they are, with zeros before and in either case, and `Framings` put spaces around a
size and an extension after it. `damage` cuts the body, adds a byte, or drops one from a
size line (`size`), from a chunk or from the end of one (`lost`). `DecodeChunk` is one
iteration of the loop of `_decode_chunked`, in which `int(text, 16)` is `HexValue`, after
`strip` and the cut at `;`. `kind` is what the message was taken for: a response that its
request accepts or refuses, an unexpected one, a push, a request of the Tydom, a malformed
message, or one whose error the reader does not foresee (`poison`, the second disagreement
below).

`DamageIsNoticed` leaves out a byte dropped from a size: a 1 dropped from 12 leaves 2, and
with the right bytes after it the body is a sound one with another content. The format has
no checksum, so no decoder could tell. `SP` and `SEMI` are the names of two bytes, the space
and the semicolon.

### Fetch and Capture

`run` is where `run_capture` is, `client` what it can see of `run_websocket`: `away` or
`up`, `failed` by itself or `ended` by the cancellation. Time is a number of seconds that
passes only when nothing is due (`Idle`), as asyncio's loop does, so that the arithmetic
of `DEADLINE` can be checked. `Proceed` is the loop of `Fetcher.__call__` from one GET to
the next. A response, its timeout, a websocket found closed while sending (`SendFails`)
and a connection lost otherwise, in which case the pass is cancelled (`ConnectionLost`),
may come at any moment.

`Capture` writes one document after another, creating a file and filling it in two steps,
the manifest last. `status` is the local variable of `main`, which its `finally` clause
reads: an error, an interrupt (`Interrupt`) or a killed process (`Kill`) may fall before
any step. The removal of the directory ignores its errors and goes on: `kept` are the
files that could not be removed (`RemoveFileFails`), and the directory, if not empty or if
its own removal fails, stays (`RemoveDirectory`); main returns 2 all the same. `ExitTells`
says what that status is worth: the only files left are those, and with another status every
document is whole. That it is not what the docstrings say is the fourth disagreement below.
`tainted` are the documents that would hold a secret, in their name, a key or a string, the
manifest included; the anonymized bodies are those of `Anonymize`, and their content is not
repeated here. Left out: an interrupt of the few lines before the `try`.

### Policy, Anonymize, Catalog and Publish

A body is the sequence of its leaves in the order of the walk, each with its path of keys
and list items, its JSON type and its text. `Rules` is the whole table of `policy.py`.
`Child` is one level of the walk, with the rules that may still match, by their numbers in
the table, the opaque subtrees and the renamed keys; `Endpoint` takes the leaves of one
body, `Leaf` is `_leaf` with the action of its rule; the maps of ids, names
and keys are sequences, so that a number is a place. What is left out of the data: objects
and lists with nothing in them have no leaf; the text of a number is one for int and float;
the patterns of the rules are given for the odd texts of the instance, and every other text
matches all of them.

A catalog is a function from usage, sort and name to an entry. `Extract` merges the
entries one after another in the order of `_entries` and collects the conflicts. `Publish` runs captures
through both: each is anonymized, then merged into the file, refused as a conflict or as
invalid; `merged` remembers the captures merged, as they were fetched, so that `CatalogIsUnion`
and `RefusedForAReason` speak of what the Tydom said and not only of what was published of it.
They and `EntriesKept` are about captures whose usages, fields and commands pass their rules
(`Legible`): of another value the published document has a placeholder, and the anonymizer
reports it. Left out: an http-error body that happens to have the shape of the documents, the
conversions pydantic makes of values that are not of the declared type, and a catalog file
that is not one.

## Runs

| Run | Bounds | Shows |
| --- | --- | --- |
| `client_safety` | ping, routine, tool call; 3 transaction ids; 1 message on its way, 1 handler waiting; pushes, malformed, text and fatal messages | pending requests are the sends in progress; a disconnection fails them all; `_connected` implies a websocket; own responses; order of pushes |
| `client_resend` | 2 tool calls sending the same 2 request objects | no send takes the entry of another |
| `client_liveness` | ping, tool call; 2 ids; pushes | sends end, silence is noticed, reconnection, cancellation ends |
| `client_fatal`, `client_malformed` | as `client_liveness`, with malformed and fatal messages | two disagreements, below |
| `cache_safety` | an endpoint with a field of a meter and another, an area with 2 fields, 2 usages; 3 changes, one value that does not validate and one that cannot be read, 1 change of the config, 1 fault; 1 message on its way, any number read and not handled | what `get_state` calls fresh is current, and no older than the connection; values never go back, usages agree |
| `cache_liveness` | an endpoint with a field of a meter, an area with a field; 2 changes, 1 of the config, 2 faults; 2 messages on their way | the cache catches up |
| `writes_safety` | 2 calls, an area, a group, 2 usages, interval 3, grain 2, clock to 4; 1 fault, 1 config change | rate, retry, targets, implements `WriteOnce` |
| `server` | ping, tool call; 2 ids; messages whose parsing fails | the process ends with stdin, or at the next line after a fatal error; its exit status |
| `wire` | contents of up to 2 chunks of up to 2 bytes among CR, LF and `0`, with every size of up to 2 digits in 2 framings, with each damage; every head with a content of one byte or none | a sound message is read as sent; a damaged one is refused; the decoder goes on in the body |
| `capture` | 2 endpoints, 2 s a request, 2 s to connect, 1 s of margin; a failure, of a removal too, an interrupt or a kill at any step | final outcomes, the deadline, the files, the exit status; the capture ends |
| `publish` | one capture of 1 or 2 leaves at, beside, below and above each of the 177 rules, with 13 values; captures of 2 devices with a field each, with their usages or with a value; of a device with a command; of 2 areas with a field each; 2 usages, 6 descriptors; 2 captures | nothing is told of the secrets; published values fit their descriptors; anonymizing keeps what the catalog reads; the catalog is the union of what the captures said |

The check lists the properties of each run; those of a component are stated, with the
text of the repository they come from, in its `*Props` module (in `Server` for the server).

Why the bounds are enough. The client's hazards involve two sends and one message: a
send that ends while the message that concerns it is on its way, and another that took
its transaction id; a third task and id let a bystander be disturbed. In the cache a
change can fall before, between and after the snapshot and the push, which takes two
changes and two messages, one read and one on its way; a third change lets a value that does
not validate be followed by one that cannot be read and one that can. One fault makes a failed
request, refresh or merge, or a second connection, at any point of the safety run; in the
liveness run two allow a failed request in a connection that is then lost, or two connections
lost in a row. A meter's field beside another tells what a failed refresh touches from what it
must not. The decoder's hazards are a content that looks like
its framing, and one chunk taken for another, for which two chunks of CR, LF and `0`
suffice; the theorems are for any. A capture's endpoints are alike, and two make a first, a last, a next and a
skipped one; the connections and the failures are not bounded, and the deadline bounds the
time. Each rule of the policy is met by a leaf it matches, one it nearly matches and one
under another key, with every type of value; two devices that share an id, or a field, or
neither, and two captures make the joins and the merges that can go wrong. For the writes, two calls and a clock past
the interval make a send, a refusal and a retry. Transaction ids are used again as soon
as nothing refers to them, which stands for the counter without bounding the number of
sends. Deadlock is checked for the client, which never stops; the other models end when
their budgets of changes and faults do, when the client or the process stops, when a
message is read or when the last capture is merged.

Fairness. asyncio runs every callback that is ready and every timer that is due, hence
weak fairness of resumptions, timeouts, the reader, the handlers, the task group and the
steps of `run_websocket`. The ping's `send` begins with strong fairness, because a
transaction id that other tasks take in the meantime is an artefact of the finite set.
Authorization and opening have strong fairness: the Tydom is not away for ever. Nothing
is assumed of the Tydom's answers in `client_liveness`, nor of the network; in
`cache_liveness` a request is answered unless one of the bounded faults hits it, and a refresh
that was taken is followed by the meters' pushes, as the Tydom was measured to do. `server`
takes the fairness of the client, and weak fairness of the tasks of its group; nothing is
assumed of stdin, so what is promised is conditional on what it sends. `capture` assumes
that the process runs, that timers fire and that a file operation ends; not that the Tydom
answers or that a connection ever opens. The decoder runs.

## Disagreements with what the repository says

The first two have a run each that TLC finds violated, and are the findings of
`PROJECT.json`. The other two are exceptions that a passing property states exactly:

- **Fatal errors skip `_disconnect`** (`client_fatal`). An error of a connection's task
  that is neither `CancelledError` nor `CommunicationError` leaves `run_websocket` from
  its `except*` clauses (client.py:212-218), so `_disconnect` is not reached: a send of a task
  that outlives the connection keeps waiting for its timeout, and `_connected` stays set.
  docs/threats/writes.md:79 says the pending write fails when the connection is lost.
- **Some malformed messages are fatal** (`client_malformed`). `_read_messages` goes on
  after `InvalidRequest` and `InvalidResponse` only. A `transac-id` that is not a number
  raises `ValueError` (response.py:42), and a push that is not UTF-8 raises
  `UnicodeDecodeError` (requests.py:111); each ends the client. The test
  `test_read_loop_keeps_reading_after_malformed_message` (tests/test_client.py:662) states
  that the reader goes on.
- **Meters go stale in a fresh cache** (`FreshMeansCurrent`). When `POST /refresh/all` fails,
  nothing sends it again on that connection (sync.py:86), and the Tydom pushes no meter
  without it (docs/threats/mcp.md:319-326): the values of the snapshot, with the validity
  they had there, are shown as connected and synced while the Tydom changes them. The
  comment of sync.py:87 says so; the description of `get_state` (tools.py:32-34), which
  tells the caller when to trust the values, names one exception only: "even then, one value
  can be out of date if the Tydom sent an update the server rejected". With `Followed` true
  of every field, TLC finds the property violated without any rejected update.
- **"Nothing written" may leave files** (`ExitTells`). `remove_directory` ignores the
  errors of `rmtree` (store.py:136) and `main` returns 2 without looking at the disk
  (cli.py:221-223), so a file that cannot be removed stays: "0 complete, 1 partial, 2 nothing
  written" (cli.py:176), "Remove the directory and everything in it, if present"
  (store.py:135). With `files = {}` for `files = kept`, TLC finds the property violated.

## Proofs

All assume only the named ASSUMEs on the constants: the sets of callers are disjoint,
the special values are apart (`Unset` is no usage, value or entity), the bounds are
natural numbers, for the write tools the interval is positive, for the capture there is an
endpoint and a request takes time, and the leaves of a fetched capture are a sequence, each
at a place of its own with a value of a JSON type, null having one text; they are listed
endpoint by endpoint in the order of the policy, and a step to a list item has no other key
(`BoxesAreListed`). Three more are of
`PublishProps`: the renaming that `Blind` speaks of is one-to-one, and no pattern of the
policy tells a text from its new one (`RenamingIsBlind`); and what the table of rules says
of data and descriptors (`DataHaveRules`), a fact about `Policy` that has no parameter and
that TLC evaluates: only values of the data are taken from descriptors, and the first rule
for each id or name that leads to one handles it as an id or a name. `CatalogHasRules` is
another such fact: the keys that the catalog reads are identifiers outside the opaque
subtrees, and the first rule for each id that leads from a device to its usage is an id's.
The four theorems of what the published documents are good for have one hypothesis,
`TextsDiffer(Nat)`: two numbers have different texts, none of them that of no id, and no
`<key-n>` is a key of the catalog. The prover has no
theory of texts; TLC evaluates it for the numbers up to 99 (`SmallTextsDiffer`).

- `ClientProofs`: `TypeCorrect`, then `OnlyInProgress`, `AlwaysReachable` and
  `NoneWaitsDisconnected`, for any callers, ids and bounds, and with or without requests
  sent twice. `InProgressOnly` is not inductive by itself: that a resumption may remove
  the entry of its own transaction id and no other needs that a pending future owns its
  entry (`Reachable`), and that a send not in flight has neither a future nor an id. The
  invariant is the conjunction of these. Most steps either leave the sends alone
  (`SameSends`) or end one (`EndPending`). That nobody waits while disconnected needs
  `Reachable` at the moment of `Flush`, which fails what it finds in `_futures`.
  `ConnectedMeansWebsocket` is inductive as it stands. `OwnAnswer`, for request objects
  sent once: transaction ids differ (`OneEach`), and what is on the wire under the id of a
  send in flight is that send's (`OwnWire`). `PushesFirst`: each answered send is once in
  the ready queue and owes exactly the handlers before it (`OrderInv`), which a lemma
  follows through the removal of the first callback (`BeforeTail`).
- `WritesProofs`: `RateIsKept`, because the limiter's memory is no earlier than any send
  (`Remembers`) and is set by every send, whatever becomes of it; `ImplementsWriteOnce`,
  step by step, with `Synchronise` mapped to a stutter or to the calls of a lost
  connection giving up together; `ReportsTheTruth`. Both need `OnConnection`, that a cache
  marked connected has a connection, which is why a write that passed the freshness check
  is never refused by `send` for want of a websocket. `WaitingIsEnough`: the invariant is
  that a call refused after the last send was refused before the interval had passed, and
  told to wait until it has (`Waits`), with the rounding of `RetryAfter` a lemma.
  `TargetsAreRight`: until the Tydom's config changes, it is the config on its way to the
  client, and the cached one from the moment the routine has had it (`ConfigFollowed`).
- `CacheSyncProofs`: the stream of what was sent and not handled, `ready \o inbox`, is what
  the arguments are about; each step appends to it, cuts its head, or cuts an answer or a
  push that does not validate. `ValuesNeverGoBack`, from `Orderly`: what the stream says of
  a field never decreases along it, is no older than what is cached, and no newer than what
  the Tydom holds. `FreshIsCurrent`, from `UpToDate`: whatever says an old value is followed
  in the stream by the push of the present one (`Coherent`), so that the order in which
  snapshots and pushes are merged does not matter, and each entity whose snapshot the
  routine has had is the Tydom's up to the pushes on their way (`Current`). Both speak of
  the fields that are `Told`: not those of a meter that the connection is not fed (`Unfed`),
  which join them with their first push. That no value shown is older than the connection
  holds of every field, and is an invariant of its own (`Recent`), for an unfed meter's old
  value is followed by nothing in the stream. `FreshByInvariants` puts the two together.
  `Linked` is the invariant of the connection: a cache that is synced has the routine past its snapshots,
  and none is without a connection.
- `CaptureProofs`: `PassInv`, on the pass: every endpoint before the one it awaits is
  settled, and none from there on is, a lost connection included; with it `OrderIsKept` and
  `AnswersAreFinal`. `DiskInv`, on the files: there is none before the scan for secrets was
  clean, a manifest is created once every other document is whole, the status changes
  only when all is, and a removal fails only of a capture whose status is still 2; from it
  `SecretsStayOut`, `ManifestCommits` and `StatusIsTrue`.
  `TimeInv`, for `DeadlineIsEnough`: while no connection was lost, the endpoint awaited was
  asked at most one timeout per endpoint before it after the first pass started, which is
  the argument behind `DEADLINE`, for any number of endpoints and any delays.
- `ServerProofs`: `StatusIsTrue`, from `ExitInv`: a run of the client that failed stays
  failed (`FailedForGood`), the stdio task returns only after stdin was closed, and no tool
  call is begun or left once the task has ended. `ServerImplementsClient`: each step of the
  process is a step of the client or leaves it alone, so that the theorems of the client
  are the server's too (`ServerKeepsTheSends`, `ServerAnswersItsOwn`). In the same way
  `WritesImplementCacheSync`, in `WritesProofs`, gives `FreshWithWrites`: the theorems of
  the cache with the write tools over it.
- `WireProofs`: `SoundIsReadAsSent`, `LossIsNoticed` and `DecodingAdvances`, for any bytes,
  any number of chunks of any length and sizes of any number of digits. The invariant
  (`DecodeInv`) is that the decoder of a body whose sizes are whole is at the start of a
  frame and has the chunks before it (`Synced`). From there one iteration reads the next
  chunk, or stops where the damage is (`DecodeInSync`): where a frame has all its bytes,
  the line ends at its first CR (`ReadsLine`), its size is what is left without spaces and
  extension (`TextIsTrimmed`), and the bytes of the chunk are taken by their number,
  whatever they are (`TakesChunk`); where it has lost one, the two bytes after the chunk
  are not CR LF, or those after the last size are not all that is left (`LostFrame`). The
  lemma needs that the line after a chunk does not begin with LF, which would take the place
  of a lost one; `FrameParts` has that. Where each frame is in the body (`Laid`) comes
  from what `FlattenSeq` returns.
- `PublishProofs`: `NothingElseIsPublished`, for any captures, with any number of leaves
  at any depth, and without a condition: what is published has a leaf in the place of each
  leaf of the capture (`IsDone`), a key is kept only where a rule names it or, outside the
  opaque subtrees, where it looks like an identifier, and a value exactly where it is null
  or a rule for its whole path keeps it; everything else is a placeholder, a number, or what
  a descriptor says of it, ids are numbered one for one, and a leaf that has no rule or breaks
  its rule is in the report. What a position of the walk knows (`IsAt`) is that the rules still
  active are those that lead through the keys above it, and that it is opaque below an opaque
  path; `LeafIs` takes the actions one by one, and `Confined` holds after each leaf and each
  endpoint, of the leaves reached so far (`Reached`), which are the first ones because a
  capture is listed in the order of the policy.
  `SecretsDoNotShow`, that numbers hide what they number and the rest hides itself: a
  capture and the one with other secrets are anonymized side by side, and after each key,
  leaf and endpoint they are alike (`ArePlacesAlike`, `AreAlike`, `AreCapturesAlike`): the
  same leaves are written, and the maps of ids, names and keys have the same numbers for
  texts renamed one for one (`NumberedAlike`, `AreRenamed`). A value of the data needs more,
  for it is taken from another document: the ids and names that lead to a descriptor are
  renamed one for one, so that the same descriptor is found in both captures
  (`DescriptorsAlike`), and its minimum and enum values are public (`EnumAlike`,
  `DataAlike`). The proof needs one condition that is a fact about the code: a data name that is
  not a string is redacted, but `str(item.get("name"))` (anonymize.py:295) still finds the
  descriptor of that name, so that the number shows in which values are kept; `Blind` speaks of the
  captures whose data are named by strings (`DataAreNamed`), as the Tydom's are.
  `CatalogReadsTheSame`, that what is published can be worked with: the keys that the catalog
  knows stay and no other key becomes one (`KnownPathStays`), so that it finds the same leaves
  in both captures with the same values (`ReadsTheSame`), and each descriptor, enum and
  parameter with them (`DescriptorRead`, `CommandRead`). The usage of a device is found
  through its ids, which are renumbered in two documents: a document of the right shape has
  ints there (`Shaped`, checked of what was published), an int that is an id is a number of
  the one map of ids (`IdRead`), and two numbers are equal where the ids are (`NumbersApart`,
  `UsagesRead`).
  `ReferencesAreKept`, that the data keep their descriptors where nothing was refused: then
  every leaf of an endpoint has a rule that it does not break and is published at its place
  (`RuledIs`), names, minima and enum values as they were (`GetKept`, `EnumsStay`) and ids by
  their numbers, the same for the same text and never the text of no id (`IdsApart`). A
  descriptor therefore describes the published value just where it has the ids and the name
  of the value in the capture (`StillDescribed`), the first of them is the one that the
  anonymizer took (`DescribedBy`), and the value is what that one says (`ValueFits`).
  `ValuesFit` speaks of captures whose ids and keys can be told (`Unambiguous`), a second
  fact about the code: `str(item.get("id"))` (anonymize.py:162 and 295) takes a missing id and
  an id with the text "None" for the same, of which only the second is numbered. Of the table
  of rules it needs that each level of ids is that of a list item and that the data have the
  "value" rule where their descriptors say (`DataHaveRules`).
  `CatalogIsTheUnion` and `RefusalsHaveReasons`, for any captures in any order, rest on
  `CatalogReadsTheSame`.
  Each catalog says what a set of entries says (`Says`) and, where no conflict was met, what
  all of them say (`Agrees`); `Merge` keeps both, and a conflict has two entries that differ.
- `DataInduction`: the induction theorems of the library take an operator, which no
  prover here can instantiate. `SetInduction` says the same of a set of numbers, and from
  it `Recursion` gives the functions that a step defines, which stand in for the recursive
  definition of `FlattenSeq`. The models' own recursive functions (`MergeAll`, `Position`,
  `Endpoint`, `Anonymized`) are shown to exist by the same induction, on how far they go.

Only model-checked:

- liveness: the prover has no ENABLED, and fairness needs it. Every invariant
  and every action property that a run checks is proved.

## Not modelled

- The usage models and `Config` (`model/`): declarative validation, field by field, without
  state; its verdict is a value that is valid, bad or unreadable.
- Authorization and TLS (`network.py`): one HTTP exchange, whose failure is an outcome of
  `Authorize`.
- The command line tool (`cli.py`), logging and scrubbing (`scrub.py`, `stderr_logging.py`),
  and the reading of arguments, prompts and environment variables.
- The formatting of requests to bytes, and of the answer of `get_state`: names, validities,
  groups, the choice of ids.
- `Installation.read_endpoint`, a lookup in one push for users of the library.
- The subscription of handlers while the client runs: no program of the repository does it.

## What is next

- `Capture` over the connection of `Client` instead of its view of it from outside, as
  `Server` is, to check that view.
- A request object sent again while the late response of its first sending is on its way
  (`client.py:362`), the one hazard that no property covers.
