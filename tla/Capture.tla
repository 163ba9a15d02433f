------------------------------ MODULE Capture ------------------------------
(***************************************************************************)
(* A run of tydomio-capture (tydomio/capture/cli.py and store.py): the     *)
(* directory created, the endpoints fetched, the documents scanned for     *)
(* secrets and written one by one, the manifest last, and the directory    *)
(* removed when nothing is to be kept.                                     *)
(*                                                                         *)
(* Documents are numbered as the endpoints are; the manifest comes last.   *)
(***************************************************************************)
EXTENDS Fetch

VARIABLES
  pc,      \* where main is, or how the process ended
  dir,     \* the output directory: absent, somebody else's, or ours
  files,   \* the documents whose file exists
  whole,   \* those whose content is written
  kept,    \* those whose removal failed
  status,  \* the local `status', then the exit status
  tainted  \* the documents that would hold a secret: in their name, a key or a string

storeVars == <<pc, dir, files, whole, kept, status>>
vars == <<fetchVars, storeVars, tainted>>

Manifest == N + 1
Complete == 0
Partial == 1
NothingWritten == 2
Ended == {"exited", "interrupted", "killed", "abandoned"}

TypeOK ==
  /\ FetchTypeOK
  /\ pc \in Ended \cup {"starting", "fetching", "writing", "printing", "removing", "aborting"}
  /\ dir \in {"absent", "foreign", "ours"}
  /\ files \subseteq 1..Manifest /\ whole \subseteq files /\ kept \subseteq files
  /\ status \in {Complete, Partial, NothingWritten}
  /\ tainted \subseteq 1..Manifest

Init ==
  /\ FetchInit
  /\ pc = "starting" /\ dir \in {"absent", "foreign"}
  /\ files = {} /\ whole = {} /\ kept = {} /\ status = NothingWritten
  /\ tainted \in SUBSET (1..Manifest)

-----------------------------------------------------------------------------
IsWritten(i) == results[i] \in {"ok", "http-error"}

Written == {i \in Endpoints : IsWritten(i)}
Documents == Written \cup {Manifest}
AllOk == \A i \in Endpoints : Collected(i) = "ok"
SomeOk == \E i \in Endpoints : Collected(i) = "ok"

FindSecretsInBodies == {i \in tainted \cap Endpoints : results[i] = "ok"} \* mutant

FindSecrets == tainted \cap Documents

\* mkdir, then chmod: when only the second fails, the empty directory stays.
CreateDirectory ==
  /\ pc = "starting"
  /\ \/ pc' = "exited" /\ UNCHANGED dir
     \/ dir = "absent" /\ dir' = "ours" /\ pc' \in {"exited", "fetching"}
  /\ UNCHANGED <<fetchVars, files, whole, kept, status, tainted>>

FetchStep == pc = "fetching" /\ FetchNext /\ UNCHANGED <<storeVars, tainted>>

Publishable == run = "captured" /\ SomeOk /\ FindSecrets = {}

WriteBegins ==
  /\ pc = "fetching" /\ Publishable
  /\ pc' = "writing"
  /\ UNCHANGED <<fetchVars, dir, files, whole, kept, status, tainted>>

Fails ==
  /\ pc' = "removing"
  /\ UNCHANGED <<fetchVars, dir, files, whole, kept, status, tainted>>

\* _Failure, ClientStopped, NeverConnected, or an error of the anonymization.
CaptureFails == pc = "fetching" /\ run \notin {"waiting", "stopping"} /\ Fails

CreateFileAnyOrder(f) == \* mutant: the documents are not sorted
  /\ pc = "writing" /\ f \in Documents \ files
  /\ files \subseteq whole
  /\ files' = files \cup {f}
  /\ UNCHANGED <<fetchVars, pc, dir, whole, kept, status, tainted>>

CreateFile(f) ==
  /\ pc = "writing" /\ f \in Documents \ files
  /\ \A d \in Documents : d < f => d \in whole
  /\ files' = files \cup {f}
  /\ UNCHANGED <<fetchVars, pc, dir, whole, kept, status, tainted>>

FillFile(f) ==
  /\ pc = "writing" /\ f \in files \ whole
  /\ whole' = whole \cup {f}
  /\ UNCHANGED <<fetchVars, pc, dir, files, kept, status, tainted>>

WriteFails == pc = "writing" /\ Fails

\* Mutant: the status is known before anything is written.
StatusTooEarly ==
  /\ pc = "writing"
  /\ status' = IF AllOk THEN Complete ELSE Partial
  /\ pc' = "printing"
  /\ UNCHANGED <<fetchVars, dir, files, whole, kept, tainted>>

\* _capture returns: from here on the capture is kept.
WriteEnds ==
  /\ pc = "writing" /\ Documents \subseteq whole
  /\ status' = IF AllOk THEN Complete ELSE Partial
  /\ pc' = "printing"
  /\ UNCHANGED <<fetchVars, dir, files, whole, kept, tainted>>

\* The summary is printed, or fails to be.
Exits ==
  /\ pc = "printing" /\ pc' = "exited"
  /\ UNCHANGED <<fetchVars, dir, files, whole, kept, status, tainted>>

\* KeyboardInterrupt: only the finally clause runs, by the status so far.
Interrupt ==
  /\ \/ pc \in {"fetching", "writing"} /\ pc' = "aborting"
     \/ pc = "printing" /\ pc' = "interrupted"
  /\ UNCHANGED <<fetchVars, dir, files, whole, kept, status, tainted>>

\* rmtree(ignore_errors=True): what cannot be removed is left, and so is the directory.
RemoveFile(f) ==
  /\ pc \in {"removing", "aborting"} /\ f \in files \ kept
  /\ files' = files \ {f} /\ whole' = whole \ {f}
  /\ UNCHANGED <<fetchVars, pc, dir, kept, status, tainted>>

RemoveFileFails(f) ==
  /\ pc \in {"removing", "aborting"} /\ f \in files \ kept
  /\ kept' = kept \cup {f}
  /\ UNCHANGED <<fetchVars, pc, dir, files, whole, status, tainted>>

RemoveDirectory ==
  /\ pc \in {"removing", "aborting"} /\ files = kept
  /\ dir' \in {"ours"} \cup {d \in {"absent"} : files = {}}
  /\ pc' = IF pc = "removing" THEN "exited" ELSE "interrupted"
  /\ UNCHANGED <<fetchVars, files, whole, kept, status, tainted>>

\* The process dies, or its removal of the directory is interrupted.
Kill ==
  /\ pc \notin Ended
  /\ pc' = IF pc \in {"removing", "aborting"} THEN "abandoned" ELSE "killed"
  /\ UNCHANGED <<fetchVars, dir, files, whole, kept, status, tainted>>

Main ==
  \/ CreateDirectory \/ FetchStep \/ WriteBegins \/ CaptureFails
  \/ \E f \in 1..Manifest :
       CreateFile(f) \/ FillFile(f) \/ RemoveFile(f) \/ RemoveFileFails(f)
  \/ WriteEnds \/ Exits \/ RemoveDirectory

Next == Main \/ WriteFails \/ Interrupt \/ Kill

Spec == Init /\ [][Next]_vars

\* The process runs, time passes and asyncio fires what is due; nothing says
\* that the Tydom answers or that a connection opens.
Fairness ==
  /\ WF_vars(CreateDirectory) /\ WF_vars(WriteBegins) /\ WF_vars(CaptureFails)
  /\ WF_vars(FetchStep /\ (TimedOut \/ WaitReturns \/ ClientEnds \/ Collects \/ Tick))
  /\ WF_vars(\E f \in 1..Manifest :
       CreateFile(f) \/ FillFile(f) \/ RemoveFile(f) \/ RemoveFileFails(f))
  /\ WF_vars(WriteEnds) /\ WF_vars(Exits) /\ WF_vars(RemoveDirectory)

FairSpec == Spec /\ Fairness
=============================================================================
