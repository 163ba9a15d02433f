---------------------------- MODULE CaptureProofs ----------------------------
(***************************************************************************)
(* What holds of a capture for any number of endpoints, any timeouts and   *)
(* any number of lost connections.                                         *)
(***************************************************************************)
EXTENDS CaptureProps, TLAPS

(* The pass: it stands at the first endpoint that is not settled.          *)
PassInv ==
  /\ pos # 0 => /\ client = "up"
                /\ \A i \in 1..(pos - 1) : results[i] \in Settled
                /\ \A i \in pos..N : results[i] \notin Settled
  /\ InOrder

(* Nothing is on the disk before everything to write is known to be clean. *)
DiskInv ==
  /\ pc \in {"starting", "fetching"} => files = {}
  /\ pc \in {"writing", "printing"} => FindSecrets = {}
  /\ files \cap tainted = {}
  /\ pc \in {"starting", "fetching", "writing", "removing", "aborting"}
       => status = NothingWritten
  /\ pc = "printing" =>
       /\ status # NothingWritten /\ Documents \subseteq whole
       /\ status = Complete => AllOk
  /\ kept # {} => status = NothingWritten
                 /\ pc \in {"removing", "aborting", "abandoned", "exited", "interrupted"}
  /\ Manifest \in files /\ pc \notin {"removing", "aborting", "abandoned"} /\ kept = {}
       => Written \subseteq whole

LEMMA SettledIsRecorded ==
  ASSUME NEW o \in Outcome \cup {"none"} PROVE Recorded(o) <=> o \in Settled
BY DEF Recorded, Settled, Outcome, Answers

LEMMA TypeStep == TypeOK /\ [Next]_vars => TypeOK'
<1> SUFFICES ASSUME TypeOK, [Next]_vars PROVE TypeOK'
  OBVIOUS
<1> USE NAssumption, DelaysAreNat DEF TypeOK, FetchTypeOK, Endpoints, Outcome, Answers, Ended,
        Manifest, Complete, Partial, NothingWritten
<1>1. CASE CreateDirectory
  BY <1>1 DEF CreateDirectory, fetchVars
<1>2. CASE FetchStep
  <2> USE <1>2 DEF FetchStep, storeVars
  <2>1. CASE PassStarts
    BY <2>1 DEF PassStarts, Proceed
  <2>2. CASE Answered
    <3>1. results' \in [Endpoints -> Outcome \cup {"none"}]
      BY <2>2 DEF Answered
    <3> QED
      BY <2>2, <3>1 DEF Answered, Proceed
  <2>3. CASE TimedOut
    BY <2>3 DEF TimedOut, Proceed
  <2>4. CASE SendFails
    BY <2>4 DEF SendFails, Drops
  <2>5. CASE ConnectionLost
    BY <2>5 DEF ConnectionLost, Drops
  <2>6. CASE ClientFails
    BY <2>6 DEF ClientFails
  <2>7. CASE WaitReturns
    BY <2>7 DEF WaitReturns
  <2>8. CASE ClientEnds
    BY <2>8 DEF ClientEnds
  <2>9. CASE Collects
    BY <2>9 DEF Collects
  <2>10. CASE Tick
    BY <2>10 DEF Tick
  <2> QED
    BY <2>1, <2>2, <2>3, <2>4, <2>5, <2>6, <2>7, <2>8, <2>9, <2>10 DEF FetchNext
<1>3. CASE WriteBegins
  BY <1>3 DEF WriteBegins, fetchVars
<1>10. CASE CaptureFails \/ WriteFails
  <2>1. Fails
    BY <1>10 DEF CaptureFails, WriteFails
  <2> QED
    BY <2>1 DEF Fails, fetchVars
<1>4. ASSUME NEW f \in 1..Manifest, CreateFile(f) PROVE TypeOK'
  BY <1>4 DEF CreateFile, Documents, Written, fetchVars
<1>5. ASSUME NEW f \in 1..Manifest, FillFile(f) PROVE TypeOK'
  BY <1>5 DEF FillFile, fetchVars
<1>6. ASSUME NEW f \in 1..Manifest, RemoveFile(f) PROVE TypeOK'
  BY <1>6 DEF RemoveFile, fetchVars
<1>14. ASSUME NEW f \in 1..Manifest, RemoveFileFails(f) PROVE TypeOK'
  BY <1>14 DEF RemoveFileFails, fetchVars
<1>7. CASE WriteEnds
  BY <1>7 DEF WriteEnds, fetchVars
<1>8. CASE Exits
  BY <1>8 DEF Exits, fetchVars
<1>11. CASE Interrupt
  BY <1>11 DEF Interrupt, fetchVars
<1>12. CASE RemoveDirectory
  BY <1>12 DEF RemoveDirectory, fetchVars
<1>13. CASE Kill
  BY <1>13 DEF Kill, fetchVars
<1>9. CASE UNCHANGED vars
  BY <1>9 DEF vars, fetchVars, storeVars
<1> QED
  BY <1>1, <1>2, <1>3, <1>4, <1>5, <1>6, <1>7, <1>8, <1>9, <1>10, <1>11, <1>12, <1>13, <1>14
     DEF Next, Main

\* Type correctness of a capture, for every table of endpoints.
THEOREM CaptureTypeCorrect == Spec => []TypeOK
<1>1. Init => TypeOK
  <2> SUFFICES ASSUME Init PROVE TypeOK
    OBVIOUS
  <2>1. FetchTypeOK
    <3>1. 0 \in 0..N
      BY NAssumption
    <3>2. results \in [Endpoints -> Outcome \cup {"none"}]
      BY DEF Init, FetchInit
    <3> QED
      BY <3>1, <3>2 DEF Init, FetchInit, FetchTypeOK
  <2> QED
    BY <2>1 DEF Init, TypeOK, Complete, Partial, NothingWritten
<1> QED
  BY <1>1, TypeStep, PTL DEF Spec

-----------------------------------------------------------------------------
LEMMA ProceedStops ==
  ASSUME TypeOK, NEW from \in 1..(N + 1), NEW res \in [Endpoints -> Outcome \cup {"none"}],
         Proceed(from, res)
  PROVE  \E i \in from..(N + 1) :
           /\ \A k \in from..(i - 1) : res[k] \in Settled
           /\ i <= N => res[i] \notin Settled
           /\ pos' = IF i <= N THEN i ELSE 0
           /\ done' = (done \/ i = N + 1)
           /\ sentAt' = IF i <= N THEN now ELSE 0
<1>1. PICK i \in from..(N + 1) :
        /\ \A k \in from..(i - 1) : Recorded(res[k])
        /\ i <= N => ~Recorded(res[i])
        /\ pos' = IF i <= N THEN i ELSE 0
        /\ done' = (done \/ i = N + 1)
        /\ sentAt' = IF i <= N THEN now ELSE 0
  BY DEF Proceed
<1>2. \A k \in 1..N : Recorded(res[k]) <=> res[k] \in Settled
  BY SettledIsRecorded DEF Endpoints
<1>3. \A k \in from..(i - 1) : res[k] \in Settled
  BY <1>1, <1>2, NAssumption
<1>4. i <= N => res[i] \notin Settled
  BY <1>1, <1>2, NAssumption
<1> QED
  BY <1>1, <1>3, <1>4

\* A pass that goes on after settling an endpoint, or starts, keeps the order.
LEMMA ProceedKeepsOrder ==
  ASSUME TypeOK, NEW from \in 1..(N + 1),
         results' \in [Endpoints -> Outcome \cup {"none"}],
         Proceed(from, results'), client' = "up",
         \A i \in 1..(from - 1) : results'[i] \in Settled,
         InOrder, done => \A i \in 1..N : results'[i] \in Settled,
         \A i \in from..N : results'[i] = results[i]
  PROVE  PassInv'
<1>1. PICK i \in from..(N + 1) :
           /\ \A k \in from..(i - 1) : results'[k] \in Settled
           /\ i <= N => results'[i] \notin Settled
           /\ pos' = IF i <= N THEN i ELSE 0
           /\ done' = (done \/ i = N + 1)
  BY ProceedStops
<1>2. \A k \in 1..(i - 1) : results'[k] \in Settled
  BY <1>1, NAssumption
<1>3. \A k \in (i + 1)..N : results'[k] = "none"
  <2> SUFFICES ASSUME NEW k \in (i + 1)..N PROVE results[k] = "none"
    BY NAssumption
  <2>1. results[i] \notin Settled
    BY <1>1, NAssumption
  <2> QED
    BY <2>1, NAssumption DEF InOrder, Endpoints
<1>4. \A k \in i..N : results'[k] \notin Settled
  <2> SUFFICES ASSUME NEW k \in i..N PROVE results'[k] \notin Settled
    OBVIOUS
  <2>1. CASE k = i
    BY <2>1, <1>1, NAssumption
  <2>2. CASE k # i
    BY <2>2, <1>3, NAssumption DEF Settled, Answers
  <2> QED
    BY <2>1, <2>2
<1>5. InOrder'
  <2>1. ASSUME NEW j \in 1..N, NEW k \in 1..N, j < k, results'[k] # "none"
        PROVE  results'[j] \in Settled
    <3>1. k <= i
      BY <2>1, <1>1, <1>3, NAssumption
    <3>2. j \in 1..(i - 1)
      BY <3>1, <2>1, <1>1, NAssumption
    <3> QED
      BY <3>2, <1>2
  <2>2. ASSUME done', NEW j \in 1..N PROVE results'[j] \in Settled
    <3>1. done \/ i = N + 1
      BY <2>2, <1>1
    <3>2. CASE done
      BY <3>2
    <3>3. CASE i = N + 1
      BY <3>3, <1>2, NAssumption
    <3> QED
      BY <3>1, <3>2, <3>3
  <2> QED
    BY <2>1, <2>2 DEF InOrder, Endpoints
<1>6. pos' # 0 => /\ client' = "up"
                  /\ \A k \in 1..(pos' - 1) : results'[k] \in Settled
                  /\ \A k \in pos'..N : results'[k] \notin Settled
  BY <1>1, <1>2, <1>4, NAssumption
<1> QED
  BY <1>5, <1>6 DEF PassInv

LEMMA PassStep == TypeOK /\ TypeOK' /\ PassInv /\ [Next]_vars => PassInv'
<1> SUFFICES ASSUME TypeOK, TypeOK', PassInv, [Next]_vars PROVE PassInv'
  OBVIOUS
<1> USE NAssumption
<1>1. CASE UNCHANGED <<results, done, pos, client>>
  BY <1>1 DEF PassInv, InOrder
<1>2. CASE FetchStep
  <2> results' \in [Endpoints -> Outcome \cup {"none"}] /\ pos \in 0..N
    BY DEF TypeOK, FetchTypeOK
  <2>1. CASE PassStarts
    <3>1. Proceed(1, results')
      BY <2>1 DEF PassStarts, Proceed
    <3> QED
      BY <2>1, <3>1, ProceedKeepsOrder DEF PassStarts, PassInv, InOrder, Endpoints
  <2>2. CASE Answered \/ TimedOut
    <3>1. PICK o \in Settled : results' = [results EXCEPT ![pos] = o]
      BY <2>2 DEF Answered, TimedOut, Settled
    <3>2. pos # 0 /\ Proceed(pos + 1, results') /\ client' = client
      BY <2>2 DEF Answered, TimedOut
    <3>3. pos \in 1..N /\ pos + 1 \in 1..(N + 1)
      BY <3>2
    <3>4. \A i \in 1..N : results'[i] = IF i = pos THEN o ELSE results[i]
      BY <3>1 DEF TypeOK, FetchTypeOK, Endpoints
    <3>5. \A i \in 1..pos : results'[i] \in Settled
      <4> SUFFICES ASSUME NEW i \in 1..pos PROVE results'[i] \in Settled
        OBVIOUS
      <4>1. CASE i = pos
        BY <4>1, <3>3, <3>4
      <4>2. CASE i # pos
        BY <4>2, <3>2, <3>3, <3>4 DEF PassInv
      <4> QED
        BY <4>1, <4>2
    <3>6. done => \A i \in 1..N : results'[i] \in Settled
      BY <3>4 DEF PassInv, InOrder, Endpoints
    <3>7. \A i \in (pos + 1)..N : results'[i] = results[i]
      BY <3>3, <3>4
    <3>8. client' = "up" /\ InOrder
      BY <3>2 DEF PassInv
    <3>9. \A i \in 1..((pos + 1) - 1) : results'[i] \in Settled
      BY <3>3, <3>5
    <3> QED
      BY <3>2, <3>3, <3>6, <3>7, <3>8, <3>9, ProceedKeepsOrder
  <2>3. CASE SendFails
    <3>1. pos \in 1..N /\ pos' = 0 /\ done' = done
      BY <2>3 DEF SendFails
    <3>2. \A i \in 1..N : results'[i] = IF i = pos THEN "communication-error" ELSE results[i]
      BY <2>3 DEF SendFails, TypeOK, FetchTypeOK, Endpoints
    <3>3. /\ \A i \in 1..(pos - 1) : results[i] \in Settled
          /\ results[pos] \notin Settled
      BY <3>1 DEF PassInv
    <3>4. ~done
      BY <3>1, <3>3 DEF PassInv, InOrder, Endpoints
    <3>5. ASSUME NEW i \in 1..N, NEW k \in 1..N, i < k, results'[k] # "none"
          PROVE  results'[i] \in Settled
      <4>1. k <= pos
        BY <3>1, <3>2, <3>3, <3>5 DEF PassInv, InOrder, Endpoints
      <4>2. i \in 1..(pos - 1)
        BY <4>1, <3>1, <3>5
      <4> QED
        BY <4>2, <3>1, <3>2, <3>3
    <3> QED
      BY <3>1, <3>4, <3>5 DEF PassInv, InOrder, Endpoints
  <2>4. CASE ConnectionLost \/ ClientFails \/ ClientEnds
    <3>1. pos' = 0 /\ results' = results /\ done' = done
      BY <2>4 DEF ConnectionLost, ClientFails, ClientEnds
    <3> QED
      BY <3>1 DEF PassInv, InOrder
  <2>5. CASE WaitReturns \/ Collects \/ Tick
    <3>1. UNCHANGED <<results, done, pos, client>>
      BY <2>5 DEF WaitReturns, Collects, Tick
    <3> QED
      BY <3>1, <1>1
  <2> QED
    BY <1>2, <2>1, <2>2, <2>3, <2>4, <2>5 DEF FetchStep, FetchNext
<1>3. ASSUME ~FetchStep PROVE UNCHANGED fetchVars
  BY <1>3 DEF Next, Main, CreateDirectory, WriteBegins, CaptureFails, WriteFails, Fails,
       CreateFile, FillFile, RemoveFile, RemoveFileFails, WriteEnds, Exits, Interrupt,
       RemoveDirectory, Kill, vars
<1> QED
  BY <1>1, <1>2, <1>3 DEF fetchVars

LEMMA PassInvariant == Spec => [](TypeOK /\ PassInv)
<1>1. Init => PassInv
  BY NAssumption DEF Init, FetchInit, PassInv, InOrder, Endpoints
<1> QED
  BY <1>1, PassStep, CaptureTypeCorrect, PTL DEF Spec

\* The endpoints are settled in order, and the pass is done only when they all are.
THEOREM OrderIsKept == Spec => []InOrder
<1>1. PassInv => InOrder
  BY DEF PassInv
<1> QED
  BY <1>1, PassInvariant, PTL

\* What an endpoint answered is never asked again, nor replaced.
THEOREM AnswersAreFinal == Spec => FinalStays
<1>1. TypeOK /\ PassInv /\ [Next]_vars =>
        [\A i \in Endpoints : results[i] \in Settled => results'[i] = results[i]]_vars
  <2> SUFFICES ASSUME TypeOK, PassInv, [Next]_vars, results' # results,
                      NEW i \in Endpoints, results[i] \in Settled
               PROVE  results'[i] = results[i]
    OBVIOUS
  <2>1. FetchNext
    BY DEF Next, Main, FetchStep, CreateDirectory, WriteBegins, CaptureFails, WriteFails,
         Fails, CreateFile, FillFile, RemoveFile, RemoveFileFails, WriteEnds, Exits, Interrupt,
         RemoveDirectory, Kill, vars, fetchVars
  <2>2. Answered \/ TimedOut \/ SendFails
    BY <2>1 DEF FetchNext, PassStarts, ConnectionLost, ClientFails, WaitReturns,
         ClientEnds, Collects, Tick
  <2>3. pos \in 1..N /\ results[pos] \notin Settled
    BY <2>2, NAssumption DEF Answered, TimedOut, SendFails, PassInv, TypeOK, FetchTypeOK
  <2>4. \E o : results' = [results EXCEPT ![pos] = o]
    BY <2>2 DEF Answered, TimedOut, SendFails
  <2> QED
    BY <2>3, <2>4 DEF TypeOK, FetchTypeOK
<1> QED
  BY <1>1, PassInvariant, PTL DEF Spec, FinalStays

-----------------------------------------------------------------------------
LEMMA DiskStep == TypeOK /\ DiskInv /\ [Next]_vars => DiskInv'
<1> SUFFICES ASSUME TypeOK, DiskInv, [Next]_vars PROVE DiskInv'
  OBVIOUS
<1> USE NAssumption DEF TypeOK, DiskInv, Complete, Partial, NothingWritten, Manifest
<1>1. CASE FetchStep
  BY <1>1 DEF FetchStep, storeVars
<1>2. CASE UNCHANGED fetchVars /\ UNCHANGED tainted
  <2> Written' = Written /\ Documents' = Documents /\ AllOk' = AllOk /\ FindSecrets' = FindSecrets
    BY <1>2 DEF Written, IsWritten, Documents, AllOk, FindSecrets, Collected, fetchVars
  <2>1. CASE CreateDirectory
    BY <2>1 DEF CreateDirectory
  <2>2. CASE WriteBegins
    BY <2>2 DEF WriteBegins, Publishable
  <2>3. CASE Fails /\ pc \in {"fetching", "writing"}
    BY <2>3 DEF Fails
  <2>4. ASSUME NEW f \in 1..Manifest, CreateFile(f) PROVE DiskInv'
    <3>1. f \notin tainted
      BY <2>4 DEF CreateFile, Documents, FindSecrets, Endpoints
    <3>2. f = Manifest => Written \subseteq whole
      BY <2>4 DEF CreateFile, Documents, Written, Endpoints
    <3> QED
      BY <2>4, <3>1, <3>2 DEF CreateFile
  <2>5. ASSUME NEW f \in 1..Manifest, FillFile(f) PROVE DiskInv'
    BY <2>5 DEF FillFile
  <2>6. ASSUME NEW f \in 1..Manifest, RemoveFile(f) \/ RemoveFileFails(f) PROVE DiskInv'
    BY <2>6 DEF RemoveFile, RemoveFileFails
  <2>7. CASE WriteEnds
    BY <2>7 DEF WriteEnds
  <2>8. CASE Exits \/ UNCHANGED vars
    BY <2>8 DEF Exits, vars, storeVars
  <2>9. CASE Interrupt
    BY <2>9 DEF Interrupt
  <2>10. CASE RemoveDirectory
    BY <2>10 DEF RemoveDirectory
  <2>11. CASE Kill
    BY <2>11 DEF Kill, Ended
  <2> QED
    BY <1>1, <2>1, <2>2, <2>3, <2>4, <2>5, <2>6, <2>7, <2>8, <2>9, <2>10, <2>11
       DEF Next, Main, CaptureFails, WriteFails
<1>3. ASSUME ~FetchStep PROVE UNCHANGED fetchVars /\ UNCHANGED tainted
  BY <1>3 DEF Next, Main, CreateDirectory, WriteBegins, CaptureFails, WriteFails, Fails,
       CreateFile, FillFile, RemoveFile, RemoveFileFails, WriteEnds, Exits, Interrupt,
       RemoveDirectory, Kill, vars
<1> QED
  BY <1>1, <1>2, <1>3

LEMMA ExitStep == TypeOK /\ DiskInv /\ ExitTells /\ [Next]_vars => ExitTells'
<1> SUFFICES ASSUME TypeOK, DiskInv, ExitTells, [Next]_vars, pc' = "exited"
             PROVE  ExitTells'
  BY DEF ExitTells
<1> USE NAssumption DEF TypeOK, DiskInv, ExitTells, Complete, Partial, NothingWritten
<1>1. CASE UNCHANGED <<fetchVars, storeVars>>
  BY <1>1 DEF fetchVars, storeVars, Documents, Written, IsWritten, Manifest
<1>2. CASE CreateDirectory
  <2>1. files = {} /\ kept = {} /\ status = NothingWritten
    BY <1>2 DEF CreateDirectory
  <2> QED
    BY <1>2, <2>1 DEF CreateDirectory
<1>3. CASE Exits
  <2>1. Documents' = Documents /\ UNCHANGED <<results, files, whole, status>>
    BY <1>3 DEF Exits, Documents, Written, IsWritten, Manifest, fetchVars
  <2>2. status = Complete => \A i \in Endpoints : results[i] = "ok" /\ i \in Documents
    BY <1>3 DEF Exits, AllOk, Collected, Documents, Written, IsWritten
  <2>3. status # NothingWritten /\ Documents \subseteq whole /\ files # {}
    BY <1>3 DEF Exits, Documents
  <2>4. kept' = {}
    BY <1>3 DEF Exits
  <2> QED
    BY <2>1, <2>2, <2>3, <2>4
<1>4. CASE RemoveDirectory
  BY <1>4 DEF RemoveDirectory
<1>5. pc' = "exited" /\ pc # "exited" => CreateDirectory \/ Exits \/ RemoveDirectory
  BY DEF Next, Main, FetchStep, WriteBegins, CaptureFails, WriteFails, Fails,
       CreateFile, FillFile, RemoveFile, RemoveFileFails, WriteEnds, Interrupt, Kill, vars,
       storeVars
<1>6. pc = "exited" => CreateDirectory \/ Exits \/ RemoveDirectory \/ UNCHANGED vars
  BY DEF Next, Main, FetchStep, WriteBegins, CaptureFails, WriteFails, Fails,
       CreateFile, FillFile, RemoveFile, RemoveFileFails, WriteEnds, Interrupt, Kill, Ended
<1> QED
  BY <1>1, <1>2, <1>3, <1>4, <1>5, <1>6 DEF vars

LEMMA DiskInvariant == Spec => [](DiskInv /\ ExitTells)
<1>1. Init => DiskInv /\ ExitTells
  BY NAssumption DEF Init, DiskInv, ExitTells, NothingWritten
<1> QED
  BY <1>1, DiskStep, ExitStep, CaptureTypeCorrect, PTL DEF Spec

\* No file holds a secret, at any time.
THEOREM SecretsStayOut == Spec => []NoSecretWritten
<1>1. DiskInv => NoSecretWritten
  BY DEF DiskInv, NoSecretWritten
<1> QED
  BY <1>1, DiskInvariant, PTL

\* The manifest is the commit record of the capture.
THEOREM ManifestCommits == Spec => []ManifestMeansComplete
<1>1. TypeOK /\ DiskInv => ManifestMeansComplete
  BY DEF TypeOK, DiskInv, ManifestMeansComplete, Documents
<1> QED
  BY <1>1, DiskInvariant, CaptureTypeCorrect, PTL

\* The exit status tells what is on the disk, whatever failed: with status 2 only
\* the files whose removal failed are left.
THEOREM StatusIsTrue == Spec => []ExitTells
BY DiskInvariant, PTL

-----------------------------------------------------------------------------
(* The time of a connection that is never lost: request n was sent at most *)
(* n - 1 timeouts after the first pass started.                            *)
Worth(n) == n * RequestTimeout
Steady == connected /\ ~lost

TimeInv ==
  /\ ~connected => pos = 0 /\ client # "up"
  /\ client = "ended" => run # "waiting"
  /\ run = "captured" => connected
  /\ Steady => client # "away"
  /\ Steady /\ client = "up" /\ ~done =>
       /\ pos # 0
       /\ sentAt <= first + Worth(pos - 1)
       /\ now <= sentAt + RequestTimeout
  /\ run \in {"stopping", "captured"} /\ Steady /\ first <= ConnectBudget =>
       done \/ (run = "stopping" /\ client = "failed")

LEMMA Products ==
  ASSUME NEW a \in Nat, NEW b \in Nat
  PROVE  /\ Worth(a) \in Nat
         /\ a <= b => Worth(a) <= Worth(b)
         /\ Worth(a + 1) = Worth(a) + RequestTimeout
BY DelaysAreNat DEF Worth

\* The pass that starts, or goes on in time, is at its next request in time.
LEMMA ProceedInTime ==
  ASSUME TypeOK, NEW from \in 1..(N + 1), NEW res \in [Endpoints -> Outcome \cup {"none"}],
         Proceed(from, res), first' \in Nat, ~done',
         now <= first' + Worth(from - 1)
  PROVE  pos' # 0 /\ sentAt' = now /\ sentAt' <= first' + Worth(pos' - 1)
<1> USE NAssumption, DelaysAreNat DEF TypeOK, FetchTypeOK
<1>1. PICK i \in from..(N + 1) :
           /\ pos' = IF i <= N THEN i ELSE 0
           /\ done' = (done \/ i = N + 1)
           /\ sentAt' = IF i <= N THEN now ELSE 0
  BY ProceedStops
<1>2. i # N + 1
  BY <1>1
<1>3. i \in 1..N /\ pos' = i /\ sentAt' = now
  BY <1>1, <1>2
<1>4. Worth(from - 1) <= Worth(i - 1)
  <2>1. from - 1 \in Nat /\ i - 1 \in Nat /\ from - 1 <= i - 1
    BY <1>3
  <2> QED
    BY <2>1, Products
<1>5. Worth(from - 1) \in Nat /\ Worth(i - 1) \in Nat
  <2>1. from - 1 \in Nat /\ i - 1 \in Nat
    BY <1>3
  <2> QED
    BY <2>1, Products
<1>6. sentAt' <= first' + Worth(pos' - 1)
  BY <1>3, <1>4, <1>5
<1> QED
  BY <1>3, <1>6

LEMMA TimeStep == TypeOK /\ TypeOK' /\ TimeInv /\ [Next]_vars => TimeInv'
<1> SUFFICES ASSUME TypeOK, TypeOK', TimeInv, [Next]_vars PROVE TimeInv'
  OBVIOUS
<1> USE NAssumption, DelaysAreNat
<1>1. CASE UNCHANGED fetchVars
  BY <1>1 DEF fetchVars, TimeInv, Steady
<1>2. CASE PassStarts
  <2> USE DEF PassStarts, TimeInv, Steady
  <2>1. CASE connected
    BY <1>2, <2>1 DEF TypeOK, FetchTypeOK
  <2>2. CASE ~connected
    <3>1. first' = now /\ now' = now /\ Proceed(1, results)
      BY <1>2, <2>2
    <3>2. now <= first' + Worth(1 - 1)
      <4>1. 1 - 1 \in Nat
        OBVIOUS
      <4>2. Worth(1 - 1) \in Nat
        BY <4>1, Products
      <4> QED
        BY <3>1, <4>2 DEF TypeOK, FetchTypeOK
    <3>3. ~done' => pos' # 0 /\ sentAt' = now /\ sentAt' <= first' + Worth(pos' - 1)
      BY <3>1, <3>2, ProceedInTime DEF TypeOK, FetchTypeOK
    <3>4. ~done' => now' <= sentAt' + RequestTimeout
      BY <3>1, <3>3 DEF TypeOK, FetchTypeOK
    <3> QED
      BY <1>2, <3>3, <3>4
  <2> QED
    BY <2>1, <2>2
<1>3. CASE Answered \/ TimedOut
  <2>1. /\ pos # 0 /\ Proceed(pos + 1, results')
        /\ UNCHANGED <<connected, client, run, now, first, lost>>
    BY <1>3 DEF Answered, TimedOut
  <2>2. done => done'
    BY <2>1 DEF Proceed
  <2>3. ASSUME Steady, client = "up", ~done'
        PROVE  /\ pos' # 0
               /\ sentAt' <= first' + Worth(pos' - 1)
               /\ now' <= sentAt' + RequestTimeout
    <3> pos \in 1..N /\ now \in Nat /\ first \in Nat /\ sentAt \in Nat
      BY <2>1 DEF TypeOK, FetchTypeOK
    <3>1. sentAt <= first + Worth(pos - 1) /\ now <= sentAt + RequestTimeout
      BY <2>2, <2>3 DEF TimeInv
    <3>2. Worth(pos) = Worth(pos - 1) + RequestTimeout
          /\ Worth(pos - 1) \in Nat
      <4>1. pos - 1 \in Nat /\ (pos - 1) + 1 = pos
        OBVIOUS
      <4> QED
        BY <4>1, Products
    <3>3. now <= first' + Worth((pos + 1) - 1)
      <4>1. (pos + 1) - 1 = pos
        OBVIOUS
      <4>2. now <= first + Worth(pos)
        BY <3>1, <3>2
      <4> QED
        BY <2>1, <4>1, <4>2
    <3>4. pos' # 0 /\ sentAt' = now /\ sentAt' <= first' + Worth(pos' - 1)
      <4>1. pos + 1 \in 1..(N + 1) /\ first' \in Nat
        BY DEF TypeOK, FetchTypeOK
      <4>2. results' \in [Endpoints -> Outcome \cup {"none"}]
        BY DEF TypeOK, FetchTypeOK
      <4> QED
        BY <2>1, <2>3, <3>3, <4>1, <4>2, ProceedInTime
    <3> QED
      BY <2>1, <3>4
  <2>4. ~(~connected)
    BY <2>1 DEF TimeInv
  <2> QED
    BY <2>1, <2>2, <2>3, <2>4 DEF TimeInv, Steady
<1>4. CASE SendFails \/ ConnectionLost
  BY <1>4 DEF SendFails, ConnectionLost, Drops, TimeInv, Steady
<1>5. CASE ClientFails
  BY <1>5 DEF ClientFails, TimeInv, Steady
<1>6. CASE WaitReturns
  <2> UNCHANGED <<connected, done, pos, sentAt, client, now, first, lost>>
    BY <1>6 DEF WaitReturns
  <2>1. ASSUME run' = "stopping", Steady, first <= ConnectBudget PROVE done
    <3> SUFFICES ASSUME ~done PROVE FALSE
      OBVIOUS
    <3>1. client # "failed" /\ now >= Deadline /\ run = "waiting"
      BY <1>6, <2>1 DEF WaitReturns
    <3>3. client = "up"
      BY <3>1, <2>1 DEF TimeInv, TypeOK, FetchTypeOK
    <3>4. /\ pos \in 1..N /\ now \in Nat /\ first \in Nat /\ sentAt \in Nat
          /\ sentAt <= first + Worth(pos - 1)
          /\ now <= sentAt + RequestTimeout
      BY <3>3, <2>1 DEF TimeInv, TypeOK, FetchTypeOK
    <3>5. /\ Worth(pos - 1) + RequestTimeout <= Worth(N)
          /\ Worth(pos - 1) \in Nat /\ Worth(N) \in Nat
      <4>1. pos - 1 \in Nat /\ (pos - 1) + 1 = pos /\ pos <= N /\ pos \in Nat
        BY <3>4
      <4> QED
        BY <4>1, Products
    <3>6. now <= ConnectBudget + Worth(N)
      BY <3>4, <3>5, <2>1
    <3> QED
      BY <3>1, <3>4, <3>5, <3>6 DEF Deadline, Worth
  <2> QED
    BY <1>6, <2>1 DEF WaitReturns, TimeInv, Steady
<1>7. CASE ClientEnds
  BY <1>7 DEF ClientEnds, TimeInv, Steady
<1>8. CASE Collects
  BY <1>8 DEF Collects, TimeInv, Steady
<1>9. CASE Tick
  <2> UNCHANGED <<connected, done, pos, sentAt, client, run, first, lost>> /\ now' = now + 1
    BY <1>9 DEF Tick
  <2>1. pos # 0 => now' <= sentAt + RequestTimeout
    BY <1>9 DEF Tick, TypeOK, FetchTypeOK
  <2> QED
    BY <2>1 DEF TimeInv, Steady
<1>10. FetchNext \/ UNCHANGED fetchVars
  BY DEF Next, Main, FetchStep, CreateDirectory, WriteBegins, CaptureFails, WriteFails,
       Fails, CreateFile, FillFile, RemoveFile, RemoveFileFails, WriteEnds, Exits, Interrupt,
       RemoveDirectory, Kill, vars
<1> QED
  BY <1>1, <1>2, <1>3, <1>4, <1>5, <1>6, <1>7, <1>8, <1>9, <1>10 DEF FetchNext

LEMMA TimeInvariant == Spec => []TimeInv
<1>1. Init => TimeInv
  BY DEF Init, FetchInit, TimeInv, Steady
<1> QED
  BY <1>1, TimeStep, CaptureTypeCorrect, PTL DEF Spec

\* DEADLINE leaves the time of every request to a client that connects within
\* its budget and stays connected, however many endpoints and however long.
THEOREM DeadlineIsEnough == Spec => []DeadlineSuffices
<1>1. TypeOK /\ PassInv /\ TimeInv => DeadlineSuffices
  <2> SUFFICES ASSUME TypeOK, PassInv, TimeInv, run = "captured", first <= ConnectBudget,
                      ~lost, NEW i \in Endpoints
               PROVE  Collected(i) # "not-fetched"
    BY DEF DeadlineSuffices
  <2>1. connected => done
    BY DEF TimeInv, Steady
  <2>2. connected
    BY DEF TimeInv
  <2> QED
    BY <2>1, <2>2 DEF PassInv, InOrder, Collected, Settled, Answers
<1> QED
  BY <1>1, PassInvariant, TimeInvariant, CaptureTypeCorrect, PTL
=============================================================================
