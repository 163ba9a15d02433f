-------------------------- MODULE CacheSyncProofs --------------------------
(***************************************************************************)
(* Proofs about the cache, for any endpoints, areas, usages and fields,    *)
(* and any changes, faults and delays: a fresh cache is current, no value  *)
(* goes back, no state is read under another usage.                        *)
(***************************************************************************)
EXTENDS CacheSyncProps, SequenceTheorems, TLAPS

Message == Push \cup Answer

-----------------------------------------------------------------------------
(* Sequences                                                               *)

\* The sequence t is s without its k-th element, or with one more at its end.
Cut(t, s, k) ==
  /\ k \in 1 .. Len(s) /\ Len(t) = Len(s) - 1
  /\ \A n \in 1 .. Len(t) : t[n] = s[IF n < k THEN n ELSE n + 1]
Longer(t, s, m) ==
  /\ Len(t) = Len(s) + 1 /\ t[Len(s) + 1] = m
  /\ \A n \in 1 .. Len(s) : t[n] = s[n]

LEMMA RemoveAtCuts ==
  ASSUME NEW S, NEW s \in Seq(S), NEW k \in 1 .. Len(s)
  PROVE  RemoveAt(s, k) \in Seq(S) /\ Cut(RemoveAt(s, k), s, k)
<1> DEFINE before == SubSeq(s, 1, k - 1)
           after == SubSeq(s, k + 1, Len(s))
<1>1. Len(s) \in Nat /\ \A n \in 1 .. Len(s) : s[n] \in S
  BY ElementOfSeq, LenProperties
<1>2. /\ before \in Seq(S) /\ Len(before) = k - 1
      /\ \A n \in 1 .. (k - 1) : before[n] = s[n]
  BY <1>1
<1>3. /\ after \in Seq(S) /\ Len(after) = Len(s) - k
      /\ \A n \in 1 .. (Len(s) - k) : after[n] = s[n + k]
  BY <1>1
<1> HIDE DEF before, after
<1>4. /\ before \o after \in Seq(S) /\ Len(before \o after) = Len(before) + Len(after)
      /\ \A n \in 1 .. Len(before) + Len(after) :
           (before \o after)[n] = IF n <= Len(before) THEN before[n] ELSE after[n - Len(before)]
  BY <1>2, <1>3, ConcatProperties, Zenon
<1>5. Len(before \o after) = Len(s) - 1
  BY <1>1, <1>2, <1>3, <1>4
<1>6. \A n \in 1 .. Len(before \o after) :
        (before \o after)[n] = s[IF n < k THEN n ELSE n + 1]
  <2> SUFFICES ASSUME NEW n \in 1 .. (Len(s) - 1)
               PROVE (before \o after)[n] = s[IF n < k THEN n ELSE n + 1]
    BY <1>5
  <2>1. CASE n < k BY <2>1, <1>1, <1>2, <1>3, <1>4
  <2>2. CASE ~(n < k)
    <3>1. (n - Len(before)) \in 1 .. (Len(s) - k) /\ n - Len(before) + k = n + 1
      BY <2>2, <1>1, <1>2
    <3>2. n \in 1 .. Len(before) + Len(after) /\ ~(n <= Len(before))
      BY <2>2, <1>1, <1>2, <1>3
    <3>3. (before \o after)[n] = after[n - Len(before)] BY <3>2, <1>4
    <3>4. after[n - Len(before)] = s[n + 1] BY <3>1, <1>3
    <3> QED BY <2>2, <3>3, <3>4
  <2> QED BY <2>1, <2>2
<1>7. RemoveAt(s, k) = before \o after
  BY DEF RemoveAt, before, after
<1> QED BY <1>4, <1>5, <1>6, <1>7 DEF Cut

LEMMA TailCuts ==
  ASSUME NEW S, NEW s \in Seq(S), s # <<>>
  PROVE  Head(s) \in S /\ Head(s) = s[1] /\ Tail(s) \in Seq(S) /\ Cut(Tail(s), s, 1)
  BY HeadTailProperties, LenProperties, EmptySeq DEF Cut

\* What is done to a part of a stream is done to the stream.
LEMMA StreamOf ==
  ASSUME NEW S, NEW r \in Seq(S), NEW q \in Seq(S)
  PROVE  /\ r \o q \in Seq(S) /\ Len(r \o q) = Len(r) + Len(q)
         /\ Len(r) \in Nat /\ Len(q) \in Nat
         /\ \A n \in 1 .. Len(r) : (r \o q)[n] = r[n]
         /\ \A n \in 1 .. Len(q) : (r \o q)[n + Len(r)] = q[n]
<1>1. /\ r \o q \in Seq(S) /\ Len(r \o q) = Len(r) + Len(q)
      /\ \A n \in 1 .. Len(r) + Len(q) :
           (r \o q)[n] = IF n <= Len(r) THEN r[n] ELSE q[n - Len(r)]
  BY ConcatProperties, Zenon
<1>2. Len(r) \in Nat /\ Len(q) \in Nat BY LenProperties
<1> QED BY <1>1, <1>2
LEMMA CutFirstPart ==
  ASSUME NEW S, NEW r \in Seq(S), NEW t \in Seq(S), NEW q \in Seq(S), NEW k, Cut(t, r, k)
  PROVE  Cut(t \o q, r \o q, k)
<1>1. /\ Len(r \o q) = Len(r) + Len(q) /\ Len(r) \in Nat /\ Len(q) \in Nat
      /\ \A n \in 1 .. Len(r) : (r \o q)[n] = r[n]
      /\ \A n \in 1 .. Len(q) : (r \o q)[n + Len(r)] = q[n]
  BY StreamOf
<1>2. /\ Len(t \o q) = Len(t) + Len(q) /\ Len(t) \in Nat
      /\ \A n \in 1 .. Len(t) : (t \o q)[n] = t[n]
      /\ \A n \in 1 .. Len(q) : (t \o q)[n + Len(t)] = q[n]
  BY StreamOf
<1>3. /\ k \in 1 .. Len(r) /\ Len(t) = Len(r) - 1
      /\ \A n \in 1 .. Len(t) : t[n] = r[IF n < k THEN n ELSE n + 1]
  BY DEF Cut
<1>4. ASSUME NEW n \in 1 .. Len(t \o q)
      PROVE (t \o q)[n] = (r \o q)[IF n < k THEN n ELSE n + 1]
  <2>1. CASE n <= Len(t)
    <3>1. (t \o q)[n] = r[IF n < k THEN n ELSE n + 1] BY <1>2, <1>3, <2>1
    <3>2. (IF n < k THEN n ELSE n + 1) \in 1 .. Len(r) BY <1>1, <1>2, <1>3, <2>1
    <3> QED BY <3>1, <3>2, <1>1
  <2>2. CASE ~(n <= Len(t))
    <3>1. n - Len(t) \in 1 .. Len(q) /\ n = (n - Len(t)) + Len(t)
      BY <1>1, <1>2, <2>2
    <3>2. (t \o q)[n] = q[n - Len(t)] BY <3>1, <1>2
    <3>3. n + 1 = (n - Len(t)) + Len(r) /\ ~(n < k) BY <1>1, <1>2, <1>3, <2>2
    <3>4. (r \o q)[n + 1] = q[n - Len(t)] BY <3>1, <3>3, <1>1
    <3> QED BY <3>2, <3>3, <3>4
  <2> QED BY <2>1, <2>2
<1>5. k \in 1 .. Len(r \o q) /\ Len(t \o q) = Len(r \o q) - 1
  BY <1>1, <1>2, <1>3
<1> QED BY <1>4, <1>5 DEF Cut

LEMMA CutSecondPart ==
  ASSUME NEW S, NEW r \in Seq(S), NEW q \in Seq(S), NEW t \in Seq(S), NEW k, Cut(t, q, k)
  PROVE  Cut(r \o t, r \o q, k + Len(r))
<1>1. /\ Len(r \o q) = Len(r) + Len(q) /\ Len(r) \in Nat /\ Len(q) \in Nat
      /\ \A n \in 1 .. Len(r) : (r \o q)[n] = r[n]
      /\ \A n \in 1 .. Len(q) : (r \o q)[n + Len(r)] = q[n]
  BY StreamOf
<1>2. /\ Len(r \o t) = Len(r) + Len(t) /\ Len(t) \in Nat
      /\ \A n \in 1 .. Len(r) : (r \o t)[n] = r[n]
      /\ \A n \in 1 .. Len(t) : (r \o t)[n + Len(r)] = t[n]
  BY StreamOf
<1>3. /\ k \in 1 .. Len(q) /\ Len(t) = Len(q) - 1
      /\ \A n \in 1 .. Len(t) : t[n] = q[IF n < k THEN n ELSE n + 1]
  BY DEF Cut
<1>4. ASSUME NEW n \in 1 .. Len(r \o t)
      PROVE (r \o t)[n] = (r \o q)[IF n < k + Len(r) THEN n ELSE n + 1]
  <2>1. CASE n <= Len(r)
    <3>1. n < k + Len(r) /\ n \in 1 .. Len(r) BY <1>1, <1>3, <2>1
    <3> QED BY <3>1, <1>1, <1>2
  <2>2. CASE ~(n <= Len(r))
    <3> DEFINE m == n - Len(r)
    <3>1. m \in 1 .. Len(t) /\ n = m + Len(r) BY <1>1, <1>2, <2>2
    <3>2. (r \o t)[n] = q[IF m < k THEN m ELSE m + 1] BY <3>1, <1>2, <1>3
    <3>3. (m < k <=> n < k + Len(r)) /\ n + 1 = (m + 1) + Len(r)
      BY <3>1, <1>1, <1>3
    <3>4. m \in 1 .. Len(q) /\ m + 1 \in 1 .. Len(q) BY <3>1, <1>1, <1>3
    <3>5. (r \o q)[n] = q[m] /\ (r \o q)[n + 1] = q[m + 1]
      BY <3>1, <3>3, <3>4, <1>1
    <3> QED BY <3>2, <3>3, <3>5
  <2> QED BY <2>1, <2>2
<1>5. k + Len(r) \in 1 .. Len(r \o q) /\ Len(r \o t) = Len(r \o q) - 1
  BY <1>1, <1>2, <1>3
<1> QED BY <1>4, <1>5 DEF Cut

LEMMA AppendSecondPart ==
  ASSUME NEW S, NEW r \in Seq(S), NEW q \in Seq(S), NEW m \in S
  PROVE  Append(q, m) \in Seq(S) /\ Longer(r \o Append(q, m), r \o q, m)
<1> DEFINE t == Append(q, m)
<1>1. /\ Len(r \o q) = Len(r) + Len(q) /\ Len(r) \in Nat /\ Len(q) \in Nat
      /\ \A n \in 1 .. Len(r) : (r \o q)[n] = r[n]
      /\ \A n \in 1 .. Len(q) : (r \o q)[n + Len(r)] = q[n]
  BY StreamOf
<1>2. /\ t \in Seq(S) /\ Len(t) = Len(q) + 1 /\ t[Len(q) + 1] = m
      /\ \A n \in 1 .. Len(q) : t[n] = q[n]
  BY AppendProperties
<1> HIDE DEF t
<1>3. /\ Len(r \o t) = Len(r) + Len(t)
      /\ \A n \in 1 .. Len(r) : (r \o t)[n] = r[n]
      /\ \A n \in 1 .. Len(t) : (r \o t)[n + Len(r)] = t[n]
  <2>1. t \in Seq(S) BY <1>2
  <2> QED BY <2>1, StreamOf
<1>4. ASSUME NEW n \in 1 .. Len(r \o q) PROVE (r \o t)[n] = (r \o q)[n]
  <2>1. CASE n <= Len(r) BY <2>1, <1>1, <1>3
  <2>2. CASE ~(n <= Len(r))
    <3>1. n - Len(r) \in 1 .. Len(q) /\ n - Len(r) \in 1 .. Len(t) /\ n = (n - Len(r)) + Len(r)
      BY <1>1, <1>2, <2>2
    <3> QED BY <3>1, <1>1, <1>2, <1>3
  <2> QED BY <2>1, <2>2
<1>5. Len(r \o t) = Len(r \o q) + 1 BY <1>1, <1>2, <1>3
<1>6. (r \o t)[Len(r \o q) + 1] = m
  <2>1. Len(q) + 1 \in 1 .. Len(t) /\ Len(r \o q) + 1 = (Len(q) + 1) + Len(r)
    BY <1>1, <1>2
  <2> QED BY <2>1, <1>2, <1>3
<1> QED BY <1>2, <1>4, <1>5, <1>6 DEF Longer, t

\* What is read moves from one part of the stream to the other.
LEMMA ReadMoves ==
  ASSUME NEW S, NEW r \in Seq(S), NEW q \in Seq(S), q # <<>>
  PROVE  Append(r, Head(q)) \in Seq(S) /\ Append(r, Head(q)) \o Tail(q) = r \o q
<1>1. Head(q) \in S /\ Tail(q) \in Seq(S) /\ Append(r, Head(q)) = r \o <<Head(q)>>
  BY TailCuts, AppendIsConcat, Zenon
<1>2. <<Head(q)>> \in Seq(S) /\ q = <<Head(q)>> \o Tail(q)
  BY <1>1, ConcatSimplifications
<1>3. (r \o <<Head(q)>>) \o Tail(q) = r \o (<<Head(q)>> \o Tail(q))
  BY <1>1, <1>2, ConcatAssociative
<1> QED BY <1>1, <1>2, <1>3, AppendProperties, Zenon

-----------------------------------------------------------------------------
(* Types                                                                   *)

LEMMA MessageTypes ==
  ASSUME NEW m \in Message
  PROVE  /\ m.kind \in {"push", "config", "devices", "areas", "refresh"}
         /\ m.kind = "push" =>
              m.id \in Ids /\ m.field \in Fields /\ m.value \in Values
         /\ m.kind = "config" => m.body \in [Targets -> Usages \cup {Unset}]
         /\ m.kind \in {"devices", "areas"} => m.body \in Data
  BY DEF Message, Push, Answer

LEMMA WithoutAnswerCuts ==
  ASSUME NEW s \in Seq(Message)
  PROVE  /\ WithoutAnswer(s) \in Seq(Message)
         /\ \/ WithoutAnswer(s) = s
            \/ \E k \in 1 .. Len(s) : s[k].kind # "push" /\ Cut(WithoutAnswer(s), s, k)
<1> DEFINE answers == {n \in DOMAIN s : s[n].kind # "push"}
<1>1. CASE answers = {}
  BY <1>1 DEF WithoutAnswer
<1>2. CASE answers # {}
  <2>1. PICK k : k = CHOOSE n \in answers : TRUE
    OBVIOUS
  <2>2. k \in answers BY <1>2, <2>1
  <2>3. k \in 1 .. Len(s) /\ s[k].kind # "push" BY <2>2, LenProperties
  <2>4. WithoutAnswer(s) = RemoveAt(s, k) BY <1>2, <2>1 DEF WithoutAnswer
  <2> QED BY <2>3, <2>4, RemoveAtCuts
<1> QED BY <1>1, <1>2

LEMMA SnapshotTypes ==
  ASSUME NEW i \in Ids, NEW data \in Data, NEW usage \in Usages
  PROVE  FromSnapshot(data[i], usage) \in Entity
  BY DEF FromSnapshot, NoFields, Entity, Data

LEMMA ReplaceTypes ==
  ASSUME TypeOK, NEW ids, NEW data \in Data, Replace(ids, data)
  PROVE  entities' \in [Ids -> Entity \cup {Unset}]
<1> SUFFICES ASSUME NEW i \in Ids, i \in ids, usages[i] # Unset
             PROVE  FromSnapshot(data[i], usages[i]) \in Entity
  BY DEF Replace, TypeOK
<1>1. usages[i] \in Usages BY DEF TypeOK, Targets
<1> QED BY <1>1, SnapshotTypes

LEMMA MergeTypes ==
  ASSUME TypeOK, NEW push \in Message, push.kind = "push", Merge(push)
  PROVE  entities' \in [Ids -> Entity \cup {Unset}]
<1>1. push.id \in Ids /\ push.field \in Fields /\ push.value \in Values
  BY MessageTypes
<1>2. CASE usages[push.id] = Unset
  BY <1>2 DEF Merge, TypeOK
<1>3. CASE usages[push.id] # Unset
  <2> DEFINE old == IF entities[push.id] = Unset THEN NewEntity(usages[push.id])
                    ELSE entities[push.id]
             new == [old EXCEPT !.fields[push.field] = push.value, !.invalid = FALSE]
  <2>1. usages[push.id] \in Usages BY <1>1, <1>3 DEF TypeOK, Targets
  <2>2. old \in Entity
    BY <1>1, <2>1 DEF TypeOK, NewEntity, NoFields, Entity
  <2>3. new \in Entity BY <1>1, <2>2 DEF Entity
  <2>4. entities' = [entities EXCEPT ![push.id] = new]
    BY <1>3 DEF Merge
  <2> HIDE DEF new
  <2> QED BY <1>1, <2>3, <2>4 DEF TypeOK
<1> QED BY <1>2, <1>3
LEMMA TypeStep == TypeOK /\ [Next]_vars => TypeOK'
<1> SUFFICES ASSUME TypeOK, [Next]_vars PROVE TypeOK'
  OBVIOUS
<1> USE DEF tydomVars, linkVars, feedVars, cacheVars
<1>1. inbox \in Seq(Message) /\ ready \in Seq(Message) /\ entities \in [Ids -> Entity \cup {Unset}]
  BY DEF TypeOK, Message
<1>17. /\ source \in Data /\ budget \in [configs : 0 .. MaxConfigs, faults : 0 .. MaxFaults]
       /\ MaxConfigs \in Nat /\ MaxFaults \in Nat
  BY Bounds DEF TypeOK
<1>2. ASSUME NEW i \in Ids, NEW f \in Fields, Change(i, f) PROVE TypeOK'
  <2>1. source' \in Data BY <1>2, <1>17 DEF Change, Data, Values
  <2>2. PushOf(i, f, source'[i][f]) \in Message
    BY <2>1 DEF Data, Message, Push, PushOf
  <2>3. inbox' \in Seq(Message)
    <3>1. Append(inbox, PushOf(i, f, source'[i][f])) \in Seq(Message)
      BY <1>1, <2>2, AppendProperties
    <3>2. inbox' \in {inbox, Append(inbox, PushOf(i, f, source'[i][f]))}
      BY <1>2 DEF Change, Send
    <3> QED BY <1>1, <3>1, <3>2
  <2> QED BY <1>2, <2>1, <2>3 DEF Change, TypeOK, Message
<1>16. ASSUME NEW i \in Ids, NEW f \in Fields, Feed(i, f) PROVE TypeOK'
  <2>1. PushOf(i, f, source[i][f]) \in Message
    BY <1>17 DEF Data, Message, Push, PushOf
  <2>2. inbox' \in Seq(Message)
    BY <1>1, <1>16, <2>1, AppendProperties DEF Feed, Send
  <2>3. fed' \in SUBSET Conso BY <1>16 DEF Feed, TypeOK
  <2> QED BY <1>16, <2>2, <2>3 DEF Feed, TypeOK, Message
<1>3. CASE ChangeConfig
  <2>1. config' \in [Targets -> Usages \cup {Unset}] BY <1>3 DEF ChangeConfig, TypeOK
  <2>2. budget' \in [configs : 0 .. MaxConfigs, faults : 0 .. MaxFaults]
    BY <1>3, <1>17 DEF ChangeConfig
  <2> QED BY <1>3, <2>1, <2>2 DEF ChangeConfig, TypeOK
<1>4. CASE Reply
  <2>1. AnswerTo(asked) \in Message
    BY <1>4 DEF Reply, TypeOK, AnswerTo, Gets, Message, Answer
  <2>2. inbox' \in Seq(Message) BY <1>1, <1>4, <2>1, AppendProperties DEF Reply, Send
  <2> QED BY <1>4, <2>2 DEF Reply, TypeOK, Message
<1>5. CASE Connect \/ CancelTasks \/ BackoffEnds
  BY <1>5, EmptySeq DEF Connect, CancelTasks, BackoffEnds, Ask, TypeOK, Gets
<1>6. CASE Read
  <2>1. Head(inbox) \in Message /\ inbox' \in Seq(Message)
    BY <1>1, <1>6, TailCuts DEF Read
  <2>2. ready' \in Seq(Message) BY <1>1, <1>6, <2>1, AppendProperties DEF Read
  <2> QED BY <1>6, <2>1, <2>2 DEF Read, TypeOK, Message
<1>7. CASE Lose
  <2>1. budget' \in [configs : 0 .. MaxConfigs, faults : 0 .. MaxFaults]
    BY <1>7, <1>17 DEF Lose
  <2> QED BY <1>7, <2>1, EmptySeq DEF Lose, TypeOK, Message
<1>8. ASSUME ready # <<>>, Took PROVE Oldest \in Message /\ ready' \in Seq(Message)
  <2>1. 1 \in 1 .. Len(ready) BY <1>1, <1>8, EmptySeq, LenProperties
  <2> QED BY <1>1, <1>8, <2>1, RemoveAtCuts, ElementOfSeq DEF Took, Oldest, NextReady
<1>9. CASE HandlePush
  <2>1. entities' \in [Ids -> Entity \cup {Unset}]
    BY <1>8, <1>9, MergeTypes DEF HandlePush
  <2> QED BY <1>8, <1>9, <2>1 DEF HandlePush, TypeOK, Message
<1>10. CASE HandlerFails
  <2>1. entities' \in [Ids -> Entity \cup {Unset}]
    BY <1>1, <1>8, <1>10, MergeTypes DEF HandlerFails
  <2>2. budget' \in [configs : 0 .. MaxConfigs, faults : 0 .. MaxFaults]
    BY <1>10, <1>17 DEF HandlerFails
  <2> QED BY <1>8, <1>10, <2>1, <2>2, EmptySeq DEF HandlerFails, TypeOK, Message
<1>11. CASE GotConfig
  <2>1. Oldest.body \in [Targets -> Usages \cup {Unset}]
    BY <1>8, <1>11, MessageTypes DEF GotConfig, Resume
  <2>2. entities' \in [Ids -> Entity \cup {Unset}] /\ usages' = Oldest.body
    BY <1>1, <1>11 DEF GotConfig, ApplyConfig
  <2> QED BY <1>8, <1>11, <2>1, <2>2 DEF GotConfig, Resume, Ask, TypeOK, Message, Gets
<1>12. CASE GotDevices \/ GotAreas
  <2>1. Oldest.body \in Data
    BY <1>8, <1>12, MessageTypes DEF GotDevices, GotAreas, Resume
  <2>2. entities' \in [Ids -> Entity \cup {Unset}]
    BY <1>12, <2>1, ReplaceTypes DEF GotDevices, GotAreas
  <2> QED BY <1>8, <1>12, <2>2 DEF GotDevices, GotAreas, Resume, Ask, TypeOK, Message, Gets
<1>13. CASE GotRefresh
  BY <1>8, <1>13 DEF GotRefresh, Resume, TypeOK, Message
<1>14. CASE RequestFails
  <2>1. inbox' \in Seq(Message) /\ ready' \in Seq(Message)
    BY <1>1, <1>14, WithoutAnswerCuts DEF RequestFails
  <2>2. budget' \in [configs : 0 .. MaxConfigs, faults : 0 .. MaxFaults]
    BY <1>14, <1>17 DEF RequestFails
  <2>3. refresh' \in {"to send", "sent", "refused"}
    BY <1>14 DEF RequestFails, TakenOrNot, TypeOK
  <2> QED BY <1>14, <2>1, <2>2, <2>3 DEF RequestFails, TypeOK, Message, Gets
<1>15. CASE UNCHANGED vars
  BY <1>15 DEF vars, TypeOK
<1> QED BY <1>2, <1>3, <1>4, <1>5, <1>6, <1>7, <1>9, <1>10, <1>11, <1>12, <1>13, <1>14, <1>15,
           <1>16
        DEF Next, Routine

\* Every variable keeps its type, for any homes, values, changes and faults.
THEOREM TypeCorrect == Spec => []TypeOK
<1>1. ASSUME Init PROVE TypeOK
  <2>1. source \in Data BY <1>1 DEF Init, Data, Values
  <2>2. [configs |-> MaxConfigs, faults |-> MaxFaults]
          \in [configs : 0 .. MaxConfigs, faults : 0 .. MaxFaults]
    BY Bounds
  <2>3. <<>> \in Seq(Push \cup Answer) BY EmptySeq
  <2> QED BY <1>1, <2>1, <2>2, <2>3 DEF Init, TypeOK, Gets
<1> QED BY <1>1, TypeStep, PTL DEF Spec
-----------------------------------------------------------------------------
(* The connection and the routine                                          *)

\* What is not connected holds no message and calls no cache fresh; the cache is
\* synced only once the routine has had all of it.
Linked ==
  /\ conn \in {"down", "stopped"} =>
       inbox = <<>> /\ ready = <<>> /\ step = "off" /\ ~synced /\ marked # "connected"
  /\ conn = "ending" => inbox = <<>>
  /\ synced => step \in {"refresh", "waiting"}

LEMMA LinkedStep == TypeOK /\ Linked /\ [Next]_vars => Linked'
<1> SUFFICES ASSUME TypeOK, Linked, [Next]_vars PROVE Linked'
  OBVIOUS
<1> USE DEF Linked, tydomVars, linkVars, cacheVars
<1>1. conn \in {"down", "up", "ending", "stopped"} BY DEF TypeOK
<1>2. ASSUME NEW i \in Ids, NEW f \in Fields, Change(i, f) PROVE Linked'
  BY <1>1, <1>2 DEF Change, Send
<1>9. ASSUME NEW i \in Ids, NEW f \in Fields, Feed(i, f) PROVE Linked'
  BY <1>1, <1>9 DEF Feed, Send
<1>3. CASE ChangeConfig \/ Reply \/ Read
  BY <1>1, <1>3 DEF ChangeConfig, Reply, Read, Send
<1>10. CASE Connect
  BY <1>10 DEF Connect, Ask
<1>11. CASE Lose
  BY <1>11 DEF Lose
<1>12. CASE CancelTasks
  BY <1>12 DEF CancelTasks
<1>4. CASE HandlePush \/ HandlerFails
  BY <1>1, <1>4 DEF HandlePush, HandlerFails
<1>5. CASE GotConfig \/ GotDevices \/ GotAreas \/ GotRefresh
  BY <1>1, <1>5 DEF GotConfig, GotDevices, GotAreas, GotRefresh, Resume, Ask,
                    ApplyConfig
<1>6. CASE RequestFails
  <2>1. conn' = "up" BY <1>6 DEF RequestFails
  <2>2. synced' => step' \in {"refresh", "waiting"}
    BY <1>6 DEF RequestFails, Gets
  <2> QED BY <2>1, <2>2
<1>7. CASE BackoffEnds
  BY <1>1, <1>7 DEF BackoffEnds, Ask
<1>8. CASE UNCHANGED vars
  BY <1>8 DEF vars
<1> QED BY <1>2, <1>3, <1>4, <1>5, <1>6, <1>7, <1>8, <1>9, <1>10, <1>11, <1>12
        DEF Next, Routine

LEMMA LinkedAlways == Spec => []Linked
<1>1. Init => Linked BY DEF Init, Linked
<1> QED BY <1>1, LinkedStep, TypeCorrect, PTL DEF Spec

\* No cache is called fresh but on a connection that had the config and every
\* snapshot, and that has not ended: Sync.routine and its finally clause.
THEOREM FreshnessNeedsAConnection == Spec => []FreshIsConnected
<1>1. TypeOK /\ Linked => FreshIsConnected BY DEF TypeOK, Linked, FreshIsConnected, Fresh
<1> QED BY <1>1, LinkedAlways, TypeCorrect, PTL

LEMMA ReadStep == TypeOK /\ NeverMisread /\ [Next]_vars => NeverMisread'
<1> SUFFICES ASSUME TypeOK, NeverMisread, [Next]_vars PROVE NeverMisread'
  OBVIOUS
<1> USE DEF tydomVars, linkVars, feedVars, cacheVars
<1>1. ASSUME UNCHANGED <<usages, entities>> PROVE NeverMisread'
  BY <1>1 DEF NeverMisread
<1>2. ASSUME NEW push, Merge(push), UNCHANGED usages PROVE NeverMisread'
  <2>1. CASE usages[push.id] = Unset
    BY <1>1, <1>2, <2>1 DEF Merge
  <2>2. CASE usages[push.id] # Unset
    <3> DEFINE old == IF entities[push.id] = Unset THEN NewEntity(usages[push.id])
                      ELSE entities[push.id]
               new == [old EXCEPT !.fields[push.field] = push.value, !.invalid = FALSE]
    <3>1. push.id \in Ids => new.usage = usages[push.id]
      BY DEF NeverMisread, NewEntity
    <3>2. entities' = [entities EXCEPT ![push.id] = new]
      BY <1>2, <2>2 DEF Merge
    <3> HIDE DEF new
    <3> QED BY <1>2, <3>1, <3>2 DEF NeverMisread, TypeOK
  <2> QED BY <2>1, <2>2
<1>3. CASE GotConfig
  BY <1>3 DEF GotConfig, ApplyConfig, NeverMisread
<1>4. CASE GotDevices \/ GotAreas
  BY <1>4 DEF GotDevices, GotAreas, Replace, FromSnapshot, NeverMisread
<1>5. CASE \E i \in Ids, f \in Fields : Change(i, f) \/ Feed(i, f)
  BY <1>1, <1>5 DEF Change, Feed
<1> QED BY <1>1, <1>2, <1>3, <1>4, <1>5
        DEF Next, Routine, ChangeConfig, Reply, Connect, Read, Lose, CancelTasks, HandlePush,
            HandlerFails, GotRefresh, RequestFails, BackoffEnds, vars

\* What is cached is read under the usage it was received under, whatever configs
\* and snapshots follow each other: Cache.apply_config drops the rest.
THEOREM StateIsReadRight == Spec => []NeverMisread
<1>1. Init => NeverMisread BY DEF Init, NeverMisread
<1> QED BY <1>1, ReadStep, TypeCorrect, PTL DEF Spec
-----------------------------------------------------------------------------
(* What steps do to the stream                                             *)

\* The elements of t are in s, in the same order, from the k-th place on.
Within(t, s, k) ==
  \E h \in [1 .. Len(t) -> k .. Len(s)] : \A n \in 1 .. Len(t) :
    t[n] = s[h[n]] /\ \A m \in 1 .. Len(t) : n < m => h[n] < h[m]

LEMMA CutIsWithin ==
  ASSUME NEW S, NEW s \in Seq(S), NEW t \in Seq(S), NEW k, Cut(t, s, k)
  PROVE  Within(t, s, 1) /\ (k = 1 => Within(t, s, 2))
<1> DEFINE h == [n \in 1 .. Len(t) |-> IF n < k THEN n ELSE n + 1]
<1>1. k \in 1 .. Len(s) /\ Len(t) = Len(s) - 1 /\ Len(s) \in Nat
  BY LenProperties DEF Cut
<1>2. \A n \in 1 .. Len(t) : h[n] \in 1 .. Len(s) /\ (k = 1 => h[n] \in 2 .. Len(s))
  BY <1>1
<1>3. h \in [1 .. Len(t) -> 1 .. Len(s)] /\ (k = 1 => h \in [1 .. Len(t) -> 2 .. Len(s)])
  BY <1>2
<1>4. \A n \in 1 .. Len(t) : \A m \in 1 .. Len(t) : n < m => h[n] < h[m]
  BY <1>1
<1>5. \A n \in 1 .. Len(t) : t[n] = s[h[n]]
  BY DEF Cut
<1> HIDE DEF h
<1> QED BY <1>3, <1>4, <1>5 DEF Within

LEMMA WithinItself ==
  ASSUME NEW S, NEW s \in Seq(S)
  PROVE  Within(s, s, 1)
<1> DEFINE h == [n \in 1 .. Len(s) |-> n]
<1>1. h \in [1 .. Len(s) -> 1 .. Len(s)] /\ \A n \in 1 .. Len(s) : h[n] = n
  OBVIOUS
<1> HIDE DEF h
<1> QED BY <1>1 DEF Within

LEMMA WithinWithin ==
  ASSUME NEW S, NEW s \in Seq(S), NEW t \in Seq(S), NEW u \in Seq(S), NEW k,
         Within(t, s, k), Within(u, t, 1)
  PROVE  Within(u, s, k)
<1>1. PICK h \in [1 .. Len(t) -> k .. Len(s)] : \A n \in 1 .. Len(t) :
             t[n] = s[h[n]] /\ \A m \in 1 .. Len(t) : n < m => h[n] < h[m]
  BY DEF Within
<1>2. PICK g \in [1 .. Len(u) -> 1 .. Len(t)] : \A n \in 1 .. Len(u) :
             u[n] = t[g[n]] /\ \A m \in 1 .. Len(u) : n < m => g[n] < g[m]
  BY DEF Within
<1> DEFINE both == [n \in 1 .. Len(u) |-> h[g[n]]]
<1>3. \A n \in 1 .. Len(u) : g[n] \in 1 .. Len(t) BY <1>2
<1>4. both \in [1 .. Len(u) -> k .. Len(s)] BY <1>1, <1>3
<1>5. \A n \in 1 .. Len(u) : both[n] = h[g[n]] OBVIOUS
<1> HIDE DEF both
<1>6. \A n \in 1 .. Len(u) : u[n] = s[both[n]] BY <1>1, <1>2, <1>3, <1>5
<1>7. \A n \in 1 .. Len(u) : \A m \in 1 .. Len(u) : n < m => both[n] < both[m]
  BY <1>1, <1>2, <1>3, <1>5
<1> QED BY <1>4, <1>6, <1>7 DEF Within

LEMMA FirstPartWithin ==
  ASSUME NEW S, NEW r \in Seq(S), NEW q \in Seq(S)
  PROVE  Within(r \o <<>>, r \o q, 1)
<1> DEFINE h == [n \in 1 .. Len(r) |-> n]
<1>1. r \o <<>> = r BY ConcatEmptySeq
<1>2. /\ Len(r \o q) = Len(r) + Len(q) /\ Len(r) \in Nat /\ Len(q) \in Nat
      /\ \A n \in 1 .. Len(r) : (r \o q)[n] = r[n]
  BY StreamOf
<1>3. h \in [1 .. Len(r) -> 1 .. Len(r \o q)] /\ \A n \in 1 .. Len(r) : h[n] = n
  BY <1>2
<1> HIDE DEF h
<1> QED BY <1>1, <1>2, <1>3 DEF Within

LEMMA StreamTypes ==
  ASSUME TypeOK
  PROVE  /\ ready \in Seq(Message) /\ inbox \in Seq(Message) /\ Stream \in Seq(Message)
         /\ Len(Stream) \in Nat /\ DOMAIN Stream = 1 .. Len(Stream)
         /\ \A n \in 1 .. Len(Stream) : Stream[n] \in Message
<1>1. ready \in Seq(Message) /\ inbox \in Seq(Message) BY DEF TypeOK, Message
<1>2. Stream \in Seq(Message) BY <1>1, ConcatProperties DEF Stream
<1> QED BY <1>1, <1>2, LenProperties, ElementOfSeq

\* The callback, or the routine, that runs next takes the head of the stream.
LEMMA TookStep ==
  ASSUME TypeOK, ready # <<>>, Took
  PROVE  /\ Oldest \in Message /\ Oldest = Stream[1] /\ 1 \in 1 .. Len(Stream)
         /\ inbox' = inbox => Stream' \in Seq(Message) /\ Cut(Stream', Stream, 1)
         /\ inbox' \in {inbox, <<>>} =>
              Stream' \in Seq(Message) /\ Within(Stream', Stream, 2)
<1>1. ready \in Seq(Message) /\ inbox \in Seq(Message) /\ Stream \in Seq(Message)
  BY StreamTypes
<1>2. 1 \in 1 .. Len(ready) BY <1>1, EmptySeq, LenProperties
<1>3. ready' \in Seq(Message) /\ Cut(ready', ready, 1)
  BY <1>1, <1>2, RemoveAtCuts DEF Took, NextReady
<1>4. Oldest \in Message /\ Oldest = Stream[1] /\ 1 \in 1 .. Len(Stream)
  BY <1>1, <1>2, StreamOf, ElementOfSeq DEF Oldest, NextReady, Stream
<1>5. ready' \o inbox \in Seq(Message) /\ Cut(ready' \o inbox, Stream, 1)
  BY <1>1, <1>3, CutFirstPart, StreamOf DEF Stream
<1>6. ready' \o <<>> \in Seq(Message) /\ Within(ready' \o <<>>, ready' \o inbox, 1)
  BY <1>1, <1>3, FirstPartWithin, ConcatEmptySeq
<1>7. Within(ready' \o inbox, Stream, 2) BY <1>1, <1>5, CutIsWithin
<1>8. Within(ready' \o <<>>, Stream, 2) BY <1>1, <1>5, <1>6, <1>7, WithinWithin
<1> QED BY <1>4, <1>5, <1>6, <1>7, <1>8 DEF Stream
\* A push that does not validate is dropped; an answer may be.
LEMMA ReadStepMoves ==
  ASSUME TypeOK, Read
  PROVE  \/ Stream' = Stream
         \/ \E k \in 1 .. Len(Stream) :
              /\ Stream[k].kind = "push" /\ Stream[k].value \in BadVersions
              /\ Stream' \in Seq(Message) /\ Cut(Stream', Stream, k)
<1>1. ready \in Seq(Message) /\ inbox \in Seq(Message) /\ inbox # <<>>
  BY StreamTypes DEF Read
<1>2. CASE Head(inbox).kind = "push" /\ Head(inbox).value \in BadVersions
  <2>1. ready' = ready /\ inbox' = Tail(inbox) BY <1>2 DEF Read
  <2>2. Head(inbox) = inbox[1] /\ Tail(inbox) \in Seq(Message) /\ Cut(Tail(inbox), inbox, 1)
    BY <1>1, TailCuts
  <2>3. 1 \in 1 .. Len(inbox) BY <1>1, EmptySeq, LenProperties
  <2>4. Stream[1 + Len(ready)] = Head(inbox) /\ 1 + Len(ready) \in 1 .. Len(Stream)
    BY <1>1, <2>2, <2>3, StreamOf DEF Stream
  <2>5. Stream' \in Seq(Message) /\ Cut(Stream', Stream, 1 + Len(ready))
    BY <1>1, <2>1, <2>2, CutSecondPart, StreamOf DEF Stream
  <2> QED BY <1>2, <2>4, <2>5
<1>3. CASE ~(Head(inbox).kind = "push" /\ Head(inbox).value \in BadVersions)
  <2>1. ready' = Append(ready, Head(inbox)) /\ inbox' = Tail(inbox) BY <1>3 DEF Read
  <2> QED BY <1>1, <2>1, ReadMoves DEF Stream
<1> QED BY <1>2, <1>3

\* A stream cut twice at most, of no push.
CutOfAnswers(t, s) ==
  \E u \in Seq(Message) :
    /\ u = s \/ \E k \in 1 .. Len(s) : s[k].kind # "push" /\ Cut(u, s, k)
    /\ t = u \/ \E k \in 1 .. Len(u) : u[k].kind # "push" /\ Cut(t, u, k)

LEMMA FailureCuts ==
  ASSUME TypeOK, RequestFails
  PROVE  Stream' \in Seq(Message) /\ CutOfAnswers(Stream', Stream)
<1>1. ready \in Seq(Message) /\ inbox \in Seq(Message) BY StreamTypes
<1>2. ready' = WithoutAnswer(ready) /\ inbox' = WithoutAnswer(inbox) BY DEF RequestFails
<1>3. /\ ready' \in Seq(Message)
      /\ \/ ready' = ready
         \/ \E k \in 1 .. Len(ready) : ready[k].kind # "push" /\ Cut(ready', ready, k)
  BY <1>1, <1>2, WithoutAnswerCuts
<1>4. /\ inbox' \in Seq(Message)
      /\ \/ inbox' = inbox
         \/ \E k \in 1 .. Len(inbox) : inbox[k].kind # "push" /\ Cut(inbox', inbox, k)
  BY <1>1, <1>2, WithoutAnswerCuts
<1> DEFINE u == ready' \o inbox
<1>5. u \in Seq(Message) /\ Stream' \in Seq(Message)
  BY <1>1, <1>3, <1>4, StreamOf DEF Stream
<1>6. u = Stream \/ \E k \in 1 .. Len(Stream) : Stream[k].kind # "push" /\ Cut(u, Stream, k)
  <2>1. CASE ready' = ready BY <2>1 DEF Stream
  <2>2. ASSUME NEW k \in 1 .. Len(ready), ready[k].kind # "push", Cut(ready', ready, k)
        PROVE  k \in 1 .. Len(Stream) /\ Stream[k].kind # "push" /\ Cut(u, Stream, k)
    BY <1>1, <1>3, <2>2, StreamOf, CutFirstPart DEF Stream
  <2> QED BY <1>3, <2>1, <2>2
<1>7. Stream' = u \/ \E k \in 1 .. Len(u) : u[k].kind # "push" /\ Cut(Stream', u, k)
  <2>1. CASE inbox' = inbox BY <2>1 DEF Stream
  <2>2. ASSUME NEW k \in 1 .. Len(inbox), inbox[k].kind # "push", Cut(inbox', inbox, k)
        PROVE  k + Len(ready') \in 1 .. Len(u) /\ u[k + Len(ready')].kind # "push"
                 /\ Cut(Stream', u, k + Len(ready'))
    <3>1. Cut(Stream', u, k + Len(ready'))
      BY <1>1, <1>3, <1>4, <2>2, CutSecondPart DEF Stream
    <3>2. k + Len(ready') \in 1 .. Len(u) /\ u[k + Len(ready')] = inbox[k]
      BY <1>1, <1>3, StreamOf
    <3> QED BY <2>2, <3>1, <3>2
  <2> QED BY <1>4, <2>1, <2>2
<1> QED BY <1>5, <1>6, <1>7 DEF CutOfAnswers

LEMMA CutOfAnswersIsWithin ==
  ASSUME NEW s \in Seq(Message), NEW t \in Seq(Message), CutOfAnswers(t, s)
  PROVE  Within(t, s, 1)
<1>1. PICK u \in Seq(Message) :
        /\ u = s \/ \E k \in 1 .. Len(s) : s[k].kind # "push" /\ Cut(u, s, k)
        /\ t = u \/ \E k \in 1 .. Len(u) : u[k].kind # "push" /\ Cut(t, u, k)
  BY DEF CutOfAnswers
<1>2. Within(u, s, 1) BY <1>1, CutIsWithin, WithinItself
<1>3. Within(t, u, 1) BY <1>1, CutIsWithin, WithinItself
<1> QED BY <1>2, <1>3, WithinWithin

-----------------------------------------------------------------------------
(* No value goes back                                                      *)

\* The messages that say what a field is, and what they say.
IsPush(m, i, f) == m.kind = "push" /\ m.id = i /\ m.field = f
Concerns(m, i, f) ==
  \/ IsPush(m, i, f)
  \/ m.kind = "devices" /\ i \in Endpoints
  \/ m.kind = "areas" /\ i \in Areas
Said(m, i, f) == IF m.kind = "push" THEN m.value ELSE m.body[i][f]

FieldOf(ent, i, f) == IF ent[i] = Unset THEN Unset ELSE ent[i].fields[f]

\* What is cached is no newer than what is on its way, which is in order and no
\* newer than what the Tydom holds.
Orderly(s, src, ent) ==
  \A i \in Ids, f \in Fields :
    /\ FieldOf(ent, i, f) # Unset => FieldOf(ent, i, f) <= src[i][f]
    /\ \A n \in 1 .. Len(s) : Concerns(s[n], i, f) =>
         /\ Said(s[n], i, f) <= src[i][f]
         /\ FieldOf(ent, i, f) # Unset => FieldOf(ent, i, f) <= Said(s[n], i, f)
         /\ \A m \in 1 .. Len(s) :
              n < m /\ Concerns(s[m], i, f) => Said(s[n], i, f) <= Said(s[m], i, f)

LEMMA SaidTypes ==
  ASSUME NEW m \in Message, NEW i \in Ids, NEW f \in Fields, Concerns(m, i, f)
  PROVE  Said(m, i, f) \in Nat
  BY MessageTypes DEF Concerns, IsPush, Said, Data, Values

LEMMA FieldTypes ==
  ASSUME NEW ent \in [Ids -> Entity \cup {Unset}], NEW i \in Ids, NEW f \in Fields
  PROVE  FieldOf(ent, i, f) \in Nat \cup {Unset}
  BY DEF FieldOf, Entity, Values

LEMMA OrderlyFewer ==
  ASSUME NEW s \in Seq(Message), NEW t \in Seq(Message), NEW src, NEW ent, NEW new,
         Within(t, s, 1), Orderly(s, src, ent),
         \A i \in Ids, f \in Fields : FieldOf(new, i, f) \in {Unset, FieldOf(ent, i, f)}
  PROVE  Orderly(t, src, new)
<1>1. PICK h \in [1 .. Len(t) -> 1 .. Len(s)] : \A n \in 1 .. Len(t) :
             t[n] = s[h[n]] /\ \A m \in 1 .. Len(t) : n < m => h[n] < h[m]
  BY DEF Within
<1> SUFFICES ASSUME NEW i \in Ids, NEW f \in Fields
    PROVE  /\ FieldOf(new, i, f) # Unset => FieldOf(new, i, f) <= src[i][f]
           /\ \A n \in 1 .. Len(t) : Concerns(t[n], i, f) =>
                /\ Said(t[n], i, f) <= src[i][f]
                /\ FieldOf(new, i, f) # Unset => FieldOf(new, i, f) <= Said(t[n], i, f)
                /\ \A m \in 1 .. Len(t) :
                     n < m /\ Concerns(t[m], i, f) => Said(t[n], i, f) <= Said(t[m], i, f)
  BY DEF Orderly
<1>2. /\ FieldOf(ent, i, f) # Unset => FieldOf(ent, i, f) <= src[i][f]
      /\ \A n \in 1 .. Len(s) : Concerns(s[n], i, f) =>
           /\ Said(s[n], i, f) <= src[i][f]
           /\ FieldOf(ent, i, f) # Unset => FieldOf(ent, i, f) <= Said(s[n], i, f)
           /\ \A m \in 1 .. Len(s) :
                n < m /\ Concerns(s[m], i, f) => Said(s[n], i, f) <= Said(s[m], i, f)
  BY DEF Orderly
<1>3. FieldOf(new, i, f) \in {Unset, FieldOf(ent, i, f)} OBVIOUS
<1>4. \A n \in 1 .. Len(t) : h[n] \in 1 .. Len(s) OBVIOUS
<1> HIDE DEF Concerns, Said
<1> QED BY <1>1, <1>2, <1>3, <1>4

\* The head of the stream is handled: what it says may be cached.
LEMMA OrderlyHandled ==
  ASSUME NEW s \in Seq(Message), NEW t \in Seq(Message), NEW src, NEW new,
         NEW ent \in [Ids -> Entity \cup {Unset}], Within(t, s, 2), 1 \in 1 .. Len(s),
         Orderly(s, src, ent),
         \A i \in Ids, f \in Fields :
           \/ FieldOf(new, i, f) \in {Unset, FieldOf(ent, i, f)}
           \/ Concerns(s[1], i, f) /\ FieldOf(new, i, f) = Said(s[1], i, f)
  PROVE  /\ Orderly(t, src, new)
         /\ \A i \in Ids, f \in Fields :
              FieldOf(ent, i, f) # Unset /\ FieldOf(new, i, f) # Unset =>
                FieldOf(new, i, f) >= FieldOf(ent, i, f)
<1>1. PICK h \in [1 .. Len(t) -> 2 .. Len(s)] : \A n \in 1 .. Len(t) :
             t[n] = s[h[n]] /\ \A m \in 1 .. Len(t) : n < m => h[n] < h[m]
  BY DEF Within
<1>0. Len(s) \in Nat BY LenProperties
<1> SUFFICES ASSUME NEW i \in Ids, NEW f \in Fields
    PROVE  /\ FieldOf(new, i, f) # Unset => FieldOf(new, i, f) <= src[i][f]
           /\ FieldOf(ent, i, f) # Unset /\ FieldOf(new, i, f) # Unset =>
                FieldOf(new, i, f) >= FieldOf(ent, i, f)
           /\ \A n \in 1 .. Len(t) : Concerns(t[n], i, f) =>
                /\ Said(t[n], i, f) <= src[i][f]
                /\ FieldOf(new, i, f) # Unset => FieldOf(new, i, f) <= Said(t[n], i, f)
                /\ \A m \in 1 .. Len(t) :
                     n < m /\ Concerns(t[m], i, f) => Said(t[n], i, f) <= Said(t[m], i, f)
  BY DEF Orderly
<1>2. /\ FieldOf(ent, i, f) # Unset => FieldOf(ent, i, f) <= src[i][f]
      /\ \A n \in 1 .. Len(s) : Concerns(s[n], i, f) =>
           /\ Said(s[n], i, f) <= src[i][f]
           /\ FieldOf(ent, i, f) # Unset => FieldOf(ent, i, f) <= Said(s[n], i, f)
           /\ \A m \in 1 .. Len(s) :
                n < m /\ Concerns(s[m], i, f) => Said(s[n], i, f) <= Said(s[m], i, f)
  BY DEF Orderly
<1>3. \A n \in 1 .. Len(t) : h[n] \in 1 .. Len(s) /\ 1 < h[n] BY <1>0
<1>4. CASE FieldOf(new, i, f) \in {Unset, FieldOf(ent, i, f)}
  <2>1. FieldOf(new, i, f) # Unset => FieldOf(new, i, f) = FieldOf(ent, i, f)
    BY <1>4
  <2>2. FieldOf(ent, i, f) \in Nat \cup {Unset} BY FieldTypes
  <2>3. /\ FieldOf(new, i, f) # Unset => FieldOf(new, i, f) <= src[i][f]
        /\ FieldOf(ent, i, f) # Unset /\ FieldOf(new, i, f) # Unset =>
             FieldOf(new, i, f) >= FieldOf(ent, i, f)
    BY <1>2, <2>1, <2>2
  <2>4. ASSUME NEW n \in 1 .. Len(t), Concerns(t[n], i, f)
        PROVE  /\ Said(t[n], i, f) <= src[i][f]
               /\ FieldOf(new, i, f) # Unset => FieldOf(new, i, f) <= Said(t[n], i, f)
               /\ \A m \in 1 .. Len(t) :
                    n < m /\ Concerns(t[m], i, f) => Said(t[n], i, f) <= Said(t[m], i, f)
    BY <1>1, <1>2, <1>3, <2>1, <2>4
  <2> QED BY <2>3, <2>4
<1>5. CASE Concerns(s[1], i, f) /\ FieldOf(new, i, f) = Said(s[1], i, f)
  <2>1. Said(s[1], i, f) \in Nat BY <1>5, SaidTypes, ElementOfSeq
  <2> QED BY <1>1, <1>2, <1>3, <1>5, <2>1
<1> QED BY <1>4, <1>5

\* The Tydom says what it holds, which only grows.
LEMMA OrderlyLonger ==
  ASSUME NEW s \in Seq(Message), NEW t \in Seq(Message), NEW m \in Message,
         NEW src \in Data, NEW later \in Data, NEW ent \in [Ids -> Entity \cup {Unset}],
         Longer(t, s, m), Orderly(s, src, ent),
         \A i \in Ids, f \in Fields :
           /\ src[i][f] <= later[i][f]
           /\ Concerns(m, i, f) => Said(m, i, f) = later[i][f]
  PROVE  Orderly(t, later, ent)
<1> SUFFICES ASSUME NEW i \in Ids, NEW f \in Fields
    PROVE  /\ FieldOf(ent, i, f) # Unset => FieldOf(ent, i, f) <= later[i][f]
           /\ \A n \in 1 .. Len(t) : Concerns(t[n], i, f) =>
                /\ Said(t[n], i, f) <= later[i][f]
                /\ FieldOf(ent, i, f) # Unset => FieldOf(ent, i, f) <= Said(t[n], i, f)
                /\ \A p \in 1 .. Len(t) :
                     n < p /\ Concerns(t[p], i, f) => Said(t[n], i, f) <= Said(t[p], i, f)
  BY DEF Orderly
<1>1. /\ FieldOf(ent, i, f) # Unset => FieldOf(ent, i, f) <= src[i][f]
      /\ \A n \in 1 .. Len(s) : Concerns(s[n], i, f) =>
           /\ Said(s[n], i, f) <= src[i][f]
           /\ FieldOf(ent, i, f) # Unset => FieldOf(ent, i, f) <= Said(s[n], i, f)
           /\ \A p \in 1 .. Len(s) :
                n < p /\ Concerns(s[p], i, f) => Said(s[n], i, f) <= Said(s[p], i, f)
  BY DEF Orderly
<1>2. src[i][f] \in Nat /\ later[i][f] \in Nat /\ src[i][f] <= later[i][f]
  BY DEF Data, Values
<1>3. FieldOf(ent, i, f) \in Nat \cup {Unset} BY FieldTypes
<1>4. \A n \in 1 .. Len(s) : Concerns(s[n], i, f) => Said(s[n], i, f) \in Nat
  BY SaidTypes, ElementOfSeq
<1>5. Len(s) \in Nat /\ Len(t) = Len(s) + 1 /\ t[Len(s) + 1] = m
      /\ \A n \in 1 .. Len(s) : t[n] = s[n]
  BY LenProperties DEF Longer
<1>6. FieldOf(ent, i, f) # Unset => FieldOf(ent, i, f) <= later[i][f]
  BY <1>1, <1>2, <1>3
<1>7. ASSUME NEW n \in 1 .. Len(t), Concerns(t[n], i, f)
      PROVE  /\ Said(t[n], i, f) <= later[i][f]
             /\ FieldOf(ent, i, f) # Unset => FieldOf(ent, i, f) <= Said(t[n], i, f)
  <2>1. CASE n \in 1 .. Len(s)
    BY <1>1, <1>2, <1>4, <1>5, <1>7, <2>1
  <2>2. CASE n = Len(s) + 1
    BY <1>2, <1>5, <1>6, <1>7, <2>2
  <2> QED BY <1>5, <2>1, <2>2
<1>8. ASSUME NEW n \in 1 .. Len(t), NEW p \in 1 .. Len(t), n < p,
             Concerns(t[n], i, f), Concerns(t[p], i, f)
      PROVE  Said(t[n], i, f) <= Said(t[p], i, f)
  <2>1. n \in 1 .. Len(s) BY <1>5, <1>8
  <2>2. CASE p \in 1 .. Len(s)
    BY <1>1, <1>5, <1>8, <2>1, <2>2
  <2>3. CASE p = Len(s) + 1
    <3>1. Said(t[p], i, f) = later[i][f] BY <1>5, <1>8, <2>3
    <3> QED BY <1>7, <1>8, <3>1
  <2> QED BY <1>5, <2>2, <2>3
<1> QED BY <1>6, <1>7, <1>8
LEMMA OrderlyLater ==
  ASSUME NEW s \in Seq(Message), NEW src \in Data, NEW later \in Data,
         NEW ent \in [Ids -> Entity \cup {Unset}], Orderly(s, src, ent),
         \A i \in Ids, f \in Fields : src[i][f] <= later[i][f]
  PROVE  Orderly(s, later, ent)
<1> SUFFICES ASSUME NEW i \in Ids, NEW f \in Fields
    PROVE  /\ FieldOf(ent, i, f) # Unset => FieldOf(ent, i, f) <= later[i][f]
           /\ \A n \in 1 .. Len(s) : Concerns(s[n], i, f) => Said(s[n], i, f) <= later[i][f]
  BY DEF Orderly
<1>1. /\ FieldOf(ent, i, f) # Unset => FieldOf(ent, i, f) <= src[i][f]
      /\ \A n \in 1 .. Len(s) : Concerns(s[n], i, f) => Said(s[n], i, f) <= src[i][f]
  BY DEF Orderly
<1>2. src[i][f] \in Nat /\ later[i][f] \in Nat /\ src[i][f] <= later[i][f]
  BY DEF Data, Values
<1>3. FieldOf(ent, i, f) \in Nat \cup {Unset} BY FieldTypes
<1>4. \A n \in 1 .. Len(s) : Concerns(s[n], i, f) => Said(s[n], i, f) \in Nat
  BY SaidTypes, ElementOfSeq
<1> QED BY <1>1, <1>2, <1>3, <1>4

\* What a push changes: one field of one entity, which is valid from then on.
LEMMA MergeEffect ==
  ASSUME TypeOK, NEW push \in Message, push.kind = "push", Merge(push)
  PROVE  /\ \A i \in Ids : i # push.id \/ usages[i] = Unset => entities'[i] = entities[i]
         /\ usages[push.id] # Unset =>
              /\ entities'[push.id] # Unset /\ ~entities'[push.id].invalid
              /\ entities'[push.id].fields[push.field] = push.value
              /\ \A g \in Fields \ {push.field} :
                   entities'[push.id].fields[g] = FieldOf(entities, push.id, g)
              /\ entities[push.id] # Unset =>
                   entities'[push.id].partial = entities[push.id].partial
<1>1. push.id \in Ids /\ push.field \in Fields /\ push.value \in Values
  BY MessageTypes
<1>2. entities \in [Ids -> Entity \cup {Unset}] BY DEF TypeOK
<1>3. CASE usages[push.id] = Unset
  BY <1>3 DEF Merge
<1>4. CASE usages[push.id] # Unset
  <2> DEFINE old == IF entities[push.id] = Unset THEN NewEntity(usages[push.id])
                    ELSE entities[push.id]
             new == [old EXCEPT !.fields[push.field] = push.value, !.invalid = FALSE]
  <2>1. entities' = [entities EXCEPT ![push.id] = new] BY <1>4 DEF Merge
  <2>2. usages[push.id] \in Usages BY <1>1, <1>4 DEF TypeOK, Targets
  <2>3. old \in Entity BY <1>1, <1>2, <2>2 DEF NewEntity, NoFields, Entity
  <2>4. \A g \in Fields : old.fields[g] = FieldOf(entities, push.id, g)
    BY DEF FieldOf, NewEntity, NoFields
  <2>5. new \in Entity /\ new.invalid = FALSE /\ new.partial = old.partial
    BY <1>1, <2>3 DEF Entity
  <2>6. /\ new.fields[push.field] = push.value
        /\ \A g \in Fields \ {push.field} : new.fields[g] = old.fields[g]
    BY <1>1, <2>3 DEF Entity
  <2>7. new # Unset BY <2>5, UnsetApart
  <2>8. entities'[push.id] = new /\ \A i \in Ids : i # push.id => entities'[i] = entities[i]
    BY <1>1, <1>2, <2>1
  <2>9. entities[push.id] # Unset => old = entities[push.id] OBVIOUS
  <2> HIDE DEF new, old
  <2> QED BY <1>4, <2>4, <2>5, <2>6, <2>7, <2>8, <2>9
<1> QED BY <1>3, <1>4

LEMMA MergedFields ==
  ASSUME TypeOK, NEW push \in Message, push.kind = "push", Merge(push),
         NEW i \in Ids, NEW f \in Fields
  PROVE  \/ FieldOf(entities', i, f) \in {Unset, FieldOf(entities, i, f)}
         \/ Concerns(push, i, f) /\ FieldOf(entities', i, f) = Said(push, i, f)
<1>1. CASE i # push.id \/ usages[i] = Unset
  BY <1>1, MergeEffect DEF FieldOf
<1>2. CASE i = push.id /\ usages[i] # Unset
  <2>1. CASE f = push.field
    BY <1>2, <2>1, MergeEffect DEF FieldOf, Concerns, IsPush, Said
  <2>2. CASE f # push.field
    <3>1. entities'[i].fields[f] = FieldOf(entities, i, f) /\ entities'[i] # Unset
      BY <1>2, <2>2, MergeEffect
    <3> QED BY <3>1 DEF FieldOf
  <2> QED BY <2>1, <2>2
<1> QED BY <1>1, <1>2

\* What a snapshot changes: every entity of its kind, as it says.
LEMMA ReplacedFields ==
  ASSUME TypeOK, NEW m \in Message, NEW ids, Replace(ids, m.body), m.kind # "push",
         NEW i \in Ids, NEW f \in Fields,
         i \in ids => Concerns(m, i, f) /\ m.body \in Data
  PROVE  \/ FieldOf(entities', i, f) \in {Unset, FieldOf(entities, i, f)}
         \/ Concerns(m, i, f) /\ FieldOf(entities', i, f) = Said(m, i, f)
  BY DEF Replace, FieldOf, FromSnapshot, NoFields, Said

LEMMA OrderlyStep ==
  ASSUME TypeOK, Linked, Orderly(Stream, source, entities), [Next]_vars
  PROVE  /\ Orderly(Stream', source', entities')
         /\ \A i \in Ids, f \in Fields :
              FieldOf(entities, i, f) # Unset /\ FieldOf(entities', i, f) # Unset =>
                FieldOf(entities', i, f) >= FieldOf(entities, i, f)
<1> DEFINE Goal ==
      /\ Orderly(Stream', source', entities')
      /\ \A i \in Ids, f \in Fields :
           FieldOf(entities, i, f) # Unset /\ FieldOf(entities', i, f) # Unset =>
             FieldOf(entities', i, f) >= FieldOf(entities, i, f)
<1> USE DEF tydomVars, linkVars, feedVars, cacheVars
<1>1. /\ ready \in Seq(Message) /\ inbox \in Seq(Message) /\ Stream \in Seq(Message)
      /\ entities \in [Ids -> Entity \cup {Unset}] /\ source \in Data
  BY StreamTypes DEF TypeOK
<1>2. \A i \in Ids, f \in Fields :
        /\ FieldOf(entities, i, f) \in Nat \cup {Unset}
        /\ FieldOf(entities, i, f) \in Nat => FieldOf(entities, i, f) >= FieldOf(entities, i, f)
  BY <1>1, FieldTypes
<1>3. ASSUME entities' = entities, source' = source, Stream' \in Seq(Message),
             Within(Stream', Stream, 1)
      PROVE  Orderly(Stream', source', entities')
  BY <1>1, <1>3, OrderlyFewer
<1>4. ASSUME source' = source, Stream' \in Seq(Message), Within(Stream', Stream, 2),
             1 \in 1 .. Len(Stream),
             \A i \in Ids, f \in Fields :
               \/ FieldOf(entities', i, f) \in {Unset, FieldOf(entities, i, f)}
               \/ Concerns(Stream[1], i, f) /\ FieldOf(entities', i, f) = Said(Stream[1], i, f)
      PROVE  Goal
  BY <1>1, <1>4, OrderlyHandled
<1>5. ASSUME NEW m \in Message, Send(m), ready' = ready, entities' = entities,
             source' \in Data,
             \A i \in Ids, f \in Fields :
               /\ source[i][f] <= source'[i][f]
               /\ Concerns(m, i, f) => Said(m, i, f) = source'[i][f]
      PROVE  Orderly(Stream', source', entities')
  <2>1. inbox' \in Seq(Message) /\ Longer(Stream', Stream, m)
    BY <1>1, <1>5, AppendSecondPart DEF Send, Stream
  <2>2. Stream' \in Seq(Message) BY <1>1, <1>5, <2>1, StreamOf DEF Stream
  <2> QED BY <1>1, <1>5, <2>1, <2>2, OrderlyLonger
<1>6. ASSUME NEW i \in Ids, NEW f \in Fields, Change(i, f)
      PROVE  Orderly(Stream', source', entities')
  <2>1. source' \in Data /\ \A j \in Ids, g \in Fields : source[j][g] <= source'[j][g]
    BY <1>1, <1>6 DEF Change, Data, Values
  <2>2. CASE UNCHANGED inbox
    BY <1>1, <1>6, <2>1, <2>2, OrderlyLater DEF Change, Stream
  <2>3. CASE Send(PushOf(i, f, source'[i][f]))
    <3> DEFINE m == PushOf(i, f, source'[i][f])
    <3>1. m \in Message BY <2>1 DEF Data, Message, Push, PushOf
    <3>2. \A j \in Ids, g \in Fields : Concerns(m, j, g) => Said(m, j, g) = source'[j][g]
      BY DEF Concerns, IsPush, Said, PushOf
    <3> HIDE DEF m
    <3>3. Send(m) /\ ready' = ready /\ entities' = entities BY <1>6, <2>3 DEF Change, m
    <3> QED BY <1>5, <2>1, <3>1, <3>2, <3>3
  <2> QED BY <1>6, <2>2, <2>3 DEF Change
<1>26. ASSUME NEW i \in Ids, NEW f \in Fields, Feed(i, f)
       PROVE  Orderly(Stream', source', entities')
  <2> DEFINE m == PushOf(i, f, source[i][f])
  <2>1. m \in Message BY <1>1 DEF Data, Message, Push, PushOf
  <2>2. \A j \in Ids, g \in Fields : Concerns(m, j, g) => Said(m, j, g) = source[j][g]
    BY DEF Concerns, IsPush, Said, PushOf
  <2>3. \A j \in Ids, g \in Fields : source[j][g] <= source[j][g] BY <1>1 DEF Data, Values
  <2>4. Send(m) /\ ready' = ready /\ entities' = entities /\ source' = source
    BY <1>26 DEF Feed
  <2> HIDE DEF m
  <2> QED BY <1>1, <1>5, <2>1, <2>2, <2>3, <2>4
<1>7. ASSUME Reply PROVE Orderly(Stream', source', entities')
  <2> DEFINE m == AnswerTo(asked)
  <2>1. m \in Message
    BY <1>7 DEF Reply, TypeOK, AnswerTo, Gets, Message, Answer
  <2>2. \A i \in Ids, f \in Fields : Concerns(m, i, f) => Said(m, i, f) = source[i][f]
    BY <1>7 DEF Reply, TypeOK, AnswerTo, Gets, Concerns, IsPush, Said
  <2>3. \A i \in Ids, f \in Fields : source[i][f] <= source[i][f] BY <1>1 DEF Data, Values
  <2> HIDE DEF m
  <2>4. Send(m) /\ ready' = ready /\ entities' = entities /\ source' = source
    BY <1>7 DEF Reply, m
  <2> QED BY <1>1, <1>5, <2>1, <2>2, <2>3, <2>4
<1>8. ASSUME Read PROVE Orderly(Stream', source', entities')
  <2>1. entities' = entities /\ source' = source BY <1>8 DEF Read
  <2> QED BY <1>1, <1>3, <1>8, <2>1, ReadStepMoves, CutIsWithin, WithinItself
<1>9. ASSUME RequestFails PROVE Orderly(Stream', source', entities')
  <2>1. entities' = entities /\ source' = source BY <1>9 DEF RequestFails
  <2> QED BY <1>1, <1>3, <1>9, <2>1, FailureCuts, CutOfAnswersIsWithin
<1>10. ASSUME ready' = ready, inbox' = <<>>, entities' = entities, source' = source
       PROVE  Orderly(Stream', source', entities')
  BY <1>1, <1>3, <1>10, FirstPartWithin, ConcatEmptySeq DEF Stream
<1>11. ASSUME ready' = <<>>, inbox' = inbox, entities' = entities, source' = source,
              inbox = <<>>
       PROVE  Orderly(Stream', source', entities')
  <2>1. Stream' = <<>> /\ Len(Stream') = 0 /\ Stream' \in Seq(Message)
    BY <1>11, EmptySeq, ConcatEmptySeq DEF Stream
  <2> QED BY <1>11, <2>1 DEF Orderly
<1>12. ASSUME UNCHANGED <<ready, inbox, entities, source>>
       PROVE  Orderly(Stream', source', entities')
  BY <1>12 DEF Stream
<1>13. ASSUME Orderly(Stream', source', entities'), entities' = entities
       PROVE  Goal
  BY <1>2, <1>13
<1>14. ASSUME ready # <<>>, Took, Oldest.kind = "push", Merge(Oldest),
              inbox' \in {inbox, <<>>}, source' = source
       PROVE  Goal
  <2>1. Oldest = Stream[1] /\ Oldest \in Message BY <1>14, TookStep
  <2>2. \A i \in Ids, f \in Fields :
          \/ FieldOf(entities', i, f) \in {Unset, FieldOf(entities, i, f)}
          \/ Concerns(Stream[1], i, f) /\ FieldOf(entities', i, f) = Said(Stream[1], i, f)
    BY <1>14, <2>1, MergedFields
  <2> QED BY <1>4, <1>14, <2>2, TookStep
<1>15. ASSUME ready # <<>>, Took, inbox' \in {inbox, <<>>}, source' = source,
              \A i \in Ids : entities'[i] \in {entities[i], Unset}
       PROVE  Goal
  <2>1. \A i \in Ids, f \in Fields :
          FieldOf(entities', i, f) \in {Unset, FieldOf(entities, i, f)}
    BY <1>15 DEF FieldOf
  <2> QED BY <1>4, <1>15, <2>1, TookStep
<1>16. ASSUME NEW kind \in {"devices", "areas"}, NEW ids, Resume(kind),
              Replace(ids, Oldest.body), inbox' = inbox, source' = source,
              ids = IF kind = "devices" THEN Endpoints ELSE Areas
       PROVE  Goal
  <2>1. /\ Oldest = Stream[1] /\ Oldest \in Message /\ Oldest.kind = kind
        /\ ready # <<>> /\ Took
    BY <1>16, TookStep DEF Resume
  <2>2. Oldest.body \in Data BY <1>16, <2>1, MessageTypes
  <2>3. \A i \in ids, f \in Fields : Concerns(Oldest, i, f)
    BY <1>16, <2>1 DEF Concerns
  <2>4. \A i \in Ids, f \in Fields :
          \/ FieldOf(entities', i, f) \in {Unset, FieldOf(entities, i, f)}
          \/ Concerns(Oldest, i, f) /\ FieldOf(entities', i, f) = Said(Oldest, i, f)
    BY <1>16, <2>1, <2>2, <2>3, ReplacedFields
  <2> QED BY <1>4, <1>16, <2>1, <2>4, TookStep
<1>17. CASE HandlePush \/ HandlerFails
  BY <1>14, <1>15, <1>17 DEF HandlePush, HandlerFails
<1>18. CASE GotConfig
  <2>1. \A i \in Ids : entities'[i] \in {entities[i], Unset}
    BY <1>18 DEF GotConfig, ApplyConfig
  <2> QED BY <1>15, <1>18, <2>1 DEF GotConfig, Resume
<1>19. CASE GotDevices \/ GotAreas
  BY <1>16, <1>19 DEF GotDevices, GotAreas
<1>20. CASE GotRefresh
  BY <1>15, <1>20 DEF GotRefresh, Resume
<1>21. CASE \E i \in Ids, f \in Fields : Change(i, f) \/ Feed(i, f)
  BY <1>6, <1>13, <1>21, <1>26 DEF Change, Feed
<1>22. CASE Reply \/ Read \/ RequestFails
  BY <1>7, <1>8, <1>9, <1>13, <1>22 DEF Reply, Read, RequestFails
<1>23. CASE Lose
  BY <1>10, <1>13, <1>23 DEF Lose
<1>24. CASE CancelTasks
  BY <1>11, <1>13, <1>24 DEF CancelTasks, Linked
<1>25. CASE ChangeConfig \/ Connect \/ BackoffEnds \/ UNCHANGED vars
  BY <1>12, <1>13, <1>25 DEF ChangeConfig, Connect, BackoffEnds, vars
<1> QED BY <1>17, <1>18, <1>19, <1>20, <1>21, <1>22, <1>23, <1>24, <1>25 DEF Next, Routine

LEMMA OrderlyAlways == Spec => []Orderly(Stream, source, entities)
<1>1. ASSUME Init PROVE Orderly(Stream, source, entities)
  <2>1. Stream = <<>> /\ Len(Stream) = 0 BY <1>1, EmptySeq, ConcatEmptySeq DEF Init, Stream
  <2>2. \A i \in Ids, f \in Fields : FieldOf(entities, i, f) = Unset
    BY <1>1 DEF Init, FieldOf
  <2> QED BY <2>1, <2>2 DEF Orderly
<1>2. TypeOK /\ Linked /\ Orderly(Stream, source, entities) /\ [Next]_vars
        => Orderly(Stream, source, entities)'
  BY OrderlyStep
<1> QED BY <1>1, <1>2, TypeCorrect, LinkedAlways, PTL DEF Spec

\* No cached value is ever replaced by an older one, in whatever order pushes and
\* snapshots are sent, read and merged, and whatever was lost: Cache.merge_devices
\* and replace_devices.
THEOREM ValuesNeverGoBack == Spec => NeverGoesBack
<1>1. TypeOK /\ Linked /\ Orderly(Stream, source, entities) /\ [Next]_vars =>
        [\A i \in Ids, f \in Fields :
           Cached(i, f) # Unset /\ Cached(i, f)' # Unset => Cached(i, f)' >= Cached(i, f)]_vars
  BY OrderlyStep DEF FieldOf, Cached
<1> QED BY <1>1, TypeCorrect, LinkedAlways, OrderlyAlways, PTL DEF Spec, NeverGoesBack
-----------------------------------------------------------------------------
(* A fresh cache is current                                                *)

\* A push of the value v of a field, after the n-th place of s.
Pushed(s, i, f, v, n) ==
  \E k \in 1 .. Len(s) : n < k /\ IsPush(s[k], i, f) /\ s[k].value = v

\* A field whose changes are pushed, which are not those of off, with a value that
\* validates.
Told(src, off, i, f) == <<i, f>> \notin off /\ src[i][f] \notin BadVersions

\* What says an older value of it than the one the Tydom holds is followed by the
\* push of that one.
Coherent(s, src, off) ==
  \A i \in Ids, f \in Fields : Told(src, off, i, f) =>
    \A n \in 1 .. Len(s) : Concerns(s[n], i, f) =>
      Said(s[n], i, f) = src[i][f] \/ Pushed(s, i, f, src[i][f], n)

\* The entity e is the Tydom's, up to the pushes of s: what it lacks is not valid,
\* or was hidden by the snapshot that created it.
CurrentEntity(s, src, off, e, i) ==
  /\ e # Unset
  /\ \A f \in Fields : Told(src, off, i, f) =>
       \/ Pushed(s, i, f, src[i][f], 0)
       \/ e.fields[f] = src[i][f]
       \/ e.fields[f] = Unset /\ e.partial
  /\ e.invalid => \E f \in Fields :
       ~Told(src, off, i, f) \/ Pushed(s, i, f, src[i][f], 0)

\* The entities whose snapshot the routine has had on this connection.
Fetched(i, st) ==
  \/ i \in Endpoints /\ st \in {"areas", "refresh", "waiting"}
  \/ i \in Areas /\ st \in {"refresh", "waiting"}

Current(s, src, off, ent, use, st) ==
  \A i \in Ids : Fetched(i, st) /\ use[i] # Unset => CurrentEntity(s, src, off, ent[i], i)

LEMMA StillPushed ==
  ASSUME NEW s \in Seq(Message), NEW t \in Seq(Message), NEW k, Cut(t, s, k),
         NEW i, NEW f, NEW v, NEW n \in Nat, Pushed(s, i, f, v, n),
         k <= n \/ ~(IsPush(s[k], i, f) /\ s[k].value = v)
  PROVE  Pushed(t, i, f, v, IF n < k THEN n ELSE n - 1)
<1>1. /\ k \in 1 .. Len(s) /\ Len(t) = Len(s) - 1 /\ Len(s) \in Nat
      /\ \A m \in 1 .. Len(t) : t[m] = s[IF m < k THEN m ELSE m + 1]
  BY LenProperties DEF Cut
<1>2. PICK m \in 1 .. Len(s) : n < m /\ IsPush(s[m], i, f) /\ s[m].value = v
  BY DEF Pushed
<1>3. m # k BY <1>1, <1>2
<1> DEFINE p == IF m < k THEN m ELSE m - 1
<1>4. p \in 1 .. Len(t) /\ (IF p < k THEN p ELSE p + 1) = m BY <1>1, <1>2, <1>3
<1>5. (IF n < k THEN n ELSE n - 1) < p BY <1>1, <1>2, <1>3
<1>6. t[p] = s[m] BY <1>1, <1>4
<1> HIDE DEF p
<1> QED BY <1>2, <1>4, <1>5, <1>6 DEF Pushed

\* The head of the stream may go, and what is no valid push.
LEMMA CoherentFewer ==
  ASSUME NEW s \in Seq(Message), NEW t \in Seq(Message), NEW k, Cut(t, s, k),
         NEW src, NEW off, Coherent(s, src, off),
         k = 1 \/ s[k].kind # "push" \/ s[k].value \in BadVersions
  PROVE  Coherent(t, src, off)
<1>1. /\ k \in 1 .. Len(s) /\ Len(t) = Len(s) - 1 /\ Len(s) \in Nat
      /\ \A n \in 1 .. Len(t) : t[n] = s[IF n < k THEN n ELSE n + 1]
  BY LenProperties DEF Cut
<1> SUFFICES ASSUME NEW i \in Ids, NEW f \in Fields, Told(src, off, i, f),
                    NEW n \in 1 .. Len(t), Concerns(t[n], i, f),
                    Said(t[n], i, f) # src[i][f]
             PROVE  Pushed(t, i, f, src[i][f], n)
  BY DEF Coherent
<1> DEFINE p == IF n < k THEN n ELSE n + 1
<1>2. p \in 1 .. Len(s) /\ t[n] = s[p] BY <1>1
<1>3. Pushed(s, i, f, src[i][f], p) BY <1>2 DEF Coherent
<1>4. k <= p \/ ~(IsPush(s[k], i, f) /\ s[k].value = src[i][f])
  BY <1>1, <1>2 DEF IsPush, Told
<1>5. p \in Nat /\ (IF p < k THEN p ELSE p - 1) = n BY <1>1
<1> HIDE DEF p
<1>6. Pushed(t, i, f, src[i][f], IF p < k THEN p ELSE p - 1)
  BY <1>3, <1>4, <1>5, StillPushed
<1> QED BY <1>5, <1>6

LEMMA PushedLonger ==
  ASSUME NEW s \in Seq(Message), NEW t \in Seq(Message), NEW m, Longer(t, s, m),
         NEW i, NEW f, NEW v, NEW n \in 0 .. Len(s)
  PROVE  /\ Pushed(s, i, f, v, n) => Pushed(t, i, f, v, n)
         /\ IsPush(m, i, f) /\ m.value = v => Pushed(t, i, f, v, n)
<1>1. /\ Len(t) = Len(s) + 1 /\ t[Len(s) + 1] = m /\ Len(s) \in Nat
      /\ \A k \in 1 .. Len(s) : t[k] = s[k]
  BY LenProperties DEF Longer
<1>2. ASSUME IsPush(m, i, f), m.value = v PROVE Pushed(t, i, f, v, n)
  <2>1. Len(s) + 1 \in 1 .. Len(t) /\ n < Len(s) + 1 BY <1>1
  <2> QED BY <1>1, <1>2, <2>1 DEF Pushed
<1>3. ASSUME Pushed(s, i, f, v, n) PROVE Pushed(t, i, f, v, n)
  <2>1. PICK k \in 1 .. Len(s) : n < k /\ IsPush(s[k], i, f) /\ s[k].value = v
    BY <1>3 DEF Pushed
  <2>2. k \in 1 .. Len(t) /\ t[k] = s[k] BY <1>1
  <2> QED BY <2>1, <2>2 DEF Pushed
<1> QED BY <1>2, <1>3

\* What the Tydom sends says what it holds; it says every change, and every
\* value whose changes are to be told from then on.
Tells(m, src, off, later, still) ==
  \A i \in Ids, f \in Fields :
    /\ Concerns(m, i, f) => Said(m, i, f) = later[i][f]
    /\ later[i][f] # src[i][f] \/ <<i, f>> \in off =>
         <<i, f>> \in still \/ (IsPush(m, i, f) /\ m.value = later[i][f])

LEMMA CoherentLonger ==
  ASSUME NEW s \in Seq(Message), NEW t \in Seq(Message), NEW m, Longer(t, s, m),
         NEW src, NEW off, NEW later, NEW still, Coherent(s, src, off),
         Tells(m, src, off, later, still)
  PROVE  Coherent(t, later, still)
<1> SUFFICES ASSUME NEW i \in Ids, NEW f \in Fields, Told(later, still, i, f),
                    NEW n \in 1 .. Len(t), Concerns(t[n], i, f),
                    Said(t[n], i, f) # later[i][f]
             PROVE  Pushed(t, i, f, later[i][f], n)
  BY DEF Coherent
<1>1. /\ Len(t) = Len(s) + 1 /\ t[Len(s) + 1] = m /\ Len(s) \in Nat
      /\ \A k \in 1 .. Len(s) : t[k] = s[k]
  BY LenProperties DEF Longer
<1>2. n \in 1 .. Len(s)
  <2>1. n # Len(s) + 1 BY <1>1 DEF Tells
  <2> QED BY <1>1, <2>1
<1>3. n \in 0 .. Len(s) /\ t[n] = s[n] BY <1>1, <1>2
<1>4. CASE later[i][f] = src[i][f] /\ <<i, f>> \notin off
  <2>1. Pushed(s, i, f, src[i][f], n) BY <1>2, <1>3, <1>4 DEF Coherent, Told
  <2> QED BY <1>3, <1>4, <2>1, PushedLonger
<1>5. CASE IsPush(m, i, f) /\ m.value = later[i][f]
  BY <1>3, <1>5, PushedLonger
<1> QED BY <1>4, <1>5 DEF Tells, Told

LEMMA CurrentLonger ==
  ASSUME NEW s \in Seq(Message), NEW t \in Seq(Message), NEW m, Longer(t, s, m),
         NEW src, NEW off, NEW later, NEW still, NEW i \in Ids, NEW e,
         CurrentEntity(s, src, off, e, i), Tells(m, src, off, later, still)
  PROVE  CurrentEntity(t, later, still, e, i)
<1>1. 0 \in 0 .. Len(s) BY LenProperties
<1>2. \A f \in Fields : \/ Pushed(t, i, f, later[i][f], 0)
                        \/ <<i, f>> \in still
                        \/ /\ later[i][f] = src[i][f] /\ <<i, f>> \notin off
                           /\ ~Pushed(s, i, f, src[i][f], 0)
  BY <1>1, PushedLonger DEF Tells
<1> QED BY <1>2 DEF CurrentEntity, Told

LEMMA CurrentFewer ==
  ASSUME NEW s \in Seq(Message), NEW t \in Seq(Message), NEW k, Cut(t, s, k),
         NEW src, NEW off, NEW i \in Ids, NEW e, CurrentEntity(s, src, off, e, i),
         s[k].kind # "push" \/ s[k].value \in BadVersions \/ s[k].id # i
  PROVE  CurrentEntity(t, src, off, e, i)
<1>1. k \in 1 .. Len(s) /\ 0 < k BY LenProperties DEF Cut
<1>2. ASSUME NEW f \in Fields, Told(src, off, i, f), Pushed(s, i, f, src[i][f], 0)
      PROVE  Pushed(t, i, f, src[i][f], 0)
  <2>1. ~(IsPush(s[k], i, f) /\ s[k].value = src[i][f]) BY <1>2 DEF IsPush, Told
  <2>2. Pushed(t, i, f, src[i][f], IF 0 < k THEN 0 ELSE 0 - 1)
    BY <1>2, <2>1, StillPushed
  <2> QED BY <1>1, <2>2
<1> QED BY <1>2 DEF CurrentEntity

\* Once its head is handled, a coherent stream says what the head did not.
LEMMA SaidOrPushed ==
  ASSUME NEW s \in Seq(Message), NEW t \in Seq(Message), Cut(t, s, 1),
         NEW src, NEW off, Coherent(s, src, off), NEW i \in Ids, NEW f \in Fields,
         Concerns(s[1], i, f), Told(src, off, i, f)
  PROVE  Said(s[1], i, f) = src[i][f] \/ Pushed(t, i, f, src[i][f], 0)
<1>1. 1 \in 1 .. Len(s) BY DEF Cut
<1>2. CASE Pushed(s, i, f, src[i][f], 1)
  <2>1. Pushed(t, i, f, src[i][f], IF 1 < 1 THEN 1 ELSE 1 - 1) BY <1>2, StillPushed
  <2> QED BY <2>1
<1> QED BY <1>1, <1>2 DEF Coherent

LEMMA CurrentSnapshot ==
  ASSUME NEW s \in Seq(Message), NEW t \in Seq(Message), Cut(t, s, 1),
         NEW src, NEW off, Coherent(s, src, off), NEW i \in Ids, s[1].kind # "push",
         \A f \in Fields : Concerns(s[1], i, f),
         NEW usage \in Usages, s[1].body \in Data
  PROVE  CurrentEntity(t, src, off, FromSnapshot(s[1].body[i], usage), i)
<1> SUFFICES ASSUME NEW e, e = FromSnapshot(s[1].body[i], usage)
             PROVE  CurrentEntity(t, src, off, e, i)
  OBVIOUS
<1>1. e # Unset BY SnapshotTypes, UnsetApart
<1>2. \A f \in Fields : Told(src, off, i, f) =>
        s[1].body[i][f] = src[i][f] \/ Pushed(t, i, f, src[i][f], 0)
  BY SaidOrPushed DEF Said
<1>3. CASE \E f \in Fields : s[1].body[i][f] \in BadVersions
  <2>1. \A f \in Fields : e.fields[f] = Unset /\ e.partial
    BY <1>3 DEF FromSnapshot, NoFields
  <2>2. \E f \in Fields : ~Told(src, off, i, f) \/ Pushed(t, i, f, src[i][f], 0)
    BY <1>2, <1>3 DEF Told
  <2> QED BY <1>1, <2>1, <2>2 DEF CurrentEntity
<1>4. CASE ~\E f \in Fields : s[1].body[i][f] \in BadVersions
  <2>1. e.invalid = FALSE /\ \A f \in Fields : e.fields[f] = s[1].body[i][f]
    BY <1>4 DEF FromSnapshot
  <2> QED BY <1>1, <1>2, <2>1 DEF CurrentEntity
<1> QED BY <1>3, <1>4
LEMMA CurrentMerged ==
  ASSUME TypeOK, NEW t \in Seq(Message), Cut(t, Stream, 1), NEW off,
         Coherent(Stream, source, off),
         Stream[1] \in Message, Stream[1].kind = "push", Merge(Stream[1]),
         NEW i \in Ids, usages[i] # Unset, CurrentEntity(Stream, source, off, entities[i], i)
  PROVE  CurrentEntity(t, source, off, entities'[i], i)
<1> DEFINE push == Stream[1]
<1>1. Stream \in Seq(Message) BY StreamTypes
<1>2. CASE i # push.id
  BY <1>1, <1>2, MergeEffect, CurrentFewer
<1>3. CASE i = push.id
  <2>1. entities[i] # Unset BY DEF CurrentEntity
  <2>2. /\ entities'[i] # Unset /\ ~entities'[i].invalid
        /\ entities'[i].partial = entities[i].partial
        /\ entities'[i].fields[push.field] = push.value
        /\ \A g \in Fields \ {push.field} : entities'[i].fields[g] = entities[i].fields[g]
    BY <1>3, <2>1, MergeEffect DEF FieldOf
  <2>3. ASSUME NEW f \in Fields, Told(source, off, i, f)
        PROVE  \/ Pushed(t, i, f, source[i][f], 0)
               \/ entities'[i].fields[f] = source[i][f]
               \/ entities'[i].fields[f] = Unset /\ entities'[i].partial
    <3>1. CASE f = push.field
      <4>1. Concerns(push, i, f) /\ Said(push, i, f) = push.value
        BY <1>3, <3>1 DEF Concerns, IsPush, Said
      <4> QED BY <1>1, <2>2, <2>3, <3>1, <4>1, SaidOrPushed
    <3>2. CASE f # push.field
      <4>1. Pushed(Stream, i, f, source[i][f], 0) => Pushed(t, i, f, source[i][f], 0)
        <5>1. ~(IsPush(push, i, f) /\ push.value = source[i][f]) BY <3>2 DEF IsPush
        <5>2. Pushed(Stream, i, f, source[i][f], 0) =>
                Pushed(t, i, f, source[i][f], IF 0 < 1 THEN 0 ELSE 0 - 1)
          BY <1>1, <5>1, StillPushed
        <5> QED BY <5>2
      <4> QED BY <2>2, <2>3, <3>2, <4>1 DEF CurrentEntity
    <3> QED BY <3>1, <3>2
  <2> QED BY <2>2, <2>3 DEF CurrentEntity
<1> QED BY <1>2, <1>3

\* On a connection, the messages on their way are coherent, and what the routine
\* fetched is current.
Unfed == Conso \ fed

UpToDate ==
  conn = "up" => /\ Coherent(Stream, source, Unfed)
                 /\ Current(Stream, source, Unfed, entities, usages, step)

LEMMA UpToDateStep ==
  ASSUME TypeOK, Linked, UpToDate, [Next]_vars, conn' = "up"
  PROVE  Coherent(Stream', source', Unfed')
           /\ Current(Stream', source', Unfed', entities', usages', step')
<1> DEFINE Goal ==
      Coherent(Stream', source', Unfed')
           /\ Current(Stream', source', Unfed', entities', usages', step')
<1> USE DEF tydomVars, linkVars, feedVars, cacheVars
<1>1. /\ ready \in Seq(Message) /\ inbox \in Seq(Message) /\ Stream \in Seq(Message)
      /\ entities \in [Ids -> Entity \cup {Unset}] /\ source \in Data
  BY StreamTypes DEF TypeOK
<1>2. CASE Connect
  <2>1. inbox' = <<>> /\ ready' = <<>> /\ step' = "config" BY <1>2 DEF Connect, Linked, Ask
  <2>2. Len(Stream') = 0 BY <2>1, ConcatEmptySeq, EmptySeq DEF Stream
  <2> QED BY <2>1, <2>2 DEF Coherent, Current, Fetched
<1>3. CASE CancelTasks \/ Lose \/ HandlerFails
  BY <1>3 DEF CancelTasks, Lose, HandlerFails
<1> SUFFICES ASSUME ~Connect, ~CancelTasks, ~Lose, ~HandlerFails PROVE Goal
  BY <1>2, <1>3
<1>4. conn = "up"
  BY DEF Next, Routine, Change, Feed, ChangeConfig, Reply, Read, HandlePush, GotConfig, GotDevices,
         GotAreas, GotRefresh, RequestFails, BackoffEnds, vars
<1>5. Coherent(Stream, source, Unfed)
      /\ Current(Stream, source, Unfed, entities, usages, step)
  BY <1>4 DEF UpToDate
\* The Tydom sends m.
<1>6. ASSUME NEW m \in Message, Send(m), ready' = ready, source' \in Data,
             UNCHANGED <<entities, usages, step>>,
             Tells(m, source, Unfed, source', Unfed')
      PROVE  Goal
  <2>1. inbox' \in Seq(Message) /\ Longer(Stream', Stream, m)
    BY <1>1, <1>6, AppendSecondPart DEF Send, Stream
  <2>2. Stream' \in Seq(Message) BY <1>1, <1>6, <2>1, StreamOf DEF Stream
  <2>3. Coherent(Stream', source', Unfed') BY <1>1, <1>5, <1>6, <2>1, <2>2, CoherentLonger
  <2>4. \A i \in Ids : CurrentEntity(Stream, source, Unfed, entities[i], i) =>
                         CurrentEntity(Stream', source', Unfed', entities[i], i)
    BY <1>1, <1>6, <2>1, <2>2, CurrentLonger
  <2> QED BY <1>5, <1>6, <2>3, <2>4 DEF Current
<1>7. CASE \E i \in Ids, f \in Fields : Change(i, f)
  <2>1. PICK i \in Ids, f \in Fields : Change(i, f) BY <1>7
  <2>2. source' \in Data /\ \A j \in Ids, g \in Fields :
          (j # i \/ g # f) => source'[j][g] = source[j][g]
    BY <1>1, <2>1 DEF Change, Data, Values
  <2>6. Unfed' = Unfed BY <2>1 DEF Change, Unfed
  <2> DEFINE m == PushOf(i, f, source'[i][f])
  <2>3. CASE Send(m)
    <3>1. m \in Message BY <2>2 DEF Data, Message, Push, PushOf
    <3>2. Tells(m, source, Unfed, source', Unfed')
      BY <2>2, <2>6 DEF Tells, Concerns, IsPush, Said, PushOf
    <3>3. Send(m) /\ ready' = ready /\ UNCHANGED <<entities, usages, step>>
      BY <2>1, <2>3 DEF Change
    <3> HIDE DEF m
    <3> QED BY <1>6, <2>2, <3>1, <3>2, <3>3
  <2>4. CASE <<i, f>> \in Unfed /\ UNCHANGED inbox
    <3>1. \A j \in Ids, g \in Fields : Told(source', Unfed', j, g) <=> Told(source, Unfed, j, g)
      BY <2>2, <2>4, <2>6 DEF Told
    <3>2. \A j \in Ids, g \in Fields :
            Told(source, Unfed, j, g) => source'[j][g] = source[j][g]
      BY <2>2, <2>4 DEF Told
    <3>3. Stream' = Stream /\ UNCHANGED <<entities, usages, step>>
      BY <2>1, <2>4 DEF Change, Stream
    <3>4. Coherent(Stream', source', Unfed')
      BY <1>5, <3>1, <3>2, <3>3 DEF Coherent
    <3>5. \A j \in Ids : CurrentEntity(Stream, source, Unfed, entities[j], j) =>
                           CurrentEntity(Stream', source', Unfed', entities'[j], j)
      BY <3>1, <3>2, <3>3 DEF CurrentEntity
    <3> QED BY <1>5, <3>3, <3>4, <3>5 DEF Current
  <2> QED BY <1>4, <2>1, <2>3, <2>4 DEF Change, Unfed
<1>21. CASE \E i \in Ids, f \in Fields : Feed(i, f)
  <2>1. PICK i \in Ids, f \in Fields : Feed(i, f) BY <1>21
  <2> DEFINE m == PushOf(i, f, source[i][f])
  <2>2. m \in Message BY <1>1 DEF Data, Message, Push, PushOf
  <2>3. source' = source /\ Unfed' = Unfed \ {<<i, f>>} BY <2>1 DEF Feed, Unfed
  <2>4. Send(m) /\ ready' = ready /\ UNCHANGED <<entities, usages, step>>
    BY <2>1 DEF Feed
  <2>5. Tells(m, source, Unfed, source', Unfed')
    BY <2>3 DEF Tells, Concerns, IsPush, Said, PushOf
  <2> HIDE DEF m
  <2> QED BY <1>1, <1>6, <2>2, <2>3, <2>4, <2>5
<1>8. CASE Reply
  <2> DEFINE m == AnswerTo(asked)
  <2>1. m \in Message
    BY <1>8 DEF Reply, TypeOK, AnswerTo, Gets, Message, Answer
  <2>2. source' = source /\ Unfed' = Unfed BY <1>8 DEF Reply, Unfed
  <2>3. \A i \in Ids, f \in Fields : Concerns(m, i, f) => Said(m, i, f) = source[i][f]
    BY <1>8 DEF Reply, TypeOK, AnswerTo, Gets, Concerns, IsPush, Said
  <2>4. Send(m) /\ ready' = ready /\ UNCHANGED <<entities, usages, step>>
    BY <1>8 DEF Reply
  <2> HIDE DEF m
  <2>5. Tells(m, source, Unfed, source', Unfed') BY <2>2, <2>3 DEF Tells
  <2> QED BY <1>1, <1>6, <2>1, <2>2, <2>4, <2>5
\* What is no valid push leaves the stream.
<1>9. ASSUME NEW s \in Seq(Message), NEW t \in Seq(Message), NEW k, Cut(t, s, k),
             s[k].kind # "push" \/ s[k].value \in BadVersions, Coherent(s, source, Unfed),
             NEW st, NEW new, Current(s, source, Unfed, entities, usages, st),
             \A i \in Ids : Fetched(i, new) => Fetched(i, st)
      PROVE  Coherent(t, source, Unfed) /\ Current(t, source, Unfed, entities, usages, new)
  <2>1. Coherent(t, source, Unfed) BY <1>9, CoherentFewer
  <2>2. \A i \in Ids : CurrentEntity(s, source, Unfed, entities[i], i) =>
                         CurrentEntity(t, source, Unfed, entities[i], i)
    BY <1>9, CurrentFewer
  <2> QED BY <1>9, <2>1, <2>2 DEF Current
<1>10. CASE Read
  <2>1. UNCHANGED <<source, Unfed, entities, usages, step>> BY <1>10 DEF Read, Unfed
  <2> QED BY <1>1, <1>5, <1>9, <1>10, <2>1, ReadStepMoves
<1>11. CASE RequestFails
  <2>1. /\ UNCHANGED <<source, Unfed, entities, usages>>
        /\ \A i \in Ids : Fetched(i, step') => Fetched(i, step)
    BY <1>11 DEF RequestFails, Fetched, Unfed
  <2>2. \A i \in Ids : Fetched(i, step) => Fetched(i, step) OBVIOUS
  <2>3. PICK u \in Seq(Message) :
          /\ u = Stream \/ \E k \in 1 .. Len(Stream) : Stream[k].kind # "push" /\ Cut(u, Stream, k)
          /\ Stream' = u \/ \E k \in 1 .. Len(u) : u[k].kind # "push" /\ Cut(Stream', u, k)
    BY <1>11, FailureCuts DEF CutOfAnswers
  <2>4. Coherent(u, source, Unfed) /\ Current(u, source, Unfed, entities, usages, step)
    BY <1>1, <1>5, <1>9, <2>2, <2>3
  <2>5. CASE Stream' = u BY <2>1, <2>4, <2>5 DEF Current
  <2>6. Stream' \in Seq(Message) BY <1>11, FailureCuts
  <2> QED BY <1>9, <2>1, <2>3, <2>4, <2>5, <2>6
\* The head of the stream is handled.
<1>12. ASSUME ready # <<>>, Took, inbox' = inbox
       PROVE  /\ Stream' \in Seq(Message) /\ Cut(Stream', Stream, 1)
              /\ Stream[1] \in Message /\ Oldest = Stream[1] /\ Coherent(Stream', source, Unfed)
  BY <1>1, <1>5, <1>12, TookStep, CoherentFewer
<1>13. CASE HandlePush
  <2>1. UNCHANGED <<source, Unfed, usages, step>> BY <1>13 DEF HandlePush, Unfed
  <2>2. \A i \in Ids : usages[i] # Unset /\ CurrentEntity(Stream, source, Unfed, entities[i], i) =>
                         CurrentEntity(Stream', source, Unfed, entities'[i], i)
    BY <1>5, <1>12, <1>13, CurrentMerged DEF HandlePush
  <2> QED BY <1>5, <1>12, <1>13, <2>1, <2>2 DEF HandlePush, Current
<1>14. CASE GotConfig
  <2>1. step' = "devices" /\ source' = source /\ Unfed' = Unfed
    BY <1>14 DEF GotConfig, Ask, Unfed
  <2> QED BY <1>12, <1>14, <2>1 DEF GotConfig, Resume, Current, Fetched
<1>15. ASSUME NEW kind \in {"devices", "areas"}, NEW ids, Resume(kind), inbox' = inbox,
              Replace(ids, Oldest.body), source' = source, usages' = usages, Unfed' = Unfed,
              ids = IF kind = "devices" THEN Endpoints ELSE Areas,
              \A i \in Ids : Fetched(i, step') => i \in ids \/ Fetched(i, step)
       PROVE  Goal
  <2>1. /\ Stream' \in Seq(Message) /\ Cut(Stream', Stream, 1)
        /\ Stream[1] \in Message /\ Oldest = Stream[1] /\ Coherent(Stream', source, Unfed)
    BY <1>12, <1>15 DEF Resume
  <2>2. Stream[1].kind = kind /\ Stream[1].body \in Data
    BY <1>15, <2>1, MessageTypes DEF Resume
  <2>3. \A i \in Ids \ ids : entities'[i] = entities[i]
    BY <1>15 DEF Replace
  <2>4. \A i \in Ids \ ids : Fetched(i, step') /\ usages[i] # Unset =>
                               CurrentEntity(Stream', source, Unfed, entities'[i], i)
    <3>1. \A i \in Ids : CurrentEntity(Stream, source, Unfed, entities[i], i) =>
                           CurrentEntity(Stream', source, Unfed, entities[i], i)
      BY <1>1, <2>1, <2>2, CurrentFewer
    <3> QED BY <1>5, <1>15, <2>3, <3>1 DEF Current
  <2>5. ASSUME NEW i \in Ids, i \in ids, usages[i] # Unset
        PROVE  CurrentEntity(Stream', source, Unfed, entities'[i], i)
    <3>1. usages[i] \in Usages BY <2>5 DEF TypeOK, Targets
    <3>2. entities'[i] = FromSnapshot(Stream[1].body[i], usages[i])
      BY <1>15, <2>1, <2>5 DEF Replace
    <3>3. \A f \in Fields : Concerns(Stream[1], i, f)
      BY <1>15, <2>2, <2>5 DEF Concerns
    <3> QED BY <1>1, <1>5, <2>1, <2>2, <3>1, <3>2, <3>3, CurrentSnapshot
  <2> QED BY <1>15, <2>1, <2>4, <2>5 DEF Current
<1>16. CASE GotDevices
  <2>1. step' = "areas" /\ \A i \in Ids : Fetched(i, step') => i \in Endpoints
    BY <1>16 DEF GotDevices, Ask, Fetched
  <2> QED BY <1>15, <1>16, <2>1 DEF GotDevices, Unfed
<1>17. CASE GotAreas
  <2>1. step = "areas" /\ step' = "refresh" BY <1>17 DEF GotAreas, Resume, Ask
  <2>2. \A i \in Ids : Fetched(i, step') => i \in Areas \/ Fetched(i, step)
    BY <2>1 DEF Fetched
  <2> QED BY <1>15, <1>17, <2>2 DEF GotAreas, Unfed
<1>18. CASE GotRefresh
  <2>1. /\ UNCHANGED <<source, Unfed, entities, usages>> /\ Stream[1].kind # "push"
        /\ Stream' \in Seq(Message) /\ Cut(Stream', Stream, 1)
    BY <1>12, <1>18 DEF GotRefresh, Resume, Unfed
  <2>2. \A i \in Ids : Fetched(i, step') => Fetched(i, step)
    BY <1>18 DEF GotRefresh, Resume, Fetched
  <2> QED BY <1>1, <1>5, <1>9, <2>1, <2>2
<1>19. CASE BackoffEnds
  <2>1. step' = "config" /\ UNCHANGED <<source, Unfed, inbox, ready>>
    BY <1>19 DEF BackoffEnds, Ask, Unfed
  <2> QED BY <1>5, <2>1 DEF Stream, Current, Fetched
<1>20. CASE ChangeConfig \/ UNCHANGED vars
  BY <1>5, <1>20 DEF ChangeConfig, vars, Stream, Unfed
<1> QED BY <1>7, <1>8, <1>10, <1>11, <1>13, <1>14, <1>16, <1>17, <1>18, <1>19, <1>20, <1>21
        DEF Next, Routine

LEMMA UpToDateAlways == Spec => []UpToDate
<1>1. Init => UpToDate BY DEF Init, UpToDate
<1>2. TypeOK /\ Linked /\ UpToDate /\ [Next]_vars => UpToDate'
  BY UpToDateStep DEF UpToDate
<1> QED BY <1>1, <1>2, TypeCorrect, LinkedAlways, PTL DEF Spec
LEMMA ItemShown ==
  ASSUME NEW i \in Ids, usages[i] # Unset, entities[i] # Unset
  PROVE  /\ GetState.items[i] = ItemOf(i) /\ EntityOf(i) = entities[i]
         /\ "error" \in DOMAIN GetState.items[i] <=>
              entities[i].invalid \/ ~Readable(entities[i].fields)
         /\ "error" \in DOMAIN GetState.items[i] => \A f \in Fields : Shown(i, f) = Unset
         /\ "error" \notin DOMAIN GetState.items[i] =>
              \A f \in Fields : Shown(i, f) = entities[i].fields[f]
<1>1. EntityOf(i) = entities[i] BY DEF EntityOf
<1>2. GetState.items[i] = ItemOf(i) BY DEF GetState
<1>3. CASE entities[i].invalid \/ ~Readable(entities[i].fields)
  <2>1. ItemOf(i) = [kind |-> usages[i], error |-> "invalid_state"]
    BY <1>1, <1>3 DEF ItemOf
  <2>2. "error" \in DOMAIN ItemOf(i) /\ "state" \notin DOMAIN ItemOf(i) BY <2>1
  <2> QED BY <1>1, <1>2, <1>3, <2>2 DEF Shown
<1>4. CASE ~(entities[i].invalid \/ ~Readable(entities[i].fields))
  <2>1. ItemOf(i) = [kind |-> usages[i], state |-> TypedState(entities[i].fields)]
    BY <1>1, <1>4 DEF ItemOf
  <2>2. /\ "state" \in DOMAIN ItemOf(i) /\ "error" \notin DOMAIN ItemOf(i)
        /\ ItemOf(i).state = TypedState(entities[i].fields)
    BY <2>1
  <2>3. \A f \in Fields : Shown(i, f) = entities[i].fields[f]
    BY <1>2, <2>2 DEF Shown, TypedState
  <2> QED BY <1>1, <1>2, <1>4, <2>2, <2>3
<1> QED BY <1>3, <1>4

LEMMA ShownIsCached ==
  ASSUME NEW i \in Ids, usages[i] # Unset, NEW f \in Fields, Shown(i, f) # Unset
  PROVE  Shown(i, f) = FieldOf(entities, i, f)
<1>1. CASE entities[i] # Unset BY <1>1, ItemShown DEF FieldOf
<1>2. CASE entities[i] = Unset
  <2>1. \A g \in Fields : EntityOf(i).fields[g] = Unset
    BY <1>2 DEF EntityOf, NewEntity, NoFields
  <2>2. GetState.items[i] = ItemOf(i) BY DEF GetState
  <2>3. ItemOf(i).state = TypedState(EntityOf(i).fields) \/ "state" \notin DOMAIN ItemOf(i)
    BY DEF ItemOf
  <2>4. DOMAIN TypedState(EntityOf(i).fields) = {} BY <2>1 DEF TypedState
  <2> QED BY <2>2, <2>3, <2>4 DEF Shown
<1> QED BY <1>1, <1>2

\* The pushes that are coming carry the value that the Tydom holds, the newest last.
LEMMA ComingIsCurrent ==
  ASSUME TypeOK, Coherent(Stream, source, Unfed), NEW i \in Ids, NEW f \in Fields,
         Told(source, Unfed, i, f)
  PROVE  IF Pushed(Stream, i, f, source[i][f], 0)
         THEN Coming(i, f) # {} /\ \A n \in Newest(i, f) : Stream[n].value = source[i][f]
         ELSE Coming(i, f) = {}
<1>1. Stream \in Seq(Message) /\ DOMAIN Stream = 1 .. Len(Stream) /\ Len(Stream) \in Nat
  BY StreamTypes
<1>2. \A n \in Coming(i, f) :
        /\ n \in 1 .. Len(Stream) /\ IsPush(Stream[n], i, f) /\ Concerns(Stream[n], i, f)
        /\ Said(Stream[n], i, f) = Stream[n].value
  BY <1>1 DEF Coming, IsPush, Concerns, Said
<1>3. \A n \in 1 .. Len(Stream) :
        IsPush(Stream[n], i, f) /\ Stream[n].value = source[i][f] => n \in Coming(i, f)
  BY <1>1 DEF Coming, IsPush, Told
<1>4. ASSUME NEW n \in Coming(i, f)
      PROVE  Stream[n].value = source[i][f] \/ \E m \in Coming(i, f) : n < m
  <2>1. Said(Stream[n], i, f) = source[i][f] \/ Pushed(Stream, i, f, source[i][f], n)
    BY <1>2 DEF Coherent
  <2> QED BY <1>2, <1>3, <2>1 DEF Pushed
<1>5. CASE Pushed(Stream, i, f, source[i][f], 0)
  <2>1. Coming(i, f) # {} BY <1>3, <1>5 DEF Pushed
  <2>2. ASSUME NEW n \in Newest(i, f) PROVE Stream[n].value = source[i][f]
    <3>1. n \in Coming(i, f) /\ \A m \in Coming(i, f) : m <= n BY DEF Newest
    <3>2. ~\E m \in Coming(i, f) : n < m BY <1>1, <1>2, <3>1
    <3> QED BY <1>4, <3>1, <3>2
  <2> QED BY <1>5, <2>1, <2>2
<1>6. CASE ~Pushed(Stream, i, f, source[i][f], 0)
  <2>1. ASSUME NEW n \in Coming(i, f) PROVE FALSE
    <3>1. Stream[n].value # source[i][f] BY <1>1, <1>2, <1>6 DEF Pushed
    <3>2. Pushed(Stream, i, f, source[i][f], n) BY <1>2, <3>1 DEF Coherent
    <3> QED BY <1>1, <1>2, <1>6, <3>2 DEF Pushed
  <2> QED BY <1>6, <2>1
<1> QED BY <1>5, <1>6

LEMMA UpToDateIsCurrent ==
  ASSUME TypeOK, Linked, UpToDate, marked = "connected", synced, conn = "up",
         NEW i \in Ids, usages[i] # Unset
  PROVE  ItemIsCurrent(i) /\ ErrorIsTrue(i)
<1>1. Coherent(Stream, source, Unfed) /\ CurrentEntity(Stream, source, Unfed, entities[i], i)
  <2>1. Fetched(i, step) BY DEF Linked, Fetched, Ids
  <2> QED BY <2>1 DEF UpToDate, Current
<1>2. entities[i] # Unset /\ entities[i] \in Entity BY <1>1 DEF CurrentEntity, TypeOK
<1>3. /\ "error" \in DOMAIN GetState.items[i] <=>
           entities[i].invalid \/ ~Readable(entities[i].fields)
      /\ "error" \in DOMAIN GetState.items[i] => \A f \in Fields : Shown(i, f) = Unset
      /\ "error" \notin DOMAIN GetState.items[i] =>
           \A f \in Fields : Shown(i, f) = entities[i].fields[f]
  BY <1>2, ItemShown
<1>4. ASSUME NEW f \in Fields, Told(source, Unfed, i, f)
      PROVE  /\ Pushed(Stream, i, f, source[i][f], 0) =>
                  /\ Coming(i, f) # {}
                  /\ \A n \in Newest(i, f) : Stream[n].value = source[i][f]
             /\ ~Pushed(Stream, i, f, source[i][f], 0) =>
                  /\ Coming(i, f) = {}
                  /\ \/ entities[i].fields[f] = source[i][f]
                     \/ entities[i].fields[f] = Unset /\ entities[i].partial
  <2>1. IF Pushed(Stream, i, f, source[i][f], 0)
        THEN Coming(i, f) # {} /\ \A n \in Newest(i, f) : Stream[n].value = source[i][f]
        ELSE Coming(i, f) = {}
    BY <1>1, <1>4, ComingIsCurrent
  <2> QED BY <1>1, <1>4, <2>1 DEF CurrentEntity
<1>5. \A f \in Fields :
        Told(source, Unfed, i, f) <=> Followed(i, f) /\ source[i][f] \notin BadVersions
  BY DEF Told, Followed, Unfed
<1>6. ItemIsCurrent(i)
  BY <1>3, <1>4, <1>5 DEF ItemIsCurrent
<1>7. ASSUME "error" \in DOMAIN GetState.items[i]
      PROVE  \E f \in Fields : \/ source[i][f] \in BadVersions \cup Unreadable
                               \/ Coming(i, f) # {} \/ ~Followed(i, f)
  <2>1. CASE entities[i].invalid
    <3>1. PICK f \in Fields :
            ~Told(source, Unfed, i, f) \/ Pushed(Stream, i, f, source[i][f], 0)
      BY <1>1, <2>1 DEF CurrentEntity
    <3> QED BY <1>4, <1>5, <3>1
  <2>2. CASE ~Readable(entities[i].fields)
    <3>1. PICK f \in Fields : entities[i].fields[f] \in Unreadable BY <2>2 DEF Readable
    <3>2. entities[i].fields[f] # Unset BY <3>1, UnreadableAreSent, UnsetApart
    <3> QED BY <1>4, <1>5, <3>1, <3>2
  <2> QED BY <1>3, <1>7, <2>1, <2>2
<1> QED BY <1>6, <1>7 DEF ErrorIsTrue

-----------------------------------------------------------------------------
(* No value older than the connection is fresh                             *)

\* What is on its way is no older than the connection, nor what was fetched on it.
Recent(s, src, ent, st, past) ==
  \A i \in Ids, f \in Fields :
    /\ past[i][f] <= src[i][f]
    /\ Fetched(i, st) /\ FieldOf(ent, i, f) # Unset => past[i][f] <= FieldOf(ent, i, f)
    /\ \A n \in 1 .. Len(s) : Concerns(s[n], i, f) => past[i][f] <= Said(s[n], i, f)

LEMMA RecentFewer ==
  ASSUME NEW s, NEW t, NEW k \in {1, 2}, Within(t, s, k), NEW src, NEW ent, NEW new,
         NEW st, NEW next, NEW past, Recent(s, src, ent, st, past),
         \A i \in Ids : Fetched(i, next) => Fetched(i, st),
         \A i \in Ids, f \in Fields : FieldOf(new, i, f) \in {Unset, FieldOf(ent, i, f)}
  PROVE  Recent(t, src, new, next, past)
<1>1. PICK h \in [1 .. Len(t) -> k .. Len(s)] : \A n \in 1 .. Len(t) : t[n] = s[h[n]]
  BY DEF Within
<1>2. \A n \in 1 .. Len(t) : h[n] \in 1 .. Len(s) BY <1>1
<1> HIDE DEF Concerns, Said, FieldOf, Fetched
<1>3. ASSUME NEW i \in Ids, NEW f \in Fields, NEW n \in 1 .. Len(t), Concerns(t[n], i, f)
      PROVE  past[i][f] <= Said(t[n], i, f)
  BY <1>1, <1>2, <1>3 DEF Recent
<1>4. ASSUME NEW i \in Ids, NEW f \in Fields, Fetched(i, next), FieldOf(new, i, f) # Unset
      PROVE  past[i][f] <= FieldOf(new, i, f)
  <2>1. FieldOf(new, i, f) = FieldOf(ent, i, f) /\ Fetched(i, st) BY <1>4
  <2> QED BY <1>4, <2>1 DEF Recent
<1> QED BY <1>3, <1>4 DEF Recent

LEMMA RecentHandled ==
  ASSUME NEW s \in Seq(Message), NEW t, Within(t, s, 2), 1 \in 1 .. Len(s),
         NEW src, NEW ent, NEW new, NEW st, NEW next, NEW past,
         Recent(s, src, ent, st, past),
         \A i \in Ids, f \in Fields : Fetched(i, next) =>
           \/ FieldOf(new, i, f) = Unset
           \/ Fetched(i, st) /\ FieldOf(new, i, f) = FieldOf(ent, i, f)
           \/ Concerns(s[1], i, f) /\ FieldOf(new, i, f) = Said(s[1], i, f)
  PROVE  Recent(t, src, new, next, past)
<1>1. PICK h \in [1 .. Len(t) -> 2 .. Len(s)] : \A n \in 1 .. Len(t) : t[n] = s[h[n]]
  BY DEF Within
<1>2. \A n \in 1 .. Len(t) : h[n] \in 1 .. Len(s) BY <1>1, LenProperties
<1> HIDE DEF Concerns, Said, FieldOf, Fetched
<1>3. ASSUME NEW i \in Ids, NEW f \in Fields, NEW n \in 1 .. Len(t), Concerns(t[n], i, f)
      PROVE  past[i][f] <= Said(t[n], i, f)
  BY <1>1, <1>2, <1>3 DEF Recent
<1>4. ASSUME NEW i \in Ids, NEW f \in Fields, Fetched(i, next), FieldOf(new, i, f) # Unset
      PROVE  past[i][f] <= FieldOf(new, i, f)
  BY <1>4 DEF Recent
<1> QED BY <1>3, <1>4 DEF Recent

LEMMA RecentStep ==
  ASSUME TypeOK, Linked, Recent(Stream, source, entities, step, since), [Next]_vars
  PROVE  Recent(Stream', source', entities', step', since')
<1> DEFINE Goal == Recent(Stream', source', entities', step', since')
<1> USE DEF tydomVars, linkVars, feedVars, cacheVars
<1>1. /\ ready \in Seq(Message) /\ inbox \in Seq(Message) /\ Stream \in Seq(Message)
      /\ entities \in [Ids -> Entity \cup {Unset}] /\ source \in Data /\ since \in Data
  BY StreamTypes DEF TypeOK
<1>2. ASSUME UNCHANGED <<source, entities, since>>, Within(Stream', Stream, 1),
             \A i \in Ids : Fetched(i, step') => Fetched(i, step)
      PROVE  Goal
  BY <1>2, RecentFewer
<1>3. ASSUME NEW m \in Message, Send(m), UNCHANGED <<ready, entities, step, since>>,
             source' \in Data,
             \A i \in Ids, f \in Fields :
               /\ source[i][f] <= source'[i][f]
               /\ Concerns(m, i, f) => Said(m, i, f) = source'[i][f]
      PROVE  Goal
  <2>1. Longer(Stream', Stream, m)
    BY <1>1, <1>3, AppendSecondPart DEF Send, Stream
  <2>2. \A i \in Ids, f \in Fields :
          /\ since[i][f] \in Nat /\ source[i][f] \in Nat /\ source'[i][f] \in Nat
          /\ since[i][f] <= source'[i][f]
    BY <1>1, <1>3 DEF Recent, Data, Values
  <2>3. /\ Len(Stream) \in Nat /\ Len(Stream') = Len(Stream) + 1
        /\ Stream'[Len(Stream) + 1] = m
        /\ \A n \in 1 .. Len(Stream) : Stream'[n] = Stream[n]
    BY <1>1, <2>1, LenProperties DEF Longer
  <2>4. ASSUME NEW i \in Ids, NEW f \in Fields, NEW n \in 1 .. Len(Stream'),
               Concerns(Stream'[n], i, f)
        PROVE  since[i][f] <= Said(Stream'[n], i, f)
    <3>1. CASE n \in 1 .. Len(Stream) BY <2>3, <2>4, <3>1 DEF Recent
    <3>2. CASE n = Len(Stream) + 1
      <4>1. Said(Stream'[n], i, f) = source'[i][f] BY <1>3, <2>3, <2>4, <3>2
      <4> QED BY <2>2, <4>1
    <3> QED BY <2>3, <3>1, <3>2
  <2> QED BY <1>3, <2>2, <2>4 DEF Recent
<1>4. ASSUME UNCHANGED <<source, since>>, ready # <<>>, Took, inbox' \in {inbox, <<>>},
             \A i \in Ids, f \in Fields : Fetched(i, step') =>
               \/ FieldOf(entities', i, f) = Unset
               \/ Fetched(i, step) /\ FieldOf(entities', i, f) = FieldOf(entities, i, f)
               \/ Concerns(Oldest, i, f) /\ FieldOf(entities', i, f) = Said(Oldest, i, f)
      PROVE  Goal
  BY <1>1, <1>4, TookStep, RecentHandled
<1>5. ASSUME NEW i \in Ids, NEW f \in Fields, Change(i, f) PROVE Goal
  <2>1. source' \in Data /\ \A j \in Ids, g \in Fields : source[j][g] <= source'[j][g]
    BY <1>1, <1>5 DEF Change, Data, Values
  <2>2. CASE UNCHANGED inbox
    <3>1. UNCHANGED <<Stream, entities, step, since>> BY <1>5, <2>2 DEF Change, Stream
    <3>2. \A j \in Ids, g \in Fields : since[j][g] <= source'[j][g]
      BY <1>1, <2>1 DEF Recent, Data, Values
    <3> QED BY <3>1, <3>2 DEF Recent
  <2>3. CASE Send(PushOf(i, f, source'[i][f]))
    <3> DEFINE m == PushOf(i, f, source'[i][f])
    <3>1. m \in Message BY <2>1 DEF Data, Message, Push, PushOf
    <3>2. \A j \in Ids, g \in Fields : Concerns(m, j, g) => Said(m, j, g) = source'[j][g]
      BY DEF Concerns, IsPush, Said, PushOf
    <3>3. Send(m) /\ UNCHANGED <<ready, entities, step, since>> BY <1>5, <2>3 DEF Change
    <3> HIDE DEF m
    <3> QED BY <1>3, <2>1, <3>1, <3>2, <3>3
  <2> QED BY <1>5, <2>2, <2>3 DEF Change
<1>6. \A j \in Ids, g \in Fields : source[j][g] <= source[j][g] BY <1>1 DEF Data, Values
<1>7. ASSUME NEW i \in Ids, NEW f \in Fields, Feed(i, f) PROVE Goal
  <2> DEFINE m == PushOf(i, f, source[i][f])
  <2>1. m \in Message BY <1>1 DEF Data, Message, Push, PushOf
  <2>2. \A j \in Ids, g \in Fields : Concerns(m, j, g) => Said(m, j, g) = source[j][g]
    BY DEF Concerns, IsPush, Said, PushOf
  <2>3. Send(m) /\ UNCHANGED <<source, ready, entities, step, since>> BY <1>7 DEF Feed
  <2> HIDE DEF m
  <2> QED BY <1>1, <1>3, <1>6, <2>1, <2>2, <2>3
<1>8. CASE Reply
  <2> DEFINE m == AnswerTo(asked)
  <2>1. m \in Message
    BY <1>8 DEF Reply, TypeOK, AnswerTo, Gets, Message, Answer
  <2>2. \A i \in Ids, f \in Fields : Concerns(m, i, f) => Said(m, i, f) = source[i][f]
    BY <1>8 DEF Reply, TypeOK, AnswerTo, Gets, Concerns, IsPush, Said
  <2>3. Send(m) /\ UNCHANGED <<source, ready, entities, step, since>> BY <1>8 DEF Reply
  <2> HIDE DEF m
  <2> QED BY <1>1, <1>3, <1>6, <2>1, <2>2, <2>3
<1>9. CASE Read
  <2>1. UNCHANGED <<source, entities, since, step>> BY <1>9 DEF Read
  <2>2. Within(Stream', Stream, 1) BY <1>1, <1>9, ReadStepMoves, CutIsWithin, WithinItself
  <2> QED BY <1>2, <2>1, <2>2
<1>10. CASE RequestFails
  <2>1. /\ UNCHANGED <<source, entities, since>>
        /\ \A i \in Ids : Fetched(i, step') => Fetched(i, step)
    BY <1>10 DEF RequestFails, Fetched
  <2> QED BY <1>1, <1>2, <1>10, <2>1, FailureCuts, CutOfAnswersIsWithin
<1>11. CASE Lose
  <2>1. UNCHANGED <<source, entities, since, step>> BY <1>11 DEF Lose
  <2>2. Within(Stream', Stream, 1) BY <1>1, <1>11, FirstPartWithin DEF Lose, Stream
  <2> QED BY <1>2, <2>1, <2>2
<1>12. CASE CancelTasks
  <2>1. /\ UNCHANGED <<source, since>> /\ step' = "off"
        /\ ready' = <<>> /\ inbox' = <<>>
    BY <1>12 DEF CancelTasks, Linked
  <2>2. Len(Stream') = 0 BY <2>1, EmptySeq, ConcatEmptySeq DEF Stream
  <2> QED BY <2>1, <2>2 DEF Recent, Fetched
<1>13. CASE Connect
  <2>1. /\ source' = source /\ since' = source /\ step' = "config"
        /\ ready' = <<>> /\ inbox' = <<>>
    BY <1>13 DEF Connect, Linked, Ask
  <2>2. Len(Stream') = 0 BY <2>1, EmptySeq, ConcatEmptySeq DEF Stream
  <2> QED BY <1>6, <2>1, <2>2 DEF Recent, Fetched
<1>14. CASE ChangeConfig \/ BackoffEnds \/ UNCHANGED vars
  <2>1. /\ UNCHANGED <<source, since, entities>> /\ Stream' = Stream
        /\ \A i \in Ids : Fetched(i, step') => Fetched(i, step)
    BY <1>14 DEF ChangeConfig, BackoffEnds, vars, Stream, Ask, Fetched
  <2> QED BY <1>1, <1>2, <2>1, WithinItself
<1>15. CASE HandlePush \/ HandlerFails
  <2>1. /\ ready # <<>> /\ Took /\ Oldest.kind = "push" /\ inbox' \in {inbox, <<>>}
        /\ UNCHANGED <<source, since, step>> /\ (Merge(Oldest) \/ UNCHANGED entities)
    BY <1>15 DEF HandlePush, HandlerFails
  <2>2. Oldest \in Message BY <2>1, TookStep
  <2>3. \A i \in Ids, f \in Fields :
          \/ FieldOf(entities', i, f) \in {Unset, FieldOf(entities, i, f)}
          \/ Concerns(Oldest, i, f) /\ FieldOf(entities', i, f) = Said(Oldest, i, f)
    BY <2>1, <2>2, MergedFields
  <2> QED BY <1>4, <2>1, <2>3
<1>16. CASE GotConfig
  <2>1. /\ ready # <<>> /\ Took /\ inbox' = inbox /\ UNCHANGED <<source, since>>
        /\ step' = "devices"
    BY <1>16 DEF GotConfig, Resume, Ask
  <2>2. \A i \in Ids : ~Fetched(i, step') BY <2>1 DEF Fetched
  <2> QED BY <1>4, <2>1, <2>2
<1>17. ASSUME NEW kind \in {"devices", "areas"}, NEW ids, Resume(kind), inbox' = inbox,
              Replace(ids, Oldest.body), UNCHANGED <<source, since>>,
              ids = IF kind = "devices" THEN Endpoints ELSE Areas,
              \A i \in Ids : Fetched(i, step') => i \in ids \/ Fetched(i, step)
       PROVE  Goal
  <2>1. /\ Oldest \in Message /\ Oldest.kind = kind /\ ready # <<>> /\ Took
    BY <1>17, TookStep DEF Resume
  <2>2. \A i \in ids, f \in Fields : Concerns(Oldest, i, f)
    BY <1>17, <2>1 DEF Concerns
  <2>3. \A i \in Ids \ ids : entities'[i] = entities[i] BY <1>17 DEF Replace
  <2>4. ASSUME NEW i \in Ids, NEW f \in Fields, i \in ids
        PROVE  FieldOf(entities', i, f) \in {Unset, Said(Oldest, i, f)}
    BY <1>17, <2>1, <2>4 DEF Replace, FieldOf, FromSnapshot, NoFields, Said
  <2>5. \A i \in Ids, f \in Fields : Fetched(i, step') =>
          \/ FieldOf(entities', i, f) = Unset
          \/ Fetched(i, step) /\ FieldOf(entities', i, f) = FieldOf(entities, i, f)
          \/ Concerns(Oldest, i, f) /\ FieldOf(entities', i, f) = Said(Oldest, i, f)
    BY <1>17, <2>2, <2>3, <2>4 DEF FieldOf
  <2> QED BY <1>4, <1>17, <2>1, <2>5
<1>18. CASE GotDevices
  <2>1. step' = "areas" /\ \A i \in Ids : Fetched(i, step') => i \in Endpoints
    BY <1>18 DEF GotDevices, Ask, Fetched
  <2> QED BY <1>17, <1>18, <2>1 DEF GotDevices
<1>19. CASE GotAreas
  <2>1. step = "areas" /\ step' = "refresh" BY <1>19 DEF GotAreas, Resume, Ask
  <2>2. \A i \in Ids : Fetched(i, step') => i \in Areas \/ Fetched(i, step)
    BY <2>1 DEF Fetched
  <2> QED BY <1>17, <1>19, <2>2 DEF GotAreas
<1>20. CASE GotRefresh
  <2>1. /\ ready # <<>> /\ Took /\ inbox' = inbox /\ UNCHANGED <<source, since, entities>>
        /\ step = "refresh" /\ step' = "waiting"
    BY <1>20 DEF GotRefresh, Resume
  <2>2. \A i \in Ids : Fetched(i, step') => Fetched(i, step) BY <2>1 DEF Fetched
  <2> QED BY <1>4, <2>1, <2>2
<1> QED BY <1>5, <1>7, <1>8, <1>9, <1>10, <1>11, <1>12, <1>13, <1>14, <1>15, <1>16, <1>18,
           <1>19, <1>20
        DEF Next, Routine

LEMMA RecentAlways == Spec => []Recent(Stream, source, entities, step, since)
<1>1. ASSUME Init PROVE Recent(Stream, source, entities, step, since)
  <2>1. Stream = <<>> /\ Len(Stream) = 0 BY <1>1, EmptySeq, ConcatEmptySeq DEF Init, Stream
  <2>2. \A i \in Ids, f \in Fields : since[i][f] = source[i][f] /\ source[i][f] \in Nat
    BY <1>1 DEF Init
  <2>3. step = "off" BY <1>1 DEF Init
  <2> QED BY <2>1, <2>2, <2>3 DEF Recent, Fetched
<1>2. TypeOK /\ Linked /\ Recent(Stream, source, entities, step, since) /\ [Next]_vars
        => Recent(Stream, source, entities, step, since)'
  BY RecentStep
<1> QED BY <1>1, <1>2, TypeCorrect, LinkedAlways, PTL DEF Spec

LEMMA FreshByInvariants ==
  ASSUME TypeOK, Linked, UpToDate, Recent(Stream, source, entities, step, since)
  PROVE  FreshMeansCurrent
<1> SUFFICES ASSUME marked = "connected", synced, NEW i \in Ids, usages[i] # Unset
             PROVE  /\ \A f \in Fields : Shown(i, f) # Unset => Shown(i, f) >= since[i][f]
                    /\ conn = "up" => ItemIsCurrent(i) /\ ErrorIsTrue(i)
  BY DEF FreshMeansCurrent, GetState
<1>1. ASSUME NEW f \in Fields, Shown(i, f) # Unset PROVE Shown(i, f) >= since[i][f]
  <2>1. Shown(i, f) = FieldOf(entities, i, f) BY <1>1, ShownIsCached
  <2>2. Fetched(i, step) BY DEF Linked, Fetched, Ids
  <2>3. since[i][f] <= FieldOf(entities, i, f) BY <1>1, <2>1, <2>2 DEF Recent
  <2>4. FieldOf(entities, i, f) \in Nat /\ since[i][f] \in Nat
    BY <1>1, <2>1, FieldTypes DEF TypeOK, Data, Values
  <2> QED BY <2>1, <2>3, <2>4
<1> QED BY <1>1, UpToDateIsCurrent

\* "Trust the values only when `cache.connection` is `connected` and `cache.synced`
\* is true": what get_state then answers is no older than the connection, and while
\* it is up is what the Tydom holds but for the meters that the refresh did not
\* reach, for any home, any changes, faults and delays, and however many
\* connections.
THEOREM FreshIsCurrent == Spec => []FreshMeansCurrent
<1>1. TypeOK /\ Linked /\ UpToDate /\ Recent(Stream, source, entities, step, since)
        => FreshMeansCurrent
  BY FreshByInvariants
<1> QED BY <1>1, TypeCorrect, LinkedAlways, UpToDateAlways, RecentAlways, PTL
=============================================================================
