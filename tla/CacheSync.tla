----------------------------- MODULE CacheSync -----------------------------
(***************************************************************************)
(* Sync (tydomio/mcp_server/sync.py) keeping a Cache (cache.py) current:   *)
(* the connection routine that fetches the config and the snapshots, and   *)
(* the push handlers that merge what the Tydom pushes meanwhile.           *)
(*                                                                         *)
(* The connection is the part of module Client that Sync relies on: one    *)
(* FIFO from the Tydom, then one FIFO of the callbacks of what was read,   *)
(* both dropped with the connection, whose tasks end before the next one   *)
(* begins. A value is the number of times the Tydom has changed it, so     *)
(* that newer and older values differ. It pushes the meters' values only   *)
(* on a connection that asked for them with POST /refresh/all.             *)
(***************************************************************************)
EXTENDS Naturals, Sequences, SequencesExt

CONSTANTS
  Endpoints,   \* (device id, endpoint id) pairs, whose data come with /devices/data
  Areas,       \* area ids, whose data come with /areas/data
  Groups,      \* group ids, which have a usage in the config and no data
  Fields,      \* names of the fields of an entity
  Conso,       \* the fields of the meters, each as an endpoint and a field
  Usages,      \* usages of an entity in the config
  Unset,       \* no value, or not in the config
  MaxVersion,  \* bound on the changes of the values, all together
  BadVersions, \* values that do not validate
  MaxConfigs,  \* bound on the changes of the config
  MaxFaults,   \* bound on lost connections and failed requests
  MaxInbox     \* bound on the messages on their way to the client

Ids == Endpoints \cup Areas
Targets == Ids \cup Groups
Values == Nat

ASSUME TargetsDisjoint ==
  Endpoints \cap Areas = {} /\ Endpoints \cap Groups = {} /\ Areas \cap Groups = {}
ASSUME ConsoFields == Conso \subseteq Endpoints \X Fields
ASSUME Bounds == {MaxVersion, MaxConfigs, MaxFaults, MaxInbox} \subseteq Nat

VARIABLES
  source,   \* the values the Tydom holds
  config,   \* the usage of each target in the Tydom's config, Unset if it has none
  asked,    \* the request the Tydom is to answer, or "none"
  conn,     \* the connection: down, up, ending, or stopped for good
  inbox,    \* what the Tydom sent and the client has not read
  ready,    \* what the client read and has not handled
  refresh,  \* the POST /refresh/all of this connection: to send, sent, or refused
  fed,      \* the fields of the meters whose changes this connection gets
  since,    \* the values the Tydom held when the connection opened
  step,     \* where Sync.routine is
  usages,   \* Cache.config: the usage of each target in the config it was given
  entities, \* Cache: endpoints and areas, or Unset when not cached; what the
            \* code does not keep is the usage an entity was created under, and
            \* whether the snapshot that created it was invalid (partial)
  marked,   \* Cache.connection
  synced,   \* Cache.synced
  fatal,    \* whether the error that ends the connection ends the client too
  budget    \* config changes and faults still to come

tydomVars == <<source, config>>
linkVars == <<asked, conn, inbox, ready>>
feedVars == <<refresh, fed, since>>
cacheVars == <<usages, entities, marked, synced>>
vars == <<tydomVars, linkVars, feedVars, step, cacheVars, fatal, budget>>

Gets == {"config", "devices", "areas"}
Data == [Ids -> [Fields -> Values]]
Entity == [fields : [Fields -> Values \cup {Unset}], invalid : BOOLEAN, partial : BOOLEAN,
           usage : Usages]
ASSUME UnsetApart == Unset \notin Usages \cup Values \cup Entity
Push == [kind : {"push"}, id : Ids, field : Fields, value : Values]
Answer == [kind : {"config"}, body : [Targets -> Usages \cup {Unset}]]
            \cup [kind : {"devices", "areas"}, body : Data] \cup [kind : {"refresh"}]

TypeOK ==
  /\ source \in Data /\ config \in [Targets -> Usages \cup {Unset}]
  /\ asked \in Gets \cup {"refresh", "none"}
  /\ conn \in {"down", "up", "ending", "stopped"}
  /\ inbox \in Seq(Push \cup Answer) /\ ready \in Seq(Push \cup Answer)
  /\ refresh \in {"to send", "sent", "refused"} /\ fed \in SUBSET Conso /\ since \in Data
  /\ step \in Gets \cup {"refresh", "backoff", "waiting", "off"}
  /\ usages \in [Targets -> Usages \cup {Unset}]
  /\ entities \in [Ids -> Entity \cup {Unset}]
  /\ marked \in {"connecting", "connected", "disconnected"} /\ synced \in BOOLEAN
  /\ fatal \in BOOLEAN
  /\ budget \in [configs : 0 .. MaxConfigs, faults : 0 .. MaxFaults]

Init ==
  /\ source = [i \in Ids |-> [f \in Fields |-> 0]]
  /\ config \in [Targets -> Usages \cup {Unset}]
  /\ asked = "none" /\ conn = "down" /\ inbox = <<>> /\ ready = <<>> /\ step = "off"
  /\ refresh = "to send" /\ fed = {} /\ since = source
  /\ usages = [i \in Targets |-> Unset] /\ entities = [i \in Ids |-> Unset]
  /\ marked = "connecting" /\ synced = FALSE /\ fatal = FALSE
  /\ budget = [configs |-> MaxConfigs, faults |-> MaxFaults]

Fresh == marked = "connected" /\ synced

-----------------------------------------------------------------------------
(* Cache                                                                   *)

NoFields == [f \in Fields |-> Unset]

\* Mutants: the usage is not compared; an id that left the config stays.
ApplyConfigKeepingUsages(new) ==
  /\ entities' = [i \in Ids |-> IF new[i] # Unset THEN entities[i] ELSE Unset]
  /\ usages' = new

\* The state of ids removed, or whose usage changed, is dropped.
ApplyConfig(new) ==
  /\ entities' = [i \in Ids |->
       IF new[i] # Unset /\ new[i] = usages[i] THEN entities[i] ELSE Unset]
  /\ usages' = new

\* One entity of a snapshot: invalid, with no fields, if one of them is.
FromSnapshot(fields, usage) ==
  IF \E f \in Fields : fields[f] \in BadVersions
  THEN [fields |-> NoFields, invalid |-> TRUE, partial |-> TRUE, usage |-> usage]
  ELSE [fields |-> fields, invalid |-> FALSE, partial |-> FALSE, usage |-> usage]

\* Mutant: the snapshot updates the entities it does not know yet only.
ReplaceMissing(ids, data) ==
  entities' = [i \in Ids |->
    IF i \notin ids \/ entities[i] # Unset THEN entities[i]
    ELSE IF usages[i] = Unset THEN Unset ELSE FromSnapshot(data[i], usages[i])]

\* replace_devices and replace_areas, for the ids of the config
Replace(ids, data) ==
  entities' = [i \in Ids |->
    IF i \notin ids THEN entities[i]
    ELSE IF usages[i] = Unset THEN Unset ELSE FromSnapshot(data[i], usages[i])]

NewEntity(usage) ==
  [fields |-> NoFields, invalid |-> FALSE, partial |-> FALSE, usage |-> usage]

\* Mutant: a push is merged for an id that is not in the config.
MergeAnyway(push) ==
  LET old == IF entities[push.id] = Unset THEN NewEntity(usages[push.id])
             ELSE entities[push.id]
  IN entities' = [entities EXCEPT ![push.id] =
                    [old EXCEPT !.fields[push.field] = push.value, !.invalid = FALSE]]

\* merge_devices and merge_areas, for one field of one entity of the config
Merge(push) ==
  LET old == IF entities[push.id] = Unset THEN NewEntity(usages[push.id])
             ELSE entities[push.id]
  IN entities' = IF usages[push.id] = Unset THEN entities
                 ELSE [entities EXCEPT ![push.id] =
                         [old EXCEPT !.fields[push.field] = push.value, !.invalid = FALSE]]

-----------------------------------------------------------------------------
(* The Tydom                                                               *)

Send(message) == inbox' = Append(inbox, message)

Changes == MapThenSumSet(LAMBDA value : source[value[1]][value[2]], Ids \X Fields)

PushOf(i, f, value) == [kind |-> "push", id |-> i, field |-> f, value |-> value]

\* A value changes: the Tydom pushes it to the client connected at that time, but
\* perhaps not if it is a meter's that this connection is not fed.
Change(i, f) ==
  /\ Changes < MaxVersion
  /\ source' = [source EXCEPT ![i][f] = @ + 1]
  /\ \/ /\ conn = "up" /\ Len(inbox) < MaxInbox
        /\ Send(PushOf(i, f, source'[i][f]))
     \/ conn # "up" /\ UNCHANGED inbox
     \/ <<i, f>> \in Conso \ fed /\ UNCHANGED inbox
  /\ UNCHANGED <<config, asked, conn, ready, feedVars, step, cacheVars, fatal, budget>>

\* A refresh taken: the whole state of the meters, then each change of it.
Feed(i, f) ==
  /\ conn = "up" /\ refresh = "sent" /\ Len(inbox) < MaxInbox
  /\ <<i, f>> \in Conso \ fed /\ fed' = fed \cup {<<i, f>>}
  /\ Send(PushOf(i, f, source[i][f]))
  /\ UNCHANGED <<tydomVars, asked, conn, ready, refresh, since, step, cacheVars, fatal, budget>>

\* The config changes; nothing tells the client.
ChangeConfig ==
  /\ budget.configs > 0
  /\ \E i \in Targets, u \in Usages \cup {Unset} : config' = [config EXCEPT ![i] = u]
  /\ budget' = [budget EXCEPT !.configs = @ - 1]
  /\ UNCHANGED <<source, linkVars, feedVars, step, cacheVars, fatal>>

AnswerTo(request) ==
  CASE request = "config" -> [kind |-> "config", body |-> config]
    [] request = "refresh" -> [kind |-> "refresh"]
    [] OTHER -> [kind |-> request, body |-> source]

Reply ==
  /\ conn = "up" /\ asked # "none" /\ Len(inbox) < MaxInbox
  /\ Send(AnswerTo(asked))
  /\ asked' = "none"
  /\ UNCHANGED <<tydomVars, conn, ready, feedVars, step, cacheVars, fatal, budget>>

-----------------------------------------------------------------------------
(* The connection: what module Client guarantees                           *)

Ask(request) == asked' = request /\ step' = request

\* The routine starts with the connection, and with mark_connected.
Connect ==
  /\ conn = "down" /\ conn' = "up"
  /\ Ask("config")
  /\ marked' = "connected"
  /\ refresh' = "to send" /\ fed' = {} /\ since' = source
  /\ UNCHANGED <<tydomVars, inbox, ready, usages, entities, synced, fatal, budget>>

\* A push that does not validate is rejected, as a malformed message.
Read ==
  /\ conn = "up" /\ inbox # <<>>
  /\ inbox' = Tail(inbox)
  /\ ready' = IF Head(inbox).kind = "push" /\ Head(inbox).value \in BadVersions
              THEN ready ELSE Append(ready, Head(inbox))
  /\ UNCHANGED <<tydomVars, asked, conn, feedVars, step, cacheVars, fatal, budget>>

\* The connection is lost, or ended by a message that does not parse at all.
Lose ==
  /\ conn = "up" /\ budget.faults > 0
  /\ conn' = "ending" /\ inbox' = <<>> /\ asked' = "none" /\ fatal' \in BOOLEAN
  /\ budget' = [budget EXCEPT !.faults = @ - 1]
  /\ UNCHANGED <<tydomVars, ready, feedVars, step, cacheVars>>

\* Mutant: the routine does not mark the cache when it is cancelled.
CancelTasksSilently ==
  /\ conn = "ending" /\ conn' = IF fatal THEN "stopped" ELSE "down"
  /\ ready' = <<>> /\ step' = "off"
  /\ UNCHANGED <<tydomVars, asked, inbox, feedVars, cacheVars, fatal, budget>>

\* The task group cancels the handlers not started and the routine, whose
\* finally clause marks the cache. A fatal error then ends the client.
CancelTasks ==
  /\ conn = "ending" /\ conn' = IF fatal THEN "stopped" ELSE "down"
  /\ ready' = <<>> /\ step' = "off"
  /\ marked' = "disconnected" /\ synced' = FALSE
  /\ UNCHANGED <<tydomVars, asked, inbox, feedVars, usages, entities, fatal, budget>>

-----------------------------------------------------------------------------
(* Sync                                                                    *)

\* Mutant: a handler is a task that awaits before it merges, so that a response
\* read after its push can be handled first.
NextReadyAnswersFirst ==
  IF \E i \in DOMAIN ready : ready[i].kind # "push"
  THEN CHOOSE i \in DOMAIN ready : ready[i].kind # "push" ELSE 1

\* The place in the ready queue of what runs next.
NextReady == 1

Oldest == ready[NextReady]
Took == ready' = RemoveAt(ready, NextReady)

HandlePush ==
  /\ ready # <<>> /\ Oldest.kind = "push"
  /\ Took
  /\ Merge(Oldest)
  /\ UNCHANGED <<tydomVars, asked, conn, inbox, feedVars, step, usages, marked, synced, fatal,
                 budget>>

\* A merge that raises: CacheError ends the connection, and then the client.
HandlerFails ==
  /\ ready # <<>> /\ Oldest.kind = "push" /\ conn = "up" /\ budget.faults > 0
  /\ Took /\ (Merge(Oldest) \/ UNCHANGED entities)
  /\ fatal' = TRUE /\ conn' = "ending" /\ inbox' = <<>> /\ asked' = "none"
  /\ budget' = [budget EXCEPT !.faults = @ - 1]
  /\ UNCHANGED <<tydomVars, feedVars, step, usages, marked, synced>>

\* The routine resumes with the response: no await until it is applied.
Resume(kind) == ready # <<>> /\ Oldest.kind = kind /\ step = kind /\ Took

GotConfig ==
  /\ Resume("config")
  /\ ApplyConfig(Oldest.body)
  /\ Ask("devices")
  /\ UNCHANGED <<tydomVars, conn, inbox, feedVars, marked, synced, fatal, budget>>

GotDevices ==
  /\ Resume("devices")
  /\ Replace(Endpoints, Oldest.body)
  /\ Ask("areas")
  /\ UNCHANGED <<tydomVars, conn, inbox, feedVars, usages, marked, synced, fatal, budget>>

\* Mutant: the refresh is not sent.
GotAreasUnrefreshed ==
  /\ Resume("areas")
  /\ Replace(Areas, Oldest.body)
  /\ synced' = TRUE
  /\ step' = "waiting"
  /\ UNCHANGED <<tydomVars, asked, conn, inbox, feedVars, usages, marked, fatal, budget>>

GotAreas ==
  /\ Resume("areas")
  /\ Replace(Areas, Oldest.body)
  /\ synced' = TRUE
  /\ Ask("refresh") /\ refresh' = "sent"
  /\ UNCHANGED <<tydomVars, conn, inbox, fed, since, usages, marked, fatal, budget>>

GotRefresh ==
  /\ Resume("refresh")
  /\ step' = "waiting"
  /\ UNCHANGED <<tydomVars, asked, conn, inbox, feedVars, cacheVars, fatal, budget>>

\* The answer to the request that failed, if it was sent, is dropped.
WithoutAnswer(messages) ==
  LET answers == {n \in DOMAIN messages : messages[n].kind # "push"}
  IN IF answers = {} THEN messages ELSE RemoveAt(messages, CHOOSE n \in answers : TRUE)

\* Whether a refresh that failed for the client was taken all the same.
TakenOrNot ==
  \/ step # "refresh" /\ UNCHANGED refresh
  \/ step = "refresh" /\ fed # {} /\ UNCHANGED refresh
  \/ step = "refresh" /\ fed = {} /\ refresh' \in {"sent", "refused"}

\* A CommunicationError: a timeout, whose late response is then dropped as
\* unexpected, or a response that does not parse.
RequestFails ==
  /\ conn = "up" /\ step \in Gets \cup {"refresh"} /\ budget.faults > 0
  /\ asked' = "none"
  /\ step' = IF step = "refresh" THEN "waiting" ELSE "backoff"
  /\ inbox' = WithoutAnswer(inbox) /\ ready' = WithoutAnswer(ready)
  /\ budget' = [budget EXCEPT !.faults = @ - 1]
  /\ TakenOrNot
  /\ UNCHANGED <<tydomVars, conn, fed, since, cacheVars, fatal>>

BackoffEnds ==
  /\ conn = "up" /\ step = "backoff"
  /\ Ask("config")
  /\ marked' = "connected"
  /\ UNCHANGED <<tydomVars, conn, inbox, ready, feedVars, usages, entities, synced, fatal, budget>>

Routine ==
  \/ GotConfig \/ GotDevices \/ GotAreas \/ GotRefresh \/ RequestFails \/ BackoffEnds

Next ==
  \/ \E i \in Ids, f \in Fields : Change(i, f) \/ Feed(i, f)
  \/ ChangeConfig \/ Reply \/ Connect \/ Read \/ Lose \/ CancelTasks
  \/ HandlePush \/ HandlerFails \/ Routine

Spec == Init /\ [][Next]_vars

\* The client reconnects and reads, asyncio runs what is ready, the Tydom answers
\* and feeds.
Fairness ==
  /\ WF_vars(Connect) /\ WF_vars(Read) /\ WF_vars(CancelTasks) /\ WF_vars(Reply)
  /\ WF_vars(\E i \in Ids, f \in Fields : Feed(i, f))
  /\ WF_vars(HandlePush) /\ WF_vars(BackoffEnds)
  /\ WF_vars(GotConfig \/ GotDevices \/ GotAreas \/ GotRefresh)

FairSpec == Spec /\ Fairness
=============================================================================
