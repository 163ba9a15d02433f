--------------------------- MODULE CacheSyncProps ---------------------------
(***************************************************************************)
(* What the readers of the cache rely on (docs/threats/mcp.md, M13 and     *)
(* M15): fresh means current, and no value ever goes back to an older one. *)
(***************************************************************************)
EXTENDS View

Cached(i, f) == IF entities[i] = Unset THEN Unset ELSE entities[i].fields[f]

\* What get_state shows of a field.
Shown(i, f) ==
  LET item == GetState.items[i]
  IN IF "state" \in DOMAIN item /\ f \in DOMAIN item.state THEN item.state[f] ELSE Unset

\* What was sent to the client and is not handled, and the places in it of the
\* pushes of a field that will be merged, and of the newest of them.
Stream == ready \o inbox
Coming(i, f) ==
  {n \in DOMAIN Stream : /\ Stream[n].kind = "push" /\ Stream[n].id = i /\ Stream[n].field = f
                         /\ Stream[n].value \notin BadVersions}
Newest(i, f) == {n \in Coming(i, f) : \A m \in Coming(i, f) : m <= n}

\* The fields whose changes reach the client: all but those of a meter that this
\* connection is not fed.
Followed(i, f) == <<i, f>> \notin Conso \ fed

\* The values of an item: the newest the Tydom sent is the one it holds, or is shown
\* if nothing is on its way.  What is missing is what a snapshot that did not
\* validate hid, until it is pushed, and the state of an item called invalid.
ItemIsCurrent(i) ==
  \A f \in Fields : Followed(i, f) /\ source[i][f] \notin BadVersions =>
    \/ Coming(i, f) # {} /\ \A n \in Newest(i, f) : Stream[n].value = source[i][f]
    \/ Coming(i, f) = {} /\ Shown(i, f) = source[i][f]
    \/ Coming(i, f) = {} /\ Shown(i, f) = Unset
          /\ ("error" \in DOMAIN GetState.items[i] \/ entities[i].partial)

\* An item is called invalid only while the Tydom holds, or sends, a value of it
\* that cannot be read, or may hold one of a meter without telling.
ErrorIsTrue(i) ==
  "error" \in DOMAIN GetState.items[i] =>
    \E f \in Fields : \/ source[i][f] \in BadVersions \cup Unreadable
                      \/ Coming(i, f) # {} \/ ~Followed(i, f)

\* "Trust the values only when `cache.connection` is `connected` and `cache.synced`
\* is true" (get_state's description).  No value that is then shown, of a meter or
\* not, is older than the connection, even one that is ending: nothing cached before
\* is passed off as fresh.  While the connection is up, the values are the Tydom's of
\* every endpoint and area of the config, up to the pushes not handled yet, whatever
\* failed on the way; "only the conso values go stale" (_refresh) when the Tydom did
\* not take the refresh.
FreshMeansCurrent ==
  GetState.connection = "connected" /\ GetState.synced =>
    \A i \in DOMAIN GetState.items :
      /\ \A f \in Fields : Shown(i, f) # Unset => Shown(i, f) >= since[i][f]
      /\ conn = "up" => ItemIsCurrent(i) /\ ErrorIsTrue(i)

\* A cached value is replaced by newer ones only: a snapshot does not undo a push
\* sent after it, nor a push a snapshot.
NeverGoesBack ==
  [][\A i \in Ids, f \in Fields :
       Cached(i, f) # Unset /\ Cached(i, f)' # Unset => Cached(i, f)' >= Cached(i, f)]_vars

\* What is cached was received under the usage the cached config gives it, so it
\* is read with the model it was meant for: "dropping the state of ids removed or
\* whose usage changed" (apply_config).
NeverMisread == \A i \in Ids : entities[i] # Unset => entities[i].usage = usages[i]

\* The cache is not called fresh without a connection that bootstrapped it.
FreshIsConnected == Fresh => conn \in {"up", "ending"} /\ step \in {"refresh", "waiting"}

\* Once the faults and the changes stop, the cache ends up fresh and equal to the
\* Tydom's state as its config selects it, or the client has stopped.  Only a
\* refresh that this connection's Tydom refused leaves values behind, the meters'.
CatchesUp ==
  <>[](\/ conn = "stopped"
       \/ /\ Fresh /\ inbox = <<>> /\ ready = <<>>
          /\ \A i \in Ids, f \in Fields :
               usages[i] # Unset /\ ~(<<i, f>> \in Conso /\ refresh = "refused")
                 => Cached(i, f) = source[i][f])
=============================================================================
