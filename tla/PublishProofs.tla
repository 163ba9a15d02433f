--------------------------- MODULE PublishProofs ---------------------------
(***************************************************************************)
(* What holds of the catalog and of what is published, for any captures in *)
(* any order.                                                              *)
(***************************************************************************)
EXTENDS PublishProps, DataInduction

-----------------------------------------------------------------------------
(* What a catalog says of a set of entries                                 *)

IsEntry(entry) == entry = [attributes |-> entry.attributes, enum |-> entry.enum]
IsCatalog(catalog) == \A at \in DOMAIN catalog : IsEntry(catalog[at])

\* The catalog has what the entries have, with the enum values of all of them and
\* attributes that one of them gives.
Says(catalog, S) ==
  /\ IsCatalog(catalog)
  /\ \A at : at \in DOMAIN catalog <=> \E e \in S : at \in DOMAIN e
  /\ \A at \in DOMAIN catalog :
       /\ \E e \in S : at \in DOMAIN e /\ catalog[at].attributes = e[at].attributes
       /\ \A v : v \in catalog[at].enum <=> \E e \in S : at \in DOMAIN e /\ v \in e[at].enum

\* Every entry gives the attributes of the catalog.
Agrees(catalog, S) ==
  \A e \in S : \A at \in DOMAIN e : catalog[at].attributes = e[at].attributes

\* One of the new entries has other attributes than another entry.
Differs(T, S) ==
  \E one \in T, other \in S : \E at \in DOMAIN one \cap DOMAIN other :
    one[at].attributes # other[at].attributes

\* The known entry keeps its attributes.
LEMMA MergeFieldIs ==
  ASSUME NEW known, NEW found, IsEntry(known)
  PROVE  MergeField(known, found) = [attributes |-> known.attributes, enum |-> known.enum \cup found.enum]
BY DEF IsEntry, MergeField

\* Merging, place by place.
AreMerged(all, known, found) ==
  /\ DOMAIN all = DOMAIN known \cup DOMAIN found
  /\ \A at \in DOMAIN found \ DOMAIN known : all[at] = found[at]
  /\ \A at \in DOMAIN known \ DOMAIN found : all[at] = known[at]
  /\ \A at \in DOMAIN known \cap DOMAIN found :
       /\ all[at] = [attributes |-> known[at].attributes, enum |-> known[at].enum \cup found[at].enum]
       /\ all[at].attributes = known[at].attributes
       /\ all[at].enum = known[at].enum \cup found[at].enum

LEMMA MergeIs ==
  ASSUME NEW known, NEW found, IsCatalog(known)
  PROVE  AreMerged(Merge(known, found), known, found)
BY MergeFieldIs DEF Merge, IsCatalog, AreMerged

\* A catalog merged into another says what both said.
LEMMA MergeSays ==
  ASSUME NEW known, NEW S, Says(known, S), NEW found, NEW T, Says(found, T)
  PROVE  Says(Merge(known, found), S \cup T)
<1> DEFINE all == Merge(known, found)
<1>0. AreMerged(all, known, found)
  BY MergeIs DEF Says
<1> HIDE DEF all
<1>1. /\ DOMAIN all = DOMAIN known \cup DOMAIN found
      /\ \A at \in DOMAIN found \ DOMAIN known : all[at] = found[at]
      /\ \A at \in DOMAIN known \ DOMAIN found : all[at] = known[at]
      /\ \A at \in DOMAIN known \cap DOMAIN found :
           all[at] = [attributes |-> known[at].attributes, enum |-> known[at].enum \cup found[at].enum]
  BY <1>0 DEF AreMerged
<1>2. IsCatalog(all)
  BY <1>1 DEF Says, IsCatalog, IsEntry
<1>3. \A at : at \in DOMAIN all <=> \E e \in S \cup T : at \in DOMAIN e
  BY <1>1 DEF Says
<1>4. ASSUME NEW at \in DOMAIN all
      PROVE  /\ \E e \in S \cup T : at \in DOMAIN e /\ all[at].attributes = e[at].attributes
             /\ \A v : v \in all[at].enum <=> \E e \in S \cup T : at \in DOMAIN e /\ v \in e[at].enum
  <2>1. CASE at \in DOMAIN found \ DOMAIN known
    BY <1>1, <2>1 DEF Says
  <2>2. CASE at \in DOMAIN known \ DOMAIN found
    BY <1>1, <2>2 DEF Says
  <2>3. CASE at \in DOMAIN known \cap DOMAIN found
    <3>1. all[at].attributes = known[at].attributes /\ all[at].enum = known[at].enum \cup found[at].enum
      BY <1>1, <2>3
    <3> QED
      BY <2>3, <3>1 DEF Says
  <2> QED
    BY <1>1, <2>1, <2>2, <2>3
<1> QED
  BY <1>2, <1>3, <1>4 DEF Says, all

\* Without a conflict, it gives the attributes of all.
LEMMA MergeAgrees ==
  ASSUME NEW known, NEW S, Says(known, S), Agrees(known, S),
         NEW found, NEW T, Says(found, T), Agrees(found, T), Conflicts(known, found) = {}
  PROVE  Agrees(Merge(known, found), S \cup T)
<1> DEFINE all == Merge(known, found)
<1>1. AreMerged(all, known, found)
  BY MergeIs DEF Says
<1> HIDE DEF all
<1>2. \A at \in DOMAIN known \cap DOMAIN found : known[at].attributes = found[at].attributes
  BY DEF Conflicts
<1>3. ASSUME NEW at \in DOMAIN known PROVE all[at].attributes = known[at].attributes
  <2>1. CASE at \in DOMAIN found
    BY <1>1, <2>1 DEF AreMerged
  <2>2. CASE at \notin DOMAIN found
    BY <1>1, <2>2 DEF AreMerged
  <2> QED
    BY <2>1, <2>2
<1>4. ASSUME NEW at \in DOMAIN found PROVE all[at].attributes = found[at].attributes
  <2>1. CASE at \in DOMAIN known
    BY <1>2, <1>3, <2>1
  <2>2. CASE at \notin DOMAIN known
    BY <1>1, <2>2 DEF AreMerged
  <2> QED
    BY <2>1, <2>2
<1>5. ASSUME NEW e \in S \cup T, NEW at \in DOMAIN e PROVE all[at].attributes = e[at].attributes
  <2>1. CASE e \in S
    BY <1>3, <2>1 DEF Says, Agrees
  <2>2. CASE e \in T
    BY <1>4, <2>2 DEF Says, Agrees
  <2> QED
    BY <2>1, <2>2
<1> QED
  BY <1>5 DEF Agrees, all

\* A conflict has two entries that differ.
LEMMA ConflictIsSaid ==
  ASSUME NEW known, NEW S, Says(known, S), NEW found, NEW T, Says(found, T), Conflicts(known, found) # {}
  PROVE  Differs(T, S)
<1>1. PICK at \in DOMAIN known \cap DOMAIN found : known[at].attributes # found[at].attributes
  BY DEF Conflicts
<1>2. PICK other \in S : at \in DOMAIN other /\ known[at].attributes = other[at].attributes
  BY <1>1 DEF Says
<1>3. PICK one \in T : at \in DOMAIN one /\ found[at].attributes = one[at].attributes
  BY <1>1 DEF Says
<1> QED
  BY <1>1, <1>2, <1>3 DEF Differs

\* An entry says itself.
LEMMA EntrySays == ASSUME NEW entry, IsCatalog(entry) PROVE Says(entry, {entry}) /\ Agrees(entry, {entry})
BY DEF Says, Agrees

-----------------------------------------------------------------------------
(* The entries of a capture, one after another                             *)

AreEntries(entries, m) ==
  m \in Nat /\ Len(entries) = m /\ DOMAIN entries = 1..m /\ \A n \in 1..m : IsCatalog(entries[n])

\* What MergeAll has computed after each entry.
IsMerging(entries, m, so) ==
  /\ so[0] = [catalog |-> NoEntries, conflicts |-> {}]
  /\ \A n \in 1..m :
       so[n] = [catalog |-> Merge(so[n - 1].catalog, entries[n]),
                conflicts |-> so[n - 1].conflicts \cup Conflicts(so[n - 1].catalog, entries[n])]

\* It computes it for every sequence of entries.
LEMMA MergingExists ==
  ASSUME NEW entries, NEW m, AreEntries(entries, m)
  PROVE  \E so : IsMerging(entries, m, so) /\ MergeAll(entries) = so[m]
<1> DEFINE base == [catalog |-> NoEntries, conflicts |-> {}]
           next(x, n) == [catalog |-> Merge(x.catalog, entries[n]),
                          conflicts |-> x.conflicts \cup Conflicts(x.catalog, entries[n])]
           Def(f, k) == f = [n \in 0..k |-> IF n = 0 THEN base ELSE next(f[n - 1], n)]
           S == {k \in Nat : \E f : Def(f, k)}
           so == CHOOSE f : Def(f, m)
<1>1. MergeAll(entries) = so[m]
  BY DEF AreEntries, MergeAll
<1> HIDE DEF base, next
<1>2. 0 \in S
  <2> DEFINE f == [n \in 0..0 |-> base]
  <2>1. Def(f, 0)
    OBVIOUS
  <2> HIDE DEF Def, f
  <2> QED
    BY <2>1
<1>3. ASSUME NEW k \in Nat, k \in S PROVE k + 1 \in S
  <2>1. PICK f : Def(f, k)
    BY <1>3
  <2> DEFINE g == [n \in 0..(k + 1) |-> IF n = k + 1 THEN next(f[k], k + 1) ELSE f[n]]
  <2>2. ASSUME NEW n \in 0..(k + 1) PROVE g[n] = IF n = 0 THEN base ELSE next(g[n - 1], n)
    <3>1. CASE n = 0
      BY <2>1, <3>1
    <3>2. CASE n = k + 1
      <4>1. n # 0 /\ n - 1 = k /\ k \in 0..(k + 1) /\ k # k + 1
        BY <3>2
      <4> QED
        BY <3>2, <4>1
    <3>3. CASE n # 0 /\ n # k + 1
      <4>1. n \in 0..k /\ n - 1 \in 0..(k + 1) /\ n - 1 # k + 1
        BY <3>3
      <4> QED
        BY <2>1, <3>3, <4>1
    <3> QED
      BY <3>1, <3>2, <3>3
  <2>3. Def(g, k + 1)
    BY <2>2
  <2> HIDE DEF Def, g
  <2> QED
    BY <2>3
<1> HIDE DEF S
<1>4. m \in Nat /\ m \in S
  <2>1. m \in Nat
    BY DEF AreEntries
  <2> QED
    BY <1>2, <1>3, <2>1, SetInduction
<1>5. Def(so, m)
  <2>1. \E f : Def(f, m)
    BY <1>4 DEF S
  <2> HIDE DEF Def
  <2> QED
    BY <2>1
<1> HIDE DEF so
<1>6. so[0] = base /\ \A n \in 1..m : so[n] = next(so[n - 1], n)
  <2>1. 0 \in 0..m /\ \A n \in 1..m : n \in 0..m /\ n # 0
    BY <1>4
  <2> QED
    BY <1>5, <2>1
<1> QED
  BY <1>1, <1>6 DEF IsMerging, base, next

\* extract says what its entries say, and its conflicts are theirs.
LEMMA MergeAllSays ==
  ASSUME NEW entries, NEW m, AreEntries(entries, m)
  PROVE  LET S == {entries[n] : n \in 1..m}
             found == MergeAll(entries)
         IN /\ Says(found.catalog, S)
            /\ IF found.conflicts = {} THEN Agrees(found.catalog, S) ELSE Differs(S, S)
<1> DEFINE Upto(k) == {entries[n] : n \in 1..k}
<1>1. m \in Nat /\ \A n \in 1..m : IsCatalog(entries[n])
  BY DEF AreEntries
<1>2. PICK so : IsMerging(entries, m, so) /\ MergeAll(entries) = so[m]
  BY MergingExists
<1> DEFINE Known(k) ==
             /\ Says(so[k].catalog, Upto(k))
             /\ IF so[k].conflicts = {} THEN Agrees(so[k].catalog, Upto(k)) ELSE Differs(Upto(k), Upto(k))
           N == {k \in Nat : k <= m => Known(k)}
<1>3. 0 \in N
  <2>1. so[0].catalog = NoEntries /\ so[0].conflicts = {}
    BY <1>2 DEF IsMerging
  <2>2. Upto(0) = {} /\ DOMAIN NoEntries = {}
    BY DEF NoEntries
  <2> QED
    BY <2>1, <2>2 DEF Says, Agrees, IsCatalog
<1>4. ASSUME NEW k \in Nat, k \in N PROVE k + 1 \in N
  <2> SUFFICES ASSUME k + 1 <= m PROVE Known(k + 1)
    OBVIOUS
  <2>1. k + 1 \in 1..m /\ (k + 1) - 1 = k /\ k <= m
    BY <1>1
  <2> DEFINE entry == entries[k + 1]
             S == Upto(k)
             known == so[k].catalog
  <2>2. Upto(k + 1) = S \cup {entry}
    <3>1. 1..(k + 1) = (1..k) \cup {k + 1}
      OBVIOUS
    <3> QED
      BY <3>1
  <2>3. /\ so[k + 1].catalog = Merge(known, entry)
        /\ so[k + 1].conflicts = so[k].conflicts \cup Conflicts(known, entry)
    <3>1. so[k + 1] = [catalog |-> Merge(so[k].catalog, entries[k + 1]),
                       conflicts |-> so[k].conflicts \cup Conflicts(so[k].catalog, entries[k + 1])]
      BY <1>2, <2>1 DEF IsMerging
    <3> QED
      BY <3>1
  <2>4. /\ Says(known, S)
        /\ IF so[k].conflicts = {} THEN Agrees(known, S) ELSE Differs(S, S)
    BY <1>4, <2>1
  <2>5. Says(entry, {entry}) /\ Agrees(entry, {entry})
    BY <1>1, <2>1, EntrySays
  <2> HIDE DEF Upto, S, entry, known
  <2>6. Says(Merge(known, entry), S \cup {entry})
    BY <2>4, <2>5, MergeSays
  <2>7. CASE so[k + 1].conflicts = {}
    <3>1. so[k].conflicts = {} /\ Conflicts(known, entry) = {}
      BY <2>3, <2>7
    <3>2. Agrees(Merge(known, entry), S \cup {entry})
      BY <2>4, <2>5, <3>1, MergeAgrees
    <3> QED
      BY <2>2, <2>3, <2>6, <2>7, <3>2
  <2>8. CASE so[k + 1].conflicts # {}
    <3>1. Differs(S, S) \/ Differs({entry}, S)
      <4>1. so[k].conflicts # {} \/ Conflicts(known, entry) # {}
        BY <2>3, <2>8
      <4> QED
        BY <2>4, <2>5, <4>1, ConflictIsSaid
    <3>2. Differs(S \cup {entry}, S \cup {entry})
      BY <3>1 DEF Differs
    <3> QED
      BY <2>2, <2>3, <2>6, <2>8, <3>2
  <2> QED
    BY <2>7, <2>8
<1> HIDE DEF N
<1>5. Nat \subseteq N
  BY <1>3, <1>4, SetInduction
<1>6. Known(m)
  BY <1>1, <1>5 DEF N
<1> QED
  BY <1>2, <1>6

-----------------------------------------------------------------------------
(* The entries of a capture                                                *)

\* Each leaf adds one entry or none.
LEMMA EntriesOfCapture ==
  ASSUME NEW one \in Boxes \cup LaterBoxes
  PROVE  \E m : AreEntries(Entries(one), m)
<1> DEFINE all == Entries(one)
           m == Len(one.leaves)
<1>1. m \in Nat /\ DOMAIN one.leaves = 1..m
  BY BoxesAreCaptures
<1> HIDE DEF m
<1>2. DOMAIN all = 1..m /\ all = [n \in 1..m |-> all[n]]
  BY <1>1 DEF Entries
<1>3. ASSUME NEW n \in 1..m PROVE IsCatalog(all[n])
  <2>1. IsCatalog(NoEntries)
    BY DEF IsCatalog, NoEntries
  <2>2. ASSUME NEW leaf, NEW usage PROVE IsCatalog(Entry(one, leaf, usage))
    <3>1. ASSUME NEW url, NEW path PROVE IsEntry(DescriptorAt(one, url, path))
      BY DEF IsEntry, DescriptorAt
    <3>2. ASSUME NEW url, NEW path PROVE IsEntry(CommandAt(one, url, path))
      BY DEF IsEntry, CommandAt
    <3> QED
      BY <3>1, <3>2 DEF IsCatalog, Entry
  <2> QED
    BY <1>1, <2>1, <2>2 DEF Entries
<1> HIDE DEF all
<1>4. Len(all) = m
  <2>1. [n \in 1..m |-> all[n]] \in Seq({all[n] : n \in 1..m})
    BY <1>1, IsASeq
  <2> QED
    BY <1>1, <1>2, <2>1
<1> QED
  BY <1>1, <1>2, <1>3, <1>4 DEF AreEntries, all

\* The entries of a capture are those of its range.
LEMMA RangeOfEntries ==
  ASSUME NEW entries, NEW m, AreEntries(entries, m)
  PROVE  Range(entries) = {entries[n] : n \in 1..m}
BY DEF AreEntries, Range

-----------------------------------------------------------------------------
(* The invariant                                                           *)

AllLegible(S) == \A one \in S : Legible(one)

PublishInv ==
  /\ box \in Boxes \cup LaterBoxes
  /\ AllLegible(merged) => Says(file, EntriesOf(merged)) /\ Agrees(file, EntriesOf(merged))
  /\ RefusedForAReason

\* What a catalog says, as CatalogIsUnion puts it.
LEMMA UnionIsSaid ==
  (AllLegible(merged) => Says(file, EntriesOf(merged)) /\ Agrees(file, EntriesOf(merged))) => CatalogIsUnion
<1> DEFINE entries == EntriesOf(merged)
<1> SUFFICES ASSUME AllLegible(merged), Says(file, entries), Agrees(file, entries)
             PROVE  /\ DOMAIN file = UNION {DOMAIN entry : entry \in entries}
                    /\ \A at \in DOMAIN file :
                         LET said == {entry[at] : entry \in {e \in entries : at \in DOMAIN e}}
                         IN /\ \A one \in said : file[at].attributes = one.attributes
                            /\ file[at].enum = UNION {one.enum : one \in said}
  BY DEF CatalogIsUnion, AllLegible
<1> HIDE DEF entries
<1>1. DOMAIN file = UNION {DOMAIN entry : entry \in entries}
  <2>1. \A at : at \in DOMAIN file <=> \E e \in entries : at \in DOMAIN e
    BY DEF Says
  <2> QED
    BY <2>1
<1>2. ASSUME NEW at \in DOMAIN file
      PROVE  LET said == {entry[at] : entry \in {e \in entries : at \in DOMAIN e}}
             IN /\ \A one \in said : file[at].attributes = one.attributes
                /\ file[at].enum = UNION {one.enum : one \in said}
  <2> DEFINE said == {entry[at] : entry \in {e \in entries : at \in DOMAIN e}}
  <2>1. \A one \in said : file[at].attributes = one.attributes
    BY DEF Agrees
  <2>2. \A v : v \in file[at].enum <=> \E e \in entries : at \in DOMAIN e /\ v \in e[at].enum
    BY DEF Says
  <2>3. file[at].enum = UNION {one.enum : one \in said}
    BY <2>2
  <2> QED
    BY <2>1, <2>3
<1> QED
  BY <1>1, <1>2

LEMMA PublishInitHolds == Init => PublishInv
<1> SUFFICES ASSUME Init PROVE PublishInv
  OBVIOUS
<1>1. EntriesOf(merged) = {} /\ file = NoEntries /\ DOMAIN NoEntries = {}
  BY DEF Init, NoEntries, EntriesOf
<1> QED
  BY <1>1 DEF Init, PublishInv, Says, Agrees, IsCatalog, RefusedForAReason

\* What the tool reads of a capture whose entries pass the rules.
LEMMA ExtractSays ==
  ASSUME PublishInv, EntriesKept, phase = "published", Shaped(capture), Legible(box)
  PROVE  LET found == Extract(capture)
             S == Range(Entries(box))
         IN /\ Says(found.catalog, S)
            /\ IF found.conflicts = {} THEN Agrees(found.catalog, S) ELSE Differs(S, S)
<1>1. PICK m : AreEntries(Entries(box), m)
  BY EntriesOfCapture DEF PublishInv
<1>2. Entries(capture) = Entries(box)
  BY DEF EntriesKept
<1>3. Extract(capture) = MergeAll(Entries(box))
  BY <1>2 DEF Extract
<1>4. Range(Entries(box)) = {Entries(box)[n] : n \in 1..m}
  BY <1>1, RangeOfEntries
<1> QED
  BY <1>1, <1>3, <1>4, MergeAllSays

\* The entries of one more capture.
LEMMA EntriesOfMore ==
  ASSUME NEW S, NEW one
  PROVE  EntriesOf(S \cup {one}) = EntriesOf(S) \cup Range(Entries(one))
BY DEF EntriesOf

LEMMA WritesHolds == PublishInv /\ EntriesKept /\ Writes => PublishInv'
<1> SUFFICES ASSUME PublishInv, EntriesKept, Writes PROVE PublishInv'
  OBVIOUS
<1> DEFINE S == Range(Entries(box))
<1>1. /\ phase = "published" /\ Shaped(capture) /\ phase' = "written" /\ box' = box
      /\ file' = Merge(file, Extract(capture).catalog) /\ merged' = merged \cup {box}
      /\ Extract(capture).conflicts = {} /\ Conflicts(file, Extract(capture).catalog) = {}
  BY DEF Writes, Exits, AnyConflict
<1>2. AllLegible(merged') => Says(file', EntriesOf(merged')) /\ Agrees(file', EntriesOf(merged'))
  <2> SUFFICES ASSUME AllLegible(merged') PROVE Says(file', EntriesOf(merged')) /\ Agrees(file', EntriesOf(merged'))
    OBVIOUS
  <2>1. AllLegible(merged) /\ Legible(box)
    BY <1>1 DEF AllLegible
  <2>2. Says(file, EntriesOf(merged)) /\ Agrees(file, EntriesOf(merged))
    BY <2>1 DEF PublishInv
  <2>3. Says(Extract(capture).catalog, S) /\ Agrees(Extract(capture).catalog, S)
    BY <1>1, <2>1, ExtractSays
  <2>4. EntriesOf(merged') = EntriesOf(merged) \cup S
    BY <1>1, EntriesOfMore
  <2> HIDE DEF S
  <2> QED
    BY <1>1, <2>2, <2>3, <2>4, MergeSays, MergeAgrees
<1>3. RefusedForAReason'
  BY <1>1 DEF RefusedForAReason
<1> QED
  BY <1>1, <1>2, <1>3 DEF PublishInv

LEMMA RefusesHolds == PublishInv /\ EntriesKept /\ Refuses => PublishInv'
<1> SUFFICES ASSUME PublishInv, EntriesKept, Refuses PROVE PublishInv'
  OBVIOUS
<1> DEFINE S == EntriesOf({box})
           T == EntriesOf(merged \cup {box})
           found == Extract(capture)
<1>1. /\ phase = "published" /\ Shaped(capture) /\ UNCHANGED <<box, file, merged>>
      /\ found.conflicts # {} \/ Conflicts(file, found.catalog) # {}
  BY DEF Refuses, Exits, AnyConflict
<1>2. S = Range(Entries(box)) /\ T = EntriesOf(merged) \cup S
  <2>1. S = Range(Entries(box))
    BY DEF EntriesOf
  <2> QED
    BY <2>1, EntriesOfMore
<1>3. ASSUME AllLegible(merged \cup {box}) PROVE Differs(S, T)
  <2>1. AllLegible(merged) /\ Legible(box)
    BY <1>3 DEF AllLegible
  <2>2. Says(file, EntriesOf(merged))
    BY <2>1 DEF PublishInv
  <2>3. /\ Says(found.catalog, S)
        /\ IF found.conflicts = {} THEN Agrees(found.catalog, S) ELSE Differs(S, S)
    BY <1>1, <1>2, <2>1, ExtractSays
  <2> HIDE DEF S, T, found
  <2>4. Differs(S, S) \/ Differs(S, EntriesOf(merged))
    BY <1>1, <2>2, <2>3, ConflictIsSaid
  <2> QED
    BY <1>2, <2>4 DEF Differs
<1>4. RefusedForAReason'
  <2>1. (AllLegible(merged \cup {box}) => Differs(S, T)) => RefusedForAReason'
    BY <1>1 DEF RefusedForAReason, AllLegible, Differs
  <2> QED
    BY <1>3, <2>1
<1>5. (AllLegible(merged) => Says(file, EntriesOf(merged)) /\ Agrees(file, EntriesOf(merged)))'
  BY <1>1 DEF PublishInv, AllLegible
<1> QED
  BY <1>1, <1>4, <1>5 DEF PublishInv

LEMMA PublishNextHolds == PublishInv /\ EntriesKept /\ [Next]_vars => PublishInv'
<1> SUFFICES ASSUME PublishInv, EntriesKept, [Next]_vars PROVE PublishInv'
  OBVIOUS
<1>1. ASSUME UNCHANGED <<file, merged>>, box' \in Boxes \cup LaterBoxes,
             phase' = "conflict" => phase = "conflict" /\ box' = box
      PROVE  PublishInv'
  BY <1>1 DEF PublishInv, RefusedForAReason, AllLegible
<1>2. CASE Publishes
  BY <1>1, <1>2 DEF Publishes, PublishInv
<1>3. CASE Invalid
  BY <1>1, <1>3 DEF Invalid, Exits, PublishInv
<1>4. CASE Refuses
  BY <1>4, RefusesHolds
<1>5. CASE Writes
  BY <1>5, WritesHolds
<1>6. CASE Fetches
  BY <1>1, <1>6 DEF Fetches, PublishInv
<1>7. CASE UNCHANGED vars
  BY <1>1, <1>7 DEF vars, PublishInv
<1> QED
  BY <1>2, <1>3, <1>4, <1>5, <1>6, <1>7 DEF Next

LEMMA PublishInvHolds == Spec /\ []EntriesKept => []PublishInv
<1>1. Init => PublishInv
  BY PublishInitHolds
<1>2. PublishInv /\ EntriesKept /\ [Next]_vars => PublishInv'
  BY PublishNextHolds
<1> QED
  BY <1>1, <1>2, PTL DEF Spec

-----------------------------------------------------------------------------
(* Sequences of anything                                                   *)

IsSequence(p) == \E S : p \in Seq(S)

\* Two sequences with the same elements are one.
LEMMA SequencesAre ==
  ASSUME NEW p, IsSequence(p), NEW q, IsSequence(q), Len(p) = Len(q), \A d \in 1..Len(q) : p[d] = q[d]
  PROVE  p = q
<1> DEFINE n == Len(q)
<1>1. /\ p = [d \in 1..n |-> p[d]] /\ q = [d \in 1..n |-> q[d]]
  BY DEF IsSequence
<1>2. \A d \in 1..n : p[d] = q[d]
  OBVIOUS
<1> HIDE DEF n
<1> QED
  BY <1>1, <1>2

\* One element more, whatever it is.
LEMMA AppendIs ==
  ASSUME NEW s, IsSequence(s), NEW x, NEW n \in Nat, Len(s) = n - 1
  PROVE  /\ IsSequence(Append(s, x))
         /\ Len(Append(s, x)) = n /\ Append(s, x)[n] = x /\ \A d \in 1..(n - 1) : Append(s, x)[d] = s[d]
<1>1. PICK S : s \in Seq(S)
  BY DEF IsSequence
<1>2. s \in Seq(S \cup {x}) /\ (n - 1) + 1 = n
  BY <1>1, SeqMonotonic
<1> QED
  BY <1>2, AppendProperties DEF IsSequence

\* The elements before one.
LEMMA BeforeIs ==
  ASSUME NEW s, IsSequence(s), NEW n \in 1..Len(s)
  PROVE  /\ IsSequence(SubSeq(s, 1, n - 1)) /\ Len(SubSeq(s, 1, n - 1)) = n - 1
         /\ \A d \in 1..(n - 1) : SubSeq(s, 1, n - 1)[d] = s[d]
<1>1. PICK S : s \in Seq(S)
  BY DEF IsSequence
<1>2. /\ SubSeq(s, 1, n - 1) \in Seq(S) /\ Len(SubSeq(s, 1, n - 1)) = n - 1
      /\ \A d \in 1..(n - 1) : SubSeq(s, 1, n - 1)[d] = s[d]
  BY <1>1
<1> QED
  BY <1>2 DEF IsSequence

-----------------------------------------------------------------------------
(* What the anonymizer computes, step by step                              *)

\* The positions on the way to a leaf.
IsWalk(one, state, leaf, f) ==
  /\ f[0] = Root(one, state, leaf.url)
  /\ \A n \in 1..Len(leaf.path) : f[n] = Child(f[n - 1], leaf.path[n])

\* The states of the anonymizer in the body of an endpoint, after each leaf.
IsPass(one, state, url, f) ==
  /\ f[0] = state
  /\ \A n \in 1..Len(one.leaves) :
       f[n] = IF one.leaves[n].url = url THEN Node(one, f[n - 1], one.leaves[n]) ELSE f[n - 1]

\* The walk exists, for a path of any length.
LEMMA WalkExists ==
  ASSUME NEW one, NEW state, NEW leaf, Len(leaf.path) \in Nat
  PROVE  \E f : IsWalk(one, state, leaf, f) /\ Position(one, state, leaf) = f[Len(leaf.path)]
<1> DEFINE m == Len(leaf.path)
           base == Root(one, state, leaf.url)
           next(x, n) == Child(x, leaf.path[n])
           Def(f, k) == f = [n \in 0..k |-> IF n = 0 THEN base ELSE next(f[n - 1], n)]
           S == {k \in Nat : \E f : Def(f, k)}
           so == CHOOSE f : Def(f, m)
<1>1. Position(one, state, leaf) = so[m]
  BY DEF Position
<1> HIDE DEF m, base, next
<1>2. 0 \in S
  <2> DEFINE f == [n \in 0..0 |-> base]
  <2>1. Def(f, 0)
    OBVIOUS
  <2> HIDE DEF Def, f
  <2> QED
    BY <2>1
<1>3. ASSUME NEW k \in Nat, k \in S PROVE k + 1 \in S
  <2>1. PICK f : Def(f, k)
    BY <1>3
  <2> DEFINE g == [n \in 0..(k + 1) |-> IF n = k + 1 THEN next(f[k], k + 1) ELSE f[n]]
  <2>2. ASSUME NEW n \in 0..(k + 1) PROVE g[n] = IF n = 0 THEN base ELSE next(g[n - 1], n)
    <3>1. CASE n = 0
      BY <2>1, <3>1
    <3>2. CASE n = k + 1
      <4>1. n # 0 /\ n - 1 = k /\ k \in 0..(k + 1) /\ k # k + 1
        BY <3>2
      <4> QED
        BY <3>2, <4>1
    <3>3. CASE n # 0 /\ n # k + 1
      <4>1. n \in 0..k /\ n - 1 \in 0..(k + 1) /\ n - 1 # k + 1
        BY <3>3
      <4> QED
        BY <2>1, <3>3, <4>1
    <3> QED
      BY <3>1, <3>2, <3>3
  <2>3. Def(g, k + 1)
    BY <2>2
  <2> HIDE DEF Def, g
  <2> QED
    BY <2>3
<1> HIDE DEF S
<1>4. m \in Nat /\ m \in S
  <2>1. m \in Nat
    BY DEF m
  <2> QED
    BY <1>2, <1>3, <2>1, SetInduction
<1>5. Def(so, m)
  <2>1. \E f : Def(f, m)
    BY <1>4 DEF S
  <2> HIDE DEF Def
  <2> QED
    BY <2>1
<1> HIDE DEF so
<1>6. so[0] = base /\ \A n \in 1..m : so[n] = next(so[n - 1], n)
  <2>1. 0 \in 0..m /\ \A n \in 1..m : n \in 0..m /\ n # 0
    BY <1>4
  <2> QED
    BY <1>5, <2>1
<1> QED
  BY <1>1, <1>6 DEF IsWalk, m, base, next

\* The last leaf of an endpoint among the first leaves of a capture, or 0.
LastOf(one, url, n) == Max({0} \cup {m \in 1..n : one.leaves[m].url = url})

\* It is the next one, or the one it was.
LEMMA LastIs ==
  ASSUME NEW one, NEW url, NEW k \in Nat
  PROVE  /\ LastOf(one, url, 0) = 0
         /\ LastOf(one, url, k) \in 0..k
         /\ one.leaves[k + 1].url = url => LastOf(one, url, k + 1) = k + 1
         /\ one.leaves[k + 1].url # url => LastOf(one, url, k + 1) = LastOf(one, url, k)
<1> DEFINE S(n) == {0} \cup {m \in 1..n : one.leaves[m].url = url}
<1>1. ASSUME NEW n \in Nat, n \in S(n) PROVE LastOf(one, url, n) = n
  <2>1. S(n) \subseteq Nat /\ \A y \in S(n) : n >= y
    OBVIOUS
  <2>2. LastOf(one, url, n) = CHOOSE x \in S(n) : \A y \in S(n) : x >= y
    BY DEF LastOf, Max
  <2> HIDE DEF S
  <2>3. LastOf(one, url, n) \in S(n) /\ LastOf(one, url, n) >= n
    BY <1>1, <2>1, <2>2
  <2> QED
    BY <2>1, <2>3
<1>2. LastOf(one, url, 0) = 0
  BY <1>1
<1>3. ASSUME NEW n \in Nat
      PROVE  LastOf(one, url, n + 1) =
               IF one.leaves[n + 1].url = url THEN n + 1 ELSE LastOf(one, url, n)
  <2>1. 1..(n + 1) = (1..n) \cup {n + 1} /\ n + 1 \in Nat
    OBVIOUS
  <2>2. CASE one.leaves[n + 1].url = url
    BY <1>1, <2>1, <2>2
  <2>3. CASE one.leaves[n + 1].url # url
    <3>1. S(n + 1) = S(n)
      BY <2>1, <2>3
    <3> QED
      BY <2>3, <3>1 DEF LastOf
  <2> QED
    BY <2>2, <2>3
<1> DEFINE T == {n \in Nat : LastOf(one, url, n) \in 0..n}
<1>4. 0 \in T
  BY <1>2
<1>5. ASSUME NEW n \in Nat, n \in T PROVE n + 1 \in T
  BY <1>3, <1>5
<1> HIDE DEF T
<1>6. \A n \in Nat : n \in T
  BY <1>4, <1>5, SetInduction
<1> QED
  BY <1>2, <1>3, <1>6 DEF T

\* The pass exists, for a body of any size.
LEMMA PassExists ==
  ASSUME NEW one, NEW state, NEW url, Len(one.leaves) \in Nat
  PROVE  \E f : IsPass(one, state, url, f) /\ Endpoint(one, state, url) = f[Len(one.leaves)]
<1> DEFINE m == Len(one.leaves)
           base == state
           last(n) == LastOf(one, url, n)
           next(x, n) == Node(one, x, one.leaves[n])
           Def(f, k) == f = [n \in 0..k |-> IF n = 0 THEN base ELSE next(f[last(n - 1)], n)]
           S == {k \in Nat : \E f : Def(f, k)}
           so == CHOOSE f : Def(f, m)
           pass == [n \in 0..m |-> so[last(n)]]
<1>1. Endpoint(one, state, url) = so[last(m)]
  BY DEF Endpoint, LastOf
<1>2. /\ last(0) = 0
      /\ \A n \in Nat : /\ last(n) \in 0..n
                        /\ one.leaves[n + 1].url = url => last(n + 1) = n + 1
                        /\ one.leaves[n + 1].url # url => last(n + 1) = last(n)
  BY LastIs
<1> HIDE DEF m, base, last, next
<1>3. 0 \in S
  <2> DEFINE f == [n \in 0..0 |-> base]
  <2>1. Def(f, 0)
    OBVIOUS
  <2> HIDE DEF Def, f
  <2> QED
    BY <2>1
<1>4. ASSUME NEW k \in Nat, k \in S PROVE k + 1 \in S
  <2>1. PICK f : Def(f, k)
    BY <1>4
  <2> DEFINE g == [n \in 0..(k + 1) |-> IF n = k + 1 THEN next(f[last(k)], k + 1) ELSE f[n]]
  <2>2. ASSUME NEW n \in 0..(k + 1)
        PROVE  g[n] = IF n = 0 THEN base ELSE next(g[last(n - 1)], n)
    <3>1. CASE n = 0
      BY <2>1, <3>1
    <3>2. CASE n = k + 1
      <4>1. last(k) \in 0..k
        BY <1>2
      <4>2. n # 0 /\ n - 1 = k /\ last(k) \in 0..(k + 1) /\ last(k) # k + 1
        BY <3>2, <4>1
      <4> QED
        BY <3>2, <4>2
    <3>3. CASE n # 0 /\ n # k + 1
      <4>0. n \in 0..k /\ n - 1 \in Nat
        BY <3>3
      <4>1. last(n - 1) \in 0..(n - 1)
        BY <1>2, <4>0
      <4>2. last(n - 1) \in 0..(k + 1) /\ last(n - 1) # k + 1
        BY <4>0, <4>1
      <4> QED
        BY <2>1, <3>3, <4>0, <4>2
    <3> QED
      BY <3>1, <3>2, <3>3
  <2>3. Def(g, k + 1)
    BY <2>2
  <2> HIDE DEF Def, g
  <2> QED
    BY <2>3
<1> HIDE DEF S
<1>5. m \in Nat /\ m \in S
  <2>1. m \in Nat
    BY DEF m
  <2> QED
    BY <1>3, <1>4, <2>1, SetInduction
<1>6. Def(so, m)
  <2>1. \E f : Def(f, m)
    BY <1>5 DEF S
  <2> HIDE DEF Def
  <2> QED
    BY <2>1
<1> HIDE DEF so
<1>7. so[0] = base /\ \A n \in 1..m : so[n] = next(so[last(n - 1)], n)
  <2>1. 0 \in 0..m /\ \A n \in 1..m : n \in 0..m /\ n # 0
    BY <1>5
  <2> QED
    BY <1>6, <2>1
<1>8. pass[0] = base /\ pass[m] = so[last(m)]
  <2>1. 0 \in 0..m /\ m \in 0..m
    BY <1>5
  <2> QED
    BY <1>2, <1>7, <2>1
<1>9. ASSUME NEW n \in 1..m
      PROVE  pass[n] = IF one.leaves[n].url = url THEN next(pass[n - 1], n) ELSE pass[n - 1]
  <2>1. n - 1 \in Nat /\ (n - 1) + 1 = n /\ n \in 0..m /\ n - 1 \in 0..m
    BY <1>5
  <2>2. last(n) = IF one.leaves[n].url = url THEN n ELSE last(n - 1)
    BY <1>2, <2>1
  <2> QED
    BY <1>7, <2>1, <2>2
<1> HIDE DEF pass
<1> QED
  BY <1>1, <1>8, <1>9 DEF IsPass, m, base, next

-----------------------------------------------------------------------------
(* What may be published                                                   *)

\* There is one first rule at most.
LEMMA OneRule == ASSUME NEW one, NEW leaf, NEW x \in RuleOf(one, leaf), NEW y \in RuleOf(one, leaf) PROVE x = y
BY DEF RuleOf

HasRule(one, leaf, action) == \E rule \in RuleOf(one, leaf) : rule.action = action

\* A public key stays, any other is numbered.
KeyMayBe(one, leaf, d, step) ==
  IF PublicKey(one, leaf, d) THEN step = <<leaf.path[d][1], leaf.path[d][2]>>
  ELSE \E k \in Nat : step = <<"<key-" \o ToString(k) \o ">", leaf.path[d][2]>>

\* What the value of a data leaf may become: a number, the min of some descriptor.
DataMayBe(one, leaf, value) ==
  LET meta == DescriptorSources[leaf.url].meta
      type == leaf.value.type
  IN \/ value = leaf.value /\ type \in {"null", "bool"}
     \/ value = Value("str", "<not-in-enum>")
     \/ /\ value = leaf.value /\ Passes(value, "enum")
        /\ \E descriptor : value \in EnumValues(one, meta, descriptor)
     \/ \E other \in Range(one.leaves) :
          /\ other.url = meta /\ \E descriptor : other.path = Keys(descriptor, "min")
          /\ value \in {Value(type, other.value.text), Value(type, Truncated(other.value.text))}

\* What may be published in the place of a leaf.
ValueMayBe(one, leaf, value) ==
  IF Passing(one, leaf) THEN value = leaf.value
  ELSE \/ value = Placeholder(leaf.value)
       \/ \E rule \in RuleOf(one, leaf) :
            \/ rule.action = "id" /\ value = leaf.value /\ value = Empty
            \/ rule.action = "id" /\ \E k \in Nat : value = Value(leaf.value.type, ToString(k))
            \/ /\ rule.action \in Kinds
               /\ \E k \in Nat : value = Value("str", "<name:" \o rule.action \o ":" \o ToString(k) \o ">")
            \/ rule.action = "value" /\ DataMayBe(one, leaf, value)

\* A leaf published comes from one of the same endpoint, at the same depth.
Publishable(one, leaf, out) ==
  /\ out.url = leaf.url /\ IsSequence(out.path) /\ Len(out.path) = Len(leaf.path)
  /\ \A d \in 1..Len(leaf.path) : KeyMayBe(one, leaf, d, out.path[d])
  /\ ValueMayBe(one, leaf, out.value)

\* A value that its rule is not for.
Breaks(value, action) ==
  \/ action \in Keeps /\ ~Passes(value, action)
  \/ action = "id" /\ value \notin {Null, Empty} /\ value.type \notin {"int", "str"}
  \/ action \in Kinds /\ value # Null /\ value.type # "str"

\* A leaf that no rule is for, or that breaks its rule, is in the report, by where it is
\* published.
IsReported(at, value, reason, unclassified) ==
  [url |-> at.url, path |-> Generic(at.path), type |-> value.type, reason |-> reason] \in unclassified
Reported(one, leaf, out, unclassified) ==
  /\ RuleOf(one, leaf) = {} => IsReported(out, leaf.value, "no-rule", unclassified)
  /\ \A rule \in RuleOf(one, leaf) :
       Breaks(leaf.value, rule.action) => IsReported(out, leaf.value, "keep-constraint", unclassified)

\* A value of the data is taken from its descriptor.
IsTaken(one, leaf, value) == HasRule(one, leaf, "value") => value = DataValue(one, leaf)

-----------------------------------------------------------------------------
(* The position of a leaf                                                  *)

\* The step published for a step, at the position before it.
OutStep(f, path, d) == <<OutKey(f[d - 1], path[d][1]), path[d][2]>>

\* What a position knows.
IsAt(one, leaf, f, n) ==
  LET url == leaf.url
      path == leaf.path
  IN /\ f[n].url = url
     /\ f[n].path \in Seq({OutStep(f, path, d) : d \in 1..Len(path)}) /\ Len(f[n].path) = n
     /\ \A d \in 1..n : f[n].path[d] = OutStep(f, path, d)
     /\ f[n].rules = {k \in RulesOf(one, url) : Along(Rules[url][k].path, path, n)}
     /\ f[n].hidden = {opaque \in OpaqueOf(one, url) : Along(opaque, path, n)}
     /\ f[n].opaque <=> \E opaque \in OpaqueOf(one, url) :
                          Len(opaque) \in 1..n /\ Along(opaque, path, Len(opaque))

\* A path that leads one key further follows.
LEMMA LeadsOn ==
  ASSUME NEW rule, NEW path, NEW n \in Nat
  PROVE  Along(rule, path, n + 1) <=> Along(rule, path, n) /\ Follows(rule, n, path[n + 1][1])
<1>1. 1..(n + 1) = (1..n) \cup {n + 1}
  OBVIOUS
<1>2. n < Len(rule) <=> n + 1 <= Len(rule)
  OBVIOUS
<1> QED
  BY <1>1, <1>2 DEF Along, Follows, Matching

\* Each position of a walk knows it.
LEMMA WalkIs ==
  ASSUME NEW one, NEW state, NEW leaf, Len(leaf.path) \in Nat,
         NEW f, IsWalk(one, state, leaf, f), NEW n \in 0..Len(leaf.path)
  PROVE  IsAt(one, leaf, f, n)
<1> DEFINE m == Len(leaf.path)
           path == leaf.path
           url == leaf.url
           T == {k \in Nat : k <= m => IsAt(one, leaf, f, k)}
<1>1. 0 \in T
  <2>1. f[0] = Root(one, state, url)
    BY DEF IsWalk
  <2>2. f[0].url = url /\ f[0].path = <<>> /\ f[0].opaque = FALSE
    BY <2>1 DEF Root
  <2>3. f[0].rules = RulesOf(one, url) /\ f[0].hidden = OpaqueOf(one, url)
    BY <2>1 DEF Root, RulesOf, OpaqueOf
  <2>4. \A rule : Along(rule, path, 0)
    BY DEF Along
  <2>5. f[0].path \in Seq({OutStep(f, path, d) : d \in 1..m}) /\ Len(f[0].path) = 0
    BY <2>2
  <2>6. \A x : x \notin 1..0
    OBVIOUS
  <2> HIDE DEF path, url, m
  <2>7. IsAt(one, leaf, f, 0)
    BY <2>2, <2>3, <2>4, <2>5, <2>6 DEF IsAt, path, url, m
  <2> QED
    BY <2>7 DEF m
<1>2. ASSUME NEW k \in Nat, k \in T PROVE k + 1 \in T
  <2> SUFFICES ASSUME k + 1 <= m PROVE IsAt(one, leaf, f, k + 1)
    OBVIOUS
  <2> DEFINE S == {OutStep(f, path, d) : d \in 1..m}
             key == path[k + 1][1]
             at == f[k]
             next == f[k + 1]
             hidden == {opaque \in at.hidden : Follows(opaque, k, key)}
  <2>1. k + 1 \in 1..m /\ (k + 1) - 1 = k
    OBVIOUS
  <2>2. IsAt(one, leaf, f, k)
    BY <1>2
  <2>3. next = Child(at, path[k + 1])
    BY <2>1 DEF IsWalk
  <2>4. at.url = url /\ at.path \in Seq(S) /\ Len(at.path) = k
    BY <2>2 DEF IsAt
  <2>5. next.url = at.url /\ next.path = Append(at.path, OutStep(f, path, k + 1))
    BY <2>1, <2>3 DEF Child, OutStep
  <2>6. /\ next.rules = {n_1 \in at.rules : Follows(Rules[url][n_1].path, k, key)}
        /\ next.hidden = hidden
        /\ next.opaque <=> at.opaque \/ \E opaque \in hidden : Len(opaque) = k + 1
    <3>1. next.rules = {n_1 \in at.rules : Follows(Rules[at.url][n_1].path, Len(at.path), key)}
      BY <2>3 DEF Child
    <3>2. next.hidden = {opaque \in at.hidden : Follows(opaque, Len(at.path), key)}
      BY <2>3 DEF Child
    <3>3. next.opaque = (at.opaque \/ \E opaque \in next.hidden : Len(opaque) = Len(at.path) + 1)
      BY <2>3 DEF Child
    <3> HIDE DEF at, next, key
    <3> QED
      BY <2>4, <3>1, <3>2, <3>3
  <2>7. OutStep(f, path, k + 1) \in S
    BY <2>1
  <2> HIDE DEF S, at, next
  <2>8. /\ next.path \in Seq(S) /\ Len(next.path) = k + 1
        /\ next.path[k + 1] = OutStep(f, path, k + 1)
        /\ \A d \in 1..k : next.path[d] = at.path[d]
    BY <2>4, <2>5, <2>7, AppendProperties
  <2>9. ASSUME NEW d \in 1..(k + 1) PROVE next.path[d] = OutStep(f, path, d)
    <3>1. CASE d = k + 1
      BY <2>8, <3>1
    <3>2. CASE d # k + 1
      <4>1. d \in 1..k
        BY <3>2
      <4>2. at.path[d] = OutStep(f, path, d)
        BY <2>2, <4>1 DEF IsAt, at
      <4> QED
        BY <2>8, <4>1, <4>2
    <3> QED
      BY <3>1, <3>2
  <2>10. \A rule : Along(rule, path, k + 1) <=> Along(rule, path, k) /\ Follows(rule, k, key)
    BY LeadsOn
  <2>11. at.rules = {n_1 \in RulesOf(one, url) : Along(Rules[url][n_1].path, path, k)}
    BY <2>2 DEF IsAt, at
  <2>12. next.rules = {n_1 \in RulesOf(one, url) : Along(Rules[url][n_1].path, path, k + 1)}
    <3> HIDE DEF key, path, url
    <3> QED
      BY <2>6, <2>10, <2>11
  <2>13. at.hidden = {opaque \in OpaqueOf(one, url) : Along(opaque, path, k)}
    BY <2>2 DEF IsAt, at
  <2>14. hidden = {opaque \in OpaqueOf(one, url) : Along(opaque, path, k + 1)}
    <3> HIDE DEF key, path, url
    <3> QED
      BY <2>10, <2>13
  <2>15. at.opaque <=> \E opaque \in OpaqueOf(one, url) :
                          Len(opaque) \in 1..k /\ Along(opaque, path, Len(opaque))
    BY <2>2 DEF IsAt, at
  <2>16. next.opaque <=> \E opaque \in OpaqueOf(one, url) :
                          Len(opaque) \in 1..(k + 1) /\ Along(opaque, path, Len(opaque))
    <3>1. \A x : x \in 1..(k + 1) <=> x \in 1..k \/ x = k + 1
      OBVIOUS
    <3> HIDE DEF path, url, hidden
    <3> QED
      BY <2>6, <2>14, <2>15, <3>1
  <2> QED
    BY <2>4, <2>5, <2>6, <2>8, <2>9, <2>12, <2>14, <2>16 DEF IsAt, S, next
<1> HIDE DEF T
<1>3. n \in T
  BY <1>1, <1>2, SetInduction
<1> QED
  BY <1>3 DEF T

-----------------------------------------------------------------------------
(* Numbers                                                                 *)

\* A set of numbers has its least element.
LEMMA MinIs == ASSUME NEW S, S \subseteq Nat, S # {} PROVE Min(S) \in S /\ \A k \in S : Min(S) <= k
<1> DEFINE N == {n \in Nat : \A k \in S : n <= k}
<1>1. PICK x \in S : TRUE
  OBVIOUS
<1>2. 0 \in N
  OBVIOUS
<1>3. x + 1 \in Nat /\ x + 1 \notin N
  BY <1>1
<1>4. ~(Nat \subseteq N)
  <2> HIDE DEF N
  <2> QED
    BY <1>3
<1> HIDE DEF N
<1>5. PICK n \in Nat : n \in N /\ n + 1 \notin N
  BY <1>2, <1>4, SetInduction
<1>6. n \in S /\ \A k \in S : n <= k
  BY <1>5 DEF N
<1> QED
  BY <1>6 DEF Min

\* And its greatest, when there is one above them all.
LEMMA MaxIs == ASSUME NEW m \in Nat, NEW S, S \subseteq 1..m, S # {} PROVE Max(S) \in S
<1> DEFINE U == {n \in Nat : \A k \in S : k <= n}
<1>1. U \subseteq Nat /\ m \in U
  OBVIOUS
<1>2. Min(U) \in U /\ \A k \in U : Min(U) <= k
  BY <1>1, MinIs
<1>3. PICK n \in Nat : (\A k \in S : k <= n) /\ \A h \in Nat : (\A k \in S : k <= h) => n <= h
  BY <1>2
<1>4. n \in S
  <2> SUFFICES ASSUME n \notin S PROVE FALSE
    OBVIOUS
  <2>1. \A k \in S : k < n /\ k >= 1
    BY <1>3
  <2>2. n > 1
    <3>1. PICK k \in S : TRUE
      OBVIOUS
    <3> QED
      BY <2>1, <3>1
  <2>3. n - 1 \in Nat /\ \A k \in S : k <= n - 1
    BY <2>1, <2>2
  <2> QED
    BY <1>3, <2>3
<1>5. \A k \in S : n >= k
  BY <1>3
<1> QED
  BY <1>4, <1>5 DEF Max

\* What SelectInSeq selects is a place, or 0.
LEMMA NumberOfIs ==
  ASSUME NEW known, NEW x
  PROVE  \E k \in Nat : NumberOf(known, x) = ToString(k)
<1> DEFINE I == {i \in 1..Len(known) : known[i] = x}
<1>1. NumberOf(known, x) = ToString(IF I # {} THEN Min(I) ELSE 0)
  BY DEF NumberOf, SelectInSeq
<1>2. I \subseteq Nat
  OBVIOUS
<1> HIDE DEF I
<1>3. (IF I # {} THEN Min(I) ELSE 0) \in Nat
  BY <1>2, MinIs
<1> QED
  BY <1>1, <1>3

\* A dict of ids has each of them once.
AreIds(ids) == IsSequence(ids) /\ \A i, j \in 1..Len(ids) : ids[i] = ids[j] => i = j

\* The text is the number of the id.
Numbers(ids, x, text) == \E k \in 1..Len(ids) : ids[k] = x /\ text = ToString(k)

\* A text known or added has its number, and those known keep theirs.
LEMMA NumberedIs ==
  ASSUME NEW ids, AreIds(ids), NEW x
  PROVE  LET more == Numbered(ids, x)
         IN /\ AreIds(more) /\ Numbers(more, x, NumberOf(more, x))
            /\ \A y, text : Numbers(ids, y, text) => Numbers(more, y, text)
<1> DEFINE more == Numbered(ids, x)
           I == {i \in 1..Len(more) : more[i] = x}
<1>1. IsSequence(ids) /\ Len(ids) \in Nat
  BY DEF AreIds, IsSequence
<1>2. /\ AreIds(more) /\ I # {}
      /\ \A y, text : Numbers(ids, y, text) => Numbers(more, y, text)
  <2>1. CASE Contains(ids, x)
    <3>1. more = ids
      BY <2>1 DEF Numbered
    <3> HIDE DEF more
    <3>2. \E i \in 1..Len(ids) : ids[i] = x
      BY <2>1 DEF Contains
    <3> QED
      BY <3>1, <3>2
  <2>2. CASE ~Contains(ids, x)
    <3>1. more = Append(ids, x)
      BY <2>2 DEF Numbered
    <3>2. \A i \in 1..Len(ids) : ids[i] # x
      BY <2>2 DEF Contains
    <3> DEFINE k == Len(ids) + 1
    <3>3. k \in Nat /\ Len(ids) = k - 1 /\ 1..k = (1..Len(ids)) \cup {k}
      BY <1>1
    <3> HIDE DEF more, k
    <3>4. IsSequence(more) /\ Len(more) = k /\ more[k] = x /\ \A i \in 1..Len(ids) : more[i] = ids[i]
      BY <1>1, <3>1, <3>3, AppendIs
    <3>5. ASSUME NEW i \in 1..k, NEW j \in 1..k, more[i] = more[j] PROVE i = j
      BY <3>2, <3>3, <3>4, <3>5 DEF AreIds
    <3>6. \A y, text : Numbers(ids, y, text) => Numbers(more, y, text)
      BY <3>3, <3>4 DEF Numbers
    <3>7. I # {}
      BY <3>3, <3>4
    <3> QED
      BY <3>4, <3>5, <3>6, <3>7 DEF AreIds
  <2> QED
    BY <2>1, <2>2
<1>3. I \subseteq Nat
  OBVIOUS
<1>4. NumberOf(more, x) = ToString(IF I # {} THEN Min(I) ELSE 0)
  BY DEF NumberOf, SelectInSeq
<1> HIDE DEF I
<1>5. Min(I) \in I /\ NumberOf(more, x) = ToString(Min(I))
  BY <1>2, <1>3, <1>4, MinIs
<1> HIDE DEF more
<1>6. Min(I) \in 1..Len(more) /\ more[Min(I)] = x
  BY <1>5 DEF I
<1>7. Numbers(more, x, NumberOf(more, x))
  BY <1>5, <1>6 DEF Numbers
<1> QED
  BY <1>2, <1>7 DEF more

\* What Get returns is null, or the value of a leaf at the path.
LEMMA GetIs ==
  ASSUME NEW one, NEW url, NEW path
  PROVE  \/ Get(one, url, path) = Null
         \/ \E i \in 1..Len(one.leaves) : LET leaf == one.leaves[i] IN
              leaf.url = url /\ leaf.path = path /\ Get(one, url, path) = leaf.value
<1> DEFINE I == {i \in 1..Len(one.leaves) : one.leaves[i].url = url /\ one.leaves[i].path = path}
           at == IF I # {} THEN Min(I) ELSE 0
<1>1. Get(one, url, path) = IF at = 0 THEN Null ELSE one.leaves[at].value
  BY DEF Get, SelectInSeq
<1>2. I \subseteq Nat
  OBVIOUS
<1> HIDE DEF I
<1>3. at = 0 \/ at \in I
  BY <1>2, MinIs
<1> HIDE DEF at
<1> QED
  BY <1>1, <1>3 DEF I

\* What is found at a place where two captures have the same leaves.
HaveTheSame(one, out, url, q) ==
  /\ Len(out.leaves) = Len(one.leaves)
  /\ \A i \in 1..Len(one.leaves) :
       one.leaves[i].url = url /\ one.leaves[i].path = q <=> out.leaves[i].url = url /\ out.leaves[i].path = q

LEMMA GetBoth ==
  ASSUME NEW one, NEW out, NEW url, NEW q, HaveTheSame(one, out, url, q)
  PROVE  \/ Get(one, url, q) = Null /\ Get(out, url, q) = Null
         \/ \E i \in 1..Len(one.leaves) :
              /\ one.leaves[i].url = url /\ one.leaves[i].path = q
              /\ Get(one, url, q) = one.leaves[i].value /\ Get(out, url, q) = out.leaves[i].value
<1> DEFINE m == Len(one.leaves)
           I == {i \in 1..m : one.leaves[i].url = url /\ one.leaves[i].path = q}
           J == {i \in 1..m : out.leaves[i].url = url /\ out.leaves[i].path = q}
           at == IF I # {} THEN Min(I) ELSE 0
<1>1. Get(one, url, q) = IF at = 0 THEN Null ELSE one.leaves[at].value
  BY DEF Get, SelectInSeq
<1>2. Get(out, url, q) = IF at = 0 THEN Null ELSE out.leaves[at].value
  <2>1. I = J
    BY DEF HaveTheSame
  <2>2. Get(out, url, q) = LET at2 == IF J # {} THEN Min(J) ELSE 0
                           IN IF at2 = 0 THEN Null ELSE out.leaves[at2].value
    BY DEF Get, SelectInSeq, HaveTheSame
  <2> HIDE DEF I, J
  <2> QED
    BY <2>1, <2>2
<1>3. I \subseteq Nat
  OBVIOUS
<1> HIDE DEF I
<1>4. at = 0 \/ at \in I
  BY <1>3, MinIs
<1> HIDE DEF at
<1> QED
  BY <1>1, <1>2, <1>4 DEF I

-----------------------------------------------------------------------------
(* One leaf                                                                *)

\* A key is kept where it is public.
LEMMA KeptIs ==
  ASSUME NEW one, NEW leaf, Len(leaf.path) \in Nat, NEW f, NEW d \in 1..Len(leaf.path),
         IsAt(one, leaf, f, d - 1)
  PROVE  KeyKept(f[d - 1], leaf.path[d][1]) <=> PublicKey(one, leaf, d)
<1> DEFINE key == leaf.path[d][1]
           at == f[d - 1]
           url == leaf.url
           Leads(n) == Along(Rules[url][n].path, leaf.path, d) /\ Rules[url][n].path[d] # AnyKey
<1>1. (d - 1) + 1 = d /\ d - 1 \in Nat /\ d \in Nat
  OBVIOUS
<1>2. at.url = url /\ Len(at.path) = d - 1
  BY DEF IsAt
<1>3. at.rules = {n \in RulesOf(one, url) : Along(Rules[url][n].path, leaf.path, d - 1)}
  BY DEF IsAt
<1>4. at.opaque <=> \E opaque \in OpaqueOf(one, url) :
                      Len(opaque) \in 1..(d - 1) /\ Along(opaque, leaf.path, Len(opaque))
  BY DEF IsAt
<1> HIDE DEF at
<1>5. ASSUME key # Item, NEW n \in RulesOf(one, url)
      PROVE  Leads(n) <=> n \in at.rules /\ LET path == Rules[url][n].path
                                             IN /\ d - 1 < Len(path) /\ path[d] \notin {AnyKey, Item}
                                                /\ SegmentMatches(path[d], key)
  <2> DEFINE path == Rules[url][n].path
  <2>1. Along(path, leaf.path, d) <=> Along(path, leaf.path, d - 1) /\ Follows(path, d - 1, key)
    <3>1. Along(path, leaf.path, (d - 1) + 1)
            <=> Along(path, leaf.path, d - 1) /\ Follows(path, d - 1, leaf.path[(d - 1) + 1][1])
      BY <1>1, LeadsOn
    <3> QED
      BY <1>1, <3>1
  <2>2. n \in at.rules <=> Along(path, leaf.path, d - 1)
    BY <1>3
  <2> HIDE DEF path
  <2>3. Follows(path, d - 1, key) /\ path[d] # AnyKey
          <=> d - 1 < Len(path) /\ path[d] \notin {AnyKey, Item} /\ SegmentMatches(path[d], key)
    BY <1>1, <1>5 DEF Follows
  <2> QED
    BY <2>1, <2>2, <2>3 DEF path
<1>6. ASSUME key # Item PROVE Declared(at, key) <=> \E n \in RulesOf(one, url) : Leads(n)
  <2>1. Declared(at, key) <=>
          \E n \in at.rules : LET path == Rules[url][n].path
                              IN /\ d - 1 < Len(path) /\ path[d] \notin {AnyKey, Item}
                                 /\ SegmentMatches(path[d], key)
    BY <1>1, <1>2 DEF Declared
  <2>2. at.rules \subseteq RulesOf(one, url)
    BY <1>3
  <2> HIDE DEF Leads
  <2> QED
    BY <1>5, <1>6, <2>1, <2>2
<1>7. KeyKept(at, key) <=> PublicKey(one, leaf, d)
  BY <1>4, <1>6 DEF KeyKept, PublicKey
<1> QED
  BY <1>7 DEF at

\* The key published at each depth is one of those that may be.
LEMMA KeyIs ==
  ASSUME NEW one, NEW leaf, Len(leaf.path) \in Nat, NEW f, NEW d \in 1..Len(leaf.path),
         IsAt(one, leaf, f, d - 1)
  PROVE  KeyMayBe(one, leaf, d, OutStep(f, leaf.path, d))
<1> DEFINE key == leaf.path[d][1]
           at == f[d - 1]
<1>1. KeyKept(at, key) <=> PublicKey(one, leaf, d)
  BY KeptIs
<1>2. CASE KeyKept(at, key)
  <2>1. OutStep(f, leaf.path, d) = <<key, leaf.path[d][2]>>
    BY <1>2 DEF OutStep, OutKey
  <2> HIDE DEF at
  <2> QED
    BY <1>1, <1>2, <2>1 DEF KeyMayBe
<1>3. CASE ~KeyKept(at, key)
  <2>1. PICK k \in Nat : NumberOf(Numbered(at.keys, key), key) = ToString(k)
    BY NumberOfIs
  <2>2. OutStep(f, leaf.path, d) = <<"<key-" \o ToString(k) \o ">", leaf.path[d][2]>>
    BY <1>3, <2>1 DEF OutStep, OutKey
  <2> HIDE DEF at
  <2> QED
    BY <1>1, <1>3, <2>2 DEF KeyMayBe
<1> QED
  BY <1>2, <1>3

\* The state is a record of its fields.
IsState(s) ==
  s = [ids |-> s.ids, keys |-> s.keys, names |-> s.names, leaves |-> s.leaves,
       unclassified |-> s.unclassified, renamed |-> s.renamed]

\* A leaf is added, and nothing is taken from the report.
Adds(s, next, at, value) ==
  /\ IsState(next)
  /\ next.leaves = Append(s.leaves, [url |-> at.url, path |-> at.path, value |-> value])
  /\ s.unclassified \subseteq next.unclassified

\* Writing a leaf adds it.
LEMMA WriteIs ==
  ASSUME NEW s, IsState(s), NEW at, NEW value
  PROVE  Adds(s, Write(s, at, value), at, value) /\ Write(s, at, value).ids = s.ids
<1> DEFINE out == [url |-> at.url, path |-> at.path, value |-> value]
           leaves == Append(s.leaves, out)
<1>1. Write(s, at, value) = [s EXCEPT !.leaves = leaves]
  BY DEF Write
<1> HIDE DEF leaves
<1>2. Write(s, at, value)
        = [ids |-> s.ids, keys |-> s.keys, names |-> s.names, leaves |-> leaves,
           unclassified |-> s.unclassified, renamed |-> s.renamed]
  BY <1>1 DEF IsState
<1>3. IsState(Write(s, at, value)) /\ s.unclassified \subseteq Write(s, at, value).unclassified
  BY <1>2 DEF IsState
<1>4. Write(s, at, value).leaves = leaves /\ Write(s, at, value).ids = s.ids
  BY <1>2
<1> QED
  BY <1>3, <1>4 DEF Adds, leaves

\* What is redacted is reported.
LEMMA RedactIs ==
  ASSUME NEW s, IsState(s), NEW at, NEW value, NEW reason
  PROVE  /\ Adds(s, Redact(s, at, value, reason), at, Placeholder(value))
         /\ Redact(s, at, value, reason).ids = s.ids
         /\ IsReported(at, value, reason, Redact(s, at, value, reason).unclassified)
<1> DEFINE w == Write(s, at, Placeholder(value))
           report == [url |-> at.url, path |-> Generic(at.path), type |-> value.type, reason |-> reason]
<1>1. Adds(s, w, at, Placeholder(value)) /\ w.ids = s.ids
  BY WriteIs
<1>2. Redact(s, at, value, reason) = [w EXCEPT !.unclassified = @ \cup {report}]
  BY DEF Redact
<1> HIDE DEF w, report
<1>3. Redact(s, at, value, reason)
        = [ids |-> w.ids, keys |-> w.keys, names |-> w.names, leaves |-> w.leaves,
           unclassified |-> w.unclassified \cup {report}, renamed |-> w.renamed]
  BY <1>1, <1>2 DEF IsState, Adds
<1>4. Adds(s, Redact(s, at, value, reason), at, Placeholder(value))
  BY <1>1, <1>3 DEF IsState, Adds
<1>5. report \in Redact(s, at, value, reason).unclassified /\ Redact(s, at, value, reason).ids = s.ids
  BY <1>1, <1>3
<1> QED
  BY <1>4, <1>5 DEF report, IsReported

LEMMA RedactAdds ==
  ASSUME NEW s, IsState(s), NEW at, NEW value, NEW reason, NEW next, next = Redact(s, at, value, reason)
  PROVE  /\ Adds(s, next, at, Placeholder(value)) /\ next.ids = s.ids
         /\ IsReported(at, value, reason, next.unclassified)
BY RedactIs

JSONTypes == {"null", "bool", "int", "float", "str"}

\* What is redacted keeps its type, and null is null.
LEMMA PlaceholderIs ==
  /\ \A value : value.type \in JSONTypes => Placeholder(value).type = value.type
  /\ Placeholder(Null) = Null /\ Null.type = "null" /\ Empty.type = "str"
<1>1. Null.type = "null"
  BY DEF Null, Value
<1>2. Placeholder(Null) = Null
  BY <1>1 DEF Placeholder
<1>3. Empty.type = "str"
  <2>1. \A type, text : Value(type, text).type = type
    BY DEF Value
  <2> QED
    BY <2>1, Zenon DEF Empty
<1>4. ASSUME NEW value, value.type \in JSONTypes PROVE Placeholder(value).type = value.type
  BY <1>1, <1>4 DEF Placeholder, JSONTypes, Value
<1> QED
  BY <1>1, <1>2, <1>3, <1>4

\* An id is left when it says nothing, has its number, or is redacted when it is neither an
\* int nor a string.
IsId(value) == value \notin {Null, Empty} /\ value.type \in {"int", "str"}
IdMayBe(s, next, value, out) ==
  /\ \/ out = value /\ out \in {Null, Empty} /\ next.ids = s.ids
     \/ /\ out = Placeholder(value) /\ value \notin {Null, Empty} /\ value.type \notin {"int", "str"}
        /\ next.ids = s.ids
     \/ /\ IsId(value) /\ next.ids = Numbered(s.ids, value.text)
        /\ out = Value(value.type, NumberOf(next.ids, value.text))
  /\ out.type = value.type

LEMMA IdIs ==
  ASSUME NEW s, IsState(s), NEW at, NEW value, value.type \in JSONTypes
  PROVE  \E out : /\ Adds(s, Id(s, at, value), at, out) /\ IdMayBe(s, Id(s, at, value), value, out)
                  /\ Breaks(value, "id") =>
                       IsReported(at, value, "keep-constraint", Id(s, at, value).unclassified)
<1>0. Breaks(value, "id") <=> value \notin {Null, Empty} /\ value.type \notin {"int", "str"}
  BY DEF Breaks, Keeps, Kinds
<1> DEFINE ids == Numbered(s.ids, value.text)
<1>1. CASE value \in {Null, Empty}
  <2>1. Id(s, at, value) = Write(s, at, value)
    BY <1>1 DEF Id
  <2> QED
    BY <1>0, <1>1, <2>1, WriteIs DEF IdMayBe
<1>2. CASE value \notin {Null, Empty} /\ value.type \notin {"int", "str"}
  <2>1. Id(s, at, value) = Redact(s, at, value, "keep-constraint")
    BY <1>2 DEF Id
  <2>2. /\ Adds(s, Id(s, at, value), at, Placeholder(value)) /\ Id(s, at, value).ids = s.ids
        /\ IsReported(at, value, "keep-constraint", Id(s, at, value).unclassified)
    BY <2>1, RedactAdds
  <2> QED
    BY <1>2, <2>2, PlaceholderIs DEF IdMayBe
<1>3. CASE value \notin {Null, Empty} /\ value.type \in {"int", "str"}
  <2> DEFINE out == Value(value.type, NumberOf(ids, value.text))
             w == Write(s, at, out)
             next == Id(s, at, value)
  <2>1. out.type = value.type
    BY DEF Value
  <2>2. next = [w EXCEPT !.ids = ids]
    BY <1>3 DEF Id
  <2>3. Adds(s, w, at, out)
    BY WriteIs
  <2> HIDE DEF ids, w, out, next
  <2>4. next = [ids |-> ids, keys |-> w.keys, names |-> w.names, leaves |-> w.leaves,
                unclassified |-> w.unclassified, renamed |-> w.renamed]
    BY <2>2, <2>3 DEF Adds, IsState
  <2>5. Adds(s, next, at, out) /\ next.ids = ids
    BY <2>3, <2>4 DEF Adds, IsState
  <2>6. out = Value(value.type, NumberOf(next.ids, value.text)) /\ next.ids = Numbered(s.ids, value.text)
    BY <2>5 DEF out, ids
  <2>7. IdMayBe(s, next, value, out)
    BY <1>3, <2>1, <2>6 DEF IdMayBe, IsId
  <2> QED
    BY <1>0, <1>3, <2>5, <2>7 DEF next
<1> QED
  BY <1>1, <1>2, <1>3

\* A name is left when it is null, redacted, or a token of its kind.
LEMMA NameIs ==
  ASSUME NEW s, IsState(s), NEW at, NEW value, NEW kind
  PROVE  \E out : /\ Adds(s, Name(s, at, value, kind), at, out)
                  /\ Name(s, at, value, kind).ids = s.ids
                  /\ value # Null /\ value.type # "str" =>
                       IsReported(at, value, "keep-constraint", Name(s, at, value, kind).unclassified)
                  /\ IF value = Null THEN out = value
                     ELSE \/ out = Placeholder(value)
                          \/ \E k \in Nat : out = Value("str", "<name:" \o kind \o ":" \o ToString(k) \o ">")
<1> DEFINE names == Numbered(s.names[kind], value.text)
<1>1. CASE value = Null
  BY <1>1, WriteIs DEF Name
<1>2. CASE value # Null /\ value.type # "str"
  <2>1. Name(s, at, value, kind) = Redact(s, at, value, "keep-constraint")
    BY <1>2 DEF Name
  <2>2. /\ Adds(s, Name(s, at, value, kind), at, Placeholder(value)) /\ Name(s, at, value, kind).ids = s.ids
        /\ IsReported(at, value, "keep-constraint", Name(s, at, value, kind).unclassified)
    BY <2>1, RedactAdds
  <2> QED
    BY <1>2, <2>2
<1>3. CASE value # Null /\ value.type = "str"
  <2>1. PICK k \in Nat : NumberOf(names, value.text) = ToString(k)
    BY NumberOfIs
  <2> DEFINE out == Value("str", "<name:" \o kind \o ":" \o ToString(k) \o ">")
             w == Write(s, at, out)
             known == [w.names EXCEPT ![kind] = names]
  <2>2. Name(s, at, value, kind) = [w EXCEPT !.names = known]
    BY <1>3, <2>1 DEF Name
  <2>3. Adds(s, w, at, out) /\ w.ids = s.ids
    BY WriteIs
  <2> HIDE DEF known, w, out
  <2>4. Name(s, at, value, kind)
          = [ids |-> w.ids, keys |-> w.keys, names |-> known, leaves |-> w.leaves,
             unclassified |-> w.unclassified, renamed |-> w.renamed]
    BY <2>2, <2>3 DEF Adds, IsState
  <2>5. Adds(s, Name(s, at, value, kind), at, out) /\ Name(s, at, value, kind).ids = s.ids
    BY <2>3, <2>4 DEF Adds, IsState
  <2> QED
    BY <1>3, <2>5 DEF out
<1> QED
  BY <1>1, <1>2, <1>3

\* A data value: kept, redacted, or taken from a descriptor.
LEMMA DataIs ==
  ASSUME NEW one, NEW leaf, leaf.value.type \in JSONTypes
  PROVE  LET value == DataValue(one, leaf)
         IN /\ value = Placeholder(leaf.value) \/ DataMayBe(one, leaf, value)
            /\ leaf.value = Null => value = Null
<1> DEFINE value == leaf.value
           type == value.type
           meta == DescriptorSources[leaf.url].meta
           found == DescriptorsOf(one, leaf)
           at == Append(CHOOSE d \in found : TRUE, <<"min", 0>>)
           minimum == IF found = {} THEN Null ELSE Get(one, meta, at)
           enum == UNION {EnumValues(one, meta, d) : d \in found}
           out == DataValue(one, leaf)
<1>0. value = Null => out = Null
  <2>1. value = Null => type = "null"
    BY PlaceholderIs
  <2> QED
    BY <2>1 DEF DataValue
<1> SUFFICES out = Placeholder(value) \/ DataMayBe(one, leaf, out)
  BY <1>0
<1>1. CASE type \in {"null", "bool"}
  <2>1. out = value
    BY <1>1 DEF DataValue
  <2> QED
    BY <1>1, <2>1 DEF DataMayBe
<1>2. CASE type \in {"int", "float"}
  <2>1. out = IF minimum.type \notin {"int", "float"} THEN Placeholder(value)
              ELSE Value(type, IF type = "int" THEN Truncated(minimum.text) ELSE minimum.text)
    BY <1>2 DEF DataValue
  <2>2. CASE minimum.type \notin {"int", "float"}
    BY <2>1, <2>2
  <2>3. CASE minimum.type \in {"int", "float"}
    <3>1. minimum # Null /\ minimum = Get(one, meta, at)
      <4>1. Null.type = "null"
        BY DEF Null, Value
      <4> HIDE DEF at, meta, found
      <4> QED
        BY <2>3, <4>1
    <3> HIDE DEF at, minimum, meta
    <3>2. PICK i \in 1..Len(one.leaves) :
            one.leaves[i].url = meta /\ one.leaves[i].path = at /\ minimum = one.leaves[i].value
      BY <3>1, GetIs
    <3>3. out = Value(type, minimum.text) \/ out = Value(type, Truncated(minimum.text))
      BY <2>1, <2>3
    <3>4. \E descriptor : at = Keys(descriptor, "min")
      BY DEF at, Keys
    <3>5. i \in DOMAIN one.leaves /\ one.leaves[i] \in Range(one.leaves)
      BY DEF Range
    <3> QED
      BY <3>2, <3>3, <3>4, <3>5 DEF DataMayBe, meta
  <2> QED
    BY <2>2, <2>3
<1>3. CASE type = "str"
  <2>1. out = IF enum = {} THEN Placeholder(value)
              ELSE IF value \in enum /\ Passes(value, "enum") THEN value
              ELSE Value("str", "<not-in-enum>")
    BY <1>3 DEF DataValue
  <2>2. CASE out = Placeholder(value) \/ out = Value("str", "<not-in-enum>")
    BY <2>2 DEF DataMayBe
  <2>3. CASE out = value /\ value \in enum /\ Passes(value, "enum")
    BY <2>3 DEF DataMayBe
  <2> QED
    BY <2>1, <2>2, <2>3
<1> QED
  BY <1>1, <1>2, <1>3 DEF JSONTypes

\* An id keeps its type and has its number, unless it says nothing; there is no number for
\* anything else.
IsNumbered(one, leaf, value, ids, more) ==
  /\ more = ids \/ more = Numbered(ids, leaf.value.text)
  /\ HasRule(one, leaf, "id") =>
       /\ value.type = leaf.value.type
       /\ leaf.value \in {Null, Empty} => value = leaf.value
       /\ IsId(leaf.value) => /\ more = Numbered(ids, leaf.value.text)
                              /\ value.text = NumberOf(more, leaf.value.text)

\* What Node makes of a leaf: what a rule for its place allows, or, where there is no
\* rule or the value breaks it, a placeholder that is reported.
LEMMA LeafIs ==
  ASSUME NEW one, NEW state, IsState(state), NEW leaf, Len(leaf.path) \in Nat,
         leaf.value.type \in JSONTypes
  PROVE  \E at, value :
           LET next == Node(one, state, leaf)
               out == [url |-> at.url, path |-> at.path, value |-> value]
           IN /\ Adds(state, next, at, value) /\ Publishable(one, leaf, out)
              /\ Reported(one, leaf, out, next.unclassified) /\ IsTaken(one, leaf, value)
              /\ IsNumbered(one, leaf, value, state.ids, next.ids)
<1> DEFINE m == Len(leaf.path)
           path == leaf.path
           url == leaf.url
           at == Position(one, state, leaf)
           next == Node(one, state, leaf)
           complete == CompleteRules(at)
           action == Rules[at.url][Min(complete)].action
           given == [state EXCEPT !.keys = at.keys, !.renamed = at.renamed]
           Out(value) == [url |-> at.url, path |-> at.path, value |-> value]
<1>1. PICK f : IsWalk(one, state, leaf, f) /\ at = f[m]
  BY WalkExists
<1>2. \A n \in 0..m : IsAt(one, leaf, f, n)
  BY <1>1, WalkIs
<1>3. /\ at.url = url /\ Len(at.path) = m /\ IsSequence(at.path)
      /\ \A d \in 1..m : at.path[d] = OutStep(f, path, d)
      /\ at.rules = {k \in RulesOf(one, url) : Along(Rules[url][k].path, path, m)}
  <2>1. IsAt(one, leaf, f, m)
    BY <1>2
  <2> HIDE DEF at
  <2> QED
    BY <1>1, <2>1 DEF IsAt, IsSequence
<1>4. /\ IsState(given) /\ given.leaves = state.leaves /\ given.unclassified = state.unclassified
      /\ given.ids = state.ids
  <2> DEFINE keys == at.keys
             renamed == at.renamed
  <2>1. given = [state EXCEPT !.keys = keys, !.renamed = renamed]
    OBVIOUS
  <2> HIDE DEF keys, renamed, given
  <2>2. given = [ids |-> state.ids, keys |-> keys, names |-> state.names, leaves |-> state.leaves,
                 unclassified |-> state.unclassified, renamed |-> renamed]
    BY <2>1 DEF IsState
  <2> QED
    BY <2>2 DEF IsState
<1>5. next = IF complete = {} THEN Redact(given, at, leaf.value, "no-rule")
             ELSE CASE action \in Keeps -> IF Passes(leaf.value, action) THEN Write(given, at, leaf.value)
                                           ELSE Redact(given, at, leaf.value, "keep-constraint")
                    [] action = "id" -> Id(given, at, leaf.value)
                    [] action \in Kinds -> Name(given, at, leaf.value, action)
                    [] action = "value" -> Write(given, at, DataValue(one, leaf))
                    [] OTHER -> Write(given, at, Placeholder(leaf.value))
  BY DEF Node, Arrive, Leaf
<1> HIDE DEF at, next, given
<1>6. \A value : Adds(given, next, at, value) => Adds(state, next, at, value)
  BY <1>4 DEF Adds
<1>7. \A value : ValueMayBe(one, leaf, value) => Publishable(one, leaf, Out(value))
  <2> SUFFICES ASSUME NEW value, ValueMayBe(one, leaf, value) PROVE Publishable(one, leaf, Out(value))
    OBVIOUS
  <2>1. ASSUME NEW d \in 1..m PROVE KeyMayBe(one, leaf, d, at.path[d])
    <3>1. d - 1 \in 0..m
      OBVIOUS
    <3>2. KeyMayBe(one, leaf, d, OutStep(f, leaf.path, d))
      BY <1>2, <3>1, KeyIs
    <3> QED
      BY <1>3, <3>2
  <2> QED
    BY <1>3, <2>1 DEF Publishable
<1>8. complete = {k \in RulesOf(one, url) :
                    Len(Rules[url][k].path) = m /\ Along(Rules[url][k].path, path, m)}
  BY <1>3 DEF CompleteRules
<1>9. RuleOf(one, leaf) = IF complete = {} THEN {} ELSE {Rules[url][Min(complete)]}
  <2>1. complete = {k \in RulesOf(one, url) : LET keys == Rules[url][k].path
                                              IN Len(keys) = m /\ Along(keys, path, Len(keys))}
    BY <1>8
  <2> QED
    BY <2>1 DEF RuleOf
<1> HIDE DEF complete, action
<1>10. CASE complete = {}
  <2>1. next = Redact(given, at, leaf.value, "no-rule")
    BY <1>5, <1>10
  <2>2. /\ Adds(given, next, at, Placeholder(leaf.value)) /\ next.ids = given.ids
        /\ IsReported(at, leaf.value, "no-rule", next.unclassified)
    BY <1>4, <2>1, RedactIs
  <2>3. RuleOf(one, leaf) = {}
    BY <1>9, <1>10
  <2>4. ValueMayBe(one, leaf, Placeholder(leaf.value))
    BY <2>3, PlaceholderIs DEF ValueMayBe, Passing
  <2>5. Reported(one, leaf, Out(Placeholder(leaf.value)), next.unclassified)
    BY <2>2, <2>3 DEF Reported, IsReported
  <2>6. /\ IsNumbered(one, leaf, Placeholder(leaf.value), state.ids, next.ids)
        /\ IsTaken(one, leaf, Placeholder(leaf.value))
    BY <1>4, <2>2, <2>3 DEF IsNumbered, HasRule, IsTaken
  <2> QED
    BY <1>6, <1>7, <2>2, <2>4, <2>5, <2>6 DEF next
<1>11. CASE complete # {}
  <2> DEFINE rule == Rules[url][Min(complete)]
  <2>1. complete \subseteq Nat
    BY <1>8 DEF RulesOf
  <2>2. RuleOf(one, leaf) = {rule} /\ rule.action = action
    BY <1>3, <1>9, <1>11, <2>1, MinIs DEF action
  <2> HIDE DEF rule
  <2>3. ASSUME Breaks(leaf.value, action) => IsReported(at, leaf.value, "keep-constraint", next.unclassified)
        PROVE  \A value : Reported(one, leaf, Out(value), next.unclassified)
    BY <2>2, <2>3 DEF Reported, IsReported
  <2>4. ASSUME NEW value, Adds(given, next, at, value), ValueMayBe(one, leaf, value),
               IsNumbered(one, leaf, value, given.ids, next.ids),
               action = "value" => value = DataValue(one, leaf),
               Breaks(leaf.value, action) => IsReported(at, leaf.value, "keep-constraint", next.unclassified)
        PROVE  \E a, v : /\ Adds(state, next, a, v)
                         /\ Publishable(one, leaf, [url |-> a.url, path |-> a.path, value |-> v])
                         /\ Reported(one, leaf, [url |-> a.url, path |-> a.path, value |-> v], next.unclassified)
                         /\ IsTaken(one, leaf, v)
                         /\ IsNumbered(one, leaf, v, state.ids, next.ids)
    <3>1. Adds(state, next, at, value) /\ Publishable(one, leaf, Out(value))
      BY <1>6, <1>7, <2>4
    <3>2. Reported(one, leaf, Out(value), next.unclassified)
      BY <2>3, <2>4
    <3>3. IsTaken(one, leaf, value)
      BY <2>2, <2>4 DEF IsTaken, HasRule
    <3>4. IsNumbered(one, leaf, value, state.ids, next.ids)
      BY <1>4, <2>4
    <3> QED
      BY <3>1, <3>2, <3>3, <3>4
  <2>5. /\ Passing(one, leaf) <=> leaf.value = Null \/ (action \in Keeps /\ Passes(leaf.value, action))
        /\ HasRule(one, leaf, "id") <=> action = "id"
    BY <2>2 DEF Passing, HasRule
  <2>6. ASSUME action # "id", next.ids = given.ids, NEW value
        PROVE  IsNumbered(one, leaf, value, given.ids, next.ids)
    BY <2>5, <2>6 DEF IsNumbered
  <2>7. ~(action \in Keeps /\ Passes(leaf.value, action)) => ValueMayBe(one, leaf, Placeholder(leaf.value))
    BY <2>5, PlaceholderIs DEF ValueMayBe
  <2>8. CASE action \in Keeps
    <3>1. action # "id"
      BY <2>8 DEF Keeps
    <3>2. CASE Passes(leaf.value, action)
      <4>1. next = Write(given, at, leaf.value)
        BY <1>5, <1>11, <2>8, <3>2 DEF Keeps, Kinds
      <4>2. ValueMayBe(one, leaf, leaf.value)
        BY <2>5, <2>8, <3>2 DEF ValueMayBe
      <4>3. Adds(given, next, at, leaf.value) /\ next.ids = given.ids
        BY <1>4, <4>1, WriteIs
      <4>4. ~Breaks(leaf.value, action) /\ action # "value"
        BY <2>8, <3>2 DEF Breaks, Keeps, Kinds
      <4> QED
        BY <2>4, <2>6, <3>1, <4>2, <4>3, <4>4 DEF next
    <3>3. CASE ~Passes(leaf.value, action)
      <4>1. next = Redact(given, at, leaf.value, "keep-constraint")
        BY <1>5, <1>11, <2>8, <3>3 DEF Keeps, Kinds
      <4>2. /\ Adds(given, next, at, Placeholder(leaf.value)) /\ next.ids = given.ids
            /\ IsReported(at, leaf.value, "keep-constraint", next.unclassified)
        BY <1>4, <4>1, RedactAdds
      <4>3. action # "value"
        BY <2>8 DEF Keeps
      <4> QED
        BY <2>4, <2>6, <2>7, <3>1, <3>3, <4>2, <4>3 DEF next
    <3> QED
      BY <3>2, <3>3
  <2>9. CASE action = "id"
    <3>1. next = Id(given, at, leaf.value)
      BY <1>5, <1>11, <2>9 DEF Keeps, Kinds
    <3>2. PICK out : /\ Adds(given, next, at, out) /\ IdMayBe(given, next, leaf.value, out)
                     /\ Breaks(leaf.value, "id") =>
                          IsReported(at, leaf.value, "keep-constraint", next.unclassified)
      BY <1>4, <3>1, IdIs
    <3>3. Passing(one, leaf) <=> leaf.value = Null
      BY <2>5, <2>9 DEF Keeps
    <3>4. CASE out = leaf.value /\ out \in {Null, Empty} /\ next.ids = given.ids
      <4>1. ValueMayBe(one, leaf, out)
        BY <2>2, <2>9, <3>3, <3>4 DEF ValueMayBe
      <4>2. IsNumbered(one, leaf, out, given.ids, next.ids)
        BY <3>4 DEF IsNumbered, IsId
      <4> QED
        BY <2>4, <2>9, <3>2, <4>1, <4>2 DEF next
    <3>5. CASE /\ out = Placeholder(leaf.value) /\ leaf.value \notin {Null, Empty}
               /\ leaf.value.type \notin {"int", "str"} /\ next.ids = given.ids
      <4>1. ValueMayBe(one, leaf, out)
        BY <3>3, <3>5 DEF ValueMayBe
      <4>2. IsNumbered(one, leaf, out, given.ids, next.ids)
        BY <3>2, <3>5 DEF IsNumbered, IdMayBe, IsId
      <4> QED
        BY <2>4, <2>9, <3>2, <4>1, <4>2 DEF next
    <3>6. CASE /\ IsId(leaf.value) /\ next.ids = Numbered(given.ids, leaf.value.text)
               /\ out = Value(leaf.value.type, NumberOf(next.ids, leaf.value.text))
      <4>1. PICK k \in Nat : NumberOf(next.ids, leaf.value.text) = ToString(k)
        BY NumberOfIs
      <4>2. ValueMayBe(one, leaf, out)
        BY <2>2, <2>9, <3>3, <3>6, <4>1 DEF ValueMayBe, IsId
      <4>3. out.text = NumberOf(next.ids, leaf.value.text)
        BY <3>6 DEF Value
      <4>4. IsNumbered(one, leaf, out, given.ids, next.ids)
        BY <3>2, <3>6, <4>3 DEF IsNumbered, IdMayBe, IsId
      <4> QED
        BY <2>4, <2>9, <3>2, <4>2, <4>4 DEF next
    <3> QED
      BY <3>2, <3>4, <3>5, <3>6 DEF IdMayBe
  <2>10. CASE action \in Kinds
    <3>1. next = Name(given, at, leaf.value, action)
      BY <1>5, <1>11, <2>10 DEF Keeps, Kinds
    <3>2. PICK out : /\ Adds(given, next, at, out) /\ next.ids = given.ids
                     /\ leaf.value # Null /\ leaf.value.type # "str" =>
                          IsReported(at, leaf.value, "keep-constraint", next.unclassified)
                     /\ IF leaf.value = Null THEN out = leaf.value
                        ELSE \/ out = Placeholder(leaf.value)
                             \/ \E k \in Nat : out = Value("str", "<name:" \o action \o ":" \o ToString(k) \o ">")
      BY <1>4, <3>1, NameIs
    <3>3. action \notin Keeps \cup {"id", "value"}
      BY <2>10 DEF Kinds, Keeps
    <3>4. ValueMayBe(one, leaf, out)
      BY <2>2, <2>5, <2>10, <3>2, <3>3 DEF ValueMayBe
    <3>5. Breaks(leaf.value, action) => leaf.value # Null /\ leaf.value.type # "str"
      BY <3>3 DEF Breaks
    <3> QED
      BY <2>4, <2>6, <3>2, <3>3, <3>4, <3>5 DEF next
  <2>11. CASE action = "value"
    <3> DEFINE value == DataValue(one, leaf)
    <3>1. next = Write(given, at, value)
      BY <1>5, <1>11, <2>11 DEF Keeps, Kinds
    <3>2. /\ value = Placeholder(leaf.value) \/ DataMayBe(one, leaf, value)
          /\ leaf.value = Null => value = Null
      BY DataIs
    <3> HIDE DEF value
    <3>3. ValueMayBe(one, leaf, value)
      BY <2>2, <2>5, <2>11, <3>2 DEF ValueMayBe, Keeps
    <3>4. Adds(given, next, at, value) /\ next.ids = given.ids
      BY <1>4, <3>1, WriteIs
    <3>5. ~Breaks(leaf.value, action)
      BY <2>11 DEF Breaks, Keeps, Kinds
    <3> QED
      BY <2>4, <2>6, <2>11, <3>3, <3>4, <3>5 DEF next, value
  <2>12. CASE action \notin Keeps \cup Kinds \cup {"id", "value"}
    <3>1. next = Write(given, at, Placeholder(leaf.value))
      BY <1>5, <1>11, <2>12
    <3>2. Adds(given, next, at, Placeholder(leaf.value)) /\ next.ids = given.ids
      BY <1>4, <3>1, WriteIs
    <3>3. ~Breaks(leaf.value, action)
      BY <2>12 DEF Breaks
    <3> QED
      BY <2>4, <2>6, <2>7, <2>12, <3>2, <3>3 DEF next
  <2> QED
    BY <2>8, <2>9, <2>10, <2>11, <2>12
<1> QED
  BY <1>10, <1>11

-----------------------------------------------------------------------------
(* The whole capture                                                       *)

\* The number of an id is that of the dict of ids.
KeepsNumber(one, leaf, out, ids) ==
  HasRule(one, leaf, "id") =>
    /\ out.value.type = leaf.value.type
    /\ leaf.value \in {Null, Empty} => out.value = leaf.value
    /\ IsId(leaf.value) => Numbers(ids, leaf.value.text, out.value.text)

\* What has become of a leaf.
IsDone(one, leaf, out, ids, unclassified) ==
  /\ Publishable(one, leaf, out) /\ Reported(one, leaf, out, unclassified)
  /\ IsTaken(one, leaf, out.value) /\ KeepsNumber(one, leaf, out, ids)

\* The first leaves of the capture, and only they, are published, in their order.
Confined(one, s, count) ==
  /\ IsState(s) /\ IsSequence(s.leaves) /\ AreIds(s.ids)
  /\ Len(s.leaves) = count
  /\ \A i \in 1..count : IsDone(one, one.leaves[i], s.leaves[i], s.ids, s.unclassified)

\* The leaves of a capture, as BoxesAreCaptures has them.
AreLeaves(one) ==
  /\ Len(one.leaves) \in Nat /\ DOMAIN one.leaves = 1..Len(one.leaves)
  /\ \A j \in 1..Len(one.leaves) :
       Len(one.leaves[j].path) \in Nat /\ one.leaves[j].value.type \in JSONTypes

\* As BoxesAreListed has them.
AreListed(one) ==
  \A m, n \in 1..Len(one.leaves) : m <= n =>
    \E i, j \in 1..Len(Order) : i <= j /\ one.leaves[m].url = Order[i] /\ one.leaves[n].url = Order[j]

\* One more leaf done with.
LEMMA LeafStep ==
  ASSUME NEW one, AreLeaves(one), NEW s, NEW n \in Nat, Confined(one, s, n), n + 1 \in 1..Len(one.leaves)
  PROVE  Confined(one, Node(one, s, one.leaves[n + 1]), n + 1)
<1> DEFINE leaf == one.leaves[n + 1]
           next == Node(one, s, leaf)
<1>1. IsState(s) /\ Len(leaf.path) \in Nat /\ leaf.value.type \in JSONTypes
  BY DEF Confined, AreLeaves
<1> HIDE DEF leaf, next
<1>2. PICK at, value :
        LET out == [url |-> at.url, path |-> at.path, value |-> value]
        IN /\ Adds(s, next, at, value) /\ Publishable(one, leaf, out)
           /\ Reported(one, leaf, out, next.unclassified) /\ IsTaken(one, leaf, value)
           /\ IsNumbered(one, leaf, value, s.ids, next.ids)
  BY <1>1, LeafIs DEF next
<1> DEFINE out == [url |-> at.url, path |-> at.path, value |-> value]
<1>3. /\ IsState(next) /\ next.leaves = Append(s.leaves, out)
      /\ s.unclassified \subseteq next.unclassified
      /\ Publishable(one, leaf, out) /\ Reported(one, leaf, out, next.unclassified)
      /\ IsTaken(one, leaf, out.value) /\ IsNumbered(one, leaf, out.value, s.ids, next.ids)
  BY <1>2 DEF Adds
<1> HIDE DEF out
<1>4. IsSequence(s.leaves) /\ AreIds(s.ids) /\ Len(s.leaves) = n /\ n + 1 \in Nat /\ (n + 1) - 1 = n
  BY DEF Confined
<1>5. /\ IsSequence(next.leaves) /\ Len(next.leaves) = n + 1 /\ next.leaves[n + 1] = out
      /\ \A i \in 1..n : next.leaves[i] = s.leaves[i]
  <2> DEFINE k == n + 1
             more == Append(s.leaves, out)
  <2>1. k \in Nat /\ Len(s.leaves) = k - 1 /\ k - 1 = n
    BY <1>4
  <2> HIDE DEF k
  <2>2. IsSequence(more) /\ Len(more) = k /\ more[k] = out /\ \A i \in 1..(k - 1) : more[i] = s.leaves[i]
    BY <1>4, <2>1, AppendIs
  <2> HIDE DEF more
  <2>3. next.leaves = more
    BY <1>3 DEF more
  <2> QED
    BY <2>1, <2>2, <2>3 DEF k
<1>6. AreIds(next.ids) /\ \A y, text : Numbers(s.ids, y, text) => Numbers(next.ids, y, text)
  BY <1>3, <1>4, NumberedIs DEF IsNumbered
<1>7. KeepsNumber(one, leaf, out, next.ids)
  BY <1>3, <1>4, NumberedIs DEF IsNumbered, KeepsNumber
<1>8. ASSUME NEW i \in 1..n PROVE IsDone(one, one.leaves[i], next.leaves[i], next.ids, next.unclassified)
  <2>1. IsDone(one, one.leaves[i], s.leaves[i], s.ids, s.unclassified)
    BY DEF Confined
  <2> QED
    BY <1>3, <1>5, <1>6, <2>1 DEF IsDone, Reported, IsReported, KeepsNumber
<1>9. IsDone(one, one.leaves[n + 1], next.leaves[n + 1], next.ids, next.unclassified)
  BY <1>3, <1>5, <1>7 DEF IsDone, leaf
<1>10. \A i \in 1..(n + 1) : i \in 1..n \/ i = n + 1
  OBVIOUS
<1>11. \A i \in 1..(n + 1) : IsDone(one, one.leaves[i], next.leaves[i], next.ids, next.unclassified)
  BY <1>8, <1>9, <1>10
<1> QED
  BY <1>3, <1>5, <1>6, <1>11 DEF Confined, next, leaf

\* The leaves of the first endpoints, and of the next one the first n.
Reached(one, k, n) ==
  {j \in 1..Len(one.leaves) : \/ \E i \in 1..k : one.leaves[j].url = Order[i]
                              \/ j <= n /\ one.leaves[j].url = Order[k + 1]}
Reaches(one, s, k, n) == \E count \in Nat : Confined(one, s, count) /\ Reached(one, k, n) = 1..count

\* An endpoint is done with all the leaves of its body.
LEMMA EndpointStep ==
  ASSUME NEW one, AreLeaves(one), AreListed(one), NEW k \in Nat, k + 1 \in 1..Len(Order),
         NEW s, Reaches(one, s, k, 0)
  PROVE  Reaches(one, Endpoint(one, s, Order[k + 1]), k + 1, 0)
<1> DEFINE m == Len(one.leaves)
           url == Order[k + 1]
<1>1. m \in Nat
  BY DEF AreLeaves
<1>2. PICK f : IsPass(one, s, url, f) /\ Endpoint(one, s, url) = f[m]
  BY <1>1, PassExists
<1>3. Len(Order) \in Nat /\ \A i \in 1..Len(Order) : Order[i] = url => i = k + 1
  BY CatalogHasRules DEF Order
<1> HIDE DEF m, url
<1> DEFINE T == {n \in Nat : n <= m => Reaches(one, f[n], k, n)}
<1>4. 0 \in T
  BY <1>2 DEF IsPass
<1>5. ASSUME NEW n \in Nat, n \in T PROVE n + 1 \in T
  <2> SUFFICES ASSUME n + 1 <= m PROVE Reaches(one, f[n + 1], k, n + 1)
    OBVIOUS
  <2>1. n + 1 \in 1..m /\ (n + 1) - 1 = n
    BY <1>1
  <2>2. PICK count \in Nat : Confined(one, f[n], count) /\ Reached(one, k, n) = 1..count
    BY <1>1, <1>5 DEF Reaches
  <2>3. CASE one.leaves[n + 1].url = url
    <3>1. f[n + 1] = Node(one, f[n], one.leaves[n + 1])
      BY <1>2, <2>1, <2>3 DEF IsPass, m
    <3>2. n + 1 \notin Reached(one, k, n)
      BY <1>3, <2>3 DEF Reached, url
    <3>3. ASSUME NEW j \in 1..n PROVE j \in Reached(one, k, n)
      <4>1. j \in 1..m /\ j <= n + 1 /\ j <= n
        BY <1>1, <2>1
      <4>2. PICK h, i \in 1..Len(Order) :
              h <= i /\ one.leaves[j].url = Order[h] /\ one.leaves[n + 1].url = Order[i]
        BY <2>1, <4>1 DEF AreListed, m
      <4>3. h \in 1..k \/ h = k + 1
        BY <1>3, <2>3, <4>2
      <4> QED
        BY <4>1, <4>2, <4>3 DEF Reached, m
    <3>4. count = n
      <4>1. count <= n
        BY <2>2, <3>2
      <4>2. n = 0 \/ n \in 1..n
        OBVIOUS
      <4> QED
        BY <2>2, <3>3, <4>1, <4>2
    <3>5. Reached(one, k, n + 1) = Reached(one, k, n) \cup {n + 1}
      BY <2>1, <2>3 DEF Reached, m, url
    <3>6. Reached(one, k, n + 1) = 1..(n + 1)
      <4>1. 1..(n + 1) = (1..n) \cup {n + 1}
        OBVIOUS
      <4> QED
        BY <2>2, <3>4, <3>5, <4>1
    <3>7. Confined(one, Node(one, f[n], one.leaves[n + 1]), n + 1)
      BY <2>1, <2>2, <3>4, LeafStep DEF m
    <3> QED
      BY <3>1, <3>6, <3>7 DEF Reaches
  <2>4. CASE one.leaves[n + 1].url # url
    <3>1. f[n + 1] = f[n]
      BY <1>2, <2>1, <2>4 DEF IsPass, m
    <3>2. Reached(one, k, n + 1) = Reached(one, k, n)
      BY <2>1, <2>4 DEF Reached, url
    <3> QED
      BY <2>2, <3>1, <3>2 DEF Reaches
  <2> QED
    BY <2>3, <2>4
<1> HIDE DEF T
<1>6. m \in T
  BY <1>1, <1>4, <1>5, SetInduction
<1>7. Reaches(one, f[m], k, m)
  BY <1>1, <1>6 DEF T
<1>8. Reached(one, k, m) = Reached(one, k + 1, 0)
  <2>1. 1..(k + 1) = (1..k) \cup {k + 1} /\ \A j \in 1..m : j <= m /\ ~(j <= 0)
    BY <1>1
  <2> QED
    BY <2>1 DEF Reached, m
<1> QED
  BY <1>2, <1>7, <1>8 DEF Reaches, url

\* The states of the anonymizer, after each endpoint.
Start ==
  [ids |-> <<>>, keys |-> <<>>, names |-> [kind \in Kinds |-> <<>>],
   leaves |-> <<>>, unclassified |-> {}, renamed |-> {}]
IsRun(one, f) ==
  /\ f[0] = Start
  /\ \A n \in 1..Len(Order) : f[n] = Endpoint(one, f[n - 1], Order[n])

\* The run exists, endpoint after endpoint.
LEMMA RunExists ==
  ASSUME NEW one
  PROVE  \E f : IsRun(one, f) /\ Anonymized(one) = Result(one, f[Len(Order)])
<1> DEFINE m == Len(Order)
           base == Start
           next(x, n) == Endpoint(one, x, Order[n])
           Def(f, k) == f = [n \in 0..k |-> IF n = 0 THEN base ELSE next(f[n - 1], n)]
           S == {k \in Nat : \E f : Def(f, k)}
           so == CHOOSE f : Def(f, m)
<1>1. Anonymized(one) = Result(one, so[m])
  BY DEF Anonymized, Start
<1> HIDE DEF m, base, next
<1>2. 0 \in S
  <2> DEFINE f == [n \in 0..0 |-> base]
  <2>1. Def(f, 0)
    OBVIOUS
  <2> HIDE DEF Def, f
  <2> QED
    BY <2>1
<1>3. ASSUME NEW k \in Nat, k \in S PROVE k + 1 \in S
  <2>1. PICK f : Def(f, k)
    BY <1>3
  <2> DEFINE g == [n \in 0..(k + 1) |-> IF n = k + 1 THEN next(f[k], k + 1) ELSE f[n]]
  <2>2. ASSUME NEW n \in 0..(k + 1) PROVE g[n] = IF n = 0 THEN base ELSE next(g[n - 1], n)
    <3>1. CASE n = 0
      BY <2>1, <3>1
    <3>2. CASE n = k + 1
      <4>1. n # 0 /\ n - 1 = k /\ k \in 0..(k + 1) /\ k # k + 1
        BY <3>2
      <4> QED
        BY <3>2, <4>1
    <3>3. CASE n # 0 /\ n # k + 1
      <4>1. n \in 0..k /\ n - 1 \in 0..(k + 1) /\ n - 1 # k + 1
        BY <3>3
      <4> QED
        BY <2>1, <3>3, <4>1
    <3> QED
      BY <3>1, <3>2, <3>3
  <2>3. Def(g, k + 1)
    BY <2>2
  <2> HIDE DEF Def, g
  <2> QED
    BY <2>3
<1> HIDE DEF S
<1>4. m \in Nat /\ m \in S
  <2>1. m \in Nat
    BY DEF m, Order
  <2> QED
    BY <1>2, <1>3, <2>1, SetInduction
<1>5. Def(so, m)
  <2>1. \E f : Def(f, m)
    BY <1>4 DEF S
  <2> HIDE DEF Def
  <2> QED
    BY <2>1
<1> HIDE DEF so
<1>6. so[0] = base /\ \A n \in 1..m : so[n] = next(so[n - 1], n)
  <2>1. 0 \in 0..m /\ \A n \in 1..m : n \in 0..m /\ n # 0
    BY <1>4
  <2> QED
    BY <1>5, <2>1
<1> QED
  BY <1>1, <1>6 DEF IsRun, m, base, next

\* What an anonymized capture is made of: a leaf for each leaf of the capture, in its place.
IsConfined(one, out) ==
  /\ out.ok = one.ok /\ IsSequence(out.leaves) /\ Len(out.leaves) = Len(one.leaves)
  /\ \E ids : /\ AreIds(ids)
              /\ \A i \in 1..Len(one.leaves) :
                   IsDone(one, one.leaves[i], out.leaves[i], ids, out.unclassified)

\* Every endpoint of the policy is done with.
LEMMA AnonymizedIs ==
  ASSUME NEW one, AreLeaves(one), AreListed(one)
  PROVE  IsConfined(one, Anonymized(one))
<1> DEFINE m == Len(Order)
<1>1. PICK f : IsRun(one, f) /\ Anonymized(one) = Result(one, f[m])
  BY RunExists
<1>2. m \in Nat
  BY DEF Order
<1> HIDE DEF m
<1> DEFINE T == {n \in Nat : n <= m => Reaches(one, f[n], n, 0)}
<1>3. 0 \in T
  <2>1. f[0] = Start /\ Reached(one, 0, 0) = 1..0
    BY <1>1 DEF IsRun, Reached
  <2>2. IsState(Start) /\ Start.leaves = <<>> /\ Start.ids = <<>>
    BY DEF Start, IsState
  <2>3. IsSequence(Start.leaves) /\ IsSequence(Start.ids) /\ Len(Start.leaves) = 0 /\ Len(Start.ids) = 0
    BY <2>2 DEF IsSequence
  <2>4. Confined(one, Start, 0)
    BY <2>2, <2>3 DEF Confined, AreIds
  <2>5. Reaches(one, f[0], 0, 0)
    BY <2>1, <2>4 DEF Reaches
  <2> QED
    BY <2>5
<1>4. ASSUME NEW n \in Nat, n \in T PROVE n + 1 \in T
  <2> SUFFICES ASSUME n + 1 <= m PROVE Reaches(one, f[n + 1], n + 1, 0)
    OBVIOUS
  <2>1. n + 1 \in 1..m /\ (n + 1) - 1 = n
    BY <1>2
  <2>2. Reaches(one, f[n], n, 0)
    BY <1>2, <1>4
  <2>3. f[n + 1] = Endpoint(one, f[n], Order[n + 1])
    BY <1>1, <2>1 DEF IsRun, m
  <2> QED
    BY <2>1, <2>2, <2>3, EndpointStep DEF m
<1> HIDE DEF T
<1>5. m \in T
  BY <1>2, <1>3, <1>4, SetInduction
<1>6. PICK count \in Nat : Confined(one, f[m], count) /\ Reached(one, m, 0) = 1..count
  BY <1>2, <1>5 DEF T, Reaches
<1>7. count = Len(one.leaves)
  <2> DEFINE all == Len(one.leaves)
  <2>1. all \in Nat
    BY DEF AreLeaves
  <2>2. ASSUME NEW j \in 1..all PROVE j \in Reached(one, m, 0)
    <3>1. j <= j
      OBVIOUS
    <3>2. \E i \in 1..m : one.leaves[j].url = Order[i]
      BY <3>1 DEF AreListed, m
    <3> QED
      BY <3>2 DEF Reached
  <2>3. Reached(one, m, 0) \subseteq 1..all
    BY DEF Reached
  <2>4. (all = 0 \/ all \in 1..all) /\ (count = 0 \/ count \in 1..count)
    BY <2>1
  <2> HIDE DEF all
  <2> QED
    BY <1>6, <2>1, <2>2, <2>3, <2>4 DEF all
<1>8. /\ Anonymized(one).leaves = f[m].leaves /\ Anonymized(one).unclassified = f[m].unclassified
      /\ Anonymized(one).ok = one.ok
  BY <1>1 DEF Result
<1> QED
  BY <1>6, <1>7, <1>8 DEF IsConfined, Confined

-----------------------------------------------------------------------------
\* What is published of a capture has a leaf for each of its leaves, in its place, as the
\* rules say: a value that passes stays, any other is a placeholder or a number, a public
\* key stays, any other is a number, the ids are numbered one for one, a value of the data
\* is taken from its descriptor, and a leaf that no rule is for, or that breaks its rule,
\* is in the report.
OnlyByTheRules == phase # "fetched" => IsConfined(box, capture)

ConfinedInv ==
  /\ box \in Boxes \cup LaterBoxes
  /\ phase # "fetched" => capture = Anonymized(box)

\* The captures are those the lemmas are about.
LEMMA BoxesHaveLeaves == ASSUME NEW one \in Boxes \cup LaterBoxes PROVE AreLeaves(one) /\ AreListed(one)
<1> DEFINE Leaves == [url : STRING, path : Seq(STRING \X Nat), value : [type : JSONTypes, text : STRING]]
<1>1. one.leaves \in Seq(Leaves)
  BY BoxesAreCaptures DEF JSONTypes
<1>2. \A leaf \in Leaves : Len(leaf.path) \in Nat /\ leaf.value.type \in JSONTypes
  OBVIOUS
<1> HIDE DEF Leaves
<1>3. AreLeaves(one)
  BY <1>1, <1>2 DEF AreLeaves
<1>4. AreListed(one)
  <2>1. DOMAIN one.leaves = 1..Len(one.leaves)
    BY <1>3 DEF AreLeaves
  <2>2. \A m, n \in DOMAIN one.leaves : m <= n =>
          \E i, j \in 1..Len(Order) : i <= j /\ one.leaves[m].url = Order[i] /\ one.leaves[n].url = Order[j]
    BY BoxesAreListed
  <2> SUFFICES ASSUME NEW m \in 1..Len(one.leaves), NEW n \in 1..Len(one.leaves), m <= n
               PROVE  \E i, j \in 1..Len(Order) :
                        i <= j /\ one.leaves[m].url = Order[i] /\ one.leaves[n].url = Order[j]
    BY DEF AreListed
  <2>3. m \in DOMAIN one.leaves /\ n \in DOMAIN one.leaves
    BY <2>1
  <2> QED
    BY <2>2, <2>3, Zenon
<1> QED
  BY <1>3, <1>4

\* What is published is the fetched capture, anonymized.
LEMMA CaptureIsAnonymized == Spec => []ConfinedInv
<1>1. Init => ConfinedInv
  BY DEF Init, ConfinedInv
<1>2. ConfinedInv /\ [Next]_vars => ConfinedInv'
  <2> SUFFICES ASSUME ConfinedInv, [Next]_vars PROVE ConfinedInv'
    OBVIOUS
  <2>1. CASE Publishes
    BY <2>1 DEF Publishes, ConfinedInv
  <2>2. CASE Invalid \/ Refuses \/ Writes
    BY <2>2 DEF Invalid, Refuses, Writes, Exits, ConfinedInv
  <2>3. CASE Fetches
    BY <2>3 DEF Fetches, ConfinedInv
  <2>4. CASE UNCHANGED vars
    BY <2>4 DEF vars, ConfinedInv
  <2> QED
    BY <2>1, <2>2, <2>3, <2>4 DEF Next
<1> QED
  BY <1>1, <1>2, PTL DEF Spec

\* Whatever the captures, no value and no key is published that the rules do not name,
\* every leaf of the endpoints is, and the report has all that is refused: "any value its
\* rules do not know is redacted".
THEOREM NothingElseIsPublished == Spec => []OnlyByTheRules
<1>1. ConfinedInv => OnlyByTheRules
  BY BoxesHaveLeaves, AnonymizedIs DEF ConfinedInv, OnlyByTheRules
<1> QED
  BY <1>1, CaptureIsAnonymized, PTL

-----------------------------------------------------------------------------
(* Two captures that differ in their secrets alone                         *)

\* Renaming is one to one, and leaves alone what has a meaning of its own.
LEMMA RenamedIs ==
  /\ \A x, y : Renamed(x) = Renamed(y) => x = y
  /\ \A x, z : z \in {Null.text, Empty.text, Item} => (Renamed(x) = z <=> x = z)
  /\ \A x : Indistinct(x, Renamed(x))
<1> DEFINE apart == {Null.text, Empty.text, Item}
<1>1. /\ \A text \in DOMAIN Renaming : Renaming[text] \in DOMAIN Renaming /\ Indistinct(text, Renaming[text])
      /\ \A one, other \in DOMAIN Renaming : Renaming[one] = Renaming[other] => one = other
      /\ \A z \in apart : z \notin DOMAIN Renaming
  BY RenamingIsBlind
<1>2. \A x : Indistinct(x, x)
  BY DEF Indistinct
<1> HIDE DEF apart
<1>3. \A x, y : Renamed(x) = Renamed(y) => x = y
  BY <1>1 DEF Renamed
<1>4. \A x, z : z \in apart => (Renamed(x) = z <=> x = z)
  BY <1>1 DEF Renamed
<1>5. \A x : Indistinct(x, Renamed(x))
  BY <1>1, <1>2 DEF Renamed
<1> QED
  BY <1>3, <1>4, <1>5 DEF apart

\* A key and what it is renamed to match the same segments of the policy.
LEMMA MatchesAlike ==
  ASSUME NEW url \in Range(Order), NEW keys \in PathsAt(url), NEW n \in 1..Len(keys), NEW x
  PROVE  /\ SegmentMatches(keys[n], x) <=> SegmentMatches(keys[n], Renamed(x))
         /\ Matching(keys[n], x) <=> Matching(keys[n], Renamed(x))
<1>1. Indistinct(x, Renamed(x)) /\ (Renamed(x) = Item <=> x = Item)
  BY RenamedIs
<1>2. SegmentMatches(keys[n], x) <=> SegmentMatches(keys[n], Renamed(x))
  BY <1>1 DEF Indistinct
<1> QED
  BY <1>1, <1>2 DEF Matching

\* The path of a leaf and the one it has where the keys that are not public are renamed.
ArePathsAlike(one, a, b) ==
  /\ b.url = a.url /\ b.url \in Range(Order)
  /\ Len(a.path) \in Nat /\ Len(b.path) = Len(a.path)
  /\ \A d \in 1..Len(a.path) :
       /\ b.path[d][2] = a.path[d][2]
       /\ b.path[d][1] = IF PublicKey(one, a, d) THEN a.path[d][1] ELSE Renamed(a.path[d][1])

\* They are along the same paths of the policy.
LEMMA AlongAlike ==
  ASSUME NEW one, NEW a, NEW b, ArePathsAlike(one, a, b),
         NEW keys \in PathsAt(a.url), NEW depth \in 0..Len(a.path)
  PROVE  Along(keys, a.path, depth) <=> Along(keys, b.path, depth)
<1>1. ASSUME NEW d \in 1..depth
      PROVE  /\ d <= Len(keys) /\ Matching(keys[d], a.path[d][1])
             <=> d <= Len(keys) /\ Matching(keys[d], b.path[d][1])
  <2>1. d \in 1..Len(a.path) /\ a.url \in Range(Order)
    BY DEF ArePathsAlike
  <2>2. b.path[d][1] = a.path[d][1] \/ b.path[d][1] = Renamed(a.path[d][1])
    BY <2>1 DEF ArePathsAlike
  <2>3. d <= Len(keys) => (Matching(keys[d], a.path[d][1]) <=> Matching(keys[d], Renamed(a.path[d][1])))
    <3> SUFFICES ASSUME d <= Len(keys)
                 PROVE  Matching(keys[d], a.path[d][1]) <=> Matching(keys[d], Renamed(a.path[d][1]))
      OBVIOUS
    <3>1. d \in 1..Len(keys)
      BY <2>1
    <3> QED
      BY <2>1, <3>1, MatchesAlike
  <2> QED
    BY <2>2, <2>3
<1> QED
  BY <1>1 DEF Along

-----------------------------------------------------------------------------
(* What is numbered alike                                                  *)

\* Two dicts whose keys are renamed one for one.
AreRenamed(p, q) ==
  /\ (\E S : p \in Seq(S)) /\ (\E S : q \in Seq(S))
  /\ Len(q) = Len(p) /\ \A i \in 1..Len(p) : q[i] = Renamed(p[i])

\* They number a text, and what it is renamed to, alike.
LEMMA NumberedAlike ==
  ASSUME NEW p, NEW q, AreRenamed(p, q), NEW x
  PROVE  /\ NumberOf(p, x) = NumberOf(q, Renamed(x))
         /\ Contains(p, x) <=> Contains(q, Renamed(x))
<1>1. Len(q) = Len(p) /\ \A i \in 1..Len(p) : q[i] = Renamed(x) <=> p[i] = x
  BY RenamedIs DEF AreRenamed
<1>2. {i \in 1..Len(p) : p[i] = x} = {i \in 1..Len(q) : q[i] = Renamed(x)}
  BY <1>1
<1>3. SelectInSeq(p, LAMBDA y : y = x) = SelectInSeq(q, LAMBDA y : y = Renamed(x))
  BY <1>2 DEF SelectInSeq
<1> QED
  BY <1>1, <1>3 DEF NumberOf, Contains

\* And they stay so when it is added.
LEMMA AddedAlike ==
  ASSUME NEW p, NEW q, AreRenamed(p, q), NEW x
  PROVE  LET more == Numbered(p, x)
             others == Numbered(q, Renamed(x))
         IN AreRenamed(more, others) /\ NumberOf(more, x) = NumberOf(others, Renamed(x))
<1> DEFINE more == Numbered(p, x)
           others == Numbered(q, Renamed(x))
<1>1. AreRenamed(more, others)
  <2>1. CASE Contains(p, x)
    BY <2>1, NumberedAlike DEF Numbered
  <2>2. CASE ~Contains(p, x)
    <3>1. more = Append(p, x) /\ others = Append(q, Renamed(x))
      BY <2>2, NumberedAlike DEF Numbered
    <3> HIDE DEF more, others
    <3>2. PICK S, T : p \in Seq(S) /\ q \in Seq(T)
      BY DEF AreRenamed
    <3>3. p \in Seq(S \cup {x}) /\ q \in Seq(T \cup {Renamed(x)}) /\ Len(q) = Len(p) /\ Len(p) \in Nat
      BY <3>2, SeqMonotonic DEF AreRenamed
    <3>4. /\ more \in Seq(S \cup {x}) /\ Len(more) = Len(p) + 1 /\ more[Len(p) + 1] = x
          /\ \A i \in 1..Len(p) : more[i] = p[i]
      BY <3>1, <3>3, AppendProperties
    <3>5. /\ others \in Seq(T \cup {Renamed(x)}) /\ Len(others) = Len(p) + 1
          /\ others[Len(p) + 1] = Renamed(x) /\ \A i \in 1..Len(p) : others[i] = q[i]
      BY <3>1, <3>3, AppendProperties
    <3>6. ASSUME NEW i \in 1..Len(more) PROVE others[i] = Renamed(more[i])
      <4>1. i \in 1..Len(p) \/ i = Len(p) + 1
        BY <3>3, <3>4
      <4> QED
        BY <3>4, <3>5, <4>1 DEF AreRenamed
    <3> QED
      BY <3>4, <3>5, <3>6 DEF AreRenamed
  <2> QED
    BY <2>1, <2>2
<1> HIDE DEF more, others
<1> QED
  BY <1>1, NumberedAlike DEF more, others

-----------------------------------------------------------------------------
(* Walks alike                                                             *)

\* Two positions that know the same, of keys renamed one for one.
ArePlacesAlike(at, bt) ==
  /\ bt.url = at.url /\ bt.path = at.path /\ bt.rules = at.rules /\ bt.hidden = at.hidden
  /\ bt.opaque = at.opaque /\ bt.renamed = at.renamed /\ AreRenamed(at.keys, bt.keys)

\* What a position knows is of the policy.
IsOfPolicy(one, at) ==
  /\ at.url \in Range(Order) /\ at.rules \subseteq RulesOf(one, at.url)
  /\ at.hidden \subseteq OpaqueOf(one, at.url) /\ Len(at.path) \in Nat

\* The rules go on through a key as through what it is renamed to.
LEMMA FollowsAlike ==
  ASSUME NEW url \in Range(Order), NEW keys \in PathsAt(url), NEW depth \in Nat, NEW key
  PROVE  Follows(keys, depth, key) <=> Follows(keys, depth, Renamed(key))
<1>1. depth < Len(keys) => depth + 1 \in 1..Len(keys)
  OBVIOUS
<1>2. depth < Len(keys) => (SegmentMatches(keys[depth + 1], key)
                              <=> SegmentMatches(keys[depth + 1], Renamed(key)))
  BY <1>1, MatchesAlike
<1>3. Renamed(key) = Item <=> key = Item
  BY RenamedIs
<1> QED
  BY <1>2, <1>3 DEF Follows

\* They keep both or none.
LEMMA KeptAlike ==
  ASSUME NEW one, NEW at, IsOfPolicy(one, at), NEW bt, ArePlacesAlike(at, bt), NEW key
  PROVE  /\ KeyKept(bt, Renamed(key)) <=> KeyKept(at, key)
         /\ KeyKept(bt, key) <=> KeyKept(at, key)
<1> DEFINE depth == Len(at.path)
           url == at.url
<1>1. depth \in Nat /\ url \in Range(Order)
  BY DEF IsOfPolicy
<1>2. ASSUME NEW n \in at.rules PROVE Rules[url][n].path \in PathsAt(url)
  BY DEF IsOfPolicy, RulesOf, PathsAt, RulesAt
<1>3. ASSUME NEW n \in at.rules, depth < Len(Rules[url][n].path)
      PROVE  SegmentMatches(Rules[url][n].path[depth + 1], key)
               <=> SegmentMatches(Rules[url][n].path[depth + 1], Renamed(key))
  <2> DEFINE keys == Rules[url][n].path
  <2>1. keys \in PathsAt(url) /\ depth < Len(keys)
    BY <1>2, <1>3
  <2> HIDE DEF keys, depth, url
  <2>2. depth + 1 \in 1..Len(keys)
    BY <1>1, <2>1
  <2>3. SegmentMatches(keys[depth + 1], key) <=> SegmentMatches(keys[depth + 1], Renamed(key))
    BY <1>1, <2>1, <2>2, MatchesAlike
  <2> QED
    BY <2>3 DEF keys
<1>4. Declared(at, key) <=> Declared(at, Renamed(key))
  BY <1>3 DEF Declared
<1>5. \A x : Declared(bt, x) <=> Declared(at, x)
  BY DEF Declared, ArePlacesAlike
<1>6. (Renamed(key) = Item <=> key = Item) /\ (Renamed(key) \in OddKeys <=> key \in OddKeys)
  BY RenamedIs DEF Indistinct
<1>7. bt.opaque = at.opaque
  BY DEF ArePlacesAlike
<1> QED
  BY <1>4, <1>5, <1>6, <1>7 DEF KeyKept

\* The next positions are alike: the key is kept in both, or numbered in both.
LEMMA ChildAlike ==
  ASSUME NEW one, NEW at, IsOfPolicy(one, at), NEW bt, ArePlacesAlike(at, bt),
         NEW step, NEW other, other[2] = step[2],
         other[1] = IF KeyKept(at, step[1]) THEN step[1] ELSE Renamed(step[1])
  PROVE  ArePlacesAlike(Child(at, step), Child(bt, other))
<1> DEFINE key == step[1]
           new == other[1]
           depth == Len(at.path)
           kept == KeyKept(at, key)
           next == Child(at, step)
           others == Child(bt, other)
           path == Append(at.path, <<OutKey(at, key), step[2]>>)
<1>1. new = key \/ new = Renamed(key)
  OBVIOUS
<1>2. KeyKept(bt, new) <=> kept
  BY <1>1, KeptAlike
<1>3. /\ bt.url = at.url /\ bt.path = at.path /\ bt.rules = at.rules /\ bt.hidden = at.hidden
      /\ bt.opaque = at.opaque /\ bt.renamed = at.renamed /\ AreRenamed(at.keys, bt.keys)
  BY DEF ArePlacesAlike
<1>4. ASSUME ~kept
      PROVE  /\ AreRenamed(Numbered(at.keys, key), Numbered(bt.keys, new))
             /\ NumberOf(Numbered(at.keys, key), key) = NumberOf(Numbered(bt.keys, new), new)
  <2>1. new = Renamed(key)
    BY <1>4
  <2> QED
    BY <1>3, <2>1, AddedAlike
<1>5. OutKey(bt, new) = OutKey(at, key)
  BY <1>2, <1>4 DEF OutKey
<1>6. others.path = next.path /\ next.path = path
  BY <1>3, <1>5 DEF Child
<1>7. AreRenamed(next.keys, others.keys)
  BY <1>2, <1>3, <1>4 DEF Child
<1>8. ASSUME NEW keys \in PathsAt(at.url)
      PROVE  Follows(keys, depth, key) <=> Follows(keys, depth, new)
  BY <1>1, <1>8, FollowsAlike DEF IsOfPolicy
<1>9. next.rules = others.rules
  <2>1. \A n \in at.rules : Rules[at.url][n].path \in PathsAt(at.url)
    BY DEF IsOfPolicy, RulesOf, PathsAt, RulesAt
  <2>2. next.rules = {n \in at.rules : Follows(Rules[at.url][n].path, depth, key)}
    BY DEF Child
  <2>3. others.rules = {n \in at.rules : Follows(Rules[at.url][n].path, depth, new)}
    BY <1>3 DEF Child
  <2> HIDE DEF next, others, depth, key, new
  <2> QED
    BY <1>8, <2>1, <2>2, <2>3
<1>10. next.hidden = others.hidden
  <2>1. at.hidden \subseteq PathsAt(at.url)
    BY DEF IsOfPolicy, OpaqueOf, PathsAt
  <2>2. next.hidden = {opaque \in at.hidden : Follows(opaque, depth, key)}
    BY DEF Child
  <2>3. others.hidden = {opaque \in at.hidden : Follows(opaque, depth, new)}
    BY <1>3 DEF Child
  <2> HIDE DEF next, others, depth, key, new
  <2> QED
    BY <1>8, <2>1, <2>2, <2>3
<1>11. next.opaque = others.opaque
  <2>1. next.opaque = (at.opaque \/ \E opaque \in next.hidden : Len(opaque) = depth + 1)
    BY DEF Child
  <2>2. others.opaque = (at.opaque \/ \E opaque \in others.hidden : Len(opaque) = depth + 1)
    BY <1>3 DEF Child
  <2> HIDE DEF next, others, depth
  <2> QED
    BY <1>10, <2>1, <2>2
<1>12. next.renamed = others.renamed
  <2>1. next.renamed = IF kept THEN at.renamed ELSE at.renamed \cup {<<at.url, Generic(next.path)>>}
    BY DEF Child
  <2>2. others.renamed = IF kept THEN at.renamed ELSE at.renamed \cup {<<at.url, Generic(others.path)>>}
    BY <1>2, <1>3 DEF Child
  <2> HIDE DEF next, others, kept
  <2> QED
    BY <1>6, <2>1, <2>2
<1>13. next.url = others.url
  BY <1>3 DEF Child
<1> HIDE DEF next, others
<1> QED
  BY <1>6, <1>7, <1>9, <1>10, <1>11, <1>12, <1>13 DEF ArePlacesAlike, next, others

\* The last positions of two walks are alike.
LEMMA WalkAlike ==
  ASSUME NEW one, NEW other, other.ok = one.ok, NEW a, NEW b, ArePathsAlike(one, a, b),
         NEW s, NEW t, AreRenamed(s.keys, t.keys), t.renamed = s.renamed,
         NEW f, IsWalk(one, s, a, f), NEW g, IsWalk(other, t, b, g)
  PROVE  ArePlacesAlike(f[Len(a.path)], g[Len(a.path)])
<1> DEFINE m == Len(a.path)
           T == {n \in Nat : n <= m => ArePlacesAlike(f[n], g[n])}
<1>1. /\ m \in Nat /\ Len(b.path) = m /\ b.url = a.url /\ a.url \in Range(Order)
      /\ \A d \in 1..m :
           /\ b.path[d][2] = a.path[d][2]
           /\ b.path[d][1] = IF PublicKey(one, a, d) THEN a.path[d][1] ELSE Renamed(a.path[d][1])
  BY DEF ArePathsAlike
<1> HIDE DEF m
<1>2. 0 \in T
  <2>1. f[0] = Root(one, s, a.url) /\ g[0] = Root(other, t, a.url)
    BY <1>1 DEF IsWalk
  <2>2. f[0].url = a.url /\ f[0].path = <<>> /\ f[0].keys = s.keys /\ f[0].renamed = s.renamed
        /\ f[0].opaque = FALSE
    BY <2>1 DEF Root
  <2>3. g[0].url = a.url /\ g[0].path = <<>> /\ g[0].keys = t.keys /\ g[0].renamed = t.renamed
        /\ g[0].opaque = FALSE
    BY <2>1 DEF Root
  <2>4. g[0].rules = f[0].rules /\ g[0].hidden = f[0].hidden
    BY <2>1 DEF Root
  <2>5. ArePlacesAlike(f[0], g[0])
    BY <2>2, <2>3, <2>4 DEF ArePlacesAlike
  <2> QED
    BY <2>5
<1>3. ASSUME NEW k \in Nat, k \in T PROVE k + 1 \in T
  <2> SUFFICES ASSUME k + 1 <= m PROVE ArePlacesAlike(f[k + 1], g[k + 1])
    OBVIOUS
  <2>1. k + 1 \in 1..m /\ (k + 1) - 1 = k /\ k \in 0..m
    BY <1>1
  <2>2. f[k + 1] = Child(f[k], a.path[k + 1]) /\ g[k + 1] = Child(g[k], b.path[k + 1])
    BY <1>1, <2>1 DEF IsWalk, m
  <2>3. ArePlacesAlike(f[k], g[k])
    BY <1>1, <1>3, <2>1
  <2>4. IsAt(one, a, f, k)
    BY <1>1, <2>1, WalkIs DEF m
  <2>5. IsOfPolicy(one, f[k])
    BY <1>1, <2>4 DEF IsAt, IsOfPolicy
  <2>6. KeyKept(f[k], a.path[k + 1][1]) <=> PublicKey(one, a, k + 1)
    BY <1>1, <2>1, <2>4, KeptIs DEF m
  <2>7. /\ b.path[k + 1][2] = a.path[k + 1][2]
        /\ b.path[k + 1][1] = IF KeyKept(f[k], a.path[k + 1][1]) THEN a.path[k + 1][1]
                              ELSE Renamed(a.path[k + 1][1])
    BY <1>1, <2>1, <2>6
  <2> QED
    BY <2>2, <2>3, <2>5, <2>7, ChildAlike
<1> HIDE DEF T
<1>4. m \in T
  BY <1>1, <1>2, <1>3, SetInduction
<1> QED
  BY <1>1, <1>4 DEF T, m

-----------------------------------------------------------------------------
(* Leaves alike                                                            *)

\* Two states of the anonymizer that have published the same, of texts renamed one for one.
AreAlike(s, t) ==
  /\ IsState(s) /\ IsState(t)
  /\ t.leaves = s.leaves /\ t.unclassified = s.unclassified /\ t.renamed = s.renamed
  /\ AreRenamed(s.ids, t.ids) /\ AreRenamed(s.keys, t.keys)
  /\ DOMAIN s.names = Kinds /\ DOMAIN t.names = Kinds
  /\ \A kind \in Kinds : AreRenamed(s.names[kind], t.names[kind])

\* What writing a leaf, and redacting one, make of a state.
LEMMA WrittenIs ==
  ASSUME NEW s, IsState(s), NEW at, NEW value
  PROVE  Write(s, at, value)
           = [ids |-> s.ids, keys |-> s.keys, names |-> s.names,
              leaves |-> Append(s.leaves, [url |-> at.url, path |-> at.path, value |-> value]),
              unclassified |-> s.unclassified, renamed |-> s.renamed]
<1> DEFINE leaves == Append(s.leaves, [url |-> at.url, path |-> at.path, value |-> value])
<1>1. Write(s, at, value) = [s EXCEPT !.leaves = leaves]
  BY DEF Write
<1> HIDE DEF leaves
<1>2. Write(s, at, value)
        = [ids |-> s.ids, keys |-> s.keys, names |-> s.names, leaves |-> leaves,
           unclassified |-> s.unclassified, renamed |-> s.renamed]
  BY <1>1 DEF IsState
<1> QED
  BY <1>2 DEF leaves

LEMMA WriteAlike ==
  ASSUME NEW s, NEW t, AreAlike(s, t), NEW at, NEW bt, bt.url = at.url, bt.path = at.path, NEW value
  PROVE  AreAlike(Write(s, at, value), Write(t, bt, value))
<1> DEFINE w == Write(s, at, value)
           x == Write(t, bt, value)
           out == [url |-> at.url, path |-> at.path, value |-> value]
<1>1. w = [ids |-> s.ids, keys |-> s.keys, names |-> s.names, leaves |-> Append(s.leaves, out),
           unclassified |-> s.unclassified, renamed |-> s.renamed]
  BY WrittenIs DEF AreAlike
<1>2. x = [ids |-> t.ids, keys |-> t.keys, names |-> t.names, leaves |-> Append(t.leaves, out),
           unclassified |-> t.unclassified, renamed |-> t.renamed]
  BY WrittenIs DEF AreAlike
<1> HIDE DEF w, x, out
<1>3. AreAlike(w, x)
  BY <1>1, <1>2 DEF AreAlike, IsState
<1> QED
  BY <1>3 DEF w, x

\* Values of one type are redacted alike.
LEMMA RedactAlike ==
  ASSUME NEW s, NEW t, AreAlike(s, t), NEW at, NEW bt, bt.url = at.url, bt.path = at.path,
         NEW v, NEW w, w.type = v.type, NEW reason
  PROVE  /\ Placeholder(w) = Placeholder(v)
         /\ AreAlike(Redact(s, at, v, reason), Redact(t, bt, w, reason))
<1> DEFINE value == Placeholder(v)
           report == [url |-> at.url, path |-> Generic(at.path), type |-> v.type, reason |-> reason]
           p == Write(s, at, value)
           q == Write(t, bt, value)
           next == Redact(s, at, v, reason)
           other == Redact(t, bt, w, reason)
<1>1. Placeholder(w) = value
  BY DEF Placeholder
<1>2. next = [p EXCEPT !.unclassified = @ \cup {report}]
  BY DEF Redact
<1>3. other = [q EXCEPT !.unclassified = @ \cup {report}]
  BY <1>1 DEF Redact
<1> HIDE DEF value
<1>4. AreAlike(p, q)
  BY WriteAlike
<1> HIDE DEF report, p, q, next, other
<1>5. next = [ids |-> p.ids, keys |-> p.keys, names |-> p.names, leaves |-> p.leaves,
              unclassified |-> p.unclassified \cup {report}, renamed |-> p.renamed]
  BY <1>2, <1>4 DEF AreAlike, IsState
<1>6. other = [ids |-> q.ids, keys |-> q.keys, names |-> q.names, leaves |-> q.leaves,
               unclassified |-> q.unclassified \cup {report}, renamed |-> q.renamed]
  BY <1>3, <1>4 DEF AreAlike, IsState
<1>7. AreAlike(next, other)
  BY <1>4, <1>5, <1>6 DEF AreAlike, IsState
<1> QED
  BY <1>1, <1>7 DEF value, next, other

\* Ids: both say nothing, or one is renamed to the other.
LEMMA IdAlike ==
  ASSUME NEW s, NEW t, AreAlike(s, t), NEW at, NEW bt, bt.url = at.url, bt.path = at.path,
         NEW v, NEW w, w.type = v.type,
         \/ w = v /\ v \in {Null, Empty}
         \/ {v, w} \cap {Null, Empty} = {} /\ w.text = Renamed(v.text)
  PROVE  AreAlike(Id(s, at, v), Id(t, bt, w))
<1>1. CASE w = v /\ v \in {Null, Empty}
  BY <1>1, WriteAlike DEF Id
<1>2. CASE {v, w} \cap {Null, Empty} = {} /\ w.text = Renamed(v.text)
  <2>1. v \notin {Null, Empty} /\ w \notin {Null, Empty}
    BY <1>2
  <2>2. CASE v.type \notin {"int", "str"}
    <3>1. Id(s, at, v) = Redact(s, at, v, "keep-constraint")
      BY <2>1, <2>2 DEF Id
    <3>2. Id(t, bt, w) = Redact(t, bt, w, "keep-constraint")
      BY <2>1, <2>2 DEF Id
    <3> QED
      BY <3>1, <3>2, RedactAlike
  <2>3. CASE v.type \in {"int", "str"}
    <3> DEFINE ids == Numbered(s.ids, v.text)
               others == Numbered(t.ids, w.text)
               out == Value(v.type, NumberOf(ids, v.text))
               p == Write(s, at, out)
               q == Write(t, bt, out)
               next == Id(s, at, v)
               other == Id(t, bt, w)
    <3>1. AreRenamed(ids, others) /\ NumberOf(ids, v.text) = NumberOf(others, w.text)
      BY <1>2, AddedAlike DEF AreAlike
    <3>2. next = [p EXCEPT !.ids = ids]
      BY <2>1, <2>3 DEF Id
    <3>3. other = [q EXCEPT !.ids = others]
      <4>1. other = [Write(t, bt, Value(w.type, NumberOf(others, w.text))) EXCEPT !.ids = others]
        BY <2>1, <2>3 DEF Id
      <4> HIDE DEF ids, others, other
      <4> QED
        BY <3>1, <4>1
    <3> HIDE DEF ids, others, out
    <3>4. AreAlike(p, q)
      BY WriteAlike
    <3> HIDE DEF p, q, next, other
    <3>5. next = [ids |-> ids, keys |-> p.keys, names |-> p.names, leaves |-> p.leaves,
                  unclassified |-> p.unclassified, renamed |-> p.renamed]
      BY <3>2, <3>4 DEF AreAlike, IsState
    <3>6. other = [ids |-> others, keys |-> q.keys, names |-> q.names, leaves |-> q.leaves,
                   unclassified |-> q.unclassified, renamed |-> q.renamed]
      BY <3>3, <3>4 DEF AreAlike, IsState
    <3>7. AreAlike(next, other)
      BY <3>1, <3>4, <3>5, <3>6 DEF AreAlike, IsState
    <3> QED
      BY <3>7 DEF next, other
  <2> QED
    BY <2>2, <2>3
<1> QED
  BY <1>1, <1>2

\* Names, in the same way.
LEMMA NameAlike ==
  ASSUME NEW s, NEW t, AreAlike(s, t), NEW at, NEW bt, bt.url = at.url, bt.path = at.path,
         NEW v, NEW w, w.type = v.type, NEW kind \in Kinds,
         \/ w = v /\ v = Null
         \/ Null \notin {v, w} /\ w.text = Renamed(v.text)
  PROVE  AreAlike(Name(s, at, v, kind), Name(t, bt, w, kind))
<1>1. CASE w = v /\ v = Null
  BY <1>1, WriteAlike DEF Name
<1>2. CASE Null \notin {v, w} /\ w.text = Renamed(v.text)
  <2>1. v # Null /\ w # Null
    BY <1>2
  <2>2. CASE v.type # "str"
    <3>1. Name(s, at, v, kind) = Redact(s, at, v, "keep-constraint")
      BY <2>1, <2>2 DEF Name
    <3>2. Name(t, bt, w, kind) = Redact(t, bt, w, "keep-constraint")
      BY <2>1, <2>2 DEF Name
    <3> QED
      BY <3>1, <3>2, RedactAlike
  <2>3. CASE v.type = "str"
    <3> DEFINE names == Numbered(s.names[kind], v.text)
               others == Numbered(t.names[kind], w.text)
               out == Value("str", "<name:" \o kind \o ":" \o NumberOf(names, v.text) \o ">")
               p == Write(s, at, out)
               q == Write(t, bt, out)
               next == Name(s, at, v, kind)
               other == Name(t, bt, w, kind)
    <3>1. AreRenamed(names, others) /\ NumberOf(names, v.text) = NumberOf(others, w.text)
      BY <1>2, AddedAlike DEF AreAlike
    <3>2. next = [p EXCEPT !.names[kind] = names]
      BY <2>1, <2>3 DEF Name
    <3>3. other = [q EXCEPT !.names[kind] = others]
      <4>1. other = [Write(t, bt, Value("str", "<name:" \o kind \o ":" \o NumberOf(others, w.text) \o ">"))
                       EXCEPT !.names[kind] = others]
        BY <2>1, <2>3 DEF Name
      <4> HIDE DEF names, others, other
      <4> QED
        BY <3>1, <4>1
    <3> HIDE DEF names, others, out
    <3>4. AreAlike(p, q)
      BY WriteAlike
    <3> DEFINE known == [p.names EXCEPT ![kind] = names]
               knew == [q.names EXCEPT ![kind] = others]
    <3>5. next = [p EXCEPT !.names = known] /\ other = [q EXCEPT !.names = knew]
      BY <3>2, <3>3
    <3>6. /\ DOMAIN known = Kinds /\ DOMAIN knew = Kinds
          /\ \A k \in Kinds : AreRenamed(known[k], knew[k])
      BY <3>1, <3>4 DEF AreAlike
    <3> HIDE DEF p, q, next, other, known, knew
    <3>7. next = [ids |-> p.ids, keys |-> p.keys, names |-> known, leaves |-> p.leaves,
                  unclassified |-> p.unclassified, renamed |-> p.renamed]
      BY <3>4, <3>5 DEF AreAlike, IsState
    <3>8. other = [ids |-> q.ids, keys |-> q.keys, names |-> knew, leaves |-> q.leaves,
                   unclassified |-> q.unclassified, renamed |-> q.renamed]
      BY <3>4, <3>5 DEF AreAlike, IsState
    <3>9. AreAlike(next, other)
      BY <3>4, <3>6, <3>7, <3>8 DEF AreAlike, IsState
    <3> QED
      BY <3>9 DEF next, other
  <2> QED
    BY <2>2, <2>3
<1> QED
  BY <1>1, <1>2

\* Two values that the rule for their place, if there is one, does not tell apart.
AreValuesAlike(one, a, other, b) ==
  LET v == a.value
      w == b.value
  IN /\ w.type = v.type
     /\ \A rule \in RuleOf(one, a) :
          /\ rule.action \in Keeps =>
               \/ w = v /\ Passes(v, rule.action)
               \/ ~Passes(v, rule.action) /\ ~Passes(w, rule.action)
          /\ rule.action = "id" =>
               \/ w = v /\ v \in {Null, Empty}
               \/ {v, w} \cap {Null, Empty} = {} /\ w.text = Renamed(v.text)
          /\ rule.action \in Kinds =>
               \/ w = v /\ v = Null
               \/ Null \notin {v, w} /\ w.text = Renamed(v.text)
          /\ rule.action = "value" => DataValue(other, b) = DataValue(one, a)

\* They are published alike.
LEMMA LeafAlike ==
  ASSUME NEW one, NEW other, other.ok = one.ok,
         NEW a, NEW b, ArePathsAlike(one, a, b), AreValuesAlike(one, a, other, b),
         NEW s, NEW t, AreAlike(s, t)
  PROVE  AreAlike(Node(one, s, a), Node(other, t, b))
<1> DEFINE m == Len(a.path)
           url == a.url
           at == Position(one, s, a)
           bt == Position(other, t, b)
           next == Node(one, s, a)
           others == Node(other, t, b)
           complete == CompleteRules(at)
           action == Rules[at.url][Min(complete)].action
           given == [s EXCEPT !.keys = at.keys, !.renamed = at.renamed]
           gives == [t EXCEPT !.keys = bt.keys, !.renamed = bt.renamed]
<1>1. m \in Nat /\ Len(b.path) = m
  BY DEF ArePathsAlike
<1>2. PICK f : IsWalk(one, s, a, f) /\ at = f[m]
  BY <1>1, WalkExists
<1>3. PICK g : IsWalk(other, t, b, g) /\ bt = g[m]
  BY <1>1, WalkExists
<1>4. /\ at.url = url /\ Len(at.path) = m
      /\ at.rules = {k \in RulesOf(one, url) : Along(Rules[url][k].path, a.path, m)}
  <2>1. IsAt(one, a, f, m)
    BY <1>1, <1>2, WalkIs
  <2> HIDE DEF at
  <2> QED
    BY <1>2, <2>1 DEF IsAt
<1>5. ArePlacesAlike(at, bt)
  <2>1. AreRenamed(s.keys, t.keys) /\ t.renamed = s.renamed
    BY DEF AreAlike
  <2> HIDE DEF at, bt
  <2> QED
    BY <1>2, <1>3, <2>1, WalkAlike
<1>6. CompleteRules(bt) = complete /\ bt.url = at.url /\ bt.path = at.path
  BY <1>5 DEF CompleteRules, ArePlacesAlike
<1>7. AreAlike(given, gives)
  <2> DEFINE keys == at.keys
             renamed == at.renamed
             knows == bt.keys
             renames == bt.renamed
  <2>1. given = [s EXCEPT !.keys = keys, !.renamed = renamed]
        /\ gives = [t EXCEPT !.keys = knows, !.renamed = renames]
    OBVIOUS
  <2>2. AreRenamed(keys, knows) /\ renames = renamed
    BY <1>5 DEF ArePlacesAlike
  <2> HIDE DEF keys, renamed, knows, renames, given, gives
  <2>3. given = [ids |-> s.ids, keys |-> keys, names |-> s.names, leaves |-> s.leaves,
                 unclassified |-> s.unclassified, renamed |-> renamed]
    BY <2>1 DEF AreAlike, IsState
  <2>4. gives = [ids |-> t.ids, keys |-> knows, names |-> t.names, leaves |-> t.leaves,
                 unclassified |-> t.unclassified, renamed |-> renames]
    BY <2>1 DEF AreAlike, IsState
  <2> QED
    BY <2>2, <2>3, <2>4 DEF AreAlike, IsState
<1>8. next = IF complete = {} THEN Redact(given, at, a.value, "no-rule")
             ELSE CASE action \in Keeps -> IF Passes(a.value, action) THEN Write(given, at, a.value)
                                           ELSE Redact(given, at, a.value, "keep-constraint")
                    [] action = "id" -> Id(given, at, a.value)
                    [] action \in Kinds -> Name(given, at, a.value, action)
                    [] action = "value" -> Write(given, at, DataValue(one, a))
                    [] OTHER -> Write(given, at, Placeholder(a.value))
  BY DEF Node, Arrive, Leaf
<1>9. others = IF complete = {} THEN Redact(gives, bt, b.value, "no-rule")
               ELSE CASE action \in Keeps -> IF Passes(b.value, action) THEN Write(gives, bt, b.value)
                                             ELSE Redact(gives, bt, b.value, "keep-constraint")
                      [] action = "id" -> Id(gives, bt, b.value)
                      [] action \in Kinds -> Name(gives, bt, b.value, action)
                      [] action = "value" -> Write(gives, bt, DataValue(other, b))
                      [] OTHER -> Write(gives, bt, Placeholder(b.value))
  BY <1>6 DEF Node, Arrive, Leaf
<1>10. b.value.type = a.value.type
  BY DEF AreValuesAlike
<1> HIDE DEF at, bt, next, others, given, gives
<1>11. complete = {k \in RulesOf(one, url) : LET keys == Rules[url][k].path
                                             IN Len(keys) = m /\ Along(keys, a.path, Len(keys))}
  BY <1>4 DEF CompleteRules
<1>12. RuleOf(one, a) = IF complete = {} THEN {} ELSE {Rules[url][Min(complete)]}
  BY <1>11 DEF RuleOf
<1> HIDE DEF complete, action
<1>13. CASE complete = {}
  <2>1. next = Redact(given, at, a.value, "no-rule") /\ others = Redact(gives, bt, b.value, "no-rule")
    BY <1>8, <1>9, <1>13
  <2>2. AreAlike(next, others)
    BY <1>6, <1>7, <1>10, <2>1, RedactAlike
  <2> QED
    BY <2>2 DEF next, others
<1>14. CASE complete # {}
  <2> DEFINE rule == Rules[url][Min(complete)]
             v == a.value
             w == b.value
  <2>1. rule \in RuleOf(one, a) /\ rule.action = action
    BY <1>4, <1>12, <1>14 DEF action
  <2> HIDE DEF rule
  <2>2. /\ action \in Keeps => \/ w = v /\ Passes(v, action)
                               \/ ~Passes(v, action) /\ ~Passes(w, action)
        /\ action = "id" => \/ w = v /\ v \in {Null, Empty}
                            \/ {v, w} \cap {Null, Empty} = {} /\ w.text = Renamed(v.text)
        /\ action \in Kinds => \/ w = v /\ v = Null
                               \/ Null \notin {v, w} /\ w.text = Renamed(v.text)
        /\ action = "value" => DataValue(other, b) = DataValue(one, a)
    BY <2>1 DEF AreValuesAlike
  <2>3. CASE action \in Keeps
    <3>1. CASE w = v /\ Passes(v, action)
      <4>1. next = Write(given, at, v) /\ others = Write(gives, bt, v)
        BY <1>8, <1>9, <1>14, <2>3, <3>1 DEF Keeps, Kinds
      <4>2. AreAlike(next, others)
        BY <1>6, <1>7, <4>1, WriteAlike
      <4> QED
        BY <4>2 DEF next, others
    <3>2. CASE ~Passes(v, action) /\ ~Passes(w, action)
      <4>1. /\ next = Redact(given, at, v, "keep-constraint")
            /\ others = Redact(gives, bt, w, "keep-constraint")
        BY <1>8, <1>9, <1>14, <2>3, <3>2 DEF Keeps, Kinds
      <4>2. AreAlike(next, others)
        BY <1>6, <1>7, <1>10, <4>1, RedactAlike
      <4> QED
        BY <4>2 DEF next, others
    <3> QED
      BY <2>2, <2>3, <3>1, <3>2
  <2>4. CASE action = "id"
    <3>1. next = Id(given, at, v) /\ others = Id(gives, bt, w)
      BY <1>8, <1>9, <1>14, <2>4 DEF Keeps, Kinds
    <3>2. AreAlike(next, others)
      BY <1>6, <1>7, <1>10, <2>2, <2>4, <3>1, IdAlike
    <3> QED
      BY <3>2 DEF next, others
  <2>5. CASE action \in Kinds
    <3>1. next = Name(given, at, v, action) /\ others = Name(gives, bt, w, action)
      BY <1>8, <1>9, <1>14, <2>5 DEF Keeps, Kinds
    <3>2. AreAlike(next, others)
      BY <1>6, <1>7, <1>10, <2>2, <2>5, <3>1, NameAlike
    <3> QED
      BY <3>2 DEF next, others
  <2>6. CASE action = "value"
    <3>1. next = Write(given, at, DataValue(one, a)) /\ others = Write(gives, bt, DataValue(one, a))
      BY <1>8, <1>9, <1>14, <2>2, <2>6 DEF Keeps, Kinds
    <3>2. AreAlike(next, others)
      BY <1>6, <1>7, <3>1, WriteAlike
    <3> QED
      BY <3>2 DEF next, others
  <2>7. CASE action \notin Keeps \cup Kinds \cup {"id", "value"}
    <3>1. next = Write(given, at, Placeholder(v)) /\ others = Write(gives, bt, Placeholder(w))
      BY <1>8, <1>9, <1>14, <2>7
    <3>2. Placeholder(w) = Placeholder(v)
      BY <1>10 DEF Placeholder
    <3>3. AreAlike(next, others)
      BY <1>6, <1>7, <3>1, <3>2, WriteAlike
    <3> QED
      BY <3>3 DEF next, others
  <2> QED
    BY <2>3, <2>4, <2>5, <2>6, <2>7
<1> QED
  BY <1>13, <1>14

-----------------------------------------------------------------------------
(* Captures alike                                                          *)

AreCapturesAlike(one, other) ==
  /\ AreLeaves(one) /\ other.ok = one.ok /\ Len(other.leaves) = Len(one.leaves)
  /\ \A n \in 1..Len(one.leaves) :
       LET a == one.leaves[n]
           b == other.leaves[n]
       IN /\ b.url = a.url
          /\ a.url \in Range(Order) => ArePathsAlike(one, a, b) /\ AreValuesAlike(one, a, other, b)

\* The body of an endpoint.
LEMMA EndpointAlike ==
  ASSUME NEW one, NEW other, AreCapturesAlike(one, other), NEW s, NEW t, AreAlike(s, t),
         NEW url \in Range(Order)
  PROVE  AreAlike(Endpoint(one, s, url), Endpoint(other, t, url))
<1> DEFINE m == Len(one.leaves)
<1>1. m \in Nat /\ Len(other.leaves) = m /\ other.ok = one.ok
  BY DEF AreCapturesAlike, AreLeaves
<1>2. PICK f : IsPass(one, s, url, f) /\ Endpoint(one, s, url) = f[m]
  BY <1>1, PassExists
<1>3. PICK g : IsPass(other, t, url, g) /\ Endpoint(other, t, url) = g[m]
  BY <1>1, PassExists
<1> HIDE DEF m
<1> DEFINE T == {n \in Nat : n <= m => AreAlike(f[n], g[n])}
<1>4. 0 \in T
  <2>1. f[0] = s /\ g[0] = t
    BY <1>2, <1>3 DEF IsPass
  <2> QED
    BY <2>1
<1>5. ASSUME NEW n \in Nat, n \in T PROVE n + 1 \in T
  <2> SUFFICES ASSUME n + 1 <= m PROVE AreAlike(f[n + 1], g[n + 1])
    OBVIOUS
  <2>1. n + 1 \in 1..m /\ (n + 1) - 1 = n
    BY <1>1
  <2>2. AreAlike(f[n], g[n])
    BY <1>1, <1>5
  <2>3. other.leaves[n + 1].url = one.leaves[n + 1].url
    BY <2>1 DEF AreCapturesAlike, m
  <2>4. CASE one.leaves[n + 1].url = url
    <3>1. /\ ArePathsAlike(one, one.leaves[n + 1], other.leaves[n + 1])
          /\ AreValuesAlike(one, one.leaves[n + 1], other, other.leaves[n + 1])
      BY <2>1, <2>4 DEF AreCapturesAlike, m
    <3>2. f[n + 1] = Node(one, f[n], one.leaves[n + 1])
      BY <1>2, <2>1, <2>4 DEF IsPass, m
    <3>3. g[n + 1] = Node(other, g[n], other.leaves[n + 1])
      BY <1>1, <1>3, <2>1, <2>3, <2>4 DEF IsPass
    <3> QED
      BY <1>1, <2>2, <3>1, <3>2, <3>3, LeafAlike
  <2>5. CASE one.leaves[n + 1].url # url
    <3>1. f[n + 1] = f[n]
      BY <1>2, <2>1, <2>5 DEF IsPass, m
    <3>2. g[n + 1] = g[n]
      BY <1>1, <1>3, <2>1, <2>3, <2>5 DEF IsPass
    <3> QED
      BY <2>2, <3>1, <3>2
  <2> QED
    BY <2>4, <2>5
<1> HIDE DEF T
<1>6. m \in T
  BY <1>1, <1>4, <1>5, SetInduction
<1>7. AreAlike(f[m], g[m])
  BY <1>1, <1>6 DEF T
<1> QED
  BY <1>2, <1>3, <1>7

\* All of them: the same documents and reports.
LEMMA AnonymizedAlike ==
  ASSUME NEW one, NEW other, AreCapturesAlike(one, other)
  PROVE  Anonymized(other) = Anonymized(one)
<1> DEFINE m == Len(Order)
<1>1. PICK f : IsRun(one, f) /\ Anonymized(one) = Result(one, f[m])
  BY RunExists
<1>2. PICK g : IsRun(other, g) /\ Anonymized(other) = Result(other, g[m])
  BY RunExists
<1>3. m \in Nat /\ DOMAIN Order = 1..m
  BY DEF Order
<1> HIDE DEF m
<1> DEFINE T == {n \in Nat : n <= m => AreAlike(f[n], g[n])}
<1>4. 0 \in T
  <2>1. f[0] = Start /\ g[0] = Start
    BY <1>1, <1>2 DEF IsRun
  <2>2. AreRenamed(<<>>, <<>>)
    BY DEF AreRenamed
  <2>3. AreAlike(Start, Start)
    BY <2>2 DEF Start, AreAlike, IsState
  <2> QED
    BY <2>1, <2>3
<1>5. ASSUME NEW n \in Nat, n \in T PROVE n + 1 \in T
  <2> SUFFICES ASSUME n + 1 <= m PROVE AreAlike(f[n + 1], g[n + 1])
    OBVIOUS
  <2>1. n + 1 \in 1..m /\ (n + 1) - 1 = n
    BY <1>3
  <2>2. AreAlike(f[n], g[n])
    BY <1>3, <1>5
  <2>3. Order[n + 1] \in Range(Order)
    BY <1>3, <2>1 DEF Range
  <2>4. f[n + 1] = Endpoint(one, f[n], Order[n + 1]) /\ g[n + 1] = Endpoint(other, g[n], Order[n + 1])
    BY <1>1, <1>2, <2>1 DEF IsRun, m
  <2> QED
    BY <2>2, <2>3, <2>4, EndpointAlike
<1> HIDE DEF T
<1>6. m \in T
  BY <1>3, <1>4, <1>5, SetInduction
<1>7. AreAlike(f[m], g[m])
  BY <1>3, <1>6 DEF T
<1>8. other.ok = one.ok
  BY DEF AreCapturesAlike
<1> QED
  BY <1>1, <1>2, <1>7, <1>8 DEF Result, AreAlike

-----------------------------------------------------------------------------
(* The secrets of the capture                                              *)

\* A value is its type and its text.
IsValue(v) == v = Value(v.type, v.text)

\* A renamed one is null, empty or passing only if it was.
LEMMA RenamedValueIs ==
  ASSUME NEW v, IsValue(v)
  PROVE  LET w == Value(v.type, Renamed(v.text))
         IN /\ w.type = v.type /\ w.text = Renamed(v.text)
            /\ \A z \in {Null, Empty} : v # z => w # z
            /\ \A keep \in Keeps : Passes(w, keep) <=> Passes(v, keep)
<1> DEFINE w == Value(v.type, Renamed(v.text))
<1>1. w.type = v.type /\ w.text = Renamed(v.text)
  BY DEF Value
<1>2. IsValue(Null) /\ IsValue(Empty)
  <2>1. \A t, x : Value(t, x) = Value(Value(t, x).type, Value(t, x).text)
    BY DEF Value
  <2>2. (\E t, x : Null = Value(t, x)) /\ (\E t, x : Empty = Value(t, x))
    BY Zenon DEF Null, Empty
  <2> QED
    BY <2>1, <2>2 DEF IsValue
<1> HIDE DEF w
<1>3. ASSUME NEW z \in {Null, Empty}, w = z PROVE v = z
  <2>1. Renamed(v.text) = z.text /\ v.type = z.type
    BY <1>1, <1>3
  <2>2. v.text = z.text
    BY <2>1, RenamedIs
  <2> QED
    BY <1>2, <2>1, <2>2 DEF IsValue
<1>4. ASSUME NEW keep \in Keeps PROVE Passes(w, keep) <=> Passes(v, keep)
  <2>1. Fits(w.text, keep) <=> Fits(v.text, keep)
    BY <1>1, RenamedIs DEF Indistinct
  <2> QED
    BY <1>1, <2>1 DEF Passes
<1> QED
  BY <1>1, <1>3, <1>4 DEF w

\* What becomes of the value of a leaf in the other capture, by its rule.
OtherValue(leaf, rule) ==
  LET v == leaf.value
      renamed == Value(v.type, Renamed(v.text))
  IN CASE rule.action \in Keeps -> IF v = Null \/ Passes(v, rule.action) THEN v ELSE renamed
       [] rule.action = "id" -> IF v \in {Null, Empty} THEN v ELSE renamed
       [] rule.action \in Kinds -> IF v = Null THEN v ELSE renamed
       [] OTHER -> IF PublicValue(leaf) THEN v ELSE Replaced(v)

LEMMA OtherValueIs ==
  ASSUME NEW leaf
  PROVE  /\ Other(leaf).value.type = leaf.value.type
         /\ \A rule \in RuleOf(box, leaf) : Other(leaf).value = OtherValue(leaf, rule)
<1> DEFINE v == leaf.value
           renamed == Value(v.type, Renamed(v.text))
           w == Other(leaf).value
<1>1. w = IF PublicValue(leaf) THEN v ELSE IF Numberable(leaf) THEN renamed ELSE Replaced(v)
  BY DEF Other
<1>2. Replaced(v).type = v.type /\ renamed.type = v.type
  BY DEF Replaced, Value
<1> HIDE DEF w, renamed
<1>3. w.type = v.type
  BY <1>1, <1>2
<1>4. ASSUME NEW rule \in RuleOf(box, leaf) PROVE w = OtherValue(leaf, rule)
  <2>1. \A x \in RuleOf(box, leaf) : x = rule
    BY OneRule
  <2>2. Numberable(leaf) <=> rule.action \in Keeps \cup Kinds \cup {"id"}
    BY <2>1 DEF Numberable
  <2>3. CASE rule.action \in Keeps
    <3>1. PublicValue(leaf) <=> v = Null \/ Passes(v, rule.action)
      BY <2>1, <2>3 DEF PublicValue, Passing, Keeps
    <3>2. OtherValue(leaf, rule) = IF v = Null \/ Passes(v, rule.action) THEN v ELSE renamed
      BY <2>3 DEF OtherValue, Keeps, Kinds, renamed
    <3> QED
      BY <1>1, <2>2, <2>3, <3>1, <3>2
  <2>4. CASE rule.action = "id"
    <3>1. PublicValue(leaf) <=> v \in {Null, Empty}
      BY <2>1, <2>4 DEF PublicValue, Passing, Keeps
    <3>2. OtherValue(leaf, rule) = IF v \in {Null, Empty} THEN v ELSE renamed
      BY <2>4 DEF OtherValue, Keeps, Kinds, renamed
    <3> QED
      BY <1>1, <2>2, <2>4, <3>1, <3>2
  <2>5. CASE rule.action \in Kinds
    <3>1. PublicValue(leaf) <=> v = Null
      BY <2>1, <2>5 DEF PublicValue, Passing, Keeps, Kinds
    <3>2. OtherValue(leaf, rule) = IF v = Null THEN v ELSE renamed
      BY <2>5 DEF OtherValue, Keeps, Kinds, renamed
    <3> QED
      BY <1>1, <2>2, <2>5, <3>1, <3>2
  <2>6. CASE rule.action \notin Keeps \cup Kinds \cup {"id"}
    <3>1. OtherValue(leaf, rule) = IF PublicValue(leaf) THEN v ELSE Replaced(v)
      BY <2>6 DEF OtherValue
    <3> QED
      BY <1>1, <2>2, <2>6, <3>1
  <2> QED
    BY <2>3, <2>4, <2>5, <2>6
<1> QED
  BY <1>3, <1>4 DEF w

\* The leaves of the other capture.
LEMMA OtherLeafIs ==
  ASSUME box \in Boxes \cup LaterBoxes, NEW n \in 1..Len(box.leaves)
  PROVE  LET a == box.leaves[n]
             b == Other(a)
         IN /\ OtherBox.leaves[n] = b /\ b.url = a.url /\ IsValue(a.value) /\ a.value.type \in JSONTypes
            /\ a.value.type = "null" => a.value = Null
            /\ IsSequence(a.path) /\ IsSequence(b.path) /\ Len(b.path) = Len(a.path) /\ DOMAIN b.path = 1..Len(a.path)
            /\ \A d \in 1..Len(a.path) : a.path[d] = <<a.path[d][1], a.path[d][2]>>
            /\ (\A d \in 1..Len(a.path) : PublicKey(box, a, d)) => b.path = a.path
            /\ a.url \in Range(Order) => ArePathsAlike(box, a, b)
<1> DEFINE Leaves == [url : STRING, path : Seq(STRING \X Nat), value : [type : JSONTypes, text : STRING]]
           m == Len(box.leaves)
           a == box.leaves[n]
           b == Other(a)
           k == Len(a.path)
<1>1. m \in Nat /\ DOMAIN box.leaves = 1..m
  BY BoxesHaveLeaves DEF AreLeaves
<1>2. box.leaves \in Seq(Leaves)
  BY BoxesAreCaptures DEF JSONTypes
<1>3. OtherBox.leaves[n] = b
  BY <1>1 DEF OtherBox
<1>4. a \in Leaves
  <2> HIDE DEF Leaves
  <2> QED
    BY <1>1, <1>2
<1>5. a.value.type = "null" => a.value = Null
  BY <1>1, BoxesAreCaptures DEF Range
<1>6. b.url = a.url
  BY DEF Other
<1>7. k \in Nat /\ DOMAIN a.path = 1..k /\ a.path \in Seq(STRING \X Nat)
  BY <1>4
<1>8. a.value \in [type : JSONTypes, text : STRING]
  BY <1>4
<1> HIDE DEF a
<1>9. IsValue(a.value) /\ a.value.type \in JSONTypes
  BY <1>8 DEF IsValue, Value
<1>10. \A d \in 1..k : a.path[d] = <<a.path[d][1], a.path[d][2]>>
  <2>1. \A x \in STRING \X Nat : x = <<x[1], x[2]>>
    OBVIOUS
  <2> HIDE DEF k
  <2>2. \A d \in 1..k : a.path[d] \in STRING \X Nat
    BY <1>7
  <2> QED
    BY <2>1, <2>2
<1>11. b.path = [d \in 1..k |-> IF PublicKey(box, a, d) THEN a.path[d]
                                ELSE <<Renamed(a.path[d][1]), a.path[d][2]>>]
  BY <1>7 DEF Other
<1> HIDE DEF b, k
<1>12. Len(b.path) = k /\ DOMAIN b.path = 1..k /\ IsSequence(b.path) /\ IsSequence(a.path)
  <2>1. b.path = [d \in 1..k |-> b.path[d]]
    BY <1>11
  <2>2. [d \in 1..k |-> b.path[d]] \in Seq({b.path[d] : d \in 1..k})
    BY <1>7, IsASeq
  <2>3. DOMAIN b.path = 1..k
    BY <1>11
  <2> DEFINE S == {b.path[d] : d \in 1..k}
  <2> HIDE DEF S
  <2>4. b.path \in Seq(S)
    BY <2>1, <2>2 DEF S
  <2>5. IsSequence(b.path) /\ IsSequence(a.path)
    BY <1>7, <2>4 DEF IsSequence
  <2> QED
    BY <1>7, <2>3, <2>4, <2>5
<1>13. ASSUME \A d \in 1..k : PublicKey(box, a, d) PROVE b.path = a.path
  <2>1. a.path = [d \in 1..k |-> a.path[d]]
    BY <1>7
  <2> QED
    BY <1>11, <1>13, <2>1
<1>14. ASSUME NEW d \in 1..k
       PROVE  /\ b.path[d][2] = a.path[d][2]
              /\ b.path[d][1] = IF PublicKey(box, a, d) THEN a.path[d][1] ELSE Renamed(a.path[d][1])
  BY <1>11
<1>15. a.url \in Range(Order) => ArePathsAlike(box, a, b)
  BY <1>6, <1>7, <1>12, <1>14 DEF ArePathsAlike, k
<1> QED
  BY <1>3, <1>5, <1>6, <1>7, <1>9, <1>10, <1>12, <1>13, <1>15 DEF a, b, k

LEMMA OtherBoxIs ==
  ASSUME box \in Boxes \cup LaterBoxes
  PROVE  /\ AreLeaves(box) /\ OtherBox.ok = box.ok /\ Len(OtherBox.leaves) = Len(box.leaves)
         /\ DOMAIN OtherBox.leaves = 1..Len(box.leaves)
<1> DEFINE m == Len(box.leaves)
           S == {Other(box.leaves[n]) : n \in 1..m}
           others == [n \in 1..m |-> Other(box.leaves[n])]
<1>1. AreLeaves(box) /\ m \in Nat /\ DOMAIN box.leaves = 1..m
  BY BoxesHaveLeaves DEF AreLeaves
<1>2. OtherBox.ok = box.ok /\ OtherBox.leaves = others
  BY <1>1 DEF OtherBox
<1> HIDE DEF m
<1>3. others \in Seq(S) /\ DOMAIN others = 1..m
  BY <1>1, IsASeq
<1> HIDE DEF others, S
<1> QED
  BY <1>1, <1>2, <1>3 DEF m

-----------------------------------------------------------------------------
(* Where a rule without wildcards applies                                  *)

IsPlain(url) ==
  /\ url \in Range(Order)
  /\ \A rule \in RulesAt(url) : rule.path \in Seq({key \in STRING : ~IsWildcard(key) /\ key # AnyKey})

HasKeys(path, keys) == Len(path) = Len(keys) /\ \A d \in 1..Len(keys) : path[d][1] = keys[d]

\* A path is along that of such a rule when it has its keys.
LEMMA PlainIs ==
  ASSUME NEW url, IsPlain(url), NEW rule \in RulesAt(url), NEW path
  PROVE  /\ IsSequence(rule.path)
         /\ Len(rule.path) \in Nat
         /\ \A d \in 1..Len(rule.path) : rule.path[d] # AnyKey
         /\ Len(path) = Len(rule.path) =>
              (Along(rule.path, path, Len(rule.path)) <=> HasKeys(path, rule.path))
<1> DEFINE r == rule.path
           S == {key \in STRING : ~IsWildcard(key) /\ key # AnyKey}
<1>1. r \in Seq(S)
  BY DEF IsPlain
<1> HIDE DEF r
<1>2. Len(r) \in Nat /\ \A d \in 1..Len(r) : r[d] \in S
  BY <1>1
<1>3. ASSUME NEW d \in 1..Len(r), NEW key PROVE Matching(r[d], key) <=> r[d] = key
  BY <1>2, <1>3 DEF Matching, SegmentMatches
<1>4. Along(r, path, Len(r)) <=> \A d \in 1..Len(r) : r[d] = path[d][1]
  <2>1. ASSUME NEW d \in 1..Len(r)
        PROVE  d <= Len(r) /\ (Matching(r[d], path[d][1]) <=> r[d] = path[d][1])
    <3>1. Matching(r[d], path[d][1]) <=> r[d] = path[d][1]
      BY <1>3
    <3> QED
      BY <1>2, <3>1
  <2> QED
    BY <2>1 DEF Along
<1> QED
  BY <1>1, <1>2, <1>4 DEF r, HasKeys, IsSequence

\* Its keys are public there.
LEMMA PublicAlong ==
  ASSUME NEW one, NEW leaf, IsPlain(leaf.url), NEW n \in RulesOf(one, leaf.url),
         HasKeys(leaf.path, Rules[leaf.url][n].path)
  PROVE  \A d \in 1..Len(leaf.path) : PublicKey(one, leaf, d)
<1> DEFINE r == Rules[leaf.url][n].path
<1>1. Rules[leaf.url][n] \in RulesAt(leaf.url)
  BY DEF RulesOf, RulesAt
<1>2. /\ Len(leaf.path) = Len(r) /\ Len(r) \in Nat /\ Along(r, leaf.path, Len(r))
      /\ \A d \in 1..Len(r) : r[d] # AnyKey
  <2>1. Len(leaf.path) = Len(r)
    BY DEF HasKeys
  <2> QED
    BY <1>1, <2>1, PlainIs
<1> SUFFICES ASSUME NEW d \in 1..Len(r) PROVE PublicKey(one, leaf, d)
  BY <1>2
<1>3. Along(r, leaf.path, d) /\ r[d] # AnyKey
  BY <1>2 DEF Along
<1> QED
  BY <1>3 DEF PublicKey

\* The rule for a place whose keys are those of such a rule.
LEMMA AtRule ==
  ASSUME NEW one, NEW leaf, IsPlain(leaf.url), leaf.url \in one.ok,
         NEW keys, IsSequence(keys), NEW action, IsRule(leaf.url, keys, action), HasKeys(leaf.path, keys)
  PROVE  /\ HasRule(one, leaf, action)
         /\ \A d \in 1..Len(leaf.path) : PublicKey(one, leaf, d)
<1> DEFINE found == {n \in RulesOf(one, leaf.url) :
                       LET r == Rules[leaf.url][n].path
                       IN Len(r) = Len(leaf.path) /\ Along(r, leaf.path, Len(r))}
           k == Min(found)
           first == Rules[leaf.url][k]
<1>1. RulesOf(one, leaf.url) = 1..Len(Rules[leaf.url])
  BY DEF RulesOf
<1>2. \A n \in RulesOf(one, leaf.url) : Rules[leaf.url][n] \in RulesAt(leaf.url)
  BY <1>1 DEF RulesAt
<1>3. PICK n \in RulesOf(one, leaf.url) : Rules[leaf.url][n].path = keys
  BY <1>1 DEF IsRule, RulesAt
<1>4. \A d \in 1..Len(leaf.path) : PublicKey(one, leaf, d)
  BY <1>3, PublicAlong
<1>5. n \in found
  <2>1. Len(leaf.path) = Len(keys)
    BY DEF HasKeys
  <2>2. Along(keys, leaf.path, Len(keys))
    BY <1>2, <1>3, <2>1, PlainIs
  <2> QED
    BY <1>3, <2>1, <2>2
<1>6. found \subseteq Nat
  BY <1>1
<1> HIDE DEF found
<1>7. k \in found
  BY <1>5, <1>6, MinIs
<1>8. RuleOf(one, leaf) = {first}
  BY <1>5 DEF RuleOf, found
<1> HIDE DEF k
<1>9. first \in RulesAt(leaf.url) /\ Len(first.path) = Len(leaf.path) /\ Along(first.path, leaf.path, Len(first.path))
  BY <1>2, <1>7 DEF found
<1> HIDE DEF first
<1>10. HasKeys(leaf.path, first.path) /\ IsSequence(first.path)
  BY <1>9, PlainIs
<1>11. first.path = keys
  <2>1. Len(first.path) = Len(keys) /\ \A d \in 1..Len(keys) : first.path[d] = keys[d]
    BY <1>9, <1>10 DEF HasKeys
  <2> QED
    BY <1>10, <2>1, SequencesAre
<1>12. first.action = action
  BY <1>9, <1>11 DEF IsRule
<1> QED
  BY <1>4, <1>8, <1>12 DEF HasRule

-----------------------------------------------------------------------------
(* What is found in the other capture                                      *)

\* Leaves are found at their places.
LEMMA AtPlace ==
  ASSUME box \in Boxes \cup LaterBoxes, NEW n \in 1..Len(box.leaves)
  PROVE  Get(box, box.leaves[n].url, box.leaves[n].path) = box.leaves[n].value
<1> DEFINE a == box.leaves[n]
           I == {i \in 1..Len(box.leaves) : box.leaves[i].url = a.url /\ box.leaves[i].path = a.path}
           at == IF I # {} THEN Min(I) ELSE 0
<1>1. Get(box, a.url, a.path) = IF at = 0 THEN Null ELSE box.leaves[at].value
  BY DEF Get, SelectInSeq
<1>2. DOMAIN box.leaves = 1..Len(box.leaves)
  BY BoxesHaveLeaves DEF AreLeaves
<1>3. \A i \in I : i = n
  BY <1>2, BoxesAreCaptures
<1>4. I \subseteq Nat /\ n \in I
  OBVIOUS
<1> HIDE DEF I
<1>5. at = n
  BY <1>3, <1>4, MinIs
<1>6. n # 0
  OBVIOUS
<1> HIDE DEF at
<1> QED
  BY <1>1, <1>5, <1>6

\* A leaf at a place whose keys are those of a rule is at the same place there.
LEMMA SamePlace ==
  ASSUME box \in Boxes \cup LaterBoxes, NEW n \in 1..Len(box.leaves), IsPlain(box.leaves[n].url),
         box.leaves[n].url \in box.ok, NEW keys, IsSequence(keys), NEW action,
         IsRule(box.leaves[n].url, keys, action),
         HasKeys(box.leaves[n].path, keys) \/ HasKeys(Other(box.leaves[n]).path, keys)
  PROVE  /\ Other(box.leaves[n]).path = box.leaves[n].path
         /\ HasKeys(box.leaves[n].path, keys)
<1> DEFINE a == box.leaves[n]
           b == Other(a)
<1>1. /\ b.url = a.url /\ Len(b.path) = Len(a.path) /\ ArePathsAlike(box, a, b)
      /\ (\A d \in 1..Len(a.path) : PublicKey(box, a, d)) => b.path = a.path
  BY OtherLeafIs DEF IsPlain
<1>2. PICK rule \in RulesAt(a.url) : rule.path = keys
  BY DEF IsRule
<1>3. IsPlain(a.url) /\ Len(keys) \in Nat
  BY DEF IsSequence
<1>4. HasKeys(a.path, keys) \/ HasKeys(b.path, keys)
  OBVIOUS
<1> HIDE DEF b
<1>5. HasKeys(a.path, keys)
  <2>1. Len(a.path) = Len(keys) /\ Len(b.path) = Len(keys)
    BY <1>1, <1>4 DEF HasKeys
  <2>2. keys \in PathsAt(a.url)
    BY <1>2 DEF PathsAt
  <2>3. Along(keys, a.path, Len(keys)) <=> Along(keys, b.path, Len(keys))
    <3>1. Len(keys) \in 0..Len(a.path)
      BY <1>3, <2>1
    <3> HIDE DEF a
    <3> QED
      BY <1>1, <2>2, <3>1, AlongAlike
  <2>4. /\ Along(keys, a.path, Len(keys)) <=> HasKeys(a.path, keys)
        /\ Along(keys, b.path, Len(keys)) <=> HasKeys(b.path, keys)
    BY <1>2, <1>3, <2>1, PlainIs
  <2> QED
    BY <1>4, <2>3, <2>4
<1>6. \A d \in 1..Len(a.path) : PublicKey(box, a, d)
  BY <1>5, AtRule
<1> QED
  BY <1>1, <1>5, <1>6 DEF b

\* What is found at such a place.
LEMMA GetAlike ==
  ASSUME box \in Boxes \cup LaterBoxes, NEW url, IsPlain(url), url \in box.ok,
         NEW keys, IsSequence(keys), NEW action, IsRule(url, keys, action), NEW q, HasKeys(q, keys)
  PROVE  \/ Get(box, url, q) = Null /\ Get(OtherBox, url, q) = Null
         \/ \E i \in 1..Len(box.leaves) : LET a == box.leaves[i] IN
              /\ a.url = url /\ a.path = q
              /\ Get(box, url, q) = a.value /\ Get(OtherBox, url, q) = Other(a).value
              /\ HasRule(box, a, action)
<1>1. ASSUME NEW i \in 1..Len(box.leaves)
      PROVE  /\ OtherBox.leaves[i] = Other(box.leaves[i])
             /\ box.leaves[i].url = url /\ box.leaves[i].path = q
                  <=> OtherBox.leaves[i].url = url /\ OtherBox.leaves[i].path = q
  <2> DEFINE a == box.leaves[i]
  <2>1. OtherBox.leaves[i] = Other(a) /\ Other(a).url = a.url
    BY OtherLeafIs
  <2>2. a.url = url /\ (a.path = q \/ Other(a).path = q) => Other(a).path = a.path
    BY SamePlace
  <2> QED
    BY <2>1, <2>2
<1>2. ASSUME NEW i \in 1..Len(box.leaves), box.leaves[i].url = url, box.leaves[i].path = q
      PROVE  HasRule(box, box.leaves[i], action)
  BY <1>2, AtRule
<1>3. HaveTheSame(box, OtherBox, url, q)
  BY <1>1, OtherBoxIs DEF HaveTheSame
<1> QED
  BY <1>1, <1>2, <1>3, GetBoth

-----------------------------------------------------------------------------
(* The ids, names and numbers that lead from the data to their descriptors *)

\* A name stays when it fits.
NewName(text) == IF Fits(text, "word") THEN text ELSE Renamed(text)

LEMMA NewNameIs == \A x, y : NewName(x) = NewName(y) => x = y
<1> SUFFICES ASSUME NEW x, NEW y, NewName(x) = NewName(y) PROVE x = y
  OBVIOUS
<1>1. "word" \in Keeps
  BY DEF Keeps
<1>2. \A t : Fits(Renamed(t), "word") <=> Fits(t, "word")
  BY <1>1, RenamedIs DEF Indistinct
<1>3. CASE Fits(x, "word") <=> Fits(y, "word")
  BY <1>3, RenamedIs DEF NewName
<1>4. CASE ~(Fits(x, "word") <=> Fits(y, "word"))
  BY <1>2, <1>4 DEF NewName
<1> QED
  BY <1>3, <1>4

LEMMA IdsAlike ==
  ASSUME box \in Boxes \cup LaterBoxes, NEW url, IsPlain(url), url \in box.ok,
         NEW keys, IsSequence(keys), IsRule(url, keys, "id"), NEW q, HasKeys(q, keys)
  PROVE  Get(OtherBox, url, q).text = Renamed(Get(box, url, q).text)
<1>1. Renamed(Null.text) = Null.text /\ Renamed(Empty.text) = Empty.text
  BY RenamedIs
<1>2. CASE Get(box, url, q) = Null /\ Get(OtherBox, url, q) = Null
  BY <1>1, <1>2
<1>3. ASSUME NEW i \in 1..Len(box.leaves), HasRule(box, box.leaves[i], "id")
      PROVE  Other(box.leaves[i]).value.text = Renamed(box.leaves[i].value.text)
  <2> DEFINE a == box.leaves[i]
             v == a.value
             renamed == Value(v.type, Renamed(v.text))
  <2>1. PICK rule \in RuleOf(box, a) : rule.action = "id"
    BY <1>3 DEF HasRule
  <2>2. Other(a).value = OtherValue(a, rule)
    BY OtherValueIs
  <2>3. OtherValue(a, rule) = IF v \in {Null, Empty} THEN v ELSE renamed
    BY <2>1 DEF OtherValue, Keeps, Kinds
  <2>4. renamed.text = Renamed(v.text)
    BY DEF Value
  <2> HIDE DEF a, renamed
  <2> QED
    BY <1>1, <2>2, <2>3, <2>4 DEF a
<1> QED
  BY <1>2, <1>3, GetAlike

LEMMA NamesAlike ==
  ASSUME box \in Boxes \cup LaterBoxes, NEW url, IsPlain(url), url \in box.ok,
         NEW keys, IsSequence(keys), IsRule(url, keys, "word"), NEW q, HasKeys(q, keys),
         Get(box, url, q) = Null \/ Get(box, url, q).type = "str"
  PROVE  Get(OtherBox, url, q).text = NewName(Get(box, url, q).text)
<1>1. NewName(Null.text) = Null.text
  BY RenamedIs DEF NewName
<1>2. CASE Get(box, url, q) = Null /\ Get(OtherBox, url, q) = Null
  BY <1>1, <1>2
<1>3. ASSUME NEW i \in 1..Len(box.leaves), HasRule(box, box.leaves[i], "word"),
             box.leaves[i].value = Null \/ box.leaves[i].value.type = "str"
      PROVE  Other(box.leaves[i]).value.text = NewName(box.leaves[i].value.text)
  <2> DEFINE a == box.leaves[i]
             v == a.value
             renamed == Value(v.type, Renamed(v.text))
  <2>1. PICK rule \in RuleOf(box, a) : rule.action = "word"
    BY <1>3 DEF HasRule
  <2>2. Other(a).value = OtherValue(a, rule)
    BY OtherValueIs
  <2>3. OtherValue(a, rule) = IF v = Null \/ Passes(v, "word") THEN v ELSE renamed
    BY <2>1 DEF OtherValue, Keeps, Kinds
  <2>4. renamed.text = Renamed(v.text)
    BY DEF Value
  <2>5. v.type = "str" => (Passes(v, "word") <=> Fits(v.text, "word"))
    BY DEF Passes
  <2> HIDE DEF renamed
  <2>6. CASE v = Null
    BY <1>1, <2>2, <2>3, <2>6
  <2>7. CASE v # Null /\ v.type = "str"
    BY <2>2, <2>3, <2>4, <2>5, <2>7 DEF NewName
  <2> QED
    BY <1>3, <2>6, <2>7
<1> QED
  BY <1>2, <1>3, GetAlike

LEMMA NumbersAlike ==
  ASSUME box \in Boxes \cup LaterBoxes, NEW url, IsPlain(url), url \in box.ok,
         NEW keys, IsSequence(keys), IsRule(url, keys, "number"), NEW q, HasKeys(q, keys)
  PROVE  LET v == Get(box, url, q)
             w == Get(OtherBox, url, q)
         IN w.type = v.type /\ (v.type \in {"int", "float"} => w = v)
<1>1. CASE Get(box, url, q) = Null /\ Get(OtherBox, url, q) = Null
  BY <1>1
<1>2. ASSUME NEW i \in 1..Len(box.leaves), HasRule(box, box.leaves[i], "number")
      PROVE  LET v == box.leaves[i].value
                 w == Other(box.leaves[i]).value
             IN w.type = v.type /\ (v.type \in {"int", "float"} => w = v)
  <2> DEFINE a == box.leaves[i]
             v == a.value
             w == Other(a).value
  <2>1. PICK rule \in RuleOf(box, a) : rule.action = "number"
    BY <1>2 DEF HasRule
  <2>2. w = OtherValue(a, rule) /\ w.type = v.type
    BY OtherValueIs
  <2>3. v = Null \/ Passes(v, "number") => OtherValue(a, rule) = v
    BY <2>1 DEF OtherValue, Keeps, Kinds
  <2>4. v.type \in {"int", "float"} => Passes(v, "number")
    BY DEF Passes
  <2> HIDE DEF w, v
  <2>5. w.type = v.type /\ (v.type \in {"int", "float"} => w = v)
    BY <2>2, <2>3, <2>4
  <2> QED
    BY <2>5 DEF w, v
<1> QED
  BY <1>1, <1>2, GetAlike

\* A value that an enum rule is for is the same in both captures when it is an enum value.
LEMMA EnumsAlike ==
  ASSUME box \in Boxes \cup LaterBoxes, NEW i \in 1..Len(box.leaves), HasRule(box, box.leaves[i], "enum")
  PROVE  LET v == box.leaves[i].value
             w == Other(box.leaves[i]).value
         IN /\ Passes(v, "enum") => w = v
            /\ Passes(w, "enum") => w = v
<1> DEFINE a == box.leaves[i]
           v == a.value
           w == Other(a).value
           renamed == Value(v.type, Renamed(v.text))
<1>1. PICK rule \in RuleOf(box, a) : rule.action = "enum"
  BY DEF HasRule
<1>2. w = OtherValue(a, rule)
  BY OtherValueIs
<1>3. OtherValue(a, rule) = IF v = Null \/ Passes(v, "enum") THEN v ELSE renamed
  BY <1>1 DEF OtherValue, Keeps, Kinds
<1>4. Passes(renamed, "enum") <=> Passes(v, "enum")
  <2>1. IsValue(v) /\ "enum" \in Keeps
    BY OtherLeafIs DEF Keeps
  <2> HIDE DEF v
  <2> QED
    BY <2>1, RenamedValueIs
<1> HIDE DEF w, v, renamed
<1>5. (Passes(v, "enum") => w = v) /\ (Passes(w, "enum") => w = v)
  BY <1>2, <1>3, <1>4
<1> QED
  BY <1>5 DEF v, w

-----------------------------------------------------------------------------
(* The descriptors of the data                                             *)

KeyDepths(keys) == {d \in DOMAIN keys : keys[d] # Item}

\* The keys to something beside a step of the way.
LEMMA BesideIs ==
  ASSUME NEW p, IsSequence(p), NEW keys, IsSequence(keys), HasKeys(p, keys),
         NEW n \in 1..Len(keys), NEW key
  PROVE  /\ HasKeys(Append(SubSeq(p, 1, n - 1), <<key, 0>>), Append(SubSeq(keys, 1, n - 1), key))
         /\ IsSequence(Append(SubSeq(keys, 1, n - 1), key))
<1> DEFINE q == SubSeq(p, 1, n - 1)
           r == SubSeq(keys, 1, n - 1)
<1>1. Len(p) = Len(keys) /\ Len(keys) \in Nat /\ \A d \in 1..Len(keys) : p[d][1] = keys[d]
  BY DEF HasKeys, IsSequence
<1>2. /\ IsSequence(q) /\ IsSequence(r) /\ Len(q) = n - 1 /\ Len(r) = n - 1
      /\ \A d \in 1..(n - 1) : q[d] = p[d] /\ r[d] = keys[d]
  BY <1>1, BeforeIs
<1> HIDE DEF q, r
<1>3. n \in Nat
  BY <1>1
<1> DEFINE qs == Append(q, <<key, 0>>)
           rs == Append(r, key)
<1>4. Len(qs) = n /\ qs[n] = <<key, 0>> /\ \A d \in 1..(n - 1) : qs[d] = q[d]
  BY <1>2, <1>3, AppendIs
<1>5. /\ IsSequence(rs)
      /\ Len(rs) = n /\ rs[n] = key /\ \A d \in 1..(n - 1) : rs[d] = r[d]
  BY <1>2, <1>3, AppendIs
<1> HIDE DEF qs, rs
<1>6. ASSUME NEW d \in 1..n PROVE qs[d][1] = rs[d]
  <2>1. CASE d = n
    BY <1>4, <1>5, <2>1
  <2>2. CASE d # n
    <3>1. d \in 1..(n - 1) /\ d \in 1..Len(keys)
      BY <1>1, <2>2
    <3> QED
      BY <1>1, <1>2, <1>4, <1>5, <3>1
  <2> QED
    BY <2>1, <2>2
<1>7. HasKeys(qs, rs)
  BY <1>4, <1>5, <1>6 DEF HasKeys
<1> QED
  BY <1>5, <1>7 DEF q, r, qs, rs

\* What the ids and the name of a leaf are in the other capture.
NewTexts(texts, last) == [d \in DOMAIN texts |-> IF d = last THEN NewName(texts[d]) ELSE Renamed(texts[d])]

\* They tell the same ones apart.
LEMMA NewTextsAre ==
  ASSUME NEW D, NEW p, NEW q, p = [d \in D |-> p[d]], q = [d \in D |-> q[d]], NEW last
  PROVE  NewTexts(p, last) = NewTexts(q, last) <=> p = q
<1>1. NewTexts(p, last) = [d \in D |-> IF d = last THEN NewName(p[d]) ELSE Renamed(p[d])]
  BY DEF NewTexts
<1>2. NewTexts(q, last) = [d \in D |-> IF d = last THEN NewName(q[d]) ELSE Renamed(q[d])]
  BY DEF NewTexts
<1>3. ASSUME NewTexts(p, last) = NewTexts(q, last), NEW d \in D PROVE p[d] = q[d]
  <2>1. NewTexts(p, last)[d] = NewTexts(q, last)[d]
    BY <1>3
  <2>2. CASE d = last
    BY <1>1, <1>2, <2>1, <2>2, NewNameIs
  <2>3. CASE d # last
    BY <1>1, <1>2, <2>1, <2>3, RenamedIs
  <2> QED
    BY <2>2, <2>3
<1>4. (\A d \in D : p[d] = q[d]) => p = q
  OBVIOUS
<1> QED
  BY <1>1, <1>2, <1>3, <1>4

\* The name and the ids beside the way to a leaf.
LEMMA DescriptorKeyAlike ==
  ASSUME box \in Boxes \cup LaterBoxes, NEW a \in Range(box.leaves), IsSequence(a.path),
         IsPlain(a.url), a.url \in box.ok, Other(a).path = a.path, Other(a).url = a.url,
         NEW keys, IsSequence(keys), keys # <<>>, HasKeys(a.path, keys), Dicts(a.path) = KeyDepths(keys),
         \A d \in 1..(Len(keys) - 1) : keys[d] # Item =>
           IsRule(a.url, Append(SubSeq(keys, 1, d - 1), "id"), "id"),
         IsRule(a.url, Append(Front(keys), "name"), "word"),
         \/ Get(box, a.url, Append(Front(a.path), <<"name", 0>>)) = Null
         \/ Get(box, a.url, Append(Front(a.path), <<"name", 0>>)).type = "str"
  PROVE  /\ DescriptorKey(box, a) = [d \in KeyDepths(keys) |-> DescriptorKey(box, a)[d]]
         /\ DescriptorKey(OtherBox, Other(a)) = NewTexts(DescriptorKey(box, a), Len(keys))
<1> DEFINE D == KeyDepths(keys)
           K == Len(keys)
           b == Other(a)
           at(d) == Append(SubSeq(a.path, 1, d - 1), <<IF d = K THEN "name" ELSE "id", 0>>)
           x(d) == Get(box, a.url, at(d)).text
           y(d) == Get(OtherBox, a.url, at(d)).text
<1>1. K \in Nat /\ K > 0 /\ Len(a.path) = K /\ DOMAIN keys = 1..K
  BY DEF HasKeys, IsSequence
<1>2. DescriptorKey(box, a) = [d \in D |-> x(d)]
  BY <1>1 DEF DescriptorKey
<1>3. DescriptorKey(OtherBox, b) = [d \in D |-> y(d)]
  BY <1>1 DEF DescriptorKey
<1>4. ASSUME NEW d \in D, d # K PROVE y(d) = Renamed(x(d))
  <2> DEFINE q == Append(SubSeq(keys, 1, d - 1), "id")
  <2>1. d \in 1..(K - 1) /\ keys[d] # Item /\ d \in 1..K
    BY <1>1, <1>4 DEF KeyDepths
  <2>2. IsRule(a.url, q, "id") /\ at(d) = Append(SubSeq(a.path, 1, d - 1), <<"id", 0>>)
    BY <1>4, <2>1
  <2>3. HasKeys(at(d), q) /\ IsSequence(q)
    BY <2>1, <2>2, BesideIs
  <2> HIDE DEF q, at
  <2> QED
    BY <2>2, <2>3, IdsAlike
<1>5. y(K) = NewName(x(K))
  <2> DEFINE q == Append(SubSeq(keys, 1, K - 1), "name")
  <2>1. /\ IsRule(a.url, q, "word") /\ at(K) = Append(SubSeq(a.path, 1, K - 1), <<"name", 0>>)
        /\ at(K) = Append(Front(a.path), <<"name", 0>>)
    BY <1>1 DEF Front
  <2>2. HasKeys(at(K), q) /\ IsSequence(q)
    BY <1>1, <2>1, BesideIs
  <2>3. Get(box, a.url, at(K)) = Null \/ Get(box, a.url, at(K)).type = "str"
    BY <2>1
  <2> HIDE DEF q, at
  <2> QED
    BY <2>1, <2>2, <2>3, NamesAlike
<1> HIDE DEF x, y
<1>6. \A d \in D : y(d) = IF d = K THEN NewName(x(d)) ELSE Renamed(x(d))
  BY <1>4, <1>5
<1> HIDE DEF D
<1>7. NewTexts(DescriptorKey(box, a), K) = [d \in D |-> IF d = K THEN NewName(x(d)) ELSE Renamed(x(d))]
  BY <1>2 DEF NewTexts
<1>8. DescriptorKey(OtherBox, b) = NewTexts(DescriptorKey(box, a), K)
  BY <1>3, <1>6, <1>7
<1>9. DescriptorKey(box, a) = [d \in D |-> DescriptorKey(box, a)[d]]
  BY <1>2
<1> QED
  BY <1>8, <1>9 DEF D

\* What the table of rules says of a data endpoint.
LEMMA DataHave ==
  ASSUME NEW data \in DOMAIN DescriptorSources
  PROVE  LET meta == DescriptorSources[data].meta
             at == NamePath(data)
             keys == DataPath(data)
             K == Len(at)
         IN /\ IsPlain(data) /\ IsPlain(meta)
            /\ IsSequence(at) /\ IsSequence(keys) /\ K \in Nat /\ K > 3 /\ Len(keys) = K
            /\ keys # <<>> /\ at # <<>> /\ KeyDepths(keys) = KeyDepths(at)
            /\ at[K] = "name" /\ at[K - 2] = "metadata"
            /\ \A n \in 1..(K - 3) : at[n] = Item => n + 1 # K /\ at[n + 1] # Item
            /\ \A n \in 1..(K - 1) : keys[n] # Item => IsRule(data, Append(SubSeq(keys, 1, n - 1), "id"), "id")
            /\ \A n \in 1..(K - 1) : at[n] # Item => IsRule(meta, Append(SubSeq(at, 1, n - 1), "id"), "id")
            /\ \A n \in 1..(K - 1) : at[n] # Item => n \in 2..(K - 2) /\ at[n - 1] = Item
            /\ IsRule(data, keys, "value")
            /\ IsRule(data, Append(Front(keys), "name"), "word") /\ IsRule(meta, at, "word")
            /\ IsRule(meta, Append(Front(at), "min"), "number")
            /\ IsRule(meta, Front(at) \o <<"enum_values", Item>>, "enum")
<1> DEFINE meta == DescriptorSources[data].meta
           at == NamePath(data)
           keys == DataPath(data)
           K == Len(at)
<1>1. /\ data \in Range(Order) /\ meta \in Range(Order)
      /\ \A rule \in RulesAt(data) \cup RulesAt(meta) :
           rule.path \in Seq({key \in STRING : ~IsWildcard(key) /\ key # AnyKey})
      /\ at \in Seq(STRING) /\ keys \in Seq(STRING)
      /\ K > 3 /\ at[K - 2] = "metadata" /\ at[K] = "name"
      /\ \A n \in 1..(K - 3) : at[n] = Item => n + 1 # K /\ at[n + 1] # Item
      /\ \A n \in 1..(K - 1) : at[n] # Item =>
           /\ n \in 2..(K - 2) /\ at[n - 1] = Item
           /\ IsRule(data, Append(SubSeq(keys, 1, n - 1), "id"), "id")
           /\ IsRule(meta, Append(SubSeq(at, 1, n - 1), "id"), "id")
      /\ IsRule(data, keys, "value") /\ IsRule(data, Append(Front(keys), "name"), "word")
      /\ IsRule(meta, at, "word") /\ IsRule(meta, Append(Front(at), "min"), "number")
      /\ IsRule(meta, Front(at) \o <<"enum_values", Item>>, "enum")
  BY DataHaveRules
<1>2. IsPlain(data) /\ IsPlain(meta)
  BY <1>1 DEF IsPlain
<1>3. \A n \in DOMAIN at : keys[n] = Item <=> at[n] = Item
  BY DEF DataPath, Item
<1>4. DOMAIN keys = DOMAIN at
  BY DEF DataPath
<1> HIDE DEF meta, at, keys
<1>5. IsSequence(at) /\ IsSequence(keys) /\ K \in Nat /\ Len(keys) = K /\ keys # <<>> /\ at # <<>>
  BY <1>1, <1>4 DEF IsSequence
<1>6. KeyDepths(keys) = KeyDepths(at)
  BY <1>3, <1>4 DEF KeyDepths
<1>7. \A n \in 1..(K - 1) : keys[n] = Item <=> at[n] = Item
  <2>1. at \in Seq(STRING)
    BY <1>1
  <2>2. DOMAIN at = 1..K
    BY <2>1
  <2> HIDE DEF K
  <2>3. \A n \in 1..(K - 1) : n \in 1..K
    BY <1>5
  <2> QED
    BY <1>3, <2>2, <2>3
<1> QED
  BY <1>1, <1>2, <1>5, <1>6, <1>7 DEF meta, at, keys

\* The descriptors are the same leaves.
LEMMA IndexAlike ==
  ASSUME box \in Boxes \cup LaterBoxes, NEW data \in DOMAIN DescriptorSources
  PROVE  /\ Index(OtherBox, data) = Index(box, data)
         /\ \A n \in Index(box, data) : LET c == box.leaves[n] IN
              /\ n \in 1..Len(box.leaves) /\ c.url = DescriptorSources[data].meta /\ c.url \in box.ok
              /\ c.value.type = "str" /\ HasKeys(c.path, NamePath(data)) /\ Other(c).path = c.path
              /\ Dicts(c.path) = KeyDepths(NamePath(data))
<1> DEFINE meta == DescriptorSources[data].meta
           at == NamePath(data)
<1>1. IsPlain(meta) /\ IsSequence(at) /\ IsRule(meta, at, "word")
  BY DataHave
<1>2. OtherBox.ok = box.ok /\ DOMAIN OtherBox.leaves = 1..Len(box.leaves) /\ DOMAIN box.leaves = 1..Len(box.leaves)
  BY OtherBoxIs DEF AreLeaves
<1> HIDE DEF meta, at
<1>3. ASSUME NEW path, DOMAIN path = 1..Len(path), Len(path) \in Nat, Generic(path) = at
      PROVE  /\ HasKeys(path, at)
             /\ {d \in DOMAIN path : path[d][1] # Item} = KeyDepths(at)
  <2>1. DOMAIN path = DOMAIN at /\ \A d \in DOMAIN path : at[d] = path[d][1]
    BY <1>3 DEF Generic
  <2>2. DOMAIN at = 1..Len(at) /\ Len(at) \in Nat
    BY <1>1 DEF IsSequence
  <2>3. Len(path) = Len(at)
    <3>1. ASSUME NEW x \in Nat, NEW y \in Nat, 1..x = 1..y PROVE x = y
      <4>1. (x < y => y \in 1..y /\ y \notin 1..x) /\ (y < x => x \in 1..x /\ x \notin 1..y)
        OBVIOUS
      <4>2. x < y \/ y < x \/ x = y
        OBVIOUS
      <4> QED
        BY <3>1, <4>1, <4>2
    <3>2. 1..Len(path) = 1..Len(at)
      BY <1>3, <2>1, <2>2, Zenon
    <3> QED
      BY <1>3, <2>2, <3>1, <3>2, Zenon
  <2> QED
    BY <2>1, <2>2, <2>3 DEF HasKeys, KeyDepths
<1>4. ASSUME NEW n \in 1..Len(box.leaves), box.leaves[n].url = meta, meta \in box.ok,
             \/ Generic(box.leaves[n].path) = at
             \/ Generic(Other(box.leaves[n]).path) = at
      PROVE  Other(box.leaves[n]).path = box.leaves[n].path /\ HasKeys(box.leaves[n].path, at)
  <2> DEFINE a == box.leaves[n]
             b == Other(a)
  <2>1. /\ Len(a.path) \in Nat /\ DOMAIN a.path = 1..Len(a.path)
        /\ Len(b.path) = Len(a.path) /\ DOMAIN b.path = 1..Len(a.path)
    BY OtherLeafIs
  <2>2. HasKeys(a.path, at) \/ HasKeys(b.path, at)
    BY <1>3, <1>4, <2>1
  <2> QED
    BY <1>1, <1>4, <2>2, SamePlace
<1>5. ASSUME NEW n \in 1..Len(box.leaves) PROVE n \in Index(OtherBox, data) <=> n \in Index(box, data)
  <2> DEFINE a == box.leaves[n]
             b == Other(a)
  <2>1. OtherBox.leaves[n] = b /\ b.url = a.url
    BY OtherLeafIs
  <2>2. b.value.type = a.value.type
    BY OtherValueIs
  <2>3. a.url = meta /\ meta \in box.ok /\ (Generic(a.path) = at \/ Generic(b.path) = at) => b.path = a.path
    BY <1>4
  <2> HIDE DEF a, b
  <2>4. n \in Index(box, data) <=>
          /\ meta \in box.ok /\ a.url = meta /\ a.value.type = "str" /\ Generic(a.path) = at
          /\ Dicts(a.path) = {d \in DOMAIN a.path : a.path[d][1] # Item}
    BY <1>2 DEF Index, meta, at, a
  <2>5. n \in Index(OtherBox, data) <=>
          /\ meta \in box.ok /\ b.url = meta /\ b.value.type = "str" /\ Generic(b.path) = at
          /\ Dicts(b.path) = {d \in DOMAIN b.path : b.path[d][1] # Item}
    BY <1>2, <2>1 DEF Index, meta, at
  <2> QED
    BY <2>1, <2>2, <2>3, <2>4, <2>5
<1>6. Index(OtherBox, data) = Index(box, data)
  <2>1. Index(OtherBox, data) \subseteq 1..Len(box.leaves) /\ Index(box, data) \subseteq 1..Len(box.leaves)
    BY <1>2 DEF Index
  <2> QED
    BY <1>5, <2>1
<1>7. ASSUME NEW n \in Index(box, data)
      PROVE  LET c == box.leaves[n] IN
              /\ n \in 1..Len(box.leaves) /\ c.url = meta /\ c.url \in box.ok
              /\ c.value.type = "str" /\ HasKeys(c.path, at) /\ Other(c).path = c.path
              /\ Dicts(c.path) = KeyDepths(at)
  <2> DEFINE c == box.leaves[n]
  <2>1. /\ n \in 1..Len(box.leaves) /\ meta \in box.ok /\ c.url = meta /\ c.value.type = "str"
        /\ Generic(c.path) = at /\ Dicts(c.path) = {d \in DOMAIN c.path : c.path[d][1] # Item}
    BY <1>2 DEF Index, meta, at
  <2>2. Len(c.path) \in Nat /\ DOMAIN c.path = 1..Len(c.path)
    BY <2>1, OtherLeafIs
  <2>3. Other(c).path = c.path /\ HasKeys(c.path, at)
    BY <1>4, <2>1
  <2> HIDE DEF c
  <2>4. Dicts(c.path) = KeyDepths(at)
    BY <1>3, <2>1, <2>2
  <2> QED
    BY <2>1, <2>3, <2>4 DEF c
<1> QED
  BY <1>6, <1>7 DEF meta, at

\* A leaf with the keys to the name of a descriptor is at its name.
LEMMA AtName ==
  ASSUME box \in Boxes \cup LaterBoxes, NEW data \in DOMAIN DescriptorSources, NEW n \in Index(box, data)
  PROVE  LET c == box.leaves[n]
         IN /\ IsSequence(c.path) /\ Len(c.path) = Len(NamePath(data))
            /\ \A d \in 1..Len(c.path) : c.path[d][1] # Item => c.path[d] = <<c.path[d][1], 0>>
            /\ Append(Front(c.path), <<"name", 0>>) = c.path
<1> DEFINE c == box.leaves[n]
           at == NamePath(data)
           K == Len(at)
           q == Append(Front(c.path), <<"name", 0>>)
<1>1. n \in 1..Len(box.leaves) /\ HasKeys(c.path, at) /\ Dicts(c.path) = KeyDepths(at)
  BY IndexAlike
<1>2. IsSequence(at) /\ K \in Nat /\ K > 3 /\ at[K] = "name"
  BY DataHave
<1>3. IsSequence(c.path) /\ \A d \in 1..Len(c.path) : c.path[d] = <<c.path[d][1], c.path[d][2]>>
  BY <1>1, OtherLeafIs
<1> HIDE DEF c, at
<1>4. Len(c.path) = K /\ DOMAIN c.path = 1..K /\ DOMAIN at = 1..K /\ \A d \in 1..K : c.path[d][1] = at[d]
  BY <1>1, <1>2, <1>3 DEF HasKeys, IsSequence
<1>5. ASSUME NEW d \in 1..K, c.path[d][1] # Item PROVE c.path[d] = <<c.path[d][1], 0>>
  <2>1. d \in KeyDepths(at)
    BY <1>4, <1>5 DEF KeyDepths
  <2>2. c.path[d][2] = 0
    BY <1>1, <2>1 DEF Dicts
  <2> QED
    BY <1>3, <1>4, <2>2
<1>6. q = c.path
  <2> DEFINE f == SubSeq(c.path, 1, K - 1)
  <2>1. q = Append(f, <<"name", 0>>)
    BY <1>4 DEF Front
  <2>2. IsSequence(f) /\ Len(f) = K - 1 /\ \A d \in 1..(K - 1) : f[d] = c.path[d]
    BY <1>2, <1>3, <1>4, BeforeIs
  <2> HIDE DEF f
  <2> DEFINE r == Append(f, <<"name", 0>>)
  <2>3. IsSequence(r) /\ Len(r) = K /\ r[K] = <<"name", 0>> /\ \A d \in 1..(K - 1) : r[d] = f[d]
    BY <1>2, <2>2, AppendIs
  <2> HIDE DEF q, K, r
  <2>4. c.path[K] = <<"name", 0>>
    <3>1. K \in 1..K /\ c.path[K][1] = "name"
      BY <1>2, <1>4
    <3> QED
      BY <1>5, <3>1 DEF Item
  <2>5. \A d \in 1..K : r[d] = c.path[d]
    <3>1. \A d \in 1..K : d = K \/ d \in 1..(K - 1)
      BY <1>2 DEF K
    <3> QED
      BY <2>2, <2>3, <2>4, <3>1
  <2> QED
    BY <1>3, <1>4, <2>1, <2>3, <2>5, SequencesAre DEF r
<1> QED
  BY <1>3, <1>4, <1>5, <1>6 DEF c, at

\* The descriptors of a value are the same.
LEMMA DescriptorsAlike ==
  ASSUME box \in Boxes \cup LaterBoxes, DataAreNamed(box), NEW i \in 1..Len(box.leaves),
         box.leaves[i].url \in DOMAIN DescriptorSources, box.leaves[i].url \in box.ok,
         HasKeys(box.leaves[i].path, DataPath(box.leaves[i].url)),
         Other(box.leaves[i]).path = box.leaves[i].path
  PROVE  DescriptorsOf(OtherBox, Other(box.leaves[i])) = DescriptorsOf(box, box.leaves[i])
<1> DEFINE a == box.leaves[i]
           data == a.url
           at == NamePath(data)
           keys == DataPath(data)
           K == Len(at)
           D == KeyDepths(at)
<1>1. /\ IsPlain(data) /\ IsSequence(at) /\ IsSequence(keys) /\ K \in Nat /\ K > 3 /\ Len(keys) = K
      /\ keys # <<>> /\ at # <<>> /\ KeyDepths(keys) = D /\ at[K] = "name"
      /\ IsPlain(DescriptorSources[data].meta)
      /\ \A n \in 1..(K - 1) : keys[n] # Item => IsRule(data, Append(SubSeq(keys, 1, n - 1), "id"), "id")
      /\ IsRule(data, Append(Front(keys), "name"), "word")
  BY DataHave
<1>2. /\ \A n \in 1..(K - 1) : at[n] # Item =>
           IsRule(DescriptorSources[data].meta, Append(SubSeq(at, 1, n - 1), "id"), "id")
      /\ IsRule(DescriptorSources[data].meta, at, "word")
  BY DataHave
<1>3. a \in Range(box.leaves) /\ IsSequence(a.path) /\ Other(a).url = a.url /\ DOMAIN box.leaves = 1..Len(box.leaves)
  <2>1. DOMAIN box.leaves = 1..Len(box.leaves)
    BY OtherBoxIs DEF AreLeaves
  <2> QED
    BY <2>1, OtherLeafIs DEF Range
<1>4. Append(Front(at), "name") = at
  <2> DEFINE f == SubSeq(at, 1, K - 1)
             q == Append(f, "name")
  <2> HIDE DEF at, K
  <2>1. IsSequence(f) /\ Len(f) = K - 1 /\ \A d \in 1..(K - 1) : f[d] = at[d]
    BY <1>1, BeforeIs DEF K
  <2> HIDE DEF f
  <2>2. IsSequence(q) /\ Len(q) = K /\ q[K] = "name" /\ \A d \in 1..(K - 1) : q[d] = f[d]
    BY <1>1, <2>1, AppendIs
  <2> HIDE DEF q
  <2>3. \A d \in 1..K : d = K \/ d \in 1..(K - 1)
    BY <1>1
  <2>4. \A d \in 1..K : q[d] = at[d]
    BY <1>1, <2>1, <2>2, <2>3
  <2>5. q = at
    BY <1>1, <2>2, <2>4, SequencesAre DEF K
  <2> QED
    BY <2>5 DEF q, f, Front, K
<1>5. \/ Get(box, data, Append(Front(a.path), <<"name", 0>>)) = Null
      \/ Get(box, data, Append(Front(a.path), <<"name", 0>>)).type = "str"
  <2> DEFINE q == Append(Front(a.path), <<"name", 0>>)
  <2>1. q # <<>> /\ Last(q) = <<"name", 0>>
    <3>1. Front(a.path) = SubSeq(a.path, 1, K - 1) /\ K \in 1..Len(a.path)
      BY <1>1 DEF Front, HasKeys
    <3>2. IsSequence(Front(a.path)) /\ Len(Front(a.path)) = K - 1
      BY <1>3, <3>1, BeforeIs
    <3>3. IsSequence(q) /\ Len(q) = K /\ q[K] = <<"name", 0>>
      BY <1>1, <3>2, AppendIs
    <3> HIDE DEF q
    <3> QED
      BY <1>1, <3>3 DEF Last
  <2> HIDE DEF q
  <2>2. \/ Get(box, data, q) = Null
        \/ \E j \in 1..Len(box.leaves) :
             box.leaves[j].url = data /\ box.leaves[j].path = q /\ Get(box, data, q) = box.leaves[j].value
    BY GetIs
  <2>3. \A j \in 1..Len(box.leaves) : box.leaves[j] \in Range(box.leaves)
    BY <1>3 DEF Range
  <2>4. Get(box, data, q) = Null \/ Get(box, data, q).type = "str"
    BY <2>1, <2>2, <2>3 DEF DataAreNamed
  <2> QED
    BY <2>4 DEF q
<1> DEFINE key(c) == DescriptorKey(box, c)
           new(c) == DescriptorKey(OtherBox, Other(c))
<1>6. ASSUME Dicts(a.path) = D
      PROVE  key(a) = [d \in D |-> key(a)[d]] /\ new(a) = NewTexts(key(a), K)
  <2> HIDE DEF a, at, keys, K, D
  <2>1. Dicts(a.path) = KeyDepths(keys) /\ HasKeys(a.path, keys)
    BY <1>1, <1>6 DEF a, keys
  <2> QED
    BY <1>1, <1>3, <1>5, <2>1, DescriptorKeyAlike DEF a
<1>7. ASSUME NEW n \in Index(box, data)
      PROVE  LET c == box.leaves[n]
             IN key(c) = [d \in D |-> key(c)[d]] /\ new(c) = NewTexts(key(c), K) /\ Other(c).path = c.path
                /\ Dicts(c.path) = D
  <2> DEFINE c == box.leaves[n]
  <2>1. /\ n \in 1..Len(box.leaves) /\ c.url = DescriptorSources[data].meta /\ c.url \in box.ok
        /\ c.value.type = "str" /\ HasKeys(c.path, at) /\ Other(c).path = c.path /\ Dicts(c.path) = D
    BY IndexAlike
  <2>2. IsSequence(c.path) /\ Append(Front(c.path), <<"name", 0>>) = c.path
    BY AtName
  <2>3. c \in Range(box.leaves) /\ Other(c).url = c.url
    BY <1>3, <2>1, OtherLeafIs DEF Range
  <2>4. Get(box, c.url, Append(Front(c.path), <<"name", 0>>)).type = "str"
    BY <2>1, <2>2, AtPlace
  <2>5. IsPlain(c.url) /\ IsRule(c.url, Append(Front(at), "name"), "word")
        /\ \A d \in 1..(K - 1) : at[d] # Item => IsRule(c.url, Append(SubSeq(at, 1, d - 1), "id"), "id")
    BY <1>1, <1>2, <1>4, <2>1
  <2> HIDE DEF c, at
  <2>6. key(c) = [d \in D |-> key(c)[d]] /\ new(c) = NewTexts(key(c), K)
    BY <1>1, <2>1, <2>2, <2>3, <2>4, <2>5, DescriptorKeyAlike
  <2> QED
    BY <2>1, <2>6 DEF c
<1>8. ASSUME NEW n \in Index(box, data)
      PROVE  new(box.leaves[n]) = new(a) <=> key(box.leaves[n]) = key(a)
  <2> DEFINE c == box.leaves[n]
  <2>1. key(c) = [d \in D |-> key(c)[d]] /\ new(c) = NewTexts(key(c), K) /\ Dicts(c.path) = D /\ Other(c).path = c.path
    BY <1>7
  <2>2. CASE Dicts(a.path) = D
    <3>1. key(a) = [d \in D |-> key(a)[d]] /\ new(a) = NewTexts(key(a), K)
      BY <1>6, <2>2
    <3> DEFINE p == key(c)
               q == key(a)
    <3> HIDE DEF p, q, D, K
    <3>2. NewTexts(p, K) = NewTexts(q, K) <=> p = q
      BY <2>1, <3>1, NewTextsAre DEF p, q
    <3> QED
      BY <2>1, <3>1, <3>2 DEF p, q
  <2>3. CASE Dicts(a.path) # D
    <3>1. \A one, leaf : DOMAIN DescriptorKey(one, leaf) = Dicts(leaf.path)
      BY DEF DescriptorKey
    <3>2. DOMAIN key(c) = D /\ DOMAIN new(c) = D /\ DOMAIN key(a) # D /\ DOMAIN new(a) # D
      BY <2>1, <2>3, <3>1
    <3> HIDE DEF a, c, D
    <3> QED
      BY <3>2 DEF c
  <2> QED
    BY <2>2, <2>3
<1> DEFINE named == {n \in Index(box, data) : key(box.leaves[n]) = key(a)}
           others == {n \in Index(OtherBox, data) : DescriptorKey(OtherBox, OtherBox.leaves[n]) = new(a)}
<1>9. /\ Index(OtherBox, data) = Index(box, data)
      /\ \A n \in Index(box, data) : n \in 1..Len(box.leaves) /\ OtherBox.leaves[n] = Other(box.leaves[n])
  BY IndexAlike, OtherLeafIs
<1>10. others = named
  <2> HIDE DEF key, new, a
  <2> QED
    BY <1>8, <1>9 DEF new
<1>11. DescriptorsOf(box, a) = IF named = {} THEN {} ELSE {Front(box.leaves[Min(named)].path)}
  BY DEF DescriptorsOf
<1>12. DescriptorsOf(OtherBox, Other(a)) = IF others = {} THEN {} ELSE {Front(OtherBox.leaves[Min(others)].path)}
  BY <1>3 DEF DescriptorsOf
<1>13. named \subseteq Nat /\ named \subseteq Index(box, data)
  BY <1>9
<1> HIDE DEF named, others, a
<1>14. CASE named = {}
  BY <1>10, <1>11, <1>12, <1>14 DEF a
<1>15. CASE named # {}
  <2> DEFINE m == Min(named)
  <2>1. m \in named
    BY <1>13, <1>15, MinIs
  <2> HIDE DEF m
  <2>2. m \in Index(box, data)
    BY <1>13, <2>1
  <2>3. OtherBox.leaves[m].path = box.leaves[m].path
    BY <1>7, <1>9, <2>2
  <2>4. /\ DescriptorsOf(box, a) = {Front(box.leaves[m].path)}
        /\ DescriptorsOf(OtherBox, Other(a)) = {Front(OtherBox.leaves[m].path)}
    BY <1>10, <1>11, <1>12, <1>15 DEF m
  <2> QED
    BY <2>3, <2>4 DEF a
<1> QED
  BY <1>14, <1>15

\* The first descriptor with the ids and the name of a value is one that describes it.
LEMMA Linked ==
  ASSUME box \in Boxes \cup LaterBoxes, NEW a, a.url \in DOMAIN DescriptorSources,
         IsSequence(a.path), HasKeys(a.path, DataPath(a.url)),
         NEW n \in Index(box, a.url), DescriptorKey(box, box.leaves[n]) = DescriptorKey(box, a)
  PROVE  n \in Describing(box, a)
<1> DEFINE c == box.leaves[n]
           at == NamePath(a.url)
           keys == DataPath(a.url)
           K == Len(at)
           D == KeyDepths(at)
           p == a.path
           q == c.path
<1>1. /\ IsSequence(at) /\ K \in Nat /\ K > 3 /\ Len(keys) = K /\ at[K] = "name" /\ at[K - 2] = "metadata"
      /\ IsSequence(keys) /\ KeyDepths(keys) = D
      /\ \A d \in 1..(K - 3) : at[d] = Item => d + 1 # K /\ at[d + 1] # Item
  BY DataHave
<1>2. /\ n \in 1..Len(box.leaves) /\ c.url = DescriptorSources[a.url].meta /\ c.url \in box.ok
      /\ HasKeys(q, at) /\ Dicts(q) = D
  BY IndexAlike
<1>3. /\ IsSequence(q) /\ Len(q) = K /\ Append(Front(q), <<"name", 0>>) = q
      /\ \A d \in 1..K : q[d][1] # Item => q[d] = <<q[d][1], 0>>
  BY AtName
<1>4. n \in DOMAIN box.leaves
  BY <1>2, OtherBoxIs DEF AreLeaves
<1>5. Get(box, c.url, q).text = c.value.text
  BY <1>2, AtPlace
<1>6. Len(p) = K /\ \A d \in 1..K : p[d][1] = keys[d] /\ q[d][1] = at[d]
  BY <1>1, <1>2 DEF HasKeys
<1>7. DOMAIN at = 1..K /\ DOMAIN keys = 1..K
  BY <1>1 DEF IsSequence
<1>8. \A d \in 1..K : keys[d] = Item <=> at[d] = Item
  BY <1>1, <1>7 DEF KeyDepths
<1> DEFINE beside(path, d) == Append(SubSeq(path, 1, d - 1), <<IF d = K THEN "name" ELSE "id", 0>>)
<1> HIDE DEF at, keys
<1>9. ASSUME NEW d \in D
      PROVE  Get(box, c.url, beside(q, d)).text = Get(box, a.url, beside(p, d)).text
  <2>1. DescriptorKey(box, a) = [m \in Dicts(p) |-> Get(box, a.url, beside(p, m)).text]
    BY <1>6 DEF DescriptorKey
  <2>2. DescriptorKey(box, c) = [m \in D |-> Get(box, c.url, beside(q, m)).text]
    BY <1>2, <1>3 DEF DescriptorKey
  <2> HIDE DEF beside, D
  <2>3. DOMAIN DescriptorKey(box, a) = Dicts(p) /\ DOMAIN DescriptorKey(box, c) = D
    BY <2>1, <2>2
  <2>4. Dicts(p) = D
    BY <2>3
  <2>5. DescriptorKey(box, c)[d] = DescriptorKey(box, a)[d]
    OBVIOUS
  <2> QED
    BY <2>1, <2>2, <2>4, <2>5
<1>10. c.value.text = Text(box, a.url, Keys(Front(p), "name"))
  <2>1. K \in D
    <3>1. K \in 1..K /\ at[K] # Item
      BY <1>1 DEF Item
    <3> HIDE DEF K
    <3> QED
      BY <1>7, <3>1 DEF KeyDepths
  <2>2. beside(q, K) = Append(Front(q), <<"name", 0>>) /\ beside(p, K) = Append(Front(p), <<"name", 0>>)
    BY <1>3, <1>6 DEF Front
  <2>3. Get(box, c.url, Append(Front(q), <<"name", 0>>)).text = Get(box, a.url, Append(Front(p), <<"name", 0>>)).text
    BY <1>9, <2>1, <2>2
  <2>4. Append(Front(q), <<"name", 0>>) = q
    BY <1>3
  <2> HIDE DEF c, p, q
  <2> QED
    BY <1>5, <2>3, <2>4 DEF Text, Keys
<1>11. ASSUME NEW d \in 1..(K - 3), p[d][1] = Item
       PROVE  Text(box, a.url, Keys(SubSeq(p, 1, d), "id")) = Text(box, c.url, Keys(SubSeq(q, 1, d), "id"))
  <2>1. d \in 1..K /\ d + 1 \in 1..K /\ (d + 1) - 1 = d
    BY <1>1
  <2>2. d + 1 # K /\ at[d + 1] # Item
    BY <1>1, <1>6, <1>8, <1>11, <2>1
  <2>3. d + 1 \in D
    BY <1>7, <2>1, <2>2 DEF KeyDepths
  <2>4. /\ beside(q, d + 1) = Append(SubSeq(q, 1, d), <<"id", 0>>)
        /\ beside(p, d + 1) = Append(SubSeq(p, 1, d), <<"id", 0>>)
    BY <2>1, <2>2
  <2> HIDE DEF beside
  <2>5. Get(box, c.url, beside(q, d + 1)).text = Get(box, a.url, beside(p, d + 1)).text
    BY <1>9, <2>3
  <2> HIDE DEF c, p, q
  <2> QED
    BY <2>4, <2>5 DEF Text, Keys
<1>12. Generic(q) = at /\ c.value.type = "str"
  BY DEF Index, c, at, q
<1> HIDE DEF beside, D, K, p, q, c
<1> QED
  BY <1>2, <1>3, <1>4, <1>6, <1>10, <1>11, <1>12 DEF Describing, K, p, q, c, at

\* The keys to an enum value of a descriptor.
LEMMA EnumPathIs ==
  ASSUME NEW at, IsSequence(at), Len(at) > 1, NEW d, IsSequence(d), Len(d) = Len(at) - 1,
         \A j \in 1..Len(d) : d[j][1] = at[j],
         NEW p, IsSequence(p), Front(p) = Append(d, <<"enum_values", 0>>), Last(p)[1] = Item
  PROVE  HasKeys(p, Front(at) \o <<"enum_values", Item>>)
<1> DEFINE K == Len(at)
           f == SubSeq(at, 1, K - 1)
           keys == f \o <<"enum_values", Item>>
           g == Append(d, <<"enum_values", 0>>)
<1>1. K \in Nat /\ K > 1 /\ Len(p) \in Nat
  BY DEF IsSequence
<1>2. IsSequence(f) /\ Len(f) = K - 1 /\ \A j \in 1..(K - 1) : f[j] = at[j]
  BY <1>1, BeforeIs
<1> HIDE DEF f
<1>3. /\ Len(keys) = K + 1 /\ keys[K] = "enum_values" /\ keys[K + 1] = Item
      /\ \A j \in 1..(K - 1) : keys[j] = f[j]
  BY <1>1, <1>2 DEF IsSequence
<1>4. Len(g) = K /\ g[K] = <<"enum_values", 0>> /\ \A j \in 1..(K - 1) : g[j] = d[j]
  BY <1>1, AppendIs
<1>5. Front(p) = g
  OBVIOUS
<1> HIDE DEF g, keys
<1>6. Len(p) = K + 1 /\ \A j \in 1..K : g[j] = p[j]
  <2>1. Len(p) # 0
    <3> SUFFICES ASSUME Len(p) = 0 PROVE FALSE
      OBVIOUS
    <3>1. SubSeq(p, 1, Len(p) - 1) = <<>>
      BY DEF IsSequence
    <3> QED
      BY <1>1, <1>4, <1>5, <3>1 DEF Front
  <2>2. Len(p) \in 1..Len(p)
    BY <1>1, <2>1
  <2>3. Len(Front(p)) = Len(p) - 1 /\ \A j \in 1..(Len(p) - 1) : Front(p)[j] = p[j]
    BY <2>2, BeforeIs DEF Front
  <2>4. Len(p) = K + 1
    BY <1>1, <1>4, <1>5, <2>3
  <2>5. (K + 1) - 1 = K
    BY <1>1
  <2> HIDE DEF K
  <2> QED
    BY <1>5, <2>3, <2>4, <2>5
<1>7. p[K + 1][1] = Item
  BY <1>6 DEF Last
<1>8. ASSUME NEW j \in 1..(K + 1) PROVE p[j][1] = keys[j]
  <2>1. CASE j = K + 1
    BY <1>3, <1>7, <2>1
  <2>2. CASE j = K
    <3>1. p[K] = <<"enum_values", 0>>
      BY <1>1, <1>4, <1>6
    <3> QED
      BY <1>3, <2>2, <3>1
  <2>3. CASE j \in 1..(K - 1)
    <3>1. p[j] = d[j] /\ keys[j] = at[j] /\ j \in 1..Len(d)
      BY <1>1, <1>2, <1>3, <1>4, <1>6, <2>3
    <3> QED
      BY <3>1
  <2> QED
    BY <1>1, <2>1, <2>2, <2>3
<1>9. HasKeys(p, keys)
  BY <1>3, <1>6, <1>8 DEF HasKeys
<1> QED
  BY <1>9 DEF keys, f, Front

LEMMA EnumKeysAre == ASSUME NEW at, IsSequence(at) PROVE IsSequence(Front(at) \o <<"enum_values", Item>>)
<1>1. PICK S : at \in Seq(S)
  BY DEF IsSequence
<1> DEFINE f == SubSeq(at, 1, Len(at) - 1)
           T == S \cup {"enum_values", Item}
<1>2. f \in Seq(S)
  BY <1>1
<1>3. f \in Seq(T)
  BY <1>2, SeqMonotonic
<1> HIDE DEF f
<1>4. <<"enum_values", Item>> \in Seq(T)
  OBVIOUS
<1> HIDE DEF T
<1>5. f \o <<"enum_values", Item>> \in Seq(T)
  BY <1>3, <1>4
<1> QED
  BY <1>5 DEF IsSequence, f, Front

\* The enum values of a descriptor are the same, and where they are renamed they are none that count.
LEMMA EnumAlike ==
  ASSUME box \in Boxes \cup LaterBoxes, NEW data \in DOMAIN DescriptorSources, NEW n \in Index(box, data)
  PROVE  LET E == EnumValues(box, DescriptorSources[data].meta, Front(box.leaves[n].path))
             F == EnumValues(OtherBox, DescriptorSources[data].meta, Front(box.leaves[n].path))
         IN (E = {} <=> F = {}) /\ \A v : Passes(v, "enum") => (v \in E <=> v \in F)
<1> DEFINE c == box.leaves[n]
           at == NamePath(data)
           meta == DescriptorSources[data].meta
           d == Front(c.path)
           keys == Front(at) \o <<"enum_values", Item>>
           Lies(p) == Front(p) = Append(d, <<"enum_values", 0>>) /\ Last(p)[1] = Item
           m == Len(box.leaves)
           J == {j \in 1..m : box.leaves[j].url = meta /\ Lies(box.leaves[j].path)}
           E == EnumValues(box, meta, d)
           F == EnumValues(OtherBox, meta, d)
<1>1. /\ IsPlain(meta) /\ IsSequence(at) /\ Len(at) \in Nat /\ Len(at) > 3 /\ IsRule(meta, keys, "enum")
  BY DataHave
<1>2. meta \in box.ok /\ HasKeys(c.path, at)
  BY IndexAlike
<1>3. DOMAIN box.leaves = 1..m /\ DOMAIN OtherBox.leaves = 1..m
  BY OtherBoxIs DEF AreLeaves
<1>4. IsSequence(d) /\ Len(d) = Len(at) - 1 /\ \A j \in 1..Len(d) : d[j][1] = at[j]
  <2>1. IsSequence(c.path) /\ Len(c.path) = Len(at)
    BY AtName
  <2> HIDE DEF c, at
  <2>2. Len(at) \in 1..Len(c.path)
    BY <1>1, <2>1
  <2>3. IsSequence(d) /\ Len(d) = Len(at) - 1 /\ \A j \in 1..(Len(at) - 1) : d[j] = c.path[j]
    BY <2>1, <2>2, BeforeIs DEF Front
  <2> HIDE DEF d
  <2>4. \A j \in 1..(Len(at) - 1) : j \in 1..Len(at)
    BY <1>1
  <2> QED
    BY <1>2, <2>1, <2>3, <2>4 DEF HasKeys
<1>5. IsSequence(keys)
  BY <1>1, EnumKeysAre
<1> HIDE DEF at, d, meta, c
<1>6. ASSUME NEW p, IsSequence(p), Lies(p) PROVE HasKeys(p, keys)
  <2>1. Len(at) > 1
    BY <1>1
  <2> QED
    BY <1>1, <1>4, <1>6, <2>1, EnumPathIs, Zenon
<1> HIDE DEF keys, Lies
<1>7. ASSUME NEW j \in 1..m PROVE LET a == box.leaves[j] IN
        /\ OtherBox.leaves[j] = Other(a) /\ Other(a).url = a.url
        /\ a.url = meta => (Lies(a.path) <=> Lies(Other(a).path))
  <2> DEFINE a == box.leaves[j]
             b == Other(a)
  <2>1. OtherBox.leaves[j] = b /\ b.url = a.url /\ IsSequence(a.path) /\ IsSequence(b.path)
    BY OtherLeafIs
  <2>2. ASSUME a.url = meta, Lies(a.path) \/ Lies(b.path) PROVE b.path = a.path
    <3>1. HasKeys(a.path, keys) \/ HasKeys(b.path, keys)
      BY <1>6, <2>1, <2>2
    <3> QED
      BY <1>1, <1>2, <1>5, <2>2, <3>1, SamePlace
  <2> HIDE DEF a, b
  <2>3. a.url = meta => (Lies(a.path) <=> Lies(b.path))
    BY <2>2
  <2> QED
    BY <2>1, <2>3 DEF a, b
<1>8. ASSUME NEW j \in J
      PROVE  LET v == box.leaves[j].value
                 w == Other(box.leaves[j]).value
             IN (Passes(v, "enum") => w = v) /\ (Passes(w, "enum") => w = v)
  <2> DEFINE a == box.leaves[j]
  <2>1. j \in 1..m /\ a.url = meta /\ IsSequence(a.path) /\ Lies(a.path)
    BY OtherLeafIs
  <2>2. HasKeys(a.path, keys)
    BY <1>6, <2>1
  <2>3. IsPlain(a.url) /\ a.url \in box.ok /\ IsRule(a.url, keys, "enum")
    BY <1>1, <1>2, <2>1
  <2> HIDE DEF a
  <2>4. HasRule(box, a, "enum")
    BY <1>5, <2>2, <2>3, AtRule
  <2> QED
    BY <2>1, <2>4, EnumsAlike DEF a
<1>9. \A v : v \in E <=> \E j \in J : v = box.leaves[j].value
  BY <1>3 DEF EnumValues, Lies, Range
<1>10. \A v : v \in F <=> \E j \in J : v = Other(box.leaves[j]).value
  <2>1. \A v : v \in F <=> \E j \in 1..m : /\ OtherBox.leaves[j].url = meta /\ Lies(OtherBox.leaves[j].path)
                                           /\ v = OtherBox.leaves[j].value
    BY <1>3 DEF EnumValues, Lies, Range
  <2> QED
    BY <1>7, <2>1
<1> HIDE DEF E, F, J
<1>11. E = {} <=> F = {}
  BY <1>9, <1>10
<1>12. ASSUME NEW v, Passes(v, "enum") PROVE v \in E <=> v \in F
  <2>1. ASSUME v \in E PROVE v \in F
    <3>1. PICK j \in J : v = box.leaves[j].value
      BY <1>9, <2>1
    <3>2. Other(box.leaves[j]).value = v
      BY <1>8, <1>12, <3>1
    <3> QED
      BY <1>10, <3>2
  <2>2. ASSUME v \in F PROVE v \in E
    <3>1. PICK j \in J : v = Other(box.leaves[j]).value
      BY <1>10, <2>2
    <3>2. box.leaves[j].value = v
      BY <1>8, <1>12, <3>1
    <3> QED
      BY <1>9, <3>2
  <2> QED
    BY <2>1, <2>2
<1> QED
  BY <1>11, <1>12 DEF E, F, d, meta, c

\* The rule for a leaf is one of those for its place.
LEMMA RuleIs ==
  ASSUME NEW one, NEW leaf, NEW rule \in RuleOf(one, leaf)
  PROVE  \E n \in RulesOf(one, leaf.url) :
           /\ rule = Rules[leaf.url][n] /\ Len(rule.path) = Len(leaf.path)
           /\ Along(rule.path, leaf.path, Len(rule.path))
<1> DEFINE at == {n \in RulesOf(one, leaf.url) :
                    LET keys == Rules[leaf.url][n].path
                    IN Len(keys) = Len(leaf.path) /\ Along(keys, leaf.path, Len(keys))}
           n == Min(at)
<1>1. RuleOf(one, leaf) = IF at = {} THEN {} ELSE {Rules[leaf.url][n]}
  BY DEF RuleOf
<1>2. at \subseteq Nat
  BY DEF RulesOf
<1> HIDE DEF at
<1>3. at # {} /\ n \in at
  BY <1>1, <1>2, MinIs
<1> HIDE DEF n
<1>4. rule = Rules[leaf.url][n]
  BY <1>1, <1>3
<1>5. /\ n \in RulesOf(one, leaf.url) /\ Len(rule.path) = Len(leaf.path)
      /\ Along(rule.path, leaf.path, Len(rule.path))
  BY <1>3, <1>4 DEF at
<1> QED
  BY <1>4, <1>5

\* What a data rule publishes of a value does not show what the value was.
LEMMA DataAlike ==
  ASSUME box \in Boxes \cup LaterBoxes, DataAreNamed(box), NEW i \in 1..Len(box.leaves),
         box.leaves[i].url \in Range(Order), NEW rule \in RuleOf(box, box.leaves[i]), rule.action = "value"
  PROVE  DataValue(OtherBox, Other(box.leaves[i])) = DataValue(box, box.leaves[i])
<1> DEFINE a == box.leaves[i]
           b == Other(a)
           v == a.value
           w == b.value
           data == a.url
           meta == DescriptorSources[data].meta
           found == DescriptorsOf(box, a)
<1>1. /\ OtherBox.leaves[i] = b /\ b.url = data /\ IsValue(v) /\ v.type \in JSONTypes
      /\ v.type = "null" => v = Null
      /\ IsSequence(a.path)
      /\ (\A d \in 1..Len(a.path) : PublicKey(box, a, d)) => b.path = a.path
  BY OtherLeafIs
<1>2. PICK r \in RulesOf(box, data) :
        /\ rule = Rules[data][r] /\ Len(rule.path) = Len(a.path) /\ Along(rule.path, a.path, Len(rule.path))
  <2> HIDE DEF a
  <2> QED
    BY RuleIs DEF a
<1>3. data \in box.ok /\ rule \in RulesAt(data)
  BY <1>2 DEF RulesOf, RulesAt
<1>4. data \in DOMAIN DescriptorSources /\ rule.path = DataPath(data)
  BY <1>3, DataHaveRules
<1>5. /\ IsPlain(data) /\ IsPlain(meta) /\ IsSequence(NamePath(data)) /\ Len(NamePath(data)) \in Nat
      /\ Len(NamePath(data)) > 3 /\ IsRule(meta, Append(Front(NamePath(data)), "min"), "number")
  BY <1>4, DataHave
<1>6. HasKeys(a.path, rule.path)
  <2> HIDE DEF a
  <2> QED
    BY <1>2, <1>3, <1>5, PlainIs
<1>7. b.path = a.path
  <2> HIDE DEF b
  <2>1. \A d \in 1..Len(a.path) : PublicKey(box, a, d)
    <3> HIDE DEF a
    <3> QED
      BY <1>2, <1>5, <1>6, PublicAlong
  <2> QED
    BY <1>1, <2>1
<1>8. DescriptorsOf(OtherBox, b) = found
  BY <1>3, <1>4, <1>6, <1>7, DescriptorsAlike
<1>9. \/ found = {}
      \/ \E n \in Index(box, data) :
           /\ found = {Front(box.leaves[n].path)}
           /\ DescriptorKey(box, box.leaves[n]) = DescriptorKey(box, a)
  <2> DEFINE named == {n \in Index(box, data) : DescriptorKey(box, box.leaves[n]) = DescriptorKey(box, a)}
             n == Min(named)
  <2>1. found = IF named = {} THEN {} ELSE {Front(box.leaves[n].path)}
    BY DEF DescriptorsOf
  <2>2. named \subseteq Nat
    BY <1>4, IndexAlike
  <2> HIDE DEF named, found
  <2>3. named # {} => n \in named
    BY <2>2, MinIs
  <2> HIDE DEF n
  <2> QED
    BY <2>1, <2>3 DEF named
<1>10. w.type = v.type /\ w = IF PublicValue(a) THEN v ELSE Replaced(v)
  <2>1. w.type = v.type /\ w = OtherValue(a, rule)
    BY OtherValueIs
  <2>2. OtherValue(a, rule) = IF PublicValue(a) THEN v ELSE Replaced(v)
    BY DEF OtherValue, Keeps, Kinds
  <2> QED
    BY <2>1, <2>2
<1>11. CASE v.type \in {"null", "bool"}
  <2>1. PublicValue(a)
    BY <1>1, <1>11 DEF PublicValue, Passing
  <2>2. w = v
    BY <1>10, <2>1
  <2> HIDE DEF a, b, v, w
  <2>3. DataValue(box, a) = v /\ DataValue(OtherBox, b) = w
    BY <1>10, <1>11 DEF DataValue, v, w
  <2> QED
    BY <2>2, <2>3 DEF a, b
<1>12. CASE v.type \in {"int", "float"}
  <2> DEFINE at == Append(CHOOSE d \in found : TRUE, <<"min", 0>>)
             x == IF found = {} THEN Null ELSE Get(box, meta, at)
             y == IF found = {} THEN Null ELSE Get(OtherBox, meta, at)
             Made(p, minimum) ==
               IF minimum.type \notin {"int", "float"} THEN Placeholder(p)
               ELSE Value(p.type, IF p.type = "int" THEN Truncated(minimum.text) ELSE minimum.text)
  <2>1. DataValue(box, a) = Made(v, x)
    BY <1>12 DEF DataValue
  <2>2. DataValue(OtherBox, b) = Made(w, y)
    <3> HIDE DEF a, b, found
    <3> QED
      BY <1>1, <1>8, <1>10, <1>12 DEF DataValue, w
  <2>3. y.type = x.type /\ (x.type \in {"int", "float"} => y = x)
    <3>1. CASE found = {}
      BY <3>1
    <3>2. CASE found # {}
      <4>1. PICK n \in Index(box, data) : found = {Front(box.leaves[n].path)}
        BY <1>9, <3>2
      <4> DEFINE c == box.leaves[n]
                 keys == Append(Front(NamePath(data)), "min")
                 K == Len(NamePath(data))
      <4>2. c.url = meta /\ meta \in box.ok /\ HasKeys(c.path, NamePath(data)) /\ IsSequence(c.path)
        BY <1>4, IndexAlike, AtName
      <4> HIDE DEF c
      <4>3. at = Append(Front(c.path), <<"min", 0>>)
        <5> HIDE DEF found
        <5> QED
          BY <4>1 DEF c
      <4>4. K \in 1..Len(NamePath(data)) /\ Len(c.path) = K
        BY <1>5, <4>2 DEF HasKeys
      <4>5. HasKeys(at, keys) /\ IsSequence(keys)
        <5> DEFINE p == c.path
                   q == NamePath(data)
        <5>1. /\ HasKeys(Append(SubSeq(p, 1, K - 1), <<"min", 0>>), Append(SubSeq(q, 1, K - 1), "min"))
              /\ IsSequence(Append(SubSeq(q, 1, K - 1), "min"))
          <6> HIDE DEF p, q
          <6> QED
            BY <1>5, <4>2, <4>4, BesideIs DEF p, q
        <5>2. SubSeq(p, 1, K - 1) = Front(p) /\ SubSeq(q, 1, K - 1) = Front(q)
          BY <4>4 DEF Front
        <5> QED
          BY <4>3, <5>1, <5>2
      <4> HIDE DEF at, keys, found
      <4>6. LET p == Get(box, meta, at)
                q == Get(OtherBox, meta, at)
            IN q.type = p.type /\ (p.type \in {"int", "float"} => q = p)
        BY <1>5, <4>2, <4>5, NumbersAlike DEF keys
      <4> QED
        BY <3>2, <4>6
    <3> QED
      BY <3>1, <3>2
  <2>4. Placeholder(w) = Placeholder(v)
    BY <1>10, <1>12 DEF Placeholder
  <2> HIDE DEF a, b, v, w, x, y
  <2>5. Made(w, y) = Made(v, x)
    BY <1>10, <2>3, <2>4
  <2> QED
    BY <2>1, <2>2, <2>5 DEF a, b
<1>13. CASE v.type = "str"
  <2> DEFINE E == UNION {EnumValues(box, meta, d) : d \in found}
             F == UNION {EnumValues(OtherBox, meta, d) : d \in found}
             Made(p, enum) ==
               IF enum = {} THEN Placeholder(p)
               ELSE IF p \in enum /\ Passes(p, "enum") THEN p
               ELSE Value("str", "<not-in-enum>")
  <2>1. DataValue(box, a) = Made(v, E)
    BY <1>13 DEF DataValue
  <2>2. DataValue(OtherBox, b) = Made(w, F)
    <3> HIDE DEF a, b, found
    <3> QED
      BY <1>1, <1>8, <1>10, <1>13 DEF DataValue, w
  <2>3. Placeholder(w) = Placeholder(v)
    BY <1>10, <1>13 DEF Placeholder
  <2>4. CASE found = {}
    <3>1. E = {} /\ F = {}
      BY <2>4
    <3> HIDE DEF a, b, v, w, E, F
    <3> QED
      BY <2>1, <2>2, <2>3, <3>1 DEF a, b
  <2>5. CASE found # {}
    <3>1. PICK n \in Index(box, data) :
            /\ found = {Front(box.leaves[n].path)}
            /\ DescriptorKey(box, box.leaves[n]) = DescriptorKey(box, a)
      BY <1>9, <2>5
    <3> DEFINE d == Front(box.leaves[n].path)
    <3>2. E = EnumValues(box, meta, d) /\ F = EnumValues(OtherBox, meta, d)
      <4> HIDE DEF found
      <4> QED
        BY <3>1
    <3>3. (E = {} <=> F = {}) /\ \A p : Passes(p, "enum") => (p \in E <=> p \in F)
      <4> HIDE DEF E, F
      <4> QED
        BY <1>4, <3>2, EnumAlike
    <3>4. v \in E /\ Passes(v, "enum") => w = v
      <4> SUFFICES ASSUME v \in E, Passes(v, "enum") PROVE PublicValue(a)
        BY <1>10
      <4>1. n \in Describing(box, a)
        <5> HIDE DEF a
        <5> QED
          BY <1>1, <1>4, <1>6, <3>1, Linked
      <4>2. Lists(box, a, n)
        BY <3>2 DEF Lists
      <4>3. Fits(v.text, "enum")
        BY DEF Passes
      <4> QED
        BY <1>13, <4>1, <4>2, <4>3 DEF PublicValue, Passing
    <3>5. w = v \/ ~Passes(w, "enum")
      <4>1. ~Passes(Replaced(v), "enum")
        BY <1>13, DataHaveRules DEF Replaced, Value, Passes
      <4> QED
        BY <1>10, <4>1
    <3> HIDE DEF a, b, v, w, E, F
    <3>6. Made(w, F) = Made(v, E)
      BY <2>3, <3>3, <3>4, <3>5
    <3> QED
      BY <2>1, <2>2, <3>6 DEF a, b
  <2> QED
    BY <2>4, <2>5
<1> QED
  BY <1>1, <1>11, <1>12, <1>13 DEF JSONTypes

-----------------------------------------------------------------------------
(* The other capture                                                       *)

LEMMA OtherIsAlike ==
  ASSUME box \in Boxes \cup LaterBoxes, DataAreNamed(box)
  PROVE  AreCapturesAlike(box, OtherBox)
<1> DEFINE m == Len(box.leaves)
<1>1. AreLeaves(box) /\ OtherBox.ok = box.ok /\ Len(OtherBox.leaves) = m
  BY OtherBoxIs
<1>2. ASSUME NEW n \in 1..m, box.leaves[n].url \in Range(Order)
      PROVE  AreValuesAlike(box, box.leaves[n], OtherBox, Other(box.leaves[n]))
  <2> DEFINE a == box.leaves[n]
             b == Other(a)
             v == a.value
             w == b.value
             renamed == Value(v.type, Renamed(v.text))
  <2>1. IsValue(v)
    BY OtherLeafIs
  <2>2. /\ renamed.type = v.type /\ renamed.text = Renamed(v.text)
        /\ \A z \in {Null, Empty} : v # z => renamed # z
        /\ \A keep \in Keeps : Passes(renamed, keep) <=> Passes(v, keep)
    <3> HIDE DEF v
    <3> QED
      BY <2>1, RenamedValueIs
  <2>3. w.type = v.type /\ \A rule \in RuleOf(box, a) : w = OtherValue(a, rule)
    BY OtherValueIs
  <2>4. ASSUME NEW rule \in RuleOf(box, a), rule.action = "value"
        PROVE  DataValue(OtherBox, b) = DataValue(box, a)
    BY <1>2, <2>4, DataAlike
  <2>5. ASSUME NEW rule \in RuleOf(box, a)
        PROVE  /\ rule.action \in Keeps => w = IF v = Null \/ Passes(v, rule.action) THEN v ELSE renamed
               /\ rule.action = "id" => w = IF v \in {Null, Empty} THEN v ELSE renamed
               /\ rule.action \in Kinds => w = IF v = Null THEN v ELSE renamed
    <3>1. w = OtherValue(a, rule)
      BY <2>3
    <3> QED
      BY <3>1 DEF OtherValue, Keeps, Kinds
  <2>6. \A keep \in Keeps : ~Passes(Null, keep)
    BY DEF Passes, Null, Value, Keeps
  <2> HIDE DEF a, b, v, w, renamed
  <2>7. ASSUME NEW rule \in RuleOf(box, a), rule.action \in Keeps
        PROVE  \/ w = v /\ Passes(v, rule.action)
               \/ ~Passes(v, rule.action) /\ ~Passes(w, rule.action)
    BY <2>2, <2>5, <2>6, <2>7
  <2>8. ASSUME NEW rule \in RuleOf(box, a), rule.action = "id"
        PROVE  \/ w = v /\ v \in {Null, Empty}
               \/ {v, w} \cap {Null, Empty} = {} /\ w.text = Renamed(v.text)
    BY <2>2, <2>5, <2>8
  <2>9. ASSUME NEW rule \in RuleOf(box, a), rule.action \in Kinds
        PROVE  \/ w = v /\ v = Null
               \/ Null \notin {v, w} /\ w.text = Renamed(v.text)
    BY <2>2, <2>5, <2>9
  <2>10. AreValuesAlike(box, a, OtherBox, b)
    BY <2>3, <2>4, <2>7, <2>8, <2>9 DEF AreValuesAlike, v, w
  <2> QED
    BY <2>10 DEF a, b
<1>3. ASSUME NEW n \in 1..m
      PROVE  LET a == box.leaves[n]
                 b == OtherBox.leaves[n]
             IN /\ b.url = a.url
                /\ a.url \in Range(Order) =>
                     ArePathsAlike(box, a, b) /\ AreValuesAlike(box, a, OtherBox, b)
  <2> DEFINE a == box.leaves[n]
             b == Other(a)
  <2>1. OtherBox.leaves[n] = b /\ b.url = a.url /\ (a.url \in Range(Order) => ArePathsAlike(box, a, b))
    BY OtherLeafIs
  <2>2. a.url \in Range(Order) => AreValuesAlike(box, a, OtherBox, b)
    BY <1>2
  <2> HIDE DEF a, b
  <2> QED
    BY <2>1, <2>2 DEF a
<1> QED
  BY <1>1, <1>3 DEF AreCapturesAlike, m

-----------------------------------------------------------------------------

\* Whatever the captures, and whatever one-to-one renaming the policy does not see, a
\* capture that differs in its ids, its names, its keys and its redacted values alone is
\* published as the same documents, reports included (Anonymizer in anonymize.py).
THEOREM SecretsDoNotShow == Spec => []Blind
<1>1. ConfinedInv => Blind
  BY OtherIsAlike, AnonymizedAlike DEF ConfinedInv, Blind
<1> QED
  BY <1>1, CaptureIsAnonymized, PTL
-----------------------------------------------------------------------------
(* What the catalog reads of what is published                             *)

CatalogUrls == {Config} \cup Range(Devices) \cup Range(Areas)

\* The steps that the catalog takes, and the ways that have no others.
IsKnown(step) == step[1] \in CatalogKeys \cup {Item}
IsKnownPath(path) == IsSequence(path) /\ \A d \in 1..Len(path) : IsKnown(path[d])

\* They stay, and no other step becomes one of them.
LEMMA KnownPathStays ==
  ASSUME TextsDiffer(Nat), NEW one, NEW leaf, leaf.url \in CatalogUrls, IsSequence(leaf.path),
         \A d \in 1..Len(leaf.path) : leaf.path[d] = <<leaf.path[d][1], leaf.path[d][2]>>,
         NEW out, Publishable(one, leaf, out), IsKnownPath(leaf.path) \/ IsKnownPath(out.path)
  PROVE  out.path = leaf.path
<1>1. IsSequence(out.path) /\ Len(out.path) = Len(leaf.path)
  BY DEF Publishable
<1>2. OpaqueOf(one, leaf.url) = {}
  BY CatalogHasRules DEF CatalogUrls, OpaqueOf
<1>3. ASSUME NEW d \in 1..Len(leaf.path), IsKnown(leaf.path[d]) PROVE PublicKey(one, leaf, d)
  <2>1. leaf.path[d][1] = Item \/ leaf.path[d][1] \notin OddKeys
    BY <1>3, CatalogHasRules DEF IsKnown
  <2> QED
    BY <1>2, <2>1 DEF PublicKey
<1>4. ASSUME NEW d \in 1..Len(leaf.path), IsKnown(out.path[d]) PROVE PublicKey(one, leaf, d)
  <2> SUFFICES ASSUME ~PublicKey(one, leaf, d) PROVE FALSE
    OBVIOUS
  <2>1. KeyMayBe(one, leaf, d, out.path[d])
    BY DEF Publishable
  <2>2. PICK k \in Nat : out.path[d] = <<"<key-" \o ToString(k) \o ">", leaf.path[d][2]>>
    BY <2>1 DEF KeyMayBe
  <2>3. out.path[d][1] = "<key-" \o ToString(k) \o ">"
    BY <2>2
  <2>4. out.path[d][1] \notin CatalogKeys \cup {Item}
    BY <2>3 DEF TextsDiffer
  <2> QED
    BY <1>4, <2>4 DEF IsKnown
<1>5. ASSUME NEW d \in 1..Len(leaf.path) PROVE out.path[d] = leaf.path[d]
  <2>1. IsKnown(leaf.path[d]) \/ IsKnown(out.path[d])
    BY <1>1 DEF IsKnownPath
  <2>2. PublicKey(one, leaf, d)
    BY <1>3, <1>4, <2>1
  <2>3. KeyMayBe(one, leaf, d, out.path[d])
    BY DEF Publishable
  <2> QED
    BY <2>2, <2>3 DEF KeyMayBe
<1> QED
  BY <1>1, <1>5, SequencesAre

\* What the catalog reads is the same, in the same places, and ids are renumbered.
IsReadTheSame(a, b) ==
  /\ b.url = a.url /\ IsSequence(a.path) /\ IsSequence(b.path)
  /\ a.url \in CatalogUrls /\ (IsKnownPath(a.path) \/ IsKnownPath(b.path)) => b.path = a.path
  /\ IsRead(a) => b.value = a.value
ReadsTheSame(one, out) ==
  /\ Len(one.leaves) \in Nat /\ DOMAIN one.leaves = 1..Len(one.leaves)
  /\ Len(out.leaves) = Len(one.leaves) /\ DOMAIN out.leaves = 1..Len(one.leaves)
  /\ \A i \in 1..Len(one.leaves) : IsReadTheSame(one.leaves[i], out.leaves[i])

\* What is found at such a place.
LEMMA GetRead ==
  ASSUME NEW one, NEW out, ReadsTheSame(one, out), NEW url \in CatalogUrls, NEW q, IsKnownPath(q)
  PROVE  \/ Get(one, url, q) = Null /\ Get(out, url, q) = Null
         \/ \E i \in 1..Len(one.leaves) :
              /\ one.leaves[i].url = url /\ one.leaves[i].path = q
              /\ Get(one, url, q) = one.leaves[i].value /\ Get(out, url, q) = out.leaves[i].value
<1>1. HaveTheSame(one, out, url, q)
  BY DEF HaveTheSame, ReadsTheSame, IsReadTheSame
<1> QED
  BY <1>1, GetBoth

\* The way to a field or a command, or on from there.
IsUnder(url, path) ==
  /\ url \in Range(Devices) \cup Range(Areas) /\ IsKnownPath(path)
  /\ \E keys \in EntryPaths(url) : Len(keys) <= Len(path) /\ \A n \in 1..Len(keys) : path[n][1] = keys[n]

\* The keys to a field or a command.
LEMMA EntryPathIs ==
  ASSUME NEW url, NEW keys \in EntryPaths(url)
  PROVE  /\ IsSequence(keys) /\ Len(keys) \in Nat /\ Len(keys) > 2 /\ DOMAIN keys = 1..Len(keys)
         /\ \A n \in 1..Len(keys) : keys[n] \in CatalogKeys \cup {Item}
         /\ url \notin Range(Areas) =>
              Len(keys) = 5 /\ keys[1] = Item /\ keys[2] = "endpoints" /\ keys[3] = Item /\ keys[4] # Item
<1>1. PICK list \in {"metadata", "cmetadata"} :
        keys = (IF url \in Range(Areas) THEN <<Item>> ELSE EndpointOf) \o <<list, Item>>
  BY DEF EntryPaths
<1>2. list \in CatalogKeys /\ "endpoints" \in CatalogKeys
  BY DEF CatalogKeys
<1> DEFINE S == {Item, list, "endpoints"}
           tail == <<list, Item>>
<1>3. tail \in Seq(S) /\ Len(tail) = 2 /\ tail[1] = list /\ tail[2] = Item
  OBVIOUS
<1>4. \A key \in S : key \in CatalogKeys \cup {Item}
  BY <1>2
<1>5. ASSUME NEW start \in Seq(S), keys = start \o tail
      PROVE  /\ keys \in Seq(S) /\ Len(keys) = Len(start) + 2
             /\ \A n \in 1..Len(start) : keys[n] = start[n]
             /\ keys[Len(start) + 1] = list
  <2> HIDE DEF S, tail
  <2>1. Len(start) \in Nat
    OBVIOUS
  <2>2. tail \in Seq(S)
    BY <1>3
  <2>3. start \o tail \in Seq(S)
    BY <2>2
  <2>4. Len(start \o tail) = Len(start) + Len(tail)
    BY <2>2
  <2>5. \A n \in 1..Len(start) : (start \o tail)[n] = start[n]
    BY <2>1, <2>2
  <2>6. (start \o tail)[Len(start) + 1] = tail[1]
    <3> DEFINE k == Len(start) + 1
    <3>1. k \in 1..(Len(start) + 2) /\ ~(k <= Len(start)) /\ k - Len(start) = 1
      BY <2>1
    <3>2. k \in 1..(Len(start) + Len(tail))
      BY <1>3, <3>1
    <3> HIDE DEF k
    <3>3. (start \o tail)[k] = tail[k - Len(start)]
      BY <2>2, <3>1, <3>2, ConcatProperties
    <3> QED
      BY <3>1, <3>3 DEF k
  <2> QED
    BY <1>3, <1>5, <2>3, <2>4, <2>5, <2>6
<1>6. ASSUME keys \in Seq(S)
      PROVE  /\ IsSequence(keys) /\ Len(keys) \in Nat /\ DOMAIN keys = 1..Len(keys)
             /\ \A n \in 1..Len(keys) : keys[n] \in CatalogKeys \cup {Item}
  <2> HIDE DEF S
  <2>1. IsSequence(keys)
    BY <1>6 DEF IsSequence
  <2>2. Len(keys) \in Nat /\ DOMAIN keys = 1..Len(keys) /\ \A n \in 1..Len(keys) : keys[n] \in S
    BY <1>6
  <2> QED
    BY <1>4, <2>1, <2>2
<1>7. CASE url \in Range(Areas)
  <2> DEFINE start == <<Item>>
  <2>1. start \in Seq(S) /\ Len(start) = 1
    OBVIOUS
  <2>2. keys = start \o tail
    BY <1>1, <1>7
  <2>3. keys \in Seq(S) /\ Len(keys) = 3
    <3> HIDE DEF S, tail, start
    <3>1. keys \in Seq(S) /\ Len(keys) = 1 + 2
      BY <1>5, <2>1, <2>2
    <3> QED
      BY <3>1
  <2> HIDE DEF S, tail
  <2> QED
    BY <1>6, <1>7, <2>3
<1>8. CASE url \notin Range(Areas)
  <2>1. EndpointOf \in Seq(S) /\ Len(EndpointOf) = 3
    BY DEF EndpointOf
  <2>2. keys = EndpointOf \o tail
    BY <1>1, <1>8
  <2>3. EndpointOf[1] = Item /\ EndpointOf[2] = "endpoints" /\ EndpointOf[3] = Item
    BY DEF EndpointOf
  <2> HIDE DEF S, tail
  <2>4. keys \in Seq(S) /\ Len(keys) = 3 + 2 /\ keys[3 + 1] = list /\ \A n \in 1..3 : keys[n] = EndpointOf[n]
    BY <1>5, <2>1, <2>2
  <2>5. Len(keys) = 5 /\ keys[1] = Item /\ keys[2] = "endpoints" /\ keys[3] = Item /\ keys[4] # Item
    <3>1. list # Item
      BY DEF Item
    <3> QED
      BY <2>3, <2>4, <3>1
  <2> HIDE DEF S
  <2> QED
    BY <1>6, <1>8, <2>4, <2>5
<1> QED
  BY <1>7, <1>8

\* The keys of a path, one for each step.
LEMMA GenericIs ==
  ASSUME NEW path, IsSequence(path)
  PROVE  /\ IsSequence(Generic(path)) /\ Len(path) \in Nat /\ Len(Generic(path)) = Len(path)
         /\ \A n \in 1..Len(path) : Generic(path)[n] = path[n][1]
<1>1. DOMAIN path = 1..Len(path) /\ Len(path) \in Nat
  BY DEF IsSequence
<1>2. Generic(path) = [n \in 1..Len(path) |-> path[n][1]]
  BY <1>1 DEF Generic
<1>3. Generic(path) \in Seq({path[n][1] : n \in 1..Len(path)}) /\ Len(Generic(path)) = Len(path)
  BY <1>1, <1>2, IsASeq
<1> QED
  BY <1>1, <1>2, <1>3 DEF IsSequence

\* What is there is read, and so is what is further on.
LEMMA UnderIs ==
  ASSUME NEW leaf, IsUnder(leaf.url, leaf.path)
  PROVE  IsRead(leaf) /\ leaf.url \in CatalogUrls /\ IsKnownPath(leaf.path)
<1> DEFINE path == leaf.path
<1>1. PICK keys \in EntryPaths(leaf.url) : Len(keys) <= Len(path) /\ \A n \in 1..Len(keys) : path[n][1] = keys[n]
  BY DEF IsUnder
<1>2. DOMAIN keys = 1..Len(keys) /\ Len(keys) \in Nat
  BY EntryPathIs
<1>3. DOMAIN path = 1..Len(path) /\ Len(path) \in Nat
  BY DEF IsUnder, IsKnownPath, IsSequence
<1>4. Len(Generic(path)) = Len(path) /\ \A n \in 1..Len(path) : Generic(path)[n] = path[n][1]
  BY GenericIs DEF IsUnder, IsKnownPath
<1> HIDE DEF path
<1>5. Len(keys) <= Len(Generic(path)) /\ \A n \in DOMAIN keys : Generic(path)[n] = keys[n]
  BY <1>1, <1>2, <1>3, <1>4
<1>6. leaf.url \in Range(Devices) \cup Range(Areas)
  BY DEF IsUnder
<1>7. IsRead(leaf)
  BY <1>5, <1>6 DEF IsRead, path
<1> QED
  BY <1>6, <1>7 DEF IsUnder, CatalogUrls

LEMMA UnderMore ==
  ASSUME NEW url, NEW path, IsUnder(url, path), NEW step, IsKnown(step)
  PROVE  IsUnder(url, Append(path, step))
<1> DEFINE more == Append(path, step)
           k == Len(path) + 1
<1>1. IsSequence(path) /\ Len(path) \in Nat
  BY DEF IsUnder, IsKnownPath, IsSequence
<1>2. k \in Nat /\ Len(path) = k - 1
  BY <1>1
<1>3. IsSequence(more) /\ Len(more) = k /\ more[k] = step /\ \A d \in 1..(k - 1) : more[d] = path[d]
  BY <1>1, <1>2, AppendIs
<1> HIDE DEF more
<1>4. IsKnownPath(more)
  <2>1. \A d \in 1..k : d = k \/ d \in 1..(k - 1)
    BY <1>2
  <2>2. \A d \in 1..(k - 1) : IsKnown(path[d])
    BY <1>2 DEF IsUnder, IsKnownPath
  <2> HIDE DEF k
  <2> QED
    BY <1>3, <2>1, <2>2 DEF IsKnownPath
<1>5. PICK keys \in EntryPaths(url) : Len(keys) <= Len(path) /\ \A n \in 1..Len(keys) : path[n][1] = keys[n]
  BY DEF IsUnder
<1>6. Len(keys) \in Nat
  BY EntryPathIs
<1>7. Len(keys) <= Len(more) /\ \A n \in 1..Len(keys) : more[n][1] = keys[n]
  BY <1>1, <1>3, <1>5, <1>6
<1> QED
  BY <1>4, <1>5, <1>7 DEF IsUnder, more

LEMMA KeysUnder ==
  ASSUME NEW url, NEW path, IsUnder(url, path), NEW key \in CatalogKeys
  PROVE  IsUnder(url, Keys(path, key))
BY UnderMore DEF Keys, IsKnown

\* A leaf there is the same in both.
LEMMA UnderSame ==
  ASSUME NEW one, NEW out, ReadsTheSame(one, out), NEW i \in 1..Len(one.leaves),
         NEW a, a = one.leaves[i], NEW b, b = out.leaves[i],
         IsUnder(a.url, a.path) \/ IsUnder(b.url, b.path)
  PROVE  b.url = a.url /\ b.path = a.path /\ b.value = a.value
<1>1. IsReadTheSame(a, b)
  BY DEF ReadsTheSame
<1>2. b.url = a.url
  BY <1>1 DEF IsReadTheSame
<1>3. b.path = a.path
  BY <1>1, <1>2, UnderIs DEF IsReadTheSame
<1>4. IsRead(a)
  BY <1>2, <1>3, UnderIs
<1> QED
  BY <1>1, <1>2, <1>3, <1>4 DEF IsReadTheSame

LEMMA TextUnder ==
  ASSUME NEW one, NEW out, ReadsTheSame(one, out), NEW url, NEW path, IsUnder(url, path)
  PROVE  Text(out, url, path) = Text(one, url, path)
<1>1. url \in CatalogUrls /\ IsKnownPath(path)
  BY DEF IsUnder, CatalogUrls
<1>2. CASE Get(one, url, path) = Null /\ Get(out, url, path) = Null
  BY <1>2 DEF Text
<1>3. ASSUME NEW i \in 1..Len(one.leaves), one.leaves[i].url = url, one.leaves[i].path = path,
             Get(one, url, path) = one.leaves[i].value, Get(out, url, path) = out.leaves[i].value
      PROVE  Text(out, url, path) = Text(one, url, path)
  BY <1>3, UnderSame DEF Text
<1> QED
  BY <1>1, <1>2, <1>3, GetRead

\* A path that is not that of the root, as the way to its last step.
LEMMA FrontIs ==
  ASSUME NEW path, IsSequence(path), Front(path) # <<>>
  PROVE  /\ IsSequence(Front(path)) /\ Len(path) \in Nat /\ Len(path) > 0
         /\ Len(Front(path)) = Len(path) - 1 /\ path = Append(Front(path), Last(path))
<1>1. PICK S : path \in Seq(S)
  BY DEF IsSequence
<1>2. path # <<>>
  BY DEF Front
<1>3. Len(path) \in Nat /\ Len(path) > 0
  BY <1>1, <1>2
<1>4. IsSequence(Front(path)) /\ Len(Front(path)) = Len(path) - 1 /\ \A d \in 1..(Len(path) - 1) : Front(path)[d] = path[d]
  BY <1>3, BeforeIs DEF Front
<1> DEFINE whole == Append(Front(path), Last(path))
           k == Len(path)
<1>5. k \in Nat /\ path[k] = Last(path)
  BY <1>3 DEF Last
<1>6. IsSequence(whole) /\ Len(whole) = k /\ whole[k] = Last(path) /\ \A d \in 1..(k - 1) : whole[d] = Front(path)[d]
  BY <1>4, <1>5, AppendIs
<1>7. \A d \in 1..k : d = k \/ d \in 1..(k - 1)
  BY <1>5
<1> HIDE DEF whole
<1>8. path = whole
  BY <1>4, <1>5, <1>6, <1>7, SequencesAre
<1> QED
  BY <1>3, <1>4, <1>8 DEF whole

LEMMA UnderLast ==
  ASSUME NEW url, NEW path, IsSequence(path), IsUnder(url, Front(path)), IsKnown(Last(path))
  PROVE  IsUnder(url, path)
<1>1. PICK keys \in EntryPaths(url) : Len(keys) <= Len(Front(path))
  BY DEF IsUnder
<1>2. Len(keys) \in Nat /\ Len(keys) > 2
  BY EntryPathIs
<1>3. Len(<<>>) = 0
  OBVIOUS
<1>4. Front(path) # <<>>
  BY <1>1, <1>2, <1>3
<1>5. path = Append(Front(path), Last(path))
  BY <1>4, FrontIs
<1>6. IsUnder(url, Append(Front(path), Last(path)))
  BY UnderMore
<1> QED
  BY <1>5, <1>6

LEMMA EnumRead ==
  ASSUME NEW one, NEW out, ReadsTheSame(one, out), NEW url, NEW path, IsUnder(url, path)
  PROVE  EnumValues(out, url, path) = EnumValues(one, url, path)
<1> DEFINE In(l) == l.url = url /\ Front(l.path) = Keys(path, "enum_values") /\ Last(l.path)[1] = Item
           m == Len(one.leaves)
<1>1. ASSUME NEW c, DOMAIN c.leaves = 1..m, NEW v
      PROVE  v \in EnumValues(c, url, path) <=> \E i \in 1..m : In(c.leaves[i]) /\ v = c.leaves[i].value
  BY <1>1 DEF EnumValues, Range, Keys
<1>2. ASSUME NEW l, IsSequence(l.path), In(l) PROVE IsUnder(l.url, l.path)
  <2>1. "enum_values" \in CatalogKeys
    BY DEF CatalogKeys
  <2>2. IsUnder(url, Front(l.path)) /\ IsKnown(Last(l.path))
    BY <1>2, <2>1, KeysUnder DEF IsKnown
  <2> QED
    BY <1>2, <2>2, UnderLast
<1>3. ASSUME NEW i \in 1..m
      PROVE  /\ In(one.leaves[i]) <=> In(out.leaves[i])
             /\ In(one.leaves[i]) => out.leaves[i].value = one.leaves[i].value
  <2> DEFINE a == one.leaves[i]
             b == out.leaves[i]
  <2>1. IsSequence(a.path) /\ IsSequence(b.path)
    BY DEF ReadsTheSame, IsReadTheSame
  <2>2. ASSUME In(a) \/ In(b) PROVE b.url = a.url /\ b.path = a.path /\ b.value = a.value
    <3>1. IsUnder(a.url, a.path) \/ IsUnder(b.url, b.path)
      BY <1>2, <2>1, <2>2
    <3> QED
      BY <3>1, UnderSame
  <2> QED
    BY <2>2
<1>4. DOMAIN one.leaves = 1..m /\ DOMAIN out.leaves = 1..m
  BY DEF ReadsTheSame
<1> HIDE DEF In, m
<1>5. ASSUME NEW v PROVE v \in EnumValues(out, url, path) <=> v \in EnumValues(one, url, path)
  <2>1. v \in EnumValues(one, url, path) <=> \E i \in 1..m : In(one.leaves[i]) /\ v = one.leaves[i].value
    BY <1>1, <1>4
  <2>2. v \in EnumValues(out, url, path) <=> \E i \in 1..m : In(out.leaves[i]) /\ v = out.leaves[i].value
    BY <1>1, <1>4
  <2> QED
    BY <1>3, <2>1, <2>2
<1> QED
  BY <1>5 DEF EnumValues

LEMMA DescriptorRead ==
  ASSUME NEW one, NEW out, ReadsTheSame(one, out), NEW url, NEW path, IsUnder(url, path)
  PROVE  DescriptorAt(out, url, path) = DescriptorAt(one, url, path)
<1>1. ASSUME NEW attribute \in Attributes
      PROVE  Text(out, url, Keys(path, attribute)) = Text(one, url, Keys(path, attribute))
  BY KeysUnder, TextUnder DEF CatalogKeys
<1>2. EnumValues(out, url, path) = EnumValues(one, url, path)
  BY EnumRead
<1> QED
  BY <1>1, <1>2 DEF DescriptorAt

LEMMA ParametersRead ==
  ASSUME NEW one, NEW out, ReadsTheSame(one, out), NEW url, NEW path, IsUnder(url, path)
  PROVE  /\ Parameters(out, url, path) = Parameters(one, url, path)
         /\ \A item \in Parameters(one, url, path) : IsKnown(item)
<1> DEFINE In(l) == /\ l.url = url /\ Front(Front(l.path)) = Keys(path, "parameters")
                    /\ Last(Front(l.path))[1] = Item /\ Last(l.path) = <<"name", 0>>
           m == Len(one.leaves)
<1>1. ASSUME NEW c, DOMAIN c.leaves = 1..m, NEW v
      PROVE  v \in Parameters(c, url, path) <=> \E i \in 1..m : In(c.leaves[i]) /\ v = Last(Front(c.leaves[i].path))
  BY <1>1 DEF Parameters, Range
<1>2. "parameters" \in CatalogKeys /\ "name" \in CatalogKeys /\ <<"name", 0>>[1] = "name"
  BY DEF CatalogKeys
<1>3. ASSUME NEW l, IsSequence(l.path), In(l) PROVE IsUnder(l.url, l.path)
  <2>1. IsUnder(url, Front(Front(l.path)))
    BY <1>2, <1>3, KeysUnder
  <2>2. PICK keys \in EntryPaths(url) : Len(keys) <= Len(Front(Front(l.path)))
    BY <2>1 DEF IsUnder
  <2>3. Len(keys) \in Nat /\ Len(keys) > 2 /\ Len(<<>>) = 0 /\ Front(<<>>) = <<>>
    BY EntryPathIs DEF Front
  <2>4. Front(l.path) # <<>>
    BY <2>2, <2>3
  <2>5. IsSequence(Front(l.path))
    BY <1>3, <2>4, FrontIs
  <2>6. IsUnder(url, Front(l.path))
    BY <1>3, <2>1, <2>5, UnderLast DEF IsKnown
  <2> QED
    BY <1>2, <1>3, <2>6, UnderLast DEF IsKnown
<1>4. ASSUME NEW i \in 1..m
      PROVE  /\ In(one.leaves[i]) <=> In(out.leaves[i])
             /\ In(one.leaves[i]) => out.leaves[i].path = one.leaves[i].path
  <2> DEFINE a == one.leaves[i]
             b == out.leaves[i]
  <2>1. IsSequence(a.path) /\ IsSequence(b.path)
    BY DEF ReadsTheSame, IsReadTheSame
  <2>2. ASSUME In(a) \/ In(b) PROVE b.url = a.url /\ b.path = a.path
    <3>1. IsUnder(a.url, a.path) \/ IsUnder(b.url, b.path)
      BY <1>3, <2>1, <2>2
    <3> QED
      BY <3>1, UnderSame
  <2> QED
    BY <2>2
<1>5. DOMAIN one.leaves = 1..m /\ DOMAIN out.leaves = 1..m
  BY DEF ReadsTheSame
<1>6. \A l : In(l) => IsKnown(Last(Front(l.path)))
  BY DEF IsKnown
<1> HIDE DEF In, m
<1>7. ASSUME NEW v
      PROVE  /\ v \in Parameters(out, url, path) <=> v \in Parameters(one, url, path)
             /\ v \in Parameters(one, url, path) => IsKnown(v)
  <2>1. v \in Parameters(one, url, path) <=> \E i \in 1..m : In(one.leaves[i]) /\ v = Last(Front(one.leaves[i].path))
    BY <1>1, <1>5
  <2>2. v \in Parameters(out, url, path) <=> \E i \in 1..m : In(out.leaves[i]) /\ v = Last(Front(out.leaves[i].path))
    BY <1>1, <1>5
  <2> QED
    BY <1>4, <1>6, <2>1, <2>2
<1> QED
  BY <1>7 DEF Parameters

LEMMA CommandRead ==
  ASSUME NEW one, NEW out, ReadsTheSame(one, out), NEW url, NEW path, IsUnder(url, path)
  PROVE  CommandAt(out, url, path) = CommandAt(one, url, path)
<1> DEFINE at(item) == Append(Keys(path, "parameters"), item)
           P == Parameters(one, url, path)
<1>1. {"parameters", "name", "permission"} \subseteq CatalogKeys
  BY DEF CatalogKeys, Attributes
<1>2. Parameters(out, url, path) = P /\ \A item \in P : IsKnown(item)
  BY ParametersRead
<1>3. Text(out, url, Keys(path, "permission")) = Text(one, url, Keys(path, "permission"))
  BY <1>1, KeysUnder, TextUnder
<1>4. ASSUME NEW item \in P
      PROVE  /\ Text(out, url, Keys(at(item), "name")) = Text(one, url, Keys(at(item), "name"))
             /\ DescriptorAt(out, url, at(item)) = DescriptorAt(one, url, at(item))
  <2>1. IsUnder(url, at(item))
    BY <1>1, <1>2, KeysUnder, UnderMore
  <2> HIDE DEF at
  <2>2. IsUnder(url, Keys(at(item), "name"))
    BY <1>1, <2>1, KeysUnder
  <2> QED
    BY <2>1, <2>2, TextUnder, DescriptorRead
<1> QED
  BY <1>2, <1>3, <1>4 DEF CommandAt

\* The leaf with the name of a field or a command.
IsNamed(leaf) ==
  /\ leaf.url \in Range(Devices) \cup Range(Areas)
  /\ Generic(leaf.path) \in {Append(path, "name") : path \in EntryPaths(leaf.url)}

LEMMA NamedIs ==
  ASSUME NEW leaf, IsSequence(leaf.path), IsNamed(leaf)
  PROVE  /\ IsUnder(leaf.url, leaf.path) /\ IsUnder(leaf.url, Front(leaf.path))
         /\ \E keys \in EntryPaths(leaf.url) :
              /\ Len(leaf.path) = Len(keys) + 1
              /\ \A n \in 1..Len(keys) : leaf.path[n][1] = keys[n]
<1> DEFINE path == leaf.path
           url == leaf.url
<1>1. PICK keys \in EntryPaths(url) : Generic(path) = Append(keys, "name")
  BY DEF IsNamed
<1> DEFINE k == Len(keys)
           whole == Append(keys, "name")
<1>2. IsSequence(keys) /\ k \in Nat /\ k > 2 /\ \A n \in 1..k : keys[n] \in CatalogKeys \cup {Item}
  BY EntryPathIs
<1>3. k + 1 \in Nat /\ k = (k + 1) - 1 /\ \A n \in 1..(k + 1) : n = k + 1 \/ n \in 1..k
  BY <1>2
<1>4. Len(whole) = k + 1 /\ whole[k + 1] = "name" /\ \A n \in 1..k : whole[n] = keys[n]
  BY <1>2, <1>3, AppendIs
<1>5. Len(path) = k + 1 /\ path[k + 1][1] = "name" /\ \A n \in 1..k : path[n][1] = keys[n]
  <2> HIDE DEF whole, k
  <2>1. Len(path) = Len(Generic(path)) /\ Len(path) \in Nat /\ \A n \in 1..Len(path) : Generic(path)[n] = path[n][1]
    BY GenericIs
  <2>2. Generic(path) = whole
    BY <1>1 DEF whole
  <2>3. Len(path) = k + 1
    BY <1>4, <2>1, <2>2
  <2>4. k + 1 \in 1..(k + 1) /\ \A n \in 1..k : n \in 1..(k + 1)
    BY <1>2
  <2> QED
    BY <1>4, <2>1, <2>2, <2>3, <2>4
<1> HIDE DEF k, path, whole
<1>6. \A n \in 1..(k + 1) : IsKnown(path[n])
  <2>1. "name" \in CatalogKeys
    BY DEF CatalogKeys
  <2> QED
    BY <1>2, <1>3, <1>5, <2>1 DEF IsKnown
<1>7. url \in Range(Devices) \cup Range(Areas)
  BY DEF IsNamed
<1>8. k + 1 \in 1..Len(path) /\ k \in 1..Len(path) /\ \A n \in 1..k : n \in 1..(k + 1)
  BY <1>2, <1>5
<1>9. Len(Front(path)) = k /\ IsSequence(Front(path)) /\ \A n \in 1..k : Front(path)[n] = path[n]
  BY <1>3, <1>5, <1>8, BeforeIs DEF Front, path
<1>10. k <= k + 1 /\ k <= k
  BY <1>2
<1>11. IsUnder(url, path)
  BY <1>5, <1>6, <1>7, <1>10 DEF IsUnder, IsKnownPath, path, k
<1>12. IsUnder(url, Front(path))
  <2>1. \A n \in 1..k : Front(path)[n][1] = keys[n] /\ IsKnown(Front(path)[n])
    BY <1>5, <1>6, <1>8, <1>9
  <2> QED
    BY <1>7, <1>9, <1>10, <2>1 DEF IsUnder, IsKnownPath, k
<1> QED
  BY <1>5, <1>11, <1>12 DEF path, k

\* The entry of a field or a command, of the same usage.
LEMMA EntryRead ==
  ASSUME NEW one, NEW out, ReadsTheSame(one, out), NEW i \in 1..Len(one.leaves),
         NEW a, a = one.leaves[i], NEW b, b = out.leaves[i], IsNamed(a) \/ IsNamed(b)
  PROVE  /\ IsNamed(a) /\ IsNamed(b) /\ b.url = a.url /\ b.path = a.path
         /\ \A usage : Entry(out, b, usage) = Entry(one, a, usage)
<1>1. IsReadTheSame(a, b)
  BY DEF ReadsTheSame
<1>2. IsSequence(a.path) /\ IsSequence(b.path)
  BY <1>1 DEF IsReadTheSame
<1>3. IsUnder(a.url, a.path) \/ IsUnder(b.url, b.path)
  BY <1>2, NamedIs
<1>4. b.url = a.url /\ b.path = a.path /\ b.value = a.value
  BY <1>3, UnderSame
<1>5. IsNamed(a) /\ IsNamed(b)
  BY <1>4 DEF IsNamed
<1> DEFINE path == Front(a.path)
<1>6. IsUnder(a.url, path)
  BY <1>2, <1>5, NamedIs
<1>7. DescriptorAt(out, a.url, path) = DescriptorAt(one, a.url, path)
  BY <1>6, DescriptorRead
<1>8. CommandAt(out, a.url, path) = CommandAt(one, a.url, path)
  BY <1>6, CommandRead
<1>9. ASSUME NEW usage PROVE Entry(out, b, usage) = Entry(one, a, usage)
  BY <1>4, <1>7, <1>8 DEF Entry
<1> QED
  BY <1>4, <1>5, <1>9

-----------------------------------------------------------------------------
(* The ids on the way to a usage                                           *)

\* Every id has its number.
KeepsIds(one, out, ids) ==
  /\ out.ok = one.ok /\ AreIds(ids)
  /\ \A i \in 1..Len(one.leaves) : KeepsNumber(one, one.leaves[i], out.leaves[i], ids)

\* A step that is none to a list item is a key.
StepsAreKeys(one) ==
  \A i \in 1..Len(one.leaves) : \A d \in 1..Len(one.leaves[i].path) :
    one.leaves[i].path[d][1] # Item => one.leaves[i].path[d][2] = 0

\* Two ids have the same number when they are the same.
LEMMA NumbersApart ==
  ASSUME TextsDiffer(Nat), NEW ids, AreIds(ids),
         NEW x, NEW s, Numbers(ids, x, s), NEW y, NEW t, Numbers(ids, y, t)
  PROVE  s = t <=> x = y
<1>1. PICK k \in 1..Len(ids) : ids[k] = x /\ s = ToString(k)
  BY DEF Numbers
<1>2. PICK l \in 1..Len(ids) : ids[l] = y /\ t = ToString(l)
  BY DEF Numbers
<1>3. k \in Nat /\ l \in Nat
  BY DEF AreIds, IsSequence
<1>4. ToString(k) = ToString(l) => k = l
  BY <1>3 DEF TextsDiffer
<1>5. ids[k] = ids[l] => k = l
  BY DEF AreIds
<1> QED
  BY <1>1, <1>2, <1>4, <1>5

\* The ids of the objects of a config and of a document of devices are ints.
LEMMA TypesAre ==
  /\ \A key \in {"id_device", "id_endpoint"} : <<key, {"int"}>> \in Types(<<"endpoints", Item>>)
  /\ <<"id", {"int"}>> \in Types(<<Item>>) /\ <<"id", {"int"}>> \in Types(EndpointOf)
<1>1. \A key \in {"id_device", "id_endpoint"} : <<key, {"int"}>> \in Types(<<"endpoints", Item>>)
  <2> DEFINE g == <<"endpoints", Item>>
  <2>1. g # <<>> /\ Len(g) = 2 /\ Last(g) = Item /\ g[Len(g) - 1] = "endpoints"
    BY DEF Last
  <2> QED
    BY <2>1 DEF Types
<1>2. <<"id", {"int"}>> \in Types(<<Item>>)
  <2> DEFINE g == <<Item>>
  <2>1. g # <<>> /\ Len(g) = 1 /\ Last(g) = Item /\ g # <<"endpoints", Item>>
    BY DEF Last
  <2>2. Item # "endpoints" /\ Item # "metadata" /\ Item # "parameters" /\ Item # "cmetadata"
    BY DEF Item
  <2> QED
    BY <2>1, <2>2 DEF Types
<1>3. <<"id", {"int"}>> \in Types(EndpointOf)
  <2> DEFINE g == EndpointOf
  <2>1. Len(g) = 3 /\ g[3] = Item /\ g[3 - 1] = "endpoints"
    BY DEF EndpointOf
  <2>2. Len(<<>>) = 0 /\ Len(<<"endpoints", Item>>) = 2 /\ 3 > 1
    OBVIOUS
  <2> HIDE DEF g
  <2>3. g # <<>> /\ g # <<"endpoints", Item>>
    BY <2>1, <2>2
  <2>4. g[Len(g)] = Item /\ g[Len(g) - 1] = "endpoints" /\ Len(g) > 1
    BY <2>1
  <2>5. Last(g) = Item
    BY <2>4 DEF Last
  <2>6. {"id"} \X {{"int"}} \subseteq Types(g)
    BY <2>3, <2>4, <2>5 DEF Types
  <2>7. <<"id", {"int"}>> \in Types(g)
    BY <2>6
  <2> QED
    BY <2>7 DEF g
<1> QED
  BY <1>1, <1>2, <1>3

\* One key more.
LEMMA MoreKeys ==
  ASSUME NEW x, NEW y, NEW z
  PROVE  Append(<<x>>, y) = <<x, y>> /\ Append(<<x, y>>, z) = <<x, y, z>>
<1> DEFINE S == {x, y, z}
           one == <<x>>
           two == <<x, y>>
           three == <<x, y, z>>
<1>1. ASSUME NEW s \in Seq(S), NEW e \in S
      PROVE  /\ IsSequence(Append(s, e)) /\ Len(Append(s, e)) = Len(s) + 1
             /\ Append(s, e)[Len(s) + 1] = e /\ \A d \in 1..Len(s) : Append(s, e)[d] = s[d]
  <2> HIDE DEF S
  <2>1. Append(s, e) \in Seq(S) /\ Len(Append(s, e)) = Len(s) + 1
    BY AppendProperties
  <2>2. Append(s, e)[Len(s) + 1] = e /\ \A d \in 1..Len(s) : Append(s, e)[d] = s[d]
    BY AppendProperties
  <2> QED
    BY <2>1, <2>2 DEF IsSequence
<1>2. /\ one \in Seq(S) /\ Len(one) = 1 /\ one[1] = x
      /\ two \in Seq(S) /\ Len(two) = 2 /\ two[1] = x /\ two[2] = y
      /\ three \in Seq(S) /\ Len(three) = 3 /\ three[1] = x /\ three[2] = y /\ three[3] = z
      /\ y \in S /\ z \in S
  OBVIOUS
<1>3. 1 + 1 = 2 /\ 2 + 1 = 3 /\ 1 \in 1..1 /\ 1 \in 1..2 /\ 2 \in 1..2
  OBVIOUS
<1> HIDE DEF S, one, two, three
<1>4. IsSequence(two) /\ IsSequence(three)
  BY <1>2 DEF IsSequence
<1>5. Append(one, y) = two
  <2> DEFINE more == Append(one, y)
  <2>1. IsSequence(more) /\ Len(more) = 2 /\ more[1] = x /\ more[2] = y
    <3>1. one \in Seq(S) /\ y \in S
      BY <1>2
    <3>2. /\ IsSequence(more) /\ Len(more) = Len(one) + 1 /\ more[Len(one) + 1] = y
          /\ \A d \in 1..Len(one) : more[d] = one[d]
      BY <1>1, <3>1
    <3> HIDE DEF more
    <3> QED
      BY <1>2, <1>3, <3>2
  <2>2. \A d \in 1..2 : d = 1 \/ d = 2
    OBVIOUS
  <2> HIDE DEF more
  <2>3. more = two
    BY <1>2, <1>4, <2>1, <2>2, SequencesAre
  <2> QED
    BY <2>3 DEF more
<1>6. Append(two, z) = three
  <2> DEFINE more == Append(two, z)
  <2>1. IsSequence(more) /\ Len(more) = 3 /\ more[1] = x /\ more[2] = y /\ more[3] = z
    <3>1. two \in Seq(S) /\ z \in S
      BY <1>2
    <3>2. /\ IsSequence(more) /\ Len(more) = Len(two) + 1 /\ more[Len(two) + 1] = z
          /\ \A d \in 1..Len(two) : more[d] = two[d]
      BY <1>1, <3>1
    <3> HIDE DEF more
    <3> QED
      BY <1>2, <1>3, <3>2
  <2>2. \A d \in 1..3 : d = 1 \/ d = 2 \/ d = 3
    OBVIOUS
  <2> HIDE DEF more
  <2>3. more = three
    BY <1>2, <1>4, <2>1, <2>2, SequencesAre
  <2> QED
    BY <2>3 DEF more
<1> QED
  BY <1>5, <1>6 DEF one, two, three

\* An object on the way to a leaf, and a value of it.
LEMMA ObjectIs ==
  ASSUME NEW path, IsSequence(path), NEW k \in 1..Len(path), NEW keys, IsSequence(keys), Len(keys) = k - 1,
         \A d \in 1..(k - 1) : path[d][1] = keys[d], NEW key
  PROVE  LET object == SubSeq(path, 1, k - 1)
         IN /\ Generic(object) = keys
            /\ IsSequence(Append(keys, key)) /\ HasKeys(Keys(object, key), Append(keys, key))
            /\ (\A d \in 1..(k - 1) : keys[d] \in CatalogKeys \cup {Item}) /\ key \in CatalogKeys =>
                 IsKnownPath(Keys(object, key))
<1> DEFINE object == SubSeq(path, 1, k - 1)
           at == Keys(object, key)
           more == Append(keys, key)
<1>1. IsSequence(object) /\ Len(object) = k - 1 /\ \A d \in 1..(k - 1) : object[d] = path[d]
  BY BeforeIs
<1>2. k \in Nat /\ \A d \in 1..k : d = k \/ d \in 1..(k - 1)
  BY DEF IsSequence
<1> HIDE DEF object
<1>3. Generic(object) = keys
  <2>1. IsSequence(Generic(object)) /\ Len(Generic(object)) = k - 1 /\ \A d \in 1..(k - 1) : Generic(object)[d] = object[d][1]
    BY <1>1, GenericIs
  <2>2. \A d \in 1..Len(keys) : Generic(object)[d] = keys[d]
    BY <1>1, <2>1
  <2> QED
    BY <2>1, <2>2, SequencesAre
<1>4. IsSequence(at) /\ Len(at) = k /\ at[k] = <<key, 0>> /\ \A d \in 1..(k - 1) : at[d] = object[d]
  BY <1>1, <1>2, AppendIs DEF Keys
<1>5. IsSequence(more) /\ Len(more) = k /\ more[k] = key /\ \A d \in 1..(k - 1) : more[d] = keys[d]
  BY <1>2, AppendIs
<1>6. <<key, 0>>[1] = key
  OBVIOUS
<1> HIDE DEF at, more
<1>7. \A d \in 1..k : at[d][1] = more[d]
  BY <1>1, <1>2, <1>4, <1>5, <1>6
<1>8. HasKeys(at, more)
  BY <1>4, <1>5, <1>7 DEF HasKeys
<1>9. ASSUME \A d \in 1..(k - 1) : keys[d] \in CatalogKeys \cup {Item}, key \in CatalogKeys PROVE IsKnownPath(at)
  <2>1. \A d \in 1..k : IsKnown(at[d])
    BY <1>2, <1>5, <1>7, <1>9 DEF IsKnown
  <2> QED
    BY <1>4, <2>1 DEF IsKnownPath
<1> QED
  BY <1>3, <1>5, <1>8, <1>9 DEF object, at, more

\* What is published of an id.
LEMMA IdRead ==
  ASSUME NEW one, NEW out, ReadsTheSame(one, out), NEW ids, KeepsIds(one, out, ids),
         NEW url \in CatalogUrls, IsPlain(url), url \in one.ok, NEW keys, IsSequence(keys), IsRule(url, keys, "id"),
         NEW at, IsKnownPath(at), HasKeys(at, keys), Get(out, url, at).type = "int"
  PROVE  Numbers(ids, Text(one, url, at), Text(out, url, at))
<1>1. Get(out, url, at) # Null
  BY PlaceholderIs
<1>2. PICK i \in 1..Len(one.leaves) :
        /\ one.leaves[i].url = url /\ one.leaves[i].path = at
        /\ Get(one, url, at) = one.leaves[i].value /\ Get(out, url, at) = out.leaves[i].value
  BY <1>1, GetRead
<1>3. HasRule(one, one.leaves[i], "id")
  BY <1>2, AtRule
<1>4. KeepsNumber(one, one.leaves[i], out.leaves[i], ids)
  BY DEF KeepsIds
<1>5. out.leaves[i].value.type = one.leaves[i].value.type
  BY <1>3, <1>4 DEF KeepsNumber
<1>6. IsId(one.leaves[i].value)
  BY <1>2, <1>5, PlaceholderIs DEF IsId
<1> QED
  BY <1>2, <1>3, <1>4, <1>6 DEF KeepsNumber, Text

\* The ids of the objects on the way to a leaf.
LEMMA ShapedIdRead ==
  ASSUME NEW one, NEW out, ReadsTheSame(one, out), NEW ids, KeepsIds(one, out, ids), StepsAreKeys(one), Shaped(out),
         NEW i \in 1..Len(one.leaves), NEW a, a = one.leaves[i], NEW b, b = out.leaves[i],
         b.url = a.url, b.path = a.path, a.url \in {Config} \cup Range(Devices),
         NEW k \in 1..Len(a.path), a.path[k][1] # Item,
         NEW keys, IsSequence(keys), Len(keys) = k - 1, \A d \in 1..(k - 1) : a.path[d][1] = keys[d],
         \A d \in 1..(k - 1) : keys[d] \in CatalogKeys \cup {Item},
         NEW key \in CatalogKeys, IsRule(a.url, Append(keys, key), "id"), <<key, {"int"}>> \in Types(keys)
  PROVE  LET at == Keys(SubSeq(a.path, 1, k - 1), key)
         IN Numbers(ids, Text(one, a.url, at), Text(out, a.url, at))
<1> DEFINE object == SubSeq(a.path, 1, k - 1)
           at == Keys(object, key)
           more == Append(keys, key)
<1>1. IsSequence(a.path)
  BY DEF ReadsTheSame, IsReadTheSame
<1>2. Generic(object) = keys /\ IsSequence(more) /\ HasKeys(at, more) /\ IsKnownPath(at)
  BY <1>1, ObjectIs
<1>3. a.url \in CatalogUrls /\ IsPlain(a.url)
  BY CatalogHasRules DEF CatalogUrls, IsPlain
<1>4. a.url \in {Config, Devices[1], Devices[2], Areas[1], Areas[2]}
  <2>1. Range(Devices) = {Devices[1], Devices[2]}
    BY DEF Devices, Range
  <2> QED
    BY <2>1
<1>5. a.url \in out.ok /\ \A obj \in Objects(out, a.url) : \A typed \in Types(Generic(obj)) :
        Get(out, a.url, Keys(obj, typed[1])).type \in typed[2]
  BY <1>4, Zenon DEF Shaped
<1>6. object \in Objects(out, a.url)
  <2>1. b \in Range(out.leaves)
    BY DEF ReadsTheSame, Range
  <2>2. k \in Dicts(b.path)
    <3>1. DOMAIN b.path = 1..Len(a.path)
      BY <1>1 DEF IsSequence
    <3>2. b.path[k][2] = 0
      BY DEF StepsAreKeys
    <3> QED
      BY <3>1, <3>2 DEF Dicts
  <2>3. object = SubSeq(b.path, 1, k - 1)
    OBVIOUS
  <2> HIDE DEF object
  <2> QED
    BY <2>1, <2>2, <2>3 DEF Objects
<1> HIDE DEF object
<1>7. Get(out, a.url, at).type = "int"
  <2> DEFINE typed == <<key, {"int"}>>
  <2>1. typed \in Types(Generic(object)) /\ typed[1] = key /\ typed[2] = {"int"}
    BY <1>2
  <2> HIDE DEF typed
  <2> QED
    BY <1>5, <1>6, <2>1
<1> HIDE DEF at, more
<1>8. a.url \in one.ok
  BY <1>5 DEF KeepsIds
<1>9. IsRule(a.url, more, "id")
  BY DEF more
<1> QED
  BY <1>2, <1>3, <1>7, <1>8, <1>9, IdRead DEF object, at

-----------------------------------------------------------------------------
(* The entries of what is published                                        *)

\* The leaf with the usage of an endpoint.
IsUsage(leaf) == leaf.url = Config /\ Generic(leaf.path) = <<"endpoints", Item, "last_usage">>

LEMMA UsageIs ==
  ASSUME NEW leaf, IsSequence(leaf.path), IsUsage(leaf)
  PROVE  /\ IsRead(leaf) /\ leaf.url \in CatalogUrls /\ IsKnownPath(leaf.path)
         /\ Len(leaf.path) = 3 /\ leaf.path[1][1] = "endpoints" /\ leaf.path[2][1] = Item
         /\ leaf.path[3][1] = "last_usage"
<1> DEFINE keys == <<"endpoints", Item, "last_usage">>
           path == leaf.path
<1>1. Len(keys) = 3 /\ keys[1] = "endpoints" /\ keys[2] = Item /\ keys[3] = "last_usage"
  OBVIOUS
<1>2. Generic(path) = keys /\ leaf.url = Config
  BY DEF IsUsage
<1>3. Len(Generic(path)) = Len(path) /\ \A n \in 1..Len(path) : Generic(path)[n] = path[n][1]
  BY GenericIs
<1> HIDE DEF keys, path
<1>4. Len(path) = 3 /\ path[1][1] = "endpoints" /\ path[2][1] = Item /\ path[3][1] = "last_usage"
  <2>1. Len(path) = 3
    BY <1>1, <1>2, <1>3
  <2>2. 1 \in 1..3 /\ 2 \in 1..3 /\ 3 \in 1..3
    OBVIOUS
  <2>3. \A n \in 1..3 : keys[n] = path[n][1]
    BY <1>2, <1>3, <2>1
  <2> QED
    BY <1>1, <2>1, <2>2, <2>3
<1>5. \A d \in 1..3 : IsKnown(path[d])
  BY <1>4 DEF IsKnown, CatalogKeys
<1>6. IsKnownPath(path)
  BY <1>4, <1>5 DEF IsKnownPath, path
<1> QED
  BY <1>2, <1>4, <1>6 DEF IsRead, CatalogUrls, keys, path

\* A usage is the same in both.
LEMMA UsageSame ==
  ASSUME NEW one, NEW out, ReadsTheSame(one, out), NEW i \in 1..Len(one.leaves),
         NEW a, a = one.leaves[i], NEW b, b = out.leaves[i], IsUsage(a) \/ IsUsage(b)
  PROVE  IsUsage(a) /\ IsUsage(b) /\ b.url = a.url /\ b.path = a.path /\ b.value = a.value
<1>1. IsReadTheSame(a, b)
  BY DEF ReadsTheSame
<1>2. b.url = a.url /\ IsSequence(a.path) /\ IsSequence(b.path)
  BY <1>1 DEF IsReadTheSame
<1>3. b.path = a.path
  BY <1>1, <1>2, UsageIs DEF IsReadTheSame
<1>4. IsUsage(a) /\ IsUsage(b)
  BY <1>2, <1>3 DEF IsUsage
<1>5. IsRead(a)
  BY <1>2, <1>4, UsageIs
<1> QED
  BY <1>1, <1>2, <1>3, <1>4, <1>5 DEF IsReadTheSame

\* A published capture has the same usages, of the same endpoints by their numbers.
LEMMA UsagesRead ==
  ASSUME TextsDiffer(Nat), NEW one, NEW out, ReadsTheSame(one, out), NEW ids, KeepsIds(one, out, ids),
         StepsAreKeys(one), Shaped(out),
         NEW x, NEW s, Numbers(ids, x, s), NEW y, NEW t, Numbers(ids, y, t)
  PROVE  UsagesOf(out, s, t) = UsagesOf(one, x, y)
<1> DEFINE m == Len(one.leaves)
           At(l, key) == Keys(Front(l.path), key)
           Found(c, device, endpoint) ==
             {n \in 1..m : /\ IsUsage(c.leaves[n])
                           /\ Text(c, Config, At(c.leaves[n], "id_device")) = device
                           /\ Text(c, Config, At(c.leaves[n], "id_endpoint")) = endpoint}
           Of(c, found) == IF found = {} THEN {} ELSE {c.leaves[Max(found)].value.text}
<1>1. ASSUME NEW c, DOMAIN c.leaves = 1..m, NEW device, NEW endpoint
      PROVE  UsagesOf(c, device, endpoint) = Of(c, Found(c, device, endpoint))
  <2> DEFINE S == {n \in DOMAIN c.leaves :
                     LET leaf == c.leaves[n]
                     IN /\ leaf.url = Config /\ Generic(leaf.path) = <<"endpoints", Item, "last_usage">>
                        /\ Text(c, Config, Keys(Front(leaf.path), "id_device")) = device
                        /\ Text(c, Config, Keys(Front(leaf.path), "id_endpoint")) = endpoint}
  <2>1. UsagesOf(c, device, endpoint) = Of(c, S)
    BY DEF UsagesOf
  <2>2. S = Found(c, device, endpoint)
    BY <1>1 DEF IsUsage
  <2> HIDE DEF S, Found, Of
  <2> QED
    BY <2>1, <2>2
<1>2. ASSUME NEW i \in 1..m, IsUsage(one.leaves[i]), NEW key \in {"id_device", "id_endpoint"}
      PROVE  Numbers(ids, Text(one, Config, At(one.leaves[i], key)), Text(out, Config, At(one.leaves[i], key)))
  <2> DEFINE a == one.leaves[i]
             b == out.leaves[i]
             keys == <<"endpoints", Item>>
  <2>1. b.url = a.url /\ b.path = a.path /\ a.url = Config
    BY <1>2, UsageSame DEF IsUsage
  <2>2. /\ Len(a.path) = 3 /\ a.path[1][1] = "endpoints" /\ a.path[2][1] = Item /\ a.path[3][1] = "last_usage"
        /\ IsSequence(a.path)
    <3>1. IsSequence(a.path)
      BY DEF ReadsTheSame, IsReadTheSame
    <3> QED
      BY <1>2, <3>1, UsageIs
  <2>3. Front(a.path) = SubSeq(a.path, 1, 3 - 1)
    BY <2>2 DEF Front
  <2>4. /\ IsSequence(keys) /\ Len(keys) = 3 - 1 /\ \A d \in 1..(3 - 1) : a.path[d][1] = keys[d]
        /\ \A d \in 1..(3 - 1) : keys[d] \in CatalogKeys \cup {Item}
    <3>1. keys \in Seq({"endpoints", Item}) /\ Len(keys) = 3 - 1 /\ keys[1] = "endpoints" /\ keys[2] = Item
      OBVIOUS
    <3>2. "endpoints" \in CatalogKeys
      BY DEF CatalogKeys
    <3>3. \A d \in 1..(3 - 1) : d = 1 \/ d = 2
      OBVIOUS
    <3> HIDE DEF keys
    <3>4. IsSequence(keys)
      BY <3>1 DEF IsSequence
    <3> QED
      BY <2>2, <3>1, <3>2, <3>3, <3>4
  <2>5. 3 \in 1..Len(a.path) /\ a.path[3][1] # Item
    BY <2>2 DEF Item
  <2>6. key \in CatalogKeys /\ <<key, {"int"}>> \in Types(keys)
    BY TypesAre DEF CatalogKeys
  <2>7. IsRule(a.url, Append(keys, key), "id")
    <3>1. Append(keys, key) = <<"endpoints", Item, key>>
      BY MoreKeys
    <3> QED
      BY <2>1, <3>1, CatalogHasRules
  <2>8. a = one.leaves[i] /\ b = out.leaves[i] /\ a.url \in {Config} \cup Range(Devices)
    BY <2>1
  <2> HIDE DEF keys, a, b
  <2>9. Numbers(ids, Text(one, a.url, Keys(SubSeq(a.path, 1, 3 - 1), key)),
                     Text(out, a.url, Keys(SubSeq(a.path, 1, 3 - 1), key)))
    <3> DEFINE k == 3
    <3>1. k \in 1..Len(a.path) /\ a.path[k][1] # Item
      BY <2>5
    <3>2. /\ IsSequence(keys) /\ Len(keys) = k - 1 /\ \A d \in 1..(k - 1) : a.path[d][1] = keys[d]
          /\ \A d \in 1..(k - 1) : keys[d] \in CatalogKeys \cup {Item}
      BY <2>4
    <3> HIDE DEF k
    <3>3. Numbers(ids, Text(one, a.url, Keys(SubSeq(a.path, 1, k - 1), key)),
                       Text(out, a.url, Keys(SubSeq(a.path, 1, k - 1), key)))
      BY <2>1, <2>6, <2>7, <2>8, <3>1, <3>2, ShapedIdRead
    <3> QED
      BY <3>3 DEF k
  <2> QED
    BY <2>1, <2>3, <2>9 DEF a
<1>3. ASSUME NEW i \in 1..m
      PROVE  /\ i \in Found(one, x, y) <=> i \in Found(out, s, t)
             /\ i \in Found(one, x, y) => out.leaves[i].value = one.leaves[i].value
  <2> DEFINE a == one.leaves[i]
             b == out.leaves[i]
  <2>1. CASE ~IsUsage(a) /\ ~IsUsage(b)
    BY <2>1
  <2>2. CASE IsUsage(a) \/ IsUsage(b)
    <3>1. IsUsage(a) /\ IsUsage(b) /\ b.path = a.path /\ b.value = a.value
      BY <2>2, UsageSame
    <3>2. ASSUME NEW key PROVE At(b, key) = At(a, key)
      BY <3>1
    <3> HIDE DEF At
    <3>3. /\ Numbers(ids, Text(one, Config, At(a, "id_device")), Text(out, Config, At(a, "id_device")))
          /\ Numbers(ids, Text(one, Config, At(a, "id_endpoint")), Text(out, Config, At(a, "id_endpoint")))
      BY <1>2, <3>1
    <3>4. AreIds(ids)
      BY DEF KeepsIds
    <3>5. Text(out, Config, At(a, "id_device")) = s <=> Text(one, Config, At(a, "id_device")) = x
      BY <3>3, <3>4, NumbersApart
    <3>6. Text(out, Config, At(a, "id_endpoint")) = t <=> Text(one, Config, At(a, "id_endpoint")) = y
      BY <3>3, <3>4, NumbersApart
    <3> QED
      BY <3>1, <3>2, <3>5, <3>6
  <2> QED
    BY <2>1, <2>2
<1>4. m \in Nat /\ DOMAIN one.leaves = 1..m /\ DOMAIN out.leaves = 1..m
  BY DEF ReadsTheSame
<1>5. Found(one, x, y) \subseteq 1..m /\ Found(out, s, t) \subseteq 1..m
  OBVIOUS
<1> HIDE DEF Found, m
<1>6. Found(out, s, t) = Found(one, x, y)
  BY <1>3, <1>5
<1> DEFINE found == Found(one, x, y)
<1>7. found # {} => out.leaves[Max(found)].value = one.leaves[Max(found)].value
  BY <1>3, <1>4, <1>5, MaxIs
<1>8. UsagesOf(one, x, y) = Of(one, found) /\ UsagesOf(out, s, t) = Of(out, found)
  <2> HIDE DEF Of
  <2>1. UsagesOf(one, x, y) = Of(one, Found(one, x, y))
    BY <1>1, <1>4
  <2>2. UsagesOf(out, s, t) = Of(out, Found(out, s, t))
    BY <1>1, <1>4
  <2> QED
    BY <1>6, <2>1, <2>2
<1> HIDE DEF found
<1> QED
  BY <1>7, <1>8

\* So it has the same entries, one for each of the same leaves.
LEMMA EntriesSame ==
  ASSUME TextsDiffer(Nat), NEW one, NEW out, ReadsTheSame(one, out), NEW ids, KeepsIds(one, out, ids),
         StepsAreKeys(one), Shaped(out)
  PROVE  Entries(out) = Entries(one)
<1> DEFINE m == Len(one.leaves)
           area(leaf) == leaf.url \in Range(Areas)
           id(c, leaf, depth) == Text(c, leaf.url, Keys(SubSeq(leaf.path, 1, depth), "id"))
           usages(c, leaf) == IF area(leaf) THEN {AreaUsage} ELSE UsagesOf(c, id(c, leaf, 1), id(c, leaf, 3))
           entry(c, leaf) == IF IsNamed(leaf) /\ usages(c, leaf) # {}
                             THEN Entry(c, leaf, CHOOSE usage \in usages(c, leaf) : TRUE) ELSE NoEntries
<1>1. ASSUME NEW c, DOMAIN c.leaves = 1..m PROVE Entries(c) = [n \in 1..m |-> entry(c, c.leaves[n])]
  BY <1>1 DEF Entries, IsNamed
<1>2. ASSUME NEW i \in 1..m, IsNamed(one.leaves[i]), ~area(one.leaves[i]), NEW k \in {2, 4}
      PROVE  Numbers(ids, id(one, one.leaves[i], k - 1), id(out, one.leaves[i], k - 1))
  <2> DEFINE a == one.leaves[i]
             b == out.leaves[i]
             keys == IF k = 2 THEN <<Item>> ELSE EndpointOf
  <2>1. b.url = a.url /\ b.path = a.path
    BY <1>2, EntryRead
  <2>2. IsSequence(a.path)
    BY DEF ReadsTheSame, IsReadTheSame
  <2>3. /\ Len(a.path) = 6 /\ a.path[1][1] = Item /\ a.path[2][1] = "endpoints" /\ a.path[3][1] = Item
        /\ a.path[4][1] # Item
    <3>1. PICK way \in EntryPaths(a.url) : Len(a.path) = Len(way) + 1 /\ \A n \in 1..Len(way) : a.path[n][1] = way[n]
      BY <1>2, <2>2, NamedIs
    <3>2. Len(way) = 5 /\ way[1] = Item /\ way[2] = "endpoints" /\ way[3] = Item /\ way[4] # Item
      BY <1>2, EntryPathIs
    <3>3. 1 \in 1..5 /\ 2 \in 1..5 /\ 3 \in 1..5 /\ 4 \in 1..5 /\ 5 + 1 = 6
      OBVIOUS
    <3> QED
      BY <3>1, <3>2, <3>3
  <2>4. k \in 1..Len(a.path) /\ a.path[k][1] # Item
    BY <2>3 DEF Item
  <2>5. /\ IsSequence(keys) /\ Len(keys) = k - 1
        /\ \A d \in 1..(k - 1) : a.path[d][1] = keys[d] /\ keys[d] \in CatalogKeys \cup {Item}
    <3>1. "endpoints" \in CatalogKeys
      BY DEF CatalogKeys
    <3>2. CASE k = 2
      <4>1. <<Item>> \in Seq({Item}) /\ Len(<<Item>>) = 1 /\ <<Item>>[1] = Item
        OBVIOUS
      <4>2. keys = <<Item>> /\ k - 1 = 1 /\ \A d \in 1..1 : d = 1
        BY <3>2
      <4>3. IsSequence(keys)
        BY <4>1, <4>2 DEF IsSequence
      <4> QED
        BY <2>3, <4>1, <4>2, <4>3
    <3>3. CASE k = 4
      <4>1. /\ EndpointOf \in Seq({Item, "endpoints"}) /\ Len(EndpointOf) = 3
            /\ EndpointOf[1] = Item /\ EndpointOf[2] = "endpoints" /\ EndpointOf[3] = Item
        BY DEF EndpointOf
      <4>2. keys = EndpointOf /\ k - 1 = 3 /\ \A d \in 1..3 : d = 1 \/ d = 2 \/ d = 3
        BY <3>3
      <4> HIDE DEF keys
      <4>3. IsSequence(keys)
        BY <4>1, <4>2 DEF IsSequence
      <4> QED
        BY <2>3, <3>1, <4>1, <4>2, <4>3
    <3> QED
      BY <3>2, <3>3
  <2>6. "id" \in CatalogKeys /\ <<"id", {"int"}>> \in Types(keys)
    BY TypesAre DEF CatalogKeys
  <2>7. a.url \in Range(Devices)
    BY <1>2 DEF IsNamed
  <2>8. IsRule(a.url, Append(keys, "id"), "id")
    <3>1. CASE k = 2
      <4>1. Append(<<Item>>, "id") = <<Item, "id">>
        BY MoreKeys
      <4> QED
        BY <2>7, <3>1, <4>1, CatalogHasRules
    <3>2. CASE k = 4
      BY <2>7, <3>2, CatalogHasRules
    <3> QED
      BY <3>1, <3>2
  <2>9. a = one.leaves[i] /\ b = out.leaves[i] /\ a.url \in {Config} \cup Range(Devices)
    BY <2>7
  <2> HIDE DEF keys, a, b
  <2>10. Numbers(ids, Text(one, a.url, Keys(SubSeq(a.path, 1, k - 1), "id")),
                      Text(out, a.url, Keys(SubSeq(a.path, 1, k - 1), "id")))
    BY <2>1, <2>4, <2>5, <2>6, <2>8, <2>9, ShapedIdRead
  <2> QED
    BY <2>10 DEF a
<1>3. ASSUME NEW i \in 1..m PROVE entry(out, out.leaves[i]) = entry(one, one.leaves[i])
  <2> DEFINE a == one.leaves[i]
             b == out.leaves[i]
  <2>1. CASE ~IsNamed(a) /\ ~IsNamed(b)
    BY <2>1
  <2>2. CASE IsNamed(a) \/ IsNamed(b)
    <3>1. /\ IsNamed(a) /\ IsNamed(b) /\ b.url = a.url /\ b.path = a.path
          /\ \A usage : Entry(out, b, usage) = Entry(one, a, usage)
      BY <2>2, EntryRead
    <3>2. usages(out, b) = usages(one, a)
      <4>1. CASE area(a)
        BY <3>1, <4>1
      <4>2. CASE ~area(a)
        <5>1. Numbers(ids, id(one, a, 1), id(out, a, 1)) /\ Numbers(ids, id(one, a, 3), id(out, a, 3))
          <6>1. 2 - 1 = 1 /\ 4 - 1 = 3
            OBVIOUS
          <6>2. Numbers(ids, id(one, a, 2 - 1), id(out, a, 2 - 1)) /\ Numbers(ids, id(one, a, 4 - 1), id(out, a, 4 - 1))
            BY <1>2, <3>1, <4>2
          <6> HIDE DEF id
          <6> QED
            BY <6>1, <6>2
        <5>2. id(out, b, 1) = id(out, a, 1) /\ id(out, b, 3) = id(out, a, 3) /\ ~area(b)
          BY <3>1, <4>2
        <5> HIDE DEF id
        <5>3. UsagesOf(out, id(out, a, 1), id(out, a, 3)) = UsagesOf(one, id(one, a, 1), id(one, a, 3))
          BY <5>1, UsagesRead
        <5> HIDE DEF area
        <5> QED
          BY <4>2, <5>2, <5>3
      <4> QED
        BY <4>1, <4>2
    <3> HIDE DEF usages
    <3> QED
      BY <3>1, <3>2
  <2> QED
    BY <2>1, <2>2
<1>4. DOMAIN one.leaves = 1..m /\ DOMAIN out.leaves = 1..m
  BY DEF ReadsTheSame
<1> HIDE DEF entry, m
<1>5. Entries(one) = [n \in 1..m |-> entry(one, one.leaves[n])] /\ Entries(out) = [n \in 1..m |-> entry(out, out.leaves[n])]
  BY <1>1, <1>4
<1> QED
  BY <1>3, <1>5

\* The captures are those these lemmas are about, and so is what is published of them.
LEMMA BoxesHavePaths ==
  ASSUME NEW one \in Boxes \cup LaterBoxes
  PROVE  /\ StepsAreKeys(one)
         /\ \A i \in 1..Len(one.leaves) :
              /\ IsSequence(one.leaves[i].path)
              /\ \A d \in 1..Len(one.leaves[i].path) :
                   one.leaves[i].path[d] = <<one.leaves[i].path[d][1], one.leaves[i].path[d][2]>>
<1> DEFINE Steps == STRING \X Nat
<1>1. DOMAIN one.leaves = 1..Len(one.leaves)
  BY BoxesHaveLeaves DEF AreLeaves
<1>2. ASSUME NEW i \in 1..Len(one.leaves) PROVE one.leaves[i].path \in Seq(Steps)
  <2> DEFINE Leaves == [url : STRING, path : Seq(Steps), value : [type : JSONTypes, text : STRING]]
  <2>1. one.leaves \in Seq(Leaves)
    BY BoxesAreCaptures DEF JSONTypes
  <2>2. \A leaf \in Leaves : leaf.path \in Seq(Steps)
    OBVIOUS
  <2> HIDE DEF Leaves, Steps
  <2> QED
    BY <2>1, <2>2
<1>3. \A step \in Steps : step = <<step[1], step[2]>>
  OBVIOUS
<1> HIDE DEF Steps
<1>4. ASSUME NEW i \in 1..Len(one.leaves), NEW d \in 1..Len(one.leaves[i].path)
      PROVE  LET step == one.leaves[i].path[d]
             IN step = <<step[1], step[2]>> /\ (step[1] # Item => step[2] = 0)
  <2> DEFINE leaf == one.leaves[i]
             step == leaf.path[d]
  <2>1. leaf \in Range(one.leaves)
    BY <1>1 DEF Range
  <2>2. leaf.path \in Seq(Steps)
    BY <1>2
  <2> HIDE DEF leaf
  <2>3. step \in Steps /\ step \in Range(leaf.path)
    BY <2>2 DEF Range, leaf
  <2>4. step[2] # 0 => step[1] = Item
    BY <2>1, <2>3, BoxesAreListed
  <2> HIDE DEF step
  <2> QED
    BY <1>3, <2>3, <2>4 DEF step, leaf
<1>5. \A i \in 1..Len(one.leaves) : IsSequence(one.leaves[i].path)
  BY <1>2 DEF IsSequence
<1> QED
  BY <1>4, <1>5 DEF StepsAreKeys

LEMMA PublishedReadsTheSame ==
  ASSUME TextsDiffer(Nat), NEW one \in Boxes \cup LaterBoxes, NEW out, IsConfined(one, out), Legible(one)
  PROVE  ReadsTheSame(one, out) /\ \E ids : KeepsIds(one, out, ids)
<1> DEFINE m == Len(one.leaves)
<1>1. PICK ids : AreIds(ids) /\ \A i \in 1..m : IsDone(one, one.leaves[i], out.leaves[i], ids, out.unclassified)
  BY DEF IsConfined
<1>2. AreLeaves(one)
  BY BoxesHaveLeaves
<1>3. m \in Nat /\ DOMAIN one.leaves = 1..m /\ Len(out.leaves) = m /\ DOMAIN out.leaves = 1..m
  <2>1. DOMAIN out.leaves = 1..Len(out.leaves)
    BY DEF IsConfined, IsSequence
  <2> QED
    BY <1>2, <2>1 DEF AreLeaves, IsConfined
<1>4. ASSUME NEW i \in 1..m PROVE IsReadTheSame(one.leaves[i], out.leaves[i])
  <2> DEFINE a == one.leaves[i]
             b == out.leaves[i]
  <2>1. IsSequence(a.path) /\ \A d \in 1..Len(a.path) : a.path[d] = <<a.path[d][1], a.path[d][2]>>
    BY BoxesHavePaths
  <2>2. Publishable(one, a, b)
    BY <1>1 DEF IsDone
  <2>3. b.url = a.url /\ IsSequence(b.path)
    BY <2>2 DEF Publishable
  <2>4. a.url \in CatalogUrls /\ (IsKnownPath(a.path) \/ IsKnownPath(b.path)) => b.path = a.path
    BY <2>1, <2>2, KnownPathStays
  <2>5. ASSUME IsRead(a) PROVE b.value = a.value
    <3>1. a \in Range(one.leaves)
      BY <1>3 DEF Range
    <3>2. Passing(one, a)
      BY <2>5, <3>1 DEF Legible
    <3> QED
      BY <2>2, <3>2 DEF Publishable, ValueMayBe
  <2> QED
    BY <2>1, <2>3, <2>4, <2>5 DEF IsReadTheSame
<1>5. KeepsIds(one, out, ids)
  BY <1>1 DEF KeepsIds, IsDone, IsConfined
<1> QED
  BY <1>3, <1>4, <1>5 DEF ReadsTheSame

\* What is published of a legible capture has its entries, for any captures, where the
\* texts of any two numbers differ and no numbered key is one the catalog reads.
THEOREM CatalogReadsTheSame ==
  ASSUME TextsDiffer(Nat)
  PROVE  Spec => []EntriesKept
<1>1. ConfinedInv => EntriesKept
  <2> SUFFICES ASSUME ConfinedInv, phase = "published", Shaped(capture), Legible(box)
               PROVE  Entries(capture) = Entries(box)
    BY DEF EntriesKept
  <2>1. box \in Boxes \cup LaterBoxes /\ IsConfined(box, capture)
    BY BoxesHaveLeaves, AnonymizedIs DEF ConfinedInv
  <2>2. ReadsTheSame(box, capture)
    BY <2>1, PublishedReadsTheSame
  <2>3. PICK ids : KeepsIds(box, capture, ids)
    BY <2>1, PublishedReadsTheSame
  <2>4. StepsAreKeys(box)
    BY <2>1, BoxesHavePaths
  <2> QED
    BY <2>2, <2>3, <2>4, EntriesSame
<1> QED
  BY <1>1, CaptureIsAnonymized, PTL

\* The catalog file is the union of what the merged captures say, for any captures in any
\* order and of any size.
THEOREM CatalogIsTheUnion ==
  ASSUME TextsDiffer(Nat)
  PROVE  Spec => []CatalogIsUnion
<1>1. PublishInv => CatalogIsUnion
  BY UnionIsSaid DEF PublishInv
<1>2. Spec => []EntriesKept
  BY CatalogReadsTheSame
<1> QED
  BY <1>1, <1>2, PublishInvHolds, PTL

\* A capture is refused only where two captures, or two of its entries, differ.
THEOREM RefusalsHaveReasons ==
  ASSUME TextsDiffer(Nat)
  PROVE  Spec => []RefusedForAReason
<1>1. PublishInv => RefusedForAReason
  BY DEF PublishInv
<1>2. Spec => []EntriesKept
  BY CatalogReadsTheSame
<1> QED
  BY <1>1, <1>2, PublishInvHolds, PTL

-----------------------------------------------------------------------------
(* The data and their descriptors, as they are published                   *)

\* Nothing of the capture was refused, and its keys and ids can be told.
IsAccepted(out, ids) ==
  /\ box \in Boxes \cup LaterBoxes /\ Unambiguous(box) /\ AreIds(ids)
  /\ Len(out.leaves) = Len(box.leaves) /\ DOMAIN out.leaves = 1..Len(box.leaves)
  /\ \A i \in 1..Len(box.leaves) : IsDone(box, box.leaves[i], out.leaves[i], ids, {})

\* Each leaf has a rule, which it does not break, and is at its place.
LEMMA RuledIs ==
  ASSUME NEW out, NEW ids, IsAccepted(out, ids), NEW i \in 1..Len(box.leaves), IsPlain(box.leaves[i].url)
  PROVE  LET a == box.leaves[i]
             b == out.leaves[i]
         IN /\ a.url \in box.ok /\ b.url = a.url /\ b.path = a.path /\ ValueMayBe(box, a, b.value)
            /\ \E rule \in RuleOf(box, a) : ~Breaks(a.value, rule.action)
<1> DEFINE a == box.leaves[i]
           b == out.leaves[i]
<1>1. IsDone(box, a, b, ids, {})
  BY DEF IsAccepted
<1>2. IsSequence(a.path) /\ \A d \in 1..Len(a.path) : a.path[d] = <<a.path[d][1], a.path[d][2]>>
  BY BoxesHavePaths DEF IsAccepted
<1> HIDE DEF a, b
<1>3. Publishable(box, a, b) /\ Reported(box, a, b, {})
  BY <1>1 DEF IsDone
<1>4. PICK rule \in RuleOf(box, a) : ~Breaks(a.value, rule.action)
  BY <1>3 DEF Reported, IsReported
<1>5. PICK n \in RulesOf(box, a.url) :
        /\ rule = Rules[a.url][n] /\ Len(rule.path) = Len(a.path)
        /\ Along(rule.path, a.path, Len(rule.path))
  BY RuleIs
<1>6. a.url \in box.ok /\ rule \in RulesAt(a.url)
  BY <1>5 DEF RulesOf, RulesAt
<1>7. IsPlain(a.url)
  BY DEF a
<1>8. HasKeys(a.path, rule.path)
  BY <1>5, <1>6, <1>7, PlainIs
<1>9. \A d \in 1..Len(a.path) : PublicKey(box, a, d)
  BY <1>5, <1>7, <1>8, PublicAlong
<1>10. b.path = a.path
  <2>1. IsSequence(b.path) /\ Len(b.path) = Len(a.path)
    BY <1>3 DEF Publishable
  <2>2. \A d \in 1..Len(a.path) : b.path[d] = a.path[d]
    BY <1>2, <1>3, <1>9 DEF Publishable, KeyMayBe
  <2> QED
    BY <1>2, <2>1, <2>2, SequencesAre
<1> QED
  BY <1>3, <1>4, <1>6, <1>10 DEF Publishable, a, b

\* What is found at a place in both.
LEMMA GetAccepted ==
  ASSUME NEW out, NEW ids, IsAccepted(out, ids), NEW url, IsPlain(url),
         NEW keys, IsSequence(keys), NEW action, IsRule(url, keys, action), NEW q, HasKeys(q, keys)
  PROVE  \/ Get(box, url, q) = Null /\ Get(out, url, q) = Null
         \/ \E i \in 1..Len(box.leaves) :
              /\ box.leaves[i].url = url /\ box.leaves[i].path = q
              /\ Get(box, url, q) = box.leaves[i].value /\ Get(out, url, q) = out.leaves[i].value
              /\ HasRule(box, box.leaves[i], action) /\ ~Breaks(box.leaves[i].value, action)
<1>1. ASSUME NEW i \in 1..Len(box.leaves)
      PROVE  box.leaves[i].url = url /\ box.leaves[i].path = q
               <=> out.leaves[i].url = url /\ out.leaves[i].path = q
  <2>1. out.leaves[i].url = box.leaves[i].url
    BY DEF IsAccepted, IsDone, Publishable
  <2> QED
    BY <2>1, RuledIs
<1>2. HaveTheSame(box, out, url, q)
  BY <1>1 DEF HaveTheSame, IsAccepted
<1>3. ASSUME NEW i \in 1..Len(box.leaves), box.leaves[i].url = url, box.leaves[i].path = q
      PROVE  HasRule(box, box.leaves[i], action) /\ ~Breaks(box.leaves[i].value, action)
  <2> DEFINE a == box.leaves[i]
  <2>1. a.url \in box.ok /\ \E rule \in RuleOf(box, a) : ~Breaks(a.value, rule.action)
    BY <1>3, RuledIs
  <2>2. IsPlain(a.url) /\ IsRule(a.url, keys, action) /\ HasKeys(a.path, keys)
    BY <1>3
  <2> HIDE DEF a
  <2>3. HasRule(box, a, action)
    BY <2>1, <2>2, AtRule
  <2> QED
    BY <2>1, <2>3, OneRule DEF HasRule, a
<1> QED
  BY <1>2, <1>3, GetBoth

\* What a rule keeps is there.
LEMMA LeafKept ==
  ASSUME NEW out, NEW ids, IsAccepted(out, ids), NEW i \in 1..Len(box.leaves),
         NEW action \in Keeps, HasRule(box, box.leaves[i], action), ~Breaks(box.leaves[i].value, action)
  PROVE  out.leaves[i].value = box.leaves[i].value /\ Passes(box.leaves[i].value, action)
<1>1. Passes(box.leaves[i].value, action)
  BY DEF Breaks
<1>2. Passing(box, box.leaves[i])
  BY <1>1 DEF Passing, HasRule
<1>3. ValueMayBe(box, box.leaves[i], out.leaves[i].value)
  BY DEF IsAccepted, IsDone, Publishable
<1> QED
  BY <1>1, <1>2, <1>3 DEF ValueMayBe

LEMMA GetKept ==
  ASSUME NEW out, NEW ids, IsAccepted(out, ids), NEW url, IsPlain(url),
         NEW keys, IsSequence(keys), NEW action \in Keeps, IsRule(url, keys, action), NEW q, HasKeys(q, keys)
  PROVE  /\ Get(out, url, q) = Get(box, url, q)
         /\ Get(box, url, q) = Null \/ Passes(Get(box, url, q), action)
<1>1. \/ Get(box, url, q) = Null /\ Get(out, url, q) = Null
      \/ \E i \in 1..Len(box.leaves) :
           /\ box.leaves[i].url = url /\ box.leaves[i].path = q
           /\ Get(box, url, q) = box.leaves[i].value /\ Get(out, url, q) = out.leaves[i].value
           /\ HasRule(box, box.leaves[i], action) /\ ~Breaks(box.leaves[i].value, action)
  BY GetAccepted
<1> QED
  BY <1>1, LeafKept

\* An id is its number, or says nothing.
LEMMA GetId ==
  ASSUME NEW out, NEW ids, IsAccepted(out, ids), NEW url, IsPlain(url),
         NEW keys, IsSequence(keys), IsRule(url, keys, "id"), NEW q, HasKeys(q, keys),
         q # <<>>, Last(q) = <<"id", 0>>
  PROVE  LET v == Get(box, url, q)
             w == Get(out, url, q)
         IN \/ w = v /\ v \in {Null, Empty}
            \/ v.text \notin {Null.text, Empty.text} /\ Numbers(ids, v.text, w.text)
<1>1. \/ Get(box, url, q) = Null /\ Get(out, url, q) = Null
      \/ \E i \in 1..Len(box.leaves) :
           /\ box.leaves[i].url = url /\ box.leaves[i].path = q
           /\ Get(box, url, q) = box.leaves[i].value /\ Get(out, url, q) = out.leaves[i].value
           /\ HasRule(box, box.leaves[i], "id") /\ ~Breaks(box.leaves[i].value, "id")
  BY GetAccepted
<1>2. ASSUME NEW i \in 1..Len(box.leaves), box.leaves[i].path = q,
             HasRule(box, box.leaves[i], "id"), ~Breaks(box.leaves[i].value, "id")
      PROVE  LET v == box.leaves[i].value
                 w == out.leaves[i].value
             IN \/ w = v /\ v \in {Null, Empty}
                \/ v.text \notin {Null.text, Empty.text} /\ Numbers(ids, v.text, w.text)
  <2> DEFINE a == box.leaves[i]
  <2>1. KeepsNumber(box, a, out.leaves[i], ids)
    BY DEF IsAccepted, IsDone
  <2>2. a \in Range(box.leaves)
    <3>1. DOMAIN box.leaves = 1..Len(box.leaves)
      BY BoxesHaveLeaves DEF IsAccepted, AreLeaves
    <3> QED
      BY <3>1 DEF Range
  <2>3. a.value.text \in {Null.text, Empty.text} => a.value \in {Null, Empty}
    BY <1>2, <2>2 DEF IsAccepted, Unambiguous
  <2>4. a.value \in {Null, Empty} \/ IsId(a.value)
    BY <1>2 DEF Breaks, IsId
  <2> HIDE DEF a
  <2> QED
    BY <1>2, <2>1, <2>3, <2>4 DEF KeepsNumber, IsId, a
<1> QED
  BY <1>1, <1>2

\* Ids are the same where they were.
LEMMA IdsApart ==
  ASSUME TextsDiffer(Nat), NEW out, NEW ids, IsAccepted(out, ids),
         NEW url, IsPlain(url), NEW keys, IsSequence(keys), IsRule(url, keys, "id"),
         NEW q, HasKeys(q, keys), q # <<>>, Last(q) = <<"id", 0>>,
         NEW url2, IsPlain(url2), NEW keys2, IsSequence(keys2), IsRule(url2, keys2, "id"),
         NEW q2, HasKeys(q2, keys2), q2 # <<>>, Last(q2) = <<"id", 0>>
  PROVE  Text(out, url, q) = Text(out, url2, q2) <=> Text(box, url, q) = Text(box, url2, q2)
<1> DEFINE v == Get(box, url, q)
           w == Get(out, url, q)
           x == Get(box, url2, q2)
           y == Get(out, url2, q2)
           Nothing == {Null.text, Empty.text}
<1>1. \/ w = v /\ v \in {Null, Empty}
      \/ v.text \notin Nothing /\ Numbers(ids, v.text, w.text)
  BY GetId
<1>2. \/ y = x /\ x \in {Null, Empty}
      \/ x.text \notin Nothing /\ Numbers(ids, x.text, y.text)
  BY GetId
<1>3. AreIds(ids)
  BY DEF IsAccepted
<1> HIDE DEF v, w, x, y
<1>4. \A t, u : Numbers(ids, t, u) => u \notin Nothing
  <2> SUFFICES ASSUME NEW t, NEW u, Numbers(ids, t, u) PROVE u \notin Nothing
    OBVIOUS
  <2>1. PICK k \in 1..Len(ids) : u = ToString(k)
    BY DEF Numbers
  <2>2. k \in Nat
    BY <1>3 DEF AreIds, IsSequence
  <2> QED
    BY <2>1, <2>2 DEF TextsDiffer
<1> HIDE DEF Nothing
<1>5. CASE Numbers(ids, v.text, w.text) /\ Numbers(ids, x.text, y.text)
  <2>1. w.text = y.text <=> v.text = x.text
    BY <1>3, <1>5, NumbersApart
  <2> QED
    BY <2>1 DEF Text, v, w, x, y
<1>6. Null.text \in Nothing /\ Empty.text \in Nothing
  BY DEF Nothing
<1>7. CASE ~(Numbers(ids, v.text, w.text) /\ Numbers(ids, x.text, y.text))
  <2>1. w.text = y.text <=> v.text = x.text
    BY <1>1, <1>2, <1>4, <1>6, <1>7
  <2> QED
    BY <2>1 DEF Text, v, w, x, y
<1> QED
  BY <1>5, <1>7

LEMMA LastOfMore == ASSUME NEW s, IsSequence(s), NEW x PROVE Append(s, x) # <<>> /\ Last(Append(s, x)) = x
<1> DEFINE n == Len(s) + 1
           t == Append(s, x)
<1>1. n \in Nat /\ n > 0 /\ Len(s) = n - 1
  BY DEF IsSequence
<1> HIDE DEF n
<1>2. Len(t) = n /\ t[n] = x
  BY <1>1, AppendIs
<1> HIDE DEF t
<1>3. t # <<>> /\ Last(t) = x
  BY <1>1, <1>2 DEF Last
<1> QED
  BY <1>3 DEF t

\* The objects on the way to a leaf are those at its keys.
LEMMA DictsAre ==
  ASSUME NEW out, NEW ids, IsAccepted(out, ids), NEW i \in 1..Len(box.leaves),
         NEW keys, IsSequence(keys), HasKeys(box.leaves[i].path, keys)
  PROVE  Dicts(box.leaves[i].path) = KeyDepths(keys)
<1> DEFINE a == box.leaves[i]
           p == a.path
<1>1. box \in Boxes \cup LaterBoxes /\ Unambiguous(box)
  BY DEF IsAccepted
<1>2. IsSequence(p) /\ \A d \in 1..Len(p) : p[d][1] # Item => p[d][2] = 0
  BY <1>1, BoxesHavePaths DEF StepsAreKeys
<1>3. a \in Range(box.leaves)
  <2>1. DOMAIN box.leaves = 1..Len(box.leaves)
    BY <1>1, BoxesHaveLeaves DEF AreLeaves
  <2> QED
    BY <2>1 DEF Range
<1>4. \A step \in Range(p) : step[1] = Item => step[2] # 0
  BY <1>1, <1>3 DEF Unambiguous
<1>5. Len(p) = Len(keys) /\ \A d \in 1..Len(keys) : p[d][1] = keys[d]
  BY DEF HasKeys
<1> HIDE DEF p
<1>6. DOMAIN p = 1..Len(keys) /\ DOMAIN keys = 1..Len(keys)
  BY <1>2, <1>5 DEF IsSequence
<1>7. \A d \in 1..Len(keys) : p[d] \in Range(p)
  BY <1>6 DEF Range
<1>8. \A d \in 1..Len(keys) : p[d][2] = 0 <=> keys[d] # Item
  BY <1>2, <1>4, <1>5, <1>7
<1>9. Dicts(p) = KeyDepths(keys)
  BY <1>6, <1>8 DEF Dicts, KeyDepths
<1> QED
  BY <1>9 DEF p

\* A leaf whose place has a rule that keeps values stays.
LEMMA StaysWhere ==
  ASSUME NEW out, NEW ids, IsAccepted(out, ids), NEW i \in 1..Len(box.leaves), IsPlain(box.leaves[i].url),
         NEW keys, IsSequence(keys), NEW action \in Keeps, IsRule(box.leaves[i].url, keys, action),
         HasKeys(box.leaves[i].path, keys)
  PROVE  out.leaves[i].value = box.leaves[i].value /\ Passes(box.leaves[i].value, action)
<1> DEFINE a == box.leaves[i]
<1>1. a.url \in box.ok /\ \E rule \in RuleOf(box, a) : ~Breaks(a.value, rule.action)
  BY RuledIs
<1>2. IsPlain(a.url) /\ IsRule(a.url, keys, action) /\ HasKeys(a.path, keys)
  OBVIOUS
<1> HIDE DEF a
<1>3. HasRule(box, a, action)
  BY <1>1, <1>2, AtRule
<1>4. ~Breaks(a.value, action)
  BY <1>1, <1>3, OneRule DEF HasRule
<1> QED
  BY <1>3, <1>4, LeafKept DEF a

\* The ids that lead to a value and to a descriptor are the same where they were.
LEMMA LevelsApart ==
  ASSUME TextsDiffer(Nat), NEW out, NEW ids, IsAccepted(out, ids), NEW data \in DOMAIN DescriptorSources,
         NEW p, IsSequence(p), HasKeys(p, DataPath(data)), NEW q, IsSequence(q), HasKeys(q, NamePath(data)),
         NEW d \in 1..(Len(NamePath(data)) - 1), NamePath(data)[d] # Item
  PROVE  LET meta == DescriptorSources[data].meta
             at(path) == Append(SubSeq(path, 1, d - 1), <<"id", 0>>)
         IN Text(out, data, at(p)) = Text(out, meta, at(q)) <=> Text(box, data, at(p)) = Text(box, meta, at(q))
<1> DEFINE meta == DescriptorSources[data].meta
           at == NamePath(data)
           keys == DataPath(data)
           K == Len(at)
           x == Append(SubSeq(p, 1, d - 1), <<"id", 0>>)
           y == Append(SubSeq(q, 1, d - 1), <<"id", 0>>)
           r == Append(SubSeq(keys, 1, d - 1), "id")
           s == Append(SubSeq(at, 1, d - 1), "id")
<1>1. /\ IsPlain(data) /\ IsPlain(meta) /\ IsSequence(at) /\ IsSequence(keys) /\ K \in Nat /\ Len(keys) = K
      /\ KeyDepths(keys) = KeyDepths(at)
  BY DataHave
<1>2. IsRule(meta, s, "id")
  BY DataHave
<1>3. IsRule(data, r, "id")
  <2>1. \A n \in 1..(K - 1) : keys[n] # Item => IsRule(data, Append(SubSeq(keys, 1, n - 1), "id"), "id")
    BY DataHave
  <2>2. d \in KeyDepths(at)
    <3>1. IsSequence(at) /\ K \in Nat /\ d \in 1..(K - 1) /\ at[d] # Item
      BY <1>1
    <3> HIDE DEF at
    <3>2. DOMAIN at = 1..K
      BY <3>1 DEF IsSequence
    <3> HIDE DEF K
    <3>3. d \in 1..K
      BY <3>1
    <3> QED
      BY <3>1, <3>2, <3>3 DEF KeyDepths
  <2>3. keys[d] # Item
    BY <1>1, <2>2 DEF KeyDepths
  <2> QED
    BY <2>1, <2>3
<1> HIDE DEF at, keys, meta
<1>4. d \in 1..Len(keys) /\ d \in 1..Len(at)
  BY <1>1 DEF at
<1>5. HasKeys(x, r) /\ IsSequence(r)
  BY <1>1, <1>4, BesideIs DEF keys
<1>6. HasKeys(y, s) /\ IsSequence(s)
  BY <1>1, <1>4, BesideIs DEF at
<1>7. x # <<>> /\ Last(x) = <<"id", 0>> /\ y # <<>> /\ Last(y) = <<"id", 0>>
  <2>1. Len(p) = Len(keys) /\ Len(q) = Len(at)
    BY DEF HasKeys, keys, at
  <2>2. IsSequence(SubSeq(p, 1, d - 1)) /\ IsSequence(SubSeq(q, 1, d - 1))
    BY <1>4, <2>1, BeforeIs
  <2> QED
    BY <2>2, LastOfMore
<1> HIDE DEF x, y, r, s
<1>8. Text(out, data, x) = Text(out, meta, y) <=> Text(box, data, x) = Text(box, meta, y)
  BY <1>1, <1>2, <1>3, <1>5, <1>6, <1>7, IdsApart
<1> QED
  BY <1>8 DEF x, y, meta

LEMMA DeeperIs ==
  ASSUME NEW K \in Nat, NEW d \in 1..(K - 3)
  PROVE  d \in 1..K /\ d + 1 \in 1..K /\ (d + 1) - 1 = d /\ d + 1 \in 1..(K - 1)
OBVIOUS

\* A descriptor has the ids and the name of a value just where it describes what is
\* published of the value.
LEMMA StillDescribed ==
  ASSUME TextsDiffer(Nat), NEW out, NEW ids, IsAccepted(out, ids), NEW i \in 1..Len(box.leaves),
         box.leaves[i].url \in DOMAIN DescriptorSources,
         HasKeys(box.leaves[i].path, DataPath(box.leaves[i].url)),
         NEW n \in Index(box, box.leaves[i].url)
  PROVE  DescriptorKey(box, box.leaves[n]) = DescriptorKey(box, box.leaves[i])
           <=> n \in Describing(out, out.leaves[i])
<1> DEFINE a == box.leaves[i]
           b == out.leaves[i]
           c == box.leaves[n]
           e == out.leaves[n]
           at == NamePath(a.url)
           keys == DataPath(a.url)
           meta == DescriptorSources[a.url].meta
           K == Len(at)
           D == KeyDepths(at)
           p == a.path
           q == c.path
<1>1. /\ IsPlain(a.url) /\ IsPlain(meta) /\ IsSequence(at) /\ IsSequence(keys) /\ K \in Nat /\ K > 3
      /\ Len(keys) = K /\ KeyDepths(keys) = D /\ at[K] = "name"
      /\ \A d \in 1..(K - 3) : at[d] = Item => d + 1 # K /\ at[d + 1] # Item
  BY DataHave
<1>2. /\ \A d \in 1..(K - 1) : at[d] # Item => d \in 2..(K - 2) /\ at[d - 1] = Item
      /\ IsRule(a.url, Append(Front(keys), "name"), "word") /\ IsRule(meta, at, "word")
  BY DataHave
<1>3. box \in Boxes \cup LaterBoxes /\ DOMAIN out.leaves = 1..Len(box.leaves)
  BY DEF IsAccepted
<1>4. /\ n \in 1..Len(box.leaves) /\ c.url = meta /\ c.value.type = "str" /\ HasKeys(q, at) /\ Dicts(q) = D
  BY <1>3, IndexAlike
<1>5. IsSequence(q) /\ Len(q) = K /\ Append(Front(q), <<"name", 0>>) = q
  BY <1>3, AtName
<1>6. b.url = a.url /\ b.path = p /\ IsSequence(p)
  <2>1. b.url = a.url /\ b.path = p
    BY <1>1, RuledIs
  <2>2. IsSequence(p)
    BY <1>3, BoxesHavePaths
  <2> QED
    BY <2>1, <2>2
<1>7. e.url = meta /\ e.path = q /\ e.value = c.value
  <2>1. IsPlain(c.url) /\ IsRule(c.url, at, "word") /\ "word" \in Keeps
    BY <1>1, <1>2, <1>4 DEF Keeps
  <2>2. e.url = c.url /\ e.path = q
    BY <1>4, <2>1, RuledIs
  <2>3. e.value = c.value
    BY <1>1, <1>4, <2>1, StaysWhere
  <2> QED
    BY <1>4, <2>2, <2>3
<1>8. Dicts(p) = D
  BY <1>1, DictsAre
<1>9. Len(p) = K /\ \A d \in 1..K : p[d][1] = keys[d] /\ q[d][1] = at[d]
  <2>1. HasKeys(p, keys) /\ HasKeys(q, at) /\ Len(keys) = K
    BY <1>1, <1>4
  <2> HIDE DEF p, q, at, keys
  <2> QED
    BY <2>1 DEF HasKeys
<1>10. DOMAIN at = 1..K /\ DOMAIN keys = 1..K
  BY <1>1 DEF IsSequence
<1>11. \A d \in 1..K : keys[d] = Item <=> at[d] = Item
  BY <1>1, <1>10 DEF KeyDepths
<1>12. Generic(q) = at
  BY <1>3 DEF Index
<1> HIDE DEF at, keys, meta
<1> DEFINE beside(path, d) == Append(SubSeq(path, 1, d - 1), <<IF d = K THEN "name" ELSE "id", 0>>)
           x(d) == Get(box, meta, beside(q, d)).text
           y(d) == Get(box, a.url, beside(p, d)).text
<1>13. DescriptorKey(box, c) = DescriptorKey(box, a) <=> \A d \in D : x(d) = y(d)
  <2>1. DescriptorKey(box, a) = [d \in D |-> y(d)]
    BY <1>8, <1>9 DEF DescriptorKey
  <2>2. DescriptorKey(box, c) = [d \in D |-> x(d)]
    BY <1>4, <1>5 DEF DescriptorKey
  <2> HIDE DEF x, y, D
  <2>3. (\A d \in D : DescriptorKey(box, c)[d] = DescriptorKey(box, a)[d])
          => DescriptorKey(box, c) = DescriptorKey(box, a)
    BY <2>1, <2>2
  <2> QED
    BY <2>1, <2>2, <2>3
<1> DEFINE name == Text(out, a.url, Keys(Front(p), "name"))
           one(d) == Text(out, a.url, Keys(SubSeq(p, 1, d), "id"))
           other(d) == Text(out, meta, Keys(SubSeq(q, 1, d), "id"))
<1>14. n \in Describing(out, b) <=>
         e.value.text = name /\ \A d \in 1..(K - 3) : p[d][1] = Item => one(d) = other(d)
  BY <1>3, <1>4, <1>6, <1>7, <1>9, <1>12 DEF Describing, at, meta
<1>15. e.value.text = name <=> x(K) = y(K)
  <2>1. beside(q, K) = q /\ beside(p, K) = Append(SubSeq(p, 1, K - 1), <<"name", 0>>)
        /\ Keys(Front(p), "name") = beside(p, K)
    BY <1>5, <1>9 DEF Front, Keys
  <2>2. x(K) = c.value.text
    BY <1>3, <1>4, <2>1, AtPlace
  <2> DEFINE r == Append(SubSeq(keys, 1, K - 1), "name")
  <2>3. IsRule(a.url, r, "word")
    BY <1>1, <1>2 DEF Front
  <2>4. HasKeys(beside(p, K), r) /\ IsSequence(r)
    <3>1. K \in 1..Len(keys) /\ HasKeys(p, keys)
      BY <1>1 DEF keys
    <3> HIDE DEF K
    <3>2. HasKeys(Append(SubSeq(p, 1, K - 1), <<"name", 0>>), r) /\ IsSequence(r)
      BY <1>1, <1>6, <3>1, BesideIs
    <3> HIDE DEF beside, r
    <3> QED
      BY <2>1, <3>2, Zenon
  <2> HIDE DEF r, beside
  <2>5. Get(out, a.url, beside(p, K)) = Get(box, a.url, beside(p, K))
    BY <1>1, <2>3, <2>4, GetKept DEF Keeps
  <2>6. name = y(K)
    BY <2>1, <2>5, Zenon DEF Text
  <2> HIDE DEF x, y, name
  <2> QED
    BY <1>7, <2>2, <2>6
<1>16. ASSUME NEW d \in 1..(K - 3), p[d][1] = Item
       PROVE  d + 1 \in D /\ (one(d) = other(d) <=> x(d + 1) = y(d + 1))
  <2> DEFINE k == d + 1
  <2>1. d \in 1..K /\ d + 1 \in 1..K /\ (d + 1) - 1 = d /\ d + 1 \in 1..(K - 1)
    <3>1. K \in Nat /\ d \in 1..(K - 3)
      BY <1>1
    <3> HIDE DEF K
    <3> QED
      BY <3>1, DeeperIs
  <2> HIDE DEF K
  <2>2. d + 1 # K /\ at[d + 1] # Item
    BY <1>1, <1>9, <1>11, <1>16, <2>1
  <2>3. d + 1 \in D
    <3>1. d + 1 \in DOMAIN at
      BY <1>10, <2>1
    <3> QED
      BY <2>2, <3>1, Zenon DEF KeyDepths
  <2>4. /\ beside(q, d + 1) = Append(SubSeq(q, 1, (d + 1) - 1), <<"id", 0>>)
        /\ beside(p, d + 1) = Append(SubSeq(p, 1, (d + 1) - 1), <<"id", 0>>)
    <3>1. (IF d + 1 = K THEN "name" ELSE "id") = "id"
      BY <2>2
    <3> HIDE DEF p, q, K
    <3> QED
      BY <3>1
  <2>5. HasKeys(p, DataPath(a.url)) /\ HasKeys(q, NamePath(a.url)) /\ a.url \in DOMAIN DescriptorSources
    BY <1>4 DEF at
  <2>6. k \in 1..(Len(NamePath(a.url)) - 1) /\ NamePath(a.url)[k] # Item
    BY <2>1, <2>2 DEF at, K
  <2> HIDE DEF p, q, a, D, beside, k
  <2>7. Text(out, a.url, beside(p, d + 1)) = Text(out, meta, beside(q, d + 1))
          <=> Text(box, a.url, beside(p, d + 1)) = Text(box, meta, beside(q, d + 1))
    <3> DEFINE u == Append(SubSeq(p, 1, k - 1), <<"id", 0>>)
               v == Append(SubSeq(q, 1, k - 1), <<"id", 0>>)
    <3>1. Text(out, a.url, u) = Text(out, meta, v) <=> Text(box, a.url, u) = Text(box, meta, v)
      BY <1>5, <1>6, <2>5, <2>6, LevelsApart DEF meta
    <3>2. beside(p, d + 1) = u /\ beside(q, d + 1) = v
      BY <2>4 DEF k
    <3> HIDE DEF u, v
    <3> QED
      BY <3>1, <3>2
  <2>8. one(d) = Text(out, a.url, beside(p, d + 1)) /\ other(d) = Text(out, meta, beside(q, d + 1))
    BY <2>1, <2>4 DEF Keys
  <2>9. x(d + 1) = Text(box, meta, beside(q, d + 1)) /\ y(d + 1) = Text(box, a.url, beside(p, d + 1))
    BY DEF Text
  <2> HIDE DEF x, y, one, other
  <2> QED
    BY <2>3, <2>7, <2>8, <2>9
<1>17. ASSUME NEW d \in D PROVE d = K \/ (d - 1 \in 1..(K - 3) /\ p[d - 1][1] = Item /\ (d - 1) + 1 = d)
  <2>1. d \in 1..K /\ at[d] # Item
    BY <1>10 DEF KeyDepths
  <2>2. CASE d # K
    <3>1. d \in 1..(K - 1)
      BY <1>1, <2>1, <2>2
    <3>2. d \in 2..(K - 2) /\ at[d - 1] = Item
      BY <1>2, <2>1, <3>1
    <3>3. d - 1 \in 1..(K - 3) /\ (d - 1) + 1 = d /\ d - 1 \in 1..K
      BY <1>1, <3>2
    <3> QED
      BY <1>9, <1>11, <3>2, <3>3
  <2> QED
    BY <2>2
<1>18. K \in D
  <2>1. K \in 1..K /\ at[K] # Item
    BY <1>1 DEF Item
  <2> HIDE DEF K
  <2> QED
    BY <1>10, <2>1 DEF KeyDepths
<1> HIDE DEF x, y, one, other, name, D, K, beside, p, q
<1>19. (\A d \in D : x(d) = y(d)) <=>
         x(K) = y(K) /\ \A d \in 1..(K - 3) : p[d][1] = Item => x(d + 1) = y(d + 1)
  BY <1>16, <1>17, <1>18
<1>20. DescriptorKey(box, c) = DescriptorKey(box, a) <=> n \in Describing(out, b)
  BY <1>13, <1>14, <1>15, <1>16, <1>19
<1> QED
  BY <1>20

\* The keys of a path.
LEMMA GenericKeys ==
  ASSUME NEW path, IsSequence(path), NEW keys, IsSequence(keys), Generic(path) = keys
  PROVE  HasKeys(path, keys)
<1>1. DOMAIN path = 1..Len(path) /\ Len(path) \in Nat /\ DOMAIN keys = 1..Len(keys) /\ Len(keys) \in Nat
  BY DEF IsSequence
<1>2. DOMAIN path = DOMAIN keys /\ \A d \in DOMAIN path : path[d][1] = keys[d]
  BY DEF Generic
<1>3. \A x, y \in Nat : 1..x = 1..y => x = y
  <2> SUFFICES ASSUME NEW x \in Nat, NEW y \in Nat, 1..x = 1..y PROVE x = y
    OBVIOUS
  <2>1. (x = 0 \/ x \in 1..x) /\ (y = 0 \/ y \in 1..y)
    OBVIOUS
  <2> QED
    BY <2>1
<1>4. 1..Len(path) = 1..Len(keys)
  BY <1>1, <1>2, Zenon
<1>5. Len(path) = Len(keys)
  BY <1>1, <1>3, <1>4, Zenon
<1> QED
  BY <1>1, <1>2, <1>5 DEF HasKeys

\* What describes a published value is what has the ids and the name of the value.
LEMMA DescribedBy ==
  ASSUME TextsDiffer(Nat), NEW out, NEW ids, IsAccepted(out, ids), NEW i \in 1..Len(box.leaves),
         box.leaves[i].url \in DOMAIN DescriptorSources,
         HasKeys(box.leaves[i].path, DataPath(box.leaves[i].url))
  PROVE  Describing(out, out.leaves[i]) =
           {n \in Index(box, box.leaves[i].url) :
              DescriptorKey(box, box.leaves[n]) = DescriptorKey(box, box.leaves[i])}
<1> DEFINE a == box.leaves[i]
           b == out.leaves[i]
           at == NamePath(a.url)
           meta == DescriptorSources[a.url].meta
<1>1. IsPlain(a.url) /\ IsPlain(meta) /\ IsSequence(at) /\ IsRule(meta, at, "word")
  BY DataHave
<1>2. box \in Boxes \cup LaterBoxes /\ DOMAIN out.leaves = 1..Len(box.leaves)
  BY DEF IsAccepted
<1>3. b.url = a.url /\ DOMAIN box.leaves = 1..Len(box.leaves)
  BY <1>1, <1>2, RuledIs, BoxesHaveLeaves DEF AreLeaves
<1>4. ASSUME NEW n \in Describing(out, b) PROVE n \in Index(box, a.url)
  <2> DEFINE c == box.leaves[n]
             e == out.leaves[n]
  <2>1. n \in 1..Len(box.leaves) /\ e.url = meta /\ Generic(e.path) = at /\ e.value.type = "str"
    BY <1>2, <1>3 DEF Describing
  <2>2. c.url = meta
    BY <2>1 DEF IsAccepted, IsDone, Publishable
  <2>3. IsPlain(c.url)
    BY <1>1, <2>2
  <2>4. c.url \in box.ok /\ e.path = c.path
    BY <2>1, <2>3, RuledIs
  <2>5. IsSequence(c.path)
    BY <1>2, <2>1, BoxesHavePaths
  <2> HIDE DEF at, meta
  <2>6. HasKeys(c.path, at)
    BY <1>1, <2>1, <2>4, <2>5, GenericKeys
  <2>7. Dicts(c.path) = KeyDepths(at)
    BY <1>1, <2>1, <2>6, DictsAre
  <2>8. Dicts(c.path) = {d \in DOMAIN c.path : c.path[d][1] # Item}
    BY <2>1, <2>4, <2>7 DEF KeyDepths, Generic
  <2>9. e.value = c.value
    BY <1>1, <2>1, <2>2, <2>6, StaysWhere DEF Keeps
  <2> QED
    BY <1>3, <2>1, <2>2, <2>4, <2>8, <2>9 DEF Index, meta, at
<1>5. \A n \in Index(box, a.url) :
        DescriptorKey(box, box.leaves[n]) = DescriptorKey(box, a) <=> n \in Describing(out, b)
  BY StillDescribed
<1> HIDE DEF a, b
<1>6. Describing(out, b) = {n \in Index(box, a.url) : DescriptorKey(box, box.leaves[n]) = DescriptorKey(box, a)}
  BY <1>4, <1>5
<1> QED
  BY <1>6 DEF a, b

\* The enum values of a descriptor are published.
LEMMA EnumsStay ==
  ASSUME NEW out, NEW ids, IsAccepted(out, ids), NEW data \in DOMAIN DescriptorSources,
         NEW n \in Index(box, data)
  PROVE  LET meta == DescriptorSources[data].meta
             descriptor == Front(box.leaves[n].path)
         IN EnumValues(box, meta, descriptor) \subseteq EnumValues(out, meta, descriptor)
<1> DEFINE c == box.leaves[n]
           at == NamePath(data)
           meta == DescriptorSources[data].meta
           d == Front(c.path)
           keys == Front(at) \o <<"enum_values", Item>>
           Lies(p) == Front(p) = Append(d, <<"enum_values", 0>>) /\ Last(p)[1] = Item
           m == Len(box.leaves)
<1>1. /\ IsPlain(meta) /\ IsSequence(at) /\ Len(at) \in Nat /\ Len(at) > 3 /\ IsRule(meta, keys, "enum")
  BY DataHave
<1>2. box \in Boxes \cup LaterBoxes /\ DOMAIN out.leaves = 1..m
  BY DEF IsAccepted
<1>3. HasKeys(c.path, at) /\ DOMAIN box.leaves = 1..m
  BY <1>2, IndexAlike, BoxesHaveLeaves DEF AreLeaves
<1>4. IsSequence(d) /\ Len(d) = Len(at) - 1 /\ \A j \in 1..Len(d) : d[j][1] = at[j]
  <2>1. IsSequence(c.path) /\ Len(c.path) = Len(at)
    BY <1>2, AtName
  <2> HIDE DEF c, at
  <2>2. Len(at) \in 1..Len(c.path)
    BY <1>1, <2>1
  <2>3. IsSequence(d) /\ Len(d) = Len(at) - 1 /\ \A j \in 1..(Len(at) - 1) : d[j] = c.path[j]
    BY <2>1, <2>2, BeforeIs DEF Front
  <2> HIDE DEF d
  <2>4. \A j \in 1..(Len(at) - 1) : j \in 1..Len(at)
    BY <1>1
  <2> QED
    BY <1>3, <2>1, <2>3, <2>4 DEF HasKeys
<1>5. IsSequence(keys)
  BY <1>1, EnumKeysAre
<1> HIDE DEF at, d, meta, c
<1>6. ASSUME NEW v \in EnumValues(box, meta, d) PROVE v \in EnumValues(out, meta, d)
  <2>1. PICK j \in 1..m : box.leaves[j].url = meta /\ Lies(box.leaves[j].path) /\ v = box.leaves[j].value
    BY <1>3 DEF EnumValues, Range
  <2> DEFINE a == box.leaves[j]
             b == out.leaves[j]
  <2>2. IsSequence(a.path)
    BY <1>2, BoxesHavePaths
  <2>3. HasKeys(a.path, keys)
    <3>1. Len(at) > 1
      BY <1>1
    <3> QED
      BY <1>1, <1>4, <2>1, <2>2, <3>1, EnumPathIs, Zenon
  <2> HIDE DEF keys, Lies
  <2>4. IsPlain(a.url)
    BY <1>1, <2>1
  <2>5. b.url = meta /\ b.path = a.path
    BY <2>1, <2>4, RuledIs
  <2>6. b.value = v
    BY <1>1, <1>5, <2>1, <2>3, <2>4, StaysWhere DEF Keeps
  <2> HIDE DEF a
  <2>7. b \in Range(out.leaves) /\ Lies(b.path)
    BY <1>2, <2>1, <2>5 DEF Range, a
  <2> HIDE DEF b
  <2> QED
    BY <2>5, <2>6, <2>7 DEF EnumValues, Lies
<1> QED
  BY <1>6 DEF d, meta, c

\* A published value is as its published descriptor says.
LEMMA ValueFits ==
  ASSUME TextsDiffer(Nat), NEW out, NEW ids, IsAccepted(out, ids), NEW i \in 1..Len(box.leaves),
         box.leaves[i].url \in DOMAIN DescriptorSources,
         HasKeys(box.leaves[i].path, DataPath(box.leaves[i].url))
  PROVE  FitsIn(out, out.leaves[i])
<1> DEFINE a == box.leaves[i]
           b == out.leaves[i]
           v == a.value
           w == b.value
           at == NamePath(a.url)
           keys == DataPath(a.url)
           meta == DescriptorSources[a.url].meta
           K == Len(at)
           found == Describing(out, b)
           n == Min(found)
           d == Front(box.leaves[n].path)
           minimum == Get(box, meta, Keys(d, "min"))
           enum == EnumValues(box, meta, d)
<1> SUFFICES ASSUME found # {} PROVE IsAsDescribed(out, b, n)
  BY DEF FitsIn
<1>1. /\ IsPlain(a.url) /\ IsPlain(meta) /\ IsSequence(at) /\ IsSequence(keys) /\ K \in Nat /\ K > 3
      /\ IsRule(a.url, keys, "value") /\ IsRule(meta, Append(Front(at), "min"), "number")
  BY DataHave
<1>2. box \in Boxes \cup LaterBoxes
  BY DEF IsAccepted
<1>3. b.url = a.url /\ a.url \in box.ok
  BY <1>1, RuledIs
<1>4. w = DataValue(box, a)
  <2>1. HasRule(box, a, "value")
    BY <1>1, <1>3, AtRule
  <2> QED
    BY <2>1 DEF IsAccepted, IsDone, IsTaken
<1> DEFINE named == {m \in Index(box, a.url) : DescriptorKey(box, box.leaves[m]) = DescriptorKey(box, a)}
<1>5. found = named
  BY DescribedBy
<1>6. n \in Index(box, a.url)
  <2>1. Index(box, a.url) \subseteq Nat
    BY <1>2, IndexAlike
  <2> HIDE DEF found
  <2>2. found \subseteq Nat /\ found \subseteq Index(box, a.url)
    BY <1>5, <2>1
  <2> QED
    BY <2>2, MinIs
<1>7. DescriptorsOf(box, a) = {d}
  <2>1. DescriptorsOf(box, a) = IF named = {} THEN {} ELSE {Front(box.leaves[Min(named)].path)}
    BY DEF DescriptorsOf
  <2> HIDE DEF named, found
  <2> QED
    BY <1>5, <2>1
<1> HIDE DEF found, named
<1>8. n \in 1..Len(box.leaves) /\ box.leaves[n].url = meta /\ HasKeys(box.leaves[n].path, at)
  BY <1>2, <1>6, IndexAlike
<1> HIDE DEF n
<1>9. out.leaves[n].path = box.leaves[n].path
  BY <1>1, <1>8, RuledIs
<1>10. /\ Get(out, meta, Keys(d, "min")) = minimum
       /\ minimum = Null \/ minimum.type \in {"int", "float"}
  <2> DEFINE q == box.leaves[n].path
             k == Append(SubSeq(at, 1, K - 1), "min")
  <2>1. IsSequence(q) /\ Len(q) = K
    BY <1>2, <1>6, AtName
  <2>2. K \in 1..Len(at)
    BY <1>1
  <2>3. HasKeys(Append(SubSeq(q, 1, K - 1), <<"min", 0>>), k) /\ IsSequence(k)
    BY <1>1, <1>8, <2>1, <2>2, BesideIs
  <2> DEFINE z == Append(SubSeq(q, 1, K - 1), <<"min", 0>>)
  <2>4. Keys(d, "min") = z
    BY <2>1 DEF Keys, Front
  <2>5. IsRule(meta, k, "number")
    BY <1>1 DEF Front
  <2> HIDE DEF k, z, d, meta
  <2>6. /\ Get(out, meta, z) = Get(box, meta, z)
        /\ Get(box, meta, z) = Null \/ Passes(Get(box, meta, z), "number")
    <3>1. IsPlain(meta) /\ HasKeys(z, k) /\ IsSequence(k) /\ IsRule(meta, k, "number") /\ "number" \in Keeps
      BY <1>1, <2>3, <2>5 DEF z, Keeps
    <3> QED
      BY <3>1, GetKept, Zenon
  <2>7. /\ Get(out, meta, Keys(d, "min")) = minimum
        /\ minimum = Null \/ Passes(minimum, "number")
    BY <2>4, <2>6
  <2> HIDE DEF minimum
  <2> QED
    BY <2>7 DEF Passes
<1>11. w = CASE v.type \in {"null", "bool"} -> v
             [] v.type \in {"int", "float"} ->
                  IF minimum.type \notin {"int", "float"} THEN Placeholder(v)
                  ELSE Value(v.type, IF v.type = "int" THEN Truncated(minimum.text) ELSE minimum.text)
             [] v.type = "str" ->
                  IF enum = {} THEN Placeholder(v)
                  ELSE IF v \in enum /\ Passes(v, "enum") THEN v
                  ELSE Value("str", "<not-in-enum>")
  <2> DEFINE S == DescriptorsOf(box, a)
  <2>1. S # {} /\ (CHOOSE e \in S : TRUE) = d
    BY <1>7
  <2>2. UNION {EnumValues(box, meta, e) : e \in S} = enum
    BY <1>7
  <2>3. Get(box, meta, Append(CHOOSE e \in S : TRUE, <<"min", 0>>)) = minimum
    BY <2>1 DEF Keys
  <2> HIDE DEF d, minimum, enum, w
  <2> QED
    BY <1>4, <2>1, <2>2, <2>3 DEF DataValue
<1>12. v.type \in JSONTypes
  BY <1>2, BoxesHaveLeaves DEF AreLeaves
<1>13. enum \subseteq EnumValues(out, meta, d)
  BY <1>6, EnumsStay
<1>14. Lists(out, b, n) <=> w \in EnumValues(out, meta, d)
  BY <1>3, <1>9 DEF Lists
<1> HIDE DEF v, w, minimum, enum
<1>15. /\ w.type = "str" => Lists(out, b, n) \/ w.text \in {"<redacted>", "<not-in-enum>"}
       /\ w.type \in {"int", "float"} /\ minimum # Null => w.text \in {minimum.text, Truncated(minimum.text)}
  <2>1. CASE v.type \in {"null", "bool"}
    <3>1. w = v
      BY <1>11, <2>1
    <3> QED
      BY <2>1, <3>1
  <2>2. CASE v.type \in {"int", "float"}
    <3>1. w = IF minimum.type \notin {"int", "float"} THEN Placeholder(v)
              ELSE Value(v.type, IF v.type = "int" THEN Truncated(minimum.text) ELSE minimum.text)
      BY <1>11, <2>2
    <3>2. CASE minimum = Null
      <4>1. w = Placeholder(v)
        BY <3>1, <3>2 DEF Null, Value
      <4>2. w.type = v.type
        BY <2>2, <4>1 DEF Placeholder, Value
      <4> QED
        BY <2>2, <3>2, <4>2
    <3>3. CASE minimum # Null
      <4>1. w = Value(v.type, IF v.type = "int" THEN Truncated(minimum.text) ELSE minimum.text)
        BY <1>10, <3>1, <3>3
      <4>2. w.type = v.type /\ w.text \in {minimum.text, Truncated(minimum.text)}
        BY <4>1 DEF Value
      <4> QED
        BY <2>2, <4>2
    <3> QED
      BY <3>2, <3>3
  <2>3. CASE v.type = "str"
    <3>1. w = IF enum = {} THEN Placeholder(v)
              ELSE IF v \in enum /\ Passes(v, "enum") THEN v
              ELSE Value("str", "<not-in-enum>")
      BY <1>11, <2>3
    <3>2. CASE w = v /\ v \in enum
      BY <1>13, <1>14, <2>3, <3>2
    <3>3. CASE w = Placeholder(v)
      BY <2>3, <3>3 DEF Placeholder, Value
    <3>4. CASE w = Value("str", "<not-in-enum>")
      BY <3>4 DEF Value
    <3> QED
      BY <3>1, <3>2, <3>3, <3>4
  <2> QED
    BY <1>12, <2>1, <2>2, <2>3 DEF JSONTypes
<1>16. Get(out, DescriptorSources[b.url].meta, Keys(Front(out.leaves[n].path), "min")) = minimum
  BY <1>3, <1>9, <1>10
<1> HIDE DEF b
<1> QED
  BY <1>15, <1>16 DEF IsAsDescribed, w

\* Where nothing of a capture is refused, its data are published as their published
\* descriptors have it, for any captures where the texts of any two numbers differ: no two
\* ids get one number, and the texts of the ids lead where they did.
THEOREM ReferencesAreKept ==
  ASSUME TextsDiffer(Nat)
  PROVE  Spec => []ValuesFit
<1>1. ConfinedInv => ValuesFit
  <2> SUFFICES ASSUME ConfinedInv, phase = "published", Unambiguous(box), capture.unclassified = {},
                      NEW i \in DOMAIN capture.leaves,
                      capture.leaves[i].url \in DOMAIN DescriptorSources,
                      Generic(capture.leaves[i].path) = DataPath(capture.leaves[i].url)
               PROVE  FitsIn(capture, capture.leaves[i])
    BY DEF ValuesFit
  <2>1. box \in Boxes \cup LaterBoxes /\ IsConfined(box, capture)
    BY BoxesHaveLeaves, AnonymizedIs DEF ConfinedInv
  <2>2. PICK ids : /\ AreIds(ids)
                   /\ \A j \in 1..Len(box.leaves) : IsDone(box, box.leaves[j], capture.leaves[j], ids, {})
    BY <2>1 DEF IsConfined
  <2>3. Len(capture.leaves) = Len(box.leaves) /\ DOMAIN capture.leaves = 1..Len(box.leaves)
    BY <2>1 DEF IsConfined, IsSequence
  <2>4. IsAccepted(capture, ids)
    BY <2>1, <2>2, <2>3 DEF IsAccepted
  <2> DEFINE a == box.leaves[i]
             b == capture.leaves[i]
             keys == DataPath(b.url)
  <2>5. i \in 1..Len(box.leaves) /\ a.url = b.url
    BY <2>2, <2>3 DEF IsDone, Publishable
  <2>6. IsPlain(a.url) /\ IsSequence(keys)
    BY <2>5, DataHave
  <2>7. b.path = a.path /\ IsSequence(a.path)
    BY <2>1, <2>4, <2>5, <2>6, RuledIs, BoxesHavePaths
  <2>8. HasKeys(a.path, keys)
    BY <2>6, <2>7, GenericKeys DEF b
  <2> QED
    BY <2>4, <2>5, <2>8, ValueFits
<1> QED
  BY <1>1, CaptureIsAnonymized, PTL
=============================================================================
