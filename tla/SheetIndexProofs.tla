-------------------------- MODULE SheetIndexProofs --------------------------
(***************************************************************************)
(* Proofs about SheetIndex, for any records, keys and Sheets, of a program *)
(* that awaits every call it makes on the Sheet (Alone).  Without that the *)
(* builds of two lookups fill one map, and the properties do not hold.     *)
(***************************************************************************)
EXTENDS SheetIndex, FiniteSetTheorems, TLAPS

Alone == \A c, e \in Clients : c = e

Building == \E c \in Clients : at[c] \in {"reading", "filling"}

\* No two records of t have a key in common.
OneEach(t) == \A p, q \in Paths : t[p] \in Keys /\ t[p] = t[q] => p = q

\* A build has put into the map exactly the rows that are not left of its
\* listing, and the tree is still the listed one.
Filled(rows) ==
  /\ \A row \in rows : tree[row[1]] = row[2]
  /\ \A p \in Paths : tree[p] \in Keys => <<p, tree[p]>> \in rows \/ map[tree[p]] = p
  /\ \A k \in Keys : map[k] # None => tree[map[k]] = k /\ <<map[k], k>> \notin rows

BuildIsOfTheTree ==
  \A c \in Clients :
    /\ at[c] = "reading" => map = EmptyMap
    /\ at[c] = "filling" => Filled(want[c].rows)
    /\ at[c] \in {"reading", "filling"} => want[c].label = CurrentHash

\* What a built index, which nobody is building anew, is the index of.
BuiltIndex ==
  /\ bound /\ built => OneEach(tree)
  /\ bound /\ built /\ ~Building => IndexIs(tree)
  /\ ~bound /\ built /\ ~Building => failed \/ (hash \in Trees /\ IndexIs(hash))

AnswersAreCurrent == \A c \in Clients : at[c] = "looking" => failed \/ IndexIs(tree)

IInv ==
  /\ TypeOK /\ want \in [Clients -> Lookups \cup Upserts \cup {None}]
  /\ BuildIsOfTheTree /\ BuiltIndex /\ AnswersAreCurrent

-----------------------------------------------------------------------------
LEMMA OwnersAre ==
  ASSUME NEW t, NEW k
  PROVE  /\ IsFiniteSet(Owners(t, k)) /\ Cardinality(Owners(t, k)) \in Nat
         /\ \A p : p \in Owners(t, k) <=> p \in Paths /\ t[p] = k
<1>1. Owners(t, k) \in SUBSET Paths
  BY DEF Owners
<1> QED BY <1>1, IndexConstantsOK, FS_Subset, FS_CardinalityType DEF Owners

\* Unique, without counting
LEMMA UniqueIsOneEach ==
  ASSUME NEW t
  PROVE  Unique(t) <=> OneEach(t)
<1>1. ASSUME Unique(t), NEW p \in Paths, NEW q \in Paths, t[p] \in Keys, t[p] = t[q]
      PROVE  p = q
  <2>1. {p, q} \in SUBSET Owners(t, t[p])
    BY <1>1, OwnersAre
  <2>2. Cardinality({p, q}) <= Cardinality(Owners(t, t[p]))
    BY <2>1, OwnersAre, FS_Subset
  <2>3. Cardinality(Owners(t, t[p])) <= 1 /\ Cardinality(Owners(t, t[p])) \in Nat
    BY <1>1, OwnersAre DEF Unique
  <2> SUFFICES ASSUME p # q PROVE FALSE
    OBVIOUS
  <2>4. Cardinality({p, q}) = 2
    <3>1. IsFiniteSet({p}) /\ Cardinality({p}) = 1
      BY FS_Singleton
    <3>2. {p} \cup {q} = {p, q} /\ q \notin {p}
      OBVIOUS
    <3> QED BY <3>1, <3>2, FS_AddElement
  <2> QED BY <2>2, <2>3, <2>4
<1>2. ASSUME OneEach(t), NEW k \in Keys
      PROVE  Cardinality(Owners(t, k)) <= 1
  <2>1. CASE Owners(t, k) = {}
    BY <2>1, FS_EmptySet
  <2>2. CASE Owners(t, k) # {}
    <3>1. PICK p : p \in Owners(t, k)
      BY <2>2
    <3>2. Owners(t, k) = {p}
      BY <1>2, <3>1, OwnersAre DEF OneEach
    <3> QED BY <3>2, FS_Singleton
  <2> QED BY <2>1, <2>2
<1> QED BY <1>1, <1>2 DEF Unique, OneEach

LEMMA TwoOwners ==
  ASSUME NEW t, NEW k, NEW p \in Owners(t, k), NEW q \in Owners(t, k), p # q
  PROVE  Cardinality(Owners(t, k)) > 1
<1>1. {p, q} \in SUBSET Owners(t, k)
  OBVIOUS
<1>2. Cardinality({p, q}) = 2
  <2>1. IsFiniteSet({p}) /\ Cardinality({p}) = 1
    BY FS_Singleton
  <2>2. {p} \cup {q} = {p, q} /\ q \notin {p}
    OBVIOUS
  <2> QED BY <2>1, <2>2, FS_AddElement
<1>3. Cardinality({p, q}) <= Cardinality(Owners(t, k))
  BY <1>1, OwnersAre, FS_Subset
<1> QED BY <1>2, <1>3, OwnersAre

-----------------------------------------------------------------------------
LEMMA InitInv == Init => IInv
<1> SUFFICES ASSUME Init PROVE IInv
  OBVIOUS
<1> USE DEF Init
<1>1. TypeOK /\ want \in [Clients -> Lookups \cup Upserts \cup {None}]
  BY DEF TypeOK, EmptyMap, Places
<1>2. BuildIsOfTheTree /\ BuiltIndex /\ AnswersAreCurrent
  BY DEF BuildIsOfTheTree, BuiltIndex, AnswersAreCurrent
<1> QED BY <1>1, <1>2 DEF IInv

\* A step of the only client decides what is under way.
LEMMA Only ==
  ASSUME Alone, NEW c \in Clients, IInv
  PROVE  /\ \A e \in Clients : e = c
         /\ Building <=> at[c] \in {"reading", "filling"}
         /\ Building' <=> at'[c] \in {"reading", "filling"}
         /\ at \in [Clients -> Places] /\ tree \in Trees
         /\ want \in [Clients -> Lookups \cup Upserts \cup {None}]
BY DEF Alone, Building, IInv, TypeOK

LEMMA FindStep ==
  ASSUME Alone, IInv, NEW c \in Clients, NEW k \in Keys, Find(c, k)
  PROVE  IInv'
<1> DEFINE new == [key |-> k, label |-> CurrentHash, rows |-> {}]
<1>1. /\ at[c] = "idle" /\ want' = [want EXCEPT ![c] = new]
      /\ UNCHANGED <<bound, tree, built, hash, failed>>
  BY DEF Find
<1>2. new \in Lookups
  BY DEF Lookups, CurrentHash, IInv, TypeOK
<1>3. new.label = CurrentHash /\ CurrentHash' = CurrentHash
  BY <1>1 DEF CurrentHash
<1> HIDE DEF new
<1>4. want' \in [Clients -> Lookups \cup Upserts \cup {None}] /\ want'[c] = new
  BY <1>1, <1>2, Only
<1>5. CASE UpToDate
  <2>1. at' = [at EXCEPT ![c] = "looking"] /\ UNCHANGED map
    BY <1>5 DEF Find
  <2>2. at'[c] = "looking"
    BY <2>1, Only
  <2>3. TypeOK'
    BY <1>1, <1>2, <1>4, <2>1, <2>2, Only DEF IInv, TypeOK, Places
  <2>4. ~bound /\ built /\ hash = tree
    BY <1>5 DEF UpToDate, CurrentHash
  <2>5. failed \/ IndexIs(tree)
    BY <1>1, <2>4, Only DEF IInv, BuiltIndex
  <2>6. IndexIs(tree)' <=> IndexIs(tree)
    BY <1>1, <2>1 DEF IndexIs
  <2>7. BuiltIndex'
    BY <1>1, <2>4, <2>5, <2>6, Only DEF BuiltIndex
  <2>8. BuildIsOfTheTree' /\ AnswersAreCurrent'
    BY <1>1, <2>2, <2>5, <2>6, Only DEF BuildIsOfTheTree, AnswersAreCurrent
  <2> QED BY <1>4, <2>3, <2>7, <2>8 DEF IInv
<1>6. CASE ~UpToDate
  <2>1. at' = [at EXCEPT ![c] = "reading"] /\ map' = EmptyMap
    BY <1>6 DEF Find, MapAtStart
  <2>2. at'[c] = "reading"
    BY <2>1, Only
  <2>3. TypeOK'
    BY <1>1, <1>2, <1>4, <2>1, <2>2, Only DEF IInv, TypeOK, Places, EmptyMap
  <2>4. BuiltIndex'
    BY <1>1, <2>2, Only DEF IInv, BuiltIndex, OneEach
  <2>5. BuildIsOfTheTree' /\ AnswersAreCurrent'
    BY <1>3, <1>4, <2>1, <2>2, Only DEF BuildIsOfTheTree, AnswersAreCurrent
  <2> QED BY <1>4, <2>3, <2>4, <2>5 DEF IInv
<1> QED BY <1>5, <1>6

LEMMA ReadRowsStep ==
  ASSUME Alone, IInv, NEW c \in Clients, ReadRows(c)
  PROVE  IInv'
<1> DEFINE listed == {<<p, tree[p]>> : p \in {q \in Paths : tree[q] # None}}
<1>1. /\ at[c] = "reading" /\ want' = [want EXCEPT ![c].rows = listed]
      /\ at' = [at EXCEPT ![c] = "filling"]
      /\ UNCHANGED <<bound, tree, map, built, hash, failed>>
  BY DEF ReadRows, indexVars
<1>2. /\ want[c] \in Lookups /\ map = EmptyMap /\ want[c].label = CurrentHash
  BY <1>1 DEF IInv, TypeOK, BuildIsOfTheTree
<1>3. listed \in SUBSET (Paths \X (Keys \cup {NoKey}))
  BY Only DEF Trees
<1>4. /\ \A p \in Paths : tree[p] \in Keys => <<p, tree[p]>> \in listed
      /\ \A row \in listed : tree[row[1]] = row[2]
  BY IndexConstantsOK
<1> HIDE DEF listed
<1>5. /\ want'[c] \in Lookups /\ want'[c].rows = listed /\ want'[c].label = want[c].label
      /\ want' \in [Clients -> Lookups \cup Upserts \cup {None}]
  BY <1>1, <1>2, <1>3, Only DEF Lookups
<1>6. at'[c] = "filling" /\ at' \in [Clients -> Places]
  BY <1>1, Only DEF Places
<1>7. TypeOK'
  BY <1>1, <1>5, <1>6, Only DEF IInv, TypeOK
<1>8. Filled(want[c].rows)'
  <2>1. \A k \in Keys : map'[k] = None
    BY <1>1, <1>2 DEF EmptyMap
  <2> QED BY <1>1, <1>4, <1>5, <2>1 DEF Filled
<1>9. BuildIsOfTheTree' /\ AnswersAreCurrent'
  <2>1. CurrentHash' = CurrentHash
    BY <1>1 DEF CurrentHash
  <2> QED BY <1>2, <1>5, <1>6, <1>8, <2>1, Only DEF BuildIsOfTheTree, AnswersAreCurrent
<1>10. BuiltIndex'
  BY <1>1, <1>6, Only DEF IInv, BuiltIndex, OneEach
<1> QED BY <1>5, <1>7, <1>9, <1>10 DEF IInv

LEMMA TakeRowStep ==
  ASSUME Alone, IInv, NEW c \in Clients,
         NEW row \in Paths \X (Keys \cup {NoKey}), TakeRow(c, row)
  PROVE  IInv'
<1> DEFINE rows == want[c].rows
           left == rows \ {row}
<1>1. /\ at[c] = "filling" /\ row \in rows
      /\ row[2] # NoKey => map[row[2]] = None
      /\ map' = IF row[2] = NoKey THEN map ELSE [map EXCEPT ![row[2]] = row[1]]
      /\ want' = [want EXCEPT ![c].rows = left]
      /\ UNCHANGED <<bound, tree, built, hash, at, failed>>
  BY DEF TakeRow, IsNextRow
<1>2. /\ want[c] \in Lookups /\ Filled(rows) /\ want[c].label = CurrentHash
      /\ map \in [Keys -> Paths \cup {None}]
  BY <1>1 DEF IInv, TypeOK, BuildIsOfTheTree
<1>3. /\ rows \in SUBSET (Paths \X (Keys \cup {NoKey}))
      /\ row[1] \in Paths /\ row[2] \in Keys \cup {NoKey} /\ row = <<row[1], row[2]>>
  BY <1>2 DEF Lookups
<1> HIDE DEF rows
<1>4. /\ want'[c] \in Lookups /\ want'[c].rows = left /\ want'[c].label = want[c].label
      /\ want' \in [Clients -> Lookups \cup Upserts \cup {None}]
  <2>1. left \in SUBSET (Paths \X (Keys \cup {NoKey}))
    BY <1>3
  <2> HIDE DEF left
  <2> QED BY <1>1, <1>2, <2>1, Only DEF Lookups
<1>5. map' \in [Keys -> Paths \cup {None}]
  BY <1>1, <1>2, <1>3
<1>6. TypeOK'
  BY <1>1, <1>4, <1>5, Only DEF IInv, TypeOK
<1>7. Filled(want[c].rows)'
  <2>1. \A other \in left : tree[other[1]] = other[2]
    BY <1>2 DEF Filled
  <2>2. ASSUME NEW p \in Paths, tree[p] \in Keys
        PROVE  <<p, tree[p]>> \in left \/ map'[tree[p]] = p
    <3>1. CASE <<p, tree[p]>> = row
      <4>1. row[1] = p /\ row[2] = tree[p] /\ row[2] # NoKey
        BY <2>2, <3>1, IndexConstantsOK
      <4> QED BY <1>1, <1>2, <2>2, <4>1
    <3>2. CASE <<p, tree[p]>> # row /\ <<p, tree[p]>> \in rows
      BY <3>2
    <3>3. CASE <<p, tree[p]>> \notin rows
      <4>1. map[tree[p]] = p
        BY <1>2, <2>2, <3>3 DEF Filled
      <4>2. row[2] # NoKey => row[2] # tree[p]
        BY <1>1, <4>1, <2>2, IndexConstantsOK
      <4> QED BY <1>1, <1>2, <1>3, <2>2, <4>1, <4>2
    <3> QED BY <3>1, <3>2, <3>3
  <2>3. ASSUME NEW k \in Keys, map'[k] # None
        PROVE  tree[map'[k]] = k /\ <<map'[k], k>> \notin left
    <3>1. CASE row[2] = k
      <4>1. map'[k] = row[1] /\ row = <<map'[k], k>>
        BY <1>1, <1>2, <1>3, <3>1, <2>3, IndexConstantsOK
      <4>2. tree[row[1]] = row[2]
        BY <1>1, <1>2 DEF Filled
      <4> QED BY <3>1, <4>1, <4>2
    <3>2. CASE row[2] # k
      <4>1. map'[k] = map[k]
        BY <1>1, <1>2, <1>3, <3>2, <2>3
      <4> QED BY <1>2, <2>3, <4>1 DEF Filled
    <3> QED BY <3>1, <3>2
  <2> HIDE DEF left
  <2> QED BY <1>1, <1>4, <2>1, <2>2, <2>3 DEF Filled
<1>8. BuildIsOfTheTree' /\ AnswersAreCurrent'
  <2>1. CurrentHash' = CurrentHash
    BY <1>1 DEF CurrentHash
  <2> QED BY <1>1, <1>2, <1>4, <1>7, <2>1, Only DEF BuildIsOfTheTree, AnswersAreCurrent
<1>9. BuiltIndex'
  BY <1>1, Only DEF IInv, BuiltIndex, OneEach
<1> QED BY <1>4, <1>6, <1>8, <1>9 DEF IInv

\* A conflict is one of two records of the tree.
LEMMA ConflictOwners ==
  ASSUME IInv, NEW c \in Clients,
         NEW row \in Paths \X (Keys \cup {NoKey}), BuildConflict(c, row)
  PROVE  /\ row[2] \in Keys
         /\ row[1] \in Paths /\ tree[row[1]] = row[2]
         /\ map[row[2]] \in Paths /\ tree[map[row[2]]] = row[2]
         /\ map[row[2]] # row[1]
<1>1. /\ at[c] = "filling" /\ row \in want[c].rows
      /\ row[2] # NoKey /\ map[row[2]] # None
  BY DEF BuildConflict, IsNextRow
<1>2. Filled(want[c].rows) /\ map \in [Keys -> Paths \cup {None}]
  BY <1>1 DEF IInv, TypeOK, BuildIsOfTheTree
<1>3. row[1] \in Paths /\ row[2] \in Keys /\ row = <<row[1], row[2]>>
  BY <1>1
<1>4. /\ tree[row[1]] = row[2]
      /\ tree[map[row[2]]] = row[2] /\ <<map[row[2]], row[2]>> \notin want[c].rows
  BY <1>1, <1>2, <1>3 DEF Filled
<1>5. map[row[2]] \in Paths
  BY <1>1, <1>2, <1>3
<1> QED BY <1>1, <1>3, <1>4, <1>5

\* A call that ends, and what it leaves when it has changed no index.
LEMMA CallEnds ==
  ASSUME Alone, IInv, NEW c \in Clients, Idles(c),
         tree' \in Trees, failed' \in BOOLEAN, failed => failed',
         UNCHANGED <<bound, map, hash>>,
         built' \in BOOLEAN, BuiltIndex'
  PROVE  IInv'
<1>1. at'[c] = "idle" /\ want'[c] = None /\ at' \in [Clients -> Places]
      /\ want' \in [Clients -> Lookups \cup Upserts \cup {None}]
  BY Only DEF Idles, Places
<1>2. TypeOK'
  BY <1>1, Only DEF IInv, TypeOK
<1>3. BuildIsOfTheTree' /\ AnswersAreCurrent'
  BY <1>1, Only DEF BuildIsOfTheTree, AnswersAreCurrent
<1> QED BY <1>1, <1>2, <1>3 DEF IInv

LEMMA BuildConflictStep ==
  ASSUME Alone, IInv, NEW c \in Clients,
         NEW row \in Paths \X (Keys \cup {NoKey}), BuildConflict(c, row)
  PROVE  IInv'
<1>1. /\ failed' = TRUE /\ Idles(c)
      /\ UNCHANGED <<bound, tree, map, built, hash>>
  BY DEF BuildConflict, indexVars
<1>2. ~OneEach(tree)
  BY ConflictOwners DEF OneEach
<1>3. ~(bound /\ built)
  BY <1>2 DEF IInv, BuiltIndex
<1>4. BuiltIndex'
  BY <1>1, <1>3 DEF BuiltIndex
<1> QED BY <1>1, <1>4, Only, CallEnds DEF IInv, TypeOK

LEMMA FinishBuildStep ==
  ASSUME Alone, IInv, NEW c \in Clients, FinishBuild(c)
  PROVE  IInv'
<1>1. /\ at[c] = "filling" /\ want[c].rows = {}
      /\ hash' = want[c].label /\ built' = TRUE
      /\ at' = [at EXCEPT ![c] = "looking"]
      /\ UNCHANGED <<bound, tree, map, want, failed>>
  BY DEF FinishBuild
<1>2. /\ Filled({}) /\ want[c].label = CurrentHash /\ want[c] \in Lookups
      /\ map \in [Keys -> Paths \cup {None}]
  BY <1>1 DEF IInv, TypeOK, BuildIsOfTheTree
<1>3. at'[c] = "looking" /\ at' \in [Clients -> Places]
  BY <1>1, Only DEF Places
<1>4. OneEach(tree)
  BY <1>2 DEF Filled, OneEach
<1>5. IndexIs(tree)
  <2> SUFFICES ASSUME NEW k \in Keys
               PROVE  IF Owners(tree, k) = {} THEN map[k] = None
                                              ELSE map[k] \in Owners(tree, k)
    BY DEF IndexIs
  <2>1. \A p \in Owners(tree, k) : map[k] = p
    BY <1>2, OwnersAre DEF Filled
  <2>2. map[k] # None => map[k] \in Owners(tree, k)
    BY <1>2, OwnersAre DEF Filled
  <2> QED BY <2>1, <2>2
<1>6. IndexIs(tree)' /\ OneEach(tree)'
  BY <1>1, <1>4, <1>5 DEF IndexIs, OneEach
<1>7. TypeOK'
  <2>1. want[c].label \in Trees \cup {None}
    BY <1>2 DEF Lookups
  <2> QED BY <1>1, <1>2, <1>3, <2>1, Only DEF IInv, TypeOK
<1>8. BuiltIndex'
  <2>1. ~bound => hash' = tree
    BY <1>1, <1>2 DEF CurrentHash
  <2>2. ~bound => IndexIs(hash)'
    BY <1>1, <1>6, <2>1 DEF IndexIs
  <2> QED BY <1>1, <1>6, <2>1, <2>2, Only DEF BuiltIndex
<1>9. BuildIsOfTheTree' /\ AnswersAreCurrent'
  BY <1>3, <1>6, Only DEF BuildIsOfTheTree, AnswersAreCurrent
<1> QED BY <1>1, <1>7, <1>8, <1>9, Only DEF IInv

-----------------------------------------------------------------------------
\* Nothing happens to a built index when no build is under way and neither the
\* tree nor the index changes.
LEMMA BuiltStays ==
  ASSUME BuiltIndex, ~Building, UNCHANGED <<bound, tree, indexVars, failed>>
  PROVE  BuiltIndex'
BY DEF BuiltIndex, OneEach, IndexIs, indexVars

LEMMA AnswerStep ==
  ASSUME Alone, IInv, NEW c \in Clients, Answer(c)
  PROVE  IInv'
<1>1. at[c] = "looking" /\ Idles(c) /\ UNCHANGED <<bound, tree, indexVars, failed>>
  BY DEF Answer
<1>2. BuiltIndex'
  BY <1>1, Only, BuiltStays DEF IInv
<1> QED BY <1>1, <1>2, Only, CallEnds DEF IInv, TypeOK, indexVars

LEMMA RefuseStep ==
  ASSUME Alone, IInv, NEW c \in Clients, Refuse(c)
  PROVE  IInv'
<1>1. at[c] = "validating" /\ Idles(c) /\ UNCHANGED <<bound, tree, indexVars, failed>>
  BY DEF Refuse
<1>2. BuiltIndex'
  BY <1>1, Only, BuiltStays DEF IInv
<1> QED BY <1>1, <1>2, Only, CallEnds DEF IInv, TypeOK, indexVars

LEMMA UpsertStep ==
  ASSUME Alone, IInv, NEW c \in Clients, NEW u \in Upserts, Upsert(c, u)
  PROVE  IInv'
<1>1. /\ at[c] = "idle" /\ want' = [want EXCEPT ![c] = u]
      /\ at' = [at EXCEPT ![c] = "validating"]
      /\ UNCHANGED <<bound, tree, indexVars, failed>>
  BY DEF Upsert
<1>2. /\ at'[c] = "validating" /\ want'[c] = u /\ at' \in [Clients -> Places]
      /\ want' \in [Clients -> Lookups \cup Upserts \cup {None}]
  BY <1>1, Only DEF Places
<1>3. TypeOK'
  BY <1>1, <1>2, Only DEF IInv, TypeOK, indexVars
<1>4. BuiltIndex'
  BY <1>1, Only, BuiltStays DEF IInv
<1>5. BuildIsOfTheTree' /\ AnswersAreCurrent'
  BY <1>2, Only DEF BuildIsOfTheTree, AnswersAreCurrent
<1> QED BY <1>2, <1>3, <1>4, <1>5 DEF IInv

\* A write to the tree a bound Sheet reads takes the index away; a standalone
\* Sheet keeps it under the hash of the tree it is of.
LEMMA WriteKeeps ==
  ASSUME BuiltIndex, ~Building, UNCHANGED <<bound, map, hash, failed>>,
         built' = BuiltAfterWrite
  PROVE  BuiltIndex'
BY DEF BuiltIndex, BuiltAfterWrite, IndexIs

LEMMA StageStep ==
  ASSUME Alone, IInv, NEW c \in Clients, Stage(c)
  PROVE  IInv'
<1>1. /\ at[c] = "validating" /\ tree' = Put(tree, want[c]) /\ built' = BuiltAfterWrite
      /\ Idles(c) /\ UNCHANGED <<bound, map, hash, failed>>
  BY DEF Stage
<1>2. want[c] \in Upserts
  BY <1>1 DEF IInv, TypeOK
<1>3. tree' \in Trees
  BY <1>1, <1>2, Only DEF Put, Trees, Upserts
<1>4. BuiltIndex'
  BY <1>1, Only, WriteKeeps DEF IInv
<1>5. built' \in BOOLEAN
  BY <1>1 DEF BuiltAfterWrite
<1> QED BY <1>1, <1>3, <1>4, <1>5, CallEnds DEF IInv, TypeOK

\* A write, or a refresh, of an idle client
LEMMA IdleWrites ==
  ASSUME Alone, IInv, NEW c \in Clients, at[c] = "idle", UNCHANGED <<at, want>>,
         tree' \in Trees, built' \in BOOLEAN, BuiltIndex',
         UNCHANGED <<bound, map, hash, failed>>
  PROVE  IInv'
<1>1. TypeOK'
  BY DEF IInv, TypeOK
<1>2. BuildIsOfTheTree' /\ AnswersAreCurrent'
  BY Only DEF BuildIsOfTheTree, AnswersAreCurrent
<1> QED BY <1>1, <1>2 DEF IInv

LEMMA DeleteStep ==
  ASSUME Alone, IInv, NEW c \in Clients, NEW p \in Paths, Delete(c, p)
  PROVE  IInv'
<1>1. /\ at[c] = "idle" /\ tree' = [tree EXCEPT ![p] = None] /\ built' = BuiltAfterWrite
      /\ UNCHANGED <<bound, map, hash, at, want, failed>>
  BY DEF Delete
<1>2. tree' \in Trees
  BY <1>1, Only DEF Trees
<1>3. BuiltIndex' /\ built' \in BOOLEAN
  BY <1>1, Only, WriteKeeps DEF IInv, BuiltAfterWrite
<1> QED BY <1>1, <1>2, <1>3, IdleWrites

LEMMA ClearStep ==
  ASSUME Alone, IInv, NEW c \in Clients, Clear(c)
  PROVE  IInv'
<1>1. /\ at[c] = "idle" /\ tree' = [p \in Paths |-> None] /\ built' = BuiltAfterWrite
      /\ UNCHANGED <<bound, map, hash, at, want, failed>>
  BY DEF Clear
<1>2. tree' \in Trees
  BY <1>1 DEF Trees
<1>3. BuiltIndex' /\ built' \in BOOLEAN
  BY <1>1, Only, WriteKeeps DEF IInv, BuiltAfterWrite
<1> QED BY <1>1, <1>2, <1>3, IdleWrites

LEMMA RefreshStep ==
  ASSUME Alone, IInv, NEW c \in Clients, NEW t \in Trees, Refresh(c, t)
  PROVE  IInv'
<1>1. /\ at[c] = "idle" /\ ~bound /\ tree' = t
      /\ UNCHANGED <<bound, map, built, hash, at, want, failed>>
  BY DEF Refresh, indexVars
<1>2. BuiltIndex' /\ built' \in BOOLEAN
  BY <1>1, Only DEF IInv, TypeOK, BuiltIndex, IndexIs
<1> QED BY <1>1, <1>2, IdleWrites

LEMMA StepInv == Alone /\ IInv /\ [Next]_vars => IInv'
<1> SUFFICES ASSUME Alone, IInv, [Next]_vars PROVE IInv'
  OBVIOUS
<1>1. CASE UNCHANGED vars
  <2>1. UNCHANGED <<bound, tree, map, built, hash, at, want, failed>>
    BY <1>1 DEF vars, indexVars
  <2>2. TypeOK'
    BY <2>1 DEF IInv, TypeOK
  <2>3. BuildIsOfTheTree'
    BY <2>1 DEF IInv, BuildIsOfTheTree, Filled, CurrentHash
  <2>4. BuiltIndex' /\ AnswersAreCurrent'
    BY <2>1 DEF IInv, BuiltIndex, AnswersAreCurrent, OneEach, IndexIs, Building
  <2> QED BY <2>1, <2>2, <2>3, <2>4 DEF IInv
<1>2. CASE Next
  BY <1>2, FindStep, ReadRowsStep, TakeRowStep, BuildConflictStep, FinishBuildStep, AnswerStep,
     UpsertStep, StageStep, RefuseStep, DeleteStep, ClearStep, RefreshStep DEF Next
<1> QED BY <1>1, <1>2

LEMMA Invariance == ASSUME Alone PROVE Spec => []IInv
<1>1. IInv /\ [Next]_vars => IInv'
  BY StepInv
<1> QED BY <1>1, InitInv, PTL DEF Spec

-----------------------------------------------------------------------------
\* Every variable stays within its type (the fields of Sheet and IndexState).
THEOREM TypeCorrect == ASSUME Alone PROVE Spec => []TypeOK
<1>1. IInv => TypeOK
  BY DEF IInv
<1> QED BY <1>1, Invariance, PTL

\* An upsert of a bound Sheet is checked against the index of the tree it is
\* going to be written to (#uniqueIndexPrecheck, #invalidateIndexes).
THEOREM ChecksAreCurrent == ASSUME Alone PROVE Spec => []CheckedIndexIsCurrent
<1>1. IInv => CheckedIndexIsCurrent
  BY DEF IInv, CheckedIndexIsCurrent, BuiltIndex, Building
<1> QED BY <1>1, Invariance, PTL

\* Through writes, refreshes and failed builds: as long as no build has met a
\* conflict, a lookup answers from the tree the Sheet reads (findByIndex, the
\* tree hash of IndexState).
THEOREM LookupsAreCurrent == ASSUME Alone PROVE Spec => LookupIsCurrent
<1> DEFINE Current ==
      \A c \in Clients : Answer(c) =>
        \/ failed
        \/ LET k == want[c].key IN
           IF Owners(tree, k) = {} THEN map[k] = None ELSE map[k] \in Owners(tree, k)
<1>1. IInv => Current
  <2> SUFFICES ASSUME IInv, NEW c \in Clients, Answer(c), ~failed, NEW k, k = want[c].key
               PROVE  IF Owners(tree, k) = {} THEN map[k] = None ELSE map[k] \in Owners(tree, k)
    OBVIOUS
  <2>1. at[c] = "looking" /\ k \in Keys
    BY DEF Answer, IInv, TypeOK, Lookups
  <2> QED BY <2>1 DEF IInv, AnswersAreCurrent, IndexIs
<1>2. IInv /\ [Next]_vars => [Current]_vars
  BY <1>1
<1> QED BY <1>2, Invariance, PTL DEF Spec, LookupIsCurrent

\* A build that throws has met two records with the key (#ensureIndexBuilt).
THEOREM ConflictsAreReal == ASSUME Alone PROVE Spec => ConflictIsReal
<1> DEFINE Real == \A c \in Clients : \A row \in Paths \X Keys :
                     BuildConflict(c, row) => Cardinality(Owners(tree, row[2])) > 1
<1>1. IInv => Real
  <2> SUFFICES ASSUME IInv, NEW c \in Clients, NEW row \in Paths \X Keys, BuildConflict(c, row)
               PROVE  Cardinality(Owners(tree, row[2])) > 1
    OBVIOUS
  <2>1. row \in Paths \X (Keys \cup {NoKey})
    OBVIOUS
  <2>2. /\ row[1] \in Owners(tree, row[2]) /\ map[row[2]] \in Owners(tree, row[2])
        /\ map[row[2]] # row[1]
    BY <2>1, ConflictOwners, OwnersAre
  <2> QED BY <2>2, TwoOwners
<1>2. IInv /\ [Next]_vars => [Real]_vars
  BY <1>1
<1> QED BY <1>2, Invariance, PTL DEF Spec, ConflictIsReal

\* specs/behaviors/indexing.md:104 holds of a program that awaits every lookup:
\* the owner the map has and the row that conflicts with it are two records.
THEOREM ConflictsNameTwo == ASSUME Alone PROVE Spec => ConflictNamesTwo
<1> DEFINE Two == \A c \in Clients : \A row \in Paths \X Keys :
                    BuildConflict(c, row) => map[row[2]] # row[1]
<1>1. IInv => Two
  <2> SUFFICES ASSUME IInv, NEW c \in Clients, NEW row \in Paths \X Keys, BuildConflict(c, row)
               PROVE  map[row[2]] # row[1]
    OBVIOUS
  <2>1. row \in Paths \X (Keys \cup {NoKey})
    OBVIOUS
  <2> QED BY <2>1, ConflictOwners
<1>2. IInv /\ [Next]_vars => [Two]_vars
  BY <1>1
<1> QED BY <1>2, Invariance, PTL DEF Spec, ConflictNamesTwo

\* What the index says of an upsert that is checked
LEMMA CheckedUpsert ==
  ASSUME Alone, IInv, NEW c \in Clients, at[c] = "validating", bound, built
  PROVE  /\ IndexIs(tree) /\ want[c] \in Upserts
         /\ want[c].key # NoKey => want[c].key \in Keys
<1>1. ~Building
  BY Only
<1>2. want[c] \in Upserts
  BY DEF IInv, TypeOK
<1> QED BY <1>1, <1>2 DEF IInv, BuiltIndex, Upserts

\* An upsert is refused only if written it would share its key with another
\* record, or if it is a rename that keeps the key: the one refusal that nothing
\* stored would call for (#uniqueIndexPrecheck, stage_upsert).
THEOREM RefusalsAreReal == ASSUME Alone PROVE Spec => RefusalIsReal
<1> DEFINE Real == \A c \in Clients : Refuse(c) =>
                     \/ KeepsItsKey(want[c])
                     \/ \E p, q \in Owners(Put(tree, want[c]), want[c].key) : p # q
<1>1. IInv => Real
  <2> SUFFICES ASSUME IInv, NEW c \in Clients, Refuse(c), ~KeepsItsKey(want[c])
               PROVE  \E p, q \in Owners(Put(tree, want[c]), want[c].key) : p # q
    OBVIOUS
  <2> DEFINE u == want[c]
             owner == map[u.key]
  <2>1. /\ at[c] = "validating" /\ bound /\ built
        /\ u.key # NoKey /\ owner \notin {None, u.path}
    BY DEF Refuse, Refused
  <2>2. u.key \in Keys /\ owner \in Owners(tree, u.key) /\ u.path \in Paths
    BY <2>1, CheckedUpsert DEF IndexIs, Upserts
  <2>3. owner \in Paths /\ tree[owner] = u.key
    BY <2>2 DEF Owners
  <2>4. owner # u.prev
    BY <2>1, <2>3 DEF KeepsItsKey
  <2> HIDE DEF owner
  <2>5. owner \in Owners(Put(tree, u), u.key)
    BY <2>1, <2>3, <2>4 DEF Put, Owners
  <2>6. u.path \in Owners(Put(tree, u), u.key)
    BY <2>2 DEF Put, Owners
  <2> QED BY <2>1, <2>5, <2>6
<1>2. IInv /\ [Next]_vars => [Real]_vars
  BY <1>1
<1> QED BY <1>2, Invariance, PTL DEF Spec, RefusalIsReal

\* An upsert that passes the check against a built index leaves every key to
\* one record, a rename included (#uniqueIndexPrecheck, stage_upsert).
THEOREM ChecksKeepKeysUnique == ASSUME Alone PROVE Spec => CheckedUpsertKeepsUnique
<1> DEFINE Keeps == \A c \in Clients :
                      Stage(c) /\ bound /\ built /\ Unique(tree) => Unique(tree')
<1>1. IInv => Keeps
  <2> SUFFICES ASSUME IInv, NEW c \in Clients, Stage(c), bound, built, Unique(tree)
               PROVE  OneEach(tree')
    BY UniqueIsOneEach
  <2> DEFINE u == want[c]
  <2>1. at[c] = "validating" /\ ~Refused(u) /\ tree' = Put(tree, u)
    BY DEF Stage
  <2>2. IndexIs(tree) /\ u \in Upserts /\ (u.key # NoKey => u.key \in Keys)
    BY <2>1, CheckedUpsert
  <2>3. OneEach(tree)
    BY UniqueIsOneEach
  <2> HIDE DEF u
  <2>4. \A p \in Paths : /\ p = u.path => tree'[p] = u.key
                         /\ p # u.path => tree'[p] \in {None, tree[p]}
    BY <2>1 DEF Put
  <2>5. ASSUME NEW p \in Paths, tree[p] = u.key, u.key \in Keys
        PROVE  p = u.path
    <3>1. p \in Owners(tree, u.key)
      BY <2>5, OwnersAre
    <3>2. map[u.key] \in Owners(tree, u.key)
      BY <2>2, <2>5, <3>1 DEF IndexIs
    <3>3. map[u.key] = p
      BY <2>3, <2>5, <3>1, <3>2, OwnersAre DEF OneEach
    <3>4. map[u.key] \in {None, u.path}
      BY <2>1, <2>5, IndexConstantsOK DEF Refused
    <3> QED BY <3>3, <3>4, IndexConstantsOK
  <2>6. ASSUME NEW p \in Paths, NEW q \in Paths, tree'[p] \in Keys, tree'[p] = tree'[q]
        PROVE  p = q
    <3>1. CASE p = u.path /\ q # u.path
      BY <2>4, <2>5, <2>6, <3>1, IndexConstantsOK
    <3>2. CASE p # u.path /\ q = u.path
      BY <2>4, <2>5, <2>6, <3>2, IndexConstantsOK
    <3>3. CASE p # u.path /\ q # u.path
      BY <2>3, <2>4, <2>6, <3>3, IndexConstantsOK DEF OneEach
    <3> QED BY <3>1, <3>2, <3>3
  <2> QED BY <2>6 DEF OneEach
<1>2. IInv /\ [Next]_vars => [Keeps]_vars
  BY <1>1
<1> QED BY <1>2, Invariance, PTL DEF Spec, CheckedUpsertKeepsUnique

=============================================================================
