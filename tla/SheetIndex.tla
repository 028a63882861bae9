------------------------------ MODULE SheetIndex ------------------------------
(***************************************************************************)
(* A unique index of a Sheet of the JS binding (defineIndex, findByIndex   *)
(* and the check of upsert, packages/gitsheets/src/sheet.ts).              *)
(*                                                                         *)
(* The index is a map in memory that is built from the records the Sheet   *)
(* reads.  A Sheet that is bound to a transaction reads the transaction's  *)
(* tree and writes to it; it builds the index for every lookup and forgets *)
(* it with every write.  A standalone Sheet reads a snapshot, keeps the    *)
(* index under the snapshot's tree hash, and hands every write to a fresh  *)
(* bound Sheet, whose commit moves the snapshot.  A build awaits before    *)
(* each record, so the calls of other clients come in between.             *)
(*                                                                         *)
(* A client makes one call after the other: a program that awaits every    *)
(* call is one client.  Only the index key of a record is kept of it.      *)
(***************************************************************************)
EXTENDS Naturals, FiniteSets

CONSTANTS Clients, \* the async contexts that use the Sheet
          Paths,   \* record paths, as numbers in the order of a listing
          Keys,    \* index keys
          NoKey,   \* what keyFn says of a record it excludes
          None     \* no record, no owner, no hash

ASSUME IndexConstantsOK ==
  /\ Paths \subseteq Nat /\ IsFiniteSet(Paths)
  /\ NoKey \notin Keys
  /\ None \notin Keys \cup {NoKey} \cup Paths

VARIABLES bound,  \* the Sheet is bound to a transaction
          tree,   \* [Paths -> the key of the record there]: what the Sheet reads
          map,    \* [Keys -> Paths \cup {None}]: state.uniqueMap
          built,  \* state.built
          hash,   \* state.treeHashAtBuild: a tree, or None
          at,     \* [Clients -> where the client's call is]
          want,   \* [Clients -> what the call is about]
          failed  \* a build has met a conflict (history)

indexVars == <<map, built, hash>>
vars == <<bound, tree, indexVars, at, want, failed>>

-----------------------------------------------------------------------------
Trees == [Paths -> Keys \cup {NoKey, None}]

\* Of a lookup: the key, the hash the build will be kept under and the rows
\* that are left of its listing.  Of an upsert: the record and its old path.
Lookups == [key : Keys, label : Trees \cup {None},
            rows : SUBSET (Paths \X (Keys \cup {NoKey}))]
Upserts == [path : Paths, key : Keys \cup {NoKey}, prev : Paths \cup {None}]

\* idle: no call; reading: a build awaits the config; filling: it goes over
\* its rows; looking: the index is built, the lookup has not resumed;
\* validating: an upsert awaits the config and the validator.
Places == {"idle", "reading", "filling", "looking", "validating"}

Owners(t, k) == {p \in Paths : t[p] = k}
Unique(t) == \A k \in Keys : Cardinality(Owners(t, k)) <= 1
EmptyMap == [k \in Keys |-> None]

Init ==
  /\ bound \in BOOLEAN
  /\ tree \in Trees
  /\ map = EmptyMap
  /\ built = FALSE
  /\ hash = None
  /\ at = [c \in Clients |-> "idle"]
  /\ want = [c \in Clients |-> None]
  /\ failed = FALSE

Idles(c) == /\ at' = [at EXCEPT ![c] = "idle"]
            /\ want' = [want EXCEPT ![c] = None]

-----------------------------------------------------------------------------
(* Lookups.                                                                *)

CurrentHash == IF bound THEN None ELSE tree

UpToDate_AnyTree == built /\ CurrentHash # None
UpToDate == built /\ CurrentHash # None /\ hash = CurrentHash

MapAtStart_Kept == map
MapAtStart_Gone == None
MapAtStart == EmptyMap

\* findByIndex, up to the first await: use the index, or clear it.
Find(c, k) ==
  /\ at[c] = "idle"
  /\ want' = [want EXCEPT ![c] = [key |-> k, label |-> CurrentHash, rows |-> {}]]
  /\ IF UpToDate
     THEN at' = [at EXCEPT ![c] = "looking"] /\ UNCHANGED map
     ELSE at' = [at EXCEPT ![c] = "reading"] /\ map' = MapAtStart
  /\ UNCHANGED <<bound, tree, built, hash, failed>>

\* The query lists all the rows at once.
ReadRows(c) ==
  /\ at[c] = "reading"
  /\ want' = [want EXCEPT ![c].rows = {<<p, tree[p]>> : p \in {q \in Paths : tree[q] # None}}]
  /\ at' = [at EXCEPT ![c] = "filling"]
  /\ UNCHANGED <<bound, tree, indexVars, failed>>

IsNextRow(c, row) ==
  /\ at[c] = "filling"
  /\ row \in want[c].rows
  /\ \A other \in want[c].rows : row[1] <= other[1]

TakeRow(c, row) ==
  /\ IsNextRow(c, row)
  /\ row[2] # NoKey => map[row[2]] = None
  /\ map' = IF row[2] = NoKey THEN map ELSE [map EXCEPT ![row[2]] = row[1]]
  /\ want' = [want EXCEPT ![c].rows = want[c].rows \ {row}]
  /\ UNCHANGED <<bound, tree, built, hash, at, failed>>

\* index_unique_conflict: "key ... appears in multiple records".
BuildConflict(c, row) ==
  /\ IsNextRow(c, row)
  /\ row[2] # NoKey /\ map[row[2]] # None
  /\ failed' = TRUE
  /\ Idles(c)
  /\ UNCHANGED <<bound, tree, indexVars>>

FinishBuild(c) ==
  /\ at[c] = "filling" /\ want[c].rows = {}
  /\ hash' = want[c].label
  /\ built' = TRUE
  /\ at' = [at EXCEPT ![c] = "looking"]
  /\ UNCHANGED <<bound, tree, map, want, failed>>

\* findByIndex resumes and answers map[want[c].key].
Answer(c) ==
  /\ at[c] = "looking"
  /\ Idles(c)
  /\ UNCHANGED <<bound, tree, indexVars, failed>>

-----------------------------------------------------------------------------
(* Writes.                                                                 *)

\* #invalidateIndexes, in a bound Sheet; the fresh bound Sheet to which a
\* standalone one hands its writes has no index.
BuiltAfterWrite_Kept == built
BuiltAfterWrite == built /\ ~bound

Upsert(c, upsert) ==
  /\ at[c] = "idle"
  /\ want' = [want EXCEPT ![c] = upsert]
  /\ at' = [at EXCEPT ![c] = "validating"]
  /\ UNCHANGED <<bound, tree, indexVars, failed>>

\* #uniqueIndexPrecheck
Refused_EvenByItself(u) ==
  bound /\ built /\ u.key # NoKey /\ map[u.key] # None
Refused_Never(u) == FALSE
Refused(u) ==
  bound /\ built /\ u.key # NoKey /\ map[u.key] \notin {None, u.path}

\* stageUpsert: the old path is deleted, the record is written.
Put(t, u) ==
  [p \in Paths |-> IF p = u.path THEN u.key ELSE IF p = u.prev THEN None ELSE t[p]]

Stage(c) ==
  /\ at[c] = "validating"
  /\ ~Refused(want[c])
  /\ tree' = Put(tree, want[c])
  /\ built' = BuiltAfterWrite
  /\ Idles(c)
  /\ UNCHANGED <<bound, map, hash, failed>>

Refuse(c) ==
  /\ at[c] = "validating"
  /\ Refused(want[c])
  /\ Idles(c)
  /\ UNCHANGED <<bound, tree, indexVars, failed>>

Delete(c, p) ==
  /\ at[c] = "idle"
  /\ tree[p] # None
  /\ tree' = [tree EXCEPT ![p] = None]
  /\ built' = BuiltAfterWrite
  /\ UNCHANGED <<bound, map, hash, at, want, failed>>

Clear(c) ==
  /\ at[c] = "idle"
  /\ tree' = [p \in Paths |-> None]
  /\ built' = BuiltAfterWrite
  /\ UNCHANGED <<bound, map, hash, at, want, failed>>

\* The snapshot of a standalone Sheet moves to what others have committed.
Refresh(c, t) ==
  /\ at[c] = "idle"
  /\ ~bound
  /\ tree' = t
  /\ UNCHANGED <<bound, indexVars, at, want, failed>>

-----------------------------------------------------------------------------
Next ==
  \E c \in Clients :
    \/ \E k \in Keys : Find(c, k)
    \/ ReadRows(c)
    \/ \E row \in Paths \X (Keys \cup {NoKey}) : TakeRow(c, row) \/ BuildConflict(c, row)
    \/ FinishBuild(c)
    \/ Answer(c)
    \/ \E u \in Upserts : Upsert(c, u)
    \/ Stage(c)
    \/ Refuse(c)
    \/ \E p \in Paths : Delete(c, p)
    \/ Clear(c)
    \/ \E t \in Trees : Refresh(c, t)

Spec == Init /\ [][Next]_vars

-----------------------------------------------------------------------------
(* Properties.                                                             *)

\* Every variable stays within its type.
TypeOK ==
  /\ bound \in BOOLEAN
  /\ tree \in Trees
  /\ map \in [Keys -> Paths \cup {None}]
  /\ built \in BOOLEAN
  /\ hash \in Trees \cup {None}
  /\ at \in [Clients -> Places]
  /\ \A c \in Clients :
       /\ at[c] = "idle" => want[c] = None
       /\ at[c] \in {"reading", "filling", "looking"} => want[c] \in Lookups
       /\ at[c] = "validating" => want[c] \in Upserts
  /\ failed \in BOOLEAN

\* The index agrees with the tree.
IndexIs(t) == \A k \in Keys : IF Owners(t, k) = {} THEN map[k] = None
                                                   ELSE map[k] \in Owners(t, k)

\* The index that a bound Sheet checks an upsert against is that of the tree
\* the record is going to be written to.
CheckedIndexIsCurrent ==
  bound /\ built /\ (\A c \in Clients : at[c] \notin {"reading", "filling"})
    => IndexIs(tree)

\* A lookup answers with the record that the Sheet would read, unless a build
\* has failed before: that leaves a part of an index, under the hash of the
\* last complete one.
LookupIsCurrent ==
  [][\A c \in Clients : Answer(c) =>
       \/ failed
       \/ LET k == want[c].key IN
          IF Owners(tree, k) = {} THEN map[k] = None ELSE map[k] \in Owners(tree, k)]_vars

\* A build reports a conflict only if two records have the key.
ConflictIsReal ==
  [][\A c \in Clients : \A row \in Paths \X Keys :
       BuildConflict(c, row) => Cardinality(Owners(tree, row[2])) > 1]_vars

\* u renames a record and leaves it its key.
KeepsItsKey(u) == u.prev \notin {None, u.path} /\ tree[u.prev] = u.key

\* An upsert is refused only if it would leave its key to two records, or if it
\* renames a record that has that key: #uniqueIndexPrecheck (sheet.ts:1855-1856)
\* takes the record at the old path, which the write would remove, for another.
RefusalIsReal ==
  [][\A c \in Clients : Refuse(c) =>
       \/ KeepsItsKey(want[c])
       \/ \E p, q \in Owners(Put(tree, want[c]), want[c].key) : p # q]_vars

\* No upsert that is checked against a built index makes a key ambiguous.
CheckedUpsertKeepsUnique ==
  [][\A c \in Clients : Stage(c) /\ bound /\ built /\ Unique(tree) => Unique(tree')]_vars

\* specs/behaviors/indexing.md:104: a conflict names both of the paths that
\* have the key.
ConflictNamesTwo ==
  [][\A c \in Clients : \A row \in Paths \X Keys :
       BuildConflict(c, row) => map[row[2]] # row[1]]_vars

=============================================================================
