--------------------------- MODULE FreshnessProofs ---------------------------
(***************************************************************************)
(* Proofs about Freshness, for any number of sheets, of operations under   *)
(* way and of commits: what the snapshots of standing sheets keep, and     *)
(* what a commit's rebinding gives its caller and takes from nobody.       *)
(***************************************************************************)
EXTENDS Freshness, TLAPS

\* Only HEAD is ever resolved.
ResolvedWasHead ==
  \A o \in Ops : op[o].at = "resolved" => op[o].tree \in 0 .. head

\* Whoever is in a transact holds the lock, and HEAD has what it committed
\* there, unless that was on another branch.
UnderLock ==
  \A o \in Ops : op[o] # Idle /\ op[o].kind = "transact" => lock = o

ResultIsInHead ==
  /\ acked <= head
  /\ \A o \in Ops : op[o].at = "committed" => op[o].result \in (0 .. head) \cup {OtherTree}

\* The tree that a commit's rebinding is going to use has all that was
\* committed before.
ResolvedAfterCommit ==
  \A o \in Ops : At(o, {"transact"}, "resolved") =>
    /\ op[o].result \in (0 .. op[o].tree) \cup {OtherTree}
    /\ acked <= op[o].tree

\* A sheet that is being opened is not issued yet, and is opened only once.
Opens(o, s) == (At(o, {"open"}, "resolving") \/ At(o, {"open"}, "resolved")) /\ op[o].on = s

OpenedOnce ==
  \A o \in Ops, s \in Sheets : Opens(o, s) =>
    readRef[s] = None /\ \A p \in Ops : Opens(p, s) => p = o

\* What an operation is for: a sheet that is opened, or that is issued and
\* refreshed; and a place that its kind has.
Operands ==
  \A o \in Ops : op[o] # Idle =>
    /\ op[o].kind = "open" => op[o].on \in Sheets
    /\ op[o].kind = "refreshOne" => op[o].on \in Issued
    /\ op[o].kind # "transact" => op[o].at \in {"resolving", "resolved"}
    /\ op[o].kind = "transact" => op[o].at \in {"begun", "committed", "resolved"}

IInv ==
  /\ TypeOK /\ Operands
  /\ ConfigIsTheSnapshots /\ SnapshotsAreHeads
  /\ ResolvedWasHead /\ UnderLock /\ ResultIsInHead /\ ResolvedAfterCommit /\ OpenedOnce

-----------------------------------------------------------------------------
\* Nothing is under way at first.
LEMMA InitInv == Init => IInv
<1> SUFFICES ASSUME Init PROVE IInv
  OBVIOUS
<1> USE ConstantsOK DEF Init, Idle
<1>1. TypeOK
  BY DEF TypeOK, Versions, Read, NoRead
<1>2. \A o \in Ops : op[o] = Idle /\ op[o].at = "idle"
  OBVIOUS
<1>3. Operands /\ ResolvedWasHead /\ UnderLock
  BY <1>2 DEF Operands, ResolvedWasHead, UnderLock
<1>4. ResolvedAfterCommit /\ OpenedOnce
  BY <1>2 DEF ResolvedAfterCommit, OpenedOnce, Opens, At
<1>5. ConfigIsTheSnapshots /\ SnapshotsAreHeads
  BY DEF ConfigIsTheSnapshots, SnapshotsAreHeads, Issued
<1>6. ResultIsInHead
  BY <1>2 DEF ResultIsInHead
<1> QED BY <1>1, <1>3, <1>4, <1>5, <1>6 DEF IInv

\* The state of an operation and of the others after a step of it
LEMMA OpTypes ==
  ASSUME TypeOK, NEW o \in Ops, op[o] # Idle
  PROVE  /\ op[o].kind \in {"transact", "refresh", "refreshOne", "open"}
         /\ op[o].at \in {"begun", "committed", "resolving", "resolved"}
         /\ op[o].on \in Sheets \cup {None}
         /\ op[o].base \in Versions \cup {None}
         /\ op[o].result \in Snapshots \cup {None}
         /\ op[o].tree \in Snapshots \cup {None}
         /\ op[o] \in Operation
BY DEF TypeOK, Operation

LEMMA NotIdle ==
  ASSUME NEW o \in Ops, op[o].at # "idle" PROVE op[o] # Idle
BY DEF Idle

LEMMA TransactStep ==
  ASSUME IInv, NEW o \in Ops, Transact(o)
  PROVE  IInv'
<1> USE ConstantsOK
<1> DEFINE new == [kind |-> "transact", at |-> "begun", on |-> None, base |-> head,
                   result |-> None, tree |-> None]
<1>1. /\ op[o] = Idle /\ op' = [op EXCEPT ![o] = new]
      /\ lock = None /\ lock' = o
      /\ UNCHANGED <<head, acked, readRef, config, read>>
  BY DEF Transact, Start
<1>2. op \in [Ops -> Operation \cup {Idle}] /\ head \in Versions
  BY DEF IInv, TypeOK
<1>3. op'[o] = new /\ \A p \in Ops : p # o => op'[p] = op[p]
  BY <1>1, <1>2
<1> HIDE DEF new
<1>4. TypeOK'
  <2>1. new \in Operation
    BY <1>2 DEF new, Operation
  <2> QED BY <1>1, <2>1 DEF IInv, TypeOK
<1>5. Operands' /\ UnderLock'
  BY <1>1, <1>3, NotIdle DEF IInv, Operands, UnderLock, new, Idle, Issued
<1>6. ConfigIsTheSnapshots' /\ SnapshotsAreHeads'
  BY <1>1 DEF IInv, ConfigIsTheSnapshots, SnapshotsAreHeads, Issued
<1>7. ResolvedWasHead' /\ ResultIsInHead' /\ ResolvedAfterCommit'
  BY <1>1, <1>3 DEF IInv, ResolvedWasHead, ResultIsInHead, ResolvedAfterCommit, At, new
<1>8. OpenedOnce'
  BY <1>1, <1>3 DEF IInv, OpenedOnce, Opens, At, new
<1> QED BY <1>4, <1>5, <1>6, <1>7, <1>8 DEF IInv

\* An operation that ends, and a lock that is given back by its holder: nobody
\* else was in a transact.
LEMMA OneTransact ==
  ASSUME IInv, NEW o \in Ops, op[o] # Idle, op[o].kind = "transact",
         NEW p \in Ops, op[p] # Idle, op[p].kind = "transact"
  PROVE  p = o
BY DEF IInv, UnderLock

LEMMA NoCommitStep ==
  ASSUME IInv, NEW o \in Ops, NoCommit(o)
  PROVE  IInv'
<1> USE ConstantsOK
<1>1. /\ op[o] # Idle /\ op[o].kind = "transact"
      /\ op' = [op EXCEPT ![o] = Idle] /\ lock' = None
      /\ UNCHANGED <<head, acked, readRef, config, read>>
  BY NotIdle DEF NoCommit, End, At
<1>2. op \in [Ops -> Operation \cup {Idle}]
  BY DEF IInv, TypeOK
<1>3. op'[o] = Idle /\ op'[o].at = "idle" /\ \A p \in Ops : p # o => op'[p] = op[p]
  BY <1>1, <1>2 DEF Idle
<1>4. TypeOK'
  BY <1>1 DEF IInv, TypeOK
<1>5. Operands' /\ UnderLock'
  BY <1>1, <1>3, OneTransact DEF IInv, Operands, UnderLock, Issued
<1>6. ConfigIsTheSnapshots' /\ SnapshotsAreHeads'
  BY <1>1 DEF IInv, ConfigIsTheSnapshots, SnapshotsAreHeads, Issued
<1>7. ResolvedWasHead' /\ ResultIsInHead' /\ ResolvedAfterCommit'
  BY <1>1, <1>3 DEF IInv, ResolvedWasHead, ResultIsInHead, ResolvedAfterCommit, At
<1>8. OpenedOnce'
  BY <1>1, <1>3 DEF IInv, OpenedOnce, Opens, At
<1> QED BY <1>4, <1>5, <1>6, <1>7, <1>8 DEF IInv

LEMMA CommitStep ==
  ASSUME IInv, NEW o \in Ops, CommitOnHead(o) \/ CommitElsewhere(o)
  PROVE  IInv'
<1> USE ConstantsOK
<1>1. /\ op[o] # Idle /\ op[o].kind = "transact" /\ op[o].at = "begun"
      /\ UNCHANGED <<acked, lock, readRef, config, read>>
  BY NotIdle DEF CommitOnHead, CommitElsewhere, At, LockAfterCommit
<1>2. PICK result \in Snapshots :
        /\ op' = [op EXCEPT ![o].at = "committed", ![o].result = result]
        /\ \/ head' = head + 1 /\ head < MaxHead /\ result = head + 1
           \/ head' = head /\ result = OtherTree
  <2>1. CASE CommitOnHead(o)
    <3>1. head + 1 \in Snapshots
      BY <2>1 DEF CommitOnHead, IInv, TypeOK, Versions, Snapshots
    <3> WITNESS head + 1 \in Snapshots
    <3> QED BY <2>1 DEF CommitOnHead
  <2>2. CASE CommitElsewhere(o)
    <3>1. OtherTree \in Snapshots
      BY DEF Snapshots
    <3> WITNESS OtherTree \in Snapshots
    <3> QED BY <2>2 DEF CommitElsewhere, Snapshots
  <2> QED BY <2>1, <2>2
<1>3. op \in [Ops -> Operation \cup {Idle}] /\ head \in 0 .. MaxHead
  BY DEF IInv, TypeOK, Versions
<1>4. head' \in 0 .. MaxHead /\ head <= head'
  BY <1>2, <1>3
<1> DEFINE new == [op[o] EXCEPT !.at = "committed", !.result = result]
<1>5. op'[o] = new /\ \A p \in Ops : p # o => op'[p] = op[p]
  BY <1>2, <1>3
<1>6. /\ new \in Operation
      /\ new.kind = "transact" /\ new.at = "committed" /\ new.result = result
      /\ new # Idle
  BY <1>1, <1>2, OpTypes DEF IInv, Operation, Idle
<1> HIDE DEF new
<1>7. TypeOK'
  <2>1. op' \in [Ops -> Operation \cup {Idle}]
    BY <1>2, <1>3, <1>5, <1>6
  <2> QED BY <1>1, <1>4, <2>1 DEF IInv, TypeOK, Versions
<1>8. Operands' /\ UnderLock'
  BY <1>1, <1>5, <1>6 DEF IInv, Operands, UnderLock, Issued
<1>9. ConfigIsTheSnapshots' /\ SnapshotsAreHeads'
  BY <1>1, <1>3, <1>4 DEF IInv, ConfigIsTheSnapshots, SnapshotsAreHeads, Issued
<1>10. ResolvedWasHead'
  BY <1>3, <1>4, <1>5, <1>6 DEF IInv, ResolvedWasHead
<1>11. ResultIsInHead'
  BY <1>1, <1>2, <1>3, <1>4, <1>5, <1>6 DEF IInv, TypeOK, Versions, ResultIsInHead
<1>12. ResolvedAfterCommit'
  BY <1>1, <1>5, <1>6 DEF IInv, ResolvedAfterCommit, At
<1>13. OpenedOnce'
  BY <1>1, <1>5, <1>6 DEF IInv, OpenedOnce, Opens, At
<1> QED BY <1>7, <1>8, <1>9, <1>10, <1>11, <1>12, <1>13 DEF IInv

\* HEAD is resolved, by a transact that has committed, or by a refresh or an
\* opening.
LEMMA ResolveStep ==
  ASSUME IInv, NEW o \in Ops, ResolveAfterCommit(o) \/ Resolve(o)
  PROVE  IInv'
<1> USE ConstantsOK
<1>1. /\ op[o].at \in {"committed", "resolving"}
      /\ op[o].at = "committed" <=> op[o].kind = "transact"
      /\ op' = [op EXCEPT ![o].at = "resolved", ![o].tree = head]
      /\ UNCHANGED <<head, acked, lock, readRef, config, read>>
  BY DEF ResolveAfterCommit, Resolve, At, TreeToRebind
<1>2. op[o] # Idle
  BY <1>1, NotIdle
<1>3. op \in [Ops -> Operation \cup {Idle}] /\ head \in 0 .. MaxHead /\ acked \in 0 .. MaxHead
  BY DEF IInv, TypeOK, Versions
<1> DEFINE new == [op[o] EXCEPT !.at = "resolved", !.tree = head]
<1>4. op'[o] = new /\ \A p \in Ops : p # o => op'[p] = op[p]
  BY <1>1, <1>3
<1>5. /\ new \in Operation
      /\ new.kind = op[o].kind /\ new.on = op[o].on /\ new.result = op[o].result
      /\ new.at = "resolved" /\ new.tree = head
      /\ new # Idle
  BY <1>2, <1>3, OpTypes DEF IInv, Operation, Idle, Versions, Snapshots
<1> HIDE DEF new
<1>6. TypeOK'
  <2>1. op' \in [Ops -> Operation \cup {Idle}]
    BY <1>1, <1>3, <1>4, <1>5
  <2> QED BY <1>1, <2>1 DEF IInv, TypeOK
<1>7. Operands' /\ UnderLock'
  BY <1>1, <1>2, <1>4, <1>5, ZenonT(60) DEF IInv, Operands, UnderLock, Issued
<1>8. ConfigIsTheSnapshots' /\ SnapshotsAreHeads'
  BY <1>1 DEF IInv, ConfigIsTheSnapshots, SnapshotsAreHeads, Issued
<1>9. ResolvedWasHead' /\ ResultIsInHead'
  BY <1>1, <1>3, <1>4, <1>5 DEF IInv, ResolvedWasHead, ResultIsInHead
<1>10. ResolvedAfterCommit'
  BY <1>1, <1>3, <1>4, <1>5 DEF IInv, ResolvedAfterCommit, ResultIsInHead, At
<1>11. OpenedOnce'
  <2>1. \A p \in Ops, s \in Sheets : Opens(p, s)' <=> Opens(p, s)
    BY <1>1, <1>2, <1>4, <1>5, ZenonT(60) DEF IInv, Operands, Opens, At
  <2> QED BY <1>1, <2>1 DEF IInv, OpenedOnce
<1> QED BY <1>6, <1>7, <1>8, <1>9, <1>10, <1>11 DEF IInv

\* A rebind of issued sheets to a tree that was HEAD: memoized configs go with
\* the trees they came from, and no sheet is issued by it.
LEMMA RebindStep ==
  ASSUME IInv, NEW S \in SUBSET Issued, NEW tree \in 0 .. head, Rebind(S, tree)
  PROVE  /\ readRef' \in [Sheets -> Versions \cup {None}]
         /\ config' \in [Sheets -> Versions \cup {None}]
         /\ read' \in [Readers -> Read]
         /\ \A s \in Sheets : readRef'[s] = IF s \in S THEN tree ELSE readRef[s]
         /\ \A s \in Sheets : config'[s] \in {None, readRef'[s]}
         /\ \A s \in Sheets : readRef'[s] = None <=> readRef[s] = None
         /\ Issued' = Issued
         /\ \A s \in Issued : readRef'[s] \in 0 .. head
<1> USE ConstantsOK
<1>1. /\ head \in 0 .. MaxHead
      /\ readRef \in [Sheets -> Versions \cup {None}]
      /\ config \in [Sheets -> Versions \cup {None}]
      /\ read \in [Readers -> Read]
  BY DEF IInv, TypeOK, Versions
<1>2. tree \in Versions /\ tree # None
  BY <1>1 DEF Versions
<1>3. \A s \in Sheets : readRef'[s] = IF s \in S THEN tree ELSE readRef[s]
  BY DEF Rebind
<1>4. readRef' \in [Sheets -> Versions \cup {None}]
  BY <1>1, <1>2 DEF Rebind
<1>5. config' \in [Sheets -> Versions \cup {None}]
  BY <1>1 DEF Rebind, ConfigAfterRebind
<1>6. \A s \in Sheets : config'[s] \in {None, readRef'[s]}
  BY <1>3 DEF Rebind, ConfigAfterRebind, IInv, ConfigIsTheSnapshots
<1>7. \A s \in Sheets : readRef'[s] = None <=> readRef[s] = None
  BY <1>2, <1>3 DEF Issued
<1>8. Issued' = Issued
  BY <1>7 DEF Issued
<1>9. \A s \in Issued : readRef'[s] \in 0 .. head
  BY <1>3 DEF IInv, SnapshotsAreHeads, Issued
<1>10. read' \in [Readers -> Read]
  BY <1>1 DEF Rebind, Read
<1> QED BY <1>3, <1>4, <1>5, <1>6, <1>7, <1>8, <1>9, <1>10

LEMMA RebindAfterCommitStep ==
  ASSUME IInv, NEW o \in Ops, RebindAfterCommit(o)
  PROVE  IInv'
<1> USE ConstantsOK
<1>1. /\ op[o] # Idle /\ op[o].kind = "transact" /\ op[o].at = "resolved"
      /\ op' = [op EXCEPT ![o] = Idle] /\ lock' = None /\ head' = head
      /\ acked' = IF op[o].result = OtherTree THEN acked ELSE op[o].result
      /\ Rebind(Issued, op[o].tree)
  BY NotIdle DEF RebindAfterCommit, End, At, SheetsToRebind
<1>2. /\ op \in [Ops -> Operation \cup {Idle}]
      /\ head \in 0 .. MaxHead /\ acked \in 0 .. MaxHead /\ acked <= head
  BY DEF IInv, TypeOK, Versions, ResultIsInHead
<1>3. op'[o] = Idle /\ op'[o].at = "idle" /\ \A p \in Ops : p # o => op'[p] = op[p]
  BY <1>1, <1>2 DEF Idle
<1>4. op[o].tree \in 0 .. head
  BY <1>1 DEF IInv, ResolvedWasHead
<1>5. acked' \in 0 .. head
  <2>1. op[o].result \in (0 .. op[o].tree) \cup {OtherTree}
    BY <1>1 DEF IInv, ResolvedAfterCommit, At
  <2> QED BY <1>1, <1>2, <1>4, <2>1
<1>6. /\ readRef' \in [Sheets -> Versions \cup {None}]
      /\ config' \in [Sheets -> Versions \cup {None}]
      /\ read' \in [Readers -> Read]
      /\ \A s \in Sheets : config'[s] \in {None, readRef'[s]}
      /\ \A s \in Sheets : readRef'[s] = None <=> readRef[s] = None
      /\ Issued' = Issued
      /\ \A s \in Issued : readRef'[s] \in 0 .. head
  BY <1>1, <1>4, RebindStep
<1>7. TypeOK'
  BY <1>1, <1>2, <1>5, <1>6 DEF TypeOK, Versions
<1>8. Operands' /\ UnderLock'
  BY <1>1, <1>3, <1>6, OneTransact DEF IInv, Operands, UnderLock
<1>9. ConfigIsTheSnapshots' /\ SnapshotsAreHeads'
  BY <1>1, <1>6 DEF ConfigIsTheSnapshots, SnapshotsAreHeads
<1>10. ResolvedWasHead' /\ ResultIsInHead'
  BY <1>1, <1>2, <1>3, <1>5 DEF IInv, ResolvedWasHead, ResultIsInHead
<1>11. ResolvedAfterCommit'
  <2> SUFFICES ASSUME NEW p \in Ops, At(p, {"transact"}, "resolved")' PROVE FALSE
    BY DEF ResolvedAfterCommit
  <2>1. p # o /\ op[p] # Idle /\ op[p].kind = "transact"
    BY <1>3, NotIdle DEF At
  <2> QED BY <1>1, <2>1, OneTransact
<1>12. OpenedOnce'
  BY <1>3, <1>6 DEF IInv, OpenedOnce, Opens, At
<1> QED BY <1>7, <1>8, <1>9, <1>10, <1>11, <1>12 DEF IInv

LEMMA FinishRefreshStep ==
  ASSUME IInv, NEW o \in Ops, FinishRefresh(o)
  PROVE  IInv'
<1> USE ConstantsOK
<1> DEFINE S == IF op[o].kind = "refresh" THEN Issued ELSE {op[o].on}
<1>1. /\ op[o] # Idle /\ op[o].at = "resolved"
      /\ op[o].kind \in {"refresh", "refreshOne"}
      /\ op' = [op EXCEPT ![o] = Idle]
      /\ UNCHANGED <<head, acked, lock>>
      /\ Rebind(S, op[o].tree)
  BY NotIdle DEF FinishRefresh, End, At
<1>2. op \in [Ops -> Operation \cup {Idle}]
  BY DEF IInv, TypeOK
<1>3. op'[o] = Idle /\ op'[o].at = "idle" /\ \A p \in Ops : p # o => op'[p] = op[p]
  BY <1>1, <1>2 DEF Idle
<1>4. op[o].tree \in 0 .. head
  BY <1>1 DEF IInv, ResolvedWasHead
<1>5. S \in SUBSET Issued
  BY <1>1 DEF IInv, Operands
<1> HIDE DEF S
<1>6. /\ readRef' \in [Sheets -> Versions \cup {None}]
      /\ config' \in [Sheets -> Versions \cup {None}]
      /\ read' \in [Readers -> Read]
      /\ \A s \in Sheets : config'[s] \in {None, readRef'[s]}
      /\ \A s \in Sheets : readRef'[s] = None <=> readRef[s] = None
      /\ Issued' = Issued
      /\ \A s \in Issued : readRef'[s] \in 0 .. head
  BY <1>1, <1>4, <1>5, RebindStep
<1>7. TypeOK'
  BY <1>1, <1>6 DEF IInv, TypeOK
<1>8. Operands' /\ UnderLock'
  BY <1>1, <1>3, <1>6 DEF IInv, Operands, UnderLock
<1>9. ConfigIsTheSnapshots' /\ SnapshotsAreHeads'
  BY <1>1, <1>6 DEF ConfigIsTheSnapshots, SnapshotsAreHeads
<1>10. ResolvedWasHead' /\ ResultIsInHead' /\ ResolvedAfterCommit'
  BY <1>1, <1>3 DEF IInv, ResolvedWasHead, ResultIsInHead, ResolvedAfterCommit, At
<1>11. OpenedOnce'
  BY <1>3, <1>6 DEF IInv, OpenedOnce, Opens, At
<1> QED BY <1>7, <1>8, <1>9, <1>10, <1>11 DEF IInv

LEMMA StartStep ==
  ASSUME IInv, NEW o \in Ops, Refresh(o) \/ OpenSheet(o)
  PROVE  IInv'
<1> USE ConstantsOK
<1>1. PICK kind \in {"refresh", "refreshOne", "open"}, on \in Sheets \cup {None} :
        /\ Start(o, kind, "resolving", on, None)
        /\ kind = "refreshOne" => on \in Issued
        /\ kind = "open" => on \in Unclaimed
  BY DEF Refresh, OpenSheet, Issued, Unclaimed
<1>2. UNCHANGED <<head, acked, lock, readRef, config, read>>
  BY DEF Refresh, OpenSheet
<1> DEFINE new == [kind |-> kind, at |-> "resolving", on |-> on, base |-> None,
                   result |-> None, tree |-> None]
<1>3. op[o] = Idle /\ op' = [op EXCEPT ![o] = new]
  BY <1>1 DEF Start
<1>4. op \in [Ops -> Operation \cup {Idle}]
  BY DEF IInv, TypeOK
<1>5. op'[o] = new /\ \A p \in Ops : p # o => op'[p] = op[p]
  BY <1>3, <1>4
<1>6. /\ new.kind = kind /\ new.at = "resolving" /\ new.on = on
      /\ new \in Operation /\ new # Idle
  BY DEF Operation, Idle
<1> HIDE DEF new
<1>7. TypeOK'
  <2>1. op' \in [Ops -> Operation \cup {Idle}]
    BY <1>3, <1>4, <1>6
  <2> QED BY <1>2, <2>1 DEF IInv, TypeOK
<1>8. Operands' /\ UnderLock'
  BY <1>1, <1>2, <1>5, <1>6 DEF IInv, Operands, UnderLock, Issued, Unclaimed
<1>9. ConfigIsTheSnapshots' /\ SnapshotsAreHeads'
  BY <1>2 DEF IInv, ConfigIsTheSnapshots, SnapshotsAreHeads, Issued
<1>10. ResolvedWasHead' /\ ResultIsInHead' /\ ResolvedAfterCommit'
  BY <1>2, <1>5, <1>6 DEF IInv, ResolvedWasHead, ResultIsInHead, ResolvedAfterCommit, At
<1>11. OpenedOnce'
  <2> SUFFICES ASSUME NEW p \in Ops, NEW s \in Sheets, Opens(p, s)'
               PROVE  readRef[s] = None /\ \A q \in Ops : Opens(q, s)' => q = p
    BY <1>2 DEF OpenedOnce
  <2>1. \A q \in Ops : q # o => (Opens(q, s)' <=> Opens(q, s))
    BY <1>5 DEF Opens, At
  <2>2. Opens(o, s)' => kind = "open" /\ on = s
    BY <1>5, <1>6 DEF Opens, At
  <2>3. s \in Unclaimed => readRef[s] = None /\ \A q \in Ops : ~Opens(q, s)
    BY DEF Unclaimed, Opens, Issued
  <2> QED BY <1>1, <2>1, <2>2, <2>3 DEF IInv, OpenedOnce
<1> QED BY <1>7, <1>8, <1>9, <1>10, <1>11 DEF IInv

LEMMA ConstructStep ==
  ASSUME IInv, NEW o \in Ops, Construct(o)
  PROVE  IInv'
<1> USE ConstantsOK
<1> DEFINE s == op[o].on
           tree == op[o].tree
<1>1. /\ op[o] # Idle /\ Opens(o, s)
      /\ op' = [op EXCEPT ![o] = Idle]
      /\ readRef' = [readRef EXCEPT ![s] = tree]
      /\ config' = [config EXCEPT ![s] = tree]
      /\ UNCHANGED <<head, acked, lock, read>>
  BY NotIdle DEF Construct, End, At, Opens
<1>2. /\ op \in [Ops -> Operation \cup {Idle}]
      /\ head \in 0 .. MaxHead
      /\ readRef \in [Sheets -> Versions \cup {None}]
      /\ config \in [Sheets -> Versions \cup {None}]
  BY DEF IInv, TypeOK, Versions
<1>3. op'[o] = Idle /\ op'[o].at = "idle" /\ \A p \in Ops : p # o => op'[p] = op[p]
  BY <1>1, <1>2 DEF Idle
<1>4. s \in Sheets /\ tree \in 0 .. head
  BY <1>1 DEF Construct, At, IInv, Operands, ResolvedWasHead
<1>5. readRef[s] = None /\ \A p \in Ops : Opens(p, s) => p = o
  BY <1>1, <1>4 DEF IInv, OpenedOnce
<1> HIDE DEF s, tree
<1>6. /\ readRef'[s] = tree /\ config'[s] = tree
      /\ \A t \in Sheets : t # s => readRef'[t] = readRef[t] /\ config'[t] = config[t]
  BY <1>1, <1>2, <1>4
<1>7. TypeOK'
  BY <1>1, <1>2, <1>4 DEF IInv, TypeOK, Versions
<1>8. Operands' /\ UnderLock'
  <2>1. Issued \subseteq Issued'
    BY <1>5, <1>6 DEF Issued
  <2> QED BY <1>1, <1>3, <2>1 DEF IInv, Operands, UnderLock
<1>9. ConfigIsTheSnapshots' /\ SnapshotsAreHeads'
  BY <1>1, <1>4, <1>6 DEF IInv, ConfigIsTheSnapshots, SnapshotsAreHeads, Issued
<1>10. ResolvedWasHead' /\ ResultIsInHead' /\ ResolvedAfterCommit'
  BY <1>1, <1>3 DEF IInv, ResolvedWasHead, ResultIsInHead, ResolvedAfterCommit, At
<1>11. OpenedOnce'
  <2>1. \A p \in Ops, t \in Sheets : Opens(p, t)' => p # o /\ Opens(p, t)
    BY <1>3 DEF Opens, At
  <2> QED BY <1>5, <1>6, <2>1 DEF IInv, OpenedOnce
<1> QED BY <1>7, <1>8, <1>9, <1>10, <1>11 DEF IInv

\* What happens to the sheets and to HEAD without an operation
LEMMA QuietStep ==
  ASSUME IInv,
         \/ MoveHead
         \/ \E r \in Readers : BeginRead(r) \/ FinishRead(r)
         \/ \E s, c \in Sheets : Clone(s, c)
         \/ UNCHANGED vars
  PROVE  IInv'
<1> USE ConstantsOK
<1>1. UNCHANGED <<acked, lock, op>>
  BY DEF MoveHead, BeginRead, FinishRead, Clone, vars
<1>2. /\ head \in 0 .. MaxHead /\ acked \in 0 .. head
      /\ readRef \in [Sheets -> Versions \cup {None}]
      /\ config \in [Sheets -> Versions \cup {None}]
  BY DEF IInv, TypeOK, Versions, ResultIsInHead
<1>3. head' \in 0 .. MaxHead /\ head <= head'
  BY <1>2 DEF MoveHead, BeginRead, FinishRead, Clone, vars
<1>4. /\ readRef' \in [Sheets -> Versions \cup {None}]
      /\ config' \in [Sheets -> Versions \cup {None}]
      /\ ConfigIsTheSnapshots'
      /\ Issued \subseteq Issued'
      /\ \A s \in Issued' : readRef'[s] \in 0 .. head
      /\ \A o \in Ops, s \in Sheets : Opens(o, s) => readRef'[s] = None
  <2>1. CASE MoveHead \/ UNCHANGED vars
    BY <1>2, <2>1 DEF MoveHead, vars, IInv, ConfigIsTheSnapshots, SnapshotsAreHeads,
       OpenedOnce, Issued
  <2>2. CASE \E r \in Readers : BeginRead(r) \/ FinishRead(r)
    BY <1>2, <2>2 DEF BeginRead, FinishRead, ReadConfig, IInv, ConfigIsTheSnapshots,
       SnapshotsAreHeads, OpenedOnce, Issued
  <2>3. CASE \E s, c \in Sheets : Clone(s, c)
    <3> PICK s \in Sheets, c \in Sheets : Clone(s, c)
      BY <2>3
    <3>1. /\ readRef' = [readRef EXCEPT ![c] = readRef[s]] /\ config' = config
          /\ s \in Issued /\ readRef[c] = None /\ \A o \in Ops : ~Opens(o, c)
      BY DEF Clone, Unclaimed, Issued, Opens
    <3>2. readRef[s] \in 0 .. head /\ config[c] = None
      BY <3>1 DEF IInv, SnapshotsAreHeads, ConfigIsTheSnapshots
    <3> QED BY <1>2, <3>1, <3>2 DEF IInv, ConfigIsTheSnapshots, SnapshotsAreHeads,
               OpenedOnce, Issued
  <2> QED BY <2>1, <2>2, <2>3
<1>5. TypeOK'
  <2>1. read' \in [Readers -> Read]
    <3>1. read \in [Readers -> Read]
      BY DEF IInv, TypeOK
    <3>2. ASSUME NEW r \in Readers, NEW x \in Read, read' = [read EXCEPT ![r] = x]
          PROVE  read' \in [Readers -> Read]
      BY <3>1, <3>2
    <3>3. ASSUME NEW s \in Issued
          PROVE  [on |-> s, config |-> ReadConfig(s), rebound |-> FALSE] \in Read
      <4>1. s \in Sheets /\ ReadConfig(s) \in Versions \cup {None}
        BY <1>2 DEF ReadConfig, Issued, Versions
      <4> QED BY <4>1 DEF Read
    <3>4. NoRead \in Read
      BY DEF Read, NoRead
    <3>5. ASSUME NEW r \in Readers, BeginRead(r) \/ FinishRead(r)
          PROVE  read' \in [Readers -> Read]
      BY <3>2, <3>3, <3>4, <3>5 DEF BeginRead, FinishRead
    <3>6. ASSUME UNCHANGED read PROVE read' \in [Readers -> Read]
      BY <3>1, <3>6
    <3> QED BY <3>5, <3>6 DEF MoveHead, Clone, vars
  <2> QED BY <1>1, <1>3, <1>4, <2>1 DEF IInv, TypeOK, Versions
<1>6. Operands' /\ UnderLock'
  BY <1>1, <1>4 DEF IInv, Operands, UnderLock
<1>7. SnapshotsAreHeads'
  BY <1>2, <1>3, <1>4 DEF SnapshotsAreHeads
<1>8. ResolvedWasHead' /\ ResultIsInHead'
  BY <1>1, <1>2, <1>3 DEF IInv, ResolvedWasHead, ResultIsInHead
<1>9. ResolvedAfterCommit'
  BY <1>1 DEF IInv, ResolvedAfterCommit, At
<1>10. OpenedOnce'
  <2>1. \A o \in Ops, s \in Sheets : Opens(o, s)' <=> Opens(o, s)
    BY <1>1 DEF Opens, At
  <2> QED BY <1>4, <2>1 DEF IInv, OpenedOnce
<1> QED BY <1>4, <1>5, <1>6, <1>7, <1>8, <1>9, <1>10 DEF IInv

LEMMA StepInv == IInv /\ [Next]_vars => IInv'
<1> SUFFICES ASSUME IInv, [Next]_vars PROVE IInv'
  OBVIOUS
<1>1. ASSUME NEW o \in Ops, OpStep(o) PROVE IInv'
  BY <1>1, TransactStep, NoCommitStep, CommitStep, ResolveStep, RebindAfterCommitStep,
     StartStep, FinishRefreshStep, ConstructStep DEF OpStep
<1> QED BY <1>1, QuietStep DEF Next

LEMMA Invariance == Spec => []IInv
<1> QED BY InitInv, StepInv, PTL DEF Spec

-----------------------------------------------------------------------------
\* Every variable stays within its type (the fields of Repository and Sheet).
THEOREM TypeCorrect == Spec => []TypeOK
<1>1. IInv => TypeOK
  BY DEF IInv
<1> QED BY <1>1, Invariance, PTL

\* A read under way is of an issued sheet, and has the config of its snapshot
\* unless that was rebound.
ReadIsOfOneTree(r) ==
  read[r] # NoRead => /\ read[r].on \in Issued
                      /\ read[r].rebound \/ read[r].config = readRef[read[r].on]

ReadsAreOfOneTree == \A r \in Readers : ReadIsOfOneTree(r)

\* A rebind marks the reads of the sheets that it moves.
LEMMA ReadUnderRebind ==
  ASSUME IInv, NEW S \in SUBSET Issued, NEW tree \in 0 .. head, Rebind(S, tree),
         NEW r \in Readers, ReadIsOfOneTree(r)
  PROVE  ReadIsOfOneTree(r)'
<1>1. /\ Issued' = Issued
      /\ \A s \in Sheets : readRef'[s] = IF s \in S THEN tree ELSE readRef[s]
  BY RebindStep
<1>2. read[r] \in Read
  BY DEF IInv, TypeOK
<1>3. CASE read[r].on \in S /\ readRef[read[r].on] # tree
  <2>1. read'[r] = [read[r] EXCEPT !.rebound = TRUE]
    BY <1>3 DEF Rebind
  <2>2. read'[r].on = read[r].on /\ read'[r].rebound
    BY <1>2, <2>1 DEF Read
  <2> QED BY <1>1, <1>3, <2>2 DEF ReadIsOfOneTree
<1>4. CASE ~(read[r].on \in S /\ readRef[read[r].on] # tree)
  <2>1. read'[r] = read[r]
    BY <1>4 DEF Rebind
  <2> QED BY <1>1, <1>4, <2>1 DEF ReadIsOfOneTree, Issued
<1> QED BY <1>3, <1>4

LEMMA ReadStep ==
  ASSUME IInv, IInv', ReadsAreOfOneTree, [Next]_vars
  PROVE  ReadsAreOfOneTree'
<1> SUFFICES ASSUME NEW r \in Readers PROVE ReadIsOfOneTree(r)'
  BY DEF ReadsAreOfOneTree
<1>1. ReadIsOfOneTree(r) /\ read[r] \in Read /\ read \in [Readers -> Read]
  BY DEF ReadsAreOfOneTree, IInv, TypeOK
<1>2. ASSUME NEW o \in Ops, RebindAfterCommit(o) PROVE ReadIsOfOneTree(r)'
  BY <1>1, <1>2, ReadUnderRebind
     DEF RebindAfterCommit, SheetsToRebind, At, IInv, ResolvedWasHead
<1>3. ASSUME NEW o \in Ops, FinishRefresh(o) PROVE ReadIsOfOneTree(r)'
  <2> DEFINE S == IF op[o].kind = "refresh" THEN Issued ELSE {op[o].on}
  <2>1. op[o].kind = "refresh" \/ op[o].on \in Issued
    BY <1>3, NotIdle DEF FinishRefresh, At, IInv, Operands
  <2>2. op[o].tree \in 0 .. head /\ Rebind(S, op[o].tree)
    BY <1>3 DEF FinishRefresh, At, IInv, ResolvedWasHead
  <2>3. S \in SUBSET Issued
    BY <2>1
  <2> HIDE DEF S
  <2> QED BY <1>1, <2>2, <2>3, ReadUnderRebind
<1>4. ASSUME UNCHANGED read, \A s \in Issued : readRef'[s] = readRef[s] /\ s \in Issued'
      PROVE  ReadIsOfOneTree(r)'
  BY <1>1, <1>4 DEF ReadIsOfOneTree
<1>5. ASSUME NEW o \in Ops, Construct(o) PROVE ReadIsOfOneTree(r)'
  <2>1. readRef[op[o].on] = None
    BY <1>5, NotIdle DEF Construct, At, IInv, Operands, OpenedOnce, Opens
  <2>2. /\ UNCHANGED read /\ readRef' = [readRef EXCEPT ![op[o].on] = op[o].tree]
        /\ readRef \in [Sheets -> Versions \cup {None}]
    BY <1>5 DEF Construct, IInv, TypeOK
  <2> QED BY <1>4, <2>1, <2>2 DEF Issued
<1>6. ASSUME NEW s \in Sheets, NEW c \in Sheets, Clone(s, c) PROVE ReadIsOfOneTree(r)'
  <2>1. /\ UNCHANGED read /\ readRef' = [readRef EXCEPT ![c] = readRef[s]]
        /\ readRef[c] = None /\ readRef \in [Sheets -> Versions \cup {None}]
    BY <1>6 DEF Clone, Unclaimed, Issued, IInv, TypeOK
  <2> QED BY <1>4, <2>1 DEF Issued
<1>7. ASSUME NEW q \in Readers, BeginRead(q) PROVE ReadIsOfOneTree(r)'
  <2>1. PICK s \in Issued :
          read' = [read EXCEPT ![q] = [on |-> s, config |-> ReadConfig(s), rebound |-> FALSE]]
    BY <1>7 DEF BeginRead
  <2>2. UNCHANGED readRef /\ ReadConfig(s) = readRef[s]
    BY <1>7 DEF BeginRead, ReadConfig, IInv, ConfigIsTheSnapshots, Issued
  <2> QED BY <1>1, <2>1, <2>2 DEF ReadIsOfOneTree, Issued
<1>8. ASSUME NEW q \in Readers, FinishRead(q) PROVE ReadIsOfOneTree(r)'
  BY <1>1, <1>8 DEF FinishRead, ReadIsOfOneTree, Issued
<1>9. ASSUME UNCHANGED <<readRef, read>> PROVE ReadIsOfOneTree(r)'
  BY <1>4, <1>9 DEF Issued
<1> QED BY <1>2, <1>3, <1>5, <1>6, <1>7, <1>8, <1>9
        DEF Next, OpStep, Transact, NoCommit, CommitOnHead, CommitElsewhere,
            ResolveAfterCommit, Refresh, OpenSheet, Resolve, MoveHead, vars

\* Of all reads under way, however rebinds, refreshes, openings and other reads
\* interleave: one that uses the snapshot of another tree than its config's is
\* one whose sheet was rebound while it awaited the config, and no other
\* (readConfig, query, rebindReadTree).
THEOREM UnreboundReadsAreOfOneTree == Spec => ReadsUseOneTree
<1>1. Init => ReadsAreOfOneTree
  BY DEF Init, ReadsAreOfOneTree, ReadIsOfOneTree
<1>2. IInv /\ IInv' /\ ReadsAreOfOneTree /\ [Next]_vars => ReadsAreOfOneTree'
  BY ReadStep
<1>3. ReadsAreOfOneTree =>
        [\A r \in Readers :
           (read[r] # NoRead /\ read'[r] = NoRead /\ ~read[r].rebound)
             => read[r].config = readRef[read[r].on]]_vars
  BY DEF ReadsAreOfOneTree, ReadIsOfOneTree
<1> QED BY <1>1, <1>2, <1>3, Invariance, PTL DEF Spec, ReadsUseOneTree

\* Standing sheets stay on HEAD's history, also when transactions commit
\* elsewhere (#rebindLiveSheets resolves HEAD).
THEOREM SnapshotsStayOnHead == Spec => []SnapshotsAreHeads
<1>1. IInv => SnapshotsAreHeads
  BY DEF IInv
<1> QED BY <1>1, Invariance, PTL

\* Only the end of its rebind ends a transact that has resolved HEAD.
LEMMA EndOfTransact ==
  ASSUME IInv, Next, NEW o \in Ops, At(o, {"transact"}, "resolved"), op'[o] = Idle
  PROVE  RebindAfterCommit(o)
<1>1. op \in [Ops -> Operation \cup {Idle}] /\ op[o] # Idle /\ op[o].kind = "transact"
      /\ op[o].at = "resolved"
  BY NotIdle DEF IInv, TypeOK, At
<1>2. ASSUME NEW p \in Ops, OpStep(p), p # o PROVE FALSE
  <2>1. \E x : op' = [op EXCEPT ![p] = x]
    BY <1>2 DEF OpStep, Transact, NoCommit, CommitOnHead, CommitElsewhere, ResolveAfterCommit,
       RebindAfterCommit, Refresh, OpenSheet, Resolve, FinishRefresh, Construct, Start, End
  <2> QED BY <1>1, <1>2, <2>1
<1>3. ASSUME OpStep(o) PROVE RebindAfterCommit(o)
  BY <1>1, <1>3 DEF OpStep, Transact, NoCommit, CommitOnHead, CommitElsewhere,
     ResolveAfterCommit,
     Refresh, OpenSheet, Resolve, FinishRefresh, Construct, Start, At
<1>4. ASSUME UNCHANGED op PROVE FALSE
  BY <1>1, <1>4
<1> QED BY <1>2, <1>3, <1>4 DEF Next, BeginRead, FinishRead, Clone, MoveHead

\* Read-your-writes, for every interleaving with refreshes, openings and other
\* transactions: when transact returns, each issued sheet has its commit
\* (#rebindLiveSheets under the write lock).
THEOREM WritesAreRead == Spec => ReadYourWrites
<1> DEFINE Returns ==
      \A o \in Ops :
        (At(o, {"transact"}, "resolved") /\ op'[o] = Idle /\ op[o].result # OtherTree)
          => \A s \in Sheets : readRef'[s] # None => readRef'[s] >= op[o].result
<1>1. IInv /\ [Next]_vars => [Returns]_vars
  <2> SUFFICES ASSUME IInv, Next,
                      NEW o \in Ops, At(o, {"transact"}, "resolved"), op'[o] = Idle,
                      op[o].result # OtherTree,
                      NEW s \in Sheets, readRef'[s] # None
               PROVE  readRef'[s] >= op[o].result
    OBVIOUS
  <2>1. Rebind(Issued, op[o].tree)
    BY EndOfTransact DEF RebindAfterCommit, SheetsToRebind
  <2>2. op[o].tree \in 0 .. head /\ op[o].result \in 0 .. op[o].tree
    BY DEF IInv, ResolvedWasHead, ResolvedAfterCommit, At
  <2>3. readRef'[s] = op[o].tree
    BY <2>1 DEF Rebind, Issued
  <2>4. head \in Nat
    BY ConstantsOK DEF IInv, TypeOK, Versions
  <2> QED BY <2>2, <2>3, <2>4
<1> QED BY <1>1, Invariance, PTL DEF Spec, ReadYourWrites

\* No commit of this Repository takes a sheet back behind what it has
\* committed; nothing but a refresh does, which has resolved HEAD before and
\* takes no lock (transact, openSheet, clone).
THEOREM CommitsNeverGoBack == Spec => CommitsKeepSheetsFresh
<1> DEFINE OnlyRefresh ==
      (\E s \in Issued : readRef[s] >= acked /\ readRef'[s] < acked')
        => \E o \in Ops : FinishRefresh(o)
<1>1. IInv /\ [Next]_vars => [OnlyRefresh]_vars
  <2> SUFFICES ASSUME IInv, Next, ~\E o \in Ops : FinishRefresh(o),
                      NEW s \in Issued, readRef[s] >= acked, readRef'[s] < acked'
               PROVE  FALSE
    OBVIOUS
  <2>1. /\ head \in Nat /\ acked \in Nat /\ readRef \in [Sheets -> Versions \cup {None}]
        /\ readRef[s] \in Nat
    BY ConstantsOK DEF IInv, TypeOK, Versions, SnapshotsAreHeads
  <2>2. ASSUME NEW o \in Ops, RebindAfterCommit(o) PROVE FALSE
    <3>1. /\ op[o].tree \in 0 .. head /\ acked <= op[o].tree
          /\ op[o].result \in (0 .. op[o].tree) \cup {OtherTree}
      BY <2>2 DEF IInv, ResolvedWasHead, ResolvedAfterCommit, RebindAfterCommit, At
    <3>2. readRef'[s] = op[o].tree
      BY <2>2 DEF RebindAfterCommit, SheetsToRebind, Rebind, Issued
    <3>3. acked' \in Nat /\ acked' <= op[o].tree
      BY <2>1, <2>2, <3>1 DEF RebindAfterCommit
    <3> QED BY <2>1, <3>1, <3>2, <3>3
  <2>3. ASSUME NEW o \in Ops, Construct(o) PROVE FALSE
    <3>1. readRef[op[o].on] = None
      BY <2>3, NotIdle DEF Construct, At, IInv, Operands, OpenedOnce, Opens
    <3>2. readRef'[s] = readRef[s] /\ acked' = acked
      BY <2>1, <2>3, <3>1 DEF Construct, Issued
    <3> QED BY <2>1, <3>2
  <2>4. ASSUME NEW t \in Sheets, NEW c \in Sheets, Clone(t, c) PROVE FALSE
    <3>1. readRef'[s] = readRef[s] /\ acked' = acked
      BY <2>1, <2>4 DEF Clone, Unclaimed, Issued
    <3> QED BY <2>1, <3>1
  <2>5. ASSUME UNCHANGED <<readRef, acked>> PROVE FALSE
    BY <2>1, <2>5
  <2> QED BY <2>2, <2>3, <2>4, <2>5 DEF Next, OpStep, Transact, NoCommit, CommitOnHead,
       CommitElsewhere, ResolveAfterCommit, Refresh, OpenSheet, Resolve, BeginRead, FinishRead,
       MoveHead
<1> QED BY <1>1, Invariance, PTL DEF Spec, CommitsKeepSheetsFresh

-----------------------------------------------------------------------------
(* freshness.md:11-13, which Spec does not keep: what it takes.            *)

Reads == {"refresh", "refreshOne", "open"}

\* When a transact is about to return, no refresh or opening is under way that
\* has resolved HEAD before the commit.
NoReadOutlivesACommit ==
  \A o, p \in Ops : At(o, {"transact"}, "resolved") /\ At(p, Reads, "resolved")
                      => op[o].result \in (0 .. op[p].tree) \cup {OtherTree}

ReadsAreFresh == \A p \in Ops : At(p, Reads, "resolved") => acked <= op[p].tree

LEMMA FreshStep ==
  ASSUME IInv, IInv', NoReadOutlivesACommit, StandingSheetsAreFresh, ReadsAreFresh, [Next]_vars
  PROVE  StandingSheetsAreFresh' /\ ReadsAreFresh'
<1> USE ConstantsOK
<1>1. /\ op \in [Ops -> Operation \cup {Idle}]
      /\ head \in Nat /\ acked \in 0 .. head
      /\ readRef \in [Sheets -> Versions \cup {None}]
  BY DEF IInv, TypeOK, Versions, ResultIsInHead
<1>2. \A s \in Issued : readRef[s] \in Nat
  BY <1>1 DEF IInv, SnapshotsAreHeads
<1>3. \A p \in Ops : op[p].at = "resolved" => op[p].tree \in 0 .. head
  BY DEF IInv, ResolvedWasHead
<1>4. ASSUME NEW o \in Ops, RebindAfterCommit(o)
      PROVE  StandingSheetsAreFresh' /\ ReadsAreFresh'
  <2>1. /\ At(o, {"transact"}, "resolved") /\ Rebind(Issued, op[o].tree)
        /\ acked' = IF op[o].result = OtherTree THEN acked ELSE op[o].result
        /\ op' = [op EXCEPT ![o] = Idle]
    BY <1>4 DEF RebindAfterCommit, SheetsToRebind, End
  <2>2. /\ op[o].tree \in 0 .. head /\ acked <= op[o].tree
        /\ op[o].result \in (0 .. op[o].tree) \cup {OtherTree}
    BY <2>1 DEF IInv, ResolvedWasHead, ResolvedAfterCommit, At
  <2>3. acked' \in Nat /\ acked' <= op[o].tree
    BY <1>1, <2>1, <2>2
  <2>4. \A s \in Issued' : readRef'[s] = op[o].tree
    BY <2>1 DEF Rebind, Issued
  <2>5. \A p \in Ops : At(p, Reads, "resolved")' => p # o /\ op'[p] = op[p]
    BY <1>1, <2>1 DEF At, Idle
  <2>6. ASSUME NEW p \in Ops, At(p, Reads, "resolved")' PROVE acked' <= op'[p].tree
    <3>1. At(p, Reads, "resolved") /\ op'[p] = op[p]
      BY <2>5, <2>6 DEF At
    <3>2. op[p].tree \in 0 .. head /\ acked <= op[p].tree
      BY <1>3, <3>1 DEF ReadsAreFresh, At
    <3>3. op[o].result \in (0 .. op[p].tree) \cup {OtherTree}
      BY <2>1, <3>1 DEF NoReadOutlivesACommit
    <3> QED BY <1>1, <2>1, <3>1, <3>2, <3>3
  <2> QED BY <1>1, <2>2, <2>3, <2>4, <2>6 DEF StandingSheetsAreFresh, ReadsAreFresh
<1>5. ASSUME NEW o \in Ops, FinishRefresh(o)
      PROVE  StandingSheetsAreFresh' /\ ReadsAreFresh'
  <2>1. /\ At(o, Reads, "resolved") /\ op' = [op EXCEPT ![o] = Idle] /\ acked' = acked
        /\ \A s \in Sheets : readRef'[s] \in {readRef[s], op[o].tree}
    BY <1>5 DEF FinishRefresh, Reads, At, End, Rebind
  <2>2. op[o].tree \in 0 .. head /\ acked <= op[o].tree
    BY <1>3, <2>1 DEF ReadsAreFresh, At
  <2>3. \A p \in Ops : At(p, Reads, "resolved")' => p # o /\ op'[p] = op[p]
    BY <1>1, <2>1 DEF At, Idle
  <2>4. ReadsAreFresh'
    BY <2>1, <2>3 DEF ReadsAreFresh, At
  <2> QED BY <1>1, <2>1, <2>2, <2>4 DEF StandingSheetsAreFresh, Issued
<1>6. ASSUME NEW o \in Ops, Construct(o)
      PROVE  StandingSheetsAreFresh' /\ ReadsAreFresh'
  <2>1. /\ At(o, Reads, "resolved") /\ op' = [op EXCEPT ![o] = Idle] /\ acked' = acked
        /\ \A s \in Sheets : readRef'[s] \in {readRef[s], op[o].tree}
    BY <1>1, <1>6 DEF Construct, Reads, At, End
  <2>2. op[o].tree \in 0 .. head /\ acked <= op[o].tree
    BY <1>3, <2>1 DEF ReadsAreFresh, At
  <2>3. \A p \in Ops : At(p, Reads, "resolved")' => p # o /\ op'[p] = op[p]
    BY <1>1, <2>1 DEF At, Idle
  <2>4. ReadsAreFresh'
    BY <2>1, <2>3 DEF ReadsAreFresh, At
  <2> QED BY <1>1, <2>1, <2>2, <2>4 DEF StandingSheetsAreFresh, Issued
<1>7. ASSUME NEW s \in Sheets, NEW c \in Sheets, Clone(s, c)
      PROVE  StandingSheetsAreFresh' /\ ReadsAreFresh'
  <2>1. /\ s \in Issued /\ UNCHANGED <<acked, op>>
        /\ \A t \in Sheets : readRef'[t] \in {readRef[t], readRef[s]}
    BY <1>1, <1>7 DEF Clone
  <2> QED BY <1>1, <1>2, <2>1 DEF StandingSheetsAreFresh, ReadsAreFresh, At, Issued
<1>8. ASSUME NEW o \in Ops, Resolve(o)
      PROVE  StandingSheetsAreFresh' /\ ReadsAreFresh'
  <2>1. UNCHANGED <<acked, readRef>> /\ op' = [op EXCEPT ![o].at = "resolved", ![o].tree = head]
        /\ op[o] \in Operation
    BY <1>1, <1>8, NotIdle DEF Resolve, At
  <2>2. /\ op'[o].tree = head
        /\ \A p \in Ops : p # o => op'[p] = op[p]
    BY <1>1, <2>1 DEF Operation
  <2> QED BY <1>1, <2>1, <2>2 DEF StandingSheetsAreFresh, ReadsAreFresh, Issued, At
<1>9. ASSUME NEW o \in Ops,
             \/ Transact(o) \/ NoCommit(o) \/ CommitOnHead(o) \/ CommitElsewhere(o)
             \/ ResolveAfterCommit(o) \/ Refresh(o) \/ OpenSheet(o)
      PROVE  StandingSheetsAreFresh' /\ ReadsAreFresh'
  <2>1. UNCHANGED <<acked, readRef>>
    BY <1>9 DEF Transact, NoCommit, CommitOnHead, CommitElsewhere, ResolveAfterCommit,
       Refresh, OpenSheet
  <2>2. \A p \in Ops : p # o => op'[p] = op[p]
    BY <1>1, <1>9 DEF Transact, NoCommit, CommitOnHead, CommitElsewhere, ResolveAfterCommit,
       Refresh, OpenSheet, Start, End
  <2>3. ~At(o, Reads, "resolved")'
    <3>1. CASE Transact(o) \/ Refresh(o) \/ OpenSheet(o)
      BY <1>1, <3>1 DEF Transact, Refresh, OpenSheet, Start, At
    <3>2. CASE NoCommit(o)
      BY <1>1, <3>2 DEF NoCommit, End, At, Idle
    <3>3. CASE CommitOnHead(o) \/ CommitElsewhere(o) \/ ResolveAfterCommit(o)
      <4>1. op[o] \in Operation /\ op[o].kind = "transact"
        BY <1>1, <3>3, NotIdle DEF CommitOnHead, CommitElsewhere, ResolveAfterCommit, At
      <4>2. op'[o].kind = "transact"
        BY <1>1, <3>3, <4>1 DEF CommitOnHead, CommitElsewhere, ResolveAfterCommit, Operation
      <4> QED BY <4>2 DEF At, Reads
    <3> QED BY <1>9, <3>1, <3>2, <3>3
  <2> QED BY <2>1, <2>2, <2>3 DEF StandingSheetsAreFresh, ReadsAreFresh, Issued, At
<1>10. ASSUME UNCHANGED <<acked, readRef, op>>
       PROVE  StandingSheetsAreFresh' /\ ReadsAreFresh'
  BY <1>10 DEF StandingSheetsAreFresh, ReadsAreFresh, Issued, At
<1> QED BY <1>4, <1>5, <1>6, <1>7, <1>8, <1>9, <1>10
        DEF Next, OpStep, BeginRead, FinishRead, MoveHead, vars

\* The claim of freshness.md holds of every behaviour in which no refresh or
\* opening outlives a commit it has not seen: nothing else makes a standing
\* sheet stale (refresh, openSheet, #rebindLiveSheets).
THEOREM SheetsAreFreshOtherwise == Spec /\ []NoReadOutlivesACommit => []StandingSheetsAreFresh
<1>1. Init => StandingSheetsAreFresh /\ ReadsAreFresh
  BY ConstantsOK DEF Init, StandingSheetsAreFresh, ReadsAreFresh, Issued, At, Idle
<1>2. /\ IInv /\ IInv' /\ NoReadOutlivesACommit
      /\ StandingSheetsAreFresh /\ ReadsAreFresh /\ [Next]_vars
      => StandingSheetsAreFresh' /\ ReadsAreFresh'
  BY FreshStep
<1> QED BY <1>1, <1>2, Invariance, PTL DEF Spec

\* So it holds of a program that awaits every call it makes on the Repository.
THEOREM AwaitedSheetsAreFresh ==
  ASSUME \A o, p \in Ops : o = p
  PROVE  Spec => []StandingSheetsAreFresh
<1>1. NoReadOutlivesACommit
  BY DEF NoReadOutlivesACommit, At, Reads
<1> QED BY <1>1, SheetsAreFreshOtherwise, PTL
=============================================================================
