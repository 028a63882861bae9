----------------------- MODULE CoreTransactionProofs -----------------------
(***************************************************************************)
(* Proofs about CoreTransaction, for any number of threads, processes,     *)
(* branches, records and options.                                          *)
(***************************************************************************)
EXTENDS CoreTransaction, SequenceTheorems, TLAPS

-----------------------------------------------------------------------------
(* Prefixes.                                                               *)

\* Pointwise reading of IsPrefix.
LEMMA PrefixPointwise ==
  ASSUME NEW S, NEW s \in Seq(S), NEW t \in Seq(S)
  PROVE  IsPrefix(s, t) <=>
           (Len(s) <= Len(t) /\ \A i \in 1 .. Len(s) : s[i] = t[i])
<1>1. /\ Len(s) \in Nat /\ Len(t) \in Nat
      /\ SubSeq(s, 1, Len(s)) = s
  BY SubSeqFull, LenProperties
<1>2. ASSUME Len(s) <= Len(t)
      PROVE  /\ SubSeq(t, 1, Len(s)) \in Seq(S)
             /\ Len(SubSeq(t, 1, Len(s))) = Len(s)
             /\ \A i \in 1 .. Len(s) : SubSeq(t, 1, Len(s))[i] = t[i]
  <2>1. \A i \in 1 .. Len(s) : t[i] \in S
    BY <1>1, <1>2, ElementOfSeq
  <2> QED BY <1>1, <1>2, <2>1, SubSeqProperties, Z3
<1>3. ASSUME Len(s) <= Len(t)
      PROVE  SubSeq(t, 1, Len(s)) = s <=> \A i \in 1 .. Len(s) : s[i] = t[i]
  BY <1>2, <1>3, SeqEqual
<1> QED BY <1>1, <1>3 DEF IsPrefix

\* A commit's history contains the commit itself.
LEMMA PrefixReflexive ==
  ASSUME NEW S, NEW s \in Seq(S)
  PROVE  IsPrefix(s, s)
BY PrefixPointwise, LenProperties

\* Ancestors of ancestors are ancestors.
LEMMA PrefixTransitive ==
  ASSUME NEW S, NEW r \in Seq(S), NEW s \in Seq(S), NEW t \in Seq(S),
         IsPrefix(r, s), IsPrefix(s, t)
  PROVE  IsPrefix(r, t)
BY PrefixPointwise, LenProperties

\* A new commit has its parent in its history.
LEMMA PrefixAppend ==
  ASSUME NEW S, NEW s \in Seq(S), NEW e \in S
  PROVE  IsPrefix(s, Append(s, e))
<1>1. /\ Append(s, e) \in Seq(S)
      /\ Len(s) <= Len(Append(s, e))
      /\ \A i \in 1 .. Len(s) : s[i] = Append(s, e)[i]
  BY AppendProperties, LenProperties
<1> QED BY <1>1, PrefixPointwise

-----------------------------------------------------------------------------
(* Types.                                                                  *)

LEMMA TreeOfType == \A c \in Commits : TreeOf(c) \in Trees
<1> SUFFICES ASSUME NEW c \in Commits PROVE TreeOf(c) \in Trees
  OBVIOUS
<1>1. CASE c = NoCommit
  BY <1>1 DEF TreeOf, EmptyTree, Trees
<1>2. CASE c # NoCommit
  <2>1. Len(c) \in 1 .. Len(c)
    BY <1>2, EmptySeq DEF Commits, NoCommit
  <2>2. c[Len(c)] \in Entries
    BY <2>1, ElementOfSeq DEF Commits
  <2> QED BY <1>2, <2>2 DEF TreeOf, Entries
<1> QED BY <1>1, <1>2

LEMMA ReachableType == TypeOK => Reachable \subseteq Commits
<1> SUFFICES ASSUME TypeOK, NEW c \in Reachable PROVE c \in Commits
  OBVIOUS
<1>1. PICK b \in Branches : c \in Prefixes(refs[b])
  BY DEF Reachable
<1>2. PICK n \in 0 .. Len(refs[b]) : c = SubSeq(refs[b], 1, n)
  BY <1>1 DEF Prefixes
<1>3. refs[b] \in Seq(Entries) /\ Len(refs[b]) \in Nat
  BY LenProperties DEF TypeOK, Commits
<1>4. \A i \in 1 .. n : refs[b][i] \in Entries
  BY <1>3, ElementOfSeq
<1> QED BY <1>2, <1>3, <1>4, SubSeqProperties DEF Commits

\* What begin hands out: well-formed, and the unedited tree of its parent.
LEMMA ResolutionType ==
  ASSUME TypeOK, NEW o \in Options, NEW r \in Resolution(o)
  PROVE  /\ r \in Transactions
         /\ r.root = TreeOf(r.parent)
<1> USE ConstantsOK, TreeOfType
<1>1. ASSUME NEW ref \in Branches, NEW b \in Branches \cup {NoRef}
      PROVE  /\ OnRef(ref, b) \in Transactions
             /\ OnRef(ref, b).root = TreeOf(OnRef(ref, b).parent)
  BY DEF OnRef, Opened, OrElse, Transactions, TypeOK
<1>2. ASSUME NEW b \in Branches \cup {NoRef}, NEW x \in OnHashes(b)
      PROVE  x \in Transactions /\ x.root = TreeOf(x.parent)
  <2>1. PICK c \in Reachable : x = Opened(NoRef, c, b)
    BY <1>2 DEF OnHashes
  <2>2. c \in Commits /\ TreeOf(c) \in Trees
    BY ReachableType
  <2> QED BY <2>1, <2>2 DEF Opened, Transactions
<1>3. o.branch \in Branches \cup {NoRef} /\ o.name \in Branches \cup {NoRef}
      /\ o.parent \in {"head", "branch", "hash"}
      /\ (o.parent = "branch" => o.name \in Branches)
  BY DEF ConstantsOK
<1>4. CASE o.parent = "head" /\ head # NoRef
  BY <1>1, <1>3, <1>4 DEF Resolution, TypeOK
<1>5. CASE o.parent = "head" /\ head = NoRef
  BY <1>2, <1>3, <1>5 DEF Resolution
<1>6. CASE o.parent = "hash"
  BY <1>2, <1>3, <1>6 DEF Resolution
<1>7. CASE o.parent = "branch"
  BY <1>1, <1>3, <1>7 DEF Resolution
<1> QED BY <1>3, <1>4, <1>5, <1>6, <1>7

\* finalize builds a commit on the captured parent.
LEMMA NewCommitType ==
  ASSUME TypeOK, NEW t \in Threads
  PROVE  /\ NewCommit(t) \in Commits
         /\ IsPrefix(tx[t].parent, NewCommit(t))
         /\ TreeOf(NewCommit(t)) = tx[t].root
<1> DEFINE e == [tree |-> tx[t].root, by |-> t]
<1>1. tx[t].parent \in Seq(Entries) /\ e \in Entries
  BY DEF TypeOK, Transactions, Commits, Entries
<1>2. /\ Append(tx[t].parent, e) \in Seq(Entries)
      /\ Append(tx[t].parent, e) # <<>>
      /\ Append(tx[t].parent, e)[Len(Append(tx[t].parent, e))] = e
      /\ IsPrefix(tx[t].parent, Append(tx[t].parent, e))
  BY <1>1, AppendProperties, PrefixAppend
<1> QED BY <1>2 DEF NewCommit, TreeOf, Commits, NoCommit

\* The variables start and stay within their types.
LEMMA InitTypes == Init => TypeOK
<1> USE ConstantsOK DEF TypeOK
<1> SUFFICES ASSUME Init PROVE TypeOK
  OBVIOUS
<1>1. \A tr \in Trees : <<[tree |-> tr, by |-> Git]>> \in Commits
  BY DEF Commits, Entries
<1>2. NoCommit \in Commits
  BY DEF NoCommit, Commits
<1>3. NoTransaction \in Transactions
  BY <1>2 DEF NoTransaction, Transactions, EmptyTree, Trees
<1>4. refs \in [Branches -> Commits]
  BY <1>1, <1>2 DEF Init
<1> QED BY <1>3, <1>4 DEF Init, Places

LEMMA StepTypes == TypeOK /\ [Next]_vars => TypeOK'
<1> USE ConstantsOK DEF TypeOK
<1> SUFFICES ASSUME TypeOK, [Next]_vars PROVE TypeOK'
  OBVIOUS
<1> USE DEF Places
<1>1. ASSUME NEW t \in Threads, Begin(t) PROVE TypeOK'
  BY <1>1 DEF Begin
<1>2. ASSUME NEW t \in Threads, Resolve(t) PROVE TypeOK'
  <2>1. tx' \in [Threads -> Transactions]
    BY <1>2, ResolutionType DEF Resolve
  <2> QED BY <1>2, <2>1 DEF Resolve
<1>3. ASSUME NEW t \in Threads, ResolveFails(t) PROVE TypeOK'
  BY <1>3 DEF ResolveFails, SlotAfterFailedBegin
<1>4. ASSUME NEW t \in Threads, Stage(t) PROVE TypeOK'
  <2>1. PICK p \in Paths, v \in Values \cup {Absent} :
          tx' = [tx EXCEPT ![t] = Staged(tx[t], p, v)]
    BY <1>4 DEF Stage
  <2>2. [tx[t].root EXCEPT ![p] = v] \in Trees
    BY DEF Transactions, Trees
  <2>3. Staged(tx[t], p, v) \in Transactions
    <3>1. tx[t] \in Transactions
      OBVIOUS
    <3> QED BY <2>2, <3>1 DEF Transactions, Staged
  <2>4. tx' \in [Threads -> Transactions]
    BY <2>1, <2>3
  <2> QED BY <1>4, <2>4 DEF Stage
<1>5. ASSUME NEW t \in Threads,
             FinalizeUnmutated(t) \/ ParentMoved(t) \/ FinalizeUnchanged(t)
               \/ CommitFails(t) \/ Discard(t)
      PROVE  TypeOK'
  BY <1>5 DEF FinalizeUnmutated, ParentMoved, FinalizeUnchanged, CommitFails,
              Discard, Release
<1>6. ASSUME NEW t \in Threads, Recheck(t) PROVE TypeOK'
  BY <1>6 DEF Recheck
<1>7. ASSUME NEW t \in Threads, Commit(t) PROVE TypeOK'
  <2>1. tx[t].branchRef \in Branches \cup {NoRef}
    BY DEF Transactions
  <2>2. refs' \in [Branches -> Commits]
    BY <1>7, <2>1, NewCommitType DEF Commit
  <2>3. acked' \subseteq Branches \X Commits
    BY <1>7, <2>1, NewCommitType DEF Commit, Ack
  <2> QED BY <1>7, <2>2, <2>3 DEF Commit, Release
<1>8. ASSUME NEW t \in Threads, CasFails(t) PROVE TypeOK'
  BY <1>8 DEF CasFails, Release, AckedByFailedCas
<1>9. ASSUME NEW t \in Threads, Drop(t) \/ Leak(t) PROVE TypeOK'
  <2>1. NoTransaction \in Transactions
    BY DEF NoTransaction, Transactions, EmptyTree, Trees, NoCommit, Commits
  <2> QED BY <1>9, <2>1 DEF Drop, Leak, DropValue
<1>10. ASSUME NEW p \in Procs, Crash(p) PROVE TypeOK'
  <2>1. NoTransaction \in Transactions
    BY DEF NoTransaction, Transactions, EmptyTree, Trees, NoCommit, Commits
  <2> QED BY <1>10, <2>1 DEF Crash
<1>11. ASSUME NEW b \in Branches, GitCommit(b) PROVE TypeOK'
  <2>1. \A c \in Commits, tr \in Trees :
          Append(c, [tree |-> tr, by |-> Git]) \in Commits
    BY AppendProperties DEF Commits, Entries
  <2> QED BY <1>11, <2>1 DEF GitCommit
<1>12. CASE GitCheckout
  BY <1>12 DEF GitCheckout
<1>13. CASE UNCHANGED vars
  BY <1>13 DEF vars
<1> QED
  BY <1>1, <1>2, <1>3, <1>4, <1>5, <1>6, <1>7, <1>8, <1>9, <1>10, <1>11,
     <1>12, <1>13 DEF Next, ThreadStep

\* Every variable stays within its type.
THEOREM TypeCorrect == Spec => []TypeOK
BY InitTypes, StepTypes, PTL DEF Spec

-----------------------------------------------------------------------------
(* The registry.                                                           *)

\* No execution of a process leaves its slot taken with no thread left that
\* will free it.  The invariant is inductive on its own: whoever leaves the
\* owning places takes the process out of the registry in the same step.
THEOREM SlotsAreOwned == Spec => []NoOrphanedSlot
<1>1. Init => NoOrphanedSlot
  BY DEF Init, NoOrphanedSlot
<1>2. TypeOK /\ NoOrphanedSlot /\ [Next]_vars => NoOrphanedSlot'
  <2> SUFFICES ASSUME TypeOK, NoOrphanedSlot, [Next]_vars
               PROVE  NoOrphanedSlot'
    OBVIOUS
  <2> USE ConstantsOK DEF NoOrphanedSlot, Owning, TypeOK
  <2>1. ASSUME NEW t \in Threads, Begin(t) PROVE NoOrphanedSlot'
    BY <2>1 DEF Begin
  <2>2. ASSUME NEW t \in Threads, Resolve(t) \/ Recheck(t)
        PROVE  NoOrphanedSlot'
    BY <2>2 DEF Resolve, Recheck
  <2>3. ASSUME NEW t \in Threads, ResolveFails(t) PROVE NoOrphanedSlot'
    BY <2>3 DEF ResolveFails, SlotAfterFailedBegin
  <2>4. ASSUME NEW t \in Threads, Stage(t) PROVE NoOrphanedSlot'
    BY <2>4 DEF Stage
  <2>5. ASSUME NEW t \in Threads, Release(t) PROVE NoOrphanedSlot'
    BY <2>5 DEF Release
  <2>6. ASSUME NEW t \in Threads, Drop(t) \/ Leak(t) PROVE NoOrphanedSlot'
    BY <2>6 DEF Drop, Leak, DropValue
  <2>7. ASSUME NEW p \in Procs, Crash(p) PROVE NoOrphanedSlot'
    BY <2>7 DEF Crash
  <2>8. ASSUME UNCHANGED <<registry, pc>> PROVE NoOrphanedSlot'
    BY <2>8
  <2> QED
    BY <2>1, <2>2, <2>3, <2>4, <2>5, <2>6, <2>7, <2>8
    DEF Next, ThreadStep, FinalizeUnmutated, ParentMoved, FinalizeUnchanged,
        Commit, CasFails, CommitFails, Discard, GitCommit, GitCheckout, vars
<1> QED BY <1>1, <1>2, TypeCorrect, PTL DEF Spec

-----------------------------------------------------------------------------
(* transaction.rs:25-27, which Spec does not keep: what it takes.          *)

\* While a thread has freed its slot and not yet dropped its Transaction value,
\* no other thread of the process has taken the slot.
DropsBeforeTheNext ==
  \A t, u \in Threads :
    t # u /\ ProcOf[t] = ProcOf[u] /\ pc[t] = "dropping" => pc[u] \notin Owning

OwnersAreRegistered == \A t \in Threads : pc[t] \in Owning => ProcOf[t] \in registry

LEMMA OneOpenStep ==
  ASSUME TypeOK, DropsBeforeTheNext, OwnersAreRegistered, OneOpenPerProcess, [Next]_vars
  PROVE  OwnersAreRegistered' /\ OneOpenPerProcess'
<1> USE DEF Owning
<1>1. pc \in [Threads -> Places]
  BY DEF TypeOK
<1>2. ASSUME NEW t \in Threads, Begin(t)
      PROVE  OwnersAreRegistered' /\ OneOpenPerProcess'
  <2>1. /\ ProcOf[t] \notin registry /\ registry' = registry \cup {ProcOf[t]}
        /\ pc'[t] = "resolving" /\ \A u \in Threads : u # t => pc'[u] = pc[u]
    BY <1>1, <1>2 DEF Begin
  <2>2. \A u \in Threads : u # t /\ pc'[u] \in Owning => ProcOf[u] # ProcOf[t]
    BY <2>1 DEF OwnersAreRegistered
  <2> QED BY <2>1, <2>2 DEF OwnersAreRegistered, OneOpenPerProcess
<1>3. ASSUME NEW t \in Threads, pc[t] \in Owning \/ pc[t] = "dropping",
             registry' = registry \ {ProcOf[t]},
             \E place \in {"idle", "dropping"} : pc' = [pc EXCEPT ![t] = place]
      PROVE  OwnersAreRegistered' /\ OneOpenPerProcess'
  <2>1. pc'[t] \notin Owning /\ \A u \in Threads : u # t => pc'[u] = pc[u]
    BY <1>1, <1>3
  <2>2. \A u \in Threads : u # t /\ pc[u] \in Owning => ProcOf[u] # ProcOf[t]
    BY <1>3 DEF OneOpenPerProcess, DropsBeforeTheNext
  <2> QED BY <1>3, <2>1, <2>2 DEF OwnersAreRegistered, OneOpenPerProcess
<1>4. ASSUME NEW t \in Threads, pc[t] \in Owning, UNCHANGED registry,
             \E place \in Owning : pc' = [pc EXCEPT ![t] = place]
      PROVE  OwnersAreRegistered' /\ OneOpenPerProcess'
  <2>1. \A u \in Threads : pc'[u] \in Owning <=> pc[u] \in Owning
    BY <1>1, <1>4
  <2> QED BY <1>4, <2>1 DEF OwnersAreRegistered, OneOpenPerProcess
<1>5. ASSUME NEW t \in Threads, ThreadStep(t), ~Begin(t), ~UNCHANGED <<registry, pc>>
      PROVE  OwnersAreRegistered' /\ OneOpenPerProcess'
  <2>1. CASE Resolve(t) \/ Recheck(t)
    <3>1. pc[t] \in Owning /\ UNCHANGED registry
          /\ \E place \in Owning : pc' = [pc EXCEPT ![t] = place]
      BY <2>1 DEF Resolve, Recheck
    <3> QED BY <1>4, <3>1
  <2>2. CASE ~(Resolve(t) \/ Recheck(t))
    <3>1. /\ pc[t] \in Owning \/ pc[t] = "dropping"
          /\ registry' = registry \ {ProcOf[t]}
          /\ \E place \in {"idle", "dropping"} : pc' = [pc EXCEPT ![t] = place]
      BY <1>5, <2>2 DEF ThreadStep, ResolveFails, SlotAfterFailedBegin, Stage,
         FinalizeUnmutated, ParentMoved, FinalizeUnchanged, Commit, CasFails, CommitFails,
         Discard, Drop, Leak, Release, DropValue
    <3> QED BY <1>3, <3>1
  <2> QED BY <2>1, <2>2
<1>6. ASSUME NEW p \in Procs, Crash(p)
      PROVE  OwnersAreRegistered' /\ OneOpenPerProcess'
  <2>1. /\ registry' = registry \ {p}
        /\ \A t \in Threads : pc'[t] = IF ProcOf[t] = p THEN "idle" ELSE pc[t]
    BY <1>6 DEF Crash
  <2> QED BY <2>1 DEF OwnersAreRegistered, OneOpenPerProcess
<1>7. ASSUME UNCHANGED <<registry, pc>>
      PROVE  OwnersAreRegistered' /\ OneOpenPerProcess'
  BY <1>7 DEF OwnersAreRegistered, OneOpenPerProcess
<1> QED BY <1>2, <1>5, <1>6, <1>7 DEF Next, GitCommit, GitCheckout, vars

\* transaction.rs:25-27 holds of every behaviour in which the second release,
\* that of Drop, comes before the next begin of the process: nothing else opens
\* a second transaction in it (begin, Registry, Drop).
THEOREM OneOpenOtherwise == Spec /\ []DropsBeforeTheNext => []OneOpenPerProcess
<1>1. Init => OwnersAreRegistered /\ OneOpenPerProcess
  BY DEF Init, OwnersAreRegistered, OneOpenPerProcess, Owning
<1>2. /\ TypeOK /\ DropsBeforeTheNext /\ OwnersAreRegistered /\ OneOpenPerProcess
      /\ [Next]_vars
      => OwnersAreRegistered' /\ OneOpenPerProcess'
  BY OneOpenStep
<1> QED BY <1>1, <1>2, TypeCorrect, PTL DEF Spec

-----------------------------------------------------------------------------
(* Histories.                                                              *)

\* Only a successful CAS and git itself move a ref.
LEMMA OnlyTwoMoveRefs ==
  ASSUME [Next]_vars
  PROVE  \/ \E t \in Threads : Commit(t)
         \/ \E b \in Branches : GitCommit(b)
         \/ UNCHANGED refs
BY DEF Next, ThreadStep, Begin, Resolve, ResolveFails, Stage, FinalizeUnmutated,
       Recheck, ParentMoved, FinalizeUnchanged, CasFails, CommitFails, Discard,
       Drop, Leak, DropValue, Crash, GitCheckout, vars

\* One step extends histories, when update_ref compares in every case.
LEMMA StepExtends ==
  ASSUME ~ForceUnborn, TypeOK, [Next]_vars, NEW b \in Branches
  PROVE  IsPrefix(refs[b], refs'[b])
<1>0. refs[b] \in Seq(Entries)
  BY DEF TypeOK, Commits
<1>1. ASSUME NEW t \in Threads, Commit(t) PROVE IsPrefix(refs[b], refs'[b])
  <2>1. CASE refs'[b] = refs[b]
    BY <1>0, <2>1, PrefixReflexive
  <2>2. CASE refs'[b] # refs[b]
    <3>1. /\ refs[b] = tx[t].parent
          /\ refs'[b] = NewCommit(t)
      BY <1>1, <2>2 DEF Commit, Cas, Expected, TypeOK
    <3> QED BY <3>1, NewCommitType
  <2> QED BY <2>1, <2>2
<1>2. ASSUME NEW d \in Branches, GitCommit(d) PROVE IsPrefix(refs[b], refs'[b])
  <2>1. CASE b # d
    BY <1>0, <1>2, <2>1, PrefixReflexive DEF GitCommit, TypeOK
  <2>2. CASE b = d
    <3>1. PICK tr \in Trees :
            refs' = [refs EXCEPT ![d] = Append(@, [tree |-> tr, by |-> Git])]
      BY <1>2 DEF GitCommit
    <3>2. [tree |-> tr, by |-> Git] \in Entries
      BY DEF Entries
    <3> QED BY <1>0, <2>2, <3>1, <3>2, PrefixAppend DEF TypeOK
  <2> QED BY <2>1, <2>2
<1>3. CASE UNCHANGED refs
  BY <1>0, <1>3, PrefixReflexive
<1> QED BY <1>1, <1>2, <1>3, OnlyTwoMoveRefs

\* Provided update_ref compares even on an unborn branch, no interleaving of
\* transactions and git commits removes a commit from a branch.
THEOREM HistoryIsAppendOnly ==
  ASSUME ~ForceUnborn
  PROVE  Spec => HistoryOnlyGrows
<1>1. TypeOK /\ [Next]_vars
        => [\A b \in Branches : IsPrefix(refs[b], refs'[b])]_vars
  BY StepExtends
<1> QED BY <1>1, TypeCorrect, PTL DEF Spec, HistoryOnlyGrows

\* Under the same proviso a commit that was reported stays in its branch.
THEOREM AckedCommitsAreDurable ==
  ASSUME ~ForceUnborn
  PROVE  Spec => []AckedCommitStays
<1>1. Init => AckedCommitStays
  BY DEF Init, AckedCommitStays
<1>2. TypeOK /\ AckedCommitStays /\ [Next]_vars => AckedCommitStays'
  <2> SUFFICES ASSUME TypeOK, AckedCommitStays, [Next]_vars, NEW a \in acked'
               PROVE  IsPrefix(a[2], refs'[a[1]])
    BY DEF AckedCommitStays
  <2>1. CASE a \in acked
    <3>1. a[1] \in Branches /\ a[2] \in Seq(Entries)
      BY <2>1 DEF TypeOK, Commits
    <3>2. IsPrefix(a[2], refs[a[1]]) /\ IsPrefix(refs[a[1]], refs'[a[1]])
      BY <2>1, <3>1, StepExtends DEF AckedCommitStays
    <3>3. TypeOK'
      BY StepTypes
    <3>4. refs[a[1]] \in Seq(Entries) /\ refs'[a[1]] \in Seq(Entries)
      BY <3>1, <3>3 DEF TypeOK, Commits
    <3> QED BY <3>1, <3>2, <3>4, PrefixTransitive
  <2>2. CASE a \notin acked
    <3>1. PICK t \in Threads : Commit(t)
      <4>1. (\E t \in Threads : Commit(t)) \/ UNCHANGED acked
        BY DEF Next, ThreadStep, Begin, Resolve, ResolveFails, Stage,
               FinalizeUnmutated, Recheck, ParentMoved, FinalizeUnchanged,
               CasFails, AckedByFailedCas, CommitFails, Discard, Drop, Leak,
               DropValue, Crash, GitCommit, GitCheckout, vars
      <4> QED BY <2>2, <4>1
    <3>2. /\ tx[t].branchRef \in Branches
          /\ a = <<tx[t].branchRef, NewCommit(t)>>
      BY <2>2, <3>1 DEF Commit, Ack, TypeOK, Transactions
    <3>3. refs'[tx[t].branchRef] = NewCommit(t)
      BY <3>1, <3>2, ConstantsOK DEF Commit, TypeOK
    <3>4. IsPrefix(NewCommit(t), NewCommit(t))
      BY NewCommitType, PrefixReflexive DEF Commits
    <3> QED BY <3>2, <3>3, <3>4
  <2> QED BY <2>1, <2>2
<1> QED BY <1>1, <1>2, TypeCorrect, PTL DEF Spec

-----------------------------------------------------------------------------
(* Refinement of RecordStore.                                              *)

\* The work a thread shows, before and after a step that sets its place.
LEMMA ViewIdle ==
  ASSUME NEW t \in Threads, pc[t] \notin InFlight
  PROVE  WorkView[t] = Store!Closed
BY DEF WorkView, Store!Closed

\* A step that takes threads out of flight, and touches no ref, is Vanish.
LEMMA Vanishes ==
  ASSUME NEW S \in SUBSET Threads, UNCHANGED refs,
         \A t \in S : pc'[t] \notin InFlight,
         \A t \in Threads \ S : pc'[t] = pc[t] /\ tx'[t] = tx[t]
  PROVE  Store!Vanish(S)
<1>1. StoreView' = StoreView
  BY DEF StoreView
<1>2. WorkView' = [t \in Threads |-> IF t \in S THEN Store!Closed ELSE WorkView[t]]
  BY DEF WorkView, Store!Closed
<1> QED BY <1>1, <1>2 DEF Store!Vanish

\* A step that changes no ref and neither place nor transaction of a thread
\* that is or gets in flight is invisible.
LEMMA Invisible ==
  ASSUME UNCHANGED refs,
         \A t \in Threads :
           \/ pc[t] \notin InFlight /\ pc'[t] \notin InFlight
           \/ pc[t] \in InFlight /\ pc'[t] \in InFlight /\ tx'[t] = tx[t]
  PROVE  UNCHANGED Store!storeVars
<1>1. StoreView' = StoreView
  BY DEF StoreView
<1>2. WorkView' = WorkView
  BY DEF WorkView
<1> QED BY <1>1, <1>2 DEF Store!storeVars

\* begin hands out an unedited copy of its parent's tree.
LEMMA ResolveOpens ==
  ASSUME TypeOK, NEW t \in Threads, Resolve(t)
  PROVE  Store!Open(t)
<1>1. PICK o \in Options : \E r \in Resolution(o) : tx' = [tx EXCEPT ![t] = r]
  BY DEF Resolve
<1>2. PICK r \in Resolution(o) : tx' = [tx EXCEPT ![t] = r]
  BY <1>1
<1> DEFINE w == [open |-> TRUE, snapshot |-> TreeOf(r.parent),
                 private |-> r.root, target |-> r.branchRef]
<1>3. r \in Transactions /\ r.root = TreeOf(r.parent)
  BY ResolutionType
<1>4. w \in Store!OpenWork /\ w.private = w.snapshot
  BY <1>3 DEF Store!OpenWork, Transactions
<1>5. WorkView[t] = Store!Closed
  BY ViewIdle DEF Resolve, InFlight
<1>6. WorkView' = [WorkView EXCEPT ![t] = w]
  BY <1>2 DEF WorkView, Resolve, InFlight, TypeOK
<1>7. StoreView' = StoreView
  BY DEF StoreView, Resolve
<1> QED BY <1>4, <1>5, <1>6, <1>7 DEF Store!Open

\* Staging edits the private copy.
LEMMA StageEdits ==
  ASSUME TypeOK, NEW t \in Threads, Stage(t)
  PROVE  Store!Edit(t)
<1>1. PICK p \in Paths, v \in Values \cup {Absent} :
        tx' = [tx EXCEPT ![t] = Staged(tx[t], p, v)]
  BY DEF Stage
<1> DEFINE tree == [tx[t].root EXCEPT ![p] = v]
<1>2. tree \in Trees
  BY DEF Transactions, Trees, TypeOK
<1>3. tx[t] \in Transactions
  BY DEF TypeOK
<1>4. /\ tx'[t].root = tree
      /\ tx'[t].parent = tx[t].parent
      /\ tx'[t].branchRef = tx[t].branchRef
  BY <1>1, <1>3 DEF Staged, Transactions, TypeOK
<1>5. WorkView[t].open
  BY DEF WorkView, Stage, InFlight
<1> DEFINE w == [open |-> TRUE, snapshot |-> TreeOf(tx[t].parent),
                 private |-> tree, target |-> tx[t].branchRef]
<1>6. w \in Store!OpenWork
  BY <1>2, <1>3, TreeOfType DEF Store!OpenWork, Transactions
<1>7. w.snapshot = WorkView[t].snapshot /\ w.target = WorkView[t].target
  BY DEF WorkView, Stage, InFlight
<1>8. WorkView' = [WorkView EXCEPT ![t] = w]
  <2>1. WorkView'[t] = w
    <3> HIDE DEF tree
    <3>1. pc'[t] \in InFlight
      BY DEF Stage, InFlight
    <3>2. WorkView'[t] =
            [open |-> TRUE, snapshot |-> TreeOf(tx'[t].parent),
             private |-> tx'[t].root, target |-> tx'[t].branchRef]
      BY <3>1 DEF WorkView
    <3> QED BY <1>4, <3>2
  <2>2. \A u \in Threads \ {t} : WorkView'[u] = WorkView[u]
    BY <1>1 DEF WorkView, Stage, TypeOK
  <2> HIDE DEF w
  <2> QED BY <2>1, <2>2 DEF WorkView
<1>9. StoreView' = StoreView
  BY DEF StoreView, Stage
<1> QED BY <1>5, <1>6, <1>7, <1>8, <1>9 DEF Store!Edit

\* A CAS that succeeded published the private tree onto its own snapshot.
LEMMA CommitPublishes ==
  ASSUME ~ForceUnborn, TypeOK, NEW t \in Threads, Commit(t)
  PROVE  Store!Publish(t) \/ Store!Vanish({t})
<1>1. CASE UNCHANGED refs
  BY <1>1, Vanishes DEF Commit, Release, InFlight, TypeOK
<1>2. CASE ~UNCHANGED refs
  <2> DEFINE b == tx[t].branchRef
  <2>1. /\ b \in Branches /\ b # NoRef
        /\ refs[b] = tx[t].parent
        /\ refs' = [refs EXCEPT ![b] = NewCommit(t)]
    BY <1>2, ConstantsOK DEF Commit, Cas, Expected, TypeOK, Transactions
  <2>2. /\ WorkView[t].open /\ WorkView[t].target = b
        /\ WorkView[t].snapshot = TreeOf(tx[t].parent)
        /\ WorkView[t].private = tx[t].root
    BY DEF WorkView, Commit, InFlight
  <2>3. StoreView' = [StoreView EXCEPT ![b] = tx[t].root]
    BY <2>1, NewCommitType DEF StoreView, TypeOK
  <2>4. WorkView' = [WorkView EXCEPT ![t] = Store!Closed]
    BY DEF WorkView, Commit, Release, InFlight, Store!Closed, TypeOK
  <2>5. StoreView[b] = TreeOf(tx[t].parent)
    BY <2>1 DEF StoreView
  <2> QED BY <2>1, <2>2, <2>3, <2>4, <2>5 DEF Store!Publish
<1> QED BY <1>1, <1>2

\* A commit made with git only changes the contents of its branch.
LEMMA GitCommitsOutside ==
  ASSUME TypeOK, NEW b \in Branches, GitCommit(b)
  PROVE  Store!Outside(b)
<1>1. PICK tr \in Trees :
        refs' = [refs EXCEPT ![b] = Append(@, [tree |-> tr, by |-> Git])]
  BY DEF GitCommit
<1> DEFINE e == [tree |-> tr, by |-> Git]
<1>2. refs[b] \in Seq(Entries) /\ e \in Entries
  BY DEF TypeOK, Commits, Entries
<1>3. TreeOf(Append(refs[b], e)) = tr
  BY <1>2, AppendProperties DEF TreeOf, NoCommit
<1>4. StoreView' = [StoreView EXCEPT ![b] = tr]
  BY <1>1, <1>3 DEF StoreView, TypeOK
<1>5. WorkView' = WorkView
  BY DEF WorkView, GitCommit
<1> QED BY <1>4, <1>5 DEF Store!Outside

\* With a CAS that compares in every case, the lifecycle implements the
\* abstract store: transactions are atomic, isolated and never overwrite what
\* they have not seen.
THEOREM RefinesStore ==
  ASSUME ~ForceUnborn
  PROVE  Spec => ImplementsStore
<1>1. Init => Store!StoreInit
  <2> SUFFICES ASSUME Init PROVE Store!StoreInit
    OBVIOUS
  <2>1. TypeOK
    BY InitTypes
  <2>2. StoreView \in [Branches -> Trees]
    BY <2>1, TreeOfType DEF StoreView, TypeOK
  <2>3. WorkView = [t \in Threads |-> Store!Closed]
    BY DEF WorkView, Init, InFlight, Store!Closed
  <2> QED BY <2>2, <2>3 DEF Store!StoreInit
<1>2. TypeOK /\ [Next]_vars => [Store!StoreNext]_(Store!storeVars)
  <2> SUFFICES ASSUME TypeOK, [Next]_vars
               PROVE  Store!StoreNext \/ UNCHANGED Store!storeVars
    OBVIOUS
  <2> USE DEF Store!StoreNext
  <2>1. ASSUME NEW t \in Threads, Resolve(t) PROVE Store!StoreNext
    BY <2>1, ResolveOpens
  <2>2. ASSUME NEW t \in Threads, Stage(t) PROVE Store!StoreNext
    BY <2>2, StageEdits
  <2>3. ASSUME NEW t \in Threads, Commit(t) PROVE Store!StoreNext
    BY <2>3, CommitPublishes
  <2>4. ASSUME NEW t \in Threads,
               \/ FinalizeUnmutated(t) \/ ParentMoved(t) \/ FinalizeUnchanged(t)
               \/ CasFails(t) \/ CommitFails(t) \/ Discard(t) \/ Leak(t)
        PROVE  Store!StoreNext
    <3>1. Store!Vanish({t})
      BY <2>4, Vanishes
      DEF FinalizeUnmutated, ParentMoved, FinalizeUnchanged, CasFails,
          CommitFails, Discard, Leak, DropValue, Release, InFlight, TypeOK
    <3> QED BY <3>1
  <2>5. ASSUME NEW p \in Procs, Crash(p) PROVE Store!StoreNext
    <3> DEFINE dead == {t \in Threads : ProcOf[t] = p}
    <3>1. Store!Vanish(dead)
      BY <2>5, Vanishes DEF Crash, InFlight
    <3> QED BY <3>1
  <2>6. ASSUME NEW b \in Branches, GitCommit(b) PROVE Store!StoreNext
    BY <2>6, GitCommitsOutside
  <2>7. ASSUME NEW t \in Threads,
               Begin(t) \/ ResolveFails(t) \/ Recheck(t) \/ Drop(t)
        PROVE  UNCHANGED Store!storeVars
    BY <2>7, Invisible DEF Begin, ResolveFails, Recheck, Drop, DropValue,
                           InFlight, TypeOK
  <2>8. CASE GitCheckout \/ UNCHANGED vars
    BY <2>8, Invisible DEF GitCheckout, vars, TypeOK, InFlight
  <2> QED
    BY <2>1, <2>2, <2>3, <2>4, <2>5, <2>6, <2>7, <2>8 DEF Next, ThreadStep
<1> QED
  BY <1>1, <1>2, TypeCorrect, PTL DEF Spec, ImplementsStore, Store!StoreSpec

=============================================================================
