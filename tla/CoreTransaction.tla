--------------------------- MODULE CoreTransaction ---------------------------
(***************************************************************************)
(* The transaction lifecycle of the Rust core                              *)
(* (rust/gitsheets-core/src/transaction.rs): the process-wide registry of  *)
(* open transactions, begin, staging, finalize with its optimistic         *)
(* re-check and its compare-and-swap of the branch, discard, and Drop.     *)
(*                                                                         *)
(* Threads of several processes share one git directory.  A commit hash    *)
(* fixes the whole ancestry of the commit, so a commit is modelled as the  *)
(* sequence of its ancestors' trees and authors, oldest first; the empty   *)
(* sequence is "no commit" (an unborn branch).  The parent of a commit is  *)
(* the sequence without its last entry, and being an ancestor is being a   *)
(* prefix.                                                                 *)
(*                                                                         *)
(* Steps are split where another thread or process can get in between: at  *)
(* every access to the registry, at every read and at the CAS of a ref.    *)
(***************************************************************************)
EXTENDS Naturals, Sequences, SequencesExt

CONSTANTS Threads,       \* OS threads that use the core
          Procs,         \* processes
          ProcOf,        \* [Threads -> Procs]
          Branches,      \* full names of branch refs
          Paths,         \* record paths
          Values,        \* record contents
          Absent,        \* no record at a path
          NoRef,         \* Option::None for a ref name
          Options,       \* the parent and branch options clients pass
          Git,           \* the author of commits made without gitsheets
          ForceUnborn,   \* update_ref with no expected value overwrites
          MaxCommits     \* bound on the length of a history

ASSUME ConstantsOK ==
  /\ ProcOf \in [Threads -> Procs]
  /\ NoRef \notin Branches
  /\ Options \subseteq [parent : {"head", "branch", "hash"},
                        name : Branches \cup {NoRef},
                        branch : Branches \cup {NoRef}]
  /\ \A o \in Options : o.parent = "branch" <=> o.name # NoRef
  /\ Absent \notin Values
  /\ Git \notin Threads
  /\ ForceUnborn \in BOOLEAN
  /\ MaxCommits \in Nat

VARIABLES refs,      \* [Branches -> Commits]: the refs of the git directory
          head,      \* the branch HEAD names, or NoRef when it is detached
          registry,  \* the processes in whose registry the directory is
          pc,        \* [Threads -> where the thread is]
          tx,        \* [Threads -> the Transaction value it owns]
          acked      \* the <<branch, commit>> pairs finalize has reported as done

vars == <<refs, head, registry, pc, tx, acked>>

-----------------------------------------------------------------------------
Trees == [Paths -> Values \cup {Absent}]
EmptyTree == [p \in Paths |-> Absent]

Entries == [tree : Trees, by : Threads \cup {Git}]
Commits == Seq(Entries)
NoCommit == <<>>

TreeOf(c) == IF c = NoCommit THEN EmptyTree ELSE c[Len(c)].tree

\* The commits somebody can name: what a branch reaches.
Reachable == (UNION {Prefixes(refs[b]) : b \in Branches}) \ {NoCommit}

Transactions == [parentRef : Branches \cup {NoRef}, parent : Commits,
                 branchRef : Branches \cup {NoRef},
                 root : Trees, mutated : BOOLEAN]

NoTransaction == [parentRef |-> NoRef, parent |-> NoCommit,
                  branchRef |-> NoRef, root |-> EmptyTree, mutated |-> FALSE]

\* idle: no transaction; resolving: slot taken, parent not read yet; open:
\* handed to the client; checked: past the re-check; dropping: slot released
\* explicitly, the value not dropped yet.
Places == {"idle", "resolving", "open", "checked", "dropping"}
\* The places in which this thread, and nobody else, has to free the slot.
Owning == {"resolving", "open", "checked"}
\* The places in which the client has a transaction in flight.
InFlight == {"open", "checked"}

Init ==
  /\ \E tr \in Trees :
       refs \in [Branches -> {NoCommit, <<[tree |-> tr, by |-> Git]>>}]
  /\ head \in Branches
  /\ registry = {}
  /\ pc = [t \in Threads |-> "idle"]
  /\ tx = [t \in Threads |-> NoTransaction]
  /\ acked = {}

-----------------------------------------------------------------------------
(* Opening.                                                                *)

\* What resolve_parent can return: the parent option is left out ("head"), a
\* branch name, or a hash.  The empty set is RefNotFound.
OrElse(branch, default) == IF branch = NoRef THEN default ELSE branch

Opened(parentRef, commit, branchRef) ==
  [parentRef |-> parentRef, parent |-> commit, branchRef |-> branchRef,
   root |-> TreeOf(commit), mutated |-> FALSE]

OnRef(ref, branch) == Opened(ref, refs[ref], OrElse(branch, ref))
OnHashes(branch) == {Opened(NoRef, c, branch) : c \in Reachable}

Resolution(o) ==
  CASE o.parent = "head" /\ head # NoRef -> {OnRef(head, o.branch)}
    [] o.parent = "head" /\ head = NoRef -> OnHashes(o.branch)
    [] o.parent = "hash" -> OnHashes(o.branch)
    [] o.parent = "branch" ->
         IF refs[o.name] = NoCommit THEN {} ELSE {OnRef(o.name, o.branch)}

\* Take the process's slot.  With the slot taken begin returns
\* TransactionInProgress and changes nothing.
Begin(t) ==
  /\ pc[t] = "idle"
  /\ ProcOf[t] \notin registry
  /\ registry' = registry \cup {ProcOf[t]}
  /\ pc' = [pc EXCEPT ![t] = "resolving"]
  /\ UNCHANGED <<refs, head, tx, acked>>

Resolve(t) ==
  /\ pc[t] = "resolving"
  /\ \E o \in Options : \E r \in Resolution(o) : tx' = [tx EXCEPT ![t] = r]
  /\ pc' = [pc EXCEPT ![t] = "open"]
  /\ UNCHANGED <<refs, head, registry, acked>>

\* An unknown branch or hash, or an unreadable tree: the slot is given back
\* and no Transaction value ever existed.
SlotAfterFailedBegin_Leaked(p) == registry
SlotAfterFailedBegin(p) == registry \ {p}

ResolveFails(t) ==
  /\ pc[t] = "resolving"
  /\ registry' = SlotAfterFailedBegin(ProcOf[t])
  /\ pc' = [pc EXCEPT ![t] = "idle"]
  /\ UNCHANGED <<refs, head, tx, acked>>

-----------------------------------------------------------------------------
(* Working.                                                                *)

\* A mutating method: write or delete one record and mark_mutated.
Staged(x, p, v) ==
  [x EXCEPT !.root = [x.root EXCEPT ![p] = v], !.mutated = TRUE]

Stage(t) ==
  /\ pc[t] = "open"
  /\ \E p \in Paths, v \in Values \cup {Absent} :
       tx' = [tx EXCEPT ![t] = Staged(tx[t], p, v)]
  /\ UNCHANGED <<refs, head, registry, pc, acked>>

-----------------------------------------------------------------------------
(* Closing.                                                                *)

\* Return: free the slot now, drop the value in a later step.
Release(t) ==
  /\ registry' = registry \ {ProcOf[t]}
  /\ pc' = [pc EXCEPT ![t] = "dropping"]

FinalizeUnmutated(t) ==
  /\ pc[t] = "open"
  /\ ~tx[t].mutated
  /\ Release(t)
  /\ UNCHANGED <<refs, head, tx, acked>>

ParentUnmoved(t) ==
  tx[t].parentRef # NoRef => refs[tx[t].parentRef] = tx[t].parent

Recheck(t) ==
  /\ pc[t] = "open"
  /\ tx[t].mutated
  /\ ParentUnmoved(t)
  /\ pc' = [pc EXCEPT ![t] = "checked"]
  /\ UNCHANGED <<refs, head, registry, tx, acked>>

ParentMoved(t) ==
  /\ pc[t] = "open"
  /\ tx[t].mutated
  /\ ~ParentUnmoved(t)
  /\ Release(t)
  /\ UNCHANGED <<refs, head, tx, acked>>

\* The tree is the parent's: no commit although something was written.
IsNoOp(t) == tx[t].parent # NoCommit /\ tx[t].root = TreeOf(tx[t].parent)

FinalizeUnchanged(t) ==
  /\ pc[t] = "checked"
  /\ IsNoOp(t)
  /\ Release(t)
  /\ UNCHANGED <<refs, head, tx, acked>>

NewCommit(t) == Append(tx[t].parent, [tree |-> tx[t].root, by |-> t])

\* holo-tree's update_ref: compare with the expected value and set.
Cas(b, expected) ==
  (ForceUnborn /\ expected = NoCommit) \/ refs[b] = expected

\* The value finalize expects the branch to have: the parent, whether or not a
\* branch is named by it.
Expected_Reread(t) == refs[tx[t].branchRef]
Expected(t) == tx[t].parent

\* A commit by hash advances no branch, and reports none.
Ack_Always(t) == {<<tx[t].branchRef, NewCommit(t)>>}
Ack(t) == IF tx[t].branchRef = NoRef THEN {} ELSE {<<tx[t].branchRef, NewCommit(t)>>}

\* The error of update_ref is returned; it could also be dropped.
AckedByFailedCas_Swallowed(t) == acked \cup Ack(t)
AckedByFailedCas(t) == acked

\* commit_tree and update_ref succeed.
Commit(t) ==
  /\ pc[t] = "checked"
  /\ ~IsNoOp(t)
  /\ Len(tx[t].parent) < MaxCommits
  /\ \/ /\ tx[t].branchRef = NoRef
        /\ UNCHANGED refs
     \/ /\ tx[t].branchRef # NoRef
        /\ Cas(tx[t].branchRef, Expected(t))
        /\ refs' = [refs EXCEPT ![tx[t].branchRef] = NewCommit(t)]
  /\ acked' = acked \cup Ack(t)
  /\ Release(t)
  /\ UNCHANGED <<head, tx>>

\* The branch is not at the parent any more (or never was): CommitFailed.
\* The commit object stays behind, unreferenced.
CasFails(t) ==
  /\ pc[t] = "checked"
  /\ ~IsNoOp(t)
  /\ tx[t].branchRef # NoRef
  /\ ~Cas(tx[t].branchRef, Expected(t))
  /\ acked' = AckedByFailedCas(t)
  /\ Release(t)
  /\ UNCHANGED <<refs, head, tx>>

\* Writing the tree or the commit object, or the signature, fails.
CommitFails(t) ==
  /\ pc[t] = "checked"
  /\ Release(t)
  /\ UNCHANGED <<refs, head, tx, acked>>

Discard(t) ==
  /\ pc[t] = "open"
  /\ Release(t)
  /\ UNCHANGED <<refs, head, tx, acked>>

\* Drop runs after every return of finalize and discard, and takes the slot
\* out of the registry a second time, whoever holds it by then.
DropValue(t) ==
  /\ registry' = registry \ {ProcOf[t]}
  /\ pc' = [pc EXCEPT ![t] = "idle"]
  /\ tx' = [tx EXCEPT ![t] = NoTransaction]
  /\ UNCHANGED <<refs, head, acked>>

Drop(t) == pc[t] = "dropping" /\ DropValue(t)

\* A transaction the client forgets, or a panic, or the error of the re-check's
\* resolve_ref: only Drop runs.
Leak(t) == pc[t] = "open" /\ DropValue(t)

-----------------------------------------------------------------------------
(* The environment.                                                        *)

\* A process dies: its registry and its transactions were in its memory.
Crash(p) ==
  LET dead == {t \in Threads : ProcOf[t] = p}
  IN /\ \E t \in dead : pc[t] # "idle"
     /\ registry' = registry \ {p}
     /\ pc' = [t \in Threads |-> IF t \in dead THEN "idle" ELSE pc[t]]
     /\ tx' = [t \in Threads |-> IF t \in dead THEN NoTransaction ELSE tx[t]]
     /\ UNCHANGED <<refs, head, acked>>

\* Somebody commits with git, on the tip of a branch or on an unborn one.
GitCommit(b) ==
  /\ Len(refs[b]) < MaxCommits
  /\ \E tr \in Trees :
       refs' = [refs EXCEPT ![b] = Append(@, [tree |-> tr, by |-> Git])]
  /\ UNCHANGED <<head, registry, pc, tx, acked>>

\* Somebody checks out a branch, or detaches HEAD.
GitCheckout ==
  /\ \E h \in (Branches \cup {NoRef}) \ {head} : head' = h
  /\ UNCHANGED <<refs, registry, pc, tx, acked>>

ThreadStep(t) ==
  \/ Begin(t) \/ Resolve(t) \/ ResolveFails(t)
  \/ Stage(t)
  \/ FinalizeUnmutated(t) \/ Recheck(t) \/ ParentMoved(t)
  \/ FinalizeUnchanged(t) \/ Commit(t) \/ CasFails(t) \/ CommitFails(t)
  \/ Discard(t) \/ Drop(t) \/ Leak(t)

Next ==
  \/ \E t \in Threads : ThreadStep(t)
  \/ \E p \in Procs : Crash(p)
  \/ \E b \in Branches : GitCommit(b)
  \/ GitCheckout

Spec == Init /\ [][Next]_vars

-----------------------------------------------------------------------------
(* Properties.                                                             *)

\* Every variable stays within its type.
TypeOK ==
  /\ refs \in [Branches -> Commits]
  /\ head \in Branches \cup {NoRef}
  /\ registry \subseteq Procs
  /\ pc \in [Threads -> Places]
  /\ tx \in [Threads -> Transactions]
  /\ acked \subseteq Branches \X Commits

\* No path through begin, finalize, discard, an error or a panic leaves the
\* git directory registered with nobody left to take it out: the next begin
\* of the process would fail for ever.
NoOrphanedSlot ==
  \A p \in registry : \E t \in Threads : ProcOf[t] = p /\ pc[t] \in Owning

\* The history of a branch only ever grows: whatever two processes and git do
\* between a re-check and a CAS, no commit drops out of a branch.
HistoryOnlyGrows == [][\A b \in Branches : IsPrefix(refs[b], refs'[b])]_vars

\* A commit that finalize reported as committed on a branch is in that
\* branch's history from then on.
AckedCommitStays ==
  \A a \in acked : IsPrefix(a[2], refs[a[1]])

\* What a reader of transaction.rs:25-27 expects of the registry: one open
\* transaction per git directory in a process.
OneOpenPerProcess ==
  \A t, u \in Threads :
    (t # u /\ ProcOf[t] = ProcOf[u]) => ~(pc[t] \in Owning /\ pc[u] \in Owning)

\* The lifecycle implements RecordStore: a committed transaction replaces, in
\* one step, the contents it was computed from by its private tree; every
\* other end of a transaction changes nothing.
StoreView == [b \in Branches |-> TreeOf(refs[b])]
WorkView ==
  [t \in Threads |->
     IF pc[t] \in InFlight
     THEN [open |-> TRUE, snapshot |-> TreeOf(tx[t].parent),
           private |-> tx[t].root, target |-> tx[t].branchRef]
     ELSE [open |-> FALSE]]

Store == INSTANCE RecordStore WITH store <- StoreView, work <- WorkView

ImplementsStore == Store!StoreSpec

=============================================================================
