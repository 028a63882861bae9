------------------------------ MODULE Freshness ------------------------------
(***************************************************************************)
(* Read snapshots of standing sheets (packages/gitsheets/src/repository.ts *)
(* and sheet.ts): how a Repository hands them out, and how a commit or a   *)
(* refresh rebinds them.                                                   *)
(*                                                                         *)
(* HEAD's tree is numbered by the commit that made it, so a larger number  *)
(* is a newer tree.  Every operation resolves HEAD with a `git rev-parse`  *)
(* in a child process: reading HEAD and using what was read are separate   *)
(* steps, and other operations run in between.                             *)
(***************************************************************************)
EXTENDS Naturals

CONSTANTS Sheets,     \* Sheet instances the Repository can issue
          Ops,        \* asynchronous operations clients start
          Readers,    \* reads of standing sheets under way
          None,       \* nothing: not issued, not memoized, nobody
          OtherTree,  \* the tree of a commit on another branch
          MaxHead     \* bound on the number of commits

ASSUME ConstantsOK ==
  /\ None \notin Nat \cup Ops \cup Sheets
  /\ OtherTree \notin Nat \cup {None}
  /\ MaxHead \in Nat

VARIABLES head,     \* the tree of HEAD
          acked,    \* the last tree a transact of this Repository returned for HEAD
          lock,     \* the operation that holds the write lock
          readRef,  \* [Sheets -> its read snapshot, None before it is issued]
          config,   \* [Sheets -> the tree its memoized config comes from]
          read,     \* [Readers -> the read under way]
          op        \* [Ops -> the state of the operation]

vars == <<head, acked, lock, readRef, config, read, op>>

-----------------------------------------------------------------------------
Versions == 0 .. MaxHead
Snapshots == Versions \cup {OtherTree}

\* An operation under way.  on: the sheet it is for; base: HEAD when a
\* transaction began; result: the tree it committed; tree: what rev-parse resolved.
Operation == [kind : {"transact", "refresh", "refreshOne", "open"},
              at : {"begun", "committed", "resolving", "resolved"},
              on : Sheets \cup {None},
              base : Versions \cup {None},
              result : Snapshots \cup {None},
              tree : Snapshots \cup {None}]
Idle == [at |-> "idle"]

\* A read that has called readConfig on a sheet and not used the snapshot yet.
\* config: the tree the config comes from; rebound (history): the sheet has been
\* rebound to another tree since.
Read == [on : Sheets \cup {None}, config : Versions \cup {None}, rebound : BOOLEAN]
NoRead == [on |-> None, config |-> None, rebound |-> FALSE]

Start(o, kind, at, on, base) ==
  /\ op[o] = Idle
  /\ op' = [op EXCEPT ![o] = [kind |-> kind, at |-> at, on |-> on, base |-> base,
                              result |-> None, tree |-> None]]

End(o) == op' = [op EXCEPT ![o] = Idle]

At(o, kinds, at) == op[o].at = at /\ op[o].kind \in kinds

Issued == {s \in Sheets : readRef[s] # None}
Unclaimed ==
  (Sheets \ Issued) \ {op[o].on : o \in {p \in Ops : At(p, {"open"}, "resolving")
                                                     \/ At(p, {"open"}, "resolved")}}

Init ==
  /\ head = 0
  /\ acked = 0
  /\ lock = None
  /\ readRef \in [Sheets -> {0, None}]
  /\ config = [s \in Sheets |-> None]
  /\ read = [r \in Readers |-> NoRead]
  /\ op = [o \in Ops |-> Idle]

-----------------------------------------------------------------------------
(* Rebinding.                                                              *)

\* rebindReadTree of every sheet in S: nothing happens to a sheet that is
\* already on the tree; any other forgets its config.
ConfigAfterRebind_Kept(s, tree) == config[s]
ConfigAfterRebind(s, tree) == IF readRef[s] = tree THEN config[s] ELSE None

Rebind(S, tree) ==
  /\ readRef' = [s \in Sheets |-> IF s \in S THEN tree ELSE readRef[s]]
  /\ config' = [s \in Sheets |-> IF s \in S THEN ConfigAfterRebind(s, tree)
                                            ELSE config[s]]
  /\ read' = [r \in Readers |->
       IF read[r].on \in S /\ readRef[read[r].on] # tree
       THEN [read[r] EXCEPT !.rebound = TRUE] ELSE read[r]]

\* What a rebind after a commit resolves: HEAD, not the tree committed.
TreeToRebind_Result(o) == op[o].result
TreeToRebind(o) == head

-----------------------------------------------------------------------------
(* transact: the lock, a commit, a rebind of every live sheet.             *)

Transact(o) ==
  /\ lock = None
  /\ Start(o, "transact", "begun", None, head)
  /\ lock' = o
  /\ UNCHANGED <<head, acked, readRef, config, read>>

\* The handler throws, nothing changed, or finalize fails.
NoCommit(o) ==
  /\ At(o, {"transact"}, "begun")
  /\ End(o)
  /\ lock' = None
  /\ UNCHANGED <<head, acked, readRef, config, read>>

\* The lock is held until the sheets are rebound.
LockAfterCommit_Released == None
LockAfterCommit == lock

\* finalize commits on HEAD's branch, if that has not moved ...
CommitOnHead(o) ==
  /\ At(o, {"transact"}, "begun")
  /\ head = op[o].base
  /\ head < MaxHead
  /\ head' = head + 1
  /\ op' = [op EXCEPT ![o].at = "committed", ![o].result = head + 1]
  /\ lock' = LockAfterCommit
  /\ UNCHANGED <<acked, readRef, config, read>>

\* ... or on another one.
CommitElsewhere(o) ==
  /\ At(o, {"transact"}, "begun")
  /\ op' = [op EXCEPT ![o].at = "committed", ![o].result = OtherTree]
  /\ lock' = LockAfterCommit
  /\ UNCHANGED <<head, acked, readRef, config, read>>

ResolveAfterCommit(o) ==
  /\ At(o, {"transact"}, "committed")
  /\ op' = [op EXCEPT ![o].at = "resolved", ![o].tree = TreeToRebind(o)]
  /\ UNCHANGED <<head, acked, lock, readRef, config, read>>

\* Rebind, return the result, release the lock.
SheetsToRebind_Asked(o) == {s \in Issued : config[s] # None}
SheetsToRebind(o) == Issued

RebindAfterCommit(o) ==
  /\ At(o, {"transact"}, "resolved")
  /\ Rebind(SheetsToRebind(o), op[o].tree)
  /\ acked' = IF op[o].result = OtherTree THEN acked ELSE op[o].result
  /\ End(o)
  /\ lock' = None
  /\ UNCHANGED head

-----------------------------------------------------------------------------
(* refresh of the repository, or of one sheet; opening a sheet.            *)

Refresh(o) ==
  /\ \/ Start(o, "refresh", "resolving", None, None)
     \/ \E s \in Issued : Start(o, "refreshOne", "resolving", s, None)
  /\ UNCHANGED <<head, acked, lock, readRef, config, read>>

OpenSheet(o) ==
  /\ \E s \in Unclaimed : Start(o, "open", "resolving", s, None)
  /\ UNCHANGED <<head, acked, lock, readRef, config, read>>

Resolve(o) ==
  /\ At(o, {"refresh", "refreshOne", "open"}, "resolving")
  /\ op' = [op EXCEPT ![o].at = "resolved", ![o].tree = head]
  /\ UNCHANGED <<head, acked, lock, readRef, config, read>>

FinishRefresh(o) ==
  /\ At(o, {"refresh", "refreshOne"}, "resolved")
  /\ Rebind(IF op[o].kind = "refresh" THEN Issued ELSE {op[o].on}, op[o].tree)
  /\ End(o)
  /\ UNCHANGED <<head, acked, lock>>

\* The constructor registers the sheet with the Repository; its config is read
\* at once.
Construct(o) ==
  /\ At(o, {"open"}, "resolved")
  /\ readRef' = [readRef EXCEPT ![op[o].on] = op[o].tree]
  /\ config' = [config EXCEPT ![op[o].on] = op[o].tree]
  /\ End(o)
  /\ UNCHANGED <<head, acked, lock, read>>

\* A clone shares the snapshot of the original.
Clone(s, c) ==
  /\ s \in Issued /\ c \in Unclaimed
  /\ readRef' = [readRef EXCEPT ![c] = readRef[s]]
  /\ UNCHANGED <<head, acked, lock, config, read, op>>

(***************************************************************************)
(* Reads of a sheet (query, count, getAttachment).  Each awaits readConfig *)
(* and uses the snapshot afterwards: the config that it waits for is that  *)
(* of the snapshot at the call.                                            *)
(***************************************************************************)

\* readConfig: the memo, or the config of the snapshot, memoized.
ReadConfig(s) == IF config[s] = None THEN readRef[s] ELSE config[s]

BeginRead(r) ==
  /\ read[r] = NoRead
  /\ \E s \in Issued :
       /\ config' = [config EXCEPT ![s] = ReadConfig(s)]
       /\ read' = [read EXCEPT ![r] = [on |-> s, config |-> ReadConfig(s), rebound |-> FALSE]]
  /\ UNCHANGED <<head, acked, lock, readRef, op>>

\* The snapshot is read with that config; or the read failed, or was only of the
\* config.
FinishRead(r) ==
  /\ read[r] # NoRead
  /\ read' = [read EXCEPT ![r] = NoRead]
  /\ UNCHANGED <<head, acked, lock, readRef, config, op>>

-----------------------------------------------------------------------------
\* Another process commits, or a fetch moves the branch.
MoveHead ==
  /\ head < MaxHead
  /\ head' = head + 1
  /\ UNCHANGED <<acked, lock, readRef, config, read, op>>

OpStep(o) ==
  \/ Transact(o) \/ NoCommit(o) \/ CommitOnHead(o) \/ CommitElsewhere(o)
  \/ ResolveAfterCommit(o) \/ RebindAfterCommit(o)
  \/ Refresh(o) \/ OpenSheet(o) \/ Resolve(o) \/ FinishRefresh(o) \/ Construct(o)

Next ==
  \/ \E o \in Ops : OpStep(o)
  \/ \E r \in Readers : BeginRead(r) \/ FinishRead(r)
  \/ \E s, c \in Sheets : Clone(s, c)
  \/ MoveHead

Spec == Init /\ [][Next]_vars

-----------------------------------------------------------------------------
(* Properties.                                                             *)

\* Every variable stays within its type.
TypeOK ==
  /\ head \in Versions
  /\ acked \in Versions
  /\ lock \in Ops \cup {None}
  /\ readRef \in [Sheets -> Versions \cup {None}]
  /\ config \in [Sheets -> Versions \cup {None}]
  /\ read \in [Readers -> Read]
  /\ op \in [Ops -> Operation \cup {Idle}]

\* What a sheet memoizes is the config of its snapshot: every rebind that
\* changes the tree drops the memo.
ConfigIsTheSnapshots == \A s \in Sheets : config[s] \in {None, readRef[s]}

\* A read takes the config and the records of one tree (query, count,
\* getAttachment), unless its sheet is rebound to another tree while it waits
\* for the config.  Then it reads the records of the new tree with the config of
\* the old: freshness.md:84-88 lets a query capture its snapshot at the start.
ReadsUseOneTree ==
  [][\A r \in Readers :
       (read[r] # NoRead /\ read'[r] = NoRead /\ ~read[r].rebound)
         => read[r].config = readRef[read[r].on]]_vars

\* Standing sheets never leave HEAD's history: a commit on another branch does
\* not shift them.
SnapshotsAreHeads == \A s \in Issued : readRef[s] \in 0 .. head

\* Read-your-writes: at the moment transact returns its commit, every sheet the
\* Repository has issued by then reads a tree that holds it.
ReadYourWrites ==
  [][\A o \in Ops :
       (At(o, {"transact"}, "resolved") /\ op'[o] = Idle /\ op[o].result # OtherTree)
         => \A s \in Sheets : readRef'[s] # None => readRef'[s] >= op[o].result]_vars

\* Commits never undo each other's rebinding: a sheet that shows everything
\* committed so far stops doing so only through a refresh that resolved HEAD
\* too early.
CommitsKeepSheetsFresh ==
  [][(\E s \in Issued : readRef[s] >= acked /\ readRef'[s] < acked')
       => \E o \in Ops : FinishRefresh(o)]_vars

\* freshness.md:11-13: what this Repository has committed is visible to every
\* standing sheet it has issued.
StandingSheetsAreFresh == \A s \in Issued : readRef[s] >= acked

=============================================================================
