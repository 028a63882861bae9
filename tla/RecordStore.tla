---------------------------- MODULE RecordStore ----------------------------
(***************************************************************************)
(* What the transaction layer of gitsheets promises, with no git in it:    *)
(* every branch holds a tree of records; a client opens a transaction on a *)
(* snapshot, edits a private copy, and either publishes the copy in one    *)
(* step - only while the branch still holds the snapshot it started from - *)
(* or goes away without a trace.                                           *)
(***************************************************************************)
CONSTANTS Threads,   \* clients that open transactions
          Branches,  \* names of branches
          Trees,     \* the contents a branch can have
          NoRef      \* the target of a transaction that advances no branch

VARIABLES store,     \* [Branches -> Trees]: the published contents
          work       \* [Threads -> OpenWork \cup {Closed}]

storeVars == <<store, work>>

Closed == [open |-> FALSE]
OpenWork == [open : {TRUE},
             snapshot : Trees,   \* the contents the transaction started from
             private : Trees,    \* its edited copy
             target : Branches \cup {NoRef}]

StoreInit ==
  /\ store \in [Branches -> Trees]
  /\ work = [t \in Threads |-> Closed]

\* A transaction starts as an unedited copy of its snapshot.
Open(t) ==
  /\ work[t] = Closed
  /\ \E w \in OpenWork :
        /\ w.private = w.snapshot
        /\ work' = [work EXCEPT ![t] = w]
  /\ UNCHANGED store

\* Editing changes nothing anyone else can see.
Edit(t) ==
  /\ work[t].open
  /\ \E w \in OpenWork :
        /\ w.snapshot = work[t].snapshot
        /\ w.target = work[t].target
        /\ work' = [work EXCEPT ![t] = w]
  /\ UNCHANGED store

\* Publication: all of the private copy at once, onto the contents it was
\* computed from.
Publish(t) ==
  /\ work[t].open
  /\ work[t].target # NoRef
  /\ store[work[t].target] = work[t].snapshot
  /\ store' = [store EXCEPT ![work[t].target] = work[t].private]
  /\ work' = [work EXCEPT ![t] = Closed]

\* Transactions end with no effect: no-op, failure, discard, or a crash of
\* the process that takes several along.
Vanish(S) ==
  /\ work' = [t \in Threads |-> IF t \in S THEN Closed ELSE work[t]]
  /\ UNCHANGED store

\* Somebody else commits: git itself, or another tool.
Outside(b) ==
  /\ \E tree \in Trees : store' = [store EXCEPT ![b] = tree]
  /\ UNCHANGED work

StoreNext ==
  \/ \E t \in Threads : Open(t) \/ Edit(t) \/ Publish(t)
  \/ \E S \in SUBSET Threads : Vanish(S)
  \/ \E b \in Branches : Outside(b)

StoreSpec == StoreInit /\ [][StoreNext]_storeVars

=============================================================================
