------------------------------ MODULE WriteLock ------------------------------
(***************************************************************************)
(* The write lock of the JS binding: the Mutex of                          *)
(* packages/gitsheets/src/transaction.ts and the two operations of         *)
(* repository.ts that take it, withLock and transact, with the guards that *)
(* keep an async context from waiting for itself.                          *)
(*                                                                         *)
(* A call of withLock or transact is made from an async context: from no   *)
(* handler at all, or from inside the handler of an earlier call.  The     *)
(* handler may await the call or leave it running, and work it left        *)
(* running keeps the handler's AsyncLocalStorage values after the handler  *)
(* has settled.  JavaScript runs one synchronous stretch at a time, so an  *)
(* action is what happens between two awaits.                              *)
(***************************************************************************)
EXTENDS Naturals, FiniteSets, Sequences

CONSTANTS Calls,  \* the calls of withLock and transact that get made
          Repos,  \* Repository instances
          Dirs,   \* git directories
          DirOf,  \* [Repos -> Dirs]
          Root,   \* an async context inside no handler
          None    \* undefined in an AsyncLocalStorage; nobody

ASSUME ConstantsOK ==
  /\ DirOf \in [Repos -> Dirs]
  /\ Root \notin Calls
  /\ None \notin Calls \cup Repos

VARIABLES at,        \* [Calls -> where the call is]
          kind,      \* [Calls -> which operation it is]
          repo,      \* [Calls -> the repository it is made on]
          inner,     \* [Calls -> lockContext and transactionContext in its handler]
          awaitedBy, \* [Calls -> the calls whose handlers wait for it]
          locked,    \* [Repos -> BOOLEAN]: Mutex.#locked
          queue,     \* [Repos -> Mutex.#queue]
          open       \* the directories in the core's registry

callVars == <<kind, repo, inner, awaitedBy>>
vars == <<at, callVars, locked, queue, open>>

-----------------------------------------------------------------------------
Contexts == [lock : Repos \cup {None}, tx : BOOLEAN]
NoContext == [lock |-> None, tx |-> FALSE]

\* unused; author: transact awaits resolveAuthor; queued: in the mutex's
\* queue; granted: its acquire has resolved, it has not resumed; running: in
\* the handler; closing: finalized, the live sheets being rebound; settled;
\* refused: a guard threw; failed: begin threw.
Places == {"unused", "author", "queued", "granted", "running", "closing",
           "settled", "refused", "failed"}
Holding == {"granted", "running", "closing"}
Entered == {"running", "closing", "settled"}   \* its handler was called
Ended == {"settled", "refused", "failed"}

Holds(c, r) == at[c] \in Holding /\ repo[c] = r

Init ==
  /\ at = [c \in Calls |-> "unused"]
  /\ kind = [c \in Calls |-> "lock"]
  /\ repo \in [Calls -> Repos]
  /\ inner = [c \in Calls |-> NoContext]
  /\ awaitedBy = [c \in Calls |-> {}]
  /\ locked = [r \in Repos |-> FALSE]
  /\ queue = [r \in Repos |-> <<>>]
  /\ open = {}

-----------------------------------------------------------------------------
(* The mutex.                                                              *)

\* acquire: an unlocked mutex is locked at once, a locked one queues.
Acquire(c, r) ==
  IF ~locked[r]
  THEN /\ locked' = [locked EXCEPT ![r] = TRUE]
       /\ at' = [at EXCEPT ![c] = "granted"]
       /\ UNCHANGED queue
  ELSE /\ queue' = [queue EXCEPT ![r] = Append(queue[r], c)]
       /\ at' = [at EXCEPT ![c] = "queued"]
       /\ UNCHANGED locked

\* #release hands the lock to the first in the queue without unlocking it.
NextInLine_Last(q) == q[Len(q)]
NextInLine(q) == Head(q)

StillLocked_Never(r) == FALSE
StillLocked_Always(r) == TRUE
StillLocked(r) == queue[r] # <<>>

\* The call c settles in place p and releases the lock of r.
Release(c, r, p) ==
  /\ locked' = [locked EXCEPT ![r] = StillLocked(r)]
  /\ IF queue[r] = <<>>
     THEN /\ at' = [at EXCEPT ![c] = p]
          /\ UNCHANGED queue
     ELSE /\ at' = [at EXCEPT ![c] = p, ![NextInLine(queue[r])] = "granted"]
          /\ queue' = [queue EXCEPT ![r] = Tail(queue[r])]

-----------------------------------------------------------------------------
(* Calling.                                                                *)

\* What the AsyncLocalStorages hold in the context a call is made from.
ContextOf(p) == IF p = Root THEN NoContext ELSE inner[p]

\* The context of the handler of p exists once the handler has been called;
\* only a handler that has not settled can wait for the new call.
CanCallFrom(p, awaited) ==
  \/ p = Root /\ ~awaited
  \/ p \in Calls /\ at[p] \in Entered /\ (awaited => at[p] = "running")

Made(c, p, k, r, awaited, context) ==
  /\ at[c] = "unused"
  /\ CanCallFrom(p, awaited)
  /\ kind' = [kind EXCEPT ![c] = k]
  /\ repo' = [repo EXCEPT ![c] = r]
  /\ inner' = [inner EXCEPT ![c] = context]
  /\ awaitedBy' = [awaitedBy EXCEPT
                     ![c] = IF awaited THEN {p} \cup awaitedBy[p] ELSE {}]
  /\ UNCHANGED open

\* The guards at the top of withLock and of transact.
LockRefused_TxOnly(context, r) == context.tx
LockRefused(context, r) == context.lock = r \/ context.tx
TransactRefused(context, r) == context.tx \/ context.lock = r

\* lockContext holds the Repository instance, not its directory.
LockKey_Dir(r) == DirOf[r]
LockKey(r) == r

\* withLock: refuse, or go straight for the mutex.
WithLock(c, p, r, awaited) ==
  /\ Made(c, p, "lock", r, awaited, [lock |-> LockKey(r), tx |-> ContextOf(p).tx])
  /\ IF LockRefused(ContextOf(p), r)
     THEN at' = [at EXCEPT ![c] = "refused"] /\ UNCHANGED <<locked, queue>>
     ELSE Acquire(c, r)

\* transact: refuse, or look for an author first.
Transact(c, p, r, awaited) ==
  /\ Made(c, p, "tx", r, awaited, [lock |-> ContextOf(p).lock, tx |-> TRUE])
  /\ at' = [at EXCEPT ![c] = IF TransactRefused(ContextOf(p), r)
                             THEN "refused" ELSE "author"]
  /\ UNCHANGED <<locked, queue>>

-----------------------------------------------------------------------------
(* Going on after an await.                                                *)

AuthorKnown(c) ==
  /\ at[c] = "author"
  /\ Acquire(c, repo[c])
  /\ UNCHANGED <<callVars, open>>

\* withLock resumes with the lock and calls fn.
Enter(c) ==
  /\ at[c] = "granted" /\ kind[c] = "lock"
  /\ at' = [at EXCEPT ![c] = "running"]
  /\ UNCHANGED <<callVars, locked, queue, open>>

\* transact resumes with the lock, begins the core transaction and calls the
\* handler.
Begin(c) ==
  /\ at[c] = "granted" /\ kind[c] = "tx"
  /\ DirOf[repo[c]] \notin open
  /\ open' = open \cup {DirOf[repo[c]]}
  /\ at' = [at EXCEPT ![c] = "running"]
  /\ UNCHANGED <<callVars, locked, queue>>

\* begin throws: another Repository has a transaction open on the directory,
\* or the parent does not resolve.
BeginFails(c) ==
  /\ at[c] = "granted" /\ kind[c] = "tx"
  /\ Release(c, repo[c], "failed")
  /\ UNCHANGED <<callVars, open>>

\* A handler cannot settle before what it awaits.
NothingAwaited(c) == \A d \in Calls : c \in awaitedBy[d] => at[d] \in Ended

\* fn returns or throws.
Leave(c) ==
  /\ at[c] = "running" /\ kind[c] = "lock"
  /\ NothingAwaited(c)
  /\ Release(c, repo[c], "settled")
  /\ UNCHANGED <<callVars, open>>

\* The handler throws: discard and release in one stretch.
Discard(c) ==
  /\ at[c] = "running" /\ kind[c] = "tx"
  /\ NothingAwaited(c)
  /\ open' = open \ {DirOf[repo[c]]}
  /\ Release(c, repo[c], "settled")
  /\ UNCHANGED callVars

\* The handler returns: the core transaction is finalized - it commits, finds
\* nothing to commit, or fails - and transact awaits.
SlotAfterFinalize_Kept(d) == open
SlotAfterFinalize(d) == open \ {d}

Finalize(c) ==
  /\ at[c] = "running" /\ kind[c] = "tx"
  /\ NothingAwaited(c)
  /\ open' = SlotAfterFinalize(DirOf[repo[c]])
  /\ at' = [at EXCEPT ![c] = "closing"]
  /\ UNCHANGED <<callVars, locked, queue>>

\* The result is in, and after a commit the sheets are rebound and the hooks
\* have run; the finally clause releases.
Close(c) ==
  /\ at[c] = "closing"
  /\ Release(c, repo[c], "settled")
  /\ UNCHANGED <<callVars, open>>

-----------------------------------------------------------------------------
Make(c) ==
  \E p \in Calls \cup {Root}, r \in Repos, awaited \in BOOLEAN :
    WithLock(c, p, r, awaited) \/ Transact(c, p, r, awaited)

\* What the event loop runs by itself.
Resume(c) == AuthorKnown(c) \/ Enter(c) \/ Begin(c) \/ BeginFails(c) \/ Close(c)
\* What the client's handler does in the end.
Settle(c) == Leave(c) \/ Discard(c) \/ Finalize(c)

Next == \E c \in Calls : Make(c) \/ Resume(c) \/ Settle(c)

Spec == Init /\ [][Next]_vars

\* The event loop resumes every promise that has resolved; handlers settle
\* once everything they await has.
Fairness == \A c \in Calls : WF_vars(Resume(c)) /\ WF_vars(Settle(c))

FairSpec == Spec /\ Fairness

-----------------------------------------------------------------------------
(* Properties.                                                             *)

\* Every variable stays within its type.
TypeOK ==
  /\ at \in [Calls -> Places]
  /\ kind \in [Calls -> {"lock", "tx"}]
  /\ repo \in [Calls -> Repos]
  /\ inner \in [Calls -> Contexts]
  /\ awaitedBy \in [Calls -> SUBSET Calls]
  /\ locked \in [Repos -> BOOLEAN]
  /\ queue \in [Repos -> Seq(Calls)]
  /\ open \subseteq Dirs

\* Whoever holds the lock of a Repository runs alone.
OneHolder ==
  \A r \in Repos : \A c, d \in Calls : Holds(c, r) /\ Holds(d, r) => c = d

\* No wake-up gets lost: a locked mutex has a holder that will release it (or
\* is about to resume with it), and nobody waits for an unlocked one.
NoLostWakeup ==
  \A r \in Repos :
    /\ locked[r] <=> \E c \in Calls : Holds(c, r)
    /\ queue[r] # <<>> => locked[r]

\* With one Repository per directory the queue hides the core's throwing
\* slot: when transact gets the lock, the slot is free.
SlotIsFree ==
  \A c \in Calls : at[c] = "granted" => DirOf[repo[c]] \notin open

\* repository.ts:227-229: no call waits for a lock that is held by a handler
\* that waits for the call; it is refused instead.
NoSelfDeadlock ==
  \A c \in Calls : at[c] = "queued" => \A h \in awaitedBy[c] : ~Holds(h, repo[c])

\* Each Repository's mutex is a first-come-first-served lock.
HolderOf(r) ==
  IF \E c \in Calls : Holds(c, r) THEN CHOOSE c \in Calls : Holds(c, r) ELSE None

Lock == INSTANCE FairLock WITH Locks <- Repos, line <- queue,
                               holder <- [r \in Repos |-> HolderOf(r)]

FirstComeFirstServed == Lock!LockSpec

\* Every call that queues gets the lock in the end.
Served == \A c \in Calls : at[c] = "queued" ~> at[c] = "granted"

=============================================================================
