-------------------------- MODULE WriteLockProofs --------------------------
(***************************************************************************)
(* Proofs about WriteLock, for any number of calls and of Repositories:    *)
(* mutual exclusion, no lost wake-up, first come first served.             *)
(***************************************************************************)
EXTENDS WriteLock, SequenceTheorems, TLAPS

\* The queue of a Repository holds calls that wait for it, each of them once.
QueueIsWaiting ==
  \A r \in Repos : \A i \in 1 .. Len(queue[r]) :
    at[queue[r][i]] = "queued" /\ repo[queue[r][i]] = r

QueuedOnce ==
  \A r \in Repos : \A i, j \in 1 .. Len(queue[r]) :
    queue[r][i] = queue[r][j] => i = j

\* What the mutex keeps true of the calls, the flags and the queues.
MutexInv == OneHolder /\ NoLostWakeup /\ QueueIsWaiting /\ QueuedOnce

LockInv == TypeOK /\ MutexInv

MutexTypes == /\ at \in [Calls -> Places]
              /\ locked \in [Repos -> BOOLEAN]
              /\ queue \in [Repos -> Seq(Calls)]

-----------------------------------------------------------------------------
(* The steps of the mutex.                                                 *)

\* The head of a queue and the rest of it.
LEMMA QueueFacts ==
  ASSUME NEW q \in Seq(Calls), q # <<>>
  PROVE  /\ Head(q) \in Calls /\ Tail(q) \in Seq(Calls)
         /\ Len(q) \in Nat \ {0}
         /\ Head(q) = q[1]
         /\ Len(Tail(q)) = Len(q) - 1
         /\ \A i \in 1 .. Len(Tail(q)) : Tail(q)[i] = q[i + 1]
BY HeadTailProperties, EmptySeq, LenProperties

\* acquire keeps the mutex in order.
LEMMA AcquireStep ==
  ASSUME LockInv, NEW c \in Calls, NEW r \in Repos,
         at[c] \in {"unused", "author"},
         Acquire(c, r), repo' = [repo EXCEPT ![c] = r]
  PROVE  MutexInv' /\ MutexTypes'
<1> USE DEF LockInv, TypeOK, MutexInv, MutexTypes
<1> repo' \in [Calls -> Repos] /\ \A d \in Calls : d # c => repo'[d] = repo[d]
  OBVIOUS
<1>1. CASE ~locked[r]
  <2>1. /\ at' = [at EXCEPT ![c] = "granted"]
        /\ locked' = [locked EXCEPT ![r] = TRUE]
        /\ queue' = queue
    BY <1>1 DEF Acquire
  <2>2. \A d \in Calls, s \in Repos :
          (at'[d] \in Holding /\ repo'[d] = s) <=> (Holds(d, s) \/ (d = c /\ s = r))
    BY <2>1 DEF Holds, Holding
  <2>3. \A d \in Calls : ~Holds(d, r)
    BY <1>1 DEF NoLostWakeup
  <2>4. \A s \in Repos : \A i \in 1 .. Len(queue[s]) : queue[s][i] \in Calls
    BY ElementOfSeq
  <2>5. OneHolder'
    BY <2>2, <2>3 DEF OneHolder, Holds
  <2>6. NoLostWakeup'
    BY <2>1, <2>2 DEF NoLostWakeup, Holds
  <2>7. QueueIsWaiting'
    BY <2>1, <2>4 DEF QueueIsWaiting
  <2>8. QueuedOnce'
    BY <2>1 DEF QueuedOnce
  <2> QED BY <2>1, <2>5, <2>6, <2>7, <2>8 DEF Places
<1>2. CASE locked[r]
  <2>1. /\ at' = [at EXCEPT ![c] = "queued"]
        /\ queue' = [queue EXCEPT ![r] = Append(queue[r], c)]
        /\ locked' = locked
    BY <1>2 DEF Acquire
  <2>2. \A d \in Calls, s \in Repos : (at'[d] \in Holding /\ repo'[d] = s) <=> Holds(d, s)
    BY <2>1 DEF Holds, Holding
  <2>3. /\ Append(queue[r], c) \in Seq(Calls)
        /\ Len(queue[r]) \in Nat
        /\ Len(Append(queue[r], c)) = Len(queue[r]) + 1
        /\ \A i \in 1 .. Len(queue[r]) : Append(queue[r], c)[i] = queue[r][i]
        /\ Append(queue[r], c)[Len(queue[r]) + 1] = c
    BY AppendProperties, LenProperties
  <2>4. \A s \in Repos : \A i \in 1 .. Len(queue[s]) :
          queue[s][i] \in Calls /\ queue[s][i] # c
    BY ElementOfSeq DEF QueueIsWaiting
  <2>5. OneHolder' /\ NoLostWakeup'
    BY <1>2, <2>1, <2>2 DEF OneHolder, NoLostWakeup, Holds
  <2>6. QueueIsWaiting'
    <3> SUFFICES ASSUME NEW s \in Repos, NEW i \in 1 .. Len(queue'[s])
                 PROVE  at'[queue'[s][i]] = "queued" /\ repo'[queue'[s][i]] = s
      BY DEF QueueIsWaiting
    <3>1. CASE s # r
      BY <2>1, <2>4, <3>1 DEF QueueIsWaiting
    <3>2. CASE s = r /\ i = Len(queue[r]) + 1
      BY <2>1, <2>3, <3>2
    <3>3. CASE s = r /\ i \in 1 .. Len(queue[r])
      BY <2>1, <2>3, <2>4, <3>3 DEF QueueIsWaiting
    <3> QED BY <2>1, <2>3, <3>1, <3>2, <3>3
  <2>7. QueuedOnce'
    <3> SUFFICES ASSUME NEW s \in Repos, NEW i \in 1 .. Len(queue'[s]),
                        NEW j \in 1 .. Len(queue'[s]), queue'[s][i] = queue'[s][j]
                 PROVE  i = j
      BY DEF QueuedOnce
    <3>1. CASE s # r
      BY <2>1, <3>1 DEF QueuedOnce
    <3>2. CASE s = r
      <4>1. i \in 1 .. Len(queue[r]) + 1 /\ j \in 1 .. Len(queue[r]) + 1
        BY <2>1, <2>3, <3>2
      <4>2. \A k \in 1 .. Len(queue[r]) : queue'[s][k] = queue[r][k]
        BY <2>1, <2>3, <3>2
      <4>3. queue'[s][Len(queue[r]) + 1] = c
        BY <2>1, <2>3, <3>2
      <4>4. CASE i \in 1 .. Len(queue[r]) /\ j \in 1 .. Len(queue[r])
        <5>1. queue[r][i] = queue[r][j]
          BY <4>2, <4>4
        <5> QED BY <4>4, <5>1 DEF QueuedOnce
      <4>5. CASE i = Len(queue[r]) + 1 \/ j = Len(queue[r]) + 1
        <5>1. \A k \in 1 .. Len(queue[r]) : queue[r][k] # c
          BY <2>4
        <5>2. \A k \in 1 .. Len(queue[r]) : queue'[s][k] # c
          BY <4>2, <5>1
        <5>3. CASE i = Len(queue[r]) + 1
          <6>1. queue'[s][j] = c
            BY <4>3, <5>3
          <6>2. j \notin 1 .. Len(queue[r])
            BY <5>2, <6>1
          <6> QED BY <2>3, <4>1, <5>3, <6>2
        <5>4. CASE j = Len(queue[r]) + 1
          <6>1. queue'[s][i] = c
            BY <4>3, <5>4
          <6>2. i \notin 1 .. Len(queue[r])
            BY <5>2, <6>1
          <6> QED BY <2>3, <4>1, <5>4, <6>2
        <5> QED BY <4>5, <5>3, <5>4
      <4>6. Len(queue[r]) \in Nat
        BY <2>3
      <4>7. \A k \in 1 .. Len(queue[r]) + 1 :
              k \in 1 .. Len(queue[r]) \/ k = Len(queue[r]) + 1
        BY <4>6
      <4> QED BY <4>1, <4>4, <4>5, <4>7
    <3> QED BY <3>1, <3>2
  <2> QED BY <2>1, <2>3, <2>5, <2>6, <2>7 DEF Places
<1> QED BY <1>1, <1>2

\* #release keeps it in order, and passes the lock to a call that waits for it.
LEMMA ReleaseStep ==
  ASSUME LockInv, NEW c \in Calls, at[c] \in Holding, NEW p \in Ended,
         Release(c, repo[c], p), repo' = repo
  PROVE  MutexInv' /\ MutexTypes'
<1> USE DEF LockInv, TypeOK, MutexInv, MutexTypes
<1> DEFINE r == repo[c]
<1>0. r \in Repos /\ Holds(c, r) /\ \A d \in Calls : Holds(d, r) => d = c
  BY DEF OneHolder, Holds
<1>a. \A s \in Repos : \A i \in 1 .. Len(queue[s]) : queue[s][i] \in Calls
  BY ElementOfSeq
<1>p. p \notin Holding /\ p # "queued" /\ p \in Places
  BY DEF Ended, Holding, Places
<1>1. CASE queue[r] = <<>>
  <2>1. /\ at' = [at EXCEPT ![c] = p]
        /\ locked' = [locked EXCEPT ![r] = FALSE]
        /\ queue' = queue
    BY <1>1, <1>0 DEF Release, StillLocked
  <2>2. \A d \in Calls, s \in Repos : (at'[d] \in Holding /\ repo'[d] = s) <=> (Holds(d, s) /\ d # c)
    BY <2>1, <1>p DEF Holds
  <2>3. \A s \in Repos : s # r => ~Holds(c, s)
    BY DEF Holds
  <2>4. OneHolder' /\ NoLostWakeup'
    BY <1>0, <1>1, <2>1, <2>2, <2>3 DEF OneHolder, NoLostWakeup, Holds
  <2>5. QueueIsWaiting' /\ QueuedOnce'
    BY <1>a, <2>1 DEF QueueIsWaiting, QueuedOnce, Holding
  <2> QED BY <1>p, <2>1, <2>4, <2>5
<1>2. CASE queue[r] # <<>>
  <2> DEFINE n == Head(queue[r])
  <2>1. /\ n \in Calls /\ Tail(queue[r]) \in Seq(Calls)
        /\ Len(queue[r]) \in Nat \ {0}
        /\ n = queue[r][1]
        /\ Len(Tail(queue[r])) = Len(queue[r]) - 1
        /\ \A i \in 1 .. Len(Tail(queue[r])) : Tail(queue[r])[i] = queue[r][i + 1]
    BY <1>0, <1>2, QueueFacts
  <2>2. /\ at' = [at EXCEPT ![c] = p, ![n] = "granted"]
        /\ locked' = [locked EXCEPT ![r] = TRUE]
        /\ queue' = [queue EXCEPT ![r] = Tail(queue[r])]
    BY <1>2, <1>0 DEF Release, StillLocked, NextInLine
  <2>3. at[n] = "queued" /\ repo[n] = r /\ n # c
    BY <1>0, <2>1 DEF QueueIsWaiting, Holding
  <2>4. \A d \in Calls : at'[d] = IF d = n THEN "granted" ELSE IF d = c THEN p ELSE at[d]
    BY <2>1, <2>2, <2>3
  <2>5. \A d \in Calls, s \in Repos :
          (at'[d] \in Holding /\ repo'[d] = s) <=> ((Holds(d, s) /\ d # c) \/ (d = n /\ s = r))
    BY <1>p, <2>1, <2>3, <2>4 DEF Holds, Holding
  <2>6. \A s \in Repos : s # r => ~Holds(c, s)
    BY DEF Holds
  <2>7. OneHolder'
    <3> SUFFICES ASSUME NEW s \in Repos, NEW d \in Calls, NEW e \in Calls,
                        at'[d] \in Holding, repo'[d] = s,
                        at'[e] \in Holding, repo'[e] = s
                 PROVE  d = e
      BY DEF OneHolder, Holds
    <3>1. CASE s = r
      BY <1>0, <2>5, <3>1
    <3>2. CASE s # r
      BY <2>5, <3>2 DEF OneHolder
    <3> QED BY <3>1, <3>2
  <2>8. NoLostWakeup'
    <3> SUFFICES ASSUME NEW s \in Repos
                 PROVE  /\ locked'[s] <=> \E d \in Calls : at'[d] \in Holding /\ repo'[d] = s
                        /\ queue'[s] # <<>> => locked'[s]
      BY DEF NoLostWakeup, Holds
    <3>1. CASE s = r
      BY <1>0, <2>1, <2>2, <2>5, <3>1
    <3>2. CASE s # r
      <4>1. locked'[s] = locked[s] /\ queue'[s] = queue[s]
        BY <1>0, <2>2, <3>2
      <4>2. \A d \in Calls : (at'[d] \in Holding /\ repo'[d] = s) <=> Holds(d, s)
        BY <2>5, <2>6, <3>2
      <4> QED BY <4>1, <4>2 DEF NoLostWakeup
    <3> QED BY <3>1, <3>2
  <2>9. QueueIsWaiting'
    <3> SUFFICES ASSUME NEW s \in Repos, NEW i \in 1 .. Len(queue'[s])
                 PROVE  at'[queue'[s][i]] = "queued" /\ repo'[queue'[s][i]] = s
      BY DEF QueueIsWaiting
    <3>1. CASE s # r
      <4>1. /\ queue'[s][i] \in Calls /\ at[queue'[s][i]] = "queued"
            /\ repo[queue'[s][i]] = s
        BY <1>0, <1>a, <2>2, <3>1 DEF QueueIsWaiting
      <4> QED BY <2>3, <2>4, <3>1, <4>1 DEF Holding
    <3>2. CASE s = r
      <4>1. i + 1 \in 1 .. Len(queue[r]) /\ queue'[s][i] = queue[r][i + 1] /\ i + 1 # 1
        BY <1>0, <2>1, <2>2, <3>2
      <4>2. queue[r][i + 1] \in Calls /\ queue[r][i + 1] # n
        BY <1>0, <1>a, <2>1, <4>1 DEF QueuedOnce
      <4>3. at[queue[r][i + 1]] = "queued" /\ repo[queue[r][i + 1]] = r
        BY <1>0, <4>1 DEF QueueIsWaiting
      <4> QED BY <2>4, <3>2, <4>1, <4>2, <4>3 DEF Holding
    <3> QED BY <3>1, <3>2
  <2>10. QueuedOnce'
    <3> SUFFICES ASSUME NEW s \in Repos, NEW i \in 1 .. Len(queue'[s]),
                        NEW j \in 1 .. Len(queue'[s]), queue'[s][i] = queue'[s][j]
                 PROVE  i = j
      BY DEF QueuedOnce
    <3>1. CASE s # r
      BY <1>0, <2>2, <3>1 DEF QueuedOnce
    <3>2. CASE s = r
      <4>1. /\ i + 1 \in 1 .. Len(queue[r]) /\ queue'[s][i] = queue[r][i + 1]
            /\ j + 1 \in 1 .. Len(queue[r]) /\ queue'[s][j] = queue[r][j + 1]
        BY <1>0, <2>1, <2>2, <3>2
      <4>2. i + 1 = j + 1
        BY <1>0, <4>1 DEF QueuedOnce
      <4> QED BY <2>1, <2>2, <4>2, <1>0, <3>2
    <3> QED BY <3>1, <3>2
  <2> QED BY <1>0, <1>p, <2>1, <2>2, <2>4, <2>7, <2>8, <2>9, <2>10 DEF Places
<1> QED BY <1>1, <1>2

\* A call moves on without touching the mutex.
LEMMA QuietStep ==
  ASSUME LockInv, NEW c \in Calls, NEW p \in Places \ {"queued"}, at[c] # "queued",
         p \in Holding <=> at[c] \in Holding,
         at' = [at EXCEPT ![c] = p], UNCHANGED <<locked, queue>>,
         repo' \in [Calls -> Repos],
         \A d \in Calls : repo'[d] = repo[d] \/ (d = c /\ at[c] \notin Holding)
  PROVE  MutexInv' /\ MutexTypes'
<1> USE DEF LockInv, TypeOK, MutexInv, MutexTypes
<1>1. \A d \in Calls, s \in Repos : (at'[d] \in Holding /\ repo'[d] = s) <=> Holds(d, s)
  BY DEF Holds
<1>2. \A s \in Repos : \A i \in 1 .. Len(queue[s]) :
        queue[s][i] \in Calls /\ queue[s][i] # c
  BY ElementOfSeq DEF QueueIsWaiting
<1>3. OneHolder' /\ NoLostWakeup'
  BY <1>1 DEF OneHolder, NoLostWakeup, Holds
<1>4. QueueIsWaiting' /\ QueuedOnce'
  BY <1>2 DEF QueueIsWaiting, QueuedOnce
<1> QED BY <1>3, <1>4

-----------------------------------------------------------------------------
(* The invariant.                                                          *)

LEMMA LockInvInit == Init => LockInv
<1> SUFFICES ASSUME Init PROVE LockInv
  OBVIOUS
<1>1. TypeOK
  BY EmptySeq DEF Init, TypeOK, Places, Contexts, NoContext
<1>2. \A r \in Repos : queue[r] = <<>> /\ Len(queue[r]) = 0 /\ ~locked[r]
  BY EmptySeq DEF Init
<1>3. \A c \in Calls, r \in Repos : ~Holds(c, r)
  BY DEF Init, Holds, Holding
<1> QED BY <1>1, <1>2, <1>3 DEF LockInv, MutexInv, OneHolder, NoLostWakeup,
                                QueueIsWaiting, QueuedOnce

\* What a new call records of its context is well-typed.
CallTypes == /\ kind \in [Calls -> {"lock", "tx"}]
             /\ repo \in [Calls -> Repos]
             /\ inner \in [Calls -> Contexts]
             /\ awaitedBy \in [Calls -> SUBSET Calls]
             /\ open \subseteq Dirs

LEMMA MadeTypes ==
  ASSUME TypeOK, NEW c \in Calls, NEW p \in Calls \cup {Root},
         NEW k \in {"lock", "tx"}, NEW r \in Repos, NEW awaited \in BOOLEAN,
         NEW context \in Contexts, Made(c, p, k, r, awaited, context)
  PROVE  CallTypes'
<1>1. awaited => p \in Calls /\ awaitedBy[p] \subseteq Calls
  BY DEF Made, CanCallFrom, TypeOK
<1> QED BY <1>1 DEF Made, TypeOK, CallTypes

LEMMA ContextTypes ==
  ASSUME TypeOK, NEW p \in Calls \cup {Root}
  PROVE  ContextOf(p) \in Contexts
BY DEF TypeOK, ContextOf, NoContext, Contexts

LEMMA MakeStep ==
  ASSUME LockInv, NEW c \in Calls, Make(c)
  PROVE  LockInv'
<1> PICK p \in Calls \cup {Root}, r \in Repos, awaited \in BOOLEAN :
      WithLock(c, p, r, awaited) \/ Transact(c, p, r, awaited)
  BY DEF Make
<1>0. ContextOf(p) \in Contexts
  BY ContextTypes DEF LockInv
<1>1. CASE WithLock(c, p, r, awaited)
  <2> DEFINE context == [lock |-> LockKey(r), tx |-> ContextOf(p).tx]
  <2>1. context \in Contexts /\ Made(c, p, "lock", r, awaited, context)
    BY <1>0, <1>1 DEF WithLock, LockKey, Contexts
  <2>2. at[c] = "unused" /\ repo' = [repo EXCEPT ![c] = r]
    BY <2>1 DEF Made
  <2>3. MutexInv' /\ MutexTypes'
    <3>1. CASE LockRefused(ContextOf(p), r)
      <4>1. at' = [at EXCEPT ![c] = "refused"] /\ UNCHANGED <<locked, queue>>
        BY <1>1, <3>1 DEF WithLock
      <4> QED BY <2>2, <4>1, QuietStep DEF LockInv, TypeOK, Places, Holding
    <3>2. CASE ~LockRefused(ContextOf(p), r)
      <4>1. Acquire(c, r)
        BY <1>1, <3>2 DEF WithLock
      <4> QED BY <2>2, <4>1, AcquireStep
    <3> QED BY <3>1, <3>2
  <2> HIDE DEF context
  <2>6. CallTypes'
    BY <2>1, MadeTypes DEF LockInv
  <2> QED BY <2>3, <2>6 DEF LockInv, TypeOK, MutexTypes, CallTypes
<1>2. CASE Transact(c, p, r, awaited)
  <2> DEFINE context == [lock |-> ContextOf(p).lock, tx |-> TRUE]
  <2>1. context \in Contexts /\ Made(c, p, "tx", r, awaited, context)
    BY <1>0, <1>2 DEF Transact, Contexts
  <2>2. at[c] = "unused" /\ repo' = [repo EXCEPT ![c] = r]
    BY <2>1 DEF Made
  <2>3. PICK place \in {"refused", "author"} : at' = [at EXCEPT ![c] = place]
    BY <1>2 DEF Transact
  <2>4. UNCHANGED <<locked, queue>>
    BY <1>2 DEF Transact
  <2>5. MutexInv' /\ MutexTypes'
    BY <2>2, <2>3, <2>4, QuietStep DEF LockInv, TypeOK, Places, Holding
  <2> HIDE DEF context
  <2>6. CallTypes'
    BY <2>1, MadeTypes DEF LockInv
  <2> QED BY <2>5, <2>6 DEF LockInv, TypeOK, MutexTypes, CallTypes
<1> QED BY <1>1, <1>2

LEMMA GoOnStep ==
  ASSUME LockInv, NEW c \in Calls, Resume(c) \/ Settle(c)
  PROVE  LockInv'
<1>0. UNCHANGED callVars
  BY DEF Resume, Settle, AuthorKnown, Enter, Begin, BeginFails, Close, Leave,
         Discard, Finalize
<1>1. open' \subseteq Dirs
  BY ConstantsOK DEF LockInv, TypeOK, Resume, Settle, AuthorKnown, Enter, Begin,
     BeginFails, Close, Leave, Discard, Finalize, SlotAfterFinalize, callVars
<1>2. repo' = repo /\ repo \in [Calls -> Repos] /\ at \in [Calls -> Places]
  BY <1>0 DEF callVars, LockInv, TypeOK
<1>3. MutexInv' /\ MutexTypes'
  <2>1. CASE AuthorKnown(c)
    BY <1>2, <2>1, AcquireStep DEF AuthorKnown
  <2>2. CASE Enter(c)
    BY <1>2, <2>2, QuietStep DEF Enter, Places, Holding
  <2>3. CASE Begin(c)
    BY <1>2, <2>3, QuietStep DEF Begin, Places, Holding
  <2>4. CASE BeginFails(c)
    BY <1>2, <2>4, ReleaseStep DEF BeginFails, Ended, Holding
  <2>5. CASE Leave(c)
    BY <1>2, <2>5, ReleaseStep DEF Leave, Ended, Holding
  <2>6. CASE Discard(c)
    BY <1>2, <2>6, ReleaseStep DEF Discard, Ended, Holding
  <2>7. CASE Finalize(c)
    BY <1>2, <2>7, QuietStep DEF Finalize, Places, Holding
  <2>8. CASE Close(c)
    BY <1>2, <2>8, ReleaseStep DEF Close, Ended, Holding
  <2> QED BY <2>1, <2>2, <2>3, <2>4, <2>5, <2>6, <2>7, <2>8 DEF Resume, Settle
<1> QED BY <1>0, <1>1, <1>3 DEF LockInv, TypeOK, MutexTypes, callVars

LEMMA LockInvStep == LockInv /\ [Next]_vars => LockInv'
<1> SUFFICES ASSUME LockInv, [Next]_vars PROVE LockInv'
  OBVIOUS
<1>1. CASE Next
  BY <1>1, MakeStep, GoOnStep DEF Next
<1>2. CASE UNCHANGED vars
  BY <1>2 DEF vars, callVars, LockInv, TypeOK, MutexInv, OneHolder, NoLostWakeup,
              QueueIsWaiting, QueuedOnce, Holds
<1> QED BY <1>1, <1>2

\* The invariant holds in every reachable state.
THEOREM LockInvariant == Spec => []LockInv
BY LockInvInit, LockInvStep, PTL DEF Spec

\* Every variable of the write lock stays within its type.
THEOREM TypeCorrect == Spec => []TypeOK
<1>1. LockInv => TypeOK
  BY DEF LockInv
<1> QED BY <1>1, LockInvariant, PTL

\* The Mutex of transaction.ts excludes: of all the calls of withLock and
\* transact on a Repository, at most one is past its acquire and not yet past
\* its release.
THEOREM MutualExclusion == Spec => []OneHolder
<1>1. LockInv => OneHolder
  BY DEF LockInv, MutexInv
<1> QED BY <1>1, LockInvariant, PTL

\* The Mutex loses no wake-up: it is locked exactly while a call holds it, and
\* a call waits only while it is locked.
THEOREM WakeUpsAreKept == Spec => []NoLostWakeup
<1>1. LockInv => NoLostWakeup
  BY DEF LockInv, MutexInv
<1> QED BY <1>1, LockInvariant, PTL

-----------------------------------------------------------------------------
(* The slot of the core's registry.                                        *)

OneRepoPerDir == \A r, s \in Repos : DirOf[r] = DirOf[s] => r = s

\* Whatever is open was opened by a transact whose handler still runs.
OpenHasRunner ==
  \A d \in open : \E c \in Calls :
    at[c] = "running" /\ kind[c] = "tx" /\ DirOf[repo[c]] = d

\* A release moves its own call and at most one that was waiting.
LEMMA ReleaseMoves ==
  ASSUME LockInv, NEW c \in Calls, at[c] \in Holding, NEW p \in Ended,
         Release(c, repo[c], p)
  PROVE  \A e \in Calls : e # c /\ at[e] = "running" => at'[e] = "running"
<1>1. repo[c] \in Repos /\ queue[repo[c]] \in Seq(Calls)
  BY DEF LockInv, TypeOK
<1>2. CASE queue[repo[c]] = <<>>
  BY <1>2 DEF Release, LockInv, TypeOK
<1>3. CASE queue[repo[c]] # <<>>
  <2>1. /\ Head(queue[repo[c]]) \in Calls
        /\ Head(queue[repo[c]]) = queue[repo[c]][1]
        /\ Len(queue[repo[c]]) \in Nat \ {0}
    BY <1>1, <1>3, QueueFacts
  <2>2. at[Head(queue[repo[c]])] = "queued"
    BY <1>1, <2>1 DEF LockInv, MutexInv, QueueIsWaiting
  <2> QED BY <1>3, <2>1, <2>2 DEF Release, NextInLine, LockInv, TypeOK
<1> QED BY <1>2, <1>3

LEMMA OpenHasRunnerStep ==
  ASSUME LockInv, OpenHasRunner, [Next]_vars
  PROVE  OpenHasRunner'
<1>1. ASSUME NEW c \in Calls, Make(c)
      PROVE  OpenHasRunner'
  <2>1. /\ at[c] = "unused" /\ open' = open
        /\ \A e \in Calls : e # c => kind'[e] = kind[e] /\ repo'[e] = repo[e]
    BY <1>1 DEF Make, WithLock, Transact, Made, LockInv, TypeOK
  <2>2. \A e \in Calls : e # c => at'[e] = at[e]
    BY <1>1 DEF Make, WithLock, Transact, Acquire, LockInv, TypeOK
  <2> QED BY <2>1, <2>2 DEF OpenHasRunner
<1>2. ASSUME NEW c \in Calls, Resume(c) \/ Settle(c)
      PROVE  OpenHasRunner'
  <2>0. kind' = kind /\ repo' = repo
    BY <1>2 DEF Resume, Settle, AuthorKnown, Enter, Begin, BeginFails, Close,
                Leave, Discard, Finalize, callVars
  <2> SUFFICES ASSUME NEW d \in open'
               PROVE  \E e \in Calls : /\ at'[e] = "running" /\ kind[e] = "tx"
                                       /\ DirOf[repo[e]] = d
    BY <2>0 DEF OpenHasRunner
  <2>1. CASE AuthorKnown(c)
    <3>1. d \in open /\ at[c] = "author" /\ \A e \in Calls : e # c => at'[e] = at[e]
      BY <2>1 DEF AuthorKnown, Acquire, LockInv, TypeOK
    <3> QED BY <3>1 DEF OpenHasRunner
  <2>2. CASE Enter(c)
    BY <2>2 DEF Enter, OpenHasRunner, LockInv, TypeOK
  <2>3. CASE Begin(c)
    <3>1. CASE d \in open
      BY <2>3, <3>1 DEF Begin, OpenHasRunner, LockInv, TypeOK
    <3>2. CASE d \notin open
      BY <2>3, <3>2 DEF Begin, LockInv, TypeOK
    <3> QED BY <3>1, <3>2
  <2>4. CASE BeginFails(c) \/ Leave(c) \/ Discard(c) \/ Close(c)
    <3>1. /\ at[c] \in Holding /\ Release(c, repo[c], IF BeginFails(c) THEN "failed" ELSE "settled")
          /\ d \in open
          /\ at[c] = "running" /\ kind[c] = "tx" => d # DirOf[repo[c]]
      BY <2>4 DEF BeginFails, Leave, Discard, Close, Holding
    <3>2. \A e \in Calls : e # c /\ at[e] = "running" => at'[e] = "running"
      BY <3>1, ReleaseMoves DEF Ended
    <3>3. PICK e \in Calls : at[e] = "running" /\ kind[e] = "tx" /\ DirOf[repo[e]] = d
      BY <3>1 DEF OpenHasRunner
    <3> QED BY <3>1, <3>2, <3>3
  <2>5. CASE Finalize(c)
    BY <2>5 DEF Finalize, SlotAfterFinalize, OpenHasRunner, LockInv, TypeOK
  <2> QED BY <1>2, <2>1, <2>2, <2>3, <2>4, <2>5 DEF Resume, Settle
<1>3. CASE UNCHANGED vars
  BY <1>3 DEF vars, callVars, OpenHasRunner
<1> QED BY <1>1, <1>2, <1>3 DEF Next

\* With one Repository per git directory, the slot of the core's registry is
\* free whenever a call has been granted the lock: a transact that has waited
\* in the Mutex never meets the core's "transaction in progress".
THEOREM QueueHidesSlot ==
  ASSUME OneRepoPerDir
  PROVE  Spec => []SlotIsFree
<1>1. Init => OpenHasRunner
  BY DEF Init, OpenHasRunner
<1>2. LockInv /\ OpenHasRunner /\ [Next]_vars => OpenHasRunner'
  BY OpenHasRunnerStep
<1>3. LockInv /\ OpenHasRunner => SlotIsFree
  <2> SUFFICES ASSUME LockInv, OpenHasRunner, NEW c \in Calls,
                      at[c] = "granted", DirOf[repo[c]] \in open
               PROVE  FALSE
    BY DEF SlotIsFree
  <2>1. PICK e \in Calls : at[e] = "running" /\ DirOf[repo[e]] = DirOf[repo[c]]
    BY DEF OpenHasRunner
  <2>2. repo[c] \in Repos /\ repo[e] = repo[c]
    BY <2>1 DEF OneRepoPerDir, LockInv, TypeOK
  <2>3. Holds(c, repo[c]) /\ Holds(e, repo[c])
    BY <2>1, <2>2 DEF Holds, Holding
  <2>4. c = e
    BY <2>2, <2>3 DEF LockInv, MutexInv, OneHolder
  <2> QED BY <2>1, <2>4
<1> QED BY <1>1, <1>2, <1>3, LockInvariant, PTL DEF Spec

-----------------------------------------------------------------------------
(* Self-deadlock.                                                          *)

\* In the handler of a call the AsyncLocalStorages tell of that call.
ContextTells ==
  \A c \in Calls : at[c] # "unused" =>
    (kind[c] = "lock" /\ inner[c].lock = repo[c]) \/ (kind[c] = "tx" /\ inner[c].tx)

\* With a single Repository, a call that its maker awaits is refused.
AwaitedIsRefused ==
  \A c \in Calls : at[c] \notin {"unused", "refused"} => awaitedBy[c] = {}

DeadlockInv == ContextTells /\ AwaitedIsRefused

LEMMA DeadlockInvMake ==
  ASSUME \A r, s \in Repos : r = s, LockInv, DeadlockInv, NEW c \in Calls, Make(c)
  PROVE  DeadlockInv'
<1> USE DEF LockInv, TypeOK, DeadlockInv
<1> PICK p \in Calls \cup {Root}, r \in Repos, awaited \in BOOLEAN :
      WithLock(c, p, r, awaited) \/ Transact(c, p, r, awaited)
  BY DEF Make
<1>0. \A e \in Calls : e # c => at'[e] = at[e]
  BY DEF WithLock, Transact, Acquire
<1>1. PICK k \in {"lock", "tx"}, context \in Contexts :
        /\ Made(c, p, k, r, awaited, context)
        /\ (k = "lock" /\ context.lock = r) \/ (k = "tx" /\ context.tx)
  <2>1. ContextOf(p) \in Contexts
    BY ContextTypes
  <2>2. CASE WithLock(c, p, r, awaited)
    <3> DEFINE context == [lock |-> LockKey(r), tx |-> ContextOf(p).tx]
    <3>1. context \in Contexts /\ context.lock = r
      BY <2>1 DEF Contexts, LockKey
    <3>2. Made(c, p, "lock", r, awaited, context)
      BY <2>2 DEF WithLock
    <3> QED BY <3>1, <3>2
  <2>3. CASE Transact(c, p, r, awaited)
    <3> DEFINE context == [lock |-> ContextOf(p).lock, tx |-> TRUE]
    <3>1. context \in Contexts /\ context.tx
      BY <2>1 DEF Contexts
    <3>2. Made(c, p, "tx", r, awaited, context)
      BY <2>3 DEF Transact
    <3> QED BY <3>1, <3>2
  <2> QED BY <2>2, <2>3
<1>2. ContextTells'
  BY <1>0, <1>1 DEF ContextTells, Made
<1>3. CASE ~awaited
  <2>1. awaitedBy' = [awaitedBy EXCEPT ![c] = {}]
    BY <1>1, <1>3 DEF Made
  <2> QED BY <1>0, <1>2, <2>1 DEF AwaitedIsRefused
<1>4. CASE awaited
  <2>1. p \in Calls /\ at[p] = "running" /\ p # Root
    BY <1>1, <1>4, ConstantsOK DEF Made, CanCallFrom
  <2>2. ContextOf(p).lock = r \/ ContextOf(p).tx
    BY <2>1 DEF ContextTells, ContextOf
  <2>3. at' = [at EXCEPT ![c] = "refused"]
    BY <2>2 DEF WithLock, Transact, LockRefused, TransactRefused
  <2> QED BY <1>0, <1>1, <1>2, <2>3 DEF AwaitedIsRefused, Made
<1> QED BY <1>2, <1>3, <1>4

\* No call goes on before it is made, or after it is refused.
LEMMA GoOnPlaces ==
  ASSUME LockInv, NEW c \in Calls, Resume(c) \/ Settle(c)
  PROVE  \A e \in Calls :
           /\ at'[e] # "unused" => at[e] # "unused"
           /\ at'[e] \notin {"unused", "refused"}
                => at[e] \notin {"unused", "refused"}
<1>1. CASE AuthorKnown(c)
  BY <1>1 DEF AuthorKnown, Acquire, LockInv, TypeOK
<1>2. CASE Enter(c) \/ Begin(c) \/ Finalize(c)
  BY <1>2 DEF Enter, Begin, Finalize, LockInv, TypeOK
<1>3. CASE BeginFails(c) \/ Leave(c) \/ Discard(c) \/ Close(c)
  <2>1. PICK p \in Ended \ {"refused"} : Release(c, repo[c], p)
    BY <1>3 DEF BeginFails, Leave, Discard, Close, Ended
  <2>2. at[c] \in Holding /\ repo[c] \in Repos /\ queue[repo[c]] \in Seq(Calls)
    BY <1>3 DEF BeginFails, Leave, Discard, Close, Holding, LockInv, TypeOK
  <2>3. CASE queue[repo[c]] = <<>>
    BY <2>1, <2>2, <2>3 DEF Release, LockInv, TypeOK, Holding
  <2>4. CASE queue[repo[c]] # <<>>
    <3>1. /\ Head(queue[repo[c]]) \in Calls
          /\ Head(queue[repo[c]]) = queue[repo[c]][1]
          /\ Len(queue[repo[c]]) \in Nat \ {0}
      BY <2>2, <2>4, QueueFacts
    <3>2. at[Head(queue[repo[c]])] = "queued"
      BY <2>2, <3>1 DEF LockInv, MutexInv, QueueIsWaiting
    <3> QED BY <2>1, <2>2, <2>4, <3>1, <3>2 DEF Release, NextInLine, LockInv, TypeOK, Holding
  <2> QED BY <2>3, <2>4
<1> QED BY <1>1, <1>2, <1>3 DEF Resume, Settle

\* With a single Repository no call waits for a lock that is held by a handler
\* that waits for the call: the guards of withLock and transact refuse it.
THEOREM NoSelfDeadlockOnOneRepo ==
  ASSUME \A r, s \in Repos : r = s
  PROVE  Spec => []NoSelfDeadlock
<1>1. Init => DeadlockInv
  BY DEF Init, DeadlockInv, ContextTells, AwaitedIsRefused
<1>2. LockInv /\ DeadlockInv /\ [Next]_vars => DeadlockInv'
  <2> SUFFICES ASSUME LockInv, DeadlockInv, [Next]_vars PROVE DeadlockInv'
    OBVIOUS
  <2>1. ASSUME NEW c \in Calls, Make(c) PROVE DeadlockInv'
    BY <2>1, DeadlockInvMake
  <2>2. ASSUME NEW c \in Calls, Resume(c) \/ Settle(c) PROVE DeadlockInv'
    <3>1. UNCHANGED callVars
      BY <2>2 DEF Resume, Settle, AuthorKnown, Enter, Begin, BeginFails, Close,
                  Leave, Discard, Finalize
    <3>2. \A e \in Calls : /\ at'[e] # "unused" => at[e] # "unused"
                           /\ at'[e] \notin {"unused", "refused"}
                                => at[e] \notin {"unused", "refused"}
      BY <2>2, GoOnPlaces
    <3> QED BY <3>1, <3>2 DEF callVars, DeadlockInv, ContextTells, AwaitedIsRefused
  <2>3. CASE UNCHANGED vars
    BY <2>3 DEF vars, callVars, DeadlockInv, ContextTells, AwaitedIsRefused
  <2> QED BY <2>1, <2>2, <2>3 DEF Next
<1>3. DeadlockInv => NoSelfDeadlock
  BY DEF DeadlockInv, AwaitedIsRefused, NoSelfDeadlock
<1> QED BY <1>1, <1>2, <1>3, LockInvariant, PTL DEF Spec

-----------------------------------------------------------------------------
(* First come, first served.                                               *)

\* HolderOf names the call that holds the lock, if one does.
HolderIs ==
  \A r \in Repos :
    /\ \A c \in Calls : HolderOf(r) = c <=> Holds(c, r)
    /\ HolderOf(r) = None <=> \A c \in Calls : ~Holds(c, r)

LEMMA HolderFacts == LockInv => HolderIs
<1> SUFFICES ASSUME LockInv, NEW r \in Repos
             PROVE  /\ \A c \in Calls : HolderOf(r) = c <=> Holds(c, r)
                    /\ HolderOf(r) = None <=> \A c \in Calls : ~Holds(c, r)
  BY DEF HolderIs
<1>1. CASE \A c \in Calls : ~Holds(c, r)
  BY <1>1, ConstantsOK DEF HolderOf
<1>2. CASE \E c \in Calls : Holds(c, r)
  <2>1. HolderOf(r) \in Calls /\ Holds(HolderOf(r), r)
    BY <1>2 DEF HolderOf
  <2>2. \A c \in Calls : Holds(c, r) => c = HolderOf(r)
    BY <2>1 DEF LockInv, MutexInv, OneHolder
  <2> QED BY <2>1, <2>2, ConstantsOK
<1> QED BY <1>1, <1>2

\* The refinement mapping of FairLock's holder.
Mapped == [r \in Repos |-> HolderOf(r)]

LEMMA AcquireIsArrival ==
  ASSUME LockInv, HolderIs, HolderIs', NEW c \in Calls, NEW r \in Repos,
         at[c] \in {"unused", "author"},
         Acquire(c, r), repo' = [repo EXCEPT ![c] = r]
  PROVE  Lock!Arrive(c, r)
<1>1. CASE ~locked[r]
  <2>1. /\ at' = [at EXCEPT ![c] = "granted"] /\ queue' = queue
    BY <1>1 DEF Acquire
  <2>2. \A d \in Calls, s \in Repos :
          (at'[d] \in Holding /\ repo'[d] = s) <=> (Holds(d, s) \/ (d = c /\ s = r))
    BY <2>1 DEF Holds, Holding, LockInv, TypeOK
  <2>3. HolderOf(r) = None
    BY <1>1 DEF HolderIs, LockInv, MutexInv, NoLostWakeup
  <2>4. HolderOf(r)' = c
    BY <2>2 DEF HolderIs, Holds
  <2>5. \A s \in Repos : s # r => HolderOf(s)' = HolderOf(s)
    <3> SUFFICES ASSUME NEW s \in Repos, s # r PROVE HolderOf(s)' = HolderOf(s)
      OBVIOUS
    <3>1. \A d \in Calls : Holds(d, s) <=> (at'[d] \in Holding /\ repo'[d] = s)
      BY <2>2
    <3>2. CASE \E d \in Calls : Holds(d, s)
      BY <3>1, <3>2 DEF HolderIs, Holds
    <3>3. CASE \A d \in Calls : ~Holds(d, s)
      BY <3>1, <3>3 DEF HolderIs, Holds
    <3> QED BY <3>2, <3>3
  <2>6. Mapped' = [Mapped EXCEPT ![r] = c]
    BY <2>4, <2>5 DEF Mapped
  <2> QED BY <2>1, <2>3, <2>6 DEF Lock!Arrive, Mapped
<1>2. CASE locked[r]
  <2>1. /\ at' = [at EXCEPT ![c] = "queued"]
        /\ queue' = [queue EXCEPT ![r] = Append(queue[r], c)]
    BY <1>2 DEF Acquire
  <2>2. \A d \in Calls, s \in Repos :
          (at'[d] \in Holding /\ repo'[d] = s) <=> Holds(d, s)
    BY <2>1 DEF Holds, Holding, LockInv, TypeOK
  <2>3. HolderOf(r) # None
    BY <1>2 DEF HolderIs, LockInv, MutexInv, NoLostWakeup
  <2>4. \A s \in Repos : HolderOf(s)' = HolderOf(s)
    <3> SUFFICES ASSUME NEW s \in Repos PROVE HolderOf(s)' = HolderOf(s)
      OBVIOUS
    <3>1. CASE \E d \in Calls : Holds(d, s)
      BY <2>2, <3>1 DEF HolderIs, Holds
    <3>2. CASE \A d \in Calls : ~Holds(d, s)
      BY <2>2, <3>2 DEF HolderIs, Holds
    <3> QED BY <3>1, <3>2
  <2>5. Mapped' = Mapped
    BY <2>4 DEF Mapped
  <2> QED BY <2>1, <2>3, <2>5 DEF Lock!Arrive, Mapped
<1> QED BY <1>1, <1>2

LEMMA ReleaseIsLeaving ==
  ASSUME LockInv, HolderIs, HolderIs', NEW c \in Calls, at[c] \in Holding,
         NEW p \in Ended, Release(c, repo[c], p), repo' = repo
  PROVE  Lock!Leave(repo[c])
<1> DEFINE r == repo[c]
<1>0. r \in Repos /\ Holds(c, r) /\ HolderOf(r) = c /\ c # None
  BY ConstantsOK DEF LockInv, TypeOK, Holds, HolderIs
<1>p. p \notin Holding /\ queue[r] \in Seq(Calls)
  BY <1>0 DEF Ended, Holding, LockInv, TypeOK
<1>1. \A s \in Repos : s # r => ~Holds(c, s)
  BY DEF Holds
<1>2. \A d \in Calls : Holds(d, r) => d = c
  BY <1>0 DEF HolderIs
<1>3. CASE queue[r] = <<>>
  <2>1. at' = [at EXCEPT ![c] = p] /\ queue' = queue
    BY <1>3 DEF Release
  <2>2. \A d \in Calls, s \in Repos :
          (at'[d] \in Holding /\ repo'[d] = s) <=> (Holds(d, s) /\ d # c)
    BY <1>p, <2>1 DEF Holds, LockInv, TypeOK
  <2>3. HolderOf(r)' = None
    BY <1>0, <1>2, <2>2 DEF HolderIs, Holds
  <2>4. \A s \in Repos : s # r => HolderOf(s)' = HolderOf(s)
    <3> SUFFICES ASSUME NEW s \in Repos, s # r PROVE HolderOf(s)' = HolderOf(s)
      OBVIOUS
    <3>1. \A d \in Calls : Holds(d, s) <=> (at'[d] \in Holding /\ repo'[d] = s)
      BY <1>1, <2>2
    <3>2. CASE \E d \in Calls : Holds(d, s)
      BY <3>1, <3>2 DEF HolderIs, Holds
    <3>3. CASE \A d \in Calls : ~Holds(d, s)
      BY <3>1, <3>3 DEF HolderIs, Holds
    <3> QED BY <3>2, <3>3
  <2>5. Mapped' = [Mapped EXCEPT ![r] = None]
    BY <2>3, <2>4 DEF Mapped
  <2> QED BY <1>0, <1>3, <2>1, <2>5 DEF Lock!Leave, Mapped
<1>4. CASE queue[r] # <<>>
  <2> DEFINE n == Head(queue[r])
  <2>1. /\ n \in Calls /\ n = queue[r][1] /\ Len(queue[r]) \in Nat \ {0}
    BY <1>p, <1>4, QueueFacts
  <2>2. at[n] = "queued" /\ repo[n] = r /\ n # c
    BY <1>0, <2>1 DEF LockInv, MutexInv, QueueIsWaiting, Holding
  <2>3. /\ at' = [at EXCEPT ![c] = p, ![n] = "granted"]
        /\ queue' = [queue EXCEPT ![r] = Tail(queue[r])]
    BY <1>4 DEF Release, NextInLine
  <2>4. \A d \in Calls : at'[d] = IF d = n THEN "granted" ELSE IF d = c THEN p ELSE at[d]
    BY <2>1, <2>2, <2>3 DEF LockInv, TypeOK
  <2>5. \A d \in Calls, s \in Repos :
          (at'[d] \in Holding /\ repo'[d] = s)
            <=> ((Holds(d, s) /\ d # c) \/ (d = n /\ s = r))
    BY <1>p, <2>1, <2>2, <2>4 DEF Holds, Holding
  <2>6. HolderOf(r)' = n
    BY <1>0, <2>1, <2>5 DEF HolderIs, Holds
  <2>7. \A s \in Repos : s # r => HolderOf(s)' = HolderOf(s)
    <3> SUFFICES ASSUME NEW s \in Repos, s # r PROVE HolderOf(s)' = HolderOf(s)
      OBVIOUS
    <3>1. \A d \in Calls : Holds(d, s) <=> (at'[d] \in Holding /\ repo'[d] = s)
      BY <1>1, <2>5
    <3>2. CASE \E d \in Calls : Holds(d, s)
      BY <3>1, <3>2 DEF HolderIs, Holds
    <3>3. CASE \A d \in Calls : ~Holds(d, s)
      BY <3>1, <3>3 DEF HolderIs, Holds
    <3> QED BY <3>2, <3>3
  <2>8. Mapped' = [Mapped EXCEPT ![r] = n]
    BY <2>6, <2>7 DEF Mapped
  <2> QED BY <1>0, <1>4, <2>3, <2>8 DEF Lock!Leave, Mapped
<1> QED BY <1>3, <1>4

LEMMA QuietIsStutter ==
  ASSUME LockInv, HolderIs, HolderIs', UNCHANGED queue,
         \A d \in Calls, s \in Repos :
           (at'[d] \in Holding /\ repo'[d] = s) <=> Holds(d, s)
  PROVE  UNCHANGED <<Mapped, queue>>
<1> SUFFICES ASSUME NEW s \in Repos PROVE HolderOf(s)' = HolderOf(s)
  BY DEF Mapped
<1>1. CASE \E d \in Calls : Holds(d, s)
  BY <1>1 DEF HolderIs, Holds
<1>2. CASE \A d \in Calls : ~Holds(d, s)
  BY <1>2 DEF HolderIs, Holds
<1> QED BY <1>1, <1>2

LEMMA StepMaps ==
  ASSUME LockInv, HolderIs, HolderIs', [Next]_vars
  PROVE  [Lock!LockNext]_<<Mapped, queue>>
<1> USE DEF LockInv, TypeOK
<1> DEFINE Quiet == \A d \in Calls, s \in Repos :
                      (at'[d] \in Holding /\ repo'[d] = s) <=> Holds(d, s)
<1>1. ASSUME NEW c \in Calls, Make(c)
      PROVE  [Lock!LockNext]_<<Mapped, queue>>
  <2>0. PICK p \in Calls \cup {Root}, r \in Repos, awaited \in BOOLEAN :
          WithLock(c, p, r, awaited) \/ Transact(c, p, r, awaited)
    BY <1>1 DEF Make
  <2>1. at[c] = "unused" /\ repo' = [repo EXCEPT ![c] = r]
    BY <2>0 DEF WithLock, Transact, Made
  <2>2. \/ Acquire(c, r)
        \/ /\ UNCHANGED queue
           /\ \E place \in {"refused", "author"} : at' = [at EXCEPT ![c] = place]
    BY <2>0 DEF WithLock, Transact
  <2>3. CASE Acquire(c, r)
    BY <2>1, <2>3, AcquireIsArrival DEF Lock!LockNext
  <2>4. CASE /\ UNCHANGED queue
             /\ \E place \in {"refused", "author"} : at' = [at EXCEPT ![c] = place]
    <3>1. Quiet
      BY <2>1, <2>4 DEF Holds, Holding
    <3> QED BY <2>4, <3>1, QuietIsStutter
  <2> QED BY <2>2, <2>3, <2>4
<1>2. ASSUME NEW c \in Calls, Resume(c) \/ Settle(c)
      PROVE  [Lock!LockNext]_<<Mapped, queue>>
  <2>0. repo' = repo /\ repo[c] \in Repos
    BY <1>2 DEF Resume, Settle, AuthorKnown, Enter, Begin, BeginFails, Close,
                Leave, Discard, Finalize, callVars
  <2>1. CASE AuthorKnown(c)
    <3>1. repo' = [repo EXCEPT ![c] = repo[c]]
      BY <2>0
    <3> QED BY <2>0, <2>1, <3>1, AcquireIsArrival DEF AuthorKnown, Lock!LockNext
  <2>2. CASE Enter(c) \/ Begin(c) \/ Finalize(c)
    <3>1. UNCHANGED queue /\ Quiet
      BY <2>0, <2>2 DEF Enter, Begin, Finalize, Holds, Holding
    <3> QED BY <3>1, QuietIsStutter
  <2>3. CASE BeginFails(c) \/ Leave(c) \/ Discard(c) \/ Close(c)
    <3>1. /\ at[c] \in Holding
          /\ \E p \in Ended : Release(c, repo[c], p)
      BY <2>3 DEF BeginFails, Leave, Discard, Close, Holding, Ended
    <3>2. Lock!Leave(repo[c])
      BY <2>0, <3>1, ReleaseIsLeaving
    <3> QED BY <2>0, <3>2 DEF Lock!LockNext
  <2> QED BY <1>2, <2>1, <2>2, <2>3 DEF Resume, Settle
<1>3. CASE UNCHANGED vars
  <2>1. UNCHANGED queue /\ Quiet
    BY <1>3 DEF vars, callVars, Holds
  <2> QED BY <2>1, QuietIsStutter
<1> QED BY <1>1, <1>2, <1>3 DEF Next

\* The Mutex of each Repository implements the abstract first-come-first-served
\* lock: the calls of withLock and transact get it in the order in which they
\* reached acquire.
THEOREM MutexIsFair == Spec => FirstComeFirstServed
<1>1. Init => Lock!LockInit
  <2> SUFFICES ASSUME Init PROVE Lock!LockInit
    OBVIOUS
  <2>1. HolderIs
    BY LockInvInit, HolderFacts
  <2>2. \A r \in Repos : HolderOf(r) = None
    BY <2>1 DEF HolderIs, Init, Holds, Holding
  <2> QED BY <2>2 DEF Lock!LockInit, Init
<1>2. LockInv /\ HolderIs /\ HolderIs' /\ [Next]_vars => [Lock!LockNext]_Lock!lockVars
  BY StepMaps DEF Lock!lockVars, Mapped
<1> QED BY <1>1, <1>2, LockInvariant, HolderFacts, PTL
        DEF Spec, FirstComeFirstServed, Lock!LockSpec

=============================================================================
