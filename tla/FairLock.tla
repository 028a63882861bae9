------------------------------ MODULE FairLock ------------------------------
(***************************************************************************)
(* What a first-come-first-served lock promises: one holder at a time, and *)
(* the lock passes to the callers in the order in which they arrived.      *)
(***************************************************************************)
EXTENDS Sequences

CONSTANTS Locks,  \* the locks
          Calls,  \* those who ask for them
          None    \* nobody

VARIABLES holder, \* [Locks -> Calls \cup {None}]
          line    \* [Locks -> the callers that wait, in order of arrival]

lockVars == <<holder, line>>

LockInit ==
  /\ holder = [l \in Locks |-> None]
  /\ line = [l \in Locks |-> <<>>]

Arrive(c, l) ==
  \/ /\ holder[l] = None
     /\ holder' = [holder EXCEPT ![l] = c]
     /\ UNCHANGED line
  \/ /\ holder[l] # None
     /\ line' = [line EXCEPT ![l] = Append(line[l], c)]
     /\ UNCHANGED holder

\* The lock passes to the first in line, or is free again.
Leave(l) ==
  /\ holder[l] # None
  /\ \/ /\ line[l] = <<>>
        /\ holder' = [holder EXCEPT ![l] = None]
        /\ UNCHANGED line
     \/ /\ line[l] # <<>>
        /\ holder' = [holder EXCEPT ![l] = Head(line[l])]
        /\ line' = [line EXCEPT ![l] = Tail(line[l])]

LockNext == \E l \in Locks : Leave(l) \/ \E c \in Calls : Arrive(c, l)

LockSpec == LockInit /\ [][LockNext]_lockVars

=============================================================================
