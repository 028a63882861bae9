----------------------------- MODULE MCWriteLock -----------------------------
(* A few calls on one Repository. *)
EXTENDS WriteLock

CONSTANTS a, b, dirA, dirB

Directories == [r \in Repos |-> IF r = a THEN dirA ELSE dirB]

=============================================================================
