------------------------- MODULE MCCoreTransaction -------------------------
(* Two threads, in two processes or in one (which one: see the cfg). *)
EXTENDS CoreTransaction

CONSTANTS t1, t2, p1, p2, main

Opt(parent, name, branch) == [parent |-> parent, name |-> name, branch |-> branch]

\* Left out, a branch name, or a hash whose commit advances a branch or none.
AllKinds == {Opt("head", NoRef, NoRef), Opt("branch", main, NoRef),
             Opt("hash", NoRef, main), Opt("hash", NoRef, NoRef)}
Default == {Opt("head", NoRef, NoRef)}

TwoProcesses == [t \in Threads |-> IF t = t1 THEN p1 ELSE p2]
OneProcess == [t \in Threads |-> p1]

=============================================================================
