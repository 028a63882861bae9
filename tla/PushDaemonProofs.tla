-------------------------- MODULE PushDaemonProofs --------------------------
(***************************************************************************)
(* Proofs about PushDaemon, for any number of daemons, commits and         *)
(* retries: what a quiet daemon may tell its caller, and what a stop that  *)
(* returns in time leaves behind.                                          *)
(*                                                                         *)
(* The synchronous stretches of the daemon are functions of its record, so *)
(* what they keep is stated of any record (Counted) and of any state of    *)
(* the repository (Knows).                                                 *)
(***************************************************************************)
EXTENDS PushDaemon, FiniteSetTheorems, WellFoundedInduction, TLAPS

\* What branch B has of the commits up to c.
Has(B, c) == Max({b \in B : b <= c})

\* The counters of a daemon: a push loop is under way for something that is not
\* handled yet, and whatever was not counted since its beginning is what it
\* pushes.
Counted(r) ==
  /\ r.handled <= r.pending
  /\ r.push # "none" =>
       /\ r.handled < r.upTo /\ r.upTo <= r.pending
       /\ r.pending = r.upTo => r.last = r.commit
  /\ r.push = "none" /\ r.pending = r.handled => r.last = r.lastHandled
  /\ r.push = "sleeping" => r.attempt < MaxRetries
  /\ r.at = "stopped" /\ ~r.timedOut => r.push = "none"
  /\ r.check \in {"parsing", "priming"} => r.ahead > 0

\* Its commits, when m commits are made, B is the branch and k what the remote
\* has: all are made, the one pushed last is on the remote, and what git has
\* read for the push has the commit the push is for.  There may be none: a push
\* for a backlog whose head could not be parsed.
Knows(r, m, B, k) ==
  /\ r.last # None => r.last <= m
  /\ r.lastHandled # None => r.lastHandled <= m
  /\ r.commit # None => r.commit <= m
  /\ r.headCommit # None => r.headCommit <= m
  /\ r.outcome = "pushed" /\ r.lastHandled # None => k >= Has(B, r.lastHandled)
  /\ r.push = "pushing" /\ r.sent # None /\ r.commit # None => r.sent >= Has(B, r.commit)

Repository ==
  /\ 0 \in branch /\ branch \subseteq 0 .. made
  /\ unnotified # None => unnotified <= made

IInv ==
  /\ TypeOK /\ Repository
  /\ \A d \in Daemons : Counted(daemon[d]) /\ Knows(daemon[d], made, branch, remote)

-----------------------------------------------------------------------------
\* A bounded set of numbers that has an element has a largest one.
LEMMA MaxIsIn ==
  ASSUME NEW n \in Nat, NEW S \in SUBSET (0 .. n), S # {}
  PROVE  Max(S) \in S /\ \A x \in S : Max(S) >= x
<1> DEFINE Gap == {n - x : x \in S}
           Less == OpToRel(<, Nat)
<1>1. Gap \subseteq Nat /\ Gap # {}
  <2>1. \A x \in S : n - x \in Nat
    OBVIOUS
  <2> QED BY <2>1
<1>2. PICK g \in Gap : \A h \in Gap : <<h, g>> \notin Less
  <2> HIDE DEF Gap, Less
  <2>1. IsWellFoundedOn(Less, Nat)
    BY NatLessThanWellFounded DEF Less
  <2> QED BY <1>1, <2>1, WFMin, Zenon
<1>3. \A h \in Gap : ~(h < g)
  BY <1>1, <1>2 DEF OpToRel
<1>4. PICK x \in S : g = n - x
  BY <1>2
<1>5. \A y \in S : x >= y
  BY <1>3, <1>4
<1> QED BY <1>5 DEF Max

LEMMA HasIsIn ==
  ASSUME NEW n \in Nat, NEW B \in SUBSET (0 .. n), 0 \in B, NEW c \in Nat
  PROVE  Has(B, c) \in B /\ Has(B, c) <= c /\ Max(B) >= Has(B, c)
<1> DEFINE S == {b \in B : b <= c}
<1>1. S \in SUBSET (0 .. n) /\ S # {}
  <2>1. 0 \in S
    OBVIOUS
  <2> QED BY <2>1
<1>2. Max(S) \in S /\ Max(B) >= Max(S)
  <2> HIDE DEF S
  <2>1. Max(S) \in S
    BY <1>1, MaxIsIn
  <2>2. \A x \in B : Max(B) >= x
    BY MaxIsIn
  <2> QED BY <2>1, <2>2 DEF S
<1> QED BY <1>2 DEF Has

LEMMA HasIsNat ==
  ASSUME NEW n \in Nat, NEW B \in SUBSET (0 .. n), 0 \in B, NEW c \in Nat
  PROVE  Has(B, c) \in B /\ Has(B, c) \in Nat
<1> DEFINE h == Has(B, c)
<1>1. h \in B
  BY HasIsIn
<1> HIDE DEF h
<1>2. h \in Nat
  BY <1>1
<1> QED BY <1>1, <1>2 DEF h

\* A branch that goes on has of older commits what it had.
LEMMA HasStays ==
  ASSUME NEW m \in Nat, NEW B \in SUBSET (0 .. m), NEW n \in Nat, n > m, NEW c \in 0 .. m
  PROVE  Has(B \cup {n}, c) = Has(B, c)
<1>1. {b \in B \cup {n} : b <= c} = {b \in B : b <= c}
  OBVIOUS
<1> QED BY <1>1 DEF Has

-----------------------------------------------------------------------------
(* What the synchronous stretches keep.                                    *)

\* The numbers in a daemon's record.
LEMMA Fields ==
  ASSUME NEW r \in DaemonStates
  PROVE  /\ r.ahead \in Nat
         /\ r.headCommit # None => r.headCommit \in Nat
         /\ r.pending \in Nat /\ r.handled \in Nat /\ r.upTo \in Nat
         /\ r.attempt \in 0 .. MaxRetries
         /\ r.last # None => r.last \in Nat
         /\ r.lastHandled # None => r.lastHandled \in Nat
         /\ r.commit # None => r.commit \in Nat
         /\ r.sent # None => r.sent \in Nat
BY ConstantsOK DEF DaemonStates, Numbers

LEMMA DrainKeeps ==
  ASSUME NEW r \in DaemonStates, Counted(r), NEW m, NEW B, NEW k, Knows(r, m, B, k)
  PROVE  /\ Drain(r) \in DaemonStates
         /\ Counted(Drain(r)) /\ Knows(Drain(r), m, B, k)
<1> USE ConstantsOK
<1>1. CASE r.push # "none" \/ r.at # "running" \/ r.pending <= r.handled
  BY <1>1 DEF Drain
<1>2. CASE /\ ~(r.push # "none" \/ r.at # "running" \/ r.pending <= r.handled)
           /\ IsCoalesced(r)
  <2>1. Drain(r) = [r EXCEPT !.handled = r.pending]
    BY <1>2 DEF Drain
  <2> QED BY <1>2, <2>1 DEF DaemonStates, Counted, Knows, IsCoalesced
<1>3. CASE /\ ~(r.push # "none" \/ r.at # "running" \/ r.pending <= r.handled)
           /\ ~IsCoalesced(r)
  <2>1. Drain(r) = [r EXCEPT !.upTo = r.pending, !.commit = r.last, !.attempt = 1,
                             !.push = "pushing", !.sent = None]
    <3> DEFINE t == [r EXCEPT !.upTo = r.pending, !.commit = r.last, !.attempt = 0]
    <3>1. Drain(r) = Attempt(t)
      BY <1>3 DEF Drain
    <3>2. t.attempt + 1 = 1 /\ t.attempt = 0
      BY DEF DaemonStates
    <3>3. Attempt(t) = [t EXCEPT !.push = "pushing", !.sent = None, !.attempt = 1]
      BY <3>2 DEF Attempt
    <3> QED BY <3>1, <3>3, ZenonT(60) DEF DaemonStates
  <2>2. r.pending > r.handled
    BY <1>3 DEF Counted, DaemonStates
  <2> DEFINE s == Drain(r)
  <2>3. s \in DaemonStates
    <3>1. 1 \in 0 .. MaxRetries
      BY ConstantsOK
    <3> QED BY <2>1, <3>1, ZenonT(60) DEF DaemonStates
  <2>4. /\ s.upTo = r.pending /\ s.commit = r.last /\ s.push = "pushing" /\ s.sent = None
        /\ s.at = r.at /\ s.check = r.check /\ s.ahead = r.ahead
        /\ s.headCommit = r.headCommit /\ s.pending = r.pending /\ s.handled = r.handled
        /\ s.last = r.last /\ s.lastHandled = r.lastHandled
        /\ s.outcome = r.outcome
    BY <2>1 DEF DaemonStates
  <2> HIDE DEF s
  <2>5. Counted(s)
    BY <1>3, <2>2, <2>4, Fields DEF Counted
  <2>6. Knows(s, m, B, k)
    BY <2>4 DEF Knows
  <2> QED BY <2>3, <2>5, <2>6 DEF s
<1> QED BY <1>1, <1>2, <1>3

\* A loop that ends: nothing more is counted as handled here.
LEMMA FinishedKeeps ==
  ASSUME NEW r \in DaemonStates, NEW m, NEW B, NEW k, Knows(r, m, B, k),
         Counted([r EXCEPT !.push = "none", !.sent = None, !.attempt = 0])
  PROVE  /\ Finished(r) \in DaemonStates
         /\ Counted(Finished(r)) /\ Knows(Finished(r), m, B, k)
<1> DEFINE idle == [r EXCEPT !.push = "none", !.sent = None, !.attempt = 0]
<1>1. idle \in DaemonStates /\ Knows(idle, m, B, k)
  <2>1. idle \in DaemonStates
    <3>1. 0 \in 0 .. MaxRetries
      BY ConstantsOK
    <3> QED BY <3>1 DEF DaemonStates
  <2>2. /\ idle.push = "none" /\ idle.last = r.last /\ idle.lastHandled = r.lastHandled
        /\ idle.commit = r.commit /\ idle.headCommit = r.headCommit /\ idle.outcome = r.outcome
    BY DEF DaemonStates
  <2> QED BY <2>1, <2>2 DEF Knows
<1>2. Finished(r) = IF r.at = "stopping" THEN idle ELSE Drain(idle)
  BY DEF Finished
<1> HIDE DEF idle
<1>3. Counted(idle)
  BY DEF idle
<1>4. Drain(idle) \in DaemonStates /\ Counted(Drain(idle)) /\ Knows(Drain(idle), m, B, k)
  BY <1>1, <1>3, DrainKeeps
<1> QED BY <1>1, <1>2, <1>3, <1>4

\* A batch is dealt with, and if it was pushed the remote has its commit.
LEMMA HandledKeeps ==
  ASSUME NEW r \in DaemonStates, Counted(r), NEW m, NEW B, NEW k, Knows(r, m, B, k),
         r.push # "none", NEW outcome \in {"pushed", "refused"},
         outcome = "pushed" /\ r.commit # None => k >= Has(B, r.commit)
  PROVE  /\ Handled(r, outcome) \in DaemonStates
         /\ Counted(Handled(r, outcome)) /\ Knows(Handled(r, outcome), m, B, k)
<1> DEFINE s == [r EXCEPT !.handled = r.upTo, !.lastHandled = r.commit, !.outcome = outcome]
<1>1. s \in DaemonStates /\ Knows(s, m, B, k)
  <2>1. s \in DaemonStates
    BY ZenonT(60) DEF DaemonStates
  <2>2. /\ s.push = r.push /\ s.last = r.last /\ s.lastHandled = r.commit /\ s.sent = r.sent
        /\ s.commit = r.commit /\ s.headCommit = r.headCommit /\ s.outcome = outcome
    BY DEF DaemonStates
  <2> HIDE DEF s
  <2> QED BY <2>1, <2>2 DEF Knows, Counted
<1>2. Counted([s EXCEPT !.push = "none", !.sent = None, !.attempt = 0])
  <2> DEFINE t == [s EXCEPT !.push = "none", !.sent = None, !.attempt = 0]
  <2>1. /\ t.handled = r.upTo /\ t.lastHandled = r.commit /\ t.outcome = outcome
        /\ t.push = "none" /\ t.pending = r.pending /\ t.last = r.last
        /\ t.check = r.check /\ t.ahead = r.ahead
    BY DEF DaemonStates
  <2> HIDE DEF t, s
  <2> SUFFICES Counted(t)
    BY DEF t
  <2> QED BY <2>1, Fields DEF Counted
<1>3. Handled(r, outcome) = Finished(s)
  BY DEF Handled, HandledUpTo
<1> HIDE DEF s
<1> QED BY <1>1, <1>2, <1>3, FinishedKeeps

\* A commit is notified.
LEMMA NotifiedKeeps ==
  ASSUME NEW r \in DaemonStates, Counted(r), NEW m, NEW B, NEW k, Knows(r, m, B, k),
         NEW c \in Numbers, c <= m
  PROVE  /\ Notified(r, c) \in DaemonStates
         /\ Counted(Notified(r, c)) /\ Knows(Notified(r, c), m, B, k)
<1> DEFINE s == [r EXCEPT !.pending = r.pending + 1, !.last = c, !.heard = c]
<1>1. s \in DaemonStates /\ Counted(s) /\ Knows(s, m, B, k)
  <2>1. s \in DaemonStates
    <3>1. r.pending + 1 \in Nat
      BY Fields
    <3> QED BY <3>1 DEF DaemonStates
  <2>2. /\ s.upTo = r.upTo /\ s.commit = r.commit /\ s.push = r.push /\ s.sent = r.sent
        /\ s.at = r.at /\ s.check = r.check /\ s.ahead = r.ahead /\ s.timedOut = r.timedOut
        /\ s.headCommit = r.headCommit /\ s.pending = r.pending + 1 /\ s.handled = r.handled
        /\ s.last = c /\ s.lastHandled = r.lastHandled /\ s.attempt = r.attempt
        /\ s.outcome = r.outcome
    BY DEF DaemonStates
  <2> HIDE DEF s
  <2>3. c # None
    BY ConstantsOK DEF Numbers
  <2>4. Counted(s)
    BY <2>2, <2>3, Fields DEF Counted
  <2> QED BY <2>1, <2>2, <2>4 DEF Knows
<1>2. Notified(r, c) = IF r.at # "running" THEN r ELSE Drain(s)
  BY DEF Notified
<1> HIDE DEF s
<1>3. Drain(s) \in DaemonStates /\ Counted(Drain(s)) /\ Knows(Drain(s), m, B, k)
  BY <1>1, DrainKeeps
<1> QED BY <1>2, <1>3

\* The start-up check has counted commits and looked at the head.
LEMMA PrimedKeeps ==
  ASSUME NEW r \in DaemonStates, Counted(r), NEW m \in Nat, NEW B, NEW k, Knows(r, m, B, k),
         r.check = "priming"
  PROVE  /\ Primed(r) \in DaemonStates
         /\ Counted(Primed(r)) /\ Knows(Primed(r), m, B, k)
<1> DEFINE last == IF r.headCommit = None THEN r.last ELSE r.headCommit
           s == WithBacklog(r)
<1>0. last \in Numbers \cup {None} /\ (last # None => last <= m)
  BY DEF DaemonStates, Knows
<1>1. s = [r EXCEPT !.pending = r.pending + r.ahead, !.last = last,
                    !.check = "done", !.ahead = 0, !.headCommit = None]
  BY DEF WithBacklog, Checked, DaemonStates
<1>2. Primed(r) = Drain(s)
  BY DEF Primed
<1> HIDE DEF s, last
<1>3. s \in DaemonStates /\ Counted(s) /\ Knows(s, m, B, k)
  <2>1. s \in DaemonStates
    <3>1. r.pending + r.ahead \in Nat /\ 0 \in Numbers
      BY Fields, ConstantsOK DEF Numbers
    <3> QED BY <1>0, <1>1, <3>1, ZenonT(60) DEF DaemonStates
  <2>2. /\ s.upTo = r.upTo /\ s.commit = r.commit /\ s.push = r.push /\ s.sent = r.sent
        /\ s.at = r.at /\ s.check = "done" /\ s.timedOut = r.timedOut
        /\ s.headCommit = None /\ s.pending = r.pending + r.ahead /\ s.handled = r.handled
        /\ s.last = last /\ s.lastHandled = r.lastHandled /\ s.attempt = r.attempt
        /\ s.outcome = r.outcome
    BY <1>1 DEF DaemonStates
  <2>3. Counted(s)
    BY <2>2, Fields DEF Counted
  <2> QED BY <1>0, <2>1, <2>2, <2>3 DEF Knows
<1> QED BY <1>2, <1>3, DrainKeeps

AtCheck(r, c, a, h) == [r EXCEPT !.check = c, !.ahead = a, !.headCommit = h]
AtStop(r, a, p, t) == [r EXCEPT !.at = a, !.push = p, !.timedOut = t]

\* The start-up check gets on, or ends: what it has counted is something.
LEMMA CheckKeeps ==
  ASSUME NEW r \in DaemonStates, Counted(r), NEW m, NEW B, NEW k, Knows(r, m, B, k),
         NEW c \in {"parsing", "priming", "done"}, NEW a \in Numbers,
         NEW h \in Numbers \cup {None}, h # None => h <= m, c # "done" => a > 0
  PROVE  /\ AtCheck(r, c, a, h) \in DaemonStates
         /\ Counted(AtCheck(r, c, a, h)) /\ Knows(AtCheck(r, c, a, h), m, B, k)
<1> DEFINE s == AtCheck(r, c, a, h)
<1>1. s \in DaemonStates
  BY DEF DaemonStates, AtCheck
<1>2. /\ s.upTo = r.upTo /\ s.commit = r.commit /\ s.push = r.push
      /\ s.sent = r.sent /\ s.at = r.at /\ s.check = c
      /\ s.ahead = a /\ s.timedOut = r.timedOut /\ s.headCommit = h
      /\ s.pending = r.pending /\ s.handled = r.handled /\ s.last = r.last
      /\ s.lastHandled = r.lastHandled /\ s.attempt = r.attempt /\ s.outcome = r.outcome
  BY DEF DaemonStates, AtCheck
<1> HIDE DEF s
<1>3. Counted(s)
  BY <1>2 DEF Counted
<1>4. Knows(s, m, B, k)
  BY <1>2 DEF Knows
<1> QED BY <1>1, <1>3, <1>4 DEF s

\* stop begins or ends; it returns in time only if no push is left.
LEMMA StopKeeps ==
  ASSUME NEW r \in DaemonStates, Counted(r), NEW m, NEW B, NEW k, Knows(r, m, B, k),
         NEW a \in {"stopping", "stopped"}, NEW t \in BOOLEAN,
         NEW p \in {r.push, "stranded"}, r.push = "none" => p = "none",
         a = "stopped" /\ ~t => p = "none"
  PROVE  /\ AtStop(r, a, p, t) \in DaemonStates
         /\ Counted(AtStop(r, a, p, t)) /\ Knows(AtStop(r, a, p, t), m, B, k)
<1> DEFINE s == AtStop(r, a, p, t)
<1>0. p \in {"none", "pushing", "sleeping", "stranded"}
  BY DEF DaemonStates
<1>1. s \in DaemonStates
  BY <1>0, ZenonT(60) DEF DaemonStates, AtStop
<1>2. /\ s.upTo = r.upTo /\ s.commit = r.commit /\ s.push = p
      /\ s.sent = r.sent /\ s.at = a /\ s.check = r.check
      /\ s.ahead = r.ahead /\ s.timedOut = t /\ s.headCommit = r.headCommit
      /\ s.pending = r.pending /\ s.handled = r.handled /\ s.last = r.last
      /\ s.lastHandled = r.lastHandled /\ s.attempt = r.attempt /\ s.outcome = r.outcome
  BY DEF DaemonStates, AtStop
<1> HIDE DEF s
<1>3. Counted(s)
  BY <1>2 DEF Counted
<1>4. Knows(s, m, B, k)
  BY <1>2 DEF Knows
<1> QED BY <1>1, <1>3, <1>4 DEF s

-----------------------------------------------------------------------------
\* Nothing is counted at first.
LEMMA NewIsFine ==
  ASSUME NEW m \in Nat, NEW B, NEW k
  PROVE  /\ NewDaemon \in DaemonStates
         /\ Counted(NewDaemon) /\ Knows(NewDaemon, m, B, k)
BY ConstantsOK DEF NewDaemon, DaemonStates, Counted, Knows, Numbers

LEMMA InitInv == Init => IInv
<1> SUFFICES ASSUME Init PROVE IInv
  OBVIOUS
<1>1. Repository
  BY ConstantsOK DEF Init, Repository
<1>2. \A d \in Daemons : daemon[d] = NewDaemon
  BY DEF Init
<1>3. \A d \in Daemons : Counted(daemon[d]) /\ Knows(daemon[d], made, branch, remote)
  BY <1>2, NewIsFine DEF Init
<1>4. TypeOK
  <2>1. NewDaemon \in DaemonStates
    BY NewIsFine
  <2>2. 0 \in Numbers
    BY ConstantsOK DEF Numbers
  <2> QED BY <2>1, <2>2 DEF Init, TypeOK
<1> QED BY <1>1, <1>3, <1>4 DEF IInv

\* A step of one daemon that only it, and perhaps the remote, notices.
LEMMA OneDaemon ==
  ASSUME IInv, NEW d \in Daemons, NEW r \in DaemonStates, Become(d, r),
         UNCHANGED <<made, branch, diverged, unnotified>>,
         remote' \in Numbers, remote' >= remote,
         tracking' \in Numbers \cup {None},
         Counted(r), Knows(r, made, branch, remote')
  PROVE  IInv'
<1>1. daemon' = [daemon EXCEPT ![d] = r] /\ daemon \in [Daemons -> DaemonStates]
  BY DEF Become, IInv, TypeOK
<1>2. TypeOK' /\ Repository'
  BY <1>1 DEF IInv, TypeOK, Repository
<1>3. ASSUME NEW e \in Daemons
      PROVE  Counted(daemon'[e]) /\ Knows(daemon'[e], made, branch, remote')
  <2>1. CASE e = d
    BY <1>1, <2>1
  <2>2. CASE e # d
    <3>1. daemon'[e] = daemon[e] /\ Counted(daemon[e])
          /\ Knows(daemon[e], made, branch, remote) /\ daemon[e] \in DaemonStates
      BY <1>1, <2>2 DEF IInv
    <3>2. daemon[e].lastHandled # None => Has(branch, daemon[e].lastHandled) \in Numbers
      <4> SUFFICES ASSUME daemon[e].lastHandled # None
                   PROVE  Has(branch, daemon[e].lastHandled) \in Numbers
        OBVIOUS
      <4>1. daemon[e].lastHandled \in Nat
        BY <3>1, Fields
      <4>2. made \in Nat /\ branch \in SUBSET (0 .. made) /\ 0 \in branch
        BY DEF IInv, Repository, TypeOK, Numbers
      <4>3. Has(branch, daemon[e].lastHandled) \in branch
        BY <4>1, <4>2, HasIsIn
      <4> QED BY <4>3 DEF IInv, TypeOK
    <3>3. remote \in Nat /\ remote' \in Nat
      BY DEF IInv, TypeOK, Numbers
    <3> QED BY <3>1, <3>2, <3>3 DEF Knows, Numbers
  <2> QED BY <2>1, <2>2
<1> QED BY <1>2, <1>3 DEF IInv

\* A step that makes a commit, on the branch or elsewhere.
LEMMA OneCommit ==
  ASSUME IInv, made < MaxCommits, made' = made + 1,
         branch' \in {branch, branch \cup {made + 1}},
         unnotified' \in {unnotified, made + 1},
         tracking' \in Numbers \cup {None}, diverged' \in BOOLEAN,
         UNCHANGED <<remote, daemon>>
  PROVE  IInv'
<1>1. TypeOK' /\ Repository'
  BY ConstantsOK DEF IInv, TypeOK, Repository, Numbers
<1>2. ASSUME NEW d \in Daemons
      PROVE  Knows(daemon[d], made', branch', remote)
  <2> DEFINE r == daemon[d]
  <2>1. /\ r \in DaemonStates /\ Counted(r) /\ Knows(r, made, branch, remote)
        /\ made \in Nat /\ branch \in SUBSET (0 .. made)
    BY DEF IInv, TypeOK, Repository, Numbers
  <2>2. \A c \in 0 .. made : Has(branch', c) = Has(branch, c)
    BY <2>1, HasStays
  <2> HIDE DEF r
  <2>3. r.lastHandled # None => r.lastHandled \in 0 .. made
    BY <2>1 DEF DaemonStates, Knows, Numbers
  <2>4. r.commit # None => r.commit \in 0 .. made
    BY <2>1 DEF DaemonStates, Knows, Numbers
  <2>5. Knows(r, made', branch', remote)
    BY <2>1, <2>2, <2>3, <2>4 DEF DaemonStates, Knows, Numbers
  <2> QED BY <2>5 DEF r
<1> QED BY <1>1, <1>2 DEF IInv
-----------------------------------------------------------------------------
LEMMA CommitStep == IInv /\ Commit => IInv'
BY OneCommit DEF Commit, IInv, TypeOK

LEMMA ReconcileStep == IInv /\ Reconcile => IInv'
BY OneCommit DEF Reconcile, IInv, TypeOK

LEMMA DivergeStep == IInv /\ Diverge => IInv'
BY DEF Diverge, IInv, TypeOK, Repository

LEMMA CallHooksStep ==
  ASSUME IInv, CallHooks
  PROVE  IInv'
<1>1. /\ unnotified \in Numbers /\ unnotified <= made
      /\ daemon' = [d \in Daemons |-> Notified(daemon[d], unnotified)]
      /\ unnotified' = None
      /\ UNCHANGED <<made, branch, remote, tracking, diverged>>
  BY DEF CallHooks, IInv, TypeOK, Repository
<1>2. ASSUME NEW d \in Daemons
      PROVE  /\ daemon'[d] \in DaemonStates
             /\ Counted(daemon'[d]) /\ Knows(daemon'[d], made, branch, remote)
  <2>1. /\ daemon[d] \in DaemonStates /\ Counted(daemon[d])
        /\ Knows(daemon[d], made, branch, remote)
    BY DEF IInv, TypeOK
  <2>2. daemon'[d] = Notified(daemon[d], unnotified)
    BY <1>1
  <2> QED BY <1>1, <2>1, <2>2, NotifiedKeeps
<1>3. daemon' \in [Daemons -> DaemonStates]
  BY <1>1, <1>2
<1>4. TypeOK' /\ Repository'
  BY <1>1, <1>3 DEF IInv, TypeOK, Repository
<1> QED BY <1>1, <1>2, <1>4 DEF IInv

LEMMA ExitStep ==
  ASSUME IInv, Exit
  PROVE  IInv'
<1>1. /\ daemon' = [d \in Daemons |-> NewDaemon]
      /\ unnotified' = None
      /\ UNCHANGED <<made, branch, remote, tracking, diverged>>
  BY DEF Exit
<1>2. made \in Nat
  BY DEF IInv, TypeOK, Numbers
<1>3. \A d \in Daemons : daemon'[d] = NewDaemon
  BY <1>1
<1>4. TypeOK' /\ Repository'
  <2>1. NewDaemon \in DaemonStates
    BY <1>2, NewIsFine
  <2> QED BY <1>1, <2>1 DEF IInv, TypeOK, Repository
<1>5. \A d \in Daemons : Counted(daemon'[d]) /\ Knows(daemon'[d], made', branch', remote')
  BY <1>1, <1>2, <1>3, NewIsFine
<1> QED BY <1>4, <1>5 DEF IInv

-----------------------------------------------------------------------------
\* What is known of a daemon before its step.
LEMMA Before ==
  ASSUME IInv, NEW d \in Daemons
  PROVE  /\ daemon[d] \in DaemonStates
         /\ Counted(daemon[d]) /\ Knows(daemon[d], made, branch, remote)
         /\ made \in Nat /\ branch \in SUBSET (0 .. made) /\ 0 \in branch
         /\ remote \in Numbers /\ remote \in Nat /\ tracking \in Numbers \cup {None}
BY DEF IInv, TypeOK, Repository, Numbers

\* A step of a daemon that leaves the remote alone.
LEMMA QuietStep ==
  ASSUME IInv, NEW d \in Daemons, NEW r \in DaemonStates, Become(d, r),
         UNCHANGED <<made, branch, remote, diverged, unnotified>>,
         tracking' \in Numbers \cup {None},
         Counted(r), Knows(r, made, branch, remote)
  PROVE  IInv'
<1>1. remote' \in Numbers /\ remote' >= remote /\ Knows(r, made, branch, remote')
  BY Before
<1> QED BY <1>1, OneDaemon

LEMMA StartPushDaemonStep ==
  ASSUME IInv, NEW d \in Daemons, StartPushDaemon(d)
  PROVE  IInv'
<1> DEFINE r == [NewDaemon EXCEPT !.at = "starting"]
<1>1. r \in DaemonStates /\ Counted(r) /\ Knows(r, made, branch, remote)
  <2>1. /\ NewDaemon \in DaemonStates
        /\ Counted(NewDaemon) /\ Knows(NewDaemon, made, branch, remote)
    BY Before, NewIsFine
  <2> QED BY <2>1 DEF DaemonStates, Counted, Knows
<1>2. /\ Become(d, r)
      /\ UNCHANGED <<made, branch, remote, tracking, diverged, unnotified>>
  BY DEF StartPushDaemon
<1> HIDE DEF r
<1> QED BY <1>1, <1>2, Before, QuietStep

LEMMA CreateDaemonStep ==
  ASSUME IInv, NEW d \in Daemons, CreateDaemon(d)
  PROVE  IInv'
<1> DEFINE r == [daemon[d] EXCEPT !.at = "running"]
<1>1. r \in DaemonStates /\ Counted(r) /\ Knows(r, made, branch, remote)
  BY Before DEF DaemonStates, Counted, Knows
<1>2. /\ Become(d, r)
      /\ UNCHANGED <<made, branch, remote, tracking, diverged, unnotified>>
  BY DEF CreateDaemon
<1> HIDE DEF r
<1> QED BY <1>1, <1>2, Before, QuietStep

LEMMA BeginCheckStep ==
  ASSUME IInv, NEW d \in Daemons, BeginCheck(d)
  PROVE  IInv'
<1> DEFINE r == [daemon[d] EXCEPT !.check = IF Running(d) THEN "fetching" ELSE "done"]
<1>1. r \in DaemonStates /\ Counted(r) /\ Knows(r, made, branch, remote)
  BY Before DEF DaemonStates, Counted, Knows
<1>2. /\ Become(d, r)
      /\ UNCHANGED <<made, branch, remote, tracking, diverged, unnotified>>
  BY DEF BeginCheck
<1> HIDE DEF r
<1> QED BY <1>1, <1>2, Before, QuietStep

LEMMA FetchStep ==
  ASSUME IInv, NEW d \in Daemons, Fetch(d)
  PROVE  IInv'
<1> DEFINE r == [daemon[d] EXCEPT !.check = "counting"]
<1>1. r \in DaemonStates /\ Counted(r) /\ Knows(r, made, branch, remote)
  BY Before DEF DaemonStates, Counted, Knows
<1>2. /\ Become(d, r)
      /\ UNCHANGED <<made, branch, remote, diverged, unnotified>>
      /\ tracking' \in Numbers \cup {None}
  BY Before DEF Fetch
<1> HIDE DEF r
<1> QED BY <1>1, <1>2, QuietStep

\* What the check counts is something.
LEMMA CountAheadStep ==
  ASSUME IInv, NEW d \in Daemons, CountAhead(d)
  PROVE  IInv'
<1> DEFINE ahead == {c \in branch : c > tracking}
<1>1. UNCHANGED <<made, branch, remote, tracking, diverged, unnotified>>
  BY DEF CountAhead
<1>2. CASE Become(d, [daemon[d] EXCEPT !.check = "done"])
  <2> DEFINE r == [daemon[d] EXCEPT !.check = "done"]
  <2>1. r \in DaemonStates /\ Counted(r) /\ Knows(r, made, branch, remote)
    BY Before DEF DaemonStates, Counted, Knows
  <2>2. Become(d, r)
    BY <1>2
  <2> HIDE DEF r
  <2> QED BY <1>1, <2>1, <2>2, Before, QuietStep
<1>3. CASE /\ tracking # None /\ ahead # {}
           /\ Become(d, [daemon[d] EXCEPT !.check = "parsing", !.ahead = Cardinality(ahead)])
  <2> DEFINE r == [daemon[d] EXCEPT !.check = "parsing", !.ahead = Cardinality(ahead)]
  <2>1. Cardinality(ahead) \in Numbers /\ Cardinality(ahead) > 0
    <3>1. tracking \in Nat /\ MaxCommits \in Nat
      BY <1>3, Before, ConstantsOK DEF Numbers
    <3>2. ahead \subseteq 1 .. MaxCommits
      <4>1. \A c \in branch : c \in 0 .. MaxCommits
        BY DEF IInv, TypeOK, Numbers
      <4> QED BY <3>1, <4>1
    <3> HIDE DEF ahead
    <3>3. IsFiniteSet(1 .. MaxCommits) /\ Cardinality(1 .. MaxCommits) = MaxCommits
      BY <3>1, FS_Interval
    <3>4. IsFiniteSet(ahead) /\ Cardinality(ahead) <= MaxCommits
      BY <3>2, <3>3, FS_Subset
    <3>5. Cardinality(ahead) \in Nat /\ Cardinality(ahead) # 0
      BY <1>3, <3>4, FS_CardinalityType, FS_EmptySet
    <3> QED BY <3>1, <3>4, <3>5 DEF Numbers
  <2>2. Become(d, r)
    BY <1>3
  <2> HIDE DEF ahead
  <2>3. r \in DaemonStates /\ Counted(r) /\ Knows(r, made, branch, remote)
    <3>1. daemon[d] \in DaemonStates
      BY Before
    <3>2. PICK n \in Numbers : n = Cardinality(ahead)
      BY <2>1
    <3>3. r = AtCheck(daemon[d], "parsing", n, daemon[d].headCommit)
      BY <3>1, <3>2 DEF AtCheck, DaemonStates
    <3>4. /\ daemon[d].headCommit \in Numbers \cup {None}
          /\ daemon[d].headCommit # None => daemon[d].headCommit <= made
      BY Before DEF DaemonStates, Knows
    <3> HIDE DEF r
    <3> QED BY <2>1, <3>2, <3>3, <3>4, Before, CheckKeeps
  <2> HIDE DEF r
  <2> QED BY <1>1, <2>2, <2>3, Before, QuietStep
<1> QED BY <1>2, <1>3 DEF CountAhead

LEMMA TipIsIn ==
  ASSUME IInv
  PROVE  Tip \in branch /\ Tip \in Numbers /\ Tip <= made
<1>1. made \in Nat /\ branch \in SUBSET (0 .. made) /\ branch # {}
  BY DEF IInv, TypeOK, Repository, Numbers
<1>2. Tip \in branch
  BY <1>1, MaxIsIn DEF Tip
<1> QED BY <1>1, <1>2 DEF IInv, TypeOK

LEMMA ParseHeadStep ==
  ASSUME IInv, NEW d \in Daemons, ParseHead(d)
  PROVE  IInv'
<1>0. /\ daemon[d].check = "parsing"
      /\ UNCHANGED <<made, branch, remote, tracking, diverged, unnotified>>
  BY DEF ParseHead
<1>1. PICK head \in {Tip, None} :
        Become(d, [daemon[d] EXCEPT !.check = "priming", !.headCommit = head])
  BY DEF ParseHead
<1> DEFINE r == [daemon[d] EXCEPT !.check = "priming", !.headCommit = head]
<1>2. r \in DaemonStates /\ Counted(r) /\ Knows(r, made, branch, remote)
  <2>1. daemon[d] \in DaemonStates
    BY Before
  <2>2. r = AtCheck(daemon[d], "priming", daemon[d].ahead, head)
    BY <2>1 DEF AtCheck, DaemonStates
  <2>3. daemon[d].ahead \in Numbers /\ daemon[d].ahead > 0
    BY <1>0, Before DEF DaemonStates, Counted
  <2>4. head \in Numbers \cup {None} /\ (head # None => head <= made)
    BY TipIsIn
  <2> HIDE DEF r
  <2> QED BY <2>2, <2>3, <2>4, Before, CheckKeeps
<1>3. Become(d, r)
  BY <1>1
<1> HIDE DEF r
<1> QED BY <1>0, <1>2, <1>3, Before, QuietStep

LEMMA PrimeStep ==
  ASSUME IInv, NEW d \in Daemons, Prime(d)
  PROVE  IInv'
<1> DEFINE r == IF AlreadyTargeted(daemon[d]) THEN Checked(daemon[d]) ELSE Primed(daemon[d])
<1>1. daemon[d].check = "priming" /\ Become(d, r)
      /\ UNCHANGED <<made, branch, remote, tracking, diverged, unnotified>>
  BY DEF Prime
<1>2. LET s == Checked(daemon[d])
      IN  s \in DaemonStates /\ Counted(s) /\ Knows(s, made, branch, remote)
  <2>1. 0 \in Numbers
    BY ConstantsOK DEF Numbers
  <2>2. Checked(daemon[d]) = AtCheck(daemon[d], "done", 0, None)
    BY DEF Checked, AtCheck
  <2> QED BY <2>1, <2>2, Before, CheckKeeps
<1>3. LET s == Primed(daemon[d])
      IN  s \in DaemonStates /\ Counted(s) /\ Knows(s, made, branch, remote)
  BY <1>1, Before, PrimedKeeps
<1>4. r \in DaemonStates /\ Counted(r) /\ Knows(r, made, branch, remote)
  BY <1>2, <1>3
<1> HIDE DEF r
<1> QED BY <1>1, <1>4, Before, QuietStep

\* git reads the branch, which has the commit the push is for.
LEMMA GitPushReadsStep ==
  ASSUME IInv, NEW d \in Daemons, GitPushReads(d)
  PROVE  IInv'
<1> DEFINE r == [daemon[d] EXCEPT !.sent = Tip]
<1>1. /\ daemon[d].push = "pushing" /\ Become(d, r)
      /\ UNCHANGED <<made, branch, remote, tracking, diverged, unnotified>>
  BY DEF GitPushReads
<1>2. daemon[d].commit # None => Tip >= Has(branch, daemon[d].commit)
  BY Before, Fields, HasIsIn DEF Tip
<1>3. r \in DaemonStates /\ Counted(r) /\ Knows(r, made, branch, remote)
  BY <1>2, TipIsIn, Before DEF DaemonStates, Counted, Knows
<1> HIDE DEF r
<1> QED BY <1>1, <1>3, Before, QuietStep

LEMMA PushSucceedsStep ==
  ASSUME IInv, NEW d \in Daemons, PushSucceeds(d)
  PROVE  IInv'
<1> DEFINE q == daemon[d]
           r == Handled(q, "pushed")
<1>1. /\ q.push = "pushing" /\ q.sent # None /\ q.sent >= remote
      /\ remote' = q.sent /\ tracking' = q.sent
      /\ Become(d, r)
      /\ UNCHANGED <<made, branch, diverged, unnotified>>
  BY DEF PushSucceeds
<1>2. /\ q \in DaemonStates /\ Counted(q) /\ Knows(q, made, branch, remote)
      /\ remote \in Nat /\ made \in Nat /\ branch \in SUBSET (0 .. made) /\ 0 \in branch
  BY Before
<1> HIDE DEF q
<1>3. q.sent \in Numbers /\ q.sent \in Nat
  BY <1>1, <1>2, Fields DEF DaemonStates
<1>4. q.commit # None => q.sent >= Has(branch, q.commit)
  BY <1>1, <1>2 DEF Knows
<1>5. Knows(q, made, branch, remote')
  <2>1. q.lastHandled # None => Has(branch, q.lastHandled) \in Nat
    <3> SUFFICES ASSUME q.lastHandled # None PROVE Has(branch, q.lastHandled) \in Nat
      OBVIOUS
    <3>1. q.lastHandled \in Nat
      BY <1>2, Fields
    <3>2. Has(branch, q.lastHandled) \in branch
      BY <1>2, <3>1, HasIsIn
    <3>3. \A x \in branch : x \in Nat
      BY <1>2
    <3> QED BY <3>2, <3>3
  <2> QED BY <1>1, <1>2, <1>3, <2>1 DEF Knows
<1>6. r \in DaemonStates /\ Counted(r) /\ Knows(r, made, branch, remote')
  BY <1>1, <1>2, <1>4, <1>5, HandledKeeps
<1> HIDE DEF r
<1>7. remote' \in Numbers /\ remote' >= remote /\ tracking' \in Numbers \cup {None}
  BY <1>1, <1>2, <1>3
<1> QED BY <1>1, <1>6, <1>7, OneDaemon

LEMMA PushRejectedStep ==
  ASSUME IInv, NEW d \in Daemons, PushRejected(d)
  PROVE  IInv'
<1> DEFINE r == Handled(daemon[d], "refused")
<1>1. /\ daemon[d].push = "pushing" /\ Become(d, r)
      /\ UNCHANGED <<made, branch, remote, tracking, diverged, unnotified>>
  BY DEF PushRejected
<1>2. r \in DaemonStates /\ Counted(r) /\ Knows(r, made, branch, remote)
  BY <1>1, Before, HandledKeeps
<1> HIDE DEF r
<1> QED BY <1>1, <1>2, Before, QuietStep

LEMMA PushFailsStep ==
  ASSUME IInv, NEW d \in Daemons, PushFails(d)
  PROVE  IInv'
<1> DEFINE s == [daemon[d] EXCEPT !.push = "sleeping"]
           r == IF GivesUp(daemon[d]) THEN Handled(daemon[d], "refused") ELSE s
<1>1. /\ daemon[d].push = "pushing" /\ Become(d, r)
      /\ UNCHANGED <<made, branch, remote, tracking, diverged, unnotified>>
  BY DEF PushFails
<1>2. CASE GivesUp(daemon[d])
  <2>1. r \in DaemonStates /\ Counted(r) /\ Knows(r, made, branch, remote)
    BY <1>1, <1>2, Before, HandledKeeps
  <2> HIDE DEF r
  <2> QED BY <1>1, <2>1, Before, QuietStep
<1>3. CASE ~GivesUp(daemon[d])
  <2>1. s \in DaemonStates
    BY Before DEF DaemonStates
  <2>2. daemon[d].attempt < MaxRetries
    BY <1>3, Before, Fields, ConstantsOK DEF GivesUp
  <2>3. Counted(s) /\ Knows(s, made, branch, remote)
    BY <1>1, <2>2, Before DEF DaemonStates, Counted, Knows
  <2> HIDE DEF s
  <2> QED BY <1>1, <1>3, <2>1, <2>3, Before, QuietStep
<1> QED BY <1>2, <1>3

LEMMA WakeUpStep ==
  ASSUME IInv, NEW d \in Daemons, WakeUp(d)
  PROVE  IInv'
<1> DEFINE q == daemon[d]
<1>1. /\ q.push = "sleeping"
      /\ Become(d, IF Running(d) THEN Attempt(q) ELSE Finished(q))
      /\ UNCHANGED <<made, branch, remote, tracking, diverged, unnotified>>
  BY DEF WakeUp
<1>2. q \in DaemonStates /\ Counted(q) /\ Knows(q, made, branch, remote)
  BY Before
<1> HIDE DEF q
<1>3. LET r == Attempt(q)
      IN  r \in DaemonStates /\ Counted(r) /\ Knows(r, made, branch, remote)
  <2> DEFINE r == Attempt(q)
  <2>1. q.attempt + 1 \in 0 .. MaxRetries
    BY <1>1, <1>2, Fields, ConstantsOK DEF Counted
  <2>2. r \in DaemonStates
    BY <1>2, <2>1 DEF Attempt, DaemonStates
  <2>3. /\ r.push = "pushing" /\ r.sent = None /\ r.handled = q.handled /\ r.upTo = q.upTo
        /\ r.pending = q.pending /\ r.last = q.last /\ r.lastHandled = q.lastHandled
        /\ r.commit = q.commit /\ r.at = q.at /\ r.timedOut = q.timedOut
        /\ r.check = q.check /\ r.ahead = q.ahead /\ r.headCommit = q.headCommit
        /\ r.outcome = q.outcome
    BY <1>2 DEF Attempt, DaemonStates
  <2> HIDE DEF r
  <2>4. Counted(r) /\ Knows(r, made, branch, remote)
    BY <1>1, <1>2, <2>3 DEF Counted, Knows
  <2> QED BY <2>2, <2>4 DEF r
<1>4. LET r == Finished(q)
      IN  r \in DaemonStates /\ Counted(r) /\ Knows(r, made, branch, remote)
  <2> DEFINE t == [q EXCEPT !.push = "none", !.sent = None, !.attempt = 0]
  <2>1. /\ t.push = "none" /\ t.handled = q.handled /\ t.pending = q.pending
        /\ t.last = q.last /\ t.lastHandled = q.lastHandled /\ t.check = q.check
        /\ t.ahead = q.ahead /\ t.outcome = q.outcome
    BY <1>2 DEF DaemonStates
  <2> HIDE DEF t
  <2>2. q.handled < q.pending
    BY <1>1, <1>2, Fields DEF Counted
  <2>3. Counted(t)
    BY <1>1, <1>2, <2>1, <2>2, Fields DEF Counted
  <2> QED BY <1>2, <2>3, FinishedKeeps DEF t
<1>5. CASE Running(d)
  BY <1>1, <1>3, <1>5, Before, QuietStep
<1>6. CASE ~Running(d)
  BY <1>1, <1>4, <1>6, Before, QuietStep
<1> QED BY <1>5, <1>6

\* stop: whoever does not wait leaves no push.
LEMMA StopStep ==
  ASSUME IInv, NEW d \in Daemons, Stop(d)
  PROVE  IInv'
<1> DEFINE q == daemon[d]
           r == [q EXCEPT !.at = AfterStop(q),
                          !.push = IF q.push = "sleeping" THEN "stranded" ELSE q.push]
<1>1. /\ Become(d, r)
      /\ UNCHANGED <<made, branch, remote, tracking, diverged, unnotified>>
  BY DEF Stop
<1>2. q \in DaemonStates /\ Counted(q) /\ Knows(q, made, branch, remote)
  BY Before
<1> HIDE DEF q
<1>3. r \in DaemonStates /\ Counted(r) /\ Knows(r, made, branch, remote)
  <2>1. PICK a \in {"stopping", "stopped"} : a = AfterStop(q)
    BY DEF AfterStop
  <2>2. PICK p \in {q.push, "stranded"} : p = IF q.push = "sleeping" THEN "stranded" ELSE q.push
    OBVIOUS
  <2>3. q.timedOut \in BOOLEAN
    BY <1>2 DEF DaemonStates
  <2>4. r = AtStop(q, a, p, q.timedOut)
    BY <1>2, <2>1, <2>2 DEF AtStop, DaemonStates
  <2> HIDE DEF r
  <2>5. q.push = "none" => p = "none"
    BY <2>2
  <2>6. a = "stopped" => p = "none"
    BY <2>1, <2>5 DEF AfterStop
  <2> QED BY <1>2, <2>3, <2>4, <2>5, <2>6, StopKeeps
<1> HIDE DEF r
<1> QED BY <1>1, <1>3, Before, QuietStep

LEMMA StopIdleStep ==
  ASSUME IInv, NEW d \in Daemons, StopIdle(d)
  PROVE  IInv'
<1> DEFINE r == [daemon[d] EXCEPT !.at = "stopped"]
<1>0. daemon[d].push = "none"
  BY DEF StopIdle
<1>1. r \in DaemonStates /\ Counted(r) /\ Knows(r, made, branch, remote)
  <2>1. daemon[d] \in DaemonStates /\ daemon[d].timedOut \in BOOLEAN
    BY Before DEF DaemonStates
  <2>2. r = AtStop(daemon[d], "stopped", daemon[d].push, daemon[d].timedOut)
    BY <2>1 DEF AtStop, DaemonStates
  <2> HIDE DEF r
  <2> QED BY <1>0, <2>1, <2>2, Before, StopKeeps
<1>2. /\ Become(d, r)
      /\ UNCHANGED <<made, branch, remote, tracking, diverged, unnotified>>
  BY DEF StopIdle
<1> HIDE DEF r
<1> QED BY <1>1, <1>2, Before, QuietStep

LEMMA StopTimesOutStep ==
  ASSUME IInv, NEW d \in Daemons, StopTimesOut(d)
  PROVE  IInv'
<1> DEFINE r == [daemon[d] EXCEPT !.at = "stopped", !.timedOut = TRUE]
<1>1. r \in DaemonStates /\ Counted(r) /\ Knows(r, made, branch, remote)
  <2>1. daemon[d] \in DaemonStates
    BY Before
  <2>2. r = AtStop(daemon[d], "stopped", daemon[d].push, TRUE)
    BY <2>1 DEF AtStop, DaemonStates
  <2> HIDE DEF r
  <2> QED BY <2>2, Before, StopKeeps
<1>2. /\ Become(d, r)
      /\ UNCHANGED <<made, branch, remote, tracking, diverged, unnotified>>
  BY DEF StopTimesOut
<1> HIDE DEF r
<1> QED BY <1>1, <1>2, Before, QuietStep

LEMMA RuntimeStep ==
  ASSUME IInv, NEW d \in Daemons, Runtime(d)
  PROVE  IInv'
BY CreateDaemonStep, BeginCheckStep, FetchStep, CountAheadStep, ParseHeadStep, PrimeStep,
   GitPushReadsStep, PushRejectedStep, PushFailsStep, PushSucceedsStep, WakeUpStep,
   StopIdleStep, StopTimesOutStep DEF Runtime

LEMMA StepInv == IInv /\ [Next]_vars => IInv'
<1> SUFFICES ASSUME IInv, [Next]_vars PROVE IInv'
  OBVIOUS
<1>1. CASE UNCHANGED vars
  BY <1>1 DEF vars, IInv, TypeOK, Repository
<1>2. CASE World
  BY <1>2, CommitStep, DivergeStep, ReconcileStep, ExitStep DEF World
<1>3. CASE CallHooks
  BY <1>3, CallHooksStep
<1>4. CASE \E d \in Daemons : Client(d) \/ Runtime(d)
  BY <1>4, StartPushDaemonStep, StopStep, RuntimeStep DEF Client
<1> QED BY <1>1, <1>2, <1>3, <1>4 DEF Next

LEMMA Invariance == Spec => []IInv
<1> QED BY InitInv, StepInv, PTL DEF Spec

-----------------------------------------------------------------------------
\* Every variable stays within its type; above all, no push is tried more often
\* than maxRetries says (the fields of PushDaemon).
THEOREM TypeCorrect == Spec => []TypeOK
<1>1. IInv => TypeOK
  BY DEF IInv
<1> QED BY <1>1, Invariance, PTL

\* However notifications, the start-up check, retries and other pushers
\* interleave: a daemon that reports nothing pending after a successful push has
\* its last commit on the remote (#drain, #pushWithBackoff, checkStartupBacklog).
THEOREM QuietIsPushed == Spec => []QuietMeansPushed
<1>1. IInv => QuietMeansPushed
  <2> SUFFICES ASSUME IInv, NEW d \in Daemons, Quiet(daemon[d]), daemon[d].last # None
               PROVE  remote >= OnBranch(daemon[d].last)
    BY DEF QuietMeansPushed
  <2>1. daemon[d].last = daemon[d].lastHandled
    BY Before DEF Quiet, Counted
  <2> QED BY <2>1, Before DEF Quiet, Knows, OnBranch, Has
<1> QED BY <1>1, Invariance, PTL

\* A stop that returns in time leaves no push loop behind (stop, #drain).
THEOREM StopLeavesNoPush == Spec => []StoppedMeansIdle
<1>1. IInv => StoppedMeansIdle
  BY DEF IInv, Counted, StoppedMeansIdle
<1> QED BY <1>1, Invariance, PTL

-----------------------------------------------------------------------------
(* push-sync.md, "Lifecycle" 3, which Spec does not keep: what it takes.   *)

\* When the start-up check is about to prime a daemon, the daemon has not been
\* notified meanwhile of a commit that is newer than the head the check has read.
HeadIsNotOvertaken ==
  \A d \in Daemons :
    daemon[d].check = "priming" /\ daemon[d].headCommit # None /\ ~AlreadyTargeted(daemon[d])
      => OnBranch(daemon[d].heard) <= daemon[d].headCommit

\* What the branch has of the commits a daemon was notified of, it has of the
\* commit the daemon is going to push.
Follows(r, m, B) ==
  /\ r.heard <= m
  /\ r.last = None => r.heard = 0
  /\ r.last # None => Has(B, r.heard) <= Has(B, r.last)

LastFollows == \A d \in Daemons : Follows(daemon[d], made, branch)

\* No synchronous stretch but a notification and the end of the check changes
\* what is to be pushed.
LEMMA StretchesKeepLast ==
  ASSUME NEW r \in DaemonStates
  PROVE  /\ Drain(r).last = r.last /\ Drain(r).heard = r.heard
         /\ \A outcome : Handled(r, outcome).last = r.last /\ Handled(r, outcome).heard = r.heard
         /\ Finished(r).last = r.last /\ Finished(r).heard = r.heard
         /\ Attempt(r).last = r.last /\ Attempt(r).heard = r.heard
         /\ Checked(r).last = r.last /\ Checked(r).heard = r.heard
<1>1. ASSUME NEW t, DOMAIN t = DOMAIN r
      PROVE  /\ Drain(t).last = t.last /\ Drain(t).heard = t.heard
             /\ DOMAIN Drain(t) = DOMAIN r
  BY <1>1 DEF Drain, Attempt, DaemonStates
<1>2. ASSUME NEW t, DOMAIN t = DOMAIN r
      PROVE  Finished(t).last = t.last /\ Finished(t).heard = t.heard
  <2> DEFINE idle == [t EXCEPT !.push = "none", !.sent = None, !.attempt = 0]
  <2>1. idle.last = t.last /\ idle.heard = t.heard /\ DOMAIN idle = DOMAIN r
    BY <1>2 DEF DaemonStates
  <2>2. Finished(t) = IF t.at = "stopping" THEN idle ELSE Drain(idle)
    BY DEF Finished
  <2> HIDE DEF idle
  <2> QED BY <1>1, <2>1, <2>2
<1>3. ASSUME NEW outcome
      PROVE  Handled(r, outcome).last = r.last /\ Handled(r, outcome).heard = r.heard
  <2> DEFINE t == [r EXCEPT !.handled = HandledUpTo(r), !.lastHandled = r.commit,
                            !.outcome = outcome]
  <2>1. t.last = r.last /\ t.heard = r.heard /\ DOMAIN t = DOMAIN r
    BY DEF DaemonStates
  <2>2. Handled(r, outcome) = Finished(t)
    BY DEF Handled
  <2> HIDE DEF t
  <2> QED BY <1>2, <2>1, <2>2
<1>4. /\ Attempt(r).last = r.last /\ Attempt(r).heard = r.heard
      /\ Checked(r).last = r.last /\ Checked(r).heard = r.heard
  BY DEF Attempt, Checked, DaemonStates
<1> QED BY <1>1, <1>2, <1>3, <1>4

LEMMA PrimedFollows ==
  ASSUME IInv, LastFollows, HeadIsNotOvertaken, NEW d \in Daemons, daemon[d].check = "priming",
         ~AlreadyTargeted(daemon[d])
  PROVE  Follows(Primed(daemon[d]), made, branch)
<1> DEFINE r == daemon[d]
           last == IF r.headCommit = None THEN r.last ELSE r.headCommit
           t == [r EXCEPT !.pending = r.pending + r.ahead, !.last = last]
<1>1. /\ r \in DaemonStates /\ r.heard \in Nat
      /\ made \in Nat /\ branch \in SUBSET (0 .. made) /\ 0 \in branch
      /\ Follows(r, made, branch)
  BY Before DEF DaemonStates, Numbers, LastFollows
<1>2. t \in DaemonStates /\ t.last = last /\ t.heard = r.heard
  <2>1. r.pending + r.ahead \in Nat /\ last \in Numbers \cup {None}
    BY <1>1, Fields DEF DaemonStates
  <2> HIDE DEF last
  <2> QED BY <1>1, <2>1 DEF DaemonStates
<1>3. Checked(t) \in DaemonStates
  <2>1. 0 \in Numbers
    BY ConstantsOK DEF Numbers
  <2> HIDE DEF t
  <2> QED BY <1>2, <2>1 DEF Checked, DaemonStates
<1>4. Primed(r).last = last /\ Primed(r).heard = r.heard
  <2>1. Primed(r) = Drain(Checked(t))
    BY DEF Primed, WithBacklog
  <2> HIDE DEF t, r, last
  <2> QED BY <1>2, <1>3, <2>1, StretchesKeepLast
<1>5. CASE r.headCommit = None
  BY <1>1, <1>4, <1>5 DEF Follows
<1>6. CASE r.headCommit # None
  <2>1. Has(branch, r.heard) <= r.headCommit
    BY <1>6 DEF HeadIsNotOvertaken, OnBranch, Has
  <2>2. last = r.headCommit /\ r.headCommit \in Nat
    BY <1>1, <1>6, Fields
  <2> HIDE DEF r, last
  <2>3. Has(branch, r.heard) \in branch /\ Has(branch, r.heard) \in Nat
    BY <1>1, HasIsNat
  <2>4. Has(branch, r.heard) <= Has(branch, r.headCommit)
    <3> DEFINE S == {b \in branch : b <= r.headCommit}
    <3>1. Has(branch, r.heard) \in S /\ S \in SUBSET (0 .. made)
      BY <1>1, <2>1, <2>3
    <3>2. S # {}
      BY <3>1
    <3>3. Max(S) >= Has(branch, r.heard)
      <4> HIDE DEF S
      <4> QED BY <1>1, <3>1, <3>2, MaxIsIn
    <3>4. Has(branch, r.headCommit) = Max(S)
      BY DEF Has
    <3>5. Has(branch, r.headCommit) \in Nat
      BY <1>1, <2>2, HasIsNat
    <3> HIDE DEF S
    <3> QED BY <2>3, <3>3, <3>4, <3>5
  <2>5. Follows(Primed(r), made, branch)
    BY <1>1, <1>4, <1>6, <2>2, <2>4 DEF Follows
  <2> QED BY <2>5 DEF r
<1> QED BY <1>5, <1>6

\* A daemon that is made, by startPushDaemon or after the end of the process
LEMMA NewFollows ==
  ASSUME NEW m \in Nat, NEW B, NEW r, r.last = None, r.heard = 0
  PROVE  Follows(r, m, B)
BY DEF Follows

LEMMA RuntimeFollows ==
  ASSUME IInv, LastFollows, HeadIsNotOvertaken, NEW d \in Daemons, Client(d) \/ Runtime(d)
  PROVE  LastFollows'
<1>1. /\ daemon[d] \in DaemonStates /\ daemon \in [Daemons -> DaemonStates] /\ made \in Nat
      /\ Follows(daemon[d], made, branch)
  BY Before DEF IInv, TypeOK, LastFollows
<1>2. ASSUME NEW r, Become(d, r), UNCHANGED <<made, branch>>, Follows(r, made, branch)
      PROVE  LastFollows'
  BY <1>1, <1>2 DEF Become, LastFollows
<1>3. ASSUME NEW r, Become(d, r), UNCHANGED <<made, branch>>,
             r.last = daemon[d].last, r.heard = daemon[d].heard
      PROVE  LastFollows'
  BY <1>1, <1>2, <1>3 DEF Follows
<1>4. CASE StartPushDaemon(d)
  <2> DEFINE r == [NewDaemon EXCEPT !.at = "starting"]
  <2>1. r.last = None /\ r.heard = 0
    BY DEF NewDaemon
  <2>2. Become(d, r) /\ UNCHANGED <<made, branch>>
    BY <1>4 DEF StartPushDaemon
  <2> HIDE DEF r
  <2> QED BY <1>1, <1>2, <2>1, <2>2, NewFollows
<1>5. CASE Prime(d)
  <2>1. daemon[d].check = "priming" /\ UNCHANGED <<made, branch>>
        /\ Become(d, IF AlreadyTargeted(daemon[d]) THEN Checked(daemon[d]) ELSE Primed(daemon[d]))
    BY <1>5 DEF Prime
  <2>2. CASE AlreadyTargeted(daemon[d])
    BY <1>1, <1>3, <2>1, <2>2, StretchesKeepLast
  <2>3. CASE ~AlreadyTargeted(daemon[d])
    BY <1>2, <2>1, <2>3, PrimedFollows
  <2> QED BY <2>2, <2>3
<1>6. CASE PushSucceeds(d) \/ PushRejected(d) \/ PushFails(d) \/ WakeUp(d)
  <2>1. UNCHANGED <<made, branch>>
    BY <1>6 DEF PushSucceeds, PushRejected, PushFails, WakeUp
  <2>2. \E r : /\ Become(d, r)
               /\ r \in {Handled(daemon[d], "pushed"), Handled(daemon[d], "refused"),
                         [daemon[d] EXCEPT !.push = "sleeping"],
                         Attempt(daemon[d]), Finished(daemon[d])}
    BY <1>6 DEF PushSucceeds, PushRejected, PushFails, WakeUp
  <2>3. [daemon[d] EXCEPT !.push = "sleeping"].last = daemon[d].last
        /\ [daemon[d] EXCEPT !.push = "sleeping"].heard = daemon[d].heard
    BY <1>1 DEF DaemonStates
  <2> QED BY <1>1, <1>3, <2>1, <2>2, <2>3, StretchesKeepLast, ZenonT(60)
<1>7. CASE \/ CreateDaemon(d) \/ BeginCheck(d) \/ Fetch(d) \/ CountAhead(d) \/ ParseHead(d)
           \/ GitPushReads(d) \/ StopIdle(d) \/ StopTimesOut(d) \/ Stop(d)
  <2>1. UNCHANGED <<made, branch>>
    BY <1>7 DEF CreateDaemon, BeginCheck, Fetch, CountAhead, ParseHead, GitPushReads, StopIdle,
       StopTimesOut, Stop
  <2> DEFINE r == daemon'[d]
  <2>2. Become(d, r) /\ r.last = daemon[d].last /\ r.heard = daemon[d].heard
    <3>1. CASE CreateDaemon(d) \/ BeginCheck(d) \/ Fetch(d)
      BY <1>1, <3>1 DEF CreateDaemon, BeginCheck, Fetch, Become, DaemonStates
    <3>2. CASE CountAhead(d)
      <4>1. \/ Become(d, [daemon[d] EXCEPT !.check = "done"])
            \/ \E n : Become(d, [daemon[d] EXCEPT !.check = "parsing", !.ahead = n])
        BY <3>2 DEF CountAhead
      <4>2. CASE Become(d, [daemon[d] EXCEPT !.check = "done"])
        BY <1>1, <4>2 DEF Become, DaemonStates
      <4>3. ASSUME NEW n, Become(d, [daemon[d] EXCEPT !.check = "parsing", !.ahead = n])
            PROVE  Become(d, r) /\ r.last = daemon[d].last /\ r.heard = daemon[d].heard
        BY <1>1, <4>3 DEF Become, DaemonStates
      <4> HIDE DEF r
      <4> QED BY <4>1, <4>2, <4>3
    <3>3. CASE ParseHead(d) \/ GitPushReads(d)
      <4>1. \/ \E h : Become(d, [daemon[d] EXCEPT !.check = "priming", !.headCommit = h])
            \/ Become(d, [daemon[d] EXCEPT !.sent = Tip])
        BY <3>3 DEF ParseHead, GitPushReads
      <4>2. ASSUME NEW h, Become(d, [daemon[d] EXCEPT !.check = "priming", !.headCommit = h])
            PROVE  Become(d, r) /\ r.last = daemon[d].last /\ r.heard = daemon[d].heard
        BY <1>1, <4>2 DEF Become, DaemonStates
      <4>3. CASE Become(d, [daemon[d] EXCEPT !.sent = Tip])
        BY <1>1, <4>3 DEF Become, DaemonStates
      <4> HIDE DEF r
      <4> QED BY <4>1, <4>2, <4>3
    <3>4. CASE StopIdle(d) \/ StopTimesOut(d)
      <4>1. \/ Become(d, [daemon[d] EXCEPT !.at = "stopped"])
            \/ Become(d, [daemon[d] EXCEPT !.at = "stopped", !.timedOut = TRUE])
        BY <3>4 DEF StopIdle, StopTimesOut
      <4> QED BY <1>1, <4>1, ZenonT(60) DEF Become, DaemonStates
    <3>5. CASE Stop(d)
      BY <1>1, <3>5 DEF Stop, Become, DaemonStates
    <3> QED BY <1>7, <3>1, <3>2, <3>3, <3>4, <3>5
  <2> HIDE DEF r
  <2> QED BY <1>3, <2>1, <2>2
<1> QED BY <1>4, <1>5, <1>6, <1>7 DEF Client, Runtime

\* A new commit is above all that daemons have heard of or are to push.
LEMMA CommitFollows ==
  ASSUME IInv, LastFollows, made' = made + 1, branch' \in {branch, branch \cup {made + 1}},
         UNCHANGED daemon
  PROVE  LastFollows'
<1> SUFFICES ASSUME NEW d \in Daemons PROVE Follows(daemon[d], made', branch')
  BY DEF LastFollows
<1> DEFINE r == daemon[d]
<1>1. /\ r \in DaemonStates /\ Knows(r, made, branch, remote) /\ Follows(r, made, branch)
      /\ made \in Nat /\ branch \in SUBSET (0 .. made)
  BY Before DEF LastFollows
<1>2. \A c \in 0 .. made : Has(branch', c) = Has(branch, c)
  BY <1>1, HasStays
<1> HIDE DEF r
<1>3. r.heard \in 0 .. made /\ (r.last # None => r.last \in 0 .. made)
  BY <1>1 DEF DaemonStates, Knows, Follows, Numbers
<1>4. Follows(r, made', branch')
  BY <1>1, <1>2, <1>3 DEF Follows
<1> QED BY <1>4 DEF r

LEMMA NotifiedFollows ==
  ASSUME IInv, LastFollows, CallHooks
  PROVE  LastFollows'
<1>1. /\ unnotified \in Numbers /\ unnotified <= made /\ unnotified # None
      /\ daemon' = [d \in Daemons |-> Notified(daemon[d], unnotified)]
      /\ UNCHANGED <<made, branch>>
  BY ConstantsOK DEF CallHooks, IInv, TypeOK, Repository
<1> SUFFICES ASSUME NEW d \in Daemons PROVE Follows(daemon'[d], made, branch)
  BY <1>1 DEF LastFollows
<1> DEFINE r == daemon[d]
           s == [r EXCEPT !.pending = r.pending + 1, !.last = unnotified, !.heard = unnotified]
<1>2. r \in DaemonStates /\ Follows(r, made, branch)
  BY Before DEF LastFollows
<1>3. daemon'[d] = IF r.at # "running" THEN r ELSE Drain(s)
  BY <1>1 DEF Notified
<1>4. s \in DaemonStates /\ s.last = unnotified /\ s.heard = unnotified
  <2>1. r.pending + 1 \in Nat
    BY <1>2, Fields
  <2> QED BY <1>1, <1>2, <2>1 DEF DaemonStates
<1> HIDE DEF r, s
<1>5. Follows(Drain(s), made, branch)
  <2>1. Drain(s).last = unnotified /\ Drain(s).heard = unnotified
    BY <1>4, StretchesKeepLast
  <2>2. Has(branch, unnotified) <= Has(branch, unnotified)
    <3>1. unnotified \in Nat /\ made \in Nat /\ branch \in SUBSET (0 .. made) /\ 0 \in branch
      BY <1>1, Before DEF Numbers
    <3>2. Has(branch, unnotified) \in Nat
      BY <3>1, HasIsNat
    <3> QED BY <3>2
  <2> QED BY <1>1, <2>1, <2>2 DEF Follows
<1> QED BY <1>2, <1>3, <1>5

LEMMA ExitFollows ==
  ASSUME IInv, Exit
  PROVE  LastFollows'
<1>1. \A d \in Daemons : daemon'[d] = NewDaemon
  BY DEF Exit
<1>2. made' = made /\ made \in Nat
  BY DEF Exit, IInv, TypeOK, Numbers
<1>3. Follows(NewDaemon, made, branch')
  BY <1>2, NewFollows DEF NewDaemon
<1> QED BY <1>1, <1>2, <1>3 DEF LastFollows

LEMMA StepFollows == IInv /\ LastFollows /\ HeadIsNotOvertaken /\ [Next]_vars => LastFollows'
<1> SUFFICES ASSUME IInv, LastFollows, HeadIsNotOvertaken, [Next]_vars PROVE LastFollows'
  OBVIOUS
<1>1. CASE Commit \/ Reconcile
  BY <1>1, CommitFollows DEF Commit, Reconcile
<1>2. CASE CallHooks
  BY <1>2, NotifiedFollows
<1>3. CASE Exit
  BY <1>3, ExitFollows
<1>4. CASE Diverge \/ UNCHANGED vars
  BY <1>4 DEF Diverge, vars, LastFollows
<1>5. CASE \E d \in Daemons : Client(d) \/ Runtime(d)
  BY <1>5, RuntimeFollows
<1> QED BY <1>1, <1>2, <1>3, <1>4, <1>5 DEF Next, World

\* The claim of push-sync.md holds of every behaviour in which no notification
\* overtakes the head that a start-up check has read: nothing else makes a
\* daemon forget a commit it was notified of (checkStartupBacklog, notifyCommit).
THEOREM EveryCommitIsPushedOtherwise == Spec /\ []HeadIsNotOvertaken => []EveryCommitIsPushed
<1>1. Init => LastFollows
  BY ConstantsOK, NewFollows DEF Init, LastFollows, NewDaemon
<1>2. IInv /\ LastFollows => EveryCommitIsPushed
  <2> SUFFICES ASSUME IInv, LastFollows, NEW d \in Daemons, Quiet(daemon[d])
               PROVE  remote >= Has(branch, daemon[d].heard)
    BY DEF EveryCommitIsPushed, OnBranch, Has
  <2>1. daemon[d].last = daemon[d].lastHandled
    BY Before DEF Quiet, Counted
  <2>2. /\ daemon[d].heard \in Nat /\ remote \in Nat
        /\ made \in Nat /\ branch \in SUBSET (0 .. made) /\ 0 \in branch
    BY Before DEF DaemonStates, Numbers
  <2>3. Has(branch, daemon[d].heard) \in Nat
    BY <2>2, HasIsNat
  <2>4. CASE daemon[d].last = None
    <3>1. daemon[d].heard = 0
      BY <2>4 DEF LastFollows, Follows
    <3>2. Has(branch, daemon[d].heard) <= 0
      BY <2>2, <3>1, HasIsIn
    <3> QED BY <2>2, <2>3, <3>2
  <2>5. CASE daemon[d].last # None
    <3>1. remote >= Has(branch, daemon[d].last)
      BY <2>1, <2>5, Before DEF Quiet, Knows
    <3>2. Has(branch, daemon[d].heard) <= Has(branch, daemon[d].last)
      BY <2>5 DEF LastFollows, Follows
    <3>3. Has(branch, daemon[d].last) \in Nat
      BY <2>2, <2>5, Before, Fields, HasIsNat
    <3> QED BY <2>2, <2>3, <3>1, <3>2, <3>3
  <2> QED BY <2>4, <2>5
<1>3. IInv /\ LastFollows /\ HeadIsNotOvertaken /\ [Next]_vars => LastFollows'
  BY StepFollows
<1> QED BY <1>1, <1>2, <1>3, Invariance, PTL DEF Spec

=============================================================================
