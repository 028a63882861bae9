----------------------------- MODULE PushDaemon -----------------------------
(***************************************************************************)
(* The push daemon (packages/gitsheets/src/push-daemon.ts) and             *)
(* Repository.startPushDaemon: commits are notified to the daemon, which   *)
(* pushes the branch to a remote with retries; a check at its start picks  *)
(* up what an earlier process left unpushed; stop waits for the push in    *)
(* flight, but not for ever.                                               *)
(*                                                                         *)
(* Commits are numbered in the order in which they are made; 0 is the      *)
(* commit everybody starts from.  A child process (git push, fetch,        *)
(* rev-list, rev-parse) reads the repository in one step and its result is *)
(* used in a later one; the synchronous code between two awaits is one     *)
(* step.                                                                   *)
(***************************************************************************)
EXTENDS Naturals, FiniteSetsExt

CONSTANTS Daemons,       \* PushDaemon instances; a new one may take an idle one's name
          None,          \* null, undefined, or not read yet
          MaxCommits,    \* bound on the number of commits
          MaxRetries     \* the maxRetries option

ASSUME ConstantsOK ==
  /\ None \notin Nat \cup Daemons
  /\ MaxCommits \in Nat
  /\ MaxRetries \in Nat \ {0}

VARIABLES made,       \* the number of commits made
          branch,     \* the commits on the daemon's branch
          remote,     \* the last of them the remote has
          tracking,   \* the remote-tracking ref, None if there is none
          diverged,   \* the remote has a commit that the branch has not
          unnotified, \* the commit whose transact has not called the hooks yet
          daemon      \* [Daemons -> the state of the PushDaemon]

vars == <<made, branch, remote, tracking, diverged, unnotified, daemon>>

-----------------------------------------------------------------------------
Numbers == 0 .. MaxCommits
Tip == Max(branch)

\* at: starting is before startPushDaemon has named the branch, stopping is
\* waiting in stop.  check: where checkStartupBacklog is.  push: where the
\* push loop is; a stranded one sleeps on a timer that stop has cleared.
\* sent: what the running git push has read.  outcome: how the last push ended.
\* heard: the last commit it was notified of (no code reads it).
DaemonStates ==
  [at : {"unused", "starting", "running", "stopping", "stopped"},
   check : {"scheduled", "fetching", "counting", "parsing", "priming", "done"},
   ahead : Numbers, headCommit : Numbers \cup {None},
   pending : Nat, handled : Nat,
   last : Numbers \cup {None}, lastHandled : Numbers \cup {None},
   push : {"none", "pushing", "sleeping", "stranded"},
   sent : Numbers \cup {None}, upTo : Nat, commit : Numbers \cup {None},
   attempt : 0 .. MaxRetries,
   outcome : {"none", "pushed", "refused"}, timedOut : BOOLEAN,
   heard : Numbers]

NewDaemon ==
  [at |-> "unused", check |-> "scheduled", ahead |-> 0, headCommit |-> None,
   pending |-> 0, handled |-> 0, last |-> None, lastHandled |-> None,
   push |-> "none", sent |-> None, upTo |-> 0, commit |-> None, attempt |-> 0,
   outcome |-> "none", timedOut |-> FALSE, heard |-> 0]

Init ==
  /\ made = 0 /\ branch = {0}
  /\ remote = 0 /\ tracking \in {0, None}
  /\ diverged = FALSE
  /\ unnotified = None
  /\ daemon = [d \in Daemons |-> NewDaemon]

Running(d) == daemon[d].at = "running"
\* Repository.#pushDaemon is set.
Registered == \E d \in Daemons : daemon[d].at \in {"running", "stopping"}

-----------------------------------------------------------------------------
(* The synchronous stretches of the daemon, as functions of its state.     *)

\* #pushWithBackoff up to the git push of its next attempt.
Attempt_NotCounted(r) == [r EXCEPT !.push = "pushing", !.sent = None]
Attempt(r) == [r EXCEPT !.push = "pushing", !.sent = None, !.attempt = r.attempt + 1]

\* #drain: one push at a time, only for something new.
IsCoalesced(r) == r.last # None /\ r.last = r.lastHandled

Drain(r) ==
  CASE r.push # "none" \/ r.at # "running" \/ r.pending <= r.handled -> r
    [] OTHER ->
         IF IsCoalesced(r)
         THEN [r EXCEPT !.handled = r.pending]
         ELSE Attempt([r EXCEPT !.upTo = r.pending, !.commit = r.last, !.attempt = 0])

\* A push loop ends; #drain's finally clause wakes stop, or drains again.
Finished(r) ==
  LET idle == [r EXCEPT !.push = "none", !.sent = None, !.attempt = 0]
  IN IF r.at = "stopping" THEN idle ELSE Drain(idle)

\* The batch is dealt with: everything notified before the push began.
HandledUpTo_Now(r) == r.pending
HandledUpTo(r) == r.upTo

Handled(r, outcome) ==
  Finished([r EXCEPT !.handled = HandledUpTo(r), !.lastHandled = r.commit,
                     !.outcome = outcome])

Notified(r, c) ==
  IF r.at # "running" THEN r
  ELSE Drain([r EXCEPT !.pending = r.pending + 1, !.last = c, !.heard = c])

Become(d, r) == daemon' = [daemon EXCEPT ![d] = r]

-----------------------------------------------------------------------------
(* The world: transact, other users of the repository and of the remote.   *)

\* transact has committed, on the daemon's branch or on another.
Commit ==
  /\ unnotified = None
  /\ made < MaxCommits
  /\ made' = made + 1
  /\ branch' \in {branch, branch \cup {made + 1}}
  /\ unnotified' = made + 1
  /\ UNCHANGED <<remote, tracking, diverged, daemon>>

\* transact calls the post-commit hooks.
CallHooks ==
  /\ unnotified # None
  /\ daemon' = [d \in Daemons |-> Notified(daemon[d], unnotified)]
  /\ unnotified' = None
  /\ UNCHANGED <<made, branch, remote, tracking, diverged>>

\* Somebody else pushes to the remote.
Diverge ==
  /\ ~diverged
  /\ diverged' = TRUE
  /\ UNCHANGED <<made, branch, remote, tracking, unnotified, daemon>>

\* The consumer merges what is on the remote, with git.
Reconcile ==
  /\ diverged
  /\ made < MaxCommits
  /\ diverged' = FALSE
  /\ made' = made + 1
  /\ branch' = branch \cup {made + 1}
  /\ tracking' = remote
  /\ UNCHANGED <<remote, unnotified, daemon>>

-----------------------------------------------------------------------------
(* Starting.                                                               *)

\* The guard of startPushDaemon, and the await of HEAD's name when no branch
\* is given.
StartPushDaemon(d) ==
  /\ daemon[d].at \in {"unused", "stopped"} /\ daemon[d].push = "none"
  /\ ~Registered
  /\ Become(d, [NewDaemon EXCEPT !.at = "starting"])
  /\ UNCHANGED <<made, branch, remote, tracking, diverged, unnotified>>

CreateDaemon(d) ==
  /\ daemon[d].at = "starting"
  /\ Become(d, [daemon[d] EXCEPT !.at = "running"])
  /\ UNCHANGED <<made, branch, remote, tracking, diverged, unnotified>>

\* checkStartupBacklog runs in a setImmediate, if the daemon still runs.
BeginCheck(d) ==
  /\ daemon[d].check = "scheduled"
  /\ daemon[d].at \notin {"unused", "starting"}
  /\ Become(d, [daemon[d] EXCEPT !.check = IF Running(d) THEN "fetching" ELSE "done"])
  /\ UNCHANGED <<made, branch, remote, tracking, diverged, unnotified>>

\* The fetch, which may fail.
Fetch(d) ==
  /\ daemon[d].check = "fetching"
  /\ tracking' \in {tracking, remote}
  /\ Become(d, [daemon[d] EXCEPT !.check = "counting"])
  /\ UNCHANGED <<made, branch, remote, diverged, unnotified>>

\* rev-list --count: the commits of the branch that the tracking ref has not.
\* If there are none, and whenever it fails (it does without that ref), the check
\* is over.
CountAhead(d) ==
  LET ahead == {c \in branch : c > tracking}
  IN /\ daemon[d].check = "counting"
     /\ \/ Become(d, [daemon[d] EXCEPT !.check = "done"])
        \/ /\ tracking # None /\ ahead # {}
           /\ Become(d, [daemon[d] EXCEPT !.check = "parsing", !.ahead = Cardinality(ahead)])
     /\ UNCHANGED <<made, branch, remote, tracking, diverged, unnotified>>

\* rev-parse of the branch, which may fail too.
ParseHead(d) ==
  /\ daemon[d].check = "parsing"
  /\ \E head \in {Tip, None} :
       Become(d, [daemon[d] EXCEPT !.check = "priming", !.headCommit = head])
  /\ UNCHANGED <<made, branch, remote, tracking, diverged, unnotified>>

\* The rest: nothing if that head is pushed or being pushed, else prime the
\* counter and drain.
AlreadyTargeted(r) ==
  /\ r.headCommit # None
  /\ \/ r.headCommit = r.lastHandled
     \/ r.push # "none" /\ r.headCommit = r.last

Checked(r) == [r EXCEPT !.check = "done", !.ahead = 0, !.headCommit = None]

\* A head that could not be parsed leaves the last commit as it is.
WithBacklog(r) ==
  Checked([r EXCEPT !.pending = r.pending + r.ahead,
                    !.last = IF r.headCommit = None THEN r.last ELSE r.headCommit])

Primed_NoDrain(r) == WithBacklog(r)
Primed(r) == Drain(WithBacklog(r))

Prime(d) ==
  /\ daemon[d].check = "priming"
  /\ Become(d, IF AlreadyTargeted(daemon[d]) THEN Checked(daemon[d]) ELSE Primed(daemon[d]))
  /\ UNCHANGED <<made, branch, remote, tracking, diverged, unnotified>>

-----------------------------------------------------------------------------
(* Pushing.                                                                *)

GitPushReads(d) ==
  /\ daemon[d].push = "pushing" /\ daemon[d].sent = None
  /\ Become(d, [daemon[d] EXCEPT !.sent = Tip])
  /\ UNCHANGED <<made, branch, remote, tracking, diverged, unnotified>>

PushSucceeds(d) ==
  /\ daemon[d].push = "pushing" /\ daemon[d].sent # None
  /\ ~diverged
  /\ daemon[d].sent >= remote
  /\ remote' = daemon[d].sent
  /\ tracking' = daemon[d].sent
  /\ Become(d, Handled(daemon[d], "pushed"))
  /\ UNCHANGED <<made, branch, diverged, unnotified>>

\* Rejected as non-fast-forward: never retried.
PushRejected(d) ==
  /\ daemon[d].push = "pushing" /\ daemon[d].sent # None
  /\ diverged \/ daemon[d].sent < remote
  /\ Become(d, Handled(daemon[d], "refused"))
  /\ UNCHANGED <<made, branch, remote, tracking, diverged, unnotified>>

\* Any other failure: give up after the last attempt, else sleep.
GivesUp_Late(r) == r.attempt > MaxRetries
GivesUp(r) == r.attempt >= MaxRetries

PushFails(d) ==
  /\ daemon[d].push = "pushing"
  /\ Become(d, IF GivesUp(daemon[d])
               THEN Handled(daemon[d], "refused")
               ELSE [daemon[d] EXCEPT !.push = "sleeping"])
  /\ UNCHANGED <<made, branch, remote, tracking, diverged, unnotified>>

\* The backoff is over: try again, or leave the loop if stop was called.
WakeUp(d) ==
  /\ daemon[d].push = "sleeping"
  /\ Become(d, IF Running(d) THEN Attempt(daemon[d]) ELSE Finished(daemon[d]))
  /\ UNCHANGED <<made, branch, remote, tracking, diverged, unnotified>>

-----------------------------------------------------------------------------
(* Stopping.                                                               *)

\* stop: clear the timer of a backoff; wait if a push loop is in flight.
AfterStop_Done(r) == "stopped"
AfterStop(r) == IF r.push = "none" THEN "stopped" ELSE "stopping"

Stop(d) ==
  /\ Running(d)
  /\ Become(d, [daemon[d] EXCEPT
                  !.at = AfterStop(daemon[d]),
                  !.push = IF daemon[d].push = "sleeping" THEN "stranded" ELSE daemon[d].push])
  /\ UNCHANGED <<made, branch, remote, tracking, diverged, unnotified>>

\* The push loop has woken stop.
StopIdle(d) ==
  /\ daemon[d].at = "stopping" /\ daemon[d].push = "none"
  /\ Become(d, [daemon[d] EXCEPT !.at = "stopped"])
  /\ UNCHANGED <<made, branch, remote, tracking, diverged, unnotified>>

\* Or not: the wait is over all the same.
WaitIsOver_ForPushes(r) == r.push \in {"pushing", "sleeping"}
WaitIsOver(r) == r.push # "none"

StopTimesOut(d) ==
  /\ daemon[d].at = "stopping" /\ WaitIsOver(daemon[d])
  /\ Become(d, [daemon[d] EXCEPT !.at = "stopped", !.timedOut = TRUE])
  /\ UNCHANGED <<made, branch, remote, tracking, diverged, unnotified>>

\* The process dies: its daemons and the hooks it was about to call are gone.
Exit ==
  /\ \E d \in Daemons : daemon[d].at \in {"starting", "running", "stopping"}
  /\ daemon' = [d \in Daemons |-> NewDaemon]
  /\ unnotified' = None
  /\ UNCHANGED <<made, branch, remote, tracking, diverged>>

-----------------------------------------------------------------------------
World == Commit \/ Diverge \/ Reconcile \/ Exit

Client(d) == StartPushDaemon(d) \/ Stop(d)

\* What happens by itself, given time.
Runtime(d) ==
  \/ CreateDaemon(d) \/ BeginCheck(d) \/ Fetch(d) \/ CountAhead(d) \/ ParseHead(d)
  \/ Prime(d) \/ GitPushReads(d) \/ PushRejected(d) \/ PushFails(d)
  \/ PushSucceeds(d) \/ WakeUp(d) \/ StopIdle(d) \/ StopTimesOut(d)

Next == World \/ CallHooks \/ \E d \in Daemons : Client(d) \/ Runtime(d)

Spec == Init /\ [][Next]_vars

\* The event loop runs what is due, git ends, timers fire.
Fairness == WF_vars(CallHooks) /\ \A d \in Daemons : WF_vars(Runtime(d))

FairSpec == Spec /\ Fairness

-----------------------------------------------------------------------------
(* Properties.                                                             *)

\* Every variable stays within its type.
TypeOK ==
  /\ made \in Numbers
  /\ branch \subseteq Numbers
  /\ remote \in Numbers
  /\ tracking \in Numbers \cup {None}
  /\ diverged \in BOOLEAN
  /\ unnotified \in Numbers \cup {None}
  /\ daemon \in [Daemons -> DaemonStates]

\* What the branch has of the commits up to c.
OnBranch(c) == Max({b \in branch : b <= c})

\* A running daemon that reports nothing pending, and whose last push
\* succeeded, has the commit it heard of last, if of any, on the remote.
Quiet(r) ==
  r.at = "running" /\ r.push = "none" /\ r.pending = r.handled /\ r.outcome = "pushed"

QuietMeansPushed ==
  \A d \in Daemons :
    Quiet(daemon[d]) /\ daemon[d].last # None => remote >= OnBranch(daemon[d].last)

\* A stop that has not timed out leaves no push behind.
StoppedMeansIdle ==
  \A d \in Daemons :
    daemon[d].at = "stopped" /\ ~daemon[d].timedOut => daemon[d].push = "none"

\* A running daemon deals with everything it has counted: it never falls asleep
\* on pending commits.
BacklogDrains ==
  \A d \in Daemons :
    (Running(d) /\ daemon[d].pending > daemon[d].handled)
      ~> (daemon[d].pending = daemon[d].handled \/ ~Running(d))

\* A restart loses nothing that its check has counted: what the branch has by
\* then gets to the remote, unless the daemon is stopped, its push is refused or
\* the rev-parse that follows fails.  After that failure the backlog may be taken
\* for handled (its commits are counted, but #lastCommit is the pushed one); when
\* rev-list fails nothing is counted.  Either way it waits for the next commit.
BacklogIsPushed ==
  \A d \in Daemons, c \in 1 .. MaxCommits :
    (Running(d) /\ daemon[d].check = "parsing" /\ c \in branch)
      ~> \/ remote >= c
         \/ ~Running(d) \/ daemon[d].outcome = "refused"
         \/ daemon[d].check = "priming" /\ daemon[d].headCommit = None

\* stop() returns.
StopReturns == \A d \in Daemons : daemon[d].at = "stopping" ~> daemon[d].at # "stopping"

\* push-sync.md, "Lifecycle" 3: each new commit produced by transact is pushed:
\* when a running daemon reports nothing pending after a successful push, every
\* commit it was notified of is on the remote.
EveryCommitIsPushed ==
  \A d \in Daemons : Quiet(daemon[d]) => remote >= OnBranch(daemon[d].heard)

=============================================================================
