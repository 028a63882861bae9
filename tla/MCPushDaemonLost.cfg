SPECIFICATION Spec
CONSTANTS
  Daemons = {d1}
  None = None
  MaxCommits = 3
  MaxRetries = 2
INVARIANT EveryCommitIsPushed
CHECK_DEADLOCK FALSE
