SPECIFICATION FairSpec
CONSTANTS
  Daemons = {d1}
  None = None
  MaxCommits = 2
  MaxRetries = 2
INVARIANTS TypeOK QuietMeansPushed StoppedMeansIdle
PROPERTIES BacklogDrains BacklogIsPushed StopReturns
CHECK_DEADLOCK FALSE
