\* One deletion worker, two deletions.
CONSTANTS
  w1 = w1
  w2 = w2
  NoWorker = NoWorker
  Jobs = {1, 2}
  Workers = {w1}
  MaxAttempts = 2
  ReplayAttempts = 1
  MaxReplays = 1
  LeaseTicks = 1
  RetryTicks = 1
  RetentionTicks = 1
  HoldTicks = 2
  MaxLockWait = 0
SPECIFICATION FairSpec
PROPERTY FailedDeletionAlerts
