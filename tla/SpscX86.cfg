SPECIFICATION FairSpec
CONSTANTS
  RING_ENTRIES = 2
  WORD = 8
  MAX_SPURIOUS = 2
  THRESH = 1
  BATCH = 1
  RELEASE = 2
  FULL_FENCE_BUILD = FALSE
  AttachAt = {4}
  ProduceOps = {"reserve", "wait", "flush"}
  ConsumeOps = {"peek", "wait", "timed", "zero"}
CHECK_DEADLOCK FALSE
INVARIANTS InOrder NoFalseCorruption NoLostConsumerWakeup
PROPERTIES ImplementsFifo CommitReachesSleeper
