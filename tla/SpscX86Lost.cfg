SPECIFICATION Spec
CONSTANTS
  RING_ENTRIES = 2
  WORD = 8
  MAX_SPURIOUS = 2
  THRESH = 1
  BATCH = 1
  RELEASE = 2
  FULL_FENCE_BUILD = FALSE
  AttachAt = {}
  ProduceOps = {"wait"}
  ConsumeOps = {"wait"}
CHECK_DEADLOCK TRUE
INVARIANTS ProducerWakeupKept
