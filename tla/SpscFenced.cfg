SPECIFICATION FairSpec
CONSTANTS
  RING_ENTRIES = 4
  WORD = 16
  MAX_SPURIOUS = 3
  THRESH = 2
  BATCH = 1
  RELEASE = 4
  FULL_FENCE_BUILD = TRUE
  AttachAt = {}
  ProduceOps = {"reserve", "wait"}
  ConsumeOps = {"timed"}
CHECK_DEADLOCK TRUE
INVARIANTS NoLostProducerWakeup NoFalseDeath
PROPERTIES ProducerUnblocks Delivered
