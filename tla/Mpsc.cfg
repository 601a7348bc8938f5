SPECIFICATION FairSpec
CONSTANTS
  a = a
  b = b
  Producers = {a, b}
  RING_ENTRIES = 2
  WORD = 8
  THRESH = 1
  MAX_SPURIOUS = 3
  Builds = {TRUE, FALSE}
  X86_CLAIMS = 4
INVARIANTS TypeOK NoFalseAlarm NoLostConsumerWakeup
PROPERTIES ImplementsFifo ClaimPublished
CHECK_DEADLOCK FALSE
