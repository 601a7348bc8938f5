CONSTANTS
  RING_ENTRIES = 1
  WORD = 4
  Channels = {c1, c2}
  MAX_CHANNELS = 2
  MAX_EVENTS = 2
  Timeouts = {"zero", "timed"}
SPECIFICATION FairSpec
INVARIANTS PollOutcome CommitWakes
PROPERTIES Reported
