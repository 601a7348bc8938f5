CONSTANTS
  t1 = t1
  t2 = t2
  t3 = t3
  a = a
  b = b
  s1 = s1
  Threads = {t1, t2, t3}
  Keys <- TwoKeys
  Slots <- OneSlot
  Events <- EventsABS
  Vals = {0, 1}
  Calls <- AnyCalls
  REF_BOUND = 1
SPECIFICATION Spec
INVARIANTS TypeOK WaitHashSound NoLostWakeup WaitsBalanced
PROPERTIES OneProcessor
CONSTRAINT OneProgram
CHECK_DEADLOCK FALSE
