CONSTANTS
  t1 = t1
  t2 = t2
  t3 = t3
  a = a
  b = b
  s1 = s1
  Threads = {t1, t2, t3}
  Keys <- OneKey
  Slots <- NoSlot
  Events <- EventsA
  Vals = {0, 1}
  Calls <- WaitCalls
  REF_BOUND = 1
SPECIFICATION FairSpec
INVARIANTS WaitHashSound
PROPERTIES ImplementsAtomic ChangeWakes TimedCallReturns
