SPECIFICATION FairSpec
CONSTANTS
  r = r
  a = a
  t1 = t1
  t2 = t2
  NULL = NULL
  Tasks = {t1, t2}
  Endpoints = {r, a}
  Reactors = {r}
  MAX_CLIENTS = 2
  MAX_CONNS = 2
  MAX_REQUESTS = 3
INVARIANTS TypeOK NothingLeaks ClientSafe
PROPERTIES ReactorKeepsPolled DeadReclaimed ConnectAnswered
