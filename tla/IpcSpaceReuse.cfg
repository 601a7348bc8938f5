SPECIFICATION ReuseSpec
CONSTANTS
  r1 = r1
  w1 = w1
  w2 = w2
  p1 = p1
  p2 = p2
  p3 = p3
  e1 = e1
  NULL = NULL
  DEAD = DEAD
  Senders = {r1}
  Workers = {w1}
  Ports = {p1, p2, p3}
  ReplyPort = p1
  DestPort = p2
  Ites = {e1}
  SIZES <- TwoTables
  GENS = 2
  MAX_TRIES = 2
  MAX_GENERATION = 1
  Mortals = {p2}
  MAX_REBIRTH = 1
  ChosenNames <- Asked
  Dests <- OldDest
INVARIANT CachedNameLive
SYMMETRY Alike
