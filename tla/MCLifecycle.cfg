CONSTANTS
  None = None
  u1 = u1  u2 = u2  st1 = st1  st2 = st2  l1 = l1
  Threads = {u1, u2}
  Stacks = {st1, st2}
  Conns = {l1}
  ConcurrentAdd = FALSE
SPECIFICATION FairSpec
INVARIANTS NothingEscapes StacksAgree ClosedOnce
PROPERTY CallsReturn
CHECK_DEADLOCK FALSE
