SPECIFICATION Spec
CONSTANTS
  Queries = {q1, q2}
  Appliers = {a1, a2}
  Addrs = {x, y}
  Unrouted = unrouted
  Nobody = nobody
  MaxApplies = 2
SYMMETRY Symmetry
INVARIANTS Barrier MemoSound InstalledBeforeReply
PROPERTIES NoObsoleteWrite AnswerUnderPolicy SetsAreShared
