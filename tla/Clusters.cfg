SPECIFICATION Spec
CONSTANTS
  a1 = a1 a2 = a2 b1 = b1 c1 = c1 A = A B = B C = C
  Members = {a1, a2, b1, c1} Bodies = {A, B, C} BodyOf <- MCBodyOf
  Tiers = {"exact", "main", "loose"} Profiles = {"p", "q"}
  Documents <- MCDocuments
INVARIANTS TypeOK EachClusterOnce GreenIffAccepted LineageBalances KeptOnlyIfAccepted
CHECK_DEADLOCK FALSE
