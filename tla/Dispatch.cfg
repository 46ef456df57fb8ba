SPECIFICATION Spec
CONSTANTS
  c1 = c1
  c2 = c2
  r1 = r1
  r2 = r2
  Requests = {r1, r2}
  Clients = {c1}
  Kinds = {"stream"}
  Models = {"m1", "m2"}
  Alias = "fast"
  Serves <- SameModel
  MaxSlots <- TwoSlots
  MaxAttempts = 2
  MaxDepth = 1
  InboxCap = 1
  LocalLoads = {0}
  MaxYields = 0
  None = None
SYMMETRY SymmetricRequests
INVARIANTS TypeOK CapacityBound OneCopy
CONSTRAINTS Bounded FewSends
VIEW WithoutAnswers
