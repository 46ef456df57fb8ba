SPECIFICATION Spec
CONSTANTS
  c1 = c1
  c2 = c2
  r1 = r1
  r2 = r2
  Requests = {r1}
  Clients = {c1, c2}
  Kinds = {"stream"}
  Models = {"m1", "m2"}
  Alias = "fast"
  Serves <- TwoModels
  MaxSlots <- OneSlot
  MaxAttempts = 2
  MaxDepth = 0
  InboxCap = 1
  LocalLoads = {0}
  MaxYields = 0
  None = None
INVARIANT QueuedUnderRequestedName
