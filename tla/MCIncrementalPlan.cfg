SPECIFICATION Spec
CONSTANTS
  Files = {f, g}
  Servers = {web1, web2}
  Limits <- AnyLimit
  MaxTime = 2
  MaxVersion = 2
  MaxPlans = 2
SYMMETRY Interchangeable
INVARIANTS   DoneIsDelivered
