CONSTANTS
  Order = {o1}
  Proc = {p1, p2}
  Price = {1, 2}
  Wallet = 3
  MaxActivations = 2
  Transactional = FALSE
  Faults = TRUE
SYMMETRY ProcSymmetry
SPECIFICATION Spec
INVARIANTS
  RefundAtMostOnce RefundedIsClosed ReactivationExclusive
CHECK_DEADLOCK FALSE
