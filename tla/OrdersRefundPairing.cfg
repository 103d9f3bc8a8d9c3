CONSTANTS
  Order = {o1}
  Proc = {p1, p2}
  Price = {1, 2}
  Wallet = 4
  MaxActivations = 2
  Transactional = TRUE
  Faults = FALSE
SPECIFICATION Spec
INVARIANT RefundReversesItsCharge
CHECK_DEADLOCK FALSE
