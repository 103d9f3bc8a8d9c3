CONSTANTS
  Order = {o1, o2}
  Proc = {p1, p2}
  Price = {2}
  Wallet = 5
  MaxActivations = 2
  Transactional = TRUE
  Faults = FALSE
SYMMETRY Symmetry
SPECIFICATION Spec
PROPERTY ImplementsPurchase
