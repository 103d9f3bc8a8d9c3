CONSTANTS
  Attempt = {a1, a2, a3}
  Body = {b1, b2}
  Modes = {TRUE, FALSE}
  Faults = TRUE
SYMMETRY Symmetry
SPECIFICATION Spec
INVARIANTS
  OneChargePerKey SameOrderForAll AnsweredIsPaid NumberIsAccountedFor
CHECK_DEADLOCK FALSE
