CONSTANTS
  Browser = {b1, b2}
  Proc = {p1, p2}
  MaxPasswords = 2
  MaxTokens = 2
  MaxLinks = 1
SYMMETRY Symmetry
SPECIFICATION Spec
INVARIANTS ResetEndsSessions RefreshKeepsSession
CHECK_DEADLOCK FALSE
