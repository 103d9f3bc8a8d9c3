CONSTANTS
  User = {u1, u2}
  Proc = {p1, p2}
  Code = {c1, c2}
  MaxRequests = 3
SYMMETRY Symmetry
SPECIFICATION Spec
INVARIANTS RecoveryCodeOnce AdminRemains KeysAreReplaced WebhookIsSigned
CHECK_DEADLOCK FALSE
