CONSTANTS
  Deposit = {d1}
  Proc = {p1, p2, p3}
  MaxDeaths = 2
  Gateway = {"stripe", "nowpayments", "bachs", "cryptomus"}
SPECIFICATION LiveSpec
INVARIANTS
  CreditedAtMostOnce CreditIsBooked
PROPERTIES UnpaidIsNotCredited PaidIsSettled
\* A charge whose handler died before the document was written is stuck.
CHECK_DEADLOCK FALSE
