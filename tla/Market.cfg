CONSTANTS
  Provider <- MCProvider
  Kind <- MCKind
  Setting <- MCSetting
  Default <- MCDefault
  Listing <- MCListing
  Admin = {a1, a2}
  Buyer = {b1}
  Country = {"us", "ca"}
  CodePage = 2
  MaxEdits = 2
  MaxOrders = 1
SPECIFICATION Spec
INVARIANTS AtMostOneEnabled WaitingHasProvider NotBelowCost QuotedIsBought
PROPERTY SettingsTakeEffect
CHECK_DEADLOCK FALSE
