CONSTANTS
  Query = {"wallet"}
  MaxHops = 4
  MaxVisits = 2
SPECIFICATION Spec
PROPERTIES RedirectsEnd LiveSessionIsKept EndedLeavesDashboard LiveSessionIsServed
CHECK_DEADLOCK FALSE
