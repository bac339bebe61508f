SPECIFICATION Spec
CONSTANTS
  s1 = s1
  s2 = s2
  a4 = a4
  b4 = b4
  c6 = c6
  Servers = {s1, s2}
  Calls <- MCCalls
  Mapped = {a4, b4, c6}
  FamilyOf <- MCFamilyOf
  Foreign = Foreign
  Bad = Bad
  None = None
CHECK_DEADLOCK FALSE
INVARIANTS NothingAfterWait ResultIsMatched
PROPERTIES IPv4Preferred Returns
