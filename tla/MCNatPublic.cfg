SPECIFICATION Spec
CONSTANTS
  p4 = p4
  q4 = q4
  x4 = x4
  LocalIPs <- MCPublicIPs
  External = {q4, x4}
  FamilyOf <- MCFamilyOf
  Ports = 1
  None = None
CHECK_DEADLOCK FALSE
INVARIANTS OnlyMappedPass
