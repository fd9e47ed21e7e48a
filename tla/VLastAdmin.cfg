CONSTANTS
  Slots = {s1, s2}
  MaxRequests = 2
  MaxFaults = 0
  Ids = {"n1", "n2", "n3", "n4"}
SPECIFICATION Spec
INVARIANT AdminRemains
CHECK_DEADLOCK FALSE
