CONSTANTS
  Slots = {s1, s2}
  MaxRequests = 2
  MaxFaults = 1
  Ids = {"n1", "n2", "n3", "n4"}
SPECIFICATION Spec
SYMMETRY SlotSymmetry
CHECK_DEADLOCK FALSE
 
INVARIANTS CommandsRuled
PROPERTIES WritesStayInTenant
PROPERTIES NoBulkAfterDemotion
