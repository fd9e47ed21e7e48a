SPECIFICATION Spec
CONSTANTS
  Devices = {"d1", "d2"}
  Tenants = {"", "default", "acme"}
  Macs = {"m1", "m2"}
  Admins = {"a1", "a2"}
  EventCap = 3
  MaxRows = 3
  Families = {"tokens", "enrolment", "fleet", "events", "incidents", "policies", "evidence", "admins", "mfa", "console", "apitokens", "queue"}
CHECK_DEADLOCK FALSE
INVARIANTS StoresAgree
INVARIANTS StoreSound
PROPERTIES DeviceKeepsTenant
