SPECIFICATION FairSpec
CONSTANTS
  Cmds = {c1, c2}
  NoCmd = NoCmd
  Lease = 0
  MaxAttempts = 2
  BatchLimit = 1
  Ttl = 1
INVARIANTS TypeOK ExecutionsAccounted
PROPERTIES NoExecutionAfterAck RefinesLifecycle EventuallySettled
