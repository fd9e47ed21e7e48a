SPECIFICATION ControlSpec
CONSTANTS
  u = u
  Cmds = {q, u}
  NoCmd = NoCmd
  Lease = 0
  MaxAttempts = 2
  BatchLimit = 2
  Ttl = 1
  TypeOf <- MCTypeOf
  Platform = "windows"
  Policies = {p1, p2}
  Rules = {r1, r2}
  Streams = {s1, s2}
  NoStream = NoStream
  NoPolicy = NoPolicy
  TypedLabels = 1
  MaxVersion = 3
  Agents = {a1, a2}
  Watchdogs = {w1, w2}
  NoAgent = NoAgent
SYMMETRY Symmetry
CONSTRAINTS LossesBounded OrderFixed OldCallsBounded RespawnsBounded
PROPERTY ReleaseReleases
