SPECIFICATION Spec
CONSTANTS
  None = None
  v1 = v1
  v2 = v2
  Workers = {v1, v2}
  Procs = {"p"}
  Kids = {"a", "b"}
  FirstKids = {"a"}
  Admins = {"ann"}
  Strangers = {"bob"}
  Ttl = 1
  SecretTtl = 1
  Life = 1
  Leeway = 0
  MaxRequest = 1
  LastTime = 5
  Mixed = FALSE
  MaxChanges = 2
  MaxSessions = 1
SYMMETRY Alike
CHECK_DEADLOCK FALSE
INVARIANTS
  WithdrawnKeysExpire
  SessionsHold
  SecretsAreRecent
PROPERTIES
  PublishedKeyIsKnown
