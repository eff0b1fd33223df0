SPECIFICATION Spec
CONSTANTS
  alice = alice  bob = bob  USER = USER  VERIFIER = VERIFIER  n1 = n1  n2 = n2
  Nothing = Nothing
  Addrs <- OneAddr
  Roles <- OneRole
  Nonces <- OneNonce
  Attempts = {v1, v2}
  Requests = {q1}
  TTL = 1
  TokenTTL = 1
  MaxTime = 2
  DbMayFail = FALSE
INVARIANT NonceSingleUse
CHECK_DEADLOCK FALSE
