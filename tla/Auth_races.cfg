SPECIFICATION FairSpec
CONSTANTS
  alice = alice  bob = bob  USER = USER  VERIFIER = VERIFIER  n1 = n1  n2 = n2
  Nothing = Nothing
  Addrs <- MCAddrs
  Roles <- MCRoles
  Nonces <- MCNonces
  Attempts = {v1, v2}
  Requests = {q1}
  TTL = 1
  TokenTTL = 1
  MaxTime = 2
  DbMayFail = TRUE
INVARIANTS TypeOK ReplayRefused OneUserPerAddress RefusedForCause EveryUseIsAudited
PROPERTY EveryAttemptAnswered
CHECK_DEADLOCK FALSE
