SPECIFICATION FairSpec
CONSTANTS
  a = a  b = b  c1 = c1  k1 = k1  h1 = h1
  NoCid = NoCid  NoHash = NoHash  Unsent = Unsent
  Owners <- MCOwners
  Cids <- MCCids
  ClaimIds <- MCClaimIds
  Hashes <- MCHashes
  Calls = {r1, r2, r3}
  WalletCalls <- ClaimCalls
  TTL = 0
  MaxTime = 1
  MaxSigned = 2
  MaxCrashes = 1
  RpcMayFail = TRUE
INVARIANTS TypeOK AtMostOnce AnswersAreTruthful FailureMeansNoEffect OneAwaitedInFlight
PROPERTIES ImplementsAuthorizedWrites EveryCallAnswered
