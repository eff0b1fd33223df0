SPECIFICATION Spec
CONSTANTS
  a = a  b = b  c1 = c1  k1 = k1  h1 = h1
  NoCid = NoCid  NoHash = NoHash  Unsent = Unsent
  Owners <- MCOwners
  Cids <- MCCids
  ClaimIds <- MCClaimIds
  Hashes <- MCHashes
  Calls = {r1, r2}
  WalletCalls <- ClaimCalls
  TTL = 1
  MaxTime = 2
  MaxSigned = 2
  MaxCrashes = 0
  RpcMayFail = TRUE
INVARIANT OneTxInFlight
