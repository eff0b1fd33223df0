SPECIFICATION Spec
CONSTANTS
  Owners = {alice, app}
  Cids = {s1, s2, s3}
  ClaimIds = {k1, k2}
  Hashes <- MCHashes
  CredentialOf <- MCCredentialOf
  Bodies <- MCBodies
  NoCid = NoCid
  NoHash = NoHash
  NoDoc = NoDoc
  Backend = app
  Jobs <- WalletJobs
  Modes <- HybridOnly
  MayFail = FALSE
  alice = alice
  app = app
  k1 = k1
  k2 = k2
  s1 = s1
  s2 = s2
  s3 = s3
PROPERTY RecreationRefused
CHECK_DEADLOCK FALSE
