SPECIFICATION Spec
CONSTANTS
  Owners = {alice, app}
  Cids = {s1, s2, s3}
  ClaimIds = {k1, k2}
  Hashes <- MCHashes
  CredentialOf <- MCCredentialOf
  Bodies <- MCBodies
  NoCid = NoCid
  NoHash = NoHash
  NoDoc = NoDoc
  Backend = app
  Jobs <- LifecycleJobs
  Modes <- BothModes
  MayFail = TRUE
  alice = alice
  app = app
  k1 = k1
  k2 = k2
  s1 = s1
  s2 = s2
  s3 = s3
INVARIANTS TypeOK AnchoredBeforeListed PinnedUntilErased DoneIsOnChain
PROPERTY CredentialsKept
SYMMETRY Symmetry
CHECK_DEADLOCK FALSE
