SPECIFICATION PagesSpec
CONSTANTS
  work = work
  home = home
  degree = degree
  job = job
  jwt = jwt
  bio = bio
  links = links
  pasted = pasted
  Accounts = {a, b}
  None = None
  MaxCalls = 2
  NetMayFail = TRUE
  Words <- MCWords
  NoFilter = NoFilter
  LogVerifiers = {a, b}
  LogContexts <- MCLogContexts
  Unsafe = Unsafe
  MaxLog = 2
  Followed = {"history", "contexts", "form", "audit", "tools", "settings", "vault", "overview", "edit", "privacy"}
  MaxFormLog = 1
  Limit = 1
  Filters <- MCFilters
  DefaultContexts <- MCDefaultContexts
  Typed <- MCTyped
  VerifierContexts <- MCVerifierContexts
  SuggestedFor <- MCSuggestedFor
  ClaimIds <- MCClaimIds
  Cids <- MCCids
  TypedCids <- MCTypedCids
  NotADid = NotADid
  MaxRows = 2
  Items <- MCItems
  Values = {v, w}
  Ciphertext = Ciphertext
  MaxDay = 2
  ProfileContexts = {profile, career}
  ProfileContext = profile
  Fields = {bio, links}
  FieldValues = {x}
  MaxListeners = 2
  MaxHeld = 2
SYMMETRY Symmetry
CONSTRAINT Telling
INVARIANTS PagesTypeOK ShowsWhatIsSelected  SavedIsKept ErasedIsNotActive
CHECK_DEADLOCK FALSE
