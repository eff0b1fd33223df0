SPECIFICATION Spec
CONSTANTS
  user = user  verifier = verifier
  vault = vault  verifierPage = verifierPage  profile = profile  gdpr = gdpr
  Accounts = {a1, a2}
  Roles <- MCRoles
  DefaultRole = user
  Home <- MCHome
  Allowed <- MCAllowed
  Public = {login, gdpr}
  Login = login
  ReturnPages <- MCReturnPages
  Connects = {c1, c2}
  Logins = {l1, l2}
  None = None
SYMMETRY Symmetry
INVARIANTS TypeOK WalletIsWhole SessionIsOfWallet PageHasItsRole
CHECK_DEADLOCK FALSE
