SPECIFICATION ConsentSpec
CONSTANTS
  alice = alice  email = email  work = work  kyc = kyc
  Never = Never  NoFilter = NoFilter
  Subjects <- OneSubject
  Claims <- MCClaims
  Words <- MCWords
  Purposes <- MCPurposes
  Grants = {g1, g2}
  GrantForms <- ExpiringForm
  RevokeForms <- PlainRevoke
  MaxTime = 1
  DbMayFail = FALSE
PROPERTY ConflictMeansActive
CHECK_DEADLOCK FALSE
