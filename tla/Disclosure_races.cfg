SPECIFICATION Spec
CONSTANTS
  alice = alice  email = email  job = job  work = work  home = home  kyc = kyc
  k1 = k1  k2 = k2  k3 = k3
  Never = Never  NoFilter = NoFilter  NoProfile = NoProfile
  Subjects <- MCSubjects
  Claims <- MCClaims
  Words <- MCWords
  Purposes <- MCPurposes
  Grants = {g1, g2, g3}
  GrantForms <- MCGrants
  RevokeForms <- MCRevokes
  MaxTime = 1
  Credentials <- MCCredentials
  Vc <- MCVc
  Profiles <- MCProfiles
  Verifiers = {v1}
  VerifyForms <- MCVerify
  DbMayFail = TRUE
  NetMayFail = TRUE
SYMMETRY Symmetry
INVARIANTS TypeOK NoDisclosureAfterRevocation OnlyOfferedIsDisclosed ConsentIsFound OneActiveConsent GrantAnswersAreTruthful
PROPERTIES ConsentHistoryKept ImplementsConsentedDisclosure
CHECK_DEADLOCK FALSE
