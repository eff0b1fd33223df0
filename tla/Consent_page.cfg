SPECIFICATION Spec
CONSTANTS
  alice = alice
  contact = contact
  email = email
  mail = mail
  phone = phone
  work = work
  home = home
  kyc = kyc
  Subjects <- MCSubjects
  Claims <- MCClaims
  Words <- MCWords
  Purposes <- MCPurposes
  Attributes <- MCAttributes
  Grants = {g1, g2}
  GrantForms <- MCForms
  RevokeForms <- MCRevokes
  Never = Never
  NoFilter = NoFilter
  MaxTime = 1
  DbMayFail = TRUE
  Owner = alice
  PageContexts <- MCContexts
  Linked <- MCLinked
  Anchored <- MCAnchored
  Identity <- MCIdentity
  Lifetime = 1
  OtherGrants <- MCOther
  PagePurposes <- MCPagePurposes
  Loads = {l1, l2}
  NetMayFail = TRUE
SYMMETRY Symmetry
INVARIANTS TypeOK ShownForContext GrantLoopIsHonest
PROPERTIES RevokesWhatIsShown
CHECK_DEADLOCK FALSE
