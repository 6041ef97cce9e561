\* One request after another, with a token of every kind.
SPECIFICATION FairSpec
CONSTANTS
  r1 = r1
  appToken = appToken
  userToken = userToken
  realToken = realToken
  guestToken = guestToken
  otherToken = otherToken
  alice = alice
  service = service
  None = None
  Requests <- OneRequest
  Tokens <- AllTokens
  ClaimsOf <- TokenClaims
  Subjects <- People
INVARIANTS
  TypeOK
  AdmittedWhileActive
  Attribution
PROPERTIES
  CallReturns
