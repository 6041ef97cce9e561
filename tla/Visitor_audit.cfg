\* What the audit records say of a real-name user.
SPECIFICATION Spec
CONSTANTS
  r1 = r1
  appToken = appToken
  userToken = userToken
  realToken = realToken
  guestToken = guestToken
  otherToken = otherToken
  alice = alice
  service = service
  None = None
  Requests <- OneRequest
  Tokens <- AllTokens
  ClaimsOf <- TokenClaims
  Subjects <- People
INVARIANTS
  RealNameIsUser
