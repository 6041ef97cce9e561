\* Two goroutines that call again and again, with a shared map or none.
SPECIFICATION FairSpec
CONSTANTS
  c1 = c1
  c2 = c2
  m1 = m1
  page = page
  size = size
  v1 = v1
  v2 = v2
  ok = ok
  None = None
  Calls <- TwoCalls
  Timeout <- OneTimeout
  Maps <- OneMap
  Keys <- TwoKeys
  Values <- TwoValues
  Codes <- OneCode
  URLQueries <- FewQueries
  Given <- PageGiven
INVARIANTS
  TypeOK
  QueryAsAsked
  AnswerOrError
PROPERTIES
  CallReturns
