---------------------------- MODULE VisitorProofs ----------------------------
(***************************************************************************)
(* Who is admitted, and as what: for every number of requests and tokens   *)
(* and every answer of the authorization service.                          *)
(***************************************************************************)
EXTENDS Visitor, TLAPS

(* The visitor made of a token's claims is a visitor, with their subject   *)
(* and type.                                                               *)
LEMMA VisitorOfType ==
  ASSUME NEW t \in Tokens
  PROVE  /\ VisitorOf(ClaimsOf[t]) \in Visitors
         /\ VisitorOf(ClaimsOf[t]).id = ClaimsOf[t].sub
         /\ VisitorOf(ClaimsOf[t]).type = TypeOf(ClaimsOf[t])
<1>1. ClaimsOf[t] \in Claims
  BY VisitorAssumption DEF VisitorAssumption
<1>2. TypeOf(ClaimsOf[t]) \in VisitorTypes \cup {""}
  BY <1>1 DEF TypeOf, visitorTypeMap, Claims, VisitorTypes
<1>. QED BY <1>1, <1>2 DEF VisitorOf, Visitors, Claims

(* Every variable has its type, and exactly the admitted requests have a   *)
(* visitor.                                                                *)
THEOREM TypeCorrect == Spec => []TypeOK
<1>1. Init => TypeOK
  BY DEF Init, TypeOK
<1>2. TypeOK /\ [Next]_vars => TypeOK'
  <2>. SUFFICES ASSUME TypeOK, [Next]_vars
                PROVE  TypeOK'
    OBVIOUS
  <2>1. ASSUME NEW r \in Requests, NEW t \in Tokens, VerifyToken(r, t)
        PROVE  TypeOK'
    BY <2>1 DEF VerifyToken, TypeOK
  <2>2. ASSUME NEW r \in Requests, NEW fields \in SUBSET Fields, Answer(r, fields)
        PROVE  TypeOK'
    <3>. DEFINE a == [active |-> active[token[r]], fields |-> fields]
    <3>1. a \in Answers
      BY <2>2 DEF Answer, Answers, TypeOK
    <3>2. answer' = [answer EXCEPT ![r] = a]
      BY <2>2 DEF Answer
    <3>. HIDE DEF a
    <3>. QED BY <2>2, <3>1, <3>2 DEF Answer, TypeOK
  <2>3. ASSUME NEW r \in Requests, IntrospectFails(r) \/ IntrospectPanics(r)
        PROVE  TypeOK'
    BY <2>3 DEF IntrospectFails, IntrospectPanics, TypeOK
  <2>4. ASSUME NEW r \in Requests, ReturnVisitor(r)
        PROVE  TypeOK'
    <3>. DEFINE v == VisitorOf(ClaimsOf[token[r]])
    <3>1. v \in Visitors
      BY <2>4, VisitorOfType DEF ReturnVisitor, TypeOK
    <3>2. \/ visitor' = [visitor EXCEPT ![r] = v] /\ pc' = [pc EXCEPT ![r] = "admitted"]
          \/ pc' = [pc EXCEPT ![r] = "refused"] /\ visitor' = visitor
      BY <2>4 DEF ReturnVisitor
    <3>. HIDE DEF v
    <3>. QED BY <2>4, <3>1, <3>2 DEF ReturnVisitor, TypeOK
  <2>5. ASSUME NEW r \in Requests, LogAudit(r)
        PROVE  TypeOK'
    <3>1. TransforOperator(visitor[r].type) \in Operators
      BY DEF TransforOperator, Operators
    <3>. QED BY <2>5, <3>1 DEF LogAudit, TypeOK
  <2>6. ASSUME NEW r \in Requests, Finish(r)
        PROVE  TypeOK'
    BY <2>6 DEF Finish, TypeOK
  <2>7. ASSUME NEW t \in Tokens, Revoke(t)
        PROVE  TypeOK'
    BY <2>7 DEF Revoke, TypeOK
  <2>8. CASE UNCHANGED vars
    BY <2>8 DEF vars, TypeOK
  <2>. QED BY <2>1, <2>2, <2>3, <2>4, <2>5, <2>6, <2>7, <2>8 DEF Next, RequestStep, CallStep
<1>. QED BY <1>1, <1>2, PTL DEF Spec

(* An active answer was given while the token was active, and a revoked    *)
(* token stays revoked.                                                    *)
FreshInv ==
  /\ \A r \in Requests : pc[r] # "idle" /\ active[token[r]] => fresh[r]
  /\ \A r \in Requests : pc[r] = "answered" /\ answer[r].active => fresh[r]
  /\ AdmittedWhileActive

(* Nobody is admitted with a token that was revoked before the request.    *)
THEOREM AdmittedWhileActiveSafe == Spec => []AdmittedWhileActive
<1>1. Init => FreshInv
  BY DEF Init, FreshInv, AdmittedWhileActive
<1>2. TypeOK /\ FreshInv /\ [Next]_vars => FreshInv'
  <2>. SUFFICES ASSUME TypeOK, FreshInv, [Next]_vars
                PROVE  FreshInv'
    OBVIOUS
  <2>. USE DEF FreshInv, AdmittedWhileActive
  <2>1. ASSUME NEW r \in Requests, NEW t \in Tokens, VerifyToken(r, t)
        PROVE  FreshInv'
    BY <2>1 DEF VerifyToken, TypeOK
  <2>2. ASSUME NEW r \in Requests, NEW fields \in SUBSET Fields, Answer(r, fields)
        PROVE  FreshInv'
    <3>1. /\ pc[r] = "asking" /\ pc' = [pc EXCEPT ![r] = "answered"]
          /\ UNCHANGED <<active, token, fresh>>
          /\ answer' = [answer EXCEPT ![r] = [active |-> active[token[r]], fields |-> fields]]
      BY <2>2 DEF Answer
    <3>2. answer'[r].active = active[token[r]] /\ \A q \in Requests \ {r} : answer'[q] = answer[q]
      BY <3>1 DEF TypeOK
    <3>. QED BY <3>1, <3>2 DEF TypeOK
  <2>3. ASSUME NEW r \in Requests, CallStep(r)
        PROVE  FreshInv'
    BY <2>3 DEF CallStep, IntrospectFails, IntrospectPanics, ReturnVisitor, Admitted, TypeOK
  <2>4. ASSUME NEW r \in Requests, LogAudit(r) \/ Finish(r)
        PROVE  FreshInv'
    BY <2>4 DEF LogAudit, Finish, TypeOK
  <2>5. ASSUME NEW t \in Tokens, Revoke(t)
        PROVE  FreshInv'
    BY <2>5 DEF Revoke, TypeOK
  <2>6. CASE UNCHANGED vars
    BY <2>6 DEF vars
  <2>. QED BY <2>1, <2>2, <2>3, <2>4, <2>5, <2>6 DEF Next, RequestStep
<1>3. FreshInv => AdmittedWhileActive
  BY DEF FreshInv
<1>. QED BY <1>1, <1>2, <1>3, TypeCorrect, PTL DEF Spec

(* The visitor of a request is that of its token and of a whole answer,    *)
(* and only an admitted request writes audit records.                      *)
OperatorInv ==
  \A r \in Requests :
    /\ visitor[r] # None => /\ visitor[r] = VisitorOf(ClaimsOf[token[r]])
                            /\ Read(answer[r], ClaimsOf[token[r]]) \subseteq answer[r].fields
    /\ operator[r] # None => /\ pc[r] = "admitted"
                             /\ operator[r] = TransforOperator(TypeOf(ClaimsOf[token[r]]))

(* An audit record that names a kind of operator names the right one.      *)
THEOREM AttributionSafe == Spec => []Attribution
<1>1. Init => OperatorInv
  BY DEF Init, OperatorInv
<1>2. TypeOK /\ OperatorInv /\ [Next]_vars => OperatorInv'
  <2>. SUFFICES ASSUME TypeOK, OperatorInv, [Next]_vars
                PROVE  OperatorInv'
    OBVIOUS
  <2>. USE DEF OperatorInv
  <2>1. ASSUME NEW r \in Requests, NEW t \in Tokens, VerifyToken(r, t)
        PROVE  OperatorInv'
    BY <2>1 DEF VerifyToken, TypeOK
  <2>2. ASSUME NEW r \in Requests, \/ \E fields \in SUBSET Fields : Answer(r, fields)
                                   \/ IntrospectFails(r) \/ IntrospectPanics(r)
        PROVE  OperatorInv'
    BY <2>2 DEF Answer, IntrospectFails, IntrospectPanics, TypeOK
  <2>3. ASSUME NEW r \in Requests, ReturnVisitor(r)
        PROVE  OperatorInv'
    BY <2>3 DEF ReturnVisitor, TypeOK
  <2>4. ASSUME NEW r \in Requests, LogAudit(r)
        PROVE  OperatorInv'
    <3>1. pc[r] = "admitted" /\ token[r] \in Tokens /\ visitor[r] # None
      BY <2>4, VisitorAssumption DEF VisitorAssumption, LogAudit, TypeOK
    <3>2. visitor[r].type = TypeOf(ClaimsOf[token[r]])
      BY <3>1, VisitorOfType
    <3>. QED BY <2>4, <3>1, <3>2 DEF LogAudit, TypeOK
  <2>5. ASSUME NEW r \in Requests, Finish(r)
        PROVE  OperatorInv'
    BY <2>5 DEF Finish, TypeOK
  <2>6. CASE (\E t \in Tokens : Revoke(t)) \/ UNCHANGED vars
    BY <2>6 DEF Revoke, vars
  <2>. QED BY <2>1, <2>2, <2>3, <2>4, <2>5, <2>6 DEF Next, RequestStep, CallStep
<1>3. TypeOK /\ OperatorInv => Attribution
  <2>. SUFFICES ASSUME TypeOK, OperatorInv, NEW r \in Requests, operator[r] # None
                PROVE  LET c == ClaimsOf[token[r]]
                       IN  /\ visitor[r].id = c.sub
                           /\ Read(answer[r], c) \subseteq answer[r].fields
                           /\ operator[r] = "app" => ClientCredentials(c) \/ c.visitorType = "app"
                           /\ operator[r] = "anonymous_user" =>
                                ~ClientCredentials(c) /\ c.visitorType = "anonymous"
                           /\ operator[r] = "authenticated_user" =>
                                ~ClientCredentials(c) /\ c.visitorType \in {"user", "realname"}
    BY DEF Attribution
  <2>1. /\ token[r] \in Tokens /\ visitor[r] = VisitorOf(ClaimsOf[token[r]])
        /\ operator[r] = TransforOperator(TypeOf(ClaimsOf[token[r]]))
        /\ Read(answer[r], ClaimsOf[token[r]]) \subseteq answer[r].fields
    BY VisitorAssumption DEF VisitorAssumption, OperatorInv, TypeOK
  <2>2. ClaimsOf[token[r]] \in Claims
    BY <2>1, VisitorAssumption DEF VisitorAssumption
  <2>3. visitor[r].id = ClaimsOf[token[r]].sub
    BY <2>1, VisitorOfType
  <2>. DEFINE c == ClaimsOf[token[r]]
  <2>4. CASE ClientCredentials(c)
    <3>1. operator[r] = "app"
      BY <2>1, <2>4 DEF TypeOf, TransforOperator
    <3>. QED BY <2>1, <2>3, <2>4, <3>1
  <2>5. CASE ~ClientCredentials(c)
    <3>1. c.visitorType \in VisitorTypes \cup {"other"}
      BY <2>2 DEF Claims
    <3>2. TypeOf(c) = IF c.visitorType \in {"user", "realname"} THEN "user"
                      ELSE IF c.visitorType = "other" THEN "" ELSE c.visitorType
      BY <2>5, <3>1 DEF TypeOf, visitorTypeMap, VisitorTypes
    <3>3. /\ operator[r] # "authenticated_user"
          /\ operator[r] = "anonymous_user" => c.visitorType = "anonymous"
          /\ operator[r] = "app" => c.visitorType = "app"
      BY <2>1, <3>1, <3>2 DEF TransforOperator, VisitorTypes
    <3>. QED BY <2>1, <2>3, <2>5, <3>3
  <2>. QED BY <2>4, <2>5
<1>. QED BY <1>1, <1>2, <1>3, TypeCorrect, PTL DEF Spec
==============================================================================
