------------------------------- MODULE Visitor -------------------------------
(***************************************************************************)
(* rest/hydra.go and TransforOperator of audit/audit.go: a handler takes   *)
(* the token from the request, VerifyToken asks the authorization service  *)
(* about it, and the visitor it returns becomes the operator of the audit  *)
(* records of the request.                                                 *)
(*                                                                         *)
(* The service is external: it may answer late, not at all, with an error, *)
(* or without fields that the code takes for granted (a type assertion on  *)
(* a missing field panics).  A token may be revoked at any time.           *)
(*                                                                         *)
(* Left out: addresses, devices, account types and the scope of a token,   *)
(* which are only passed on.                                               *)
(***************************************************************************)
CONSTANTS
  Requests,   \* requests under way at the same time
  Tokens,
  ClaimsOf,   \* ClaimsOf[t]: whose token t is
  Subjects,   \* IDs of users and of clients
  None        \* no token, no answer, no visitor

VisitorTypes == {"user", "realname", "anonymous", "app"}

(* A token of a client itself has the client as its subject, and no        *)
(* visitor type.                                                           *)
Claims == [sub : Subjects, client : Subjects, visitorType : VisitorTypes \cup {"other"}]

ClientCredentials(c) == c.sub = c.client

Fields == {"active", "sub", "scope", "client_id", "visitor_type", "user_fields"}

Visitors == [id : Subjects, type : VisitorTypes \cup {""}, client : Subjects]

ASSUME VisitorAssumption ==
  /\ ClaimsOf \in [Tokens -> Claims]
  /\ None \notin Tokens \cup Visitors

VARIABLES
  active,    \* active[t]: token t has not been revoked
  pc,        \* pc[r]: what request r is doing
  token,     \* token[r]: the token of request r
  answer,    \* answer[r]: what the authorization service answered
  visitor,   \* visitor[r]: the visitor that VerifyToken returned
  operator,  \* operator[r]: the operator type of its audit records
  fresh      \* history: fresh[r]: the token was active when the call began

vars == <<active, pc, token, answer, visitor, operator, fresh>>

Answers == [active : BOOLEAN, fields : SUBSET Fields]

Operators == {"authenticated_user", "anonymous_user", "app", ""}

Init ==
  /\ active = [t \in Tokens |-> TRUE]
  /\ pc = [r \in Requests |-> "idle"]
  /\ token = [r \in Requests |-> None]
  /\ answer = [r \in Requests |-> None]
  /\ visitor = [r \in Requests |-> None]
  /\ operator = [r \in Requests |-> None]
  /\ fresh = [r \in Requests |-> FALSE]

----------------------------------------------------------------------------
(* Introspect *)

(* visitorTypeMap; what it does not have becomes the empty type.           *)
visitorTypeMap ==
  [v \in VisitorTypes \cup {"other"} |->
     CASE v \in {"user", "realname"} -> "user"
       [] v = "other" -> ""
       [] OTHER -> v]

TypeOf(c) == IF ClientCredentials(c) THEN "app" ELSE visitorTypeMap[c.visitorType]

(* The fields that are read, in the order of the early returns.            *)
Read(a, c) ==
  {"active"}
  \cup (IF a.active THEN {"sub", "scope", "client_id"} ELSE {})
  \cup (IF a.active /\ ~ClientCredentials(c) THEN {"visitor_type"} ELSE {})
  \cup (IF a.active /\ ~ClientCredentials(c) /\ TypeOf(c) = "user" THEN {"user_fields"} ELSE {})

(* The handler calls VerifyToken, which posts the token.                   *)
VerifyToken(r, t) ==
  /\ pc[r] = "idle"
  /\ pc' = [pc EXCEPT ![r] = "asking"]
  /\ token' = [token EXCEPT ![r] = t]
  /\ fresh' = [fresh EXCEPT ![r] = active[t]]
  /\ UNCHANGED <<active, answer, visitor, operator>>

(* The service looks at the token and answers; the answer is under way.    *)
Answer(r, fields) ==
  /\ pc[r] = "asking"
  /\ answer' = [answer EXCEPT ![r] = [active |-> active[token[r]], fields |-> fields]]
  /\ pc' = [pc EXCEPT ![r] = "answered"]
  /\ UNCHANGED <<active, token, visitor, operator, fresh>>

(* A bug: the timeout of 600 s is not set, the handler goes on waiting.    *)
NoTimeout(r) ==
  /\ pc[r] = "asking"
  /\ UNCHANGED vars

(* The client's timeout of 600 s, a connection error, a status that is not *)
(* 2xx, a body that is not JSON: VerifyToken returns an error.             *)
IntrospectFails(r) ==
  /\ pc[r] \in {"asking", "answered"}
  /\ pc' = [pc EXCEPT ![r] = "refused"]
  /\ UNCHANGED <<active, token, answer, visitor, operator, fresh>>

(* A field that is read is missing: the assertion panics.                  *)
IntrospectPanics(r) ==
  /\ pc[r] = "answered"
  /\ ~(Read(answer[r], ClaimsOf[token[r]]) \subseteq answer[r].fields)
  /\ pc' = [pc EXCEPT ![r] = "refused"]
  /\ UNCHANGED <<active, token, answer, visitor, operator, fresh>>

(* A bug: the answer's state of the token is not looked at.                *)
AdmittedAnyway(a) == a.active \/ a.fields # {}

(* VerifyToken returns a visitor, not an error.                            *)
Admitted(a) == a.active

VisitorOf(c) == [id |-> c.sub, type |-> TypeOf(c), client |-> c.client]

(* A bug: the visitor is made before the token's state is looked at.       *)
ReturnVisitorFirst(r) ==
  LET c == ClaimsOf[token[r]]
  IN  /\ pc[r] = "answered"
      /\ Read(answer[r], c) \subseteq answer[r].fields
      /\ visitor' = [visitor EXCEPT ![r] = VisitorOf(c)]
      /\ pc' = [pc EXCEPT ![r] = IF Admitted(answer[r]) THEN "admitted" ELSE "refused"]
      /\ UNCHANGED <<active, token, answer, operator, fresh>>

ReturnVisitor(r) ==
  LET c == ClaimsOf[token[r]]
  IN  /\ pc[r] = "answered"
      /\ Read(answer[r], c) \subseteq answer[r].fields
      /\ IF Admitted(answer[r])
         THEN /\ visitor' = [visitor EXCEPT ![r] = VisitorOf(c)]
              /\ pc' = [pc EXCEPT ![r] = "admitted"]
         ELSE /\ pc' = [pc EXCEPT ![r] = "refused"]
              /\ UNCHANGED visitor
      /\ UNCHANGED <<active, token, answer, operator, fresh>>

----------------------------------------------------------------------------
(* The handler and its audit records *)

(* A bug: every other type is taken for a user.                            *)
TransforOperatorElseUser(type) ==
  CASE type = "anonymous" -> "anonymous_user"
    [] type = "app" -> "app"
    [] OTHER -> "authenticated_user"

(* There is no case for VisitorType_User.                                  *)
TransforOperator(type) ==
  CASE type = "realname" -> "authenticated_user"
    [] type = "anonymous" -> "anonymous_user"
    [] type = "app" -> "app"
    [] OTHER -> ""

(* The handler writes an audit record.                                     *)
LogAudit(r) ==
  /\ pc[r] = "admitted"
  /\ operator' = [operator EXCEPT ![r] = TransforOperator(visitor[r].type)]
  /\ UNCHANGED <<active, pc, token, answer, visitor, fresh>>

(* The request is done.                                                    *)
Finish(r) ==
  /\ pc[r] \in {"admitted", "refused"}
  /\ pc' = [pc EXCEPT ![r] = "idle"]
  /\ token' = [token EXCEPT ![r] = None]
  /\ answer' = [answer EXCEPT ![r] = None]
  /\ visitor' = [visitor EXCEPT ![r] = None]
  /\ operator' = [operator EXCEPT ![r] = None]
  /\ fresh' = [fresh EXCEPT ![r] = FALSE]
  /\ UNCHANGED active

(* A token is revoked or expires.                                          *)
Revoke(t) ==
  /\ active' = [active EXCEPT ![t] = FALSE]
  /\ UNCHANGED <<pc, token, answer, visitor, operator, fresh>>

----------------------------------------------------------------------------
CallStep(r) == IntrospectFails(r) \/ IntrospectPanics(r) \/ ReturnVisitor(r)

RequestStep(r) ==
  \/ \E t \in Tokens : VerifyToken(r, t)
  \/ \E fields \in SUBSET Fields : Answer(r, fields)
  \/ CallStep(r)
  \/ LogAudit(r)
  \/ Finish(r)

Next ==
  \/ \E r \in Requests : RequestStep(r)
  \/ \E t \in Tokens : Revoke(t)

Spec == Init /\ [][Next]_vars

(* A call does not wait for ever: its timeout fires.                       *)
FairSpec == Spec /\ \A r \in Requests : WF_vars(CallStep(r))

----------------------------------------------------------------------------
(* Properties *)

TypeOK ==
  /\ active \in [Tokens -> BOOLEAN]
  /\ pc \in [Requests -> {"idle", "asking", "answered", "admitted", "refused"}]
  /\ token \in [Requests -> Tokens \cup {None}]
  /\ answer \in [Requests -> Answers \cup {None}]
  /\ visitor \in [Requests -> Visitors \cup {None}]
  /\ operator \in [Requests -> Operators \cup {None}]
  /\ fresh \in [Requests -> BOOLEAN]
  /\ \A r \in Requests :
       /\ pc[r] # "idle" => token[r] \in Tokens
       /\ pc[r] = "answered" => answer[r] \in Answers
       /\ IF pc[r] = "admitted" THEN visitor[r] \in Visitors ELSE visitor[r] = None

(* Nobody is admitted with a token that was revoked before the request     *)
(* came, however late the answer is: VerifyToken asks anew for every       *)
(* request and an inactive token ends it.  (hydra.go:151, 178, 234.)       *)
AdmittedWhileActive == \A r \in Requests : pc[r] = "admitted" => fresh[r]

(* An audit record that names a kind of operator names the right one: an   *)
(* application only for a token of an application, an anonymous visitor    *)
(* only for an anonymous one, and a user for nobody else; a visitor type   *)
(* that is unknown is never taken for one of them.  The operator's ID is   *)
(* the token's subject, and nothing that was read of the visitor was       *)
(* missing in the answer: a missing field is not taken for an empty one.   *)
(* (hydra.go:178-219, audit.go:122-141.)                                   *)
Attribution ==
  \A r \in Requests : operator[r] # None =>
    LET c == ClaimsOf[token[r]]
    IN  /\ visitor[r].id = c.sub
        /\ Read(answer[r], c) \subseteq answer[r].fields
        /\ operator[r] = "app" => ClientCredentials(c) \/ c.visitorType = "app"
        /\ operator[r] = "anonymous_user" => ~ClientCredentials(c) /\ c.visitorType = "anonymous"
        /\ operator[r] = "authenticated_user" =>
             ~ClientCredentials(c) /\ c.visitorType \in {"user", "realname"}

(* Every call of VerifyToken returns, whatever the authorization service   *)
(* does.  (hydra.go:141, http_client.go:47-52, 78.)                        *)
CallReturns == \A r \in Requests : pc[r] = "asking" ~> pc[r] \notin {"asking", "answered"}

(* A real-name user is an authenticated user in the audit records.         *)
(* (audit.go:125-126; hydra.go:23-24 and 72-78 make both its types one.)   *)
RealNameIsUser ==
  \A r \in Requests : operator[r] # None =>
    LET c == ClaimsOf[token[r]]
    IN  ~ClientCredentials(c) /\ c.visitorType \in {"user", "realname"} =>
          operator[r] = "authenticated_user"
==============================================================================
