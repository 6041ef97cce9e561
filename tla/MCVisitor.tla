------------------------------ MODULE MCVisitor ------------------------------
(* Requests one after another, and a token of every kind of visitor.       *)
EXTENDS Visitor, TLC

CONSTANTS r1, appToken, userToken, realToken, guestToken, otherToken, alice, service

OneRequest == {r1}
AllTokens == {appToken, userToken, realToken, guestToken, otherToken}
People == {alice, service}

TypeIn ==
  (appToken :> "other") @@ (userToken :> "user") @@ (realToken :> "realname")
    @@ (guestToken :> "anonymous") @@ (otherToken :> "other")

TokenClaims ==
  [t \in Tokens |-> [sub |-> IF t = appToken THEN service ELSE alice, client |-> service,
                     visitorType |-> TypeIn[t]]]
==============================================================================
