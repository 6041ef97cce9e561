-------------------------- MODULE HttpClientProofs --------------------------
(***************************************************************************)
(* What a request carries and what a call returns, for any number of       *)
(* goroutines, maps and parameters.                                        *)
(***************************************************************************)
EXTENDS HttpClient, TLAPS

(* A step of the client that only moves call c to "done" with result r.    *)
LEMMA ReturnType ==
  ASSUME TypeOK, NEW c \in Calls, NEW r \in Results,
         pc[c] \in {"request", "sent", "reading"}, Return(c, r)
  PROVE  TypeOK'
<1>1. pc' = [pc EXCEPT ![c] = "done"] /\ result' = [result EXCEPT ![c] = r]
      /\ ended' = [ended EXCEPT ![c] = FALSE]
      /\ UNCHANGED <<up, values, wrote, asked, given, todo, crossed, sent, service>>
  BY DEF Return, url
<1>2. r # None
  BY HttpClientAssumption DEF HttpClientAssumption
<1>. QED BY <1>1, <1>2 DEF TypeOK, Busy

(* What a call makes of any answer is a result.                            *)
LEMMA ResultTypes ==
  ASSUME NEW a \in Answers
  PROVE  /\ Unmarshal(a) \in Results /\ NoUnmarshal(a) \in Results
         /\ Failed \in Results
         /\ \A data \in {"none", "part"} :
              [code |-> a.code, data |-> data, ok |-> FALSE] \in Results
BY DEF Answers, Bodies, Unmarshal, NoUnmarshal, Failed, Results

(* Every variable has its type, and a request is made of a loop that ended.*)
THEOREM TypeCorrect == Spec => []TypeOK
<1>. USE HttpClientAssumption DEF HttpClientAssumption, Busy
<1>0. NoQuery \in Queries /\ Named(NoQuery) = {}
  BY DEF NoQuery, Queries, Named
<1>1. Init => TypeOK
  BY <1>0 DEF Init, TypeOK
<1>2. TypeOK /\ [Next]_vars => TypeOK'
  <2>. SUFFICES ASSUME TypeOK, [Next]_vars
                PROVE  TypeOK'
    OBVIOUS
  <2>1. ASSUME NEW c \in Calls, NEW q \in URLQueries, Request(c, q)
        PROVE  TypeOK'
    BY <2>1 DEF Request, TypeOK
  <2>2. ASSUME NEW c \in Calls, NEW q \in URLQueries, NEW m \in Maps, GetWith(c, q, m)
        PROVE  TypeOK'
    <3>1. Named(q) \subseteq Keys
      BY DEF Named
    <3>2. crossed' \in [Calls -> BOOLEAN]
      BY <2>2 DEF GetWith, TypeOK
    <3>. QED BY <2>2, <3>1, <3>2 DEF GetWith, TypeOK
  <2>3. ASSUME NEW c \in Calls, NEW k \in Keys, WriteKey(c, k)
        PROVE  TypeOK'
    <3>1. given[c] \in Maps /\ asked[c][k] \in Values
      BY <2>3 DEF WriteKey, TypeOK, Queries, Named
    <3>2. values' \in [Maps -> Queries]
      BY <2>3, <3>1 DEF WriteKey, TypeOK, Queries
    <3>3. wrote' \in [Maps -> SUBSET (Keys \X Values)]
      BY <2>3, <3>1 DEF WriteKey, TypeOK
    <3>. QED BY <2>3, <3>2, <3>3 DEF WriteKey, TypeOK
  <2>4. ASSUME NEW c \in Calls, NEW k \in Keys, WriteLost(c, k)
        PROVE  TypeOK'
    BY <2>4 DEF WriteLost, TypeOK
  <2>5. ASSUME NEW c \in Calls, ConcurrentMap(c)
        PROVE  TypeOK'
    BY <2>5 DEF ConcurrentMap, TypeOK, url
  <2>6. ASSUME NEW c \in Calls, Encode(c)
        PROVE  TypeOK'
    <3>1. values[given[c]] \in Queries
      BY <2>6 DEF Encode, TypeOK
    <3>. QED BY <2>6, <3>1 DEF Encode, TypeOK
  <2>7. ASSUME NEW c \in Calls, RequestFails(c) \/ DoFails(c)
        PROVE  TypeOK'
    <3>1. Failed \in Results
      BY DEF Failed, Results
    <3>. QED BY <2>7, <3>1, ReturnType DEF RequestFails, DoFails
  <2>8. ASSUME NEW c \in Calls, Send(c)
        PROVE  TypeOK'
    BY <2>8 DEF Send, TypeOK, url
  <2>9. ASSUME NEW c \in Calls, Answered(c)
        PROVE  TypeOK'
    BY <2>9 DEF Answered, TypeOK, url
  <2>10. ASSUME NEW c \in Calls, ReadAll(c) \/ ReadFails(c)
         PROVE  TypeOK'
    <3>1. service[c] \in Answers
      BY <2>10 DEF ReadAll, ReadFails, TypeOK
    <3>. QED BY <2>10, <3>1, ResultTypes, ReturnType DEF ReadAll, ReadFails
  <2>11. ASSUME NEW c \in Calls, Finish(c)
         PROVE  TypeOK'
    <3>1. pc[c] = "done" /\ todo' = todo /\ todo[c] = {}
      BY <2>11 DEF Finish, TypeOK
    <3>. QED BY <1>0, <2>11, <3>1 DEF Finish, TypeOK
  <2>12. ASSUME NEW c \in Calls, NEW a \in Answers, Serve(c, a)
         PROVE  TypeOK'
    <3>1. a # None
      OBVIOUS
    <3>. QED BY <2>12, <3>1 DEF Serve, TypeOK, url
  <2>13. ASSUME NEW c \in Calls, ContextEnds(c)
         PROVE  TypeOK'
    BY <2>13 DEF ContextEnds, TypeOK, url
  <2>14. CASE Restart
    BY <1>0, <2>14 DEF Restart, TypeOK
  <2>15. CASE UNCHANGED vars
    BY <2>15 DEF vars, url, TypeOK
  <2>. QED BY <2>1, <2>2, <2>3, <2>4, <2>5, <2>6, <2>7, <2>8, <2>9, <2>10, <2>11, <2>12, <2>13, <2>14, <2>15
           DEF Next, CallStep, TimesOut, Cancelled
<1>. QED BY <1>1, <1>2, PTL DEF Spec

----------------------------------------------------------------------------
(* QueryAsAsked of one call.                                               *)
AsAsked(c) ==
  pc[c] \in {"request", "sent", "reading", "done"} =>
    /\ given[c] = None => sent[c] = asked[c]
    /\ given[c] # None => \A k \in Keys :
         \/ sent[c][k] \in Expected(c, k)
         \/ /\ crossed[c]
            /\ sent[c][k] = Given[given[c]][k] \/ <<k, sent[c][k]>> \in wrote[given[c]]

(* A call that is alone in its map finds there what it has written so far. *)
OwnThere(c) ==
  /\ pc[c] = "idle" => given[c] = None
  /\ pc[c] = "merging" /\ ~crossed[c] =>
       /\ \A d \in Calls : d \in Inside(given[c]) => d = c
       /\ \A k \in Named(asked[c]) \ todo[c] : values[given[c]][k] = asked[c][k]

(* What a map holds was put there by the caller or by a call.              *)
Origin ==
  \A m \in Maps, k \in Keys :
    values[m][k] = Given[m][k] \/ <<k, values[m][k]>> \in wrote[m]

MapInv == Origin /\ \A c \in Calls : OwnThere(c) /\ AsAsked(c)

(* The property, one call at a time.                                       *)
LEMMA AsAskedAll == QueryAsAsked <=> \A c \in Calls : AsAsked(c)
BY DEF QueryAsAsked, AsAsked

(* Of a call that a step does not touch, while nothing is taken out of the *)
(* histories of the maps.                                                  *)
LEMMA OthersKeep ==
  ASSUME TypeOK, MapInv, NEW d \in Calls,
         pc'[d] = pc[d] \/ (pc[d] \in {"request", "sent", "reading"} /\ pc'[d] \in {"sent", "reading", "done"}),
         asked'[d] = asked[d], given'[d] = given[d], sent'[d] = sent[d],
         pc'[d] # "merging" => crossed'[d] = crossed[d],
         \A m \in Maps : wrote[m] \subseteq wrote'[m]
  PROVE  AsAsked(d)'
<1>. SUFFICES ASSUME pc'[d] \in {"request", "sent", "reading", "done"}
              PROVE  /\ given[d] = None => sent[d] = asked[d]
                     /\ given[d] # None => \A k \in Keys :
                          \/ sent[d][k] \in Expected(d, k)'
                          \/ /\ crossed[d]
                             /\ sent[d][k] = Given[given[d]][k] \/ <<k, sent[d][k]>> \in wrote'[given[d]]
  BY DEF AsAsked
<1>1. AsAsked(d) /\ pc[d] \in {"request", "sent", "reading", "done"}
  BY DEF MapInv
<1>2. given[d] # None => given[d] \in Maps
  BY DEF TypeOK
<1>3. given[d] # None => \A k \in Keys : Expected(d, k) \subseteq Expected(d, k)'
  BY <1>2 DEF Expected
<1>. QED BY <1>1, <1>2, <1>3 DEF AsAsked

(* A step of no call in a map, which sends nothing anew.                   *)
LEMMA MapInvKept ==
  ASSUME TypeOK, MapInv, UNCHANGED <<values, wrote, url>>, NEW c \in Calls, NEW s,
         pc' = [pc EXCEPT ![c] = s] \/ pc' = pc,
         pc[c] \in {"request", "sent", "reading"}, s \in {"sent", "reading", "done"}
  PROVE  MapInv'
<1>1. UNCHANGED <<asked, given, todo, crossed, sent>>
  BY DEF url
<1>2. \A d \in Calls : pc'[d] = pc[d] \/ (pc[d] \in {"request", "sent", "reading"} /\ pc'[d] \in {"sent", "reading", "done"})
  BY DEF TypeOK
<1>3. \A d \in Calls : AsAsked(d)'
  BY <1>1, <1>2, OthersKeep
<1>4. \A d \in Calls : OwnThere(d)'
  BY <1>1, <1>2 DEF MapInv, OwnThere, Inside
<1>5. Origin'
  BY DEF MapInv, Origin
<1>. QED BY <1>3, <1>4, <1>5 DEF MapInv

(* A call without a map of the caller sends its own query.                 *)
LEMMA RequestKeeps ==
  ASSUME TypeOK, MapInv, NEW c \in Calls, NEW q \in URLQueries, Request(c, q)
  PROVE  MapInv'
<1>1. /\ pc' = [pc EXCEPT ![c] = "request"] /\ asked' = [asked EXCEPT ![c] = q]
      /\ sent' = [sent EXCEPT ![c] = q] /\ pc[c] = "idle"
      /\ UNCHANGED <<values, wrote, given, todo, crossed>>
  BY DEF Request
<1>2. \A d \in Calls \ {c} : pc'[d] = pc[d] /\ asked'[d] = asked[d] /\ sent'[d] = sent[d]
  BY <1>1 DEF TypeOK
<1>3. pc'[c] = "request" /\ asked'[c] = q /\ sent'[c] = q /\ given'[c] = None
  BY <1>1 DEF TypeOK, MapInv, OwnThere
<1>4. \A d \in Calls \ {c} : AsAsked(d)'
  BY <1>1, <1>2, OthersKeep
<1>5. AsAsked(c)'
  BY <1>3 DEF AsAsked
<1>6. \A d \in Calls : OwnThere(d)'
  BY <1>1, <1>2, <1>3 DEF MapInv, OwnThere, Inside
<1>7. Origin'
  BY <1>1 DEF MapInv, Origin
<1>. QED BY <1>4, <1>5, <1>6, <1>7 DEF MapInv

(* A call that is given a map starts to write its keys; those inside the   *)
(* same map are crossed from then on.                                      *)
LEMMA GetWithKeeps ==
  ASSUME TypeOK, MapInv, NEW c \in Calls, NEW q \in URLQueries, NEW m \in Maps, GetWith(c, q, m)
  PROVE  MapInv'
<1>1. /\ pc' = [pc EXCEPT ![c] = "merging"] /\ asked' = [asked EXCEPT ![c] = q]
      /\ given' = [given EXCEPT ![c] = m] /\ todo' = [todo EXCEPT ![c] = Named(q)]
      /\ crossed' = [d \in Calls |-> IF d = c THEN Inside(m) # {} ELSE crossed[d] \/ d \in Inside(m)]
      /\ pc[c] = "idle" /\ UNCHANGED <<values, wrote, sent>>
  BY DEF GetWith
<1>2. \A d \in Calls \ {c} : /\ pc'[d] = pc[d] /\ asked'[d] = asked[d] /\ given'[d] = given[d]
                             /\ todo'[d] = todo[d]
                             /\ crossed'[d] = (crossed[d] \/ d \in Inside(m))
  BY <1>1 DEF TypeOK
<1>3. pc'[c] = "merging" /\ asked'[c] = q /\ given'[c] = m /\ todo'[c] = Named(q)
      /\ crossed'[c] = (Inside(m) # {})
  BY <1>1 DEF TypeOK
<1>4. \A d \in Calls \ {c} : pc'[d] # "merging" => crossed'[d] = crossed[d]
  BY <1>2 DEF Inside, TypeOK
<1>5. \A d \in Calls \ {c} : AsAsked(d)'
  BY <1>1, <1>2, <1>4, OthersKeep
<1>6. AsAsked(c)'
  BY <1>3 DEF AsAsked
<1>7. \A d \in Calls \ {c} : OwnThere(d)'
  <2>. SUFFICES ASSUME NEW d \in Calls \ {c}, pc[d] = "merging", ~crossed'[d]
                PROVE  /\ \A e \in Calls : pc'[e] = "merging" /\ given'[e] = given[d] => e = d
                       /\ \A k \in Named(asked[d]) \ todo[d] : values[given[d]][k] = asked[d][k]
    BY <1>1, <1>2 DEF OwnThere, Inside, MapInv, Named
  <2>1. ~crossed[d] /\ given[d] # m
    BY <1>2 DEF Inside
  <2>. QED BY <1>2, <1>3, <2>1 DEF MapInv, OwnThere, Inside
<1>8. OwnThere(c)'
  <2>. SUFFICES ASSUME Inside(m) = {}
                PROVE  \A e \in Calls : pc'[e] = "merging" /\ given'[e] = m => e = c
    BY <1>3 DEF OwnThere, Inside, Named
  <2>. QED BY <1>2 DEF Inside
<1>9. Origin'
  BY <1>1 DEF MapInv, Origin
<1>. QED BY <1>5, <1>6, <1>7, <1>8, <1>9 DEF MapInv

(* A key that is written is known to come from that call.                  *)
LEMMA WriteKeyKeeps ==
  ASSUME TypeOK, MapInv, NEW c \in Calls, NEW k \in Keys, WriteKey(c, k)
  PROVE  MapInv'
<1>. DEFINE m == given[c]
            v == asked[c][k]
<1>1. /\ pc[c] = "merging" /\ k \in todo[c] /\ todo' = [todo EXCEPT ![c] = @ \ {k}]
      /\ values' = [values EXCEPT ![m][k] = v]
      /\ wrote' = [wrote EXCEPT ![m] = @ \cup {<<k, v>>}]
      /\ UNCHANGED <<pc, asked, given, crossed, sent>>
  BY DEF WriteKey
<1>2. m \in Maps
  BY <1>1 DEF TypeOK
<1>. HIDE DEF m, v
<1>3. /\ \A n \in Maps : wrote[n] \subseteq wrote'[n]
      /\ <<k, v>> \in wrote'[m]
  BY <1>1, <1>2 DEF TypeOK
<1>4. /\ values'[m][k] = v
      /\ \A n \in Maps, l \in Keys : n # m \/ l # k => values'[n][l] = values[n][l]
  BY <1>1, <1>2 DEF TypeOK, Queries
<1>5. Origin'
  <2>. SUFFICES ASSUME NEW n \in Maps, NEW l \in Keys
                PROVE  values'[n][l] = Given[n][l] \/ <<l, values'[n][l]>> \in wrote'[n]
    BY DEF Origin
  <2>1. CASE n = m /\ l = k
    BY <1>3, <1>4, <2>1
  <2>2. CASE ~(n = m /\ l = k)
    BY <1>3, <1>4, <2>2 DEF MapInv, Origin
  <2>. QED BY <2>1, <2>2
<1>6. \A d \in Calls : AsAsked(d)'
  BY <1>1, <1>3, OthersKeep
<1>7. \A d \in Calls : OwnThere(d)'
  <2>. SUFFICES ASSUME NEW d \in Calls, pc[d] = "merging", ~crossed[d],
                       NEW l \in Named(asked[d]) \ todo'[d]
                PROVE  values'[given[d]][l] = asked[d][l]
    BY <1>1 DEF OwnThere, MapInv, Inside, Named
  <2>1. l \in Keys /\ given[d] \in Maps
    BY DEF Named, TypeOK
  <2>2. CASE d = c
    <3>1. l = k \/ l \in Named(asked[d]) \ todo[d]
      BY <1>1, <2>2 DEF TypeOK
    <3>. QED BY <1>4, <2>1, <2>2, <3>1 DEF MapInv, OwnThere, m, v
  <2>3. CASE d # c
    <3>1. given[d] # m
      BY <1>1, <2>3 DEF MapInv, OwnThere, Inside, m
    <3>2. todo'[d] = todo[d]
      BY <1>1, <2>3 DEF TypeOK
    <3>. QED BY <1>4, <2>1, <3>1, <3>2 DEF MapInv, OwnThere
  <2>. QED BY <2>2, <2>3
<1>. QED BY <1>5, <1>6, <1>7 DEF MapInv

(* A write is lost only when another call is inside the same map, so that  *)
(* the call is crossed.                                                    *)
LEMMA WriteLostKeeps ==
  ASSUME TypeOK, MapInv, NEW c \in Calls, NEW k \in Keys, WriteLost(c, k)
  PROVE  MapInv'
<1>1. /\ pc[c] = "merging" /\ Inside(given[c]) # {c}
      /\ todo' = [todo EXCEPT ![c] = @ \ {k}]
      /\ UNCHANGED <<values, wrote, pc, asked, given, crossed, sent>>
  BY DEF WriteLost
<1>2. crossed[c]
  <2>1. c \in Inside(given[c])
    BY <1>1 DEF Inside
  <2>2. PICK d \in Calls : d \in Inside(given[c]) /\ d # c
    BY <1>1, <2>1 DEF Inside
  <2>. QED BY <1>1, <2>2 DEF MapInv, OwnThere
<1>3. \A d \in Calls : AsAsked(d)'
  BY <1>1, OthersKeep
<1>4. \A d \in Calls : d # c => todo'[d] = todo[d]
  BY <1>1 DEF TypeOK
<1>5. \A d \in Calls : OwnThere(d)'
  BY <1>1, <1>2, <1>4 DEF MapInv, OwnThere, Inside
<1>6. Origin'
  BY <1>1 DEF MapInv, Origin
<1>. QED BY <1>3, <1>5, <1>6 DEF MapInv

(* A call that is not crossed encodes what it wrote.                       *)
LEMMA EncodeKeeps ==
  ASSUME TypeOK, MapInv, NEW c \in Calls, Encode(c)
  PROVE  MapInv'
<1>. DEFINE m == given[c]
<1>1. /\ pc[c] = "merging" /\ todo[c] = {} /\ pc' = [pc EXCEPT ![c] = "request"]
      /\ sent' = [sent EXCEPT ![c] = values[m]]
      /\ UNCHANGED <<values, wrote, asked, given, todo, crossed>>
  BY DEF Encode
<1>2. m \in Maps /\ m # None
  BY <1>1, HttpClientAssumption DEF TypeOK, HttpClientAssumption
<1>. HIDE DEF m
<1>3. \A d \in Calls \ {c} : pc'[d] = pc[d] /\ sent'[d] = sent[d]
  BY <1>1 DEF TypeOK
<1>4. \A d \in Calls \ {c} : AsAsked(d)'
  BY <1>1, <1>3, OthersKeep
<1>5. AsAsked(c)'
  <2>1. sent'[c] = values[m]
    BY <1>1 DEF TypeOK
  <2>. SUFFICES ASSUME NEW k \in Keys
                PROVE  \/ values[m][k] \in Expected(c, k)
                       \/ /\ crossed[c]
                          /\ values[m][k] = Given[m][k] \/ <<k, values[m][k]>> \in wrote[m]
    BY <1>1, <1>2, <2>1 DEF AsAsked, Expected, m
  <2>2. values[m][k] = Given[m][k] \/ <<k, values[m][k]>> \in wrote[m]
    BY <1>2 DEF MapInv, Origin
  <2>3. <<k, values[m][k]>> \in wrote[m] => values[m][k] \in Values
    BY <1>2 DEF TypeOK
  <2>4. CASE asked[c][k] = None
    BY <2>2, <2>3, <2>4 DEF Expected, m
  <2>5. CASE asked[c][k] # None /\ ~crossed[c]
    <3>1. k \in Named(asked[c]) \ todo[c]
      BY <1>1, <2>5 DEF Named
    <3>. QED BY <1>1, <2>5, <3>1 DEF MapInv, OwnThere, Expected, m
  <2>. QED BY <2>2, <2>4, <2>5 DEF TypeOK
<1>6. \A d \in Calls : OwnThere(d)'
  <2>1. pc'[c] = "request"
    BY <1>1 DEF TypeOK
  <2>2. \A d \in Calls \ {c} : OwnThere(d)'
    BY <1>1, <1>3, <2>1 DEF MapInv, OwnThere, Inside
  <2>3. OwnThere(c)'
    BY <2>1 DEF OwnThere
  <2>. QED BY <2>2, <2>3
<1>7. Origin'
  BY <1>1 DEF MapInv, Origin
<1>. QED BY <1>4, <1>5, <1>6, <1>7 DEF MapInv

(* A call that ends leaves its map to the others.                          *)
LEMMA FinishKeeps ==
  ASSUME TypeOK, MapInv, NEW c \in Calls, Finish(c)
  PROVE  MapInv'
<1>1. /\ pc[c] = "done" /\ pc' = [pc EXCEPT ![c] = "idle"] /\ asked' = [asked EXCEPT ![c] = NoQuery]
      /\ given' = [given EXCEPT ![c] = None] /\ crossed' = [crossed EXCEPT ![c] = FALSE]
      /\ sent' = [sent EXCEPT ![c] = NoQuery] /\ UNCHANGED <<values, wrote, todo>>
  BY DEF Finish
<1>2. \A d \in Calls \ {c} : /\ pc'[d] = pc[d] /\ asked'[d] = asked[d] /\ given'[d] = given[d]
                             /\ crossed'[d] = crossed[d] /\ sent'[d] = sent[d]
  BY <1>1 DEF TypeOK
<1>3. pc'[c] = "idle" /\ given'[c] = None
  BY <1>1 DEF TypeOK
<1>4. \A d \in Calls \ {c} : AsAsked(d)'
  BY <1>1, <1>2, OthersKeep
<1>5. AsAsked(c)'
  BY <1>3 DEF AsAsked
<1>6. \A d \in Calls \ {c} : OwnThere(d)'
  BY <1>1, <1>2, <1>3 DEF MapInv, OwnThere, Inside
<1>7. OwnThere(c)'
  BY <1>3 DEF OwnThere
<1>8. Origin'
  BY <1>1 DEF MapInv, Origin
<1>. QED BY <1>4, <1>5, <1>6, <1>7, <1>8 DEF MapInv

(* A request carries the parameters of its own URL; the others come from   *)
(* the caller or from an earlier call with the same map.                   *)
THEOREM QueryAsAskedSafe == Spec => []QueryAsAsked
<1>1. Init => MapInv
  BY DEF Init, MapInv, OwnThere, AsAsked, Origin
<1>2. TypeOK /\ MapInv /\ [Next]_vars => MapInv'
  <2>. SUFFICES ASSUME TypeOK, MapInv, [Next]_vars
                PROVE  MapInv'
    OBVIOUS
  <2>1. ASSUME UNCHANGED <<values, wrote, pc, url>>
        PROVE  MapInv'
    <3>1. UNCHANGED <<asked, given, todo, crossed, sent>>
      BY <2>1 DEF url
    <3>2. \A d \in Calls : AsAsked(d)'
      BY <2>1, <3>1, OthersKeep
    <3>. QED BY <2>1, <3>1, <3>2 DEF MapInv, OwnThere, Inside, Origin
  <2>2. ASSUME NEW c \in Calls, ConcurrentMap(c)
        PROVE  MapInv'
    BY <2>1, <2>2 DEF ConcurrentMap
  <2>3. ASSUME NEW c \in Calls,
               \/ RequestFails(c) \/ Send(c) \/ Answered(c) \/ ReadAll(c)
               \/ DoFails(c) \/ ReadFails(c)
        PROVE  MapInv'
    BY <2>3, MapInvKept
       DEF RequestFails, Send, Answered, ReadAll, DoFails, ReadFails, Return
  <2>4. ASSUME NEW c \in Calls, NEW a \in Answers, Serve(c, a)
        PROVE  MapInv'
    BY <2>1, <2>4 DEF Serve
  <2>5. ASSUME NEW c \in Calls, ContextEnds(c)
        PROVE  MapInv'
    BY <2>1, <2>5 DEF ContextEnds
  <2>6. CASE Restart
    BY <2>6 DEF Restart, MapInv, OwnThere, AsAsked, Origin
  <2>7. CASE UNCHANGED vars
    BY <2>1, <2>7 DEF vars
  <2>. QED BY <2>2, <2>3, <2>4, <2>5, <2>6, <2>7, RequestKeeps, GetWithKeeps, WriteKeyKeeps,
              WriteLostKeeps, EncodeKeeps, FinishKeeps
           DEF Next, CallStep, TimesOut, Cancelled
<1>3. MapInv => QueryAsAsked
  BY AsAskedAll DEF MapInv
<1>. QED BY <1>1, <1>2, <1>3, TypeCorrect, PTL DEF Spec

----------------------------------------------------------------------------
(* AnswerOrError of one call that returns r after answer a of the service. *)
Honest(r, a) ==
  /\ r.code # None => a # None /\ r.code = a.code
  /\ r.ok =>
       /\ r.code # None
       /\ r.data = "object" => a.body = "json"
       /\ r.data = "none" => a.body = "empty"
       /\ r.data # "part"

(* The property, one call at a time.                                       *)
LEMMA HonestAll ==
  AnswerOrError <=> \A c \in Calls : pc[c] = "done" => Honest(result[c], service[c])
BY DEF AnswerOrError, Honest

(* What a call makes of an answer is honest about it.                      *)
LEMMA HonestResults ==
  ASSUME NEW a \in Answers
  PROVE  /\ Honest(Unmarshal(a), a) /\ Honest(NoUnmarshal(a), a)
         /\ \A data \in {"none", "part"} :
              Honest([code |-> a.code, data |-> data, ok |-> FALSE], a)
<1>1. a # None /\ a.code # None /\ a.body \in Bodies
  BY HttpClientAssumption DEF HttpClientAssumption, Answers
<1>. QED BY <1>1 DEF Honest, Unmarshal, NoUnmarshal, Bodies

(* A call that returns an honest result keeps the property.                *)
LEMMA ReturnHonest ==
  ASSUME TypeOK, AnswerOrError, NEW c \in Calls, NEW r, Honest(r, service[c]), Return(c, r)
  PROVE  AnswerOrError'
<1>1. /\ pc' = [pc EXCEPT ![c] = "done"] /\ result' = [result EXCEPT ![c] = r]
      /\ service' = service
  BY DEF Return
<1>2. \A d \in Calls \ {c} : pc'[d] = pc[d] /\ result'[d] = result[d]
  BY <1>1 DEF TypeOK
<1>3. result'[c] = r
  BY <1>1 DEF TypeOK
<1>. QED BY <1>1, <1>2, <1>3, HonestAll DEF AnswerOrError, Honest

(* A call that neither is done nor becomes so.                             *)
LEMMA NotDoneHonest ==
  ASSUME TypeOK, AnswerOrError,
         \A d \in Calls : pc'[d] = "done" =>
           pc[d] = "done" /\ result'[d] = result[d] /\ service'[d] = service[d]
  PROVE  AnswerOrError'
BY DEF AnswerOrError

(* Whoever looks at err first never takes a failure, or a part of a body,  *)
(* for the service's answer, and a code always is the service's.           *)
THEOREM AnswerOrErrorSafe == Spec => []AnswerOrError
<1>1. Init => AnswerOrError
  BY DEF Init, AnswerOrError
<1>2. TypeOK /\ AnswerOrError /\ [Next]_vars => AnswerOrError'
  <2>. SUFFICES ASSUME TypeOK, AnswerOrError, [Next]_vars
                PROVE  AnswerOrError'
    OBVIOUS
  <2>1. ASSUME NEW c \in Calls, NEW q \in URLQueries, Request(c, q)
        PROVE  AnswerOrError'
    BY <2>1, NotDoneHonest DEF Request, TypeOK
  <2>2. ASSUME NEW c \in Calls, NEW q \in URLQueries, NEW m \in Maps, GetWith(c, q, m)
        PROVE  AnswerOrError'
    BY <2>2, NotDoneHonest DEF GetWith, TypeOK
  <2>3. ASSUME NEW c \in Calls, NEW k \in Keys, WriteKey(c, k) \/ WriteLost(c, k)
        PROVE  AnswerOrError'
    BY <2>3, NotDoneHonest DEF WriteKey, WriteLost
  <2>4. ASSUME NEW c \in Calls, ConcurrentMap(c)
        PROVE  AnswerOrError'
    BY <2>4, NotDoneHonest DEF ConcurrentMap
  <2>5. ASSUME NEW c \in Calls, Encode(c) \/ Send(c) \/ Answered(c)
        PROVE  AnswerOrError'
    BY <2>5, NotDoneHonest DEF Encode, Send, Answered, TypeOK
  <2>6. ASSUME NEW c \in Calls, RequestFails(c) \/ DoFails(c)
        PROVE  AnswerOrError'
    <3>1. Honest(Failed, service[c])
      BY DEF Honest, Failed
    <3>. QED BY <2>6, <3>1, ReturnHonest DEF RequestFails, DoFails
  <2>7. ASSUME NEW c \in Calls, ReadAll(c) \/ ReadFails(c)
        PROVE  AnswerOrError'
    <3>1. service[c] \in Answers
      BY <2>7 DEF ReadAll, ReadFails, TypeOK
    <3>. QED BY <2>7, <3>1, HonestResults, ReturnHonest DEF ReadAll, ReadFails
  <2>8. ASSUME NEW c \in Calls, Finish(c)
        PROVE  AnswerOrError'
    BY <2>8, NotDoneHonest DEF Finish, TypeOK
  <2>9. ASSUME NEW c \in Calls, NEW a \in Answers, Serve(c, a)
        PROVE  AnswerOrError'
    BY <2>9, NotDoneHonest DEF Serve, TypeOK
  <2>10. ASSUME NEW c \in Calls, ContextEnds(c)
         PROVE  AnswerOrError'
    BY <2>10, NotDoneHonest DEF ContextEnds
  <2>11. CASE Restart
    BY <2>11 DEF Restart, AnswerOrError
  <2>12. CASE UNCHANGED vars
    BY <2>12, NotDoneHonest DEF vars
  <2>. QED BY <2>1, <2>2, <2>3, <2>4, <2>5, <2>6, <2>7, <2>8, <2>9, <2>10, <2>11, <2>12
           DEF Next, CallStep, TimesOut, Cancelled
<1>. QED BY <1>1, <1>2, TypeCorrect, PTL DEF Spec
=============================================================================
