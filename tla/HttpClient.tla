----------------------------- MODULE HttpClient -----------------------------
(***************************************************************************)
(* rest/http_client.go: goroutines that call other services.  A Get with   *)
(* query values adds the query of its own URL to them, in the caller's     *)
(* map, key by key, and sends what the map then holds.  The map belongs to *)
(* the caller, who may use it for the next call or for two at a time; two  *)
(* goroutines in one Go map are a data race, which the runtime may end     *)
(* with a fatal error.                                                     *)
(*                                                                         *)
(* A client may have no limit of time: the Timeout is what the program     *)
(* asks for, or that of any http.Client it brings.  What then ends a call  *)
(* is the context of its caller, which every request carries.              *)
(*                                                                         *)
(* The service, the network and net/http are external: a request may not   *)
(* arrive, not be answered, be answered late or be cut off in the middle   *)
(* of the body.                                                            *)
(*                                                                         *)
(* Left out: headers (those of the caller with a value, and those of the   *)
(* trace, are added to the request), methods other than that Get alone has *)
(* query values, pairs of a URL's query that do not parse, and the token   *)
(* that an OAuth2 client fetches before it sends a request.                *)
(***************************************************************************)
EXTENDS Integers

CONSTANTS
  Calls,     \* goroutines, each with one call at a time and its own client
  Timeout,   \* Timeout[c]: that of c's client, in seconds: no limit unless above 0
  Maps,      \* url.Values of the callers
  Keys,      \* names of parameters
  Values,    \* lists of values of a parameter
  Given,     \* Given[m]: what the program put into map m
  URLQueries, \* the queries that the callers' URLs have
  Codes,     \* status codes
  None       \* no value, no map (nil)

Queries == [Keys -> Values \cup {None}]

Bodies == {"empty", "json", "other"}
Answers == [code : Codes, body : Bodies]

(* respCode, respData or respBody, and whether err is nil; None: code 0.   *)
Results ==
  [code : Codes \cup {None}, data : {"none", "part", "raw", "object"}, ok : BOOLEAN]

ASSUME HttpClientAssumption ==
  /\ Timeout \in [Calls -> Int]
  /\ Given \in [Maps -> Queries]
  /\ URLQueries \subseteq Queries
  /\ None \notin Values \cup Maps \cup Codes \cup Answers \cup Results

Named(q) == {k \in Keys : q[k] # None}

VARIABLES
  up,        \* the process runs
  values,    \* values[m]: what map m holds
  wrote,     \* history: wrote[m]: <<k, v>> that calls wrote into map m
  pc,        \* pc[c]: what call c is doing
  ended,     \* ended[c]: the context of its caller has ended
  asked,     \* asked[c]: the query in the URL of its call
  given,     \* given[c]: the map it was given, or None
  todo,      \* todo[c]: keys of its URL it has yet to write
  crossed,   \* history: crossed[c]: another call was in the map as well
  sent,      \* sent[c]: the query of its request
  service,   \* service[c]: the status and body of the service's answer
  result     \* result[c]: what the call returned

url == <<asked, given, todo, crossed, sent>>
vars == <<up, values, wrote, pc, ended, url, service, result>>

NoQuery == [k \in Keys |-> None]

Init ==
  /\ up = TRUE
  /\ values = Given
  /\ wrote = [m \in Maps |-> {}]
  /\ pc = [c \in Calls |-> "idle"]
  /\ ended = [c \in Calls |-> FALSE]
  /\ asked = [c \in Calls |-> NoQuery]
  /\ given = [c \in Calls |-> None]
  /\ todo = [c \in Calls |-> {}]
  /\ crossed = [c \in Calls |-> FALSE]
  /\ sent = [c \in Calls |-> NoQuery]
  /\ service = [c \in Calls |-> None]
  /\ result = [c \in Calls |-> None]

----------------------------------------------------------------------------
(* generateURL *)

(* Calls that use map m now.                                               *)
Inside(m) == {c \in Calls : pc[c] = "merging" /\ given[c] = m}

(* Get with a map: nothing is read from it yet.                            *)
GetWith(c, q, m) ==
  /\ up /\ pc[c] = "idle"
  /\ pc' = [pc EXCEPT ![c] = "merging"]
  /\ asked' = [asked EXCEPT ![c] = q]
  /\ given' = [given EXCEPT ![c] = m]
  /\ todo' = [todo EXCEPT ![c] = Named(q)]
  /\ crossed' = [d \in Calls |->
       IF d = c THEN Inside(m) # {}
       ELSE crossed[d] \/ d \in Inside(m)]
  /\ UNCHANGED <<up, values, wrote, ended, sent, service, result>>

(* Any other call, and Get without query values, sends the URL as it is.   *)
Request(c, q) ==
  /\ up /\ pc[c] = "idle"
  /\ pc' = [pc EXCEPT ![c] = "request"]
  /\ asked' = [asked EXCEPT ![c] = q]
  /\ sent' = [sent EXCEPT ![c] = q]
  /\ UNCHANGED <<up, values, wrote, ended, given, todo, crossed, service, result>>

(* A bug: the caller's values win over those of the URL.                   *)
WriteKeyIfNew(c, k) ==
  /\ up /\ pc[c] = "merging" /\ k \in todo[c]
  /\ values' = [values EXCEPT ![given[c]][k] = IF @ = None THEN asked[c][k] ELSE @]
  /\ wrote' = [wrote EXCEPT ![given[c]] = @ \cup {<<k, asked[c][k]>>}]
  /\ todo' = [todo EXCEPT ![c] = @ \ {k}]
  /\ UNCHANGED <<up, pc, ended, asked, given, crossed, sent, service, result>>

(* One round of the loop over the URL's own query.                         *)
WriteKey(c, k) ==
  /\ up /\ pc[c] = "merging" /\ k \in todo[c]
  /\ values' = [values EXCEPT ![given[c]][k] = asked[c][k]]
  /\ wrote' = [wrote EXCEPT ![given[c]] = @ \cup {<<k, asked[c][k]>>}]
  /\ todo' = [todo EXCEPT ![c] = @ \ {k}]
  /\ UNCHANGED <<up, pc, ended, asked, given, crossed, sent, service, result>>

(* The runtime catches two goroutines in a map, one of them writing.       *)
ConcurrentMap(c) ==
  /\ up /\ pc[c] = "merging" /\ todo[c] # {} /\ Inside(given[c]) # {c}
  /\ up' = FALSE
  /\ UNCHANGED <<values, wrote, pc, ended, url, service, result>>

(* It does not catch them, and what one writes is lost.                    *)
WriteLost(c, k) ==
  /\ up /\ pc[c] = "merging" /\ k \in todo[c] /\ Inside(given[c]) # {c}
  /\ todo' = [todo EXCEPT ![c] = @ \ {k}]
  /\ UNCHANGED <<up, values, wrote, pc, ended, asked, given, crossed, sent, service, result>>

(* A bug: the query is encoded before the loop has ended.                  *)
EncodeEarly(c) ==
  /\ up /\ pc[c] = "merging"
  /\ sent' = [sent EXCEPT ![c] = values[given[c]]]
  /\ pc' = [pc EXCEPT ![c] = "request"]
  /\ UNCHANGED <<up, values, wrote, ended, asked, given, todo, crossed, service, result>>

(* Encode.                                                                 *)
Encode(c) ==
  /\ up /\ pc[c] = "merging" /\ todo[c] = {}
  /\ sent' = [sent EXCEPT ![c] = values[given[c]]]
  /\ pc' = [pc EXCEPT ![c] = "request"]
  /\ UNCHANGED <<up, values, wrote, ended, asked, given, todo, crossed, service, result>>

----------------------------------------------------------------------------
(* httpDoNoUnmarshal *)

(* The call returns; its context is the caller's business from then on.    *)
Return(c, r) ==
  /\ pc' = [pc EXCEPT ![c] = "done"]
  /\ result' = [result EXCEPT ![c] = r]
  /\ ended' = [ended EXCEPT ![c] = FALSE]
  /\ UNCHANGED <<up, values, wrote, url, service>>

Failed == [code |-> None, data |-> "none", ok |-> FALSE]

(* There is no client, or generateReq fails.  generateURL fails before it  *)
(* reads the map, which to the caller is the same.                         *)
RequestFails(c) ==
  /\ up /\ pc[c] = "request"
  /\ Return(c, Failed)

Send(c) ==
  /\ up /\ pc[c] = "request"
  /\ pc' = [pc EXCEPT ![c] = "sent"]
  /\ UNCHANGED <<up, values, wrote, ended, url, service, result>>

(* Do returns an error: the connection fails, or what else may end it.     *)
DoFails(c) ==
  /\ up /\ pc[c] = "sent"
  /\ Return(c, Failed)

(* The status and the headers are there.                                   *)
Answered(c) ==
  /\ up /\ pc[c] = "sent" /\ service[c] # None
  /\ pc' = [pc EXCEPT ![c] = "reading"]
  /\ UNCHANGED <<up, values, wrote, ended, url, service, result>>

(* httpDo: the object in the body, if there is one.                        *)
Unmarshal(a) ==
  CASE a.body = "empty" -> [code |-> a.code, data |-> "none", ok |-> TRUE]
    [] a.body = "json"  -> [code |-> a.code, data |-> "object", ok |-> TRUE]
    [] a.body = "other" -> [code |-> a.code, data |-> "none", ok |-> FALSE]

NoUnmarshal(a) == [code |-> a.code, data |-> "raw", ok |-> TRUE]

(* io.ReadAll reaches the end of the body.                                 *)
ReadAll(c) ==
  /\ up /\ pc[c] = "reading"
  /\ \E r \in {Unmarshal(service[c]), NoUnmarshal(service[c])} : Return(c, r)

(* A bug: the error of io.ReadAll is dropped.                              *)
ReadFailsSilently(c) ==
  /\ up /\ pc[c] = "reading"
  /\ \E data \in {"none", "part"} :
       Return(c, [code |-> service[c].code, data |-> data, ok |-> TRUE])

(* It does not: the code is returned with the error, and by the variants   *)
(* without unmarshalling what was read so far.                             *)
ReadFails(c) ==
  /\ up /\ pc[c] = "reading"
  /\ \E data \in {"none", "part"} :
       Return(c, [code |-> service[c].code, data |-> data, ok |-> FALSE])

(* Its client has a limit of time.                                         *)
Limited(c) == Timeout[c] > 0

(* A bug: a limit for the headers alone, not for the body.                 *)
TimesOutBeforeBody(c) == Limited(c) /\ DoFails(c)

(* The client's Timeout covers the body as well.                           *)
TimesOut(c) == Limited(c) /\ (DoFails(c) \/ ReadFails(c))

(* So does the caller's context.                                           *)
Cancelled(c) == ended[c] /\ (DoFails(c) \/ ReadFails(c))

Finish(c) ==
  /\ up /\ pc[c] = "done"
  /\ pc' = [pc EXCEPT ![c] = "idle"]
  /\ asked' = [asked EXCEPT ![c] = NoQuery]
  /\ given' = [given EXCEPT ![c] = None]
  /\ crossed' = [crossed EXCEPT ![c] = FALSE]
  /\ sent' = [sent EXCEPT ![c] = NoQuery]
  /\ service' = [service EXCEPT ![c] = None]
  /\ result' = [result EXCEPT ![c] = None]
  /\ UNCHANGED <<up, values, wrote, ended, todo>>

(* The process is started again, with maps as the program fills them.      *)
Restart ==
  /\ ~up
  /\ up' = TRUE /\ values' = Given /\ wrote' = [m \in Maps |-> {}]
  /\ pc' = [c \in Calls |-> "idle"]
  /\ ended' = [c \in Calls |-> FALSE]
  /\ asked' = [c \in Calls |-> NoQuery] /\ given' = [c \in Calls |-> None]
  /\ todo' = [c \in Calls |-> {}] /\ crossed' = [c \in Calls |-> FALSE]
  /\ sent' = [c \in Calls |-> NoQuery]
  /\ service' = [c \in Calls |-> None] /\ result' = [c \in Calls |-> None]

----------------------------------------------------------------------------
(* The service answers a request that waits, or never does.                *)
Serve(c, a) ==
  /\ pc[c] = "sent" /\ service[c] = None
  /\ service' = [service EXCEPT ![c] = a]
  /\ UNCHANGED <<up, values, wrote, pc, ended, url, result>>

Busy(c) == pc[c] \in {"merging", "request", "sent", "reading"}

(* The context of a caller ends: a deadline of its own, or it gives up.    *)
ContextEnds(c) ==
  /\ up /\ Busy(c) /\ ~ended[c]
  /\ ended' = [ended EXCEPT ![c] = TRUE]
  /\ UNCHANGED <<up, values, wrote, pc, url, service, result>>

CallStep(c) ==
  \/ \E q \in URLQueries : Request(c, q) \/ \E m \in Maps : GetWith(c, q, m)
  \/ \E k \in Keys : WriteKey(c, k) \/ WriteLost(c, k)
  \/ ConcurrentMap(c) \/ Encode(c)
  \/ RequestFails(c) \/ Send(c) \/ Answered(c) \/ ReadAll(c)
  \/ DoFails(c) \/ ReadFails(c) \/ TimesOut(c) \/ Cancelled(c)
  \/ Finish(c)

Next ==
  \/ \E c \in Calls : CallStep(c) \/ ContextEnds(c)
  \/ \E c \in Calls, a \in Answers : Serve(c, a)
  \/ Restart

Spec == Init /\ [][Next]_vars

(* A goroutine goes on, and net/http ends what has run out of time or was  *)
(* given up.  Nothing else owes an end: not the service, not the network,  *)
(* not the caller's context.                                               *)
Fairness ==
  \A c \in Calls :
    /\ WF_vars(\E k \in Keys : WriteKey(c, k))
    /\ WF_vars(Encode(c)) /\ WF_vars(Send(c) \/ RequestFails(c))
    /\ WF_vars(TimesOut(c)) /\ WF_vars(Cancelled(c))

FairSpec == Spec /\ Fairness

----------------------------------------------------------------------------
(* Properties *)

(* Every variable has its type, and a request is made of a loop that ended.*)
TypeOK ==
  /\ up \in BOOLEAN
  /\ values \in [Maps -> Queries]
  /\ wrote \in [Maps -> SUBSET (Keys \X Values)]
  /\ pc \in [Calls -> {"idle", "merging", "request", "sent", "reading", "done"}]
  /\ ended \in [Calls -> BOOLEAN]
  /\ asked \in [Calls -> Queries]
  /\ given \in [Calls -> Maps \cup {None}]
  /\ todo \in [Calls -> SUBSET Keys]
  /\ crossed \in [Calls -> BOOLEAN]
  /\ sent \in [Calls -> Queries]
  /\ service \in [Calls -> Answers \cup {None}]
  /\ result \in [Calls -> Results \cup {None}]
  /\ \A c \in Calls :
       /\ todo[c] \subseteq Named(asked[c])
       /\ ended[c] => Busy(c)
       /\ pc[c] = "merging" => given[c] # None
       /\ pc[c] # "merging" => todo[c] = {}
       /\ pc[c] = "reading" => service[c] # None
       /\ pc[c] = "done" => result[c] # None

(* What a parameter may be in the request of a call with a map that no     *)
(* other call used meanwhile: that of the URL, or else what the caller put *)
(* into the map, unless an earlier call left its own there.                *)
Expected(c, k) ==
  IF asked[c][k] # None THEN {asked[c][k]}
  ELSE {Given[given[c]][k]} \cup {v \in Values : <<k, v>> \in wrote[given[c]]}

(* A request carries the parameters of its own URL, whatever the map was   *)
(* used for before; a parameter nobody asked for in this call comes from   *)
(* an earlier call with the same map, never from elsewhere.  Two calls in  *)
(* one map at a time send a mixture of theirs, and a call without a map is *)
(* never touched.                                                          *)
QueryAsAsked ==
  \A c \in Calls : pc[c] \in {"request", "sent", "reading", "done"} =>
    /\ given[c] = None => sent[c] = asked[c]
    /\ given[c] # None => \A k \in Keys :
         \/ sent[c][k] \in Expected(c, k)
         \/ /\ crossed[c]
            /\ sent[c][k] = Given[given[c]][k] \/ <<k, sent[c][k]>> \in wrote[given[c]]

(* A code, with or without an error, is the service's answer to this call, *)
(* and without an error the whole body is there: a caller who looks at err *)
(* first never takes a failure or a part of a body for an answer.          *)
AnswerOrError ==
  \A c \in Calls : pc[c] = "done" =>
    /\ result[c].code # None => service[c] # None /\ result[c].code = service[c].code
    /\ result[c].ok =>
         /\ result[c].code # None
         /\ result[c].data = "object" => service[c].body = "json"
         /\ result[c].data = "none" => service[c].body = "empty"
         /\ result[c].data # "part"

(* A call returns if its client has a Timeout or if its caller's context   *)
(* ends, even when the service never answers or stops in the middle of the *)
(* body, unless the runtime ends the process.  With a Timeout of 0 and a   *)
(* context that does not end it need not: only the service can end it.     *)
(* (http_client.go:46-90, 200, 211, 247.)                                  *)
CallReturns ==
  \A c \in Calls : Busy(c) /\ (Limited(c) \/ ended[c]) ~> (pc[c] = "done" \/ ~up)
=============================================================================
