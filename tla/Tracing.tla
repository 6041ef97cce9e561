------------------------------- MODULE Tracing -------------------------------
(***************************************************************************)
(* observability/observability_trace.go, observability_setting.go,         *)
(* middleware/middleware.go and the header that rest/http_client.go sends: *)
(* services that serve requests and call one another, open spans for what  *)
(* they do, and hand ended spans to the exporter of their provider through *)
(* a bounded queue that blocks.                                            *)
(*                                                                         *)
(* The OpenTelemetry SDK is external: the number of a span, the context of *)
(* a caller in a header, the goroutine that takes spans from the queue and *)
(* exports them in batches, each within a time limit and once.             *)
(*                                                                         *)
(* Left out: the attributes and the status of a span; sampling (a service  *)
(* with a provider records every span); spans that are never ended.        *)
(***************************************************************************)
EXTENDS Naturals, Sequences, FiniteSets

CONSTANTS
  Services,
  Goroutines, \* each serves one request at a time
  At,         \* At[g]: the service of goroutine g
  Edge,       \* goroutines that serve requests from outside; the others serve calls
  QueueSize,  \* WithMaxQueueSize (TraceMaxQueueSize, or 2048)
  BatchSize,  \* WithMaxExportBatchSize (1000)
  MaxSpans,   \* bound: spans that are open, in memory or somebody's context
  MaxDepth,   \* MaxDepth[g]: bound: spans inside one another in goroutine g
  MaxInits,   \* MaxInits[s]: bound: calls of InitTraceProvider in a process of service s
  MaxFaults,  \* bound: ends of processes and calls given up
  None        \* no context, no goroutine, no span

VARIABLES
  propagates, \* propagates[s]: service s has set a propagator
  provider,   \* provider[s]: the latest provider of s; 0: none, spans are not recorded
  pc,         \* pc[g]: "idle", "serving", "calling" or "ending"
  head,       \* head[g]: the context in the header of its request
  request,    \* request[g]: the context in c.Request
  open,       \* open[g]: the spans it has started and not ended, innermost last
  called,     \* called[g]: the goroutine that serves its call
  ending,     \* ending[g]: the span that it is ending, if it is recorded
  queue,      \* queue[p]: ended spans that provider p has not taken yet
  batch,      \* batch[p]: those it has taken
  base,       \* history: base[g]: the context in which its request was made
  due,        \* history: recorded spans that no export has taken, with their provider
  faults      \* ends of processes and calls given up so far

serviceVars == <<propagates, provider>>
requestVars == <<head, request, base>>
exportVars == <<queue, batch>>
vars == <<serviceVars, pc, requestVars, open, called, ending, exportVars, due, faults>>

SpanIds == 1 .. MaxSpans

(* The span of a caller outside, in its own trace.                         *)
Outside == 0

(* A context: the span it holds.                                           *)
Contexts == {None, Outside} \cup SpanIds

Providers == UNION {{s} \X (1 .. MaxInits[s]) : s \in Services}

(* What Start returns: the context it was given and a span, if one is      *)
(* recorded.                                                               *)
RecordedSpans == [kind : {"server", "inner"}, parent : Contexts,
                  span : SpanIds, provider : Providers]

Spans == RecordedSpans \cup [kind : {"server", "inner"}, parent : Contexts,
                             span : {None}, provider : {None}]

ASSUME TracingAssumption ==
  /\ IsFiniteSet(Goroutines) /\ Edge \subseteq Goroutines
  /\ At \in [Goroutines -> Services]
  /\ QueueSize \in Nat \ {0} /\ BatchSize \in Nat \ {0}
  /\ MaxDepth \in [Goroutines -> Nat]
  /\ MaxSpans \in Nat /\ MaxInits \in [Services -> Nat] /\ MaxFaults \in Nat
  /\ None \notin Goroutines \cup Nat \cup RecordedSpans

Last(s) == s[Len(s)]
Front(s) == SubSeq(s, 1, Len(s) - 1)
Elements(s) == {s[i] : i \in DOMAIN s}

Init ==
  /\ propagates \in [Services -> BOOLEAN]
  /\ provider = [s \in Services |-> 0]
  /\ pc = [g \in Goroutines |-> "idle"]
  /\ head = [g \in Goroutines |-> None]
  /\ request = [g \in Goroutines |-> None]
  /\ open = [g \in Goroutines |-> <<>>]
  /\ called = [g \in Goroutines |-> None]
  /\ ending = [g \in Goroutines |-> None]
  /\ queue = [p \in Providers |-> <<>>]
  /\ batch = [p \in Providers |-> {}]
  /\ base = [g \in Goroutines |-> None]
  /\ due = {}
  /\ faults = 0

----------------------------------------------------------------------------
(* Contexts *)

(* ExtractTraceHeader: the context of the header, if there is one.         *)
Extract(s, ctx, h) == IF propagates[s] /\ h # None THEN h ELSE ctx

(* Inject: the header that is sent in context ctx.                         *)
Inject(s, ctx) == IF propagates[s] THEN ctx ELSE None

(* The context that Start returns.                                         *)
CtxOf(x) == IF x.span = None THEN x.parent ELSE x.span

(* The context that goroutine g works in.                                  *)
Ctx(g) == IF open[g] = <<>> THEN request[g] ELSE CtxOf(Last(open[g]))

(* The context that work of g inside its first n spans belongs to: the     *)
(* innermost one that is recorded, or the request's own if g has joined it *)
(* there, by StartServerSpan, or in the middleware.                        *)
Innermost(g, n) ==
  LET known == {i \in 1 .. n : open[g][i].span # None \/ open[g][i].kind = "server"}
      last == open[g][CHOOSE i \in known : \A j \in known : j <= i]
  IN  IF known # {} /\ last.span # None THEN last.span
      ELSE IF known # {} \/ request[g] # None THEN base[g]
      ELSE None

----------------------------------------------------------------------------
(* Requests *)

(* Goroutine g takes a request with header h, made in context b; joins: in *)
(* a route with TracingMiddleware.                                         *)
Takes(g, h, b, joins) ==
  /\ head' = [head EXCEPT ![g] = h]
  /\ base' = [base EXCEPT ![g] = b]
  /\ request' = [request EXCEPT ![g] = IF joins THEN Extract(At[g], None, h) ELSE None]

(* From outside, with a trace or, as far as the service can tell, without. *)
Arrive(g, h, joins) ==
  /\ g \in Edge /\ pc[g] = "idle"
  /\ propagates[At[g]] \/ h = None
  /\ pc' = [pc EXCEPT ![g] = "serving"]
  /\ Takes(g, h, h, joins)
  /\ UNCHANGED <<serviceVars, open, called, ending, exportVars, due, faults>>

(* g calls another service, where d serves it; ctx: the context that it    *)
(* works in, or context.Background().                                      *)
Call(g, d, background, joins) ==
  LET ctx == IF background THEN None ELSE Ctx(g)
      linked == ~background /\ propagates[At[g]] /\ propagates[At[d]]
  IN  /\ pc[g] = "serving" /\ pc[d] = "idle" /\ d \notin Edge /\ At[g] # At[d]
      /\ pc' = [pc EXCEPT ![g] = "calling", ![d] = "serving"]
      /\ called' = [called EXCEPT ![g] = d]
      /\ Takes(d, Inject(At[g], ctx), IF linked THEN Innermost(g, Len(open[g])) ELSE None, joins)
      /\ UNCHANGED <<serviceVars, open, ending, exportVars, due, faults>>

(* The client's Timeout, or the end of a context: the call fails, and what *)
(* was called goes on.                                                     *)
GiveUp(g) ==
  /\ pc[g] = "calling" /\ faults < MaxFaults
  /\ pc' = [pc EXCEPT ![g] = "serving"]
  /\ faults' = faults + 1
  /\ called' = [called EXCEPT ![g] = None]
  /\ UNCHANGED <<serviceVars, requestVars, open, ending, exportVars, due>>

(* Those that wait for a goroutine of D go on.                             *)
Answered(D) ==
  called' = [g \in Goroutines |-> IF called[g] \in D THEN None ELSE called[g]]

(* A bug: the request's context is not put back.                           *)
ReturnKeepsContext(g) ==
  /\ pc[g] = "serving" /\ open[g] = <<>>
  /\ pc' = [h \in Goroutines |-> IF h = g THEN "idle" ELSE IF called[h] = g THEN "serving" ELSE pc[h]]
  /\ Answered({g})
  /\ head' = [head EXCEPT ![g] = None]
  /\ base' = [base EXCEPT ![g] = None]
  /\ UNCHANGED <<serviceVars, request, open, ending, exportVars, due, faults>>

(* The handlers are through; the middleware puts the context back.         *)
Return(g) ==
  /\ pc[g] = "serving" /\ open[g] = <<>>
  /\ pc' = [h \in Goroutines |-> IF h = g THEN "idle" ELSE IF called[h] = g THEN "serving" ELSE pc[h]]
  /\ Answered({g})
  /\ head' = [head EXCEPT ![g] = None]
  /\ request' = [request EXCEPT ![g] = None]
  /\ base' = [base EXCEPT ![g] = None]
  /\ UNCHANGED <<serviceVars, open, ending, exportVars, due, faults>>

----------------------------------------------------------------------------
(* Spans *)

(* Spans that are open, on their way, or in a context that is still used.  *)
InUse ==
  {n \in SpanIds :
     \/ \E p \in Providers : <<n, p>> \in due
     \/ \E g \in Goroutines :
          \/ n \in {head[g], request[g], base[g]}
          \/ \E x \in Elements(open[g]) : n = x.parent}

(* GlobalTracer().Start in context ctx: with the provider of the moment, a *)
(* new span; without, none is recorded, and the context is kept.           *)
Start(g, kind, ctx) ==
  LET p == <<At[g], provider[At[g]]>>
      free == SpanIds \ InUse
      n == CHOOSE m \in free : TRUE
      opens(x) == open' = [open EXCEPT ![g] = Append(@, x)]
  IN  /\ Len(open[g]) < MaxDepth[g]
      /\ IF p \notin Providers
         THEN /\ opens([kind |-> kind, parent |-> ctx, span |-> None, provider |-> None])
              /\ due' = due
         ELSE /\ free # {}
              /\ opens([kind |-> kind, parent |-> ctx, span |-> n, provider |-> p])
              /\ due' = due \cup {<<n, p>>}
      /\ UNCHANGED <<serviceVars, pc, requestVars, called, ending, exportVars, faults>>

(* StartInternalSpan, StartConsumerSpan, StartProducerSpan.                *)
StartSpan(g) == pc[g] = "serving" /\ Start(g, "inner", Ctx(g))

(* A bug: the header is left to the middleware.                            *)
StartServerSpanFromRequest(g) == pc[g] = "serving" /\ Start(g, "server", request[g])

(* StartServerSpan: in the context of the header, wherever it is called.   *)
StartServerSpan(g) ==
  /\ pc[g] = "serving"
  /\ Start(g, "server", Extract(At[g], request[g], head[g]))

Room(p) == Len(queue[p]) < QueueSize

Put(x) == queue' = [queue EXCEPT ![x.provider] = Append(@, x.span)]

(* A bug: no WithBlocking.                                                 *)
EndSpanDrops(g) ==
  LET x == Last(open[g])
  IN  /\ pc[g] = "serving" /\ open[g] # <<>>
      /\ open' = [open EXCEPT ![g] = Front(@)]
      /\ IF x.span # None /\ Room(x.provider) THEN Put(x) ELSE queue' = queue
      /\ UNCHANGED <<serviceVars, pc, requestVars, called, ending, batch, due, faults>>

(* EndSpan, TelemetrySpanEnd of the innermost span, by a deferred call;    *)
(* WithBlocking: without room its goroutine has to wait.                   *)
EndSpan(g) ==
  LET x == Last(open[g])
  IN  /\ pc[g] = "serving" /\ open[g] # <<>>
      /\ open' = [open EXCEPT ![g] = Front(@)]
      /\ \/ x.span = None /\ UNCHANGED <<pc, ending, queue>>
         \/ x.span # None /\ Room(x.provider) /\ Put(x) /\ UNCHANGED <<pc, ending>>
         \/ /\ x.span # None /\ ~Room(x.provider)
            /\ pc' = [pc EXCEPT ![g] = "ending"]
            /\ ending' = [ending EXCEPT ![g] = x]
            /\ queue' = queue
      /\ UNCHANGED <<serviceVars, requestVars, called, batch, due, faults>>

(* There is room again.                                                    *)
Enqueue(g) ==
  /\ pc[g] = "ending" /\ Room(ending[g].provider)
  /\ Put(ending[g])
  /\ pc' = [pc EXCEPT ![g] = "serving"]
  /\ ending' = [ending EXCEPT ![g] = None]
  /\ UNCHANGED <<serviceVars, requestVars, open, called, batch, due, faults>>

----------------------------------------------------------------------------
(* Processes *)

(* InitTraceProvider: a new provider for the spans that start from now on; *)
(* one there was before goes on with its own.                              *)
InitTraceProvider(s) ==
  /\ provider[s] < MaxInits[s]
  /\ provider' = [provider EXCEPT ![s] = @ + 1]
  /\ UNCHANGED <<propagates, pc, requestVars, open, called, ending, exportVars, due, faults>>

(* The goroutine of provider p takes a span.                               *)
Take(p) ==
  /\ queue[p] # <<>> /\ Cardinality(batch[p]) < BatchSize
  /\ batch' = [batch EXCEPT ![p] = @ \cup {Head(queue[p])}]
  /\ queue' = [queue EXCEPT ![p] = Tail(@)]
  /\ UNCHANGED <<serviceVars, pc, requestVars, open, called, ending, due, faults>>

(* It exports what it has, when that is as many as fit or the time for a   *)
(* batch is over: the collector gets them, or the time limit ends the      *)
(* export and they are dropped; once, either way.                          *)
Export(p) ==
  /\ batch[p] # {}
  /\ batch' = [batch EXCEPT ![p] = {}]
  /\ due' = due \ (batch[p] \X {p})
  /\ UNCHANGED <<serviceVars, pc, requestVars, open, called, ending, queue, faults>>

(* The process of s ends: nothing shuts its provider down.  It is started  *)
(* again; callers see their calls fail.                                    *)
Crash(s) ==
  LET D == {g \in Goroutines : At[g] = s}
      own(p) == p[1] = s
      cleared(f, e) == [g \in Goroutines |-> IF g \in D THEN e ELSE f[g]]
  IN  /\ faults < MaxFaults
      /\ faults' = faults + 1
      /\ provider' = [provider EXCEPT ![s] = 0]
      /\ queue' = [p \in Providers |-> IF own(p) THEN <<>> ELSE queue[p]]
      /\ batch' = [p \in Providers |-> IF own(p) THEN {} ELSE batch[p]]
      /\ due' = {d \in due : ~own(d[2])}
      /\ pc' = [g \in Goroutines |->
           IF g \in D THEN "idle" ELSE IF called[g] \in D THEN "serving" ELSE pc[g]]
      /\ called' = [g \in Goroutines |-> IF g \in D \/ called[g] \in D THEN None ELSE called[g]]
      /\ head' = cleared(head, None) /\ request' = cleared(request, None)
      /\ base' = cleared(base, None) /\ ending' = cleared(ending, None)
      /\ open' = cleared(open, <<>>)
      /\ UNCHANGED propagates

----------------------------------------------------------------------------
GoroutineStep(g) ==
  \/ \E h \in {None, Outside}, joins \in BOOLEAN : Arrive(g, h, joins)
  \/ \E d \in Goroutines, background, joins \in BOOLEAN : Call(g, d, background, joins)
  \/ GiveUp(g)
  \/ Return(g)
  \/ StartSpan(g) \/ StartServerSpan(g)
  \/ EndSpan(g) \/ Enqueue(g)

Next ==
  \/ \E g \in Goroutines : GoroutineStep(g)
  \/ \E p \in Providers : Take(p) \/ Export(p)
  \/ \E s \in Services : InitTraceProvider(s) \/ Crash(s)

Spec == Init /\ [][Next]_vars

----------------------------------------------------------------------------
(* Properties *)

(* Every variable has its type; a goroutine without a request holds        *)
(* nothing of an earlier one.                                              *)
TypeOK ==
  /\ propagates \in [Services -> BOOLEAN]
  /\ provider \in [Services -> Nat] /\ \A s \in Services : provider[s] <= MaxInits[s]
  /\ pc \in [Goroutines -> {"idle", "serving", "calling", "ending"}]
  /\ head \in [Goroutines -> Contexts]
  /\ request \in [Goroutines -> Contexts]
  /\ open \in [Goroutines -> Seq(Spans)]
  /\ called \in [Goroutines -> Goroutines \cup {None}]
  /\ ending \in [Goroutines -> RecordedSpans \cup {None}]
  /\ queue \in [Providers -> Seq(SpanIds)]
  /\ batch \in [Providers -> SUBSET SpanIds]
  /\ base \in [Goroutines -> Contexts]
  /\ due \in SUBSET (SpanIds \X Providers)
  /\ faults \in 0 .. MaxFaults
  /\ \A g \in Goroutines :
       /\ pc[g] = "idle" => head[g] = None /\ request[g] = None /\ open[g] = <<>>
       /\ (pc[g] = "calling") <=> (called[g] # None)
       /\ (pc[g] = "ending") <=> (ending[g] # None)

(* A span has the parent that a reader of the trace expects, in whatever   *)
(* process that one is: the innermost span that was open around it, or the *)
(* one that was open in the caller when it made the request, through       *)
(* services that record nothing, after a caller gave up or ended, and      *)
(* however late a provider is set.  It begins a trace of its own if the    *)
(* request had none, a hop does not propagate, was made without the        *)
(* context, or was not joined.  A server span always belongs to the        *)
(* request.  (observability_trace.go:134, middleware.go:24,                *)
(* http_client.go:198.)                                                    *)
OneTrace ==
  \A g \in Goroutines : \A i \in DOMAIN open[g] :
    LET x == open[g][i]
    IN  x.span # None =>
          x.parent = IF x.kind = "server" THEN base[g] ELSE Innermost(g, i - 1)

(* Spans of goroutine g that are recorded.                                 *)
Recorded(g) == {i \in DOMAIN open[g] : open[g][i].span # None}

(* Where they are, with their provider.                                    *)
OfOpen ==
  UNION {{<<open[g][i].span, open[g][i].provider>> : i \in Recorded(g)} : g \in Goroutines}
OfEnding ==
  {<<ending[g].span, ending[g].provider>> : g \in {h \in Goroutines : ending[h] # None}}
OfQueue == UNION {Elements(queue[p]) \X {p} : p \in Providers}
OfBatch == UNION {batch[p] \X {p} : p \in Providers}

(* A span is with the goroutine that works in it or ends it, or in the     *)
(* hands of the provider it began with, until an export takes it or its    *)
(* process ends: none is dropped, also when the queue is full and when the *)
(* provider is replaced, and none is there twice.                          *)
(* (observability_trace.go:54, 76, 109.)                                   *)
SpansKept ==
  LET o == OfOpen
      e == OfEnding
      q == OfQueue
      b == OfBatch
  IN  /\ due = o \cup e \cup q \cup b
      /\ o \cap (e \cup q \cup b) = {}
      /\ e \cap (q \cup b) = {}
      /\ q \cap b = {}
=============================================================================
