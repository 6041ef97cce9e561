---------------------------- MODULE TracingProofs ----------------------------
(***************************************************************************)
(* Proofs about Tracing, for any number of services and goroutines, any    *)
(* nesting of spans and any size of queues and batches: the types, the     *)
(* parent of every span, and where ended spans are.                        *)
(***************************************************************************)
EXTENDS Tracing, SequenceTheorems, FiniteSetTheorems, TLAPS

----------------------------------------------------------------------------
(* Sequences and numbers *)

(* A span started or ended last is at the end of a sequence.               *)
LEMMA AppendFacts ==
  ASSUME NEW S, NEW s \in Seq(S), NEW e \in S
  PROVE  /\ Append(s, e) \in Seq(S)
         /\ Len(s) \in Nat /\ Len(Append(s, e)) = Len(s) + 1
         /\ DOMAIN s = 1 .. Len(s) /\ DOMAIN Append(s, e) = 1 .. (Len(s) + 1)
         /\ \A i \in 1 .. Len(s) : Append(s, e)[i] = s[i]
         /\ Append(s, e)[Len(s) + 1] = e
BY AppendProperties, LenProperties

(* What is open besides the innermost span.  (TelemetrySpanEnd ends that.) *)
LEMMA FrontFacts ==
  ASSUME NEW S, NEW s \in Seq(S), s # <<>>
  PROVE  /\ Front(s) \in Seq(S) /\ Last(s) \in S
         /\ Len(s) \in Nat \ {0} /\ Len(Front(s)) = Len(s) - 1
         /\ DOMAIN s = 1 .. Len(s) /\ DOMAIN Front(s) = 1 .. (Len(s) - 1)
         /\ \A i \in 1 .. (Len(s) - 1) : Front(s)[i] = s[i]
<1>1. Len(s) \in Nat \ {0} /\ DOMAIN s = 1 .. Len(s)
  BY LenProperties, EmptySeq
<1>2. /\ 1 \in 1 .. (Len(s) + 1) /\ Len(s) - 1 \in (1 - 1) .. Len(s)
      /\ Len(s) - 1 \in Nat /\ Len(s) \in 1 .. Len(s)
  BY <1>1
<1>3. /\ Front(s) \in Seq(S)
      /\ Len(Front(s)) = Len(s) - 1
      /\ \A i \in 1 .. (Len(s) - 1) : Front(s)[i] = s[i]
  BY <1>1, <1>2, SubSeqProperties DEF Front
<1>4. Last(s) \in S
  BY <1>2, ElementOfSeq DEF Last
<1>. QED BY <1>1, <1>3, <1>4, LenProperties

(* What is left of a queue when its first span is taken.                   *)
LEMMA TailFacts ==
  ASSUME NEW S, NEW s \in Seq(S), s # <<>>
  PROVE  /\ Head(s) \in S /\ Head(s) = s[1] /\ Tail(s) \in Seq(S)
         /\ Len(s) \in Nat \ {0} /\ Len(Tail(s)) = Len(s) - 1
         /\ DOMAIN s = 1 .. Len(s) /\ DOMAIN Tail(s) = 1 .. (Len(s) - 1)
         /\ \A i \in 1 .. (Len(s) - 1) : Tail(s)[i] = s[i + 1]
BY HeadTailProperties, EmptySeq, LenProperties

(* Numbers up to n have a largest.                                         *)
LEMMA LargestExists ==
  ASSUME NEW n \in Nat, NEW S \in SUBSET (1 .. n), S # {}
  PROVE  \E i \in S : \A j \in S : j <= i
<1>. DEFINE T == {n - i : i \in S}
<1>1. T \subseteq Nat /\ T # {}
  <2>1. \A i \in S : n - i \in Nat
    OBVIOUS
  <2>2. PICK i \in S : TRUE
    OBVIOUS
  <2>3. n - i \in T
    OBVIOUS
  <2>. QED BY <2>1, <2>3
<1>2. \E x \in T : \A y \in T : <<y, x>> \notin OpToRel(<, Nat)
  BY <1>1, WFMin, NatLessThanWellFounded, Zenon
<1>3. PICK x \in T : \A y \in T : ~(y < x)
  BY <1>1, <1>2, Zenon DEF OpToRel
<1>4. PICK i \in S : x = n - i
  OBVIOUS
<1>5. \A j \in S : ~(n - j < n - i)
  BY <1>3, <1>4
<1>6. \A j \in S : j \in Nat /\ i \in Nat
  OBVIOUS
<1>. QED BY <1>5, <1>6

----------------------------------------------------------------------------
(* The context inside open spans, as a function of the spans s, the        *)
(* context b in which the request was made and the request's own, r.       *)

Known(s, n) == {i \in 1 .. n : s[i].span # None \/ s[i].kind = "server"}

Top(S) == CHOOSE i \in S : \A j \in S : j <= i

Within(s, n, b, r) ==
  IF Known(s, n) # {} /\ s[Top(Known(s, n))].span # None THEN s[Top(Known(s, n))].span
  ELSE IF Known(s, n) # {} \/ r # None THEN b
  ELSE None

(* The model's Innermost is that function of a goroutine's variables.      *)
LEMMA InnermostWithin ==
  ASSUME NEW g, NEW n
  PROVE  Innermost(g, n) = Within(open[g], n, base[g], request[g])
BY DEF Innermost, Within, Known, Top

(* Top names the innermost of a set of spans.                              *)
LEMMA TopIsLargest ==
  ASSUME NEW n \in Nat, NEW S \in SUBSET (1 .. n), S # {}
  PROVE  Top(S) \in S /\ \A j \in S : j <= Top(S)
BY LargestExists DEF Top

(* Outside all spans.                                                      *)
LEMMA WithinNone ==
  ASSUME NEW s, NEW b, NEW r
  PROVE  Within(s, 0, b, r) = IF r # None THEN b ELSE None
<1>1. Known(s, 0) = {}
  BY DEF Known
<1>. QED BY <1>1 DEF Within

(* Spans further in make no difference.                                    *)
LEMMA WithinSame ==
  ASSUME NEW n \in Nat, NEW s, NEW t, \A i \in 1 .. n : s[i] = t[i], NEW b, NEW r
  PROVE  Within(s, n, b, r) = Within(t, n, b, r)
<1>1. Known(s, n) = Known(t, n) /\ Known(s, n) \in SUBSET (1 .. n)
  BY DEF Known
<1>2. CASE Known(s, n) = {}
  BY <1>1, <1>2 DEF Within
<1>3. CASE Known(s, n) # {}
  <2>1. Top(Known(s, n)) \in 1 .. n
    BY <1>1, <1>3, TopIsLargest
  <2>2. s[Top(Known(s, n))] = t[Top(Known(t, n))]
    BY <1>1, <2>1
  <2>. QED BY <1>1, <1>3, <2>2 DEF Within
<1>. QED BY <1>2, <1>3

(* One span further in: its own context if it is recorded, the request's   *)
(* if it is a server span, or else that around it.                         *)
LEMMA WithinStep ==
  ASSUME NEW n \in Nat, NEW s, NEW b, NEW r
  PROVE  Within(s, n + 1, b, r) =
           IF s[n + 1].span # None THEN s[n + 1].span
           ELSE IF s[n + 1].kind = "server" THEN b
           ELSE Within(s, n, b, r)
<1>1. 1 .. (n + 1) = (1 .. n) \cup {n + 1} /\ n + 1 \notin 1 .. n /\ n + 1 \in Nat
  OBVIOUS
<1>2. CASE s[n + 1].span # None \/ s[n + 1].kind = "server"
  <2>1. n + 1 \in Known(s, n + 1) /\ Known(s, n + 1) \in SUBSET (1 .. (n + 1))
    BY <1>1, <1>2 DEF Known
  <2>2. /\ Top(Known(s, n + 1)) \in 1 .. (n + 1)
        /\ n + 1 <= Top(Known(s, n + 1))
    BY <1>1, <2>1, TopIsLargest
  <2>3. Top(Known(s, n + 1)) = n + 1
    BY <2>2
  <2>. QED BY <1>2, <2>1, <2>3 DEF Within
<1>3. CASE ~(s[n + 1].span # None \/ s[n + 1].kind = "server")
  <2>1. Known(s, n + 1) = Known(s, n)
    BY <1>1, <1>3 DEF Known
  <2>. QED BY <1>3, <2>1 DEF Within
<1>. QED BY <1>2, <1>3

(* It is a context.                                                        *)
LEMMA WithinType ==
  ASSUME NEW s \in Seq(Spans), NEW n \in 0 .. Len(s), NEW b \in Contexts, NEW r
  PROVE  Within(s, n, b, r) \in Contexts
<1>1. Len(s) \in Nat /\ n \in Nat /\ 1 .. n \subseteq 1 .. Len(s)
  BY LenProperties
<1>2. Known(s, n) \in SUBSET (1 .. n)
  BY DEF Known
<1>3. \A i \in 1 .. n : s[i].span # None => s[i].span \in Contexts
  <2>1. ASSUME NEW i \in 1 .. n
        PROVE  s[i] \in Spans
    BY <1>1, ElementOfSeq
  <2>. QED BY <2>1 DEF Spans, RecordedSpans, Contexts
<1>4. None \in Contexts
  BY DEF Contexts
<1>5. CASE Known(s, n) = {}
  BY <1>4, <1>5 DEF Within
<1>6. CASE Known(s, n) # {}
  <2>1. Top(Known(s, n)) \in 1 .. n
    BY <1>1, <1>2, <1>6, TopIsLargest
  <2>. QED BY <1>3, <1>6, <2>1 DEF Within
<1>. QED BY <1>5, <1>6

----------------------------------------------------------------------------
(* Types *)

Labels == {"idle", "serving", "calling", "ending"}

(* TypeOK in two parts: the sets of the variables, and what holds of each  *)
(* goroutine.                                                              *)
Shapes ==
  /\ propagates \in [Services -> BOOLEAN]
  /\ provider \in [Services -> Nat] /\ \A s \in Services : provider[s] <= MaxInits[s]
  /\ pc \in [Goroutines -> Labels]
  /\ head \in [Goroutines -> Contexts]
  /\ request \in [Goroutines -> Contexts]
  /\ open \in [Goroutines -> Seq(Spans)]
  /\ called \in [Goroutines -> Goroutines \cup {None}]
  /\ ending \in [Goroutines -> RecordedSpans \cup {None}]
  /\ queue \in [Providers -> Seq(SpanIds)]
  /\ batch \in [Providers -> SUBSET SpanIds]
  /\ base \in [Goroutines -> Contexts]
  /\ due \in SUBSET (SpanIds \X Providers)
  /\ faults \in 0 .. MaxFaults

(* What a goroutine in state l has: header, context, spans, call, span.    *)
Has(l, h, r, o, c, e) ==
  /\ l = "idle" => h = None /\ r = None /\ o = <<>>
  /\ (l = "calling") <=> (c # None)
  /\ (l = "ending") <=> (e # None)

HasOwn(g) == Has(pc[g], head[g], request[g], open[g], called[g], ending[g])

(* The type invariant is these two parts.                                  *)
LEMMA TypeParts == TypeOK <=> Shapes /\ \A g \in Goroutines : HasOwn(g)
BY DEF TypeOK, Shapes, HasOwn, Has, Labels

(* A goroutine that a step leaves alone keeps what it has.                 *)
Kept(g) ==
  /\ pc'[g] = pc[g] /\ head'[g] = head[g] /\ request'[g] = request[g]
  /\ open'[g] = open[g] /\ called'[g] = called[g] /\ ending'[g] = ending[g]

(* A step keeps the types if it keeps the sets of the variables, and each  *)
(* goroutine is left alone or has well-formed variables of its own.        *)
LEMMA TypeStep ==
  ASSUME TypeOK, Shapes',
         \A g \in Goroutines :
           Kept(g) \/ Has(pc'[g], head'[g], request'[g], open'[g], called'[g], ending'[g])
  PROVE  TypeOK'
<1>1. ASSUME NEW g \in Goroutines
      PROVE  Has(pc'[g], head'[g], request'[g], open'[g], called'[g], ending'[g])
  BY TypeParts DEF Kept, HasOwn
<1>2. \A g \in Goroutines : HasOwn(g)'
  BY <1>1 DEF HasOwn
<1>. QED BY <1>2 DEF TypeOK, Shapes, HasOwn, Has, Labels

(* The context a goroutine works in is a context.                          *)
LEMMA CtxType ==
  ASSUME TypeOK, NEW g \in Goroutines
  PROVE  Ctx(g) \in Contexts
<1>1. open[g] \in Seq(Spans) /\ request[g] \in Contexts
  BY DEF TypeOK
<1>2. CASE open[g] = <<>>
  BY <1>1, <1>2 DEF Ctx
<1>3. CASE open[g] # <<>>
  <2>1. Last(open[g]) \in Spans
    BY <1>1, <1>3, FrontFacts
  <2>2. CtxOf(Last(open[g])) \in Contexts
    BY <2>1 DEF CtxOf, Spans, RecordedSpans, Contexts
  <2>. QED BY <1>3, <2>2 DEF Ctx
<1>. QED BY <1>2, <1>3

(* The context inside all open spans is a context.                         *)
(* (observability_trace.go:118-130.)                                       *)
LEMMA InnermostType ==
  ASSUME TypeOK, NEW g \in Goroutines
  PROVE  Innermost(g, Len(open[g])) \in Contexts
<1>1. /\ open[g] \in Seq(Spans) /\ base[g] \in Contexts
      /\ Len(open[g]) \in 0 .. Len(open[g])
  BY LenProperties DEF TypeOK
<1>. QED BY <1>1, InnermostWithin, WithinType

(* What Start adds: a span, recorded or not, and no span twice.            *)
LEMMA StartFacts ==
  ASSUME TypeOK, NEW g \in Goroutines, NEW kind \in {"server", "inner"},
         NEW ctx \in Contexts, Start(g, kind, ctx)
  PROVE  \E x \in Spans :
           /\ x.kind = kind /\ x.parent = ctx
           /\ open' = [open EXCEPT ![g] = Append(open[g], x)]
           /\ \/ x.span = None /\ due' = due
              \/ /\ x \in RecordedSpans /\ x.provider[1] = At[g]
                 /\ x.span \notin InUse
                 /\ due' = due \cup {<<x.span, x.provider>>}
<1>. DEFINE p == <<At[g], provider[At[g]]>>
            n == CHOOSE m \in SpanIds \ InUse : TRUE
<1>1. CASE p \notin Providers
  <2>. DEFINE x == [kind |-> kind, parent |-> ctx, span |-> None, provider |-> None]
  <2>1. open' = [open EXCEPT ![g] = Append(open[g], x)] /\ due' = due
    BY <1>1 DEF Start
  <2>2. x \in Spans /\ x.kind = kind /\ x.parent = ctx /\ x.span = None
    BY DEF Spans
  <2>. QED BY <2>1, <2>2
<1>2. CASE p \in Providers
  <2>. DEFINE x == [kind |-> kind, parent |-> ctx, span |-> n, provider |-> p]
  <2>1. /\ SpanIds \ InUse # {}
        /\ open' = [open EXCEPT ![g] = Append(open[g], x)] /\ due' = due \cup {<<n, p>>}
    BY <1>2 DEF Start
  <2>2. n \in SpanIds \ InUse
    BY <2>1
  <2>3. p[1] = At[g]
    OBVIOUS
  <2>. HIDE DEF n, p
  <2>4. x \in RecordedSpans /\ x \in Spans
    BY <1>2, <2>2 DEF RecordedSpans, Spans
  <2>. QED BY <2>1, <2>2, <2>3, <2>4
<1>. QED BY <1>1, <1>2

(* In whatever context, StartSpan and StartServerSpan are a Start.         *)
LEMMA StartContext ==
  ASSUME TypeOK, NEW g \in Goroutines, StartSpan(g) \/ StartServerSpan(g)
  PROVE  \E kind \in {"server", "inner"}, ctx \in Contexts :
           /\ Start(g, kind, ctx)
           /\ ctx = IF kind = "server" THEN Extract(At[g], request[g], head[g]) ELSE Ctx(g)
<1>1. request[g] \in Contexts /\ head[g] \in Contexts
  BY DEF TypeOK
<1>2. Extract(At[g], request[g], head[g]) \in Contexts /\ Ctx(g) \in Contexts
  BY <1>1, CtxType DEF Extract
<1>3. CASE StartSpan(g)
  BY <1>2, <1>3 DEF StartSpan
<1>4. CASE StartServerSpan(g)
  BY <1>2, <1>4 DEF StartServerSpan
<1>. QED BY <1>3, <1>4

(* A request is taken by goroutine d and by nobody else.                   *)
LEMMA TakesFacts ==
  ASSUME TypeOK, NEW d \in Goroutines, NEW h \in Contexts, NEW b \in Contexts,
         NEW joins \in BOOLEAN, Takes(d, h, b, joins)
  PROVE  /\ head' \in [Goroutines -> Contexts] /\ request' \in [Goroutines -> Contexts]
         /\ base' \in [Goroutines -> Contexts]
         /\ head'[d] = h /\ base'[d] = b
         /\ request'[d] = IF joins THEN Extract(At[d], None, h) ELSE None
         /\ \A g \in Goroutines \ {d} :
              head'[g] = head[g] /\ request'[g] = request[g] /\ base'[g] = base[g]
<1>1. None \in Contexts
  BY DEF Contexts
<1>2. (IF joins THEN Extract(At[d], None, h) ELSE None) \in Contexts
  BY <1>1 DEF Extract
<1>. QED BY <1>2 DEF Takes, TypeOK

(* A span put into the queue of its provider.                              *)
LEMMA PutType ==
  ASSUME TypeOK, NEW x \in RecordedSpans, Put(x)
  PROVE  /\ queue' \in [Providers -> Seq(SpanIds)]
         /\ queue'[x.provider] = Append(queue[x.provider], x.span)
         /\ \A p \in Providers \ {x.provider} : queue'[p] = queue[p]
<1>1. x.provider \in Providers /\ x.span \in SpanIds
  BY DEF RecordedSpans
<1>2. Append(queue[x.provider], x.span) \in Seq(SpanIds)
  BY <1>1, AppendFacts DEF TypeOK
<1>. QED BY <1>1, <1>2 DEF Put, TypeOK

(* Goroutines, contexts, spans and queues keep their types, and one that   *)
(* serves no request holds nothing of an earlier one.                      *)
(* (observability_trace.go, middleware.go:18-31.)                          *)
THEOREM TypeCorrect == Spec => []TypeOK
<1>. USE TracingAssumption DEF TracingAssumption
<1>1. Init => TypeOK
  <2>. SUFFICES ASSUME Init PROVE TypeOK
    OBVIOUS
  <2>1. None \in Contexts /\ <<>> \in Seq(Spans) /\ <<>> \in Seq(SpanIds)
    BY DEF Contexts
  <2>. QED BY <2>1 DEF Init, TypeOK
<1>2. TypeOK /\ [Next]_vars => TypeOK'
  <2>. SUFFICES ASSUME TypeOK, [Next]_vars
                PROVE  TypeOK'
    OBVIOUS
  <2>0. Shapes /\ (\A g \in Goroutines : HasOwn(g)) /\ None \in Contexts
    BY TypeParts DEF Contexts
  <2>1. ASSUME NEW g \in Goroutines, NEW h \in {None, Outside}, NEW joins \in BOOLEAN,
               Arrive(g, h, joins)
        PROVE  TypeOK'
    <3>1. h \in Contexts /\ Takes(g, h, h, joins) /\ pc[g] = "idle"
      BY <2>1 DEF Arrive, Contexts
    <3>2. /\ pc' = [pc EXCEPT ![g] = "serving"]
          /\ UNCHANGED <<serviceVars, open, called, ending, exportVars, due, faults>>
      BY <2>1 DEF Arrive
    <3>3. Shapes'
      BY <2>0, <3>1, <3>2, TakesFacts DEF Shapes, Labels, serviceVars, exportVars
    <3>4. \A k \in Goroutines \ {g} : Kept(k)
      BY <2>0, <3>1, <3>2, TakesFacts DEF Shapes, Kept
    <3>5. Has(pc'[g], head'[g], request'[g], open'[g], called'[g], ending'[g])
      BY <2>0, <3>1, <3>2 DEF Shapes, HasOwn, Has
    <3>. QED BY <3>3, <3>4, <3>5, TypeStep
  <2>2. ASSUME NEW g \in Goroutines, NEW d \in Goroutines, NEW background \in BOOLEAN,
               NEW joins \in BOOLEAN, Call(g, d, background, joins)
        PROVE  TypeOK'
    <3>. DEFINE ctx == IF background THEN None ELSE Ctx(g)
                b == IF ~background /\ propagates[At[g]] /\ propagates[At[d]]
                     THEN Innermost(g, Len(open[g])) ELSE None
    <3>1. /\ Inject(At[g], ctx) \in Contexts /\ b \in Contexts
      BY <2>0, CtxType, InnermostType DEF Inject
    <3>2. /\ Takes(d, Inject(At[g], ctx), b, joins)
          /\ pc[g] = "serving" /\ pc[d] = "idle" /\ g # d
          /\ pc' = [pc EXCEPT ![g] = "calling", ![d] = "serving"]
          /\ called' = [called EXCEPT ![g] = d]
          /\ UNCHANGED <<serviceVars, open, ending, exportVars, due, faults>>
      BY <2>2 DEF Call
    <3>. HIDE DEF ctx, b
    <3>3. Shapes'
      <4>1. pc' \in [Goroutines -> Labels] /\ called' \in [Goroutines -> Goroutines \cup {None}]
        BY <2>0, <3>2 DEF Shapes, Labels
      <4>2. /\ head' \in [Goroutines -> Contexts] /\ request' \in [Goroutines -> Contexts]
            /\ base' \in [Goroutines -> Contexts]
        BY <3>1, <3>2, TakesFacts
      <4>. QED BY <2>0, <3>2, <4>1, <4>2 DEF Shapes, serviceVars, exportVars
    <3>4. \A k \in Goroutines \ {g, d} : Kept(k)
      BY <2>0, <3>1, <3>2, TakesFacts DEF Shapes, Kept
    <3>5. Has(pc'[d], head'[d], request'[d], open'[d], called'[d], ending'[d])
      BY <2>0, <3>2 DEF Shapes, HasOwn, Has
    <3>6. Has(pc'[g], head'[g], request'[g], open'[g], called'[g], ending'[g])
      BY <2>0, <3>2 DEF Shapes, HasOwn, Has
    <3>. QED BY <3>3, <3>4, <3>5, <3>6, TypeStep
  <2>3. ASSUME NEW g \in Goroutines, GiveUp(g)
        PROVE  TypeOK'
    <3>1. faults + 1 \in 0 .. MaxFaults
      BY <2>0, <2>3 DEF GiveUp, Shapes
    <3>2. Shapes'
      BY <2>0, <2>3, <3>1 DEF GiveUp, Shapes, Labels, serviceVars, requestVars, exportVars
    <3>3. \A k \in Goroutines \ {g} : Kept(k)
      BY <2>0, <2>3 DEF GiveUp, Shapes, Kept, requestVars
    <3>4. Has(pc'[g], head'[g], request'[g], open'[g], called'[g], ending'[g])
      BY <2>0, <2>3 DEF GiveUp, Shapes, HasOwn, Has, requestVars
    <3>. QED BY <3>2, <3>3, <3>4, TypeStep
  <2>4. ASSUME NEW g \in Goroutines, Return(g)
        PROVE  TypeOK'
    <3>0. /\ pc[g] = "serving" /\ open[g] = <<>>
          /\ pc' = [h \in Goroutines |-> IF h = g THEN "idle"
                                         ELSE IF called[h] = g THEN "serving" ELSE pc[h]]
          /\ called' = [h \in Goroutines |-> IF called[h] \in {g} THEN None ELSE called[h]]
          /\ head' = [head EXCEPT ![g] = None] /\ request' = [request EXCEPT ![g] = None]
          /\ base' = [base EXCEPT ![g] = None]
          /\ UNCHANGED <<serviceVars, open, ending, exportVars, due, faults>>
      BY <2>4 DEF Return, Answered
    <3>1. Shapes'
      <4>1. pc' \in [Goroutines -> Labels] /\ called' \in [Goroutines -> Goroutines \cup {None}]
        BY <2>0, <3>0 DEF Shapes, Labels
      <4>2. /\ head' \in [Goroutines -> Contexts] /\ request' \in [Goroutines -> Contexts]
            /\ base' \in [Goroutines -> Contexts]
        BY <2>0, <3>0 DEF Shapes
      <4>. QED BY <2>0, <3>0, <4>1, <4>2 DEF Shapes, serviceVars, exportVars
    <3>2. ASSUME NEW k \in Goroutines
          PROVE  Has(pc'[k], head'[k], request'[k], open'[k], called'[k], ending'[k])
      <4>1. CASE k = g
        BY <2>0, <3>0, <4>1 DEF Shapes, HasOwn, Has
      <4>2. CASE k # g
        <5>1. /\ pc'[k] = IF called[k] = g THEN "serving" ELSE pc[k]
              /\ called'[k] = IF called[k] = g THEN None ELSE called[k]
              /\ head'[k] = head[k] /\ request'[k] = request[k] /\ open'[k] = open[k]
              /\ ending'[k] = ending[k]
          BY <2>0, <3>0, <4>2 DEF Shapes
        <5>2. Has(pc[k], head[k], request[k], open[k], called[k], ending[k])
          BY <2>0 DEF HasOwn
        <5>3. g # None
          OBVIOUS
        <5>. QED BY <5>1, <5>2, <5>3 DEF Has
      <4>. QED BY <4>1, <4>2
    <3>. QED BY <3>1, <3>2, TypeStep
  <2>5. ASSUME NEW g \in Goroutines, StartSpan(g) \/ StartServerSpan(g)
        PROVE  TypeOK'
    <3>1. PICK kind \in {"server", "inner"}, ctx \in Contexts : Start(g, kind, ctx)
      BY <2>5, StartContext
    <3>2. PICK x \in Spans :
            /\ open' = [open EXCEPT ![g] = Append(open[g], x)]
            /\ \/ due' = due
               \/ x \in RecordedSpans /\ due' = due \cup {<<x.span, x.provider>>}
      BY <3>1, StartFacts
    <3>3. UNCHANGED <<serviceVars, pc, requestVars, called, ending, exportVars, faults>>
      BY <3>1 DEF Start
    <3>4. Append(open[g], x) \in Seq(Spans)
      BY <2>0, AppendFacts DEF Shapes
    <3>5. due' \in SUBSET (SpanIds \X Providers)
      <4>1. x \in RecordedSpans => <<x.span, x.provider>> \in SpanIds \X Providers
        BY DEF RecordedSpans
      <4>. QED BY <2>0, <3>2, <4>1 DEF Shapes
    <3>6. Shapes'
      BY <2>0, <3>2, <3>3, <3>4, <3>5 DEF Shapes, serviceVars, requestVars, exportVars
    <3>7. pc[g] = "serving"
      BY <2>5 DEF StartSpan, StartServerSpan
    <3>8. \A k \in Goroutines \ {g} : Kept(k)
      BY <2>0, <3>2, <3>3 DEF Shapes, Kept, requestVars
    <3>9. Has(pc'[g], head'[g], request'[g], open'[g], called'[g], ending'[g])
      BY <2>0, <3>3, <3>7 DEF HasOwn, Has, requestVars
    <3>. QED BY <3>6, <3>8, <3>9, TypeStep
  <2>6. ASSUME NEW g \in Goroutines, EndSpan(g)
        PROVE  TypeOK'
    <3>. DEFINE x == Last(open[g])
    <3>1. /\ pc[g] = "serving" /\ open[g] # <<>> /\ open[g] \in Seq(Spans)
          /\ open' = [open EXCEPT ![g] = Front(open[g])]
          /\ UNCHANGED <<serviceVars, requestVars, called, batch, due, faults>>
      BY <2>0, <2>6 DEF EndSpan, Shapes
    <3>2. /\ x \in Spans /\ Front(open[g]) \in Seq(Spans)
          /\ x.span # None => x \in RecordedSpans
      <4>1. x \in Spans /\ Front(open[g]) \in Seq(Spans)
        BY <3>1, FrontFacts
      <4>. QED BY <4>1 DEF Spans
    <3>3. \/ UNCHANGED <<pc, ending, queue>>
          \/ x.span # None /\ Put(x) /\ UNCHANGED <<pc, ending>>
          \/ /\ x.span # None /\ pc' = [pc EXCEPT ![g] = "ending"]
             /\ ending' = [ending EXCEPT ![g] = x] /\ queue' = queue
      BY <2>6 DEF EndSpan
    <3>. HIDE DEF x
    <3>4. open' \in [Goroutines -> Seq(Spans)] /\ queue' \in [Providers -> Seq(SpanIds)]
      BY <2>0, <3>1, <3>2, <3>3, PutType DEF Shapes
    <3>5. pc' \in [Goroutines -> Labels] /\ ending' \in [Goroutines -> RecordedSpans \cup {None}]
      <4>1. pc \in [Goroutines -> Labels] /\ ending \in [Goroutines -> RecordedSpans \cup {None}]
        BY <2>0 DEF Shapes
      <4>2. "ending" \in Labels /\ (x.span # None => x \in RecordedSpans \cup {None})
        BY <3>2 DEF Labels
      <4>3. CASE UNCHANGED <<pc, ending>>
        BY <4>1, <4>3
      <4>4. CASE /\ x.span # None /\ pc' = [pc EXCEPT ![g] = "ending"]
                 /\ ending' = [ending EXCEPT ![g] = x]
        BY <4>1, <4>2, <4>4
      <4>. QED BY <3>3, <4>3, <4>4
    <3>6. Shapes'
      BY <2>0, <3>1, <3>4, <3>5 DEF Shapes, serviceVars, requestVars
    <3>7. \A k \in Goroutines \ {g} : Kept(k)
      BY <2>0, <3>1, <3>3 DEF Shapes, Kept, requestVars
    <3>8. Has(pc'[g], head'[g], request'[g], open'[g], called'[g], ending'[g])
      <4>1. Has(pc[g], head[g], request[g], open[g], called[g], ending[g])
        BY <2>0 DEF HasOwn
      <4>2. UNCHANGED <<head, request, called>>
        BY <3>1 DEF requestVars
      <4>3. CASE UNCHANGED <<pc, ending>>
        BY <3>1, <4>1, <4>2, <4>3 DEF Has
      <4>4. CASE /\ x.span # None /\ pc' = [pc EXCEPT ![g] = "ending"]
                 /\ ending' = [ending EXCEPT ![g] = x]
        <5>1. pc'[g] = "ending" /\ ending'[g] # None
          BY <2>0, <3>2, <4>4 DEF Shapes
        <5>. QED BY <3>1, <4>1, <4>2, <5>1 DEF Has
      <4>. QED BY <3>3, <4>3, <4>4
    <3>. QED BY <3>6, <3>7, <3>8, TypeStep
  <2>7. ASSUME NEW g \in Goroutines, Enqueue(g)
        PROVE  TypeOK'
    <3>1. /\ pc[g] = "ending" /\ Put(ending[g]) /\ pc' = [pc EXCEPT ![g] = "serving"]
          /\ ending' = [ending EXCEPT ![g] = None]
          /\ UNCHANGED <<serviceVars, requestVars, open, called, batch, due, faults>>
      BY <2>7 DEF Enqueue
    <3>2. ending[g] \in RecordedSpans
      BY <2>0, <3>1 DEF Shapes, HasOwn, Has
    <3>3. Shapes'
      BY <2>0, <3>1, <3>2, PutType DEF Shapes, Labels, serviceVars, requestVars
    <3>4. \A k \in Goroutines \ {g} : Kept(k)
      BY <2>0, <3>1 DEF Shapes, Kept, requestVars
    <3>5. Has(pc'[g], head'[g], request'[g], open'[g], called'[g], ending'[g])
      BY <2>0, <3>1 DEF Shapes, HasOwn, Has, requestVars
    <3>. QED BY <3>3, <3>4, <3>5, TypeStep
  <2>8. ASSUME NEW s \in Services, InitTraceProvider(s)
        PROVE  TypeOK'
    <3>1. /\ provider[s] < MaxInits[s] /\ provider' = [provider EXCEPT ![s] = provider[s] + 1]
          /\ UNCHANGED <<propagates, pc, requestVars, open, called, ending, exportVars, due, faults>>
      BY <2>8 DEF InitTraceProvider
    <3>2. MaxInits[s] \in Nat /\ provider[s] \in Nat
      BY <2>0 DEF Shapes
    <3>3. provider' \in [Services -> Nat] /\ \A r \in Services : provider'[r] <= MaxInits[r]
      BY <2>0, <3>1, <3>2 DEF Shapes
    <3>4. Shapes'
      BY <2>0, <3>1, <3>3 DEF Shapes, requestVars, exportVars
    <3>5. \A k \in Goroutines : Kept(k)
      BY <3>1 DEF Kept, requestVars
    <3>. QED BY <3>4, <3>5, TypeStep
  <2>9. ASSUME NEW p \in Providers, Take(p) \/ Export(p)
        PROVE  TypeOK'
    <3>1. UNCHANGED <<serviceVars, pc, requestVars, open, called, ending, faults>>
      BY <2>9 DEF Take, Export
    <3>2. /\ queue' \in [Providers -> Seq(SpanIds)] /\ batch' \in [Providers -> SUBSET SpanIds]
          /\ due' \in SUBSET (SpanIds \X Providers)
      <4>1. CASE Take(p)
        <5>1. Head(queue[p]) \in SpanIds /\ Tail(queue[p]) \in Seq(SpanIds)
          BY <2>0, <4>1, TailFacts DEF Take, Shapes
        <5>2. batch[p] \cup {Head(queue[p])} \in SUBSET SpanIds
          BY <2>0, <5>1 DEF Shapes
        <5>. QED BY <2>0, <4>1, <5>1, <5>2 DEF Take, Shapes
      <4>2. CASE Export(p)
        BY <2>0, <4>2 DEF Export, Shapes
      <4>. QED BY <2>9, <4>1, <4>2
    <3>3. Shapes'
      BY <2>0, <3>1, <3>2 DEF Shapes, serviceVars, requestVars
    <3>4. \A k \in Goroutines : Kept(k)
      BY <3>1 DEF Kept, requestVars
    <3>. QED BY <3>3, <3>4, TypeStep
  <2>10. ASSUME NEW s \in Services, Crash(s)
        PROVE  TypeOK'
    <3>. DEFINE D == {g \in Goroutines : At[g] = s}
    <3>1. /\ faults < MaxFaults /\ faults' = faults + 1
          /\ provider' = [provider EXCEPT ![s] = 0] /\ propagates' = propagates
          /\ queue' = [p \in Providers |-> IF p[1] = s THEN <<>> ELSE queue[p]]
          /\ batch' = [p \in Providers |-> IF p[1] = s THEN {} ELSE batch[p]]
          /\ due' = {d \in due : ~(d[2][1] = s)}
      BY <2>10 DEF Crash
    <3>2. /\ pc' = [g \in Goroutines |-> IF g \in D THEN "idle"
                                         ELSE IF called[g] \in D THEN "serving" ELSE pc[g]]
          /\ called' = [g \in Goroutines |-> IF g \in D \/ called[g] \in D THEN None ELSE called[g]]
      BY <2>10 DEF Crash
    <3>3. /\ head' = [g \in Goroutines |-> IF g \in D THEN None ELSE head[g]]
          /\ request' = [g \in Goroutines |-> IF g \in D THEN None ELSE request[g]]
          /\ base' = [g \in Goroutines |-> IF g \in D THEN None ELSE base[g]]
          /\ ending' = [g \in Goroutines |-> IF g \in D THEN None ELSE ending[g]]
          /\ open' = [g \in Goroutines |-> IF g \in D THEN <<>> ELSE open[g]]
      BY <2>10 DEF Crash
    <3>4. D \subseteq Goroutines
      OBVIOUS
    <3>. HIDE DEF D
    <3>5. faults' \in 0 .. MaxFaults
      BY <2>0, <3>1 DEF Shapes
    <3>6. provider' \in [Services -> Nat] /\ \A r \in Services : provider'[r] <= MaxInits[r]
      BY <2>0, <3>1 DEF Shapes
    <3>7. /\ queue' \in [Providers -> Seq(SpanIds)] /\ batch' \in [Providers -> SUBSET SpanIds]
          /\ due' \in SUBSET (SpanIds \X Providers)
      <4>1. <<>> \in Seq(SpanIds)
        OBVIOUS
      <4>. QED BY <2>0, <3>1, <4>1 DEF Shapes
    <3>8. pc' \in [Goroutines -> Labels] /\ called' \in [Goroutines -> Goroutines \cup {None}]
      BY <2>0, <3>2 DEF Shapes, Labels
    <3>9. /\ head' \in [Goroutines -> Contexts] /\ request' \in [Goroutines -> Contexts]
          /\ base' \in [Goroutines -> Contexts]
          /\ ending' \in [Goroutines -> RecordedSpans \cup {None}]
      BY <2>0, <3>3 DEF Shapes
    <3>10. open' \in [Goroutines -> Seq(Spans)]
      <4>1. <<>> \in Seq(Spans)
        OBVIOUS
      <4>. QED BY <2>0, <3>3, <4>1 DEF Shapes
    <3>11. Shapes'
      BY <2>0, <3>1, <3>5, <3>6, <3>7, <3>8, <3>9, <3>10 DEF Shapes
    <3>12. ASSUME NEW k \in Goroutines
           PROVE  Has(pc'[k], head'[k], request'[k], open'[k], called'[k], ending'[k])
      <4>1. CASE k \in D
        BY <3>2, <3>3, <4>1 DEF Has
      <4>2. CASE k \notin D
        <5>1. /\ pc'[k] = IF called[k] \in D THEN "serving" ELSE pc[k]
              /\ called'[k] = IF called[k] \in D THEN None ELSE called[k]
              /\ head'[k] = head[k] /\ request'[k] = request[k] /\ open'[k] = open[k]
              /\ ending'[k] = ending[k]
          BY <3>2, <3>3, <4>2
        <5>2. Has(pc[k], head[k], request[k], open[k], called[k], ending[k])
          BY <2>0 DEF HasOwn
        <5>3. None \notin D
          BY <3>4
        <5>. QED BY <5>1, <5>2, <5>3 DEF Has
      <4>. QED BY <4>1, <4>2
    <3>. QED BY <3>11, <3>12, TypeStep
  <2>11. CASE UNCHANGED vars
    BY <2>11 DEF vars, serviceVars, requestVars, exportVars, TypeOK
  <2>. QED BY <2>1, <2>2, <2>3, <2>4, <2>5, <2>6, <2>7, <2>8, <2>9, <2>10, <2>11
           DEF Next, GoroutineStep
<1>. QED BY <1>1, <1>2, PTL DEF Spec

----------------------------------------------------------------------------
(* Parents *)

(* A goroutine of a service that propagates or not (p), with header h,     *)
(* request r made in context b, and open spans s: it joins the trace of    *)
(* the header or none, and every span, recorded or not, has the parent of  *)
(* OneTrace.                                                               *)
Linked(p, h, b, r, s) ==
  /\ b = IF p THEN h ELSE None
  /\ r \in {None, b}
  /\ \A i \in 1 .. Len(s) :
       s[i].parent = IF s[i].kind = "server" THEN b ELSE Within(s, i - 1, b, r)

LinkedAt(g) == Linked(propagates[At[g]], head[g], base[g], request[g], open[g])

LinkedInv == \A g \in Goroutines : LinkedAt(g)

(* A goroutine without spans.                                              *)
LEMMA LinkedEmpty ==
  ASSUME NEW p, NEW h, NEW b, NEW r, NEW s,
         b = (IF p THEN h ELSE None), r \in {None, b}, s = <<>>
  PROVE  Linked(p, h, b, r, s)
<1>1. 1 .. Len(s) = {}
  BY EmptySeq
<1>. QED BY <1>1 DEF Linked

(* One more span, with the parent it should have.                          *)
LEMMA LinkedAppend ==
  ASSUME NEW p, NEW h, NEW b, NEW r, NEW s \in Seq(Spans), Linked(p, h, b, r, s),
         NEW x \in Spans,
         x.parent = IF x.kind = "server" THEN b ELSE Within(s, Len(s), b, r)
  PROVE  Linked(p, h, b, r, Append(s, x))
<1>. DEFINE t == Append(s, x)
<1>1. /\ Len(s) \in Nat /\ Len(t) = Len(s) + 1
      /\ \A i \in 1 .. Len(s) : t[i] = s[i]
      /\ t[Len(s) + 1] = x
  BY AppendFacts
<1>. HIDE DEF t
<1>2. ASSUME NEW i \in 1 .. Len(t)
      PROVE  t[i].parent = IF t[i].kind = "server" THEN b ELSE Within(t, i - 1, b, r)
  <2>1. i - 1 \in Nat /\ \A j \in 1 .. (i - 1) : j \in 1 .. Len(s)
    BY <1>1
  <2>2. Within(t, i - 1, b, r) = Within(s, i - 1, b, r)
    BY <1>1, <2>1, WithinSame
  <2>3. CASE i \in 1 .. Len(s)
    BY <1>1, <2>2, <2>3 DEF Linked
  <2>4. CASE i = Len(s) + 1
    <3>1. i - 1 = Len(s)
      BY <1>1, <2>4
    <3>. QED BY <1>1, <2>2, <2>4, <3>1
  <2>. QED BY <1>1, <2>3, <2>4
<1>3. Linked(p, h, b, r, t)
  BY <1>2 DEF Linked
<1>. QED BY <1>3 DEF t

(* The innermost span is ended.                                            *)
LEMMA LinkedFront ==
  ASSUME NEW p, NEW h, NEW b, NEW r, NEW s \in Seq(Spans), s # <<>>, Linked(p, h, b, r, s)
  PROVE  Linked(p, h, b, r, Front(s))
<1>. DEFINE t == Front(s)
<1>1. /\ Len(s) \in Nat \ {0} /\ Len(t) = Len(s) - 1
      /\ \A i \in 1 .. (Len(s) - 1) : t[i] = s[i]
  BY FrontFacts
<1>. HIDE DEF t
<1>2. ASSUME NEW i \in 1 .. Len(t)
      PROVE  t[i].parent = IF t[i].kind = "server" THEN b ELSE Within(t, i - 1, b, r)
  <2>1. /\ i - 1 \in Nat /\ \A j \in 1 .. (i - 1) : j \in 1 .. (Len(s) - 1)
        /\ i \in 1 .. Len(s) /\ i \in 1 .. (Len(s) - 1)
    BY <1>1
  <2>2. Within(t, i - 1, b, r) = Within(s, i - 1, b, r)
    BY <1>1, <2>1, WithinSame
  <2>. QED BY <1>1, <2>1, <2>2 DEF Linked
<1>3. Linked(p, h, b, r, t)
  BY <1>2 DEF Linked
<1>. QED BY <1>3 DEF t

(* The context that a goroutine works in is the one that a reader of the   *)
(* trace expects there.  (What Start returns holds the innermost context.) *)
LEMMA CtxIsInnermost ==
  ASSUME TypeOK, NEW g \in Goroutines, LinkedAt(g)
  PROVE  Ctx(g) = Within(open[g], Len(open[g]), base[g], request[g])
<1>1. open[g] \in Seq(Spans)
  BY DEF TypeOK
<1>2. CASE open[g] = <<>>
  <2>1. Len(open[g]) = 0
    BY <1>2, EmptySeq
  <2>2. Ctx(g) = IF request[g] # None THEN base[g] ELSE None
    BY <1>2 DEF Ctx, LinkedAt, Linked
  <2>. QED BY <2>1, <2>2, WithinNone
<1>3. CASE open[g] # <<>>
  <2>. DEFINE n == Len(open[g]) - 1
              x == open[g][n + 1]
  <2>1. /\ n \in Nat /\ n + 1 = Len(open[g]) /\ n + 1 \in 1 .. Len(open[g]) /\ (n + 1) - 1 = n
        /\ Last(open[g]) = x
    <3>1. Len(open[g]) \in Nat \ {0}
      BY <1>1, <1>3, FrontFacts
    <3>. QED BY <3>1 DEF Last
  <2>. HIDE DEF n
  <2>2. x.parent = IF x.kind = "server" THEN base[g]
                   ELSE Within(open[g], n, base[g], request[g])
    BY <2>1 DEF LinkedAt, Linked
  <2>3. Ctx(g) = IF x.span = None THEN x.parent ELSE x.span
    BY <1>3, <2>1 DEF Ctx, CtxOf
  <2>4. Within(open[g], n + 1, base[g], request[g]) =
          IF x.span # None THEN x.span
          ELSE IF x.kind = "server" THEN base[g]
          ELSE Within(open[g], n, base[g], request[g])
    <3>1. n \in Nat
      BY <2>1
    <3>2. \A s, b, r :
            Within(s, n + 1, b, r) =
              IF s[n + 1].span # None THEN s[n + 1].span
              ELSE IF s[n + 1].kind = "server" THEN b
              ELSE Within(s, n, b, r)
      BY <3>1, WithinStep
    <3>. QED BY <3>2, Zenon
  <2>. HIDE DEF x
  <2>5. Within(open[g], n + 1, base[g], request[g]) = Ctx(g)
    BY <2>2, <2>3, <2>4
  <2>. QED BY <2>1, <2>5
<1>. QED BY <1>2, <1>3

(* Other goroutines keep their links.                                      *)
LEMMA LinkedFrame ==
  ASSUME LinkedInv, propagates' = propagates,
         \A g \in Goroutines :
           \/ /\ head'[g] = head[g] /\ base'[g] = base[g] /\ request'[g] = request[g]
              /\ open'[g] = open[g]
           \/ Linked(propagates[At[g]], head'[g], base'[g], request'[g], open'[g])
  PROVE  LinkedInv'
<1>1. ASSUME NEW g \in Goroutines
      PROVE  Linked(propagates[At[g]], head'[g], base'[g], request'[g], open'[g])
  BY DEF LinkedInv, LinkedAt
<1>. QED BY <1>1 DEF LinkedInv, LinkedAt

(* Every span has the parent that a reader of the trace expects, across    *)
(* any number of processes.  (observability_trace.go:134,                  *)
(* middleware.go:24, http_client.go:198.)                                  *)
THEOREM OneTraceSafe == Spec => []OneTrace
<1>. USE TracingAssumption DEF TracingAssumption
<1>1. Init => LinkedInv
  <2>. SUFFICES ASSUME Init, NEW g \in Goroutines PROVE LinkedAt(g)
    BY DEF LinkedInv
  <2>1. head[g] = None /\ base[g] = None /\ request[g] = None /\ open[g] = <<>>
    BY DEF Init
  <2>. QED BY <2>1, LinkedEmpty DEF LinkedAt
<1>2. TypeOK /\ LinkedInv /\ [Next]_vars => LinkedInv'
  <2>. SUFFICES ASSUME TypeOK, LinkedInv, [Next]_vars
                PROVE  LinkedInv'
    OBVIOUS
  <2>0. /\ propagates \in [Services -> BOOLEAN] /\ open \in [Goroutines -> Seq(Spans)]
        /\ head \in [Goroutines -> Contexts] /\ request \in [Goroutines -> Contexts]
        /\ base \in [Goroutines -> Contexts] /\ None \in Contexts
        /\ \A g \in Goroutines : pc[g] = "idle" => open[g] = <<>>
    BY DEF TypeOK, Contexts
  <2>1. ASSUME NEW g \in Goroutines, NEW h \in {None, Outside}, NEW joins \in BOOLEAN,
               Arrive(g, h, joins)
        PROVE  LinkedInv'
    <3>1. /\ h \in Contexts /\ Takes(g, h, h, joins) /\ open[g] = <<>>
          /\ propagates[At[g]] \/ h = None
          /\ UNCHANGED <<propagates, open>>
      BY <2>0, <2>1 DEF Arrive, Contexts, serviceVars
    <3>2. /\ head'[g] = h /\ base'[g] = h
          /\ request'[g] = IF joins THEN Extract(At[g], None, h) ELSE None
      BY <3>1, TakesFacts
    <3>3. request'[g] \in {None, h}
      BY <3>2 DEF Extract
    <3>4. Linked(propagates[At[g]], head'[g], base'[g], request'[g], open'[g])
      BY <3>1, <3>2, <3>3, LinkedEmpty
    <3>5. \A k \in Goroutines \ {g} :
            head'[k] = head[k] /\ base'[k] = base[k] /\ request'[k] = request[k]
      BY <3>1, TakesFacts
    <3>. QED BY <3>1, <3>4, <3>5, LinkedFrame
  <2>2. ASSUME NEW g \in Goroutines, NEW d \in Goroutines, NEW background \in BOOLEAN,
               NEW joins \in BOOLEAN, Call(g, d, background, joins)
        PROVE  LinkedInv'
    <3>. DEFINE ctx == IF background THEN None ELSE Ctx(g)
                h == Inject(At[g], ctx)
                b == IF ~background /\ propagates[At[g]] /\ propagates[At[d]]
                     THEN Innermost(g, Len(open[g])) ELSE None
    <3>1. /\ Takes(d, h, b, joins) /\ open[d] = <<>> /\ UNCHANGED <<propagates, open>>
      BY <2>0, <2>2 DEF Call, serviceVars
    <3>2. h \in Contexts /\ b \in Contexts
      BY <2>0, CtxType, InnermostType DEF Inject
    <3>3. Ctx(g) = Innermost(g, Len(open[g]))
      BY CtxIsInnermost, InnermostWithin DEF LinkedInv
    <3>4. b = IF propagates[At[d]] THEN h ELSE None
      BY <3>3 DEF Inject
    <3>. HIDE DEF h, b
    <3>5. /\ head'[d] = h /\ base'[d] = b
          /\ request'[d] = IF joins THEN Extract(At[d], None, h) ELSE None
      BY <3>1, <3>2, TakesFacts
    <3>6. request'[d] \in {None, b}
      BY <3>4, <3>5 DEF Extract
    <3>7. Linked(propagates[At[d]], head'[d], base'[d], request'[d], open'[d])
      BY <3>1, <3>4, <3>5, <3>6, LinkedEmpty
    <3>8. \A k \in Goroutines \ {d} :
            head'[k] = head[k] /\ base'[k] = base[k] /\ request'[k] = request[k]
      BY <3>1, <3>2, TakesFacts
    <3>. QED BY <3>1, <3>7, <3>8, LinkedFrame
  <2>3. ASSUME NEW g \in Goroutines, Return(g)
        PROVE  LinkedInv'
    <3>1. /\ open[g] = <<>> /\ UNCHANGED <<propagates, open>>
          /\ head' = [head EXCEPT ![g] = None] /\ request' = [request EXCEPT ![g] = None]
          /\ base' = [base EXCEPT ![g] = None]
      BY <2>3 DEF Return, serviceVars
    <3>2. head'[g] = None /\ base'[g] = None /\ request'[g] = None /\ open'[g] = <<>>
      BY <2>0, <3>1
    <3>3. Linked(propagates[At[g]], head'[g], base'[g], request'[g], open'[g])
      BY <3>2, LinkedEmpty
    <3>4. \A k \in Goroutines \ {g} :
            head'[k] = head[k] /\ base'[k] = base[k] /\ request'[k] = request[k]
      BY <2>0, <3>1
    <3>. QED BY <3>1, <3>3, <3>4, LinkedFrame
  <2>4. ASSUME NEW g \in Goroutines, StartSpan(g) \/ StartServerSpan(g)
        PROVE  LinkedInv'
    <3>1. PICK kind \in {"server", "inner"}, ctx \in Contexts :
            /\ Start(g, kind, ctx)
            /\ ctx = IF kind = "server" THEN Extract(At[g], request[g], head[g]) ELSE Ctx(g)
      BY <2>4, StartContext
    <3>2. PICK x \in Spans :
            /\ x.kind = kind /\ x.parent = ctx
            /\ open' = [open EXCEPT ![g] = Append(open[g], x)]
      <4>1. Start(g, kind, ctx)
        BY <3>1
      <4>. QED BY <4>1, StartFacts
    <3>3. UNCHANGED <<propagates, head, request, base>>
      BY <3>1 DEF Start, serviceVars, requestVars
    <3>4. LinkedAt(g)
      BY DEF LinkedInv
    <3>5. Extract(At[g], request[g], head[g]) = base[g]
      BY <3>4 DEF Extract, LinkedAt, Linked
    <3>6. Ctx(g) = Within(open[g], Len(open[g]), base[g], request[g])
      BY <3>4, CtxIsInnermost
    <3>7. Linked(propagates[At[g]], head[g], base[g], request[g], Append(open[g], x))
      BY <2>0, <3>1, <3>2, <3>4, <3>5, <3>6, LinkedAppend DEF LinkedAt
    <3>8. open'[g] = Append(open[g], x) /\ \A k \in Goroutines \ {g} : open'[k] = open[k]
      BY <2>0, <3>2
    <3>. QED BY <3>3, <3>7, <3>8, LinkedFrame
  <2>5. ASSUME NEW g \in Goroutines, EndSpan(g)
        PROVE  LinkedInv'
    <3>1. /\ open[g] # <<>> /\ open' = [open EXCEPT ![g] = Front(open[g])]
          /\ UNCHANGED <<propagates, head, request, base>>
      BY <2>5 DEF EndSpan, serviceVars, requestVars
    <3>2. Linked(propagates[At[g]], head[g], base[g], request[g], Front(open[g]))
      BY <2>0, <3>1, LinkedFront DEF LinkedInv, LinkedAt
    <3>3. open'[g] = Front(open[g]) /\ \A k \in Goroutines \ {g} : open'[k] = open[k]
      BY <2>0, <3>1
    <3>. QED BY <3>1, <3>2, <3>3, LinkedFrame
  <2>6. ASSUME NEW s \in Services, Crash(s)
        PROVE  LinkedInv'
    <3>1. /\ propagates' = propagates
          /\ head' = [g \in Goroutines |-> IF At[g] = s THEN None ELSE head[g]]
          /\ request' = [g \in Goroutines |-> IF At[g] = s THEN None ELSE request[g]]
          /\ base' = [g \in Goroutines |-> IF At[g] = s THEN None ELSE base[g]]
          /\ open' = [g \in Goroutines |-> IF At[g] = s THEN <<>> ELSE open[g]]
      BY <2>6 DEF Crash
    <3>2. ASSUME NEW g \in Goroutines, At[g] = s
          PROVE  Linked(propagates[At[g]], head'[g], base'[g], request'[g], open'[g])
      <4>1. head'[g] = None /\ base'[g] = None /\ request'[g] = None /\ open'[g] = <<>>
        BY <3>1, <3>2
      <4>. QED BY <4>1, LinkedEmpty
    <3>3. ASSUME NEW g \in Goroutines, At[g] # s
          PROVE  /\ head'[g] = head[g] /\ base'[g] = base[g] /\ request'[g] = request[g]
                 /\ open'[g] = open[g]
      BY <3>1, <3>3
    <3>. QED BY <3>1, <3>2, <3>3, LinkedFrame
  <2>7. CASE \/ \E g \in Goroutines : GiveUp(g) \/ Enqueue(g)
             \/ \E p \in Providers : Take(p) \/ Export(p)
             \/ \E s \in Services : InitTraceProvider(s)
             \/ UNCHANGED vars
    <3>1. UNCHANGED <<propagates, head, request, base, open>>
      BY <2>7 DEF GiveUp, Enqueue, Take, Export, InitTraceProvider, vars, serviceVars, requestVars
    <3>. QED BY <3>1, LinkedFrame
  <2>. QED BY <2>1, <2>2, <2>3, <2>4, <2>5, <2>6, <2>7 DEF Next, GoroutineStep
<1>3. TypeOK /\ LinkedInv => OneTrace
  <2>. SUFFICES ASSUME TypeOK, LinkedInv, NEW g \in Goroutines, NEW i \in DOMAIN open[g]
                PROVE  open[g][i].parent = IF open[g][i].kind = "server" THEN base[g]
                                           ELSE Innermost(g, i - 1)
    BY DEF OneTrace
  <2>1. i \in 1 .. Len(open[g])
    BY LenProperties DEF TypeOK
  <2>. QED BY <2>1, InnermostWithin DEF LinkedInv, LinkedAt, Linked
<1>. QED BY <1>1, <1>2, <1>3, TypeCorrect, PTL DEF Spec

----------------------------------------------------------------------------
(* Ended spans: shares of what is due, each a set f[x] of an x \in D       *)

(* All that is in some share.                                              *)
All(f, D) == UNION {f[x] : x \in D}

(* Nothing is in two.                                                      *)
Disjoint(f, D) == \A x, y \in D : x # y => f[x] \cap f[y] = {}

(* One share gets something that none has.                                 *)
LEMMA ShareGains ==
  ASSUME NEW D, NEW f, NEW h, NEW d \in D, NEW t, Disjoint(f, D), t \notin All(f, D),
         h[d] = f[d] \cup {t}, \A x \in D \ {d} : h[x] = f[x]
  PROVE  All(h, D) = All(f, D) \cup {t} /\ Disjoint(h, D)
<1>1. \A x \in D : t \notin f[x]
  BY DEF All
<1>2. \A u : u \in All(h, D) <=> u \in All(f, D) \cup {t}
  BY DEF All
<1>3. Disjoint(h, D)
  BY <1>1 DEF Disjoint
<1>. QED BY <1>2, <1>3

(* One share loses something that it has.                                  *)
LEMMA ShareLoses ==
  ASSUME NEW D, NEW f, NEW h, NEW d \in D, NEW t \in f[d], Disjoint(f, D),
         h[d] = f[d] \ {t}, \A x \in D \ {d} : h[x] = f[x]
  PROVE  /\ All(h, D) = All(f, D) \ {t} /\ Disjoint(h, D)
         /\ t \in All(f, D)
<1>1. \A x \in D \ {d} : t \notin f[x]
  BY DEF Disjoint
<1>2. \A u : u \in All(h, D) <=> u \in All(f, D) \ {t}
  BY <1>1 DEF All
<1>3. Disjoint(h, D)
  BY DEF Disjoint
<1>4. t \in All(f, D)
  BY DEF All
<1>. QED BY <1>2, <1>3, <1>4

(* The shares of C are given up.                                           *)
LEMMA SharesEmptied ==
  ASSUME NEW D, NEW C \in SUBSET D, NEW f, NEW h, Disjoint(f, D),
         \A x \in C : h[x] = {}, \A x \in D \ C : h[x] = f[x]
  PROVE  All(h, D) = All(f, D) \ All(f, C) /\ Disjoint(h, D)
<1>1. ASSUME NEW x \in D \ C, NEW y \in C
      PROVE  f[x] \cap f[y] = {}
  BY DEF Disjoint
<1>2. ASSUME NEW u, u \in All(h, D)
      PROVE  u \in All(f, D) \ All(f, C)
  <2>1. PICK x \in D : u \in h[x]
    BY <1>2 DEF All
  <2>2. x \in D \ C /\ u \in f[x]
    BY <2>1
  <2>. QED BY <1>1, <2>2 DEF All
<1>3. ASSUME NEW u, u \in All(f, D) \ All(f, C)
      PROVE  u \in All(h, D)
  <2>1. PICK x \in D : u \in f[x]
    BY <1>3 DEF All
  <2>2. x \in D \ C
    BY <1>3, <2>1 DEF All
  <2>. QED BY <2>1, <2>2 DEF All
<1>4. Disjoint(h, D)
  BY DEF Disjoint
<1>. QED BY <1>2, <1>3, <1>4

(* A span, with the provider that it began with.                           *)
Tag(x) == <<x.span, x.provider>>

(* The recorded ones among the spans s, and whether none is there twice.   *)
Tags(s) == {Tag(s[i]) : i \in {j \in 1 .. Len(s) : s[j].span # None}}

Once(s) ==
  \A i, j \in 1 .. Len(s) :
    s[i].span # None /\ s[j].span # None /\ Tag(s[i]) = Tag(s[j]) => i = j

(* A span is started.                                                      *)
LEMMA TagsAppend ==
  ASSUME NEW s \in Seq(Spans), NEW x \in Spans, Once(s)
  PROVE  /\ x.span = None => Tags(Append(s, x)) = Tags(s) /\ Once(Append(s, x))
         /\ x.span # None /\ Tag(x) \notin Tags(s) =>
              Tags(Append(s, x)) = Tags(s) \cup {Tag(x)} /\ Once(Append(s, x))
<1>. DEFINE t == Append(s, x)
<1>1. /\ Len(s) \in Nat /\ Len(t) = Len(s) + 1
      /\ \A i \in 1 .. Len(s) : t[i] = s[i]
      /\ t[Len(s) + 1] = x
  BY AppendFacts
<1>. HIDE DEF t
<1>2. 1 .. Len(t) = (1 .. Len(s)) \cup {Len(s) + 1} /\ Len(s) + 1 \notin 1 .. Len(s)
  BY <1>1
<1>3. ASSUME x.span = None
      PROVE  Tags(t) = Tags(s) /\ Once(t)
  <2>1. {j \in 1 .. Len(t) : t[j].span # None} = {j \in 1 .. Len(s) : s[j].span # None}
    BY <1>1, <1>2, <1>3
  <2>2. Tags(t) = Tags(s)
    BY <1>1, <2>1 DEF Tags
  <2>3. Once(t)
    BY <1>1, <1>2, <1>3 DEF Once
  <2>. QED BY <2>2, <2>3
<1>4. ASSUME x.span # None, Tag(x) \notin Tags(s)
      PROVE  Tags(t) = Tags(s) \cup {Tag(x)} /\ Once(t)
  <2>1. {j \in 1 .. Len(t) : t[j].span # None} =
          {j \in 1 .. Len(s) : s[j].span # None} \cup {Len(s) + 1}
    BY <1>1, <1>2, <1>4
  <2>2. Tags(t) = Tags(s) \cup {Tag(x)}
    BY <1>1, <2>1 DEF Tags
  <2>3. \A i \in 1 .. Len(s) : s[i].span # None => Tag(s[i]) # Tag(x)
    BY <1>4 DEF Tags
  <2>4. Once(t)
    BY <1>1, <1>2, <2>3 DEF Once
  <2>. QED BY <2>2, <2>4
<1>. QED BY <1>3, <1>4 DEF t

(* The innermost span is ended.                                            *)
LEMMA TagsFront ==
  ASSUME NEW s \in Seq(Spans), s # <<>>, Once(s)
  PROVE  /\ Once(Front(s))
         /\ Last(s).span = None => Tags(Front(s)) = Tags(s)
         /\ Last(s).span # None =>
              Tag(Last(s)) \in Tags(s) /\ Tags(Front(s)) = Tags(s) \ {Tag(Last(s))}
<1>. DEFINE t == Front(s)
            x == Last(s)
<1>1. /\ Len(s) \in Nat \ {0} /\ Len(t) = Len(s) - 1
      /\ \A i \in 1 .. (Len(s) - 1) : t[i] = s[i]
      /\ x = s[Len(s)]
  BY FrontFacts DEF Last
<1>. HIDE DEF t, x
<1>2. 1 .. Len(s) = (1 .. Len(t)) \cup {Len(s)} /\ Len(s) \notin 1 .. Len(t)
  BY <1>1
<1>3. Once(t)
  BY <1>1, <1>2 DEF Once
<1>4. Tags(t) = {Tag(s[i]) : i \in {j \in 1 .. Len(t) : s[j].span # None}}
  BY <1>1 DEF Tags
<1>5. ASSUME x.span = None
      PROVE  Tags(t) = Tags(s)
  <2>1. {j \in 1 .. Len(s) : s[j].span # None} = {j \in 1 .. Len(t) : s[j].span # None}
    BY <1>1, <1>2, <1>5
  <2>. QED BY <1>4, <2>1 DEF Tags
<1>6. ASSUME x.span # None
      PROVE  Tag(x) \in Tags(s) /\ Tags(t) = Tags(s) \ {Tag(x)}
  <2>1. {j \in 1 .. Len(s) : s[j].span # None} =
          {j \in 1 .. Len(t) : s[j].span # None} \cup {Len(s)}
    BY <1>1, <1>2, <1>6
  <2>2. Tags(s) = Tags(t) \cup {Tag(x)}
    BY <1>1, <1>4, <2>1 DEF Tags
  <2>3. \A j \in 1 .. Len(t) : s[j].span # None => Tag(s[j]) # Tag(x)
    BY <1>1, <1>2, <1>6 DEF Once
  <2>4. Tag(x) \notin Tags(t)
    BY <1>4, <2>3
  <2>. QED BY <2>2, <2>4
<1>. QED BY <1>3, <1>5, <1>6 DEF t, x

(* A queue in which no span is twice.                                      *)
Single(q) == \A i, j \in 1 .. Len(q) : q[i] = q[j] => i = j

(* A span is put in.                                                       *)
LEMMA ElementsAppend ==
  ASSUME NEW q \in Seq(SpanIds), NEW n \in SpanIds, Single(q), n \notin Elements(q)
  PROVE  Elements(Append(q, n)) = Elements(q) \cup {n} /\ Single(Append(q, n))
<1>. DEFINE t == Append(q, n)
<1>1. /\ Len(q) \in Nat /\ Len(t) = Len(q) + 1
      /\ DOMAIN q = 1 .. Len(q) /\ DOMAIN t = 1 .. (Len(q) + 1)
      /\ \A i \in 1 .. Len(q) : t[i] = q[i]
      /\ t[Len(q) + 1] = n
  BY AppendFacts
<1>. HIDE DEF t
<1>2. 1 .. Len(t) = (1 .. Len(q)) \cup {Len(q) + 1} /\ Len(q) + 1 \notin 1 .. Len(q)
  BY <1>1
<1>3. Elements(t) = Elements(q) \cup {n}
  BY <1>1, <1>2 DEF Elements
<1>4. \A i \in 1 .. Len(q) : q[i] # n
  BY <1>1 DEF Elements
<1>5. Single(t)
  BY <1>1, <1>2, <1>4 DEF Single
<1>. QED BY <1>3, <1>5 DEF t

(* The first one is taken.                                                 *)
LEMMA ElementsTail ==
  ASSUME NEW q \in Seq(SpanIds), q # <<>>, Single(q)
  PROVE  /\ Head(q) \in Elements(q) /\ Elements(Tail(q)) = Elements(q) \ {Head(q)}
         /\ Single(Tail(q))
<1>. DEFINE t == Tail(q)
            n == Head(q)
<1>1. /\ n = q[1] /\ Len(q) \in Nat \ {0} /\ Len(t) = Len(q) - 1
      /\ DOMAIN q = 1 .. Len(q) /\ DOMAIN t = 1 .. (Len(q) - 1)
      /\ \A i \in 1 .. (Len(q) - 1) : t[i] = q[i + 1]
  BY TailFacts
<1>. HIDE DEF t, n
<1>2. /\ 1 \in 1 .. Len(q)
      /\ \A i \in 1 .. Len(t) : i + 1 \in 1 .. Len(q) /\ i + 1 # 1
      /\ \A j \in 1 .. Len(q) : j # 1 => j - 1 \in 1 .. Len(t) /\ (j - 1) + 1 = j
  BY <1>1
<1>3. n \in Elements(q)
  BY <1>1, <1>2 DEF Elements
<1>4. ASSUME NEW m, m \in Elements(t)
      PROVE  m \in Elements(q) \ {n}
  <2>1. PICK i \in 1 .. Len(t) : m = t[i]
    BY <1>1, <1>4 DEF Elements
  <2>2. m = q[i + 1] /\ i + 1 \in 1 .. Len(q) /\ i + 1 # 1
    BY <1>1, <1>2, <2>1
  <2>. QED BY <1>1, <1>2, <2>2 DEF Elements, Single
<1>5. ASSUME NEW m, m \in Elements(q) \ {n}
      PROVE  m \in Elements(t)
  <2>1. PICK j \in 1 .. Len(q) : m = q[j]
    BY <1>1, <1>5 DEF Elements
  <2>2. j # 1
    BY <1>1, <1>5, <2>1
  <2>3. j - 1 \in 1 .. Len(t) /\ m = t[j - 1]
    BY <1>1, <1>2, <2>1, <2>2
  <2>. QED BY <1>1, <2>3 DEF Elements
<1>6. Single(t)
  <2>. SUFFICES ASSUME NEW i \in 1 .. Len(t), NEW j \in 1 .. Len(t), t[i] = t[j]
                PROVE  i = j
    BY DEF Single
  <2>1. q[i + 1] = q[j + 1]
    BY <1>1
  <2>2. i + 1 = j + 1
    BY <1>2, <2>1 DEF Single
  <2>. QED BY <1>1, <2>2
<1>. QED BY <1>3, <1>4, <1>5, <1>6 DEF t, n

(* What each goroutine works in and ends, and each provider holds.         *)
InOpen == [g \in Goroutines |-> Tags(open[g])]
InEnding == [g \in Goroutines |-> IF ending[g] = None THEN {} ELSE {Tag(ending[g])}]
InQueue == [p \in Providers |-> Elements(queue[p]) \X {p}]
InBatch == [p \in Providers |-> batch[p] \X {p}]

(* The sets of SpansKept are all that is in these shares.                  *)
Shares ==
  /\ OfOpen = All(InOpen, Goroutines) /\ OfEnding = All(InEnding, Goroutines)
  /\ OfQueue = All(InQueue, Providers) /\ OfBatch = All(InBatch, Providers)
  /\ Disjoint(InQueue, Providers) /\ Disjoint(InBatch, Providers)

(* They are, in every state.                                               *)
LEMMA SharesAreAll == TypeOK => Shares
<1>. SUFFICES ASSUME TypeOK PROVE Shares
  OBVIOUS
<1>1. ASSUME NEW g \in Goroutines
      PROVE  {<<open[g][i].span, open[g][i].provider>> : i \in Recorded(g)} = InOpen[g]
  <2>1. Recorded(g) = {j \in 1 .. Len(open[g]) : open[g][j].span # None}
    BY LenProperties DEF Recorded, TypeOK
  <2>. QED BY <2>1 DEF InOpen, Tags, Tag
<1>2. OfOpen = All(InOpen, Goroutines)
  BY <1>1 DEF OfOpen, All
<1>3. OfEnding = All(InEnding, Goroutines)
  <2>1. ASSUME NEW u, u \in OfEnding
        PROVE  u \in All(InEnding, Goroutines)
    BY <2>1 DEF OfEnding, All, InEnding, Tag
  <2>2. ASSUME NEW u, u \in All(InEnding, Goroutines)
        PROVE  u \in OfEnding
    <3>1. PICK g \in Goroutines : u \in InEnding[g]
      BY <2>2 DEF All
    <3>2. ending[g] # None /\ u = Tag(ending[g])
      BY <3>1 DEF InEnding
    <3>. QED BY <3>2 DEF OfEnding, Tag
  <2>. QED BY <2>1, <2>2
<1>4. OfQueue = All(InQueue, Providers) /\ OfBatch = All(InBatch, Providers)
  BY DEF OfQueue, OfBatch, All, InQueue, InBatch
<1>5. Disjoint(InQueue, Providers) /\ Disjoint(InBatch, Providers)
  BY DEF Disjoint, InQueue, InBatch
<1>. QED BY <1>2, <1>3, <1>4, <1>5 DEF Shares

(* And in the next one.                                                    *)
LEMMA SharesAreAllNext == TypeOK' => Shares'
BY SharesAreAll, PTL

(* No goroutine works in what another one works in, or ends it; no span is *)
(* twice in one place; and spans are where their provider is.              *)
Apart ==
  /\ Disjoint(InOpen, Goroutines) /\ Disjoint(InEnding, Goroutines)
  /\ \A g \in Goroutines : Once(open[g])
  /\ \A p \in Providers : Single(queue[p])
  /\ \A g \in Goroutines : \A u \in InOpen[g] \cup InEnding[g] : u[2][1] = At[g]

KeptInv == SpansKept /\ Apart

(* Steps that move no span.                                                *)
LEMMA KeptFrame ==
  ASSUME KeptInv, UNCHANGED <<open, ending, queue, batch, due>>
  PROVE  KeptInv'
<1>1. /\ OfOpen' = OfOpen /\ OfEnding' = OfEnding /\ OfQueue' = OfQueue /\ OfBatch' = OfBatch
  BY DEF OfOpen, OfEnding, OfQueue, OfBatch, Recorded
<1>2. InOpen' = InOpen /\ InEnding' = InEnding
  BY DEF InOpen, InEnding
<1>. QED BY <1>1, <1>2 DEF KeptInv, SpansKept, Apart

(* The innermost span of g is ended, wherever it goes.                     *)
LEMMA EndShares ==
  ASSUME TypeOK, TypeOK', Apart, NEW g \in Goroutines, open[g] # <<>>,
         open' = [open EXCEPT ![g] = Front(open[g])]
  PROVE  /\ Disjoint(InOpen', Goroutines) /\ \A k \in Goroutines : Once(open'[k])
         /\ \A k \in Goroutines : InOpen'[k] \subseteq InOpen[k]
         /\ Last(open[g]).span = None => OfOpen' = OfOpen
         /\ Last(open[g]).span # None =>
              /\ Tag(Last(open[g])) \in InOpen[g] /\ Tag(Last(open[g])) \in OfOpen
              /\ OfOpen' = OfOpen \ {Tag(Last(open[g]))}
<1>0. PICK x : x = Last(open[g])
  OBVIOUS
<1>1. /\ open[g] \in Seq(Spans) /\ open'[g] = Front(open[g])
      /\ \A k \in Goroutines \ {g} : open'[k] = open[k]
  BY DEF TypeOK
<1>2. /\ OfOpen = All(InOpen, Goroutines) /\ OfOpen' = All(InOpen', Goroutines)
      /\ Disjoint(InOpen, Goroutines) /\ \A k \in Goroutines : Once(open[k])
  BY SharesAreAll, SharesAreAllNext DEF Shares, Apart
<1>3. /\ InOpen[g] = Tags(open[g]) /\ InOpen'[g] = Tags(Front(open[g]))
      /\ \A k \in Goroutines \ {g} : InOpen'[k] = InOpen[k]
  BY <1>1 DEF InOpen
<1>4. /\ Once(Front(open[g]))
      /\ x.span = None => Tags(Front(open[g])) = Tags(open[g])
      /\ x.span # None =>
           Tag(x) \in Tags(open[g]) /\ Tags(Front(open[g])) = Tags(open[g]) \ {Tag(x)}
  BY <1>0, <1>1, <1>2, TagsFront
<1>5. \A k \in Goroutines : Once(open'[k])
  BY <1>1, <1>2, <1>4
<1>6. CASE x.span = None
  <2>1. \A k \in Goroutines : InOpen'[k] = InOpen[k]
    BY <1>3, <1>4, <1>6
  <2>2. All(InOpen', Goroutines) = All(InOpen, Goroutines) /\ Disjoint(InOpen', Goroutines)
    BY <1>2, <2>1 DEF All, Disjoint
  <2>. QED BY <1>2, <1>5, <1>6, <2>1, <2>2, <1>0
<1>7. CASE x.span # None
  <2>1. Tag(x) \in InOpen[g] /\ InOpen'[g] = InOpen[g] \ {Tag(x)}
    BY <1>3, <1>4, <1>7
  <2>2. /\ All(InOpen', Goroutines) = All(InOpen, Goroutines) \ {Tag(x)}
        /\ Disjoint(InOpen', Goroutines) /\ Tag(x) \in All(InOpen, Goroutines)
    <3>1. Disjoint(InOpen, Goroutines)
      BY <1>2
    <3>2. \A k \in Goroutines \ {g} : InOpen'[k] = InOpen[k]
      BY <1>3
    <3>3. Tag(x) \in InOpen[g] /\ InOpen'[g] = InOpen[g] \ {Tag(x)}
      BY <2>1
    <3>. QED BY <3>1, <3>2, <3>3, ShareLoses
  <2>3. \A k \in Goroutines : InOpen'[k] \subseteq InOpen[k]
    BY <1>3, <2>1
  <2>. QED BY <1>2, <1>5, <1>7, <2>1, <2>2, <2>3, <1>0
<1>. QED BY <1>6, <1>7

(* A span is put into the queue of its provider.                           *)
LEMMA PutShares ==
  ASSUME TypeOK, TypeOK', Apart, NEW x \in RecordedSpans, Put(x), Tag(x) \notin OfQueue
  PROVE  OfQueue' = OfQueue \cup {Tag(x)} /\ \A p \in Providers : Single(queue'[p])
<1>1. PICK p \in Providers, n \in SpanIds : p = x.provider /\ n = x.span /\ Tag(x) = <<n, p>>
  BY DEF RecordedSpans, Tag
<1>2. /\ queue[p] \in Seq(SpanIds) /\ queue'[p] = Append(queue[p], n)
      /\ \A r \in Providers \ {p} : queue'[r] = queue[r]
  BY <1>1, PutType DEF TypeOK
<1>3. /\ OfQueue = All(InQueue, Providers) /\ OfQueue' = All(InQueue', Providers)
      /\ Disjoint(InQueue, Providers) /\ \A r \in Providers : Single(queue[r])
  BY SharesAreAll, SharesAreAllNext DEF Shares, Apart
<1>4. n \notin Elements(queue[p])
  BY <1>1, <1>3 DEF All, InQueue
<1>5. Elements(queue'[p]) = Elements(queue[p]) \cup {n} /\ Single(queue'[p])
  BY <1>1, <1>2, <1>3, <1>4, ElementsAppend
<1>6. InQueue'[p] = InQueue[p] \cup {Tag(x)}
  BY <1>1, <1>5 DEF InQueue
<1>7. \A r \in Providers \ {p} : InQueue'[r] = InQueue[r]
  BY <1>2 DEF InQueue
<1>8. All(InQueue', Providers) = All(InQueue, Providers) \cup {Tag(x)}
  <2>1. Disjoint(InQueue, Providers) /\ Tag(x) \notin All(InQueue, Providers) /\ p \in Providers
    BY <1>1, <1>3
  <2>. QED BY <1>6, <1>7, <2>1, ShareGains
<1>. QED BY <1>2, <1>3, <1>5, <1>8

(* A recorded span that g starts is a new one.                             *)
LEMMA StartShares ==
  ASSUME TypeOK, TypeOK', KeptInv, NEW g \in Goroutines, NEW x \in RecordedSpans,
         x.provider[1] = At[g], x.span \notin InUse, None \notin Nat,
         open' = [open EXCEPT ![g] = Append(open[g], x)]
  PROVE  /\ Tag(x) \notin due /\ OfOpen' = OfOpen \cup {Tag(x)}
         /\ Disjoint(InOpen', Goroutines) /\ \A k \in Goroutines : Once(open'[k])
         /\ \A k \in Goroutines : \A u \in InOpen'[k] : u[2][1] = At[k]
<1>1. /\ x \in Spans /\ x.span \in SpanIds /\ x.provider \in Providers
      /\ x.span # None /\ Tag(x)[2] = x.provider
  BY DEF RecordedSpans, Spans, SpanIds, Tag
<1>2. Tag(x) \notin due
  BY <1>1 DEF InUse, Tag
<1>3. /\ OfOpen = All(InOpen, Goroutines) /\ OfOpen' = All(InOpen', Goroutines)
      /\ Disjoint(InOpen, Goroutines) /\ \A k \in Goroutines : Once(open[k])
      /\ OfOpen \subseteq due
  BY SharesAreAll, SharesAreAllNext DEF Shares, KeptInv, Apart, SpansKept
<1>4. /\ open[g] \in Seq(Spans) /\ open'[g] = Append(open[g], x)
      /\ \A k \in Goroutines \ {g} : open'[k] = open[k]
  BY DEF TypeOK
<1>5. /\ InOpen[g] = Tags(open[g]) /\ InOpen'[g] = Tags(Append(open[g], x))
      /\ \A k \in Goroutines \ {g} : InOpen'[k] = InOpen[k]
  BY <1>4 DEF InOpen
<1>6. Tag(x) \notin All(InOpen, Goroutines)
  BY <1>2, <1>3
<1>7. Tag(x) \notin Tags(open[g])
  BY <1>5, <1>6 DEF All
<1>8. /\ Tags(Append(open[g], x)) = Tags(open[g]) \cup {Tag(x)}
      /\ Once(Append(open[g], x))
  BY <1>1, <1>3, <1>4, <1>7, TagsAppend
<1>9. InOpen'[g] = InOpen[g] \cup {Tag(x)}
  BY <1>5, <1>8
<1>10. /\ All(InOpen', Goroutines) = All(InOpen, Goroutines) \cup {Tag(x)}
       /\ Disjoint(InOpen', Goroutines)
  BY <1>3, <1>5, <1>6, <1>9, ShareGains
<1>11. \A k \in Goroutines : Once(open'[k])
  BY <1>3, <1>4, <1>8
<1>12. \A k \in Goroutines : \A u \in InOpen'[k] : u[2][1] = At[k]
  BY <1>1, <1>5, <1>9 DEF KeptInv, Apart
<1>. QED BY <1>2, <1>3, <1>10, <1>11, <1>12

(* A span that is not recorded is nobody's.                                *)
LEMMA UnrecordedShares ==
  ASSUME TypeOK, TypeOK', Apart, NEW g \in Goroutines, NEW x \in Spans, x.span = None,
         open' = [open EXCEPT ![g] = Append(open[g], x)]
  PROVE  OfOpen' = OfOpen /\ InOpen' = InOpen /\ \A k \in Goroutines : Once(open'[k])
<1>1. /\ open[g] \in Seq(Spans) /\ open'[g] = Append(open[g], x)
      /\ \A k \in Goroutines \ {g} : open'[k] = open[k]
  BY DEF TypeOK
<1>2. \A k \in Goroutines : Once(open[k])
  BY DEF Apart
<1>3. Tags(Append(open[g], x)) = Tags(open[g]) /\ Once(Append(open[g], x))
  BY <1>1, <1>2, TagsAppend
<1>4. \A k \in Goroutines : Tags(open'[k]) = Tags(open[k]) /\ Once(open'[k])
  BY <1>1, <1>2, <1>3
<1>5. InOpen' = InOpen
  BY <1>4 DEF InOpen
<1>6. OfOpen = All(InOpen, Goroutines) /\ OfOpen' = All(InOpen', Goroutines)
  BY SharesAreAll, SharesAreAllNext DEF Shares
<1>. QED BY <1>4, <1>5, <1>6

(* A goroutine has to wait with a span.                                    *)
LEMMA WaitShares ==
  ASSUME TypeOK, TypeOK', Apart, NEW g \in Goroutines, NEW x \in RecordedSpans,
         None \notin RecordedSpans, ending[g] = None, Tag(x) \notin OfEnding,
         ending' = [ending EXCEPT ![g] = x]
  PROVE  /\ OfEnding' = OfEnding \cup {Tag(x)} /\ Disjoint(InEnding', Goroutines)
         /\ InEnding'[g] = {Tag(x)} /\ \A k \in Goroutines \ {g} : InEnding'[k] = InEnding[k]
<1>1. /\ OfEnding = All(InEnding, Goroutines) /\ OfEnding' = All(InEnding', Goroutines)
      /\ Disjoint(InEnding, Goroutines)
  BY SharesAreAll, SharesAreAllNext DEF Shares, Apart
<1>2. ending'[g] = x /\ x # None /\ \A k \in Goroutines \ {g} : ending'[k] = ending[k]
  BY DEF TypeOK
<1>3. InEnding'[g] = {Tag(x)} /\ InEnding[g] = {}
  BY <1>2 DEF InEnding
<1>4. \A k \in Goroutines \ {g} : InEnding'[k] = InEnding[k]
  BY <1>2 DEF InEnding
<1>5. InEnding'[g] = InEnding[g] \cup {Tag(x)}
  BY <1>3
<1>6. Disjoint(InEnding, Goroutines) /\ Tag(x) \notin All(InEnding, Goroutines)
  BY <1>1
<1>7. /\ All(InEnding', Goroutines) = All(InEnding, Goroutines) \cup {Tag(x)}
      /\ Disjoint(InEnding', Goroutines)
  BY <1>4, <1>5, <1>6, ShareGains
<1>. QED BY <1>1, <1>3, <1>4, <1>7

(* It waits no longer.                                                     *)
LEMMA DoneShares ==
  ASSUME TypeOK, TypeOK', Apart, NEW g \in Goroutines, ending[g] # None,
         ending' = [ending EXCEPT ![g] = None]
  PROVE  /\ OfEnding' = OfEnding \ {Tag(ending[g])} /\ Disjoint(InEnding', Goroutines)
         /\ Tag(ending[g]) \in OfEnding
         /\ \A k \in Goroutines : InEnding'[k] \subseteq InEnding[k]
<1>0. PICK t : t = Tag(ending[g])
  OBVIOUS
<1>1. /\ OfEnding = All(InEnding, Goroutines) /\ OfEnding' = All(InEnding', Goroutines)
      /\ Disjoint(InEnding, Goroutines)
  BY SharesAreAll, SharesAreAllNext DEF Shares, Apart
<1>2. ending'[g] = None /\ \A k \in Goroutines \ {g} : ending'[k] = ending[k]
  BY DEF TypeOK
<1>3. InEnding'[g] = {} /\ InEnding[g] = {t}
  BY <1>0, <1>2 DEF InEnding
<1>4. \A k \in Goroutines \ {g} : InEnding'[k] = InEnding[k]
  BY <1>2 DEF InEnding
<1>5. t \in InEnding[g] /\ InEnding'[g] = InEnding[g] \ {t} /\ InEnding'[g] \subseteq InEnding[g]
  BY <1>3
<1>6. Disjoint(InEnding, Goroutines)
  BY <1>1
<1>7. /\ All(InEnding', Goroutines) = All(InEnding, Goroutines) \ {t}
      /\ Disjoint(InEnding', Goroutines) /\ t \in All(InEnding, Goroutines)
  <2>1. t \in InEnding[g] /\ InEnding'[g] = InEnding[g] \ {t}
    BY <1>5
  <2>. QED BY <1>4, <1>6, <2>1, ShareLoses
<1>. QED BY <1>0, <1>1, <1>4, <1>5, <1>7

(* The provider takes the first span of its queue.                         *)
LEMMA TakeShares ==
  ASSUME TypeOK, TypeOK', KeptInv, NEW p \in Providers, Take(p)
  PROVE  \E t \in OfQueue :
           /\ OfQueue' = OfQueue \ {t} /\ OfBatch' = OfBatch \cup {t}
           /\ \A r \in Providers : Single(queue'[r])
<1>1. /\ queue[p] \in Seq(SpanIds) /\ queue[p] # <<>>
      /\ queue'[p] = Tail(queue[p]) /\ \A r \in Providers \ {p} : queue'[r] = queue[r]
      /\ batch'[p] = batch[p] \cup {Head(queue[p])}
      /\ \A r \in Providers \ {p} : batch'[r] = batch[r]
  BY DEF Take, TypeOK
<1>2. /\ OfQueue = All(InQueue, Providers) /\ OfQueue' = All(InQueue', Providers)
      /\ OfBatch = All(InBatch, Providers) /\ OfBatch' = All(InBatch', Providers)
      /\ Disjoint(InQueue, Providers) /\ Disjoint(InBatch, Providers)
      /\ OfQueue \cap OfBatch = {} /\ \A r \in Providers : Single(queue[r])
  BY SharesAreAll, SharesAreAllNext DEF Shares, KeptInv, Apart, SpansKept
<1>3. PICK n : n = Head(queue[p])
  OBVIOUS
<1>4. PICK t : t = <<n, p>>
  OBVIOUS
<1>5. /\ n \in Elements(queue[p]) /\ Elements(queue'[p]) = Elements(queue[p]) \ {n}
      /\ Single(queue'[p])
  BY <1>1, <1>2, <1>3, ElementsTail
<1>6. \A r \in Providers \ {p} : InQueue'[r] = InQueue[r] /\ InBatch'[r] = InBatch[r]
  BY <1>1 DEF InQueue, InBatch
<1>7. t \in InQueue[p] /\ InQueue'[p] = InQueue[p] \ {t}
  BY <1>4, <1>5 DEF InQueue
<1>8. InBatch'[p] = InBatch[p] \cup {t}
  BY <1>1, <1>3, <1>4 DEF InBatch
<1>9. Disjoint(InQueue, Providers) /\ Disjoint(InBatch, Providers)
  BY <1>2
<1>10. /\ All(InQueue', Providers) = All(InQueue, Providers) \ {t}
       /\ t \in All(InQueue, Providers)
  BY <1>6, <1>7, <1>9, ShareLoses
<1>11. t \notin All(InBatch, Providers)
  BY <1>2, <1>10
<1>12. All(InBatch', Providers) = All(InBatch, Providers) \cup {t}
  <2>1. \A r \in Providers \ {p} : InBatch'[r] = InBatch[r]
    BY <1>6
  <2>2. Disjoint(InBatch, Providers)
    BY <1>9
  <2>. QED BY <1>8, <1>11, <2>1, <2>2, ShareGains
<1>13. \A r \in Providers : Single(queue'[r])
  BY <1>1, <1>2, <1>5
<1>. QED BY <1>2, <1>10, <1>12, <1>13

(* The process of s ends: what is its own is gone.                         *)
LEMMA CrashShares ==
  ASSUME TypeOK, TypeOK', KeptInv, NEW s \in Services, Crash(s)
  PROVE  /\ OfOpen' = {u \in OfOpen : u[2][1] # s}
         /\ OfEnding' = {u \in OfEnding : u[2][1] # s}
         /\ OfQueue' = {u \in OfQueue : u[2][1] # s}
         /\ OfBatch' = {u \in OfBatch : u[2][1] # s}
         /\ Apart'
<1>. DEFINE D == {g \in Goroutines : At[g] = s}
            Q == {p \in Providers : p[1] = s}
<1>1. /\ open' = [g \in Goroutines |-> IF g \in D THEN <<>> ELSE open[g]]
      /\ ending' = [g \in Goroutines |-> IF g \in D THEN None ELSE ending[g]]
      /\ queue' = [p \in Providers |-> IF p[1] = s THEN <<>> ELSE queue[p]]
      /\ batch' = [p \in Providers |-> IF p[1] = s THEN {} ELSE batch[p]]
  BY DEF Crash
<1>2. Once(<<>>) /\ Single(<<>>) /\ Tags(<<>>) = {} /\ Elements(<<>>) = {}
  <2>1. 1 .. Len(<<>>) = {} /\ DOMAIN <<>> = {}
    BY EmptySeq
  <2>. QED BY <2>1 DEF Once, Single, Tags, Elements
<1>3. /\ \A g \in D : InOpen'[g] = {} /\ InEnding'[g] = {}
      /\ \A g \in Goroutines \ D : InOpen'[g] = InOpen[g] /\ InEnding'[g] = InEnding[g]
  BY <1>1, <1>2 DEF InOpen, InEnding
<1>4. /\ \A p \in Q : InQueue'[p] = {} /\ InBatch'[p] = {}
      /\ \A p \in Providers \ Q : InQueue'[p] = InQueue[p] /\ InBatch'[p] = InBatch[p]
  BY <1>1, <1>2 DEF InQueue, InBatch
<1>5. /\ OfOpen = All(InOpen, Goroutines) /\ OfOpen' = All(InOpen', Goroutines)
      /\ OfEnding = All(InEnding, Goroutines) /\ OfEnding' = All(InEnding', Goroutines)
      /\ OfQueue = All(InQueue, Providers) /\ OfQueue' = All(InQueue', Providers)
      /\ OfBatch = All(InBatch, Providers) /\ OfBatch' = All(InBatch', Providers)
  BY SharesAreAll, SharesAreAllNext DEF Shares
<1>6. /\ Disjoint(InOpen, Goroutines) /\ Disjoint(InEnding, Goroutines)
      /\ Disjoint(InQueue, Providers) /\ Disjoint(InBatch, Providers)
  BY SharesAreAll DEF Shares, KeptInv, Apart
<1>7. /\ \A g \in Goroutines : \A u \in InOpen[g] \cup InEnding[g] : u[2][1] = At[g]
      /\ \A p \in Providers : \A u \in InQueue[p] \cup InBatch[p] : u[2][1] = p[1]
  BY DEF KeptInv, Apart, InQueue, InBatch
<1>8. D \in SUBSET Goroutines /\ Q \in SUBSET Providers
  OBVIOUS
<1>9. /\ \A u : u \in All(InOpen, D) <=> u \in All(InOpen, Goroutines) /\ u[2][1] = s
      /\ \A u : u \in All(InEnding, D) <=> u \in All(InEnding, Goroutines) /\ u[2][1] = s
  BY <1>7 DEF All
<1>10. /\ \A u : u \in All(InQueue, Q) <=> u \in All(InQueue, Providers) /\ u[2][1] = s
       /\ \A u : u \in All(InBatch, Q) <=> u \in All(InBatch, Providers) /\ u[2][1] = s
  BY <1>7 DEF All
<1>. HIDE DEF D, Q
<1>11. /\ All(InOpen', Goroutines) = All(InOpen, Goroutines) \ All(InOpen, D)
       /\ Disjoint(InOpen', Goroutines)
  BY <1>3, <1>6, <1>8, SharesEmptied
<1>12. /\ All(InEnding', Goroutines) = All(InEnding, Goroutines) \ All(InEnding, D)
       /\ Disjoint(InEnding', Goroutines)
  BY <1>3, <1>6, <1>8, SharesEmptied
<1>13. All(InQueue', Providers) = All(InQueue, Providers) \ All(InQueue, Q)
  BY <1>4, <1>6, <1>8, SharesEmptied
<1>14. All(InBatch', Providers) = All(InBatch, Providers) \ All(InBatch, Q)
  BY <1>4, <1>6, <1>8, SharesEmptied
<1>15. Apart'
  <2>1. /\ \A g \in Goroutines : Once(open[g])
        /\ \A p \in Providers : Single(queue[p])
    BY DEF KeptInv, Apart
  <2>2. \A g \in Goroutines : Once(open'[g])
    BY <1>1, <1>2, <2>1
  <2>3. \A p \in Providers : Single(queue'[p])
    BY <1>1, <1>2, <2>1
  <2>4. \A g \in Goroutines : \A u \in InOpen'[g] \cup InEnding'[g] : u[2][1] = At[g]
    BY <1>3, <1>7
  <2>. QED BY <1>11, <1>12, <2>2, <2>3, <2>4 DEF Apart
<1>. QED BY <1>5, <1>9, <1>10, <1>11, <1>12, <1>13, <1>14, <1>15

(* A span is with the goroutine that works in it or ends it, or in the     *)
(* hands of its provider, in one place, until an export takes it or its    *)
(* process ends.  (observability_trace.go:54, 76, 109.)                    *)
THEOREM SpansKeptSafe == Spec => []SpansKept
<1>. USE TracingAssumption DEF TracingAssumption
<1>1. Init => KeptInv
  <2>. SUFFICES ASSUME Init PROVE KeptInv
    OBVIOUS
  <2>1. 1 .. Len(<<>>) = {} /\ DOMAIN <<>> = {}
    BY EmptySeq
  <2>2. /\ \A g \in Goroutines : open[g] = <<>> /\ ending[g] = None
        /\ \A p \in Providers : queue[p] = <<>> /\ batch[p] = {}
        /\ due = {}
    BY DEF Init
  <2>3. OfOpen = {} /\ OfEnding = {} /\ OfQueue = {} /\ OfBatch = {}
    BY <2>1, <2>2 DEF OfOpen, OfEnding, OfQueue, OfBatch, Recorded, Elements
  <2>4. \A g \in Goroutines : InOpen[g] = {} /\ InEnding[g] = {} /\ Once(open[g])
    BY <2>1, <2>2 DEF InOpen, InEnding, Tags, Once
  <2>5. \A p \in Providers : Single(queue[p])
    BY <2>1, <2>2 DEF Single
  <2>6. Apart
    BY <2>4, <2>5 DEF Apart, Disjoint
  <2>. QED BY <2>2, <2>3, <2>6 DEF KeptInv, SpansKept
<1>2. TypeOK /\ TypeOK' /\ KeptInv /\ [Next]_vars => KeptInv'
  <2>. SUFFICES ASSUME TypeOK, TypeOK', KeptInv, [Next]_vars
                PROVE  KeptInv'
    OBVIOUS
  <2>0. SpansKept /\ Apart
    BY DEF KeptInv
  <2>1. ASSUME NEW g \in Goroutines, StartSpan(g) \/ StartServerSpan(g)
        PROVE  KeptInv'
    <3>1. PICK kind \in {"server", "inner"}, ctx \in Contexts : Start(g, kind, ctx)
      BY <2>1, StartContext
    <3>2. PICK x \in Spans :
            /\ open' = [open EXCEPT ![g] = Append(open[g], x)]
            /\ \/ x.span = None /\ due' = due
               \/ /\ x \in RecordedSpans /\ x.provider[1] = At[g] /\ x.span \notin InUse
                  /\ due' = due \cup {<<x.span, x.provider>>}
      BY <3>1, StartFacts
    <3>3. UNCHANGED <<ending, queue, batch>>
      BY <3>1 DEF Start, exportVars
    <3>4. OfEnding' = OfEnding /\ OfQueue' = OfQueue /\ OfBatch' = OfBatch /\ InEnding' = InEnding
      BY <3>3 DEF OfEnding, OfQueue, OfBatch, InEnding
    <3>5. CASE x.span = None /\ due' = due
      <4>1. OfOpen' = OfOpen /\ InOpen' = InOpen /\ \A k \in Goroutines : Once(open'[k])
        BY <2>0, <3>2, <3>5, UnrecordedShares
      <4>2. SpansKept'
        BY <2>0, <3>4, <3>5, <4>1 DEF SpansKept
      <4>3. Apart'
        BY <2>0, <3>3, <3>4, <4>1 DEF Apart
      <4>. QED BY <4>2, <4>3 DEF KeptInv
    <3>6. CASE /\ x \in RecordedSpans /\ x.provider[1] = At[g] /\ x.span \notin InUse
               /\ due' = due \cup {<<x.span, x.provider>>}
      <4>1. /\ Tag(x) \notin due /\ OfOpen' = OfOpen \cup {Tag(x)}
            /\ Disjoint(InOpen', Goroutines) /\ \A k \in Goroutines : Once(open'[k])
            /\ \A k \in Goroutines : \A u \in InOpen'[k] : u[2][1] = At[k]
        BY <3>2, <3>6, StartShares
      <4>2. due' = due \cup {Tag(x)}
        BY <3>6 DEF Tag
      <4>3. SpansKept'
        BY <2>0, <3>4, <4>1, <4>2 DEF SpansKept
      <4>4. Apart'
        BY <2>0, <3>3, <3>4, <4>1 DEF Apart
      <4>. QED BY <4>3, <4>4 DEF KeptInv
    <3>. QED BY <3>2, <3>5, <3>6
  <2>2. ASSUME NEW g \in Goroutines, EndSpan(g)
        PROVE  KeptInv'
    <3>1. PICK x : x = Last(open[g])
      OBVIOUS
    <3>2. /\ open[g] # <<>> /\ open' = [open EXCEPT ![g] = Front(open[g])]
          /\ UNCHANGED <<batch, due>> /\ pc[g] = "serving"
          /\ \/ x.span = None /\ UNCHANGED <<ending, queue>>
             \/ x.span # None /\ Put(x) /\ UNCHANGED ending
             \/ x.span # None /\ ending' = [ending EXCEPT ![g] = x] /\ queue' = queue
      BY <2>2, <3>1 DEF EndSpan
    <3>3. /\ Disjoint(InOpen', Goroutines) /\ \A k \in Goroutines : Once(open'[k])
          /\ \A k \in Goroutines : InOpen'[k] \subseteq InOpen[k]
          /\ x.span = None => OfOpen' = OfOpen
          /\ x.span # None => /\ Tag(x) \in InOpen[g] /\ Tag(x) \in OfOpen
                              /\ OfOpen' = OfOpen \ {Tag(x)}
      BY <2>0, <3>1, <3>2, EndShares
    <3>4. OfBatch' = OfBatch
      BY <3>2 DEF OfBatch
    <3>5. \A k \in Goroutines : \A u \in InOpen'[k] : u[2][1] = At[k]
      BY <2>0, <3>3 DEF Apart
    <3>6. x.span # None => x \in RecordedSpans
      <4>1. x \in Spans
        BY <3>1, <3>2, FrontFacts DEF TypeOK
      <4>. QED BY <4>1 DEF Spans
    <3>7. CASE x.span = None /\ UNCHANGED <<ending, queue>>
      <4>1. OfEnding' = OfEnding /\ OfQueue' = OfQueue /\ InEnding' = InEnding
        BY <3>7 DEF OfEnding, OfQueue, InEnding
      <4>2. SpansKept'
        BY <2>0, <3>2, <3>3, <3>4, <3>7, <4>1 DEF SpansKept
      <4>3. Apart'
        BY <2>0, <3>3, <3>5, <3>7, <4>1 DEF Apart
      <4>. QED BY <4>2, <4>3 DEF KeptInv
    <3>8. CASE x.span # None /\ Put(x) /\ UNCHANGED ending
      <4>1. OfEnding' = OfEnding /\ InEnding' = InEnding
        BY <3>8 DEF OfEnding, InEnding
      <4>2. Tag(x) \notin OfQueue
        BY <2>0, <3>3, <3>8 DEF SpansKept
      <4>3. OfQueue' = OfQueue \cup {Tag(x)} /\ \A p \in Providers : Single(queue'[p])
        BY <2>0, <3>6, <3>8, <4>2, PutShares
      <4>4. SpansKept'
        BY <2>0, <3>2, <3>3, <3>4, <3>8, <4>1, <4>3 DEF SpansKept
      <4>5. Apart'
        BY <2>0, <3>3, <3>5, <4>1, <4>3 DEF Apart
      <4>. QED BY <4>4, <4>5 DEF KeptInv
    <3>9. CASE x.span # None /\ ending' = [ending EXCEPT ![g] = x] /\ queue' = queue
      <4>1. OfQueue' = OfQueue
        BY <3>9 DEF OfQueue
      <4>2. ending[g] = None /\ Tag(x) \notin OfEnding
        BY <2>0, <3>2, <3>3, <3>9 DEF TypeOK, SpansKept
      <4>3. /\ OfEnding' = OfEnding \cup {Tag(x)} /\ Disjoint(InEnding', Goroutines)
            /\ InEnding'[g] = {Tag(x)} /\ \A k \in Goroutines \ {g} : InEnding'[k] = InEnding[k]
        BY <2>0, <3>6, <3>9, <4>2, WaitShares
      <4>4. SpansKept'
        BY <2>0, <3>2, <3>3, <3>4, <3>9, <4>1, <4>3 DEF SpansKept
      <4>5. Tag(x)[2][1] = At[g]
        BY <2>0, <3>3, <3>9 DEF Apart
      <4>6. \A k \in Goroutines : \A u \in InOpen'[k] \cup InEnding'[k] : u[2][1] = At[k]
        BY <2>0, <3>5, <4>3, <4>5 DEF Apart
      <4>7. Apart'
        BY <2>0, <3>3, <3>9, <4>3, <4>6 DEF Apart
      <4>. QED BY <4>4, <4>7 DEF KeptInv
    <3>. QED BY <3>2, <3>7, <3>8, <3>9
  <2>3. ASSUME NEW g \in Goroutines, Enqueue(g)
        PROVE  KeptInv'
    <3>1. PICK x : x = ending[g]
      OBVIOUS
    <3>2. /\ Put(x) /\ ending' = [ending EXCEPT ![g] = None] /\ ending[g] # None
          /\ UNCHANGED <<open, batch, due>>
      BY <2>3, <3>1 DEF Enqueue, TypeOK
    <3>3. x \in RecordedSpans
      BY <3>1, <3>2 DEF TypeOK
    <3>4. /\ OfEnding' = OfEnding \ {Tag(x)} /\ Disjoint(InEnding', Goroutines)
          /\ Tag(x) \in OfEnding /\ \A k \in Goroutines : InEnding'[k] \subseteq InEnding[k]
      BY <2>0, <3>1, <3>2, DoneShares
    <3>5. Tag(x) \notin OfQueue
      BY <2>0, <3>4 DEF SpansKept
    <3>6. OfQueue' = OfQueue \cup {Tag(x)} /\ \A p \in Providers : Single(queue'[p])
      BY <2>0, <3>2, <3>3, <3>5, PutShares
    <3>7. OfOpen' = OfOpen /\ OfBatch' = OfBatch /\ InOpen' = InOpen
      BY <3>2 DEF OfOpen, OfBatch, InOpen, Recorded
    <3>8. SpansKept'
      BY <2>0, <3>2, <3>4, <3>6, <3>7 DEF SpansKept
    <3>9. Apart'
      BY <2>0, <3>2, <3>4, <3>6, <3>7 DEF Apart
    <3>. QED BY <3>8, <3>9 DEF KeptInv
  <2>4. ASSUME NEW p \in Providers, Take(p)
        PROVE  KeptInv'
    <3>1. PICK t \in OfQueue :
            /\ OfQueue' = OfQueue \ {t} /\ OfBatch' = OfBatch \cup {t}
            /\ \A r \in Providers : Single(queue'[r])
      BY <2>4, TakeShares
    <3>2. UNCHANGED <<open, ending, due>>
      BY <2>4 DEF Take
    <3>3. /\ OfOpen' = OfOpen /\ OfEnding' = OfEnding
          /\ InOpen' = InOpen /\ InEnding' = InEnding
      BY <3>2 DEF OfOpen, OfEnding, InOpen, InEnding, Recorded
    <3>4. SpansKept'
      BY <2>0, <3>1, <3>2, <3>3 DEF SpansKept
    <3>5. Apart'
      BY <2>0, <3>1, <3>2, <3>3 DEF Apart
    <3>. QED BY <3>4, <3>5 DEF KeptInv
  <2>5. ASSUME NEW p \in Providers, Export(p)
        PROVE  KeptInv'
    <3>1. /\ batch' = [batch EXCEPT ![p] = {}] /\ due' = due \ (batch[p] \X {p})
          /\ UNCHANGED <<open, ending, queue>>
      BY <2>5 DEF Export
    <3>2. /\ OfOpen' = OfOpen /\ OfEnding' = OfEnding /\ OfQueue' = OfQueue
          /\ InOpen' = InOpen /\ InEnding' = InEnding
      BY <3>1 DEF OfOpen, OfEnding, OfQueue, InOpen, InEnding, Recorded
    <3>3. OfBatch' = OfBatch \ (batch[p] \X {p})
      <4>1. batch'[p] = {} /\ \A r \in Providers \ {p} : batch'[r] = batch[r]
        BY <3>1 DEF TypeOK
      <4>. QED BY <4>1 DEF OfBatch
    <3>4. batch[p] \X {p} \subseteq OfBatch
      BY DEF OfBatch
    <3>5. SpansKept'
      BY <2>0, <3>1, <3>2, <3>3, <3>4 DEF SpansKept
    <3>6. Apart'
      BY <2>0, <3>1, <3>2 DEF Apart
    <3>. QED BY <3>5, <3>6 DEF KeptInv
  <2>6. ASSUME NEW s \in Services, Crash(s)
        PROVE  KeptInv'
    <3>1. due' = {u \in due : u[2][1] # s}
      BY <2>6 DEF Crash
    <3>2. SpansKept'
      BY <2>0, <2>6, <3>1, CrashShares DEF SpansKept
    <3>. QED BY <2>6, <3>2, CrashShares DEF KeptInv
  <2>7. CASE \/ \E g \in Goroutines : GiveUp(g) \/ Return(g)
             \/ \E g \in Goroutines, h \in {None, Outside}, joins \in BOOLEAN :
                  Arrive(g, h, joins)
             \/ \E g, d \in Goroutines, background, joins \in BOOLEAN :
                  Call(g, d, background, joins)
             \/ \E s \in Services : InitTraceProvider(s)
             \/ UNCHANGED vars
    <3>1. UNCHANGED <<open, ending, queue, batch, due>>
      BY <2>7 DEF GiveUp, Return, Arrive, Call, InitTraceProvider, vars, exportVars
    <3>. QED BY <3>1, KeptFrame
  <2>. QED BY <2>1, <2>2, <2>3, <2>4, <2>5, <2>6, <2>7 DEF Next, GoroutineStep
<1>3. KeptInv => SpansKept
  BY DEF KeptInv
<1>. QED BY <1>1, <1>2, <1>3, TypeCorrect, PTL DEF Spec
==============================================================================
