-------------------------- MODULE AuditPipelineProofs --------------------------
(***************************************************************************)
(* Proofs about AuditPipeline, for any number of callers and handlers and  *)
(* any value of the bounds.                                                *)
(***************************************************************************)
EXTENDS AuditPipeline, SequenceTheorems, FiniteSetTheorems, TLAPS

----------------------------------------------------------------------------
(* Lemmas about sequences and their elements. *)

(* Appending to a sequence of S gives a sequence of S, one longer, with    *)
(* the same items in front.  (audit.go:158: the channel and the topic grow *)
(* at their end only.)                                                     *)
LEMMA AppendFacts ==
  ASSUME NEW S, NEW s \in Seq(S), NEW e \in S
  PROVE  /\ Append(s, e) \in Seq(S)
         /\ Len(s) \in Nat
         /\ Len(Append(s, e)) = Len(s) + 1
         /\ \A i \in 1..Len(s) : Append(s, e)[i] = s[i]
         /\ Append(s, e)[Len(s) + 1] = e
         /\ DOMAIN s = 1..Len(s)
         /\ DOMAIN Append(s, e) = 1..(Len(s) + 1)
         /\ Elements(Append(s, e)) = Elements(s) \cup {e}
<1>1. /\ Append(s, e) \in Seq(S)
      /\ Len(s) \in Nat
      /\ Len(Append(s, e)) = Len(s) + 1
      /\ \A i \in 1..Len(s) : Append(s, e)[i] = s[i]
      /\ Append(s, e)[Len(s) + 1] = e
      /\ DOMAIN s = 1..Len(s)
      /\ DOMAIN Append(s, e) = 1..(Len(s) + 1)
  BY AppendProperties, LenProperties
<1>2. Elements(Append(s, e)) = Elements(s) \cup {e}
  <2>1. \A x \in Elements(Append(s, e)) : x \in Elements(s) \cup {e}
    BY <1>1 DEF Elements
  <2>2. \A x \in Elements(s) : x \in Elements(Append(s, e))
    BY <1>1 DEF Elements
  <2>3. e \in Elements(Append(s, e))
    BY <1>1 DEF Elements
  <2>. QED BY <2>1, <2>2, <2>3
<1>. QED BY <1>1, <1>2

(* The head and the tail of a channel that is not empty.  (audit.go:204.)  *)
LEMMA HeadTailFacts ==
  ASSUME NEW S, NEW s \in Seq(S), s # <<>>
  PROVE  /\ Head(s) \in S
         /\ Head(s) = s[1]
         /\ Tail(s) \in Seq(S)
         /\ Len(s) \in Nat \ {0}
         /\ Len(Tail(s)) = Len(s) - 1
         /\ \A i \in 1..Len(Tail(s)) : Tail(s)[i] = s[i + 1]
         /\ Elements(s) = Elements(Tail(s)) \cup {Head(s)}
<1>1. /\ Head(s) \in S
      /\ Head(s) = s[1]
      /\ Tail(s) \in Seq(S)
      /\ Len(s) \in Nat \ {0}
      /\ Len(Tail(s)) = Len(s) - 1
      /\ \A i \in 1..Len(Tail(s)) : Tail(s)[i] = s[i + 1]
  BY HeadTailProperties, EmptySeq, LenProperties
<1>2. DOMAIN s = 1..Len(s) /\ DOMAIN Tail(s) = 1..(Len(s) - 1)
  BY <1>1, LenProperties
<1>3. \A x \in Elements(s) : x \in Elements(Tail(s)) \cup {Head(s)}
  <2>. SUFFICES ASSUME NEW i \in 1..Len(s)
                PROVE  s[i] \in Elements(Tail(s)) \cup {Head(s)}
    BY <1>2 DEF Elements
  <2>1. CASE i = 1
    BY <1>1, <2>1
  <2>2. CASE i # 1
    <3>1. i - 1 \in 1..Len(Tail(s)) /\ Tail(s)[i - 1] = s[i]
      BY <1>1, <2>2
    <3>. QED BY <1>1, <1>2, <3>1 DEF Elements
  <2>. QED BY <2>1, <2>2
<1>4. \A x \in Elements(Tail(s)) : x \in Elements(s)
  <2>. SUFFICES ASSUME NEW i \in 1..(Len(s) - 1)
                PROVE  Tail(s)[i] \in Elements(s)
    BY <1>2 DEF Elements
  <2>. QED BY <1>1, <1>2 DEF Elements
<1>5. Head(s) \in Elements(s)
  BY <1>1, <1>2 DEF Elements
<1>. QED BY <1>1, <1>3, <1>4, <1>5

----------------------------------------------------------------------------
(* Types *)

(* What the type invariant leaves open: a caller in the middle of a call   *)
(* has begun at least one record.                                          *)
SendingCounted == \A c \in Callers : pc[c] = "sending" => cnt[c] >= 1

TypeInv == TypeOK /\ SendingCounted

(* A handler's request is a request, whichever goroutine holds it.         *)
LEMMA HeldRequest ==
  ASSUME TypeOK, NEW h \in Handlers, hpc[h] \in {"send", "sendSleep"}
  PROVE  held[h] \in Requests /\ held[h] # NoLog
BY DEF TypeOK

(* AttemptFailed keeps a handler at its request.  (audit.go:256-261.)      *)
LEMMA AttemptFailedType ==
  ASSUME TypeOK, NEW h \in Handlers, hpc[h] = "send", AttemptFailed(h)
  PROVE  /\ hpc' \in [Handlers -> {"off", "connect", "connectSleep", "receive", "send", "sendSleep"}]
         /\ held' \in [Handlers -> Requests \cup {NoLog}]
         /\ \A g \in Handlers : (held'[g] # NoLog) <=> hpc'[g] \in {"send", "sendSleep"}
         /\ tries' \in [Handlers -> 0..RetryMax]
         /\ chan' = chan
         /\ held' = held
<1>. USE ConstantsAssumption DEF ConstantsAssumption
<1>1. /\ tries \in [Handlers -> 0..RetryMax]
      /\ hpc \in [Handlers -> {"off", "connect", "connectSleep", "receive", "send", "sendSleep"}]
      /\ held \in [Handlers -> Requests \cup {NoLog}]
      /\ \A g \in Handlers : (held[g] # NoLog) <=> hpc[g] \in {"send", "sendSleep"}
  BY DEF TypeOK
<1>2. CASE tries[h] < RetryMax
  <2>1. /\ tries' = [tries EXCEPT ![h] = @ + 1]
        /\ hpc' = hpc /\ chan' = chan /\ held' = held
    BY <1>2 DEF AttemptFailed
  <2>2. tries[h] + 1 \in 0..RetryMax
    BY <1>1, <1>2
  <2>. QED BY <1>1, <2>1, <2>2
<1>3. CASE ~(tries[h] < RetryMax)
  BY <1>1, <1>3 DEF AttemptFailed
<1>. QED BY <1>2, <1>3

(* Type correctness of the audit pipeline: in particular the channel never *)
(* holds more than its capacity, and a handler holds a record exactly      *)
(* while it is sending or asleep between sends.                            *)
LEMMA TypeInvariant == Spec => []TypeInv
<1>. USE ConstantsAssumption DEF ConstantsAssumption
<1>1. Init => TypeInv
  BY EmptySeq DEF Init, TypeInv, TypeOK, SendingCounted
<1>2. TypeInv /\ [Next]_vars => TypeInv'
  <2>. SUFFICES ASSUME TypeInv, [Next]_vars
                PROVE  TypeInv'
    OBVIOUS
  <2>. USE DEF TypeInv
  <2>1. ASSUME NEW c \in Callers, NewLog(c)
        PROVE  TypeInv'
    BY <2>1 DEF NewLog, TypeOK, SendingCounted, handlerVars, kafkaVars
  <2>2. ASSUME NEW c \in Callers, Enqueue(c)
        PROVE  TypeInv'
    <3>1. Current(c) \in Logs
      BY <2>2 DEF Enqueue, TypeOK, SendingCounted, Current, Logs
    <3>2. /\ chan' \in Seq(Logs) /\ Len(chan') <= Capacity
          /\ accepted' \in Seq(Logs)
      BY <2>2, <3>1, AppendFacts DEF Enqueue, TypeOK
    <3>. QED BY <2>2, <3>2 DEF Enqueue, TypeOK, SendingCounted, handlerVars, kafkaVars
  <2>3. ASSUME NEW h \in Handlers, HandlerStep(h)
        PROVE  TypeInv'
    <3>1. CASE InitAudit(h)
      BY <3>1 DEF InitAudit, TypeOK, SendingCounted, callerVars, kafkaVars
    <3>2. CASE ConnectOk(h)
      BY <3>2 DEF ConnectOk, TypeOK, SendingCounted, callerVars, kafkaVars
    <3>3. CASE ConnectFail(h)
      BY <3>3 DEF ConnectFail, TypeOK, SendingCounted, callerVars, kafkaVars
    <3>4. CASE ConnectWake(h)
      BY <3>4 DEF ConnectWake, TypeOK, SendingCounted, callerVars, kafkaVars
    <3>5. CASE Receive(h)
      <4>. DEFINE m == [log |-> Head(chan), id |-> nextId]
      <4>1. /\ Head(chan) \in Logs
            /\ chan' \in Seq(Logs) /\ Len(chan') <= Capacity
        BY <3>5, HeadTailFacts DEF Receive, TypeOK
      <4>2. m \in Requests /\ m # NoLog
        BY <4>1 DEF TypeOK, Requests
      <4>3. held' = [held EXCEPT ![h] = m]
        BY <3>5 DEF Receive
      <4>. HIDE DEF m
      <4>. QED BY <3>5, <4>1, <4>2, <4>3 DEF Receive, TypeOK, SendingCounted, callerVars, kafkaVars
    <3>6. CASE SendAcked(h)
      <4>1. topic' \in Seq(Requests)
        BY <3>6, HeldRequest, AppendFacts DEF SendAcked, TypeOK
      <4>. QED BY <3>6, <4>1 DEF SendAcked, TypeOK, SendingCounted, callerVars
    <3>7. CASE SendAckLost(h)
      <4>1. topic' \in Seq(Requests)
        BY <3>7, HeldRequest, AppendFacts DEF SendAckLost, TypeOK
      <4>. QED BY <3>7, <4>1, AttemptFailedType DEF SendAckLost, TypeOK, SendingCounted, callerVars
    <3>8. CASE SendLost(h)
      BY <3>8, AttemptFailedType DEF SendLost, TypeOK, SendingCounted, callerVars, kafkaVars
    <3>9. CASE SendLate(h)
      BY <3>9, HeldRequest, AttemptFailedType DEF SendLate, TypeOK, SendingCounted, callerVars
    <3>10. CASE SendWake(h)
      BY <3>10 DEF SendWake, TypeOK, SendingCounted, callerVars, kafkaVars
    <3>. QED BY <2>3, <3>1, <3>2, <3>3, <3>4, <3>5, <3>6, <3>7, <3>8, <3>9, <3>10 DEF HandlerStep
  <2>4. ASSUME NEW m \in late, LateAppend(m)
        PROVE  TypeInv'
    <3>1. topic' \in Seq(Requests) /\ late' \in SUBSET Requests
      BY <2>4, AppendFacts DEF LateAppend, TypeOK
    <3>. QED BY <2>4, <3>1 DEF LateAppend, TypeOK, SendingCounted, callerVars, handlerVars
  <2>5. CASE BrokerDown
    BY <2>5 DEF BrokerDown, TypeOK, SendingCounted, callerVars, handlerVars
  <2>6. CASE BrokerBack
    BY <2>6 DEF BrokerBack, TypeOK, SendingCounted, callerVars, handlerVars
  <2>7. CASE Crash
    <3>1. lost' \in SUBSET Logs
      <4>1. Elements(chan) \subseteq Logs
        BY ElementOfSeq, LenProperties DEF TypeOK, Elements
      <4>2. \A m \in InHand : m.log \in Logs
        BY DEF InHand, TypeOK, Requests
      <4>. QED BY <2>7, <4>1, <4>2 DEF Crash, TypeOK
    <3>2. chan' \in Seq(Logs) /\ Len(chan') <= Capacity
      BY <2>7, EmptySeq DEF Crash
    <3>. QED BY <2>7, <3>1, <3>2 DEF Crash, TypeOK, SendingCounted, kafkaVars
  <2>8. CASE UNCHANGED vars
    BY <2>8 DEF vars, TypeOK, SendingCounted
  <2>. QED BY <2>1, <2>2, <2>3, <2>4, <2>5, <2>6, <2>7, <2>8 DEF Next
<1>. QED BY <1>1, <1>2, PTL DEF Spec

(* The audit pipeline keeps its types, whatever the number of callers,     *)
(* handlers, retries, outages and crashes (audit.go:102-309).              *)
THEOREM TypeCorrect == Spec => []TypeOK
<1>1. TypeInv => TypeOK
  BY DEF TypeInv
<1>. QED BY <1>1, TypeInvariant, PTL

----------------------------------------------------------------------------
(* Records that are taken from the channel exactly once *)

(* How many records handlers have taken from the channel or crashes have   *)
(* dropped from it.                                                        *)
Taken == Len(accepted) - Len(chan)

(* The channel holds the records accepted last.                            *)
ChanSuffix ==
  /\ Len(chan) <= Len(accepted)
  /\ \A i \in 1..Len(chan) : chan[i] = accepted[Taken + i]

(* No record is accepted twice.                                            *)
AcceptedOnce ==
  \A i, j \in 1..Len(accepted) : accepted[i] = accepted[j] => i = j

(* Accepted records are among those their caller has begun, and the record *)
(* a caller is logging is not yet among them.                              *)
AcceptedCounted ==
  \A i \in 1..Len(accepted) :
    LET r == accepted[i]
    IN  r.n <= cnt[r.caller] /\ (pc[r.caller] = "sending" => r.n < cnt[r.caller])

(* Requests that were ever made and are still somewhere.                   *)
Made == InHand \cup late \cup Elements(topic)

(* A request is made for a record taken from the channel, with an ID drawn *)
(* earlier.                                                                *)
MadeFromTaken ==
  \A m \in Made : m.id < nextId /\ \E j \in 1..Taken : m.log = accepted[j]

(* One ID for each record, one record for each ID.                         *)
OneId == \A m, p \in Made : m.id = p.id <=> m.log = p.log

(* Every request ever made is a request.                                   *)
LEMMA MadeRequests ==
  ASSUME TypeOK PROVE Made \subseteq Requests
<1>1. InHand \subseteq Requests
  BY DEF InHand, TypeOK
<1>2. late \subseteq Requests
  BY DEF TypeOK
<1>3. Elements(topic) \subseteq Requests
  BY ElementOfSeq, LenProperties DEF TypeOK, Elements
<1>. QED BY <1>1, <1>2, <1>3 DEF Made

RecordInv ==
  /\ ChanSuffix
  /\ AcceptedOnce
  /\ AcceptedCounted
  /\ MadeFromTaken
  /\ OneId

recordVars == <<pc, cnt, chan, accepted, InHand, late, topic, nextId>>

(* A step that changes none of the state RecordInv speaks of preserves it. *)
LEMMA RecordInvFrame ==
  ASSUME RecordInv, UNCHANGED recordVars
  PROVE  RecordInv'
BY DEF RecordInv, recordVars, ChanSuffix, AcceptedOnce, AcceptedCounted,
       MadeFromTaken, OneId, Made, Taken

(* A step that only makes copies of known requests, or forgets requests,   *)
(* preserves RecordInv.  (audit.go:256: every attempt sends the same msg.) *)
LEMMA RecordInvCopies ==
  ASSUME RecordInv, UNCHANGED <<pc, cnt, chan, accepted, nextId>>, Made' \subseteq Made
  PROVE  RecordInv'
BY DEF RecordInv, ChanSuffix, AcceptedOnce, AcceptedCounted, MadeFromTaken, OneId, Taken

(* The channel takes the record of a caller.  (audit.go:158.)              *)
LEMMA RecordInvEnqueue ==
  ASSUME TypeInv, RecordInv, NEW c \in Callers, Enqueue(c)
  PROVE  RecordInv'
<1>. DEFINE r == Current(c)
<1>1. /\ r \in Logs /\ r.caller = c /\ r.n = cnt[c] /\ pc[c] = "sending"
      /\ chan \in Seq(Logs) /\ accepted \in Seq(Logs)
      /\ cnt \in [Callers -> 0..MaxLogs]
      /\ pc \in [Callers -> {"idle", "sending"}]
  BY DEF Enqueue, TypeInv, TypeOK, SendingCounted, Current, Logs
<1>2. /\ chan' = Append(chan, r) /\ accepted' = Append(accepted, r)
      /\ pc' = [pc EXCEPT ![c] = "idle"] /\ cnt' = cnt
      /\ Made' = Made /\ nextId' = nextId
  BY DEF Enqueue, handlerVars, kafkaVars, Made, InHand
<1>. HIDE DEF r
<1>3. /\ Len(chan) \in Nat /\ Len(chan') = Len(chan) + 1
      /\ \A i \in 1..Len(chan) : chan'[i] = chan[i]
      /\ chan'[Len(chan) + 1] = r
  BY <1>1, <1>2, AppendFacts
<1>4. /\ Len(accepted) \in Nat /\ Len(accepted') = Len(accepted) + 1
      /\ \A i \in 1..Len(accepted) : accepted'[i] = accepted[i] /\ accepted[i] \in Logs
      /\ accepted'[Len(accepted) + 1] = r
  BY <1>1, <1>2, AppendFacts, ElementOfSeq
<1>5. Taken' = Taken /\ Taken \in Nat
  BY <1>3, <1>4 DEF Taken, RecordInv, ChanSuffix
<1>6. ChanSuffix'
  <2>. SUFFICES ASSUME NEW i \in 1..Len(chan')
                PROVE  chan'[i] = accepted'[Taken' + i]
    BY <1>3, <1>4 DEF RecordInv, ChanSuffix
  <2>1. CASE i = Len(chan) + 1
    BY <2>1, <1>3, <1>4, <1>5 DEF Taken
  <2>2. CASE i # Len(chan) + 1
    <3>1. i \in 1..Len(chan) /\ Taken + i \in 1..Len(accepted)
      BY <2>2, <1>3, <1>4, <1>5 DEF Taken
    <3>. QED BY <3>1, <1>3, <1>4, <1>5 DEF RecordInv, ChanSuffix
  <2>. QED BY <2>1, <2>2
<1>7. \A i \in 1..Len(accepted) : accepted[i] # r
  BY <1>1 DEF RecordInv, AcceptedCounted
<1>8. AcceptedOnce'
  BY <1>4, <1>7 DEF RecordInv, AcceptedOnce
<1>9. AcceptedCounted'
  <2>. SUFFICES ASSUME NEW i \in 1..Len(accepted')
                PROVE  LET q == accepted'[i]
                       IN  /\ q.n <= cnt'[q.caller]
                           /\ pc'[q.caller] = "sending" => q.n < cnt'[q.caller]
    BY DEF AcceptedCounted
  <2>1. CASE i = Len(accepted) + 1
    BY <2>1, <1>1, <1>2, <1>4
  <2>2. CASE i # Len(accepted) + 1
    <3>1. i \in 1..Len(accepted) /\ accepted'[i] = accepted[i] /\ accepted[i].caller \in Callers
      BY <2>2, <1>4 DEF Logs
    <3>. QED BY <3>1, <1>1, <1>2 DEF RecordInv, AcceptedCounted
  <2>. QED BY <2>1, <2>2
<1>10. MadeFromTaken' /\ OneId'
  <2>1. \A j \in 1..Taken : accepted'[j] = accepted[j]
    BY <1>3, <1>4, <1>5 DEF Taken
  <2>. QED BY <2>1, <1>2, <1>5 DEF RecordInv, MadeFromTaken, OneId
<1>. QED BY <1>6, <1>8, <1>9, <1>10 DEF RecordInv

(* A handler takes the oldest record and gives it a new ID.                *)
(* (audit.go:204-216.)                                                     *)
LEMMA RecordInvReceive ==
  ASSUME TypeInv, RecordInv, NEW h \in Handlers, Receive(h)
  PROVE  RecordInv'
<1>. DEFINE m == [log |-> Head(chan), id |-> nextId]
<1>1. /\ chan \in Seq(Logs) /\ accepted \in Seq(Logs) /\ chan # <<>> /\ nextId \in Nat
      /\ chan' = Tail(chan) /\ nextId' = nextId + 1
      /\ UNCHANGED <<pc, cnt, accepted, late, topic>>
      /\ held' = [held EXCEPT ![h] = m]
  BY DEF Receive, TypeInv, TypeOK, callerVars, kafkaVars
<1>2. /\ Head(chan) = chan[1] /\ Len(chan) \in Nat \ {0} /\ Len(chan') = Len(chan) - 1
      /\ \A i \in 1..Len(chan') : chan'[i] = chan[i + 1]
  BY <1>1, HeadTailFacts
<1>3. Len(accepted) \in Nat /\ Len(chan) <= Len(accepted)
  BY <1>1, LenProperties DEF RecordInv, ChanSuffix
<1>4. Taken \in Nat /\ Taken' = Taken + 1 /\ Taken' \in 1..Len(accepted)
  BY <1>1, <1>2, <1>3 DEF Taken
<1>5. Head(chan) = accepted[Taken']
  BY <1>2, <1>4 DEF RecordInv, ChanSuffix
<1>6. Made' \subseteq Made \cup {m}
  BY <1>1 DEF Made, InHand, TypeInv, TypeOK
<1>7. m.log = accepted[Taken'] /\ m.id = nextId
  BY <1>5
<1>. HIDE DEF m
<1>8. ChanSuffix'
  <2>. SUFFICES ASSUME NEW i \in 1..Len(chan')
                PROVE  chan'[i] = accepted'[Taken' + i]
    BY <1>1, <1>2, <1>3 DEF ChanSuffix
  <2>1. i + 1 \in 1..Len(chan) /\ Taken' + i = Taken + (i + 1)
    BY <1>2, <1>4
  <2>. QED BY <2>1, <1>1, <1>2 DEF RecordInv, ChanSuffix
<1>9. AcceptedOnce' /\ AcceptedCounted'
  BY <1>1 DEF RecordInv, AcceptedOnce, AcceptedCounted
<1>10. \A p \in Made : p.id < nextId /\ p.log # m.log
  BY <1>3, <1>4, <1>7 DEF RecordInv, MadeFromTaken, AcceptedOnce
<1>11. MadeFromTaken'
  <2>. SUFFICES ASSUME NEW p \in Made \cup {m}
                PROVE  p.id < nextId' /\ \E j \in 1..Taken' : p.log = accepted'[j]
    BY <1>6 DEF MadeFromTaken
  <2>1. CASE p = m
    BY <2>1, <1>1, <1>4, <1>7
  <2>2. CASE p \in Made
    <3>1. p.id < nextId + 1
      <4>1. p.id \in Nat
        BY <2>2, MadeRequests DEF TypeInv, Requests
      <4>. QED BY <4>1, <1>1, <1>10, <2>2
    <3>. QED BY <3>1, <2>2, <1>1, <1>4 DEF RecordInv, MadeFromTaken
  <2>. QED BY <2>1, <2>2
<1>12. OneId'
  <2>. SUFFICES ASSUME NEW p \in Made \cup {m}, NEW q \in Made \cup {m}
                PROVE  p.id = q.id <=> p.log = q.log
    BY <1>6 DEF OneId
  <2>. QED BY <1>1, <1>7, <1>10 DEF RecordInv, OneId
<1>. QED BY <1>8, <1>9, <1>11, <1>12 DEF RecordInv

(* A send that fails keeps the request in hand.  (audit.go:254-262.)       *)
LEMMA FailedSendKeeps ==
  ASSUME TypeOK, NEW h \in Handlers,
         SendAckLost(h) \/ SendLost(h) \/ SendLate(h)
  PROVE  /\ chan' = chan /\ held' = held /\ InHand' = InHand
         /\ held[h] \in InHand /\ held[h] \in Requests
         /\ UNCHANGED <<pc, cnt, accepted, lost, nextId>>
BY HeldRequest DEF SendAckLost, SendLost, SendLate, AttemptFailed, InHand, callerVars

(* Each record is taken from the channel once and named by one ID.         *)
LEMMA RecordInvariant == Spec => []RecordInv
<1>1. Init => RecordInv
  <2>. SUFFICES ASSUME Init PROVE RecordInv
    OBVIOUS
  <2>1. Len(chan) = 0 /\ Len(accepted) = 0 /\ Made = {}
    BY EmptySeq DEF Init, Made, InHand, Elements
  <2>. QED BY <2>1 DEF RecordInv, ChanSuffix, AcceptedOnce, AcceptedCounted,
              MadeFromTaken, OneId
<1>2. TypeInv /\ RecordInv /\ [Next]_vars => RecordInv'
  <2>. SUFFICES ASSUME TypeInv, RecordInv, [Next]_vars
                PROVE  RecordInv'
    OBVIOUS
  <2>0. TypeOK
    BY DEF TypeInv
  <2>1. ASSUME NEW c \in Callers, NewLog(c)
        PROVE  RecordInv'
    <3>1. UNCHANGED <<chan, accepted, InHand, late, topic, nextId>>
      BY <2>1 DEF NewLog, handlerVars, kafkaVars, InHand
    <3>2. ChanSuffix' /\ AcceptedOnce' /\ MadeFromTaken' /\ OneId'
      BY <3>1 DEF RecordInv, ChanSuffix, AcceptedOnce, MadeFromTaken, OneId, Made, Taken
    <3>3. AcceptedCounted'
      <4>. SUFFICES ASSUME NEW i \in 1..Len(accepted)
                    PROVE  LET r == accepted[i]
                           IN  /\ r.n <= cnt'[r.caller]
                               /\ pc'[r.caller] = "sending" => r.n < cnt'[r.caller]
        BY <3>1 DEF AcceptedCounted
      <4>1. accepted[i] \in Logs
        BY <2>0, ElementOfSeq DEF TypeOK
      <4>2. /\ accepted[i].n \in Nat /\ accepted[i].caller \in Callers
            /\ cnt \in [Callers -> 0..MaxLogs] /\ pc \in [Callers -> {"idle", "sending"}]
            /\ cnt' = [cnt EXCEPT ![c] = @ + 1] /\ pc' = [pc EXCEPT ![c] = "sending"]
        BY <4>1, <2>0, <2>1 DEF Logs, TypeOK, NewLog
      <4>. QED BY <4>2 DEF RecordInv, AcceptedCounted
    <3>. QED BY <3>2, <3>3 DEF RecordInv
  <2>2. ASSUME NEW c \in Callers, Enqueue(c)
        PROVE  RecordInv'
    BY <2>2, RecordInvEnqueue
  <2>3. ASSUME NEW h \in Handlers, HandlerStep(h)
        PROVE  RecordInv'
    <3>1. CASE InitAudit(h) \/ ConnectOk(h) \/ ConnectFail(h) \/ ConnectWake(h) \/ SendWake(h)
      <4>1. UNCHANGED recordVars
        BY <3>1 DEF InitAudit, ConnectOk, ConnectFail, ConnectWake, SendWake, recordVars,
                    callerVars, kafkaVars, InHand
      <4>. QED BY <4>1, RecordInvFrame
    <3>2. CASE Receive(h)
      BY <3>2, RecordInvReceive
    <3>3. CASE SendAcked(h)
      <4>1. held[h] \in InHand /\ held[h] \in Requests
        BY <3>3, <2>0, HeldRequest DEF SendAcked, InHand
      <4>2. Elements(topic') = Elements(topic) \cup {held[h]}
        BY <3>3, <2>0, <4>1, AppendFacts DEF SendAcked, TypeOK
      <4>3. InHand' \subseteq InHand
        BY <3>3, <2>0 DEF SendAcked, InHand, TypeOK
      <4>4. Made' \subseteq Made
        BY <3>3, <4>1, <4>2, <4>3 DEF SendAcked, Made
      <4>. QED BY <3>3, <4>4, RecordInvCopies DEF SendAcked, callerVars
    <3>4. CASE SendAckLost(h)
      <4>1. Elements(topic') = Elements(topic) \cup {held[h]}
        BY <3>4, <2>0, FailedSendKeeps, AppendFacts DEF SendAckLost, TypeOK
      <4>2. Made' \subseteq Made
        BY <3>4, <2>0, <4>1, FailedSendKeeps DEF SendAckLost, Made
      <4>. QED BY <3>4, <2>0, <4>2, FailedSendKeeps, RecordInvCopies
    <3>5. CASE SendLost(h) \/ SendLate(h)
      <4>1. Made' \subseteq Made
        BY <3>5, <2>0, FailedSendKeeps DEF SendLost, SendLate, Made, kafkaVars
      <4>. QED BY <3>5, <2>0, <4>1, FailedSendKeeps, RecordInvCopies
    <3>. QED BY <2>3, <3>1, <3>2, <3>3, <3>4, <3>5 DEF HandlerStep
  <2>4. ASSUME NEW m \in late, LateAppend(m)
        PROVE  RecordInv'
    <3>1. Elements(topic') = Elements(topic) \cup {m}
      BY <2>4, <2>0, AppendFacts DEF LateAppend, TypeOK
    <3>2. Made' \subseteq Made
      BY <2>4, <3>1 DEF LateAppend, Made, InHand, handlerVars
    <3>. QED BY <2>4, <3>2, RecordInvCopies DEF LateAppend, callerVars, handlerVars
  <2>5. CASE BrokerDown \/ BrokerBack
    <3>1. UNCHANGED recordVars
      BY <2>5 DEF BrokerDown, BrokerBack, recordVars, callerVars, handlerVars, InHand
    <3>. QED BY <3>1, RecordInvFrame
  <2>6. CASE Crash
    <3>1. /\ chan' = <<>> /\ accepted' = accepted /\ cnt' = cnt /\ nextId' = nextId
          /\ pc' = [c \in Callers |-> "idle"]
          /\ InHand' = {} /\ Made' \subseteq Made
      BY <2>6 DEF Crash, InHand, Made, kafkaVars
    <3>2. /\ Len(accepted) \in Nat /\ Len(chan) \in Nat
          /\ Len(chan') = 0 /\ Len(chan) <= Len(accepted)
      BY <2>0, <3>1, LenProperties, EmptySeq DEF TypeOK, RecordInv, ChanSuffix
    <3>3. 1..Taken \subseteq 1..Taken'
      BY <3>1, <3>2 DEF Taken
    <3>4. ChanSuffix' /\ AcceptedOnce'
      BY <3>1, <3>2 DEF RecordInv, ChanSuffix, AcceptedOnce
    <3>5. AcceptedCounted'
      <4>1. \A i \in 1..Len(accepted) : accepted[i] \in Logs
        BY <2>0, ElementOfSeq DEF TypeOK
      <4>2. \A i \in 1..Len(accepted) : accepted[i].caller \in Callers
        BY <4>1 DEF Logs
      <4>. QED BY <3>1, <4>2 DEF RecordInv, AcceptedCounted
    <3>6. MadeFromTaken' /\ OneId'
      BY <3>1, <3>3 DEF RecordInv, MadeFromTaken, OneId
    <3>. QED BY <3>4, <3>5, <3>6 DEF RecordInv
  <2>7. CASE UNCHANGED vars
    <3>1. UNCHANGED recordVars
      BY <2>7 DEF vars, recordVars, InHand
    <3>. QED BY <3>1, RecordInvFrame
  <2>. QED BY <2>1, <2>2, <2>3, <2>4, <2>5, <2>6, <2>7 DEF Next
<1>. QED BY <1>1, <1>2, TypeInvariant, PTL DEF Spec

(* Consumers can remove duplicates by the ID alone.  (audit.go:207-216.)   *)
THEOREM DedupKeySafe == Spec => []DedupKey
<1>1. RecordInv => DedupKey
  BY DEF RecordInv, OneId, Made, Elements, DedupKey
<1>. QED BY <1>1, RecordInvariant, PTL

----------------------------------------------------------------------------
(* No record is forgotten *)

(* The records of the topic after one more write.                          *)
LEMMA OnTopicAppend ==
  ASSUME TypeOK, NEW m \in Requests, topic' = Append(topic, m)
  PROVE  OnTopic' = OnTopic \cup {m.log}
<1>1. /\ Len(topic) \in Nat /\ DOMAIN topic = 1..Len(topic)
      /\ DOMAIN topic' = 1..(Len(topic) + 1)
      /\ \A k \in 1..Len(topic) : topic'[k] = topic[k]
      /\ topic'[Len(topic) + 1] = m
  BY AppendFacts DEF TypeOK
<1>2. \A x \in OnTopic' : x \in OnTopic \cup {m.log}
  BY <1>1 DEF OnTopic
<1>3. \A x \in OnTopic \cup {m.log} : x \in OnTopic'
  BY <1>1 DEF OnTopic
<1>. QED BY <1>2, <1>3

(* An accepted record waits, is in hand, on the topic, or was lost in a    *)
(* crash.  (audit.go:203-262.)                                             *)
THEOREM AccountedSafe == Spec => []Accounted
<1>1. Init => Accounted
  BY EmptySeq DEF Init, Accounted, Elements
<1>2. TypeInv /\ Accounted /\ [Next]_vars => Accounted'
  <2>. SUFFICES ASSUME TypeInv, Accounted, [Next]_vars
                PROVE  Accounted'
    OBVIOUS
  <2>0. TypeOK
    BY DEF TypeInv
  <2>. USE DEF HeldLogs
  <2>1. ASSUME UNCHANGED <<chan, accepted>>, HeldLogs \subseteq HeldLogs',
               OnTopic \subseteq OnTopic', lost \subseteq lost'
        PROVE  Accounted'
    BY <2>1 DEF Accounted
  <2>2. ASSUME NEW c \in Callers, Enqueue(c)
        PROVE  Accounted'
    <3>1. /\ chan \in Seq(Logs) /\ accepted \in Seq(Logs) /\ Current(c) \in Logs
          /\ chan' = Append(chan, Current(c)) /\ accepted' = Append(accepted, Current(c))
          /\ InHand' = InHand /\ OnTopic' = OnTopic /\ lost' = lost
      BY <2>2 DEF Enqueue, TypeInv, TypeOK, SendingCounted, Current, Logs, handlerVars,
                  kafkaVars, InHand, OnTopic
    <3>2. /\ Elements(chan') = Elements(chan) \cup {Current(c)}
          /\ Elements(accepted') = Elements(accepted) \cup {Current(c)}
      BY <3>1, AppendFacts
    <3>. QED BY <3>1, <3>2 DEF Accounted
  <2>3. ASSUME NEW h \in Handlers, Receive(h)
        PROVE  Accounted'
    <3>. DEFINE m == [log |-> Head(chan), id |-> nextId]
    <3>1. /\ chan \in Seq(Logs) /\ chan # <<>> /\ chan' = Tail(chan)
          /\ hpc[h] = "receive" /\ held' = [held EXCEPT ![h] = m]
          /\ UNCHANGED <<accepted, lost, topic>>
      BY <2>3, <2>0 DEF Receive, TypeOK, kafkaVars
    <3>2. Head(chan) \in Logs /\ Elements(chan) = Elements(chan') \cup {Head(chan)}
      BY <3>1, HeadTailFacts
    <3>3. m \in Requests /\ m # NoLog /\ m.log = Head(chan)
      BY <3>2, <2>0, ConstantsAssumption DEF Requests, TypeOK, ConstantsAssumption
    <3>. HIDE DEF m
    <3>4. held[h] = NoLog
      BY <2>0, <3>1 DEF TypeOK
    <3>5. InHand \cup {m} \subseteq InHand'
      BY <2>0, <3>1, <3>3, <3>4 DEF InHand, TypeOK
    <3>6. HeldLogs \cup {Head(chan)} \subseteq HeldLogs' /\ OnTopic' = OnTopic
      BY <3>1, <3>3, <3>5 DEF OnTopic
    <3>. QED BY <3>1, <3>2, <3>6 DEF Accounted
  <2>4. ASSUME NEW h \in Handlers, SendAcked(h)
        PROVE  Accounted'
    <3>1. held[h] \in Requests /\ OnTopic' = OnTopic \cup {held[h].log}
      BY <2>4, <2>0, HeldRequest, OnTopicAppend DEF SendAcked
    <3>2. InHand \subseteq InHand' \cup {held[h]}
      BY <2>4, <2>0 DEF SendAcked, InHand, TypeOK
    <3>. QED BY <2>4, <3>1, <3>2 DEF SendAcked, Accounted
  <2>5. ASSUME NEW h \in Handlers, SendAckLost(h) \/ SendLost(h) \/ SendLate(h)
        PROVE  Accounted'
    <3>1. OnTopic \subseteq OnTopic'
      <4>1. CASE SendAckLost(h)
        BY <4>1, <2>0, FailedSendKeeps, OnTopicAppend DEF SendAckLost
      <4>2. CASE SendLost(h) \/ SendLate(h)
        BY <4>2 DEF SendLost, SendLate, kafkaVars, OnTopic
      <4>. QED BY <2>5, <4>1, <4>2
    <3>. QED BY <2>0, <2>5, <3>1, <2>1, FailedSendKeeps
  <2>6. ASSUME NEW h \in Handlers,
               InitAudit(h) \/ ConnectOk(h) \/ ConnectFail(h) \/ ConnectWake(h) \/ SendWake(h)
        PROVE  Accounted'
    BY <2>6, <2>1 DEF InitAudit, ConnectOk, ConnectFail, ConnectWake, SendWake, kafkaVars,
                      InHand, OnTopic
  <2>7. ASSUME NEW m \in late, LateAppend(m)
        PROVE  Accounted'
    <3>1. m \in Requests /\ OnTopic \subseteq OnTopic'
      BY <2>7, <2>0, OnTopicAppend DEF LateAppend, TypeOK
    <3>. QED BY <2>7, <3>1, <2>1 DEF LateAppend, handlerVars, InHand
  <2>8. CASE Crash
    <3>1. /\ Elements(chan) \cup HeldLogs \cup lost \subseteq lost'
          /\ accepted' = accepted /\ OnTopic' = OnTopic
      BY <2>8 DEF Crash, kafkaVars, OnTopic
    <3>. QED BY <3>1 DEF Accounted
  <2>9. CASE (\E c \in Callers : NewLog(c)) \/ BrokerDown \/ BrokerBack \/ UNCHANGED vars
    BY <2>9, <2>1 DEF NewLog, BrokerDown, BrokerBack, vars, handlerVars, kafkaVars, InHand, OnTopic
  <2>. QED BY <2>2, <2>3, <2>4, <2>5, <2>6, <2>7, <2>8, <2>9 DEF Next, HandlerStep
<1>. QED BY <1>1, <1>2, TypeInvariant, PTL DEF Spec

----------------------------------------------------------------------------
(* Order *)

(* A record is settled when a crash dropped it or a copy is on the topic.  *)
Settled == lost \cup OnTopic

Before(s, j) == {s[i] : i \in 1..(j - 1)}
Written(s, k) == {s[l].log : l \in 1..(k - 1)}

(* Fewer records than there are handlers.                                  *)
Few(S) == IsFiniteSet(S) /\ Cardinality(S) < Cardinality(Handlers)

(* Records taken from the channel are settled, but for those in hand.      *)
TakenSettled == \A i \in 1..Taken : accepted[i] \in Settled \cup HeldLogs

(* A request that may still be written finds its predecessors settled, but *)
(* for as many as the other handlers can have in hand.                     *)
WritableInTime ==
  \A m \in late \cup InHand : \A j \in 1..Len(accepted) :
    accepted[j] = m.log => Few(Before(accepted, j) \ Settled)

(* So it was with those on the topic when they were written.               *)
WrittenInTime ==
  \A k \in 1..Len(topic) : \A j \in 1..Len(accepted) :
    topic[k].log = accepted[j] =>
      Few(Before(accepted, j) \ (lost \cup Written(topic, k)))

WindowInv ==
  /\ TakenSettled
  /\ WritableInTime
  /\ WrittenInTime

(* No more of a set that has few.                                          *)
LEMMA FewSubset ==
  ASSUME NEW S, Few(S), NEW T \in SUBSET S
  PROVE  Few(T)
<1>1. /\ IsFiniteSet(T) /\ Cardinality(T) <= Cardinality(S)
      /\ Cardinality(S) < Cardinality(Handlers) /\ IsFiniteSet(S)
  BY FS_Subset DEF Few
<1>2. /\ Cardinality(T) \in Nat /\ Cardinality(S) \in Nat /\ Cardinality(Handlers) \in Nat
  BY <1>1, FS_CardinalityType, FiniteAssumption DEF FiniteAssumption
<1>. QED BY <1>1, <1>2 DEF Few

(* While a handler is free the others have fewer records in hand than      *)
(* there are handlers.  (audit.go:203-262: one record at a time.)          *)
LEMMA FreeHandlerFew ==
  ASSUME NEW h \in Handlers, held[h] = NoLog
  PROVE  Few(HeldLogs)
<1>. DEFINE busy == {g \in Handlers : held[g] # NoLog}
            f == [g \in busy |-> held[g].log]
<1>1. IsFiniteSet(Handlers) /\ busy \in SUBSET Handlers /\ h \notin busy
  BY FiniteAssumption DEF FiniteAssumption
<1>2. IsFiniteSet(busy) /\ Cardinality(busy) < Cardinality(Handlers)
  <2>1. IsFiniteSet(busy) /\ IsFiniteSet(busy \cup {h}) /\ busy \cup {h} \in SUBSET Handlers
    BY <1>1, FS_Subset
  <2>2. Cardinality(busy \cup {h}) = Cardinality(busy) + 1
    BY <1>1, <2>1, FS_AddElement
  <2>3. Cardinality(busy \cup {h}) <= Cardinality(Handlers)
    BY <1>1, <2>1, FS_Subset
  <2>4. Cardinality(busy) \in Nat /\ Cardinality(Handlers) \in Nat
    BY <1>1, <2>1, FS_CardinalityType
  <2>. QED BY <2>1, <2>2, <2>3, <2>4
<1>3. f \in Surjection(busy, HeldLogs)
  BY DEF Surjection, HeldLogs, InHand
<1>4. IsFiniteSet(HeldLogs) /\ Cardinality(HeldLogs) <= Cardinality(busy)
  BY <1>2, <1>3, FS_Surjection
<1>. HIDE DEF busy
<1>5. /\ Cardinality(busy) \in Nat /\ Cardinality(Handlers) \in Nat
      /\ Cardinality(HeldLogs) \in Nat
  BY <1>1, <1>2, <1>4, FS_CardinalityType
<1>. QED BY <1>2, <1>4, <1>5 DEF Few

(* A step that makes no write, takes no record and changes no history      *)
(* preserves the invariant.                                                *)
LEMMA WindowFrame ==
  ASSUME WindowInv, UNCHANGED <<chan, held, accepted, lost, topic>>,
         late' \subseteq late \cup InHand
  PROVE  WindowInv'
<1>1. /\ Settled' = Settled /\ Taken' = Taken /\ InHand' = InHand /\ HeldLogs' = HeldLogs
      /\ late' \cup InHand' \subseteq late \cup InHand
  BY DEF Settled, OnTopic, Taken, InHand, HeldLogs
<1>. QED BY <1>1 DEF WindowInv, TakenSettled, WritableInTime, WrittenInTime

(* A write of a request that finds all but few of its predecessors settled *)
(* preserves it.  (audit.go:256.)                                          *)
LEMMA WindowWrite ==
  ASSUME TypeOK, WindowInv, NEW m \in late \cup InHand, m \in Requests,
         topic' = Append(topic, m), late' \subseteq late, InHand' \subseteq InHand,
         HeldLogs \subseteq HeldLogs' \cup {m.log},
         UNCHANGED <<chan, accepted, lost>>
  PROVE  WindowInv'
<1>1. /\ Len(topic) \in Nat /\ Len(topic') = Len(topic) + 1
      /\ DOMAIN topic = 1..Len(topic)
      /\ \A k \in 1..Len(topic) : topic'[k] = topic[k]
      /\ topic'[Len(topic) + 1] = m
  BY AppendFacts DEF TypeOK
<1>2. Settled' = Settled \cup {m.log} /\ Taken' = Taken
  BY OnTopicAppend DEF Settled, Taken
<1>3. TakenSettled'
  BY <1>2 DEF WindowInv, TakenSettled
<1>4. WritableInTime'
  <2>. SUFFICES ASSUME NEW p \in late \cup InHand, NEW j \in 1..Len(accepted),
                       accepted[j] = p.log
                PROVE  Few(Before(accepted, j) \ Settled')
    BY DEF WritableInTime
  <2>1. Few(Before(accepted, j) \ Settled)
    BY DEF WindowInv, WritableInTime
  <2>2. (Before(accepted, j) \ Settled') \in SUBSET (Before(accepted, j) \ Settled)
    BY <1>2
  <2>. QED BY <2>1, <2>2, FewSubset
<1>5. WrittenInTime'
  <2>. SUFFICES ASSUME NEW k \in 1..Len(topic'), NEW j \in 1..Len(accepted),
                       topic'[k].log = accepted[j]
                PROVE  Few(Before(accepted, j) \ (lost \cup Written(topic', k)))
    BY DEF WrittenInTime
  <2>1. CASE k = Len(topic) + 1
    <3>1. OnTopic = Written(topic', k)
      BY <1>1, <2>1 DEF OnTopic, Written
    <3>2. Few(Before(accepted, j) \ Settled)
      BY <1>1, <2>1 DEF WindowInv, WritableInTime
    <3>. QED BY <3>1, <3>2 DEF Settled
  <2>2. CASE k # Len(topic) + 1
    <3>1. k \in 1..Len(topic) /\ topic'[k] = topic[k]
      BY <1>1, <2>2
    <3>2. Written(topic', k) = Written(topic, k)
      <4>1. \A l \in 1..(k - 1) : topic'[l] = topic[l]
        BY <1>1, <3>1
      <4>. QED BY <4>1 DEF Written
    <3>. QED BY <3>1, <3>2 DEF WindowInv, WrittenInTime
  <2>. QED BY <2>1, <2>2
<1>. QED BY <1>3, <1>4, <1>5 DEF WindowInv

(* The channel takes a record of which there is no request.                *)
LEMMA WindowEnqueue ==
  ASSUME TypeInv, RecordInv, RecordInv', WindowInv, NEW c \in Callers, Enqueue(c)
  PROVE  WindowInv'
<1>. DEFINE r == Current(c)
<1>1. /\ chan \in Seq(Logs) /\ accepted \in Seq(Logs)
      /\ r \in Logs /\ chan' = Append(chan, r) /\ accepted' = Append(accepted, r)
      /\ UNCHANGED <<held, topic, late, lost, InHand, HeldLogs, Made, OnTopic, Settled>>
  BY DEF Enqueue, TypeInv, TypeOK, SendingCounted, Current, Logs, handlerVars,
         kafkaVars, InHand, HeldLogs, Made, OnTopic, Settled
<1>. HIDE DEF r
<1>2. /\ Len(chan) \in Nat /\ Len(chan') = Len(chan) + 1
      /\ Len(accepted) \in Nat /\ Len(accepted') = Len(accepted) + 1
      /\ \A i \in 1..Len(accepted) : accepted'[i] = accepted[i]
      /\ accepted'[Len(accepted) + 1] = r
  BY <1>1, AppendFacts
<1>3. Taken' = Taken /\ Taken \in Nat /\ Taken <= Len(accepted)
  BY <1>2 DEF Taken, RecordInv, ChanSuffix
<1>4. \A m \in Made : m.log # r
  <2>1. AcceptedOnce'
    BY DEF RecordInv
  <2>2. \A j \in 1..Len(accepted) : accepted[j] # r
    BY <1>2, <2>1 DEF AcceptedOnce
  <2>3. \A m \in Made : \E j \in 1..Taken : m.log = accepted[j]
    BY DEF RecordInv, MadeFromTaken
  <2>. QED BY <1>3, <2>2, <2>3
<1>5. ASSUME NEW m \in Made, NEW j \in 1..Len(accepted'), accepted'[j] = m.log
      PROVE  /\ j \in 1..Len(accepted) /\ accepted[j] = m.log
             /\ Before(accepted', j) = Before(accepted, j)
  <2>1. j \in 1..Len(accepted) /\ accepted[j] = m.log
    BY <1>2, <1>4, <1>5
  <2>2. \A i \in 1..(j - 1) : accepted'[i] = accepted[i]
    BY <1>2, <2>1
  <2>. QED BY <2>1, <2>2 DEF Before
<1>6. TakenSettled'
  BY <1>1, <1>2, <1>3 DEF WindowInv, TakenSettled
<1>7. WritableInTime'
  <2>. SUFFICES ASSUME NEW m \in late \cup InHand, NEW j \in 1..Len(accepted'),
                       accepted'[j] = m.log
                PROVE  Few(Before(accepted', j) \ Settled)
    BY <1>1 DEF WritableInTime
  <2>1. m \in Made
    BY DEF Made
  <2>. QED BY <1>5, <2>1 DEF WindowInv, WritableInTime
<1>8. WrittenInTime'
  <2>. SUFFICES ASSUME NEW k \in 1..Len(topic), NEW j \in 1..Len(accepted'),
                       topic[k].log = accepted'[j]
                PROVE  Few(Before(accepted', j) \ (lost \cup Written(topic, k)))
    BY <1>1 DEF WrittenInTime
  <2>1. topic[k] \in Made
    BY LenProperties DEF Made, Elements, TypeInv, TypeOK
  <2>. QED BY <1>5, <2>1 DEF WindowInv, WrittenInTime
<1>. QED BY <1>6, <1>7, <1>8 DEF WindowInv

(* A handler that takes the next record finds the others' in hand, and the *)
(* rest settled.  (audit.go:204.)                                          *)
LEMMA WindowReceive ==
  ASSUME TypeInv, RecordInv, WindowInv, NEW h \in Handlers, Receive(h)
  PROVE  WindowInv'
<1>. DEFINE m == [log |-> Head(chan), id |-> nextId]
<1>0. TypeOK /\ chan \in Seq(Logs) /\ accepted \in Seq(Logs)
  BY DEF TypeInv, TypeOK
<1>1. /\ hpc[h] = "receive" /\ chan # <<>> /\ chan' = Tail(chan)
      /\ held' = [held EXCEPT ![h] = m]
      /\ UNCHANGED <<topic, late, accepted, lost, OnTopic, Settled>>
  BY DEF Receive, kafkaVars, OnTopic, Settled
<1>2. /\ Head(chan) = chan[1] /\ Len(chan) \in Nat \ {0} /\ Len(chan') = Len(chan) - 1
      /\ Head(chan) \in Logs /\ Len(accepted) \in Nat /\ Len(chan) <= Len(accepted)
  BY <1>0, <1>1, HeadTailFacts, LenProperties DEF RecordInv, ChanSuffix
<1>3. Taken \in Nat /\ Taken' = Taken + 1 /\ Taken + 1 \in 1..Len(accepted)
  BY <1>1, <1>2 DEF Taken
<1>4. m.log = accepted[Taken + 1]
  BY <1>2, <1>3 DEF RecordInv, ChanSuffix
<1>5. m # NoLog
  BY <1>0, <1>2, ConstantsAssumption DEF TypeOK, Requests, ConstantsAssumption
<1>. HIDE DEF m
<1>6. held[h] = NoLog /\ held'[h] = m /\ \A g \in Handlers \ {h} : held'[g] = held[g]
  BY <1>0, <1>1 DEF TypeOK
<1>7. InHand' \subseteq InHand \cup {m} /\ HeldLogs \cup {m.log} \subseteq HeldLogs'
  BY <1>5, <1>6 DEF InHand, HeldLogs
<1>8. TakenSettled'
  <2>. SUFFICES ASSUME NEW i \in 1..(Taken + 1)
                PROVE  accepted[i] \in Settled \cup HeldLogs'
    BY <1>1, <1>3 DEF TakenSettled
  <2>1. CASE i = Taken + 1
    BY <1>4, <1>7, <2>1
  <2>2. CASE i \in 1..Taken
    BY <1>7, <2>2 DEF WindowInv, TakenSettled
  <2>. QED BY <1>3, <2>1, <2>2
<1>9. Few(Before(accepted, Taken + 1) \ Settled)
  <2>1. (Before(accepted, Taken + 1) \ Settled) \in SUBSET HeldLogs
    BY <1>3 DEF Before, WindowInv, TakenSettled
  <2>. QED BY <1>6, <2>1, FreeHandlerFew, FewSubset
<1>10. WritableInTime'
  <2>. SUFFICES ASSUME NEW p \in late \cup InHand \cup {m}, NEW j \in 1..Len(accepted),
                       accepted[j] = p.log
                PROVE  Few(Before(accepted, j) \ Settled)
    BY <1>1, <1>7 DEF WritableInTime
  <2>1. CASE p = m
    <3>1. j = Taken + 1
      BY <2>1, <1>3, <1>4 DEF RecordInv, AcceptedOnce
    <3>. QED BY <3>1, <1>9
  <2>2. CASE p \in late \cup InHand
    BY <2>2 DEF WindowInv, WritableInTime
  <2>. QED BY <2>1, <2>2
<1>11. WrittenInTime'
  BY <1>1 DEF WindowInv, WrittenInTime
<1>. QED BY <1>8, <1>10, <1>11 DEF WindowInv

(* A crash settles all that was accepted.  (audit.go:103: the channel is   *)
(* in memory.)                                                             *)
LEMMA WindowCrash ==
  ASSUME TypeInv, RecordInv, WindowInv, Crash
  PROVE  WindowInv'
<1>0. /\ chan \in Seq(Logs) /\ accepted \in Seq(Logs)
      /\ Len(chan) \in Nat /\ Len(accepted) \in Nat
  BY LenProperties DEF TypeInv, TypeOK
<1>1. /\ chan' = <<>> /\ UNCHANGED <<accepted, topic, late>> /\ InHand' = {}
      /\ Settled \cup Elements(chan) \cup HeldLogs \subseteq Settled'
      /\ lost \subseteq lost'
  BY DEF Crash, InHand, HeldLogs, Settled, OnTopic, kafkaVars
<1>2. \A i \in 1..Len(accepted) : accepted[i] \in Settled'
  <2>. SUFFICES ASSUME NEW i \in 1..Len(accepted)
                PROVE  accepted[i] \in Settled'
    OBVIOUS
  <2>1. CASE i \in 1..Taken
    BY <1>1, <2>1 DEF WindowInv, TakenSettled
  <2>2. CASE i \notin 1..Taken
    <3>1. i - Taken \in 1..Len(chan) /\ chan[i - Taken] = accepted[i]
      BY <1>0, <2>2 DEF RecordInv, ChanSuffix, Taken
    <3>2. accepted[i] \in Elements(chan)
      BY <1>0, <3>1, LenProperties DEF Elements
    <3>. QED BY <1>1, <3>2
  <2>. QED BY <2>1, <2>2
<1>3. Taken' = Len(accepted)
  BY <1>0, <1>1, EmptySeq DEF Taken
<1>4. TakenSettled'
  BY <1>1, <1>2, <1>3 DEF TakenSettled
<1>5. WritableInTime'
  <2>. SUFFICES ASSUME NEW m \in late, NEW j \in 1..Len(accepted), accepted[j] = m.log
                PROVE  Few(Before(accepted, j) \ Settled')
    BY <1>1 DEF WritableInTime
  <2>1. Few(Before(accepted, j) \ Settled)
    BY DEF WindowInv, WritableInTime
  <2>2. (Before(accepted, j) \ Settled') \in SUBSET (Before(accepted, j) \ Settled)
    BY <1>1
  <2>. QED BY <2>1, <2>2, FewSubset
<1>6. WrittenInTime'
  <2>. SUFFICES ASSUME NEW k \in 1..Len(topic), NEW j \in 1..Len(accepted),
                       topic[k].log = accepted[j]
                PROVE  Few(Before(accepted, j) \ (lost' \cup Written(topic, k)))
    BY <1>1 DEF WrittenInTime
  <2>1. Few(Before(accepted, j) \ (lost \cup Written(topic, k)))
    BY DEF WindowInv, WrittenInTime
  <2>2. (Before(accepted, j) \ (lost' \cup Written(topic, k)))
          \in SUBSET (Before(accepted, j) \ (lost \cup Written(topic, k)))
    BY <1>1
  <2>. QED BY <2>1, <2>2, FewSubset
<1>. QED BY <1>4, <1>5, <1>6 DEF WindowInv

(* With any number of handlers, the first copy of a record finds on the    *)
(* topic all but fewer records accepted earlier than there are handlers,   *)
(* and with one handler all.  (audit.go:20, audit.go:203-262.)             *)
THEOREM FirstDeliveryOrderSafe == Spec => []FirstDeliveryOrder
<1>1. Init => WindowInv
  <2>. SUFFICES ASSUME Init PROVE WindowInv
    OBVIOUS
  <2>1. /\ Len(accepted) = 0 /\ Len(chan) = 0 /\ late = {} /\ InHand = {}
        /\ Len(topic) = 0
    BY EmptySeq DEF Init, InHand
  <2>. QED BY <2>1 DEF WindowInv, TakenSettled, WritableInTime, WrittenInTime, Taken
<1>2. TypeInv /\ RecordInv /\ RecordInv' /\ WindowInv /\ [Next]_vars => WindowInv'
  <2>. SUFFICES ASSUME TypeInv, RecordInv, RecordInv', WindowInv, [Next]_vars
                PROVE  WindowInv'
    OBVIOUS
  <2>0. TypeOK /\ late \subseteq Requests /\ InHand \subseteq Requests
    BY DEF TypeInv, TypeOK, InHand
  <2>1. ASSUME NEW c \in Callers, Enqueue(c)
        PROVE  WindowInv'
    BY <2>1, WindowEnqueue
  <2>2. ASSUME NEW h \in Handlers, Receive(h)
        PROVE  WindowInv'
    BY <2>2, WindowReceive
  <2>3. ASSUME NEW h \in Handlers, SendAcked(h)
        PROVE  WindowInv'
    <3>1. /\ held[h] \in Requests /\ held[h] # NoLog /\ held[h] \in InHand
          /\ topic' = Append(topic, held[h])
          /\ held' = [held EXCEPT ![h] = NoLog]
          /\ UNCHANGED <<chan, accepted, lost, late>>
      BY <2>0, <2>3, HeldRequest DEF SendAcked, InHand
    <3>2. held'[h] = NoLog /\ \A g \in Handlers \ {h} : held'[g] = held[g]
      BY <2>0, <3>1 DEF TypeOK
    <3>3. InHand' \subseteq InHand /\ InHand \subseteq InHand' \cup {held[h]}
      BY <3>1, <3>2 DEF InHand
    <3>4. HeldLogs \subseteq HeldLogs' \cup {held[h].log}
      BY <3>3 DEF HeldLogs
    <3>. QED BY <2>0, <3>1, <3>3, <3>4, WindowWrite
  <2>4. ASSUME NEW h \in Handlers, SendAckLost(h)
        PROVE  WindowInv'
    <3>1. /\ held[h] \in InHand /\ held[h] \in Requests /\ topic' = Append(topic, held[h])
          /\ UNCHANGED <<chan, held, accepted, lost, late, InHand, HeldLogs>>
      BY <2>0, <2>4, FailedSendKeeps DEF SendAckLost, HeldLogs
    <3>. QED BY <2>0, <3>1, WindowWrite
  <2>5. ASSUME NEW h \in Handlers, SendLost(h) \/ SendLate(h)
        PROVE  WindowInv'
    <3>1. /\ UNCHANGED <<chan, held, accepted, lost, topic>>
          /\ late' \subseteq late \cup InHand
      BY <2>0, <2>5, FailedSendKeeps DEF SendLost, SendLate, kafkaVars
    <3>. QED BY <3>1, WindowFrame
  <2>6. ASSUME NEW h \in Handlers,
               InitAudit(h) \/ ConnectOk(h) \/ ConnectFail(h) \/ ConnectWake(h) \/ SendWake(h)
        PROVE  WindowInv'
    BY <2>6, WindowFrame DEF InitAudit, ConnectOk, ConnectFail, ConnectWake, SendWake, kafkaVars
  <2>7. ASSUME NEW m \in late, LateAppend(m)
        PROVE  WindowInv'
    <3>1. /\ m \in Requests /\ topic' = Append(topic, m) /\ late' \subseteq late
          /\ UNCHANGED <<chan, held, accepted, lost, InHand, HeldLogs>>
      BY <2>0, <2>7 DEF LateAppend, handlerVars, InHand, HeldLogs
    <3>. QED BY <2>0, <3>1, WindowWrite
  <2>8. CASE Crash
    BY <2>8, WindowCrash
  <2>9. CASE (\E c \in Callers : NewLog(c)) \/ BrokerDown \/ BrokerBack \/ UNCHANGED vars
    BY <2>9, WindowFrame DEF NewLog, BrokerDown, BrokerBack, vars, handlerVars, kafkaVars
  <2>. QED BY <2>1, <2>2, <2>3, <2>4, <2>5, <2>6, <2>7, <2>8, <2>9 DEF Next, HandlerStep
<1>3. TypeInv /\ WindowInv => FirstDeliveryOrder
  <2>. SUFFICES ASSUME TypeInv, WindowInv, NEW j \in DOMAIN accepted, NEW k \in DOMAIN topic,
                       topic[k].log = accepted[j]
                PROVE  Cardinality(Before(accepted, j) \ (lost \cup Written(topic, k)))
                         < Cardinality(Handlers)
    BY DEF FirstDeliveryOrder, Before, Written
  <2>1. j \in 1..Len(accepted) /\ k \in 1..Len(topic)
    BY LenProperties DEF TypeInv, TypeOK
  <2>. QED BY <2>1 DEF WindowInv, WrittenInTime, Few
<1>. QED BY <1>1, <1>2, <1>3, TypeInvariant, RecordInvariant, PTL DEF Spec

----------------------------------------------------------------------------
(* A process that does not use Kafka *)

(* Nothing runs and nothing is sent; what was accepted is in the channel   *)
(* or was there when an earlier process ended.                             *)
OffInv ==
  mode # "kafka" =>
    /\ \A h \in Handlers : hpc[h] = "off"
    /\ topic = <<>> /\ late = {}
    /\ Len(accepted) <= Capacity * crashes + Len(chan)

(* Without Kafka, or in a unit test, a process accepts no more records     *)
(* than its channel holds, and sends none.  (audit.go:109, 158.)           *)
THEOREM OffModeBoundSafe == Spec => []OffModeBound
<1>. USE ConstantsAssumption DEF ConstantsAssumption
<1>1. Init => OffInv
  BY EmptySeq DEF Init, OffInv
<1>2. TypeInv /\ OffInv /\ [Next]_vars => OffInv'
  <2>. SUFFICES ASSUME TypeInv, OffInv, [Next]_vars, mode # "kafka"
                PROVE  OffInv'
    <3>1. mode # "kafka" \/ mode = "kafka"
      OBVIOUS
    <3>2. [Next]_vars => mode' = mode
      BY DEF Next, NewLog, Enqueue, HandlerStep, InitAudit, ConnectOk, ConnectFail, ConnectWake,
             Receive, SendAcked, AttemptFailed, SendAckLost, SendLost, SendLate, SendWake,
             LateAppend, BrokerDown, BrokerBack, Crash, vars
    <3>. QED BY <3>1, <3>2 DEF OffInv
  <2>. USE DEF TypeInv
  <2>1. /\ chan \in Seq(Logs) /\ accepted \in Seq(Logs) /\ crashes \in Nat /\ Capacity \in Nat
        /\ Len(chan) \in Nat /\ Len(accepted) \in Nat /\ Len(chan) <= Capacity
        /\ Capacity * crashes \in Nat
    BY LenProperties DEF TypeOK
  <2>2. ASSUME NEW c \in Callers, Enqueue(c)
        PROVE  OffInv'
    <3>1. Current(c) \in Logs
      BY <2>2 DEF Enqueue, TypeOK, SendingCounted, Current, Logs
    <3>2. Len(chan') = Len(chan) + 1 /\ Len(accepted') = Len(accepted) + 1
      BY <2>1, <2>2, <3>1, AppendFacts DEF Enqueue
    <3>. QED BY <2>1, <2>2, <3>2 DEF Enqueue, OffInv, handlerVars, kafkaVars
  <2>3. ASSUME NEW h \in Handlers, HandlerStep(h)
        PROVE  FALSE
    BY <2>3 DEF OffInv, HandlerStep, InitAudit, ConnectOk, ConnectFail, ConnectWake,
                Receive, SendAcked, AttemptFailed, SendAckLost, SendLost, SendLate, SendWake
  <2>4. CASE Crash
    <3>1. Capacity * (crashes + 1) = Capacity * crashes + Capacity
      BY <2>1
    <3>2. Len(accepted) <= Capacity * (crashes + 1) + Len(<<>>)
      BY <2>1, <3>1, EmptySeq DEF OffInv
    <3>. QED BY <2>4, <3>2 DEF Crash, OffInv, kafkaVars
  <2>5. ASSUME NEW m \in late, LateAppend(m)
        PROVE  FALSE
    BY <2>5 DEF OffInv
  <2>6. CASE (\E c \in Callers : NewLog(c)) \/ BrokerDown \/ BrokerBack \/ UNCHANGED vars
    BY <2>6 DEF OffInv, NewLog, BrokerDown, BrokerBack, vars, handlerVars, kafkaVars
  <2>. QED BY <2>2, <2>3, <2>4, <2>5, <2>6 DEF Next
<1>3. TypeInv /\ OffInv => OffModeBound
  <2>. SUFFICES ASSUME TypeInv, OffInv
                PROVE  OffModeBound
    OBVIOUS
  <2>1. /\ crashes \in Nat /\ Capacity \in Nat /\ Len(chan) \in Nat /\ Len(accepted) \in Nat
        /\ Len(chan) <= Capacity /\ Capacity * crashes \in Nat
    BY LenProperties DEF TypeInv, TypeOK
  <2>2. Capacity * (crashes + 1) = Capacity * crashes + Capacity
    BY <2>1
  <2>. QED BY <2>1, <2>2 DEF OffInv, OffModeBound
<1>. QED BY <1>1, <1>2, <1>3, TypeInvariant, PTL DEF Spec

----------------------------------------------------------------------------
(* What a crash can lose *)

(* A channel holds no more different records than its length.              *)
(* (audit.go:103.)                                                         *)
LEMMA ElementsBound ==
  ASSUME NEW S, NEW s \in Seq(S)
  PROVE  IsFiniteSet(Elements(s)) /\ Cardinality(Elements(s)) <= Len(s)
<1>1. Len(s) \in Nat /\ DOMAIN s = 1..Len(s)
  BY LenProperties
<1>2. s \in Surjection(1..Len(s), Elements(s))
  <2>1. s \in [1..Len(s) -> Elements(s)]
    BY <1>1 DEF Elements
  <2>2. \A e \in Elements(s) : \E i \in 1..Len(s) : s[i] = e
    BY <1>1 DEF Elements
  <2>. QED BY <2>1, <2>2 DEF Surjection
<1>3. IsFiniteSet(1..Len(s))
  BY <1>1, FS_Interval
<1>4. ExistsSurjection(1..Len(s), Elements(s))
  BY <1>2 DEF ExistsSurjection
<1>. QED BY <1>1, <1>2, <1>3, <1>4, FS_Surjection, FS_SurjCardinalityBound

(* The handlers hold no more records than there are handlers.              *)
(* (audit.go:203-262: one record at a time.)                               *)
LEMMA HeldBound ==
  IsFiniteSet(HeldLogs) /\ Cardinality(HeldLogs) <= Cardinality(Handlers)
<1>. DEFINE busy == {h \in Handlers : held[h] # NoLog}
            f == [h \in busy |-> held[h].log]
<1>1. IsFiniteSet(busy) /\ Cardinality(busy) <= Cardinality(Handlers)
  BY FS_Subset, FiniteAssumption DEF FiniteAssumption
<1>2. f \in Surjection(busy, HeldLogs)
  BY DEF Surjection, HeldLogs, InHand
<1>3. IsFiniteSet(HeldLogs) /\ Cardinality(HeldLogs) <= Cardinality(busy)
  BY <1>1, <1>2, FS_Surjection
<1>. HIDE DEF busy
<1>4. /\ Cardinality(busy) \in Nat /\ Cardinality(Handlers) \in Nat
      /\ Cardinality(HeldLogs) \in Nat
  BY <1>1, <1>3, FS_CardinalityType, FiniteAssumption DEF FiniteAssumption
<1>. QED BY <1>1, <1>3, <1>4

(* A crash loses no more records than the channel and the handlers hold.   *)
(* (audit.go:103, 158.)                                                    *)
THEOREM LossBoundSafe == Spec => LossBound
<1>1. TypeInv /\ [Next]_vars => Cardinality(lost' \ lost) <= Capacity + Cardinality(Handlers)
  <2>. SUFFICES ASSUME TypeInv, [Next]_vars
                PROVE  Cardinality(lost' \ lost) <= Capacity + Cardinality(Handlers)
    OBVIOUS
  <2>1. /\ chan \in Seq(Logs) /\ Len(chan) \in Nat /\ Len(chan) <= Capacity
        /\ Capacity \in Nat /\ Cardinality(Handlers) \in Nat
    BY LenProperties, FS_CardinalityType, ConstantsAssumption, FiniteAssumption
    DEF TypeInv, TypeOK, ConstantsAssumption, FiniteAssumption
  <2>2. CASE Crash
    <3>. DEFINE gone == Elements(chan) \cup HeldLogs
    <3>1. (lost' \ lost) \in SUBSET gone
      BY <2>2 DEF Crash, HeldLogs
    <3>2. /\ IsFiniteSet(Elements(chan)) /\ Cardinality(Elements(chan)) <= Len(chan)
          /\ IsFiniteSet(HeldLogs) /\ Cardinality(HeldLogs) <= Cardinality(Handlers)
      BY <2>1, ElementsBound, HeldBound
    <3>3. /\ Cardinality(Elements(chan)) \in Nat /\ Cardinality(HeldLogs) \in Nat
          /\ Cardinality(Elements(chan) \cap HeldLogs) \in Nat
      BY <3>2, FS_CardinalityType, FS_Intersection
    <3>4. /\ IsFiniteSet(gone)
          /\ Cardinality(gone) = Cardinality(Elements(chan)) + Cardinality(HeldLogs)
                                   - Cardinality(Elements(chan) \cap HeldLogs)
      BY <3>2, FS_Union
    <3>5. /\ Cardinality(lost' \ lost) <= Cardinality(gone)
          /\ Cardinality(lost' \ lost) \in Nat
      BY <3>1, <3>4, FS_Subset, FS_CardinalityType
    <3>. HIDE DEF gone
    <3>. QED BY <2>1, <3>2, <3>3, <3>4, <3>5
  <2>3. CASE lost' = lost
    <3>1. lost' \ lost = {}
      BY <2>3
    <3>2. Cardinality(lost' \ lost) = 0
      BY <3>1, FS_EmptySet
    <3>. QED BY <2>1, <3>2
  <2>4. Crash \/ lost' = lost
    BY DEF Next, NewLog, Enqueue, HandlerStep, InitAudit, ConnectOk, ConnectFail, ConnectWake,
           Receive, SendAcked, SendAckLost, SendLost, SendLate, SendWake, LateAppend,
           BrokerDown, BrokerBack, vars
  <2>. QED BY <2>2, <2>3, <2>4
<1>. QED BY <1>1, TypeInvariant, PTL DEF Spec, LossBound

----------------------------------------------------------------------------
(* AuditPipeline implements AuditDelivery: the safety part of the delivery *)
(* promise, for any number of handlers. *)

(* A step that leaves the handlers, the channel, the history and the topic *)
(* alone, and abandons at most attempts of requests in hand, stutters.     *)
LEMMA RefinementStutter ==
  ASSUME UNCHANGED <<chan, held, accepted, topic>>, late \subseteq late',
         late' \subseteq late \cup InHand
  PROVE  UNCHANGED Delivery!vars
<1>1. UNCHANGED <<HeldLogs, OnTopic>> /\ Elements(accepted') = Elements(accepted)
  BY DEF InHand, HeldLogs, OnTopic
<1>2. {m.log : m \in late'} \subseteq {m.log : m \in late} \cup HeldLogs
  BY DEF HeldLogs
<1>3. AbsOrphans' = AbsOrphans
  BY <1>1, <1>2 DEF AbsOrphans
<1>. QED BY <1>1, <1>3 DEF Delivery!vars

(* What the refinement needs of the state.                                 *)
Good == TypeInv /\ RecordInv

(* The channel's step is the abstract Accept.  (audit.go:158.)             *)
LEMMA EnqueueAccepts ==
  ASSUME Good, RecordInv', NEW c \in Callers, Enqueue(c)
  PROVE  Delivery!Accept(Current(c)) /\ Current(c) \in Logs
<1>. DEFINE r == Current(c)
<1>1. /\ r \in Logs /\ accepted \in Seq(Logs) /\ Len(chan) < Capacity
      /\ chan' = Append(chan, r) /\ accepted' = Append(accepted, r)
      /\ UNCHANGED <<held, topic, late>>
  BY DEF Enqueue, Good, TypeInv, TypeOK, SendingCounted, Current, Logs, handlerVars, kafkaVars
<1>2. UNCHANGED <<HeldLogs, OnTopic, AbsOrphans>>
  BY <1>1 DEF InHand, HeldLogs, OnTopic, AbsOrphans
<1>. HIDE DEF r
<1>3. Elements(accepted') = Elements(accepted) \cup {r}
  BY <1>1, AppendFacts
<1>4. r \notin Elements(accepted)
  <2>1. /\ Len(accepted) \in Nat /\ Len(accepted') = Len(accepted) + 1
        /\ \A i \in 1..Len(accepted) : accepted'[i] = accepted[i]
        /\ accepted'[Len(accepted) + 1] = r /\ DOMAIN accepted = 1..Len(accepted)
    BY <1>1, AppendFacts
  <2>2. AcceptedOnce'
    BY DEF RecordInv
  <2>. QED BY <2>1, <2>2 DEF AcceptedOnce, Elements
<1>. QED BY <1>1, <1>2, <1>3, <1>4 DEF Delivery!Accept, r

(* A free handler that takes the oldest record gets it under way; there is *)
(* no request for it yet.  (audit.go:204-216.)                             *)
LEMMA ReceiveTakes ==
  ASSUME Good, NEW h \in Handlers, Receive(h)
  PROVE  Delivery!Take
<1>. DEFINE m == [log |-> Head(chan), id |-> nextId]
<1>1. /\ chan \in Seq(Logs) /\ chan # <<>> /\ chan' = Tail(chan)
      /\ held' = [held EXCEPT ![h] = m] /\ held \in [Handlers -> Requests \cup {NoLog}]
      /\ held[h] = NoLog /\ nextId \in Nat
      /\ UNCHANGED <<topic, late, accepted, OnTopic>>
  BY DEF Receive, Good, TypeInv, TypeOK, kafkaVars, OnTopic
<1>2. m # NoLog /\ m.log = Head(chan)
  BY <1>1, HeadTailFacts, ConstantsAssumption DEF ConstantsAssumption, Requests
<1>. HIDE DEF m
<1>3. InHand' = InHand \cup {m}
  <2>1. held'[h] = m /\ \A g \in Handlers \ {h} : held'[g] = held[g]
    BY <1>1
  <2>. QED BY <1>1, <1>2, <2>1 DEF InHand
<1>4. HeldLogs' = HeldLogs \cup {m.log}
  BY <1>3 DEF HeldLogs
<1>5. Cardinality(HeldLogs) < Cardinality(Handlers)
  BY <1>1, FreeHandlerFew DEF Few
<1>6. Delivery!Cardinality(HeldLogs) = Cardinality(HeldLogs)
  BY DEF Cardinality, Delivery!Cardinality
<1>7. \A p \in late : p.log # m.log
  <2>1. /\ Len(accepted) \in Nat /\ Len(chan) \in Nat \ {0} /\ Len(chan) <= Len(accepted)
        /\ Head(chan) = chan[1]
    BY <1>1, HeadTailFacts, LenProperties DEF Good, TypeInv, TypeOK, RecordInv, ChanSuffix
  <2>2. Taken \in Nat /\ Taken + 1 \in 1..Len(accepted) /\ m.log = accepted[Taken + 1]
    BY <2>1, <1>2 DEF Taken, Good, RecordInv, ChanSuffix
  <2>3. \A p \in late : \E j \in 1..Taken : p.log = accepted[j]
    BY DEF Good, RecordInv, MadeFromTaken, Made
  <2>. QED BY <2>1, <2>2, <2>3 DEF Good, RecordInv, AcceptedOnce
<1>8. AbsOrphans' = AbsOrphans
  BY <1>1, <1>4, <1>7 DEF AbsOrphans
<1>9. Elements(accepted') = Elements(accepted)
  BY <1>1
<1>10. HeldLogs' = HeldLogs \cup {Head(chan)}
  BY <1>2, <1>4
<1>11. chan # <<>> /\ chan' = Tail(chan) /\ OnTopic' = OnTopic
  BY <1>1
<1>. QED BY <1>5, <1>6, <1>8, <1>9, <1>10, <1>11 DEF Delivery!Take

(* A write of a request in hand is the abstract Deliver, whether the       *)
(* handler hears of it or not.  (audit.go:254-262.)                        *)
LEMMA SendDelivers ==
  ASSUME Good, NEW h \in Handlers, SendAcked(h) \/ SendAckLost(h)
  PROVE  held[h].log \in Logs /\ Delivery!Deliver(held[h].log)
<1>. DEFINE r == held[h].log
<1>0. TypeOK
  BY DEF Good, TypeInv
<1>1. /\ held[h] \in Requests /\ held[h] # NoLog /\ topic' = Append(topic, held[h])
      /\ held \in [Handlers -> Requests \cup {NoLog}]
      /\ UNCHANGED <<chan, accepted, late>>
  BY <1>0, HeldRequest DEF SendAcked, SendAckLost, AttemptFailed, TypeOK
<1>2. r \in Logs /\ held[h] \in InHand /\ r \in HeldLogs
  BY <1>1 DEF Requests, InHand, HeldLogs
<1>3. OnTopic' = OnTopic \cup {r}
  BY <1>0, <1>1, OnTopicAppend
<1>4. HeldLogs' \subseteq HeldLogs /\ HeldLogs \subseteq HeldLogs' \cup {r}
  <2>1. CASE SendAcked(h)
    <3>1. held'[h] = NoLog /\ \A g \in Handlers \ {h} : held'[g] = held[g]
      BY <1>1, <2>1 DEF SendAcked
    <3>2. InHand' \subseteq InHand /\ InHand \subseteq InHand' \cup {held[h]}
      BY <3>1 DEF InHand
    <3>. QED BY <3>2 DEF HeldLogs
  <2>2. CASE SendAckLost(h)
    <3>1. held' = held
      BY <2>2 DEF SendAckLost, AttemptFailed
    <3>. QED BY <3>1 DEF InHand, HeldLogs
  <2>. QED BY <2>1, <2>2
<1>. HIDE DEF r
<1>5. HeldLogs' \in {HeldLogs, HeldLogs \ {r}}
  BY <1>4
<1>6. AbsOrphans' = AbsOrphans
  <2>1. OnTopic' \cup HeldLogs' = OnTopic \cup HeldLogs
    BY <1>2, <1>3, <1>4
  <2>. QED BY <1>1, <2>1 DEF AbsOrphans
<1>7. Elements(accepted') = Elements(accepted)
  BY <1>1
<1>8. Delivery!Deliver(r)
  BY <1>1, <1>2, <1>3, <1>5, <1>6, <1>7 DEF Delivery!Deliver
<1>. QED BY <1>2, <1>8 DEF r

(* A late write delivers a request in hand, or an orphan of a crash, or    *)
(* repeats a copy.                                                         *)
LEMMA LateDelivers ==
  ASSUME Good, NEW m \in late, LateAppend(m)
  PROVE  /\ m.log \in Logs
         /\ \/ Delivery!Deliver(m.log)
            \/ Delivery!DeliverOrphan(m.log)
            \/ UNCHANGED Delivery!vars
<1>0. TypeOK
  BY DEF Good, TypeInv
<1>1. /\ m \in Requests /\ topic' = Append(topic, m) /\ late' \in {late, late \ {m}}
      /\ UNCHANGED <<chan, held, accepted>>
  BY <1>0 DEF LateAppend, TypeOK, handlerVars
<1>2. UNCHANGED HeldLogs /\ Elements(accepted') = Elements(accepted)
  BY <1>1 DEF InHand, HeldLogs
<1>3. OnTopic' = OnTopic \cup {m.log} /\ m.log \in Logs
  BY <1>0, <1>1, OnTopicAppend DEF Requests
<1>4. AbsOrphans' = AbsOrphans \ {m.log}
  BY <1>1, <1>2, <1>3 DEF AbsOrphans
<1>5. CASE m.log \in HeldLogs
  <2>1. AbsOrphans' = AbsOrphans
    BY <1>4, <1>5 DEF AbsOrphans
  <2>. QED BY <1>1, <1>2, <1>3, <1>5, <2>1 DEF Delivery!Deliver
<1>6. CASE m.log \notin HeldLogs /\ m.log \in OnTopic
  <2>1. OnTopic' = OnTopic /\ AbsOrphans' = AbsOrphans
    BY <1>3, <1>4, <1>6 DEF AbsOrphans
  <2>. QED BY <1>1, <1>2, <1>3, <2>1 DEF Delivery!vars
<1>7. CASE m.log \notin HeldLogs /\ m.log \notin OnTopic
  <2>1. m.log \in AbsOrphans
    BY <1>7 DEF AbsOrphans
  <2>. QED BY <1>1, <1>2, <1>3, <1>4, <2>1 DEF Delivery!DeliverOrphan
<1>. QED BY <1>5, <1>6, <1>7

(* A crash is the abstract crash: only a request in hand can be orphaned.  *)
LEMMA CrashForgets ==
  ASSUME Good, Crash
  PROVE  Delivery!Crash
<1>1. /\ chan' = <<>> /\ HeldLogs' = {} /\ UNCHANGED <<accepted, topic, late, OnTopic>>
  BY DEF Crash, InHand, HeldLogs, OnTopic, kafkaVars
<1>. DEFINE flying == {r \in HeldLogs : r \notin OnTopic /\ \E m \in late : m.log = r}
<1>2. AbsOrphans' = AbsOrphans \cup flying /\ flying \in SUBSET HeldLogs
  BY <1>1 DEF AbsOrphans
<1>3. Elements(accepted') = Elements(accepted)
  BY <1>1
<1>. HIDE DEF flying
<1>. QED BY <1>1, <1>2, <1>3 DEF Delivery!Crash

(* Every step is a step of the promise or leaves what it speaks of alone.  *)
LEMMA StepRefines ==
  ASSUME Good, RecordInv', [Next]_vars
  PROVE  [Delivery!Next]_(Delivery!vars)
<1>0. TypeOK
  BY DEF Good, TypeInv
<1>1. ASSUME NEW c \in Callers, Enqueue(c)
      PROVE  Delivery!Next
  BY <1>1, EnqueueAccepts DEF Delivery!Next
<1>2. ASSUME NEW h \in Handlers, Receive(h)
      PROVE  Delivery!Next
  BY <1>2, ReceiveTakes DEF Delivery!Next
<1>3. ASSUME NEW h \in Handlers, SendAcked(h) \/ SendAckLost(h)
      PROVE  Delivery!Next
  BY <1>3, SendDelivers DEF Delivery!Next
<1>4. ASSUME NEW h \in Handlers, SendLost(h) \/ SendLate(h)
      PROVE  UNCHANGED Delivery!vars
  <2>1. /\ UNCHANGED <<chan, held, accepted, topic>>
        /\ late \subseteq late' /\ late' \subseteq late \cup InHand
    BY <1>0, <1>4, FailedSendKeeps DEF SendLost, SendLate, kafkaVars
  <2>. QED BY <2>1, RefinementStutter
<1>5. ASSUME NEW h \in Handlers,
             InitAudit(h) \/ ConnectOk(h) \/ ConnectFail(h) \/ ConnectWake(h) \/ SendWake(h)
      PROVE  UNCHANGED Delivery!vars
  BY <1>5, RefinementStutter
  DEF InitAudit, ConnectOk, ConnectFail, ConnectWake, SendWake, kafkaVars
<1>6. ASSUME NEW m \in late, LateAppend(m)
      PROVE  [Delivery!Next]_(Delivery!vars)
  BY <1>6, LateDelivers DEF Delivery!Next
<1>7. CASE Crash
  BY <1>7, CrashForgets DEF Delivery!Next
<1>8. CASE (\E c \in Callers : NewLog(c)) \/ BrokerDown \/ BrokerBack \/ UNCHANGED vars
  BY <1>8, RefinementStutter DEF NewLog, BrokerDown, BrokerBack, vars, handlerVars, kafkaVars
<1>. QED BY <1>1, <1>2, <1>3, <1>4, <1>5, <1>6, <1>7, <1>8 DEF Next, HandlerStep

(* The audit package gives at-least-once delivery: records are taken in    *)
(* the order of acceptance, and no more of them are under way than there   *)
(* are handlers.  (audit.go:198-262.)                                      *)
THEOREM DeliveryImplemented == Spec => ImplementsDelivery
<1>1. Init => Delivery!Init
  <2>. SUFFICES ASSUME Init PROVE Delivery!Init
    OBVIOUS
  <2>1. /\ chan = <<>> /\ HeldLogs = {} /\ late = {} /\ OnTopic = {}
        /\ Elements(accepted) = {}
    BY DEF Init, InHand, HeldLogs, OnTopic, Elements
  <2>. QED BY <2>1 DEF Delivery!Init, AbsOrphans
<1>2. TypeInv /\ RecordInv /\ RecordInv' /\ [Next]_vars => [Delivery!Next]_(Delivery!vars)
  BY StepRefines DEF Good
<1>. QED BY <1>1, <1>2, TypeInvariant, RecordInvariant, PTL DEF Spec, ImplementsDelivery, Delivery!Spec
==============================================================================
