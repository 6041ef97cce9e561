---------------------------- MODULE AuditPipeline ----------------------------
(***************************************************************************)
(* audit/audit.go: callers of NewInfoLog, NewWarnLog and                   *)
(* NewWarnLogWithError push records into the buffered channel auditLogChan;*)
(* every Init starts a goroutine that connects to Kafka, then takes one    *)
(* record at a time, gives it an ID and sends it until Kafka acknowledges. *)
(*                                                                         *)
(* Kafka and the sarama client are external: an attempt to send may be     *)
(* acknowledged, be written with its answer lost, be lost, or be abandoned *)
(* by the client while the broker still may write it later.                *)
(*                                                                         *)
(* Left out: the text of a record (only its caller and its rank among the  *)
(* caller's records matter), the partitions of the topic (topic lists the  *)
(* writes of all partitions in the order they happen; the partitioner is   *)
(* random, so a reader of several partitions sees less order than this),   *)
(* the marshalling of a record (it cannot fail for an AuditLog), and       *)
(* auditProducer, which hpc tells: it is set when a handler has left       *)
(* "connect" for "receive" and is never cleared while the process lives.   *)
(***************************************************************************)
EXTENDS Naturals, Sequences, FiniteSets

CONSTANTS
  Callers,     \* goroutines that log audit records
  Handlers,    \* handler goroutines, one for each call of Init
  Capacity,    \* capacity of auditLogChan (1000 in the code)
  RetryMax,    \* MAX_PRODUCER_RETRY: attempts after the first of one SendMessage
  MaxLogs,     \* bound: records a caller logs
  MaxCopies,   \* bound: unacknowledged writes of one request
  MaxCrashes,  \* bound: crashes of the process
  NoLog        \* "no record in hand"

Modes == {"kafka", "other", "ut"}

Logs == [caller : Callers, n : 1..MaxLogs]

Requests == [log : Logs, id : Nat]

ASSUME ConstantsAssumption ==
  /\ Capacity \in Nat /\ RetryMax \in Nat /\ MaxLogs \in Nat
  /\ MaxCopies \in Nat /\ MaxCrashes \in Nat
  /\ NoLog \notin Requests

ASSUME FiniteAssumption == IsFiniteSet(Callers) /\ IsFiniteSet(Handlers)

VARIABLES
  mode,      \* environment and MQType: unit test, another queue, or Kafka
  pc,        \* pc[c]: "idle", or "sending" while a call of c is at auditLogChan <-
  cnt,       \* cnt[c]: records c has begun to log
  chan,      \* auditLogChan
  hpc,       \* hpc[h]: where goroutine h is; "off" before Init
  held,      \* held[h]: the request h is sending
  tries,     \* tries[h]: failed attempts inside the current SendMessage
  nextId,    \* the next value of the xid generator
  brokerUp,  \* does Kafka answer
  topic,     \* requests written to the audit topic, in the order of the writes
  late,      \* requests abandoned by the client that Kafka may still write
  crashes,   \* crashes so far
  accepted,  \* history: records in the order the channel took them
  lost       \* history: records in memory at a crash

callerVars == <<pc, cnt>>
handlerVars == <<hpc, held, tries, nextId>>
kafkaVars == <<brokerUp, topic, late>>
vars == <<mode, pc, cnt, chan, hpc, held, tries, nextId, brokerUp, topic, late,
          crashes, accepted, lost>>

Elements(s) == {s[i] : i \in DOMAIN s}

(* Requests that handlers are sending.                                     *)
InHand == {held[h] : h \in Handlers} \ {NoLog}

(* Records with a copy on the topic.                                       *)
OnTopic == {topic[k].log : k \in DOMAIN topic}

(* The record caller c is logging.                                         *)
Current(c) == [caller |-> c, n |-> cnt[c]]

(* Room for one more unacknowledged write of request m (bound).            *)
CopyLeft(m) == Cardinality({k \in DOMAIN topic : topic[k] = m}) < MaxCopies

Init ==
  /\ mode \in Modes
  /\ pc = [c \in Callers |-> "idle"]
  /\ cnt = [c \in Callers |-> 0]
  /\ chan = <<>>
  /\ hpc = [h \in Handlers |-> "off"]
  /\ held = [h \in Handlers |-> NoLog]
  /\ tries = [h \in Handlers |-> 0]
  /\ nextId = 0
  /\ brokerUp = TRUE
  /\ topic = <<>>
  /\ late = {}
  /\ crashes = 0
  /\ accepted = <<>>
  /\ lost = {}

----------------------------------------------------------------------------
(* Callers *)

(* NewInfoLog, NewWarnLog, NewWarnLogWithError: build the record.          *)
NewLog(c) ==
  /\ pc[c] = "idle"
  /\ cnt[c] < MaxLogs
  /\ pc' = [pc EXCEPT ![c] = "sending"]
  /\ cnt' = [cnt EXCEPT ![c] = @ + 1]
  /\ UNCHANGED <<mode, chan, handlerVars, kafkaVars, crashes, accepted, lost>>

(* A bug: the record is pushed whether or not the channel has room.        *)
EnqueueUnbounded(c) ==
  /\ pc[c] = "sending"
  /\ chan' = Append(chan, Current(c))
  /\ accepted' = Append(accepted, Current(c))
  /\ pc' = [pc EXCEPT ![c] = "idle"]
  /\ UNCHANGED <<mode, cnt, handlerVars, kafkaVars, crashes, lost>>

(* auditLogChan <- &auditLog: blocks while the channel is full.            *)
Enqueue(c) ==
  /\ pc[c] = "sending"
  /\ Len(chan) < Capacity
  /\ chan' = Append(chan, Current(c))
  /\ accepted' = Append(accepted, Current(c))
  /\ pc' = [pc EXCEPT ![c] = "idle"]
  /\ UNCHANGED <<mode, cnt, handlerVars, kafkaVars, crashes, lost>>

----------------------------------------------------------------------------
(* Handlers *)

(* A bug: the handler is started whatever the mode.                        *)
InitAuditAnyMode(h) ==
  /\ hpc[h] = "off"
  /\ hpc' = [hpc EXCEPT ![h] = "connect"]
  /\ UNCHANGED <<mode, callerVars, chan, held, tries, nextId, kafkaVars, crashes,
                 accepted, lost>>

(* Init: starts a handler, except in unit tests and without Kafka.         *)
InitAudit(h) ==
  /\ hpc[h] = "off"
  /\ mode = "kafka"
  /\ hpc' = [hpc EXCEPT ![h] = "connect"]
  /\ UNCHANGED <<mode, callerVars, chan, held, tries, nextId, kafkaVars, crashes,
                 accepted, lost>>

(* getAuditProcuder: the producer connects and the handler starts to work. *)
ConnectOk(h) ==
  /\ hpc[h] = "connect"
  /\ brokerUp
  /\ hpc' = [hpc EXCEPT ![h] = "receive"]
  /\ UNCHANGED <<mode, callerVars, chan, held, tries, nextId, kafkaVars, crashes,
                 accepted, lost>>

(* A bug: a handler that cannot connect returns.                           *)
ConnectFailExits(h) ==
  /\ hpc[h] = "connect"
  /\ hpc' = [hpc EXCEPT ![h] = "exited"]
  /\ UNCHANGED <<mode, callerVars, chan, held, tries, nextId, kafkaVars, crashes,
                 accepted, lost>>

(* getAuditProcuder: no producer; sleep for the interval.                  *)
ConnectFail(h) ==
  /\ hpc[h] = "connect"
  /\ hpc' = [hpc EXCEPT ![h] = "connectSleep"]
  /\ UNCHANGED <<mode, callerVars, chan, held, tries, nextId, kafkaVars, crashes,
                 accepted, lost>>

(* getAuditProcuder: the interval is over; try again.                      *)
ConnectWake(h) ==
  /\ hpc[h] = "connectSleep"
  /\ hpc' = [hpc EXCEPT ![h] = "connect"]
  /\ UNCHANGED <<mode, callerVars, chan, held, tries, nextId, kafkaVars, crashes,
                 accepted, lost>>

(* <-auditLogChan, then transformLog: the ID is drawn once, before the     *)
(* loop of sendLog.                                                        *)
Receive(h) ==
  /\ hpc[h] = "receive"
  /\ chan # <<>>
  /\ held' = [held EXCEPT ![h] = [log |-> Head(chan), id |-> nextId]]
  /\ nextId' = nextId + 1
  /\ chan' = Tail(chan)
  /\ tries' = [tries EXCEPT ![h] = 0]
  /\ hpc' = [hpc EXCEPT ![h] = "send"]
  /\ UNCHANGED <<mode, callerVars, kafkaVars, crashes, accepted, lost>>

(* SendMessage returns no error: sendLog returns.                          *)
SendAcked(h) ==
  /\ hpc[h] = "send"
  /\ brokerUp
  /\ topic' = Append(topic, held[h])
  /\ held' = [held EXCEPT ![h] = NoLog]
  /\ hpc' = [hpc EXCEPT ![h] = "receive"]
  /\ UNCHANGED <<mode, callerVars, chan, tries, nextId, brokerUp, late, crashes,
                 accepted, lost>>

(* A bug: one attempt too many before SendMessage returns.                 *)
AttemptFailedOneMore(h) ==
  /\ IF tries[h] <= RetryMax
     THEN tries' = [tries EXCEPT ![h] = @ + 1] /\ hpc' = hpc
     ELSE hpc' = [hpc EXCEPT ![h] = "sendSleep"] /\ tries' = tries
  /\ UNCHANGED <<chan, held>>

(* A bug: when SendMessage returns an error the record is dropped.         *)
AttemptFailedGiveUp(h) ==
  /\ IF tries[h] < RetryMax
     THEN tries' = [tries EXCEPT ![h] = @ + 1] /\ UNCHANGED <<hpc, held>>
     ELSE /\ hpc' = [hpc EXCEPT ![h] = "receive"]
          /\ held' = [held EXCEPT ![h] = NoLog]
          /\ tries' = tries
  /\ chan' = chan

(* A bug: when SendMessage returns an error the record goes to the back of *)
(* the channel.                                                            *)
AttemptFailedRequeue(h) ==
  /\ IF tries[h] < RetryMax
     THEN tries' = [tries EXCEPT ![h] = @ + 1] /\ UNCHANGED <<hpc, held, chan>>
     ELSE /\ hpc' = [hpc EXCEPT ![h] = "receive"]
          /\ chan' = Append(chan, held[h].log)
          /\ held' = [held EXCEPT ![h] = NoLog]
          /\ tries' = tries

(* An attempt failed: the client tries again inside SendMessage, until     *)
(* Retry.Max is spent; then SendMessage returns its error and sendLog      *)
(* sleeps for the interval.                                                *)
AttemptFailed(h) ==
  /\ IF tries[h] < RetryMax
     THEN tries' = [tries EXCEPT ![h] = @ + 1] /\ hpc' = hpc
     ELSE hpc' = [hpc EXCEPT ![h] = "sendSleep"] /\ tries' = tries
  /\ UNCHANGED <<chan, held>>

(* The broker writes the request, its answer is lost.                      *)
SendAckLost(h) ==
  /\ hpc[h] = "send"
  /\ brokerUp
  /\ CopyLeft(held[h])
  /\ topic' = Append(topic, held[h])
  /\ AttemptFailed(h)
  /\ UNCHANGED <<mode, callerVars, nextId, brokerUp, late, crashes, accepted, lost>>

(* The request is lost, or refused.                                        *)
SendLost(h) ==
  /\ hpc[h] = "send"
  /\ AttemptFailed(h)
  /\ UNCHANGED <<mode, callerVars, nextId, kafkaVars, crashes, accepted, lost>>

(* The client gives up on an attempt that the broker may still carry out.  *)
SendLate(h) ==
  /\ hpc[h] = "send"
  /\ brokerUp
  /\ late' = late \cup {held[h]}
  /\ AttemptFailed(h)
  /\ UNCHANGED <<mode, callerVars, nextId, brokerUp, topic, crashes, accepted, lost>>

(* A bug: each round of the loop transforms the record again, so that it   *)
(* gets a new ID.                                                          *)
SendWakeNewId(h) ==
  /\ hpc[h] = "sendSleep"
  /\ hpc' = [hpc EXCEPT ![h] = "send"]
  /\ tries' = [tries EXCEPT ![h] = 0]
  /\ held' = [held EXCEPT ![h].id = nextId]
  /\ nextId' = nextId + 1
  /\ UNCHANGED <<mode, callerVars, chan, kafkaVars, crashes, accepted, lost>>

(* A bug: the handler leaves the loop of sendLog after its first sleep.    *)
SendWakeReturns(h) ==
  /\ hpc[h] = "sendSleep"
  /\ hpc' = [hpc EXCEPT ![h] = "receive"]
  /\ held' = [held EXCEPT ![h] = NoLog]
  /\ UNCHANGED <<mode, callerVars, chan, tries, nextId, kafkaVars, crashes,
                 accepted, lost>>

(* sendLog: the sleep is over, SendMessage is called with the same msg.    *)
SendWake(h) ==
  /\ hpc[h] = "sendSleep"
  /\ hpc' = [hpc EXCEPT ![h] = "send"]
  /\ tries' = [tries EXCEPT ![h] = 0]
  /\ UNCHANGED <<mode, callerVars, chan, held, nextId, kafkaVars, crashes,
                 accepted, lost>>

----------------------------------------------------------------------------
(* Environment *)

(* The broker writes an abandoned request; another abandoned attempt of    *)
(* the same request may remain.                                            *)
LateAppend(m) ==
  /\ m \in late
  /\ brokerUp
  /\ CopyLeft(m)
  /\ topic' = Append(topic, m)
  /\ late' \in {late, late \ {m}}
  /\ UNCHANGED <<mode, callerVars, chan, handlerVars, brokerUp, crashes, accepted, lost>>

BrokerDown ==
  /\ brokerUp
  /\ brokerUp' = FALSE
  /\ UNCHANGED <<mode, callerVars, chan, handlerVars, topic, late, crashes, accepted, lost>>

BrokerBack ==
  /\ ~brokerUp
  /\ brokerUp' = TRUE
  /\ UNCHANGED <<mode, callerVars, chan, handlerVars, topic, late, crashes, accepted, lost>>

(* The process is killed and started again: channel and goroutines are     *)
(* gone, requests under way are not.                                       *)
Crash ==
  /\ crashes < MaxCrashes
  /\ crashes' = crashes + 1
  /\ lost' = lost \cup Elements(chan) \cup {m.log : m \in InHand}
  /\ chan' = <<>>
  /\ held' = [h \in Handlers |-> NoLog]
  /\ hpc' = [h \in Handlers |-> "off"]
  /\ tries' = [h \in Handlers |-> 0]
  /\ pc' = [c \in Callers |-> "idle"]
  /\ UNCHANGED <<mode, cnt, nextId, kafkaVars, accepted>>

----------------------------------------------------------------------------
HandlerStep(h) ==
  \/ InitAudit(h)
  \/ ConnectOk(h)
  \/ ConnectFail(h)
  \/ ConnectWake(h)
  \/ Receive(h)
  \/ SendAcked(h)
  \/ SendAckLost(h)
  \/ SendLost(h)
  \/ SendLate(h)
  \/ SendWake(h)

Next ==
  \/ \E c \in Callers : NewLog(c) \/ Enqueue(c)
  \/ \E h \in Handlers : HandlerStep(h)
  \/ \E m \in late : LateAppend(m)
  \/ BrokerDown
  \/ BrokerBack
  \/ Crash

Spec == Init /\ [][Next]_vars

(* The application calls Init; goroutines run; time passes; a client that  *)
(* again and again tries a broker that is up is answered in the end.  A    *)
(* blocked sender is queued by the Go runtime and is not passed over for   *)
(* ever.  Nothing is assumed of the broker: the properties say when it     *)
(* must be up.                                                             *)
Fairness ==
  /\ \A c \in Callers : SF_vars(Enqueue(c))
  /\ \A h \in Handlers :
       /\ WF_vars(InitAudit(h))
       /\ SF_vars(ConnectOk(h))
       /\ WF_vars(ConnectWake(h))
       /\ WF_vars(Receive(h))
       /\ SF_vars(SendAcked(h))
       /\ WF_vars(SendWake(h))

FairSpec == Spec /\ Fairness

----------------------------------------------------------------------------
(* Properties *)

TypeOK ==
  /\ mode \in Modes
  /\ pc \in [Callers -> {"idle", "sending"}]
  /\ cnt \in [Callers -> 0..MaxLogs]
  /\ chan \in Seq(Logs) /\ Len(chan) <= Capacity
  /\ hpc \in [Handlers -> {"off", "connect", "connectSleep", "receive", "send", "sendSleep"}]
  /\ held \in [Handlers -> Requests \cup {NoLog}]
  /\ \A h \in Handlers : (held[h] # NoLog) <=> hpc[h] \in {"send", "sendSleep"}
  /\ tries \in [Handlers -> 0..RetryMax]
  /\ nextId \in Nat
  /\ brokerUp \in BOOLEAN
  /\ topic \in Seq(Requests)
  /\ late \in SUBSET Requests
  /\ crashes \in 0..MaxCrashes
  /\ accepted \in Seq(Logs)
  /\ lost \in SUBSET Logs

(* A record that the channel took is never dropped without a crash: it     *)
(* waits, is being sent, is on the topic, or was in memory at a crash.     *)
(* (audit.go:203-262: no path of the handler forgets a record.)            *)
Accounted ==
  Elements(accepted) \subseteq
    Elements(chan) \cup {m.log : m \in InHand} \cup OnTopic \cup lost

(* A consumer can remove the duplicates that retries leave on the topic by *)
(* out_biz_id alone: copies of one record share their ID and two records   *)
(* never do.  (audit.go:207-216: the ID is drawn before the retries.)      *)
DedupKey ==
  \A k, l \in DOMAIN topic : topic[k].id = topic[l].id <=> topic[k].log = topic[l].log

(* Retries and late writes never bring the first copy of a record before   *)
(* those of as many records accepted earlier as there are handlers: of no  *)
(* earlier one with one handler, but for those that a crash dropped.       *)
(* (audit.go:20: one request at a time, so that retries do not put         *)
(* messages out of order; audit.go:204-262: a handler takes the next       *)
(* record when it is done with one.)                                       *)
FirstDeliveryOrder ==
  \A j \in DOMAIN accepted : \A k \in DOMAIN topic :
    topic[k].log = accepted[j] =>
      LET before == {accepted[i] : i \in 1..(j - 1)}
          written == {topic[l].log : l \in 1..(k - 1)}
      IN  Cardinality(before \ (lost \cup written)) < Cardinality(Handlers)

(* In unit-test mode or with another queue nothing drains the channel: a   *)
(* process accepts Capacity records in its life, and later callers block.  *)
(* (audit.go:109-117 starts no handler, audit.go:158 sends all the same.)  *)
OffModeBound ==
  mode # "kafka" =>
    /\ topic = <<>> /\ late = {}
    /\ Len(accepted) <= Capacity * (crashes + 1)

(* A crash loses no more than the channel and the handlers hold: callers   *)
(* feel back-pressure before more than that is at risk.  (audit.go:103,    *)
(* audit.go:158: a bounded channel and a blocking send.)                   *)
LossBound ==
  [][Cardinality(lost' \ lost) <= Capacity + Cardinality(Handlers)]_vars

(* Refinement: the channel is the queue of AuditDelivery; what the         *)
(* handlers are sending is in hand.                                        *)
HeldLogs == {m.log : m \in InHand}

AbsOrphans == {m.log : m \in late} \ (OnTopic \cup HeldLogs)

Delivery == INSTANCE AuditDelivery WITH
  Records <- Logs,
  Bound <- Capacity,
  Hands <- Cardinality(Handlers),
  queue <- chan,
  hand <- HeldLogs,
  seen <- Elements(accepted),
  delivered <- OnTopic,
  orphans <- AbsOrphans

(* At-least-once delivery, out of order by no more than the handlers hold. *)
ImplementsDelivery == Delivery!Spec

(* When Kafka's outages come to an end, every accepted record reaches the  *)
(* topic, unless the process crashed with it in memory, however many       *)
(* outages and failed attempts there were before.                          *)
(* (audit.go:254-262 and 294-308: retry until Kafka is back.)              *)
EventuallyOnTopic ==
  mode = "kafka" /\ <>[]brokerUp =>
    \A r \in Logs : (r \in Elements(accepted)) ~> (r \in OnTopic \cup lost)

(* When Kafka's outages come to an end, a caller blocked on a full channel *)
(* gets on.  (audit.go:158 blocks without a timeout.)                      *)
CallerReleased ==
  mode = "kafka" /\ <>[]brokerUp => \A c \in Callers : (pc[c] = "sending") ~> (pc[c] = "idle")
==============================================================================
