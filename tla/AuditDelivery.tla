---------------------------- MODULE AuditDelivery ----------------------------
(***************************************************************************)
(* What the audit package promises its callers, without goroutines,        *)
(* channel, retries or broker: every record accepted by NewInfoLog,        *)
(* NewWarnLog or NewWarnLogWithError is written to the audit topic at      *)
(* least once.  Records are taken in the order they were accepted, at most *)
(* Hands of them are under way at one time, so that with one hand they are *)
(* written first in, first out; at most Bound wait; and only a crash of    *)
(* the process drops any.                                                  *)
(***************************************************************************)
EXTENDS Naturals, Sequences, FiniteSets

CONSTANTS
  Records,   \* the audit records callers may log
  Bound,     \* most records that may wait at one time
  Hands      \* most records that may be under way at one time

VARIABLES
  queue,     \* accepted records that wait, oldest first
  hand,      \* records under way
  seen,      \* records ever accepted
  delivered, \* records with at least one copy on the topic
  orphans    \* records forgotten by a crash while a request of theirs was in flight

vars == <<queue, hand, seen, delivered, orphans>>

Init ==
  /\ queue = <<>>
  /\ hand = {}
  /\ seen = {}
  /\ delivered = {}
  /\ orphans = {}

(* A caller's record enters the queue; no record is accepted twice.        *)
Accept(r) ==
  /\ r \notin seen
  /\ Len(queue) < Bound
  /\ queue' = Append(queue, r)
  /\ seen' = seen \cup {r}
  /\ UNCHANGED <<hand, delivered, orphans>>

(* The oldest record gets under way.                                       *)
Take ==
  /\ queue # <<>>
  /\ Cardinality(hand) < Hands
  /\ hand' = hand \cup {Head(queue)}
  /\ queue' = Tail(queue)
  /\ UNCHANGED <<seen, delivered, orphans>>

(* A copy of a record under way reaches the topic.  The record is done     *)
(* with in a step that finds it delivered, at once or later.               *)
Deliver(r) ==
  /\ r \in hand
  /\ delivered' = delivered \cup {r}
  /\ hand' \in {hand, hand \ {r}}
  /\ UNCHANGED <<queue, seen, orphans>>

(* The process stops: all is forgotten, but requests for records under way *)
(* may be in flight.                                                       *)
Crash ==
  /\ queue' = <<>>
  /\ hand' = {}
  /\ \E inFlight \in SUBSET hand : orphans' = orphans \cup inFlight
  /\ UNCHANGED <<seen, delivered>>

(* A request that outlived its process reaches the topic.                  *)
DeliverOrphan(r) ==
  /\ r \in orphans
  /\ orphans' = orphans \ {r}
  /\ delivered' = delivered \cup {r}
  /\ UNCHANGED <<queue, hand, seen>>

Next ==
  \/ \E r \in Records : Accept(r) \/ Deliver(r) \/ DeliverOrphan(r)
  \/ Take
  \/ Crash

Spec == Init /\ [][Next]_vars
==============================================================================
