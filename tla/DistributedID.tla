---------------------------- MODULE DistributedID ----------------------------
(***************************************************************************)
(* did/did.go: distributed IDs.  The package's init takes a machine ID     *)
(* from the address in POD_IP and builds one sonyflake generator for the   *)
(* process; GenerateDistributedID asks it for the next ID.  An ID is a     *)
(* time in ticks of 10 ms, a sequence number and the machine ID, so equal  *)
(* IDs are equal triples.                                                  *)
(*                                                                         *)
(* The generator (github.com/sony/sonyflake 1.3.0) is external.  It keeps  *)
(* the last time it used and counts within it; it never follows a clock    *)
(* that is set back, and when the count of a tick is used up it borrows    *)
(* the next tick and sleeps until then, with its mutex held.               *)
(*                                                                         *)
(* A pod may die and be started again, with the same address or another;   *)
(* Kubernetes gives an address to one running pod at a time.               *)
(***************************************************************************)
EXTENDS Integers, Sequences

CONSTANTS
  Pods,
  Callers,      \* goroutines of a pod
  Addresses,    \* values of POD_IP that are addresses of a pod
  Unusable,     \* unset, loopback, unspecified, not an address
  HostOf,       \* HostOf[a]: the low 16 bits of address a
  SeqSize,      \* IDs in a tick: 2^8
  TimeLimit,    \* ticks that an ID has room for: 2^39
  MaxClock,     \* bound: a clock does not pass it
  MaxStarts,    \* bound: starts of a process in all
  MaxCalls,     \* bound: calls in all
  None          \* no address, nobody

ASSUME DistributedIDAssumption ==
  /\ HostOf \in [Addresses -> Nat]
  /\ SeqSize \in Nat \ {0}
  /\ TimeLimit \in Nat /\ MaxClock \in Nat /\ MaxStarts \in Nat /\ MaxCalls \in Nat
  /\ None \notin Addresses \cup Callers

VARIABLES
  clock,      \* clock[p]: the wall clock of pod p, in ticks
  podIP,      \* podIP[p]: the address that running pod p started with
  starts,     \* how many processes were started so far
  process,    \* process[p]: which of them runs in p; 0: none
  elapsed,    \* elapsed[p]: the time of the generator of p
  sequence,   \* sequence[p]: the number of its last ID within that time
  mutex,      \* mutex[p]: the caller that holds the generator
  nap,        \* nap[p]: ticks that the holder has yet to sleep
  pc,         \* pc[p][c]: "idle", "waiting" for the mutex or "stamping"
  calls,      \* calls begun so far
  issued,     \* history: the IDs returned, in the order they were made
  since,      \* history: since[p]: how many there were when p started
  low         \* history: low[p]: the earliest time that p read in this life

generator == <<podIP, starts, process, elapsed, sequence, since>>
vars == <<clock, podIP, starts, process, elapsed, sequence, mutex, nap, pc, calls, issued, since, low>>

Idle == [c \in Callers |-> "idle"]

Init ==
  /\ clock = [p \in Pods |-> 0]
  /\ podIP = [p \in Pods |-> None]
  /\ starts = 0
  /\ process = [p \in Pods |-> 0]
  /\ elapsed = [p \in Pods |-> 0]
  /\ sequence = [p \in Pods |-> SeqSize - 1]
  /\ mutex = [p \in Pods |-> None]
  /\ nap = [p \in Pods |-> 0]
  /\ pc = [p \in Pods |-> Idle]
  /\ calls = 0
  /\ issued = <<>>
  /\ since = [p \in Pods |-> 0]
  /\ low = [p \in Pods |-> 0]

----------------------------------------------------------------------------
(* The process *)

checkMachineID(m) == m # 0

(* getMachineID returns an error, or reads the third byte of an address    *)
(* that did not parse, or checkMachineID refuses what it returns.          *)
Refused(a) == ~(a \in Addresses /\ checkMachineID(HostOf[a]))

(* init builds the generator.                                              *)
Start(p, a) ==
  /\ podIP[p] = None /\ starts < MaxStarts
  /\ \A q \in Pods : podIP[q] # a
  /\ ~Refused(a)
  /\ podIP' = [podIP EXCEPT ![p] = a]
  /\ starts' = starts + 1
  /\ process' = [process EXCEPT ![p] = starts + 1]
  /\ since' = [since EXCEPT ![p] = Len(issued)]
  /\ low' = [low EXCEPT ![p] = clock[p]]
  /\ UNCHANGED <<clock, elapsed, sequence, mutex, nap, pc, calls, issued>>

(* init panics.                                                            *)
StartPanics(p, a) ==
  /\ podIP[p] = None /\ starts < MaxStarts
  /\ Refused(a)
  /\ starts' = starts + 1
  /\ UNCHANGED <<clock, podIP, process, elapsed, sequence, mutex, nap, pc, calls, issued, since, low>>

(* The pod dies, whatever its goroutines are doing, and its memory with it.*)
Crash(p) ==
  /\ podIP[p] # None
  /\ podIP' = [podIP EXCEPT ![p] = None]
  /\ process' = [process EXCEPT ![p] = 0]
  /\ elapsed' = [elapsed EXCEPT ![p] = 0]
  /\ sequence' = [sequence EXCEPT ![p] = SeqSize - 1]
  /\ mutex' = [mutex EXCEPT ![p] = None]
  /\ nap' = [nap EXCEPT ![p] = 0]
  /\ pc' = [pc EXCEPT ![p] = Idle]
  /\ since' = [since EXCEPT ![p] = 0]
  /\ low' = [low EXCEPT ![p] = 0]
  /\ UNCHANGED <<clock, starts, calls, issued>>

----------------------------------------------------------------------------
(* GenerateDistributedID *)

Call(p, c) ==
  /\ podIP[p] # None /\ pc[p][c] = "idle" /\ calls < MaxCalls
  /\ pc' = [pc EXCEPT ![p][c] = "waiting"]
  /\ calls' = calls + 1
  /\ UNCHANGED <<clock, generator, mutex, nap, issued, low>>

(* A bug: the number within a tick is not reduced to its 8 bits.           *)
AdvancedUnmasked(e, s, t) ==
  IF e < t THEN [elapsed |-> t, sequence |-> 0, nap |-> 0]
  ELSE [elapsed |-> e, sequence |-> s + 1, nap |-> 0]

(* A bug: the generator follows the clock, backwards too.                  *)
AdvancedFollows(e, s, t) ==
  IF e # t THEN [elapsed |-> t, sequence |-> 0, nap |-> 0]
  ELSE [elapsed |-> e, sequence |-> (s + 1) % SeqSize, nap |-> 0]

(* What NextID makes of time e and number s of the generator when the      *)
(* clock reads t, and how long it sleeps then.                             *)
Advanced(e, s, t) ==
  LET next == (s + 1) % SeqSize
  IN  IF e < t THEN [elapsed |-> t, sequence |-> 0, nap |-> 0]
      ELSE IF next # 0 THEN [elapsed |-> e, sequence |-> next, nap |-> 0]
      ELSE [elapsed |-> e + 1, sequence |-> 0, nap |-> e + 1 - t]

(* A bug: the generator is advanced without its mutex.                     *)
NextIDUnlocked(p, c) ==
  LET next == Advanced(elapsed[p], sequence[p], clock[p])
  IN  /\ pc[p][c] = "waiting"
      /\ mutex' = [mutex EXCEPT ![p] = c]
      /\ pc' = [pc EXCEPT ![p][c] = "stamping"]
      /\ elapsed' = [elapsed EXCEPT ![p] = next.elapsed]
      /\ sequence' = [sequence EXCEPT ![p] = next.sequence]
      /\ nap' = [nap EXCEPT ![p] = next.nap]
      /\ low' = [low EXCEPT ![p] = IF clock[p] < @ THEN clock[p] ELSE @]
      /\ UNCHANGED <<clock, podIP, starts, process, calls, issued, since>>

(* NextID: takes the mutex and advances the generator.                     *)
NextID(p, c) ==
  LET next == Advanced(elapsed[p], sequence[p], clock[p])
  IN  /\ pc[p][c] = "waiting" /\ mutex[p] = None
      /\ mutex' = [mutex EXCEPT ![p] = c]
      /\ pc' = [pc EXCEPT ![p][c] = "stamping"]
      /\ elapsed' = [elapsed EXCEPT ![p] = next.elapsed]
      /\ sequence' = [sequence EXCEPT ![p] = next.sequence]
      /\ nap' = [nap EXCEPT ![p] = next.nap]
      /\ low' = [low EXCEPT ![p] = IF clock[p] < @ THEN clock[p] ELSE @]
      /\ UNCHANGED <<clock, podIP, starts, process, calls, issued, since>>

(* The ID made of what the generator of p holds.                           *)
Stamp(p) ==
  [process |-> process[p], address |-> podIP[p], time |-> elapsed[p],
   sequence |-> sequence[p], since |-> since[p], low |-> low[p]]

(* A bug: the error path returns without releasing the mutex.              *)
ToIDKeepsMutex(p, c) ==
  /\ pc[p][c] = "stamping" /\ nap[p] = 0
  /\ issued' = IF elapsed[p] >= TimeLimit THEN issued
               ELSE Append(issued, Stamp(p))
  /\ mutex' = [mutex EXCEPT ![p] = IF elapsed[p] >= TimeLimit THEN @ ELSE None]
  /\ pc' = [pc EXCEPT ![p][c] = "idle"]
  /\ UNCHANGED <<clock, generator, nap, calls, low>>

(* The sleep is over: toID reads the generator, and the mutex is released. *)
(* A time without room in an ID is an error.                               *)
ToID(p, c) ==
  /\ pc[p][c] = "stamping" /\ nap[p] = 0
  /\ issued' = IF elapsed[p] >= TimeLimit THEN issued
               ELSE Append(issued, Stamp(p))
  /\ mutex' = [mutex EXCEPT ![p] = None]
  /\ pc' = [pc EXCEPT ![p][c] = "idle"]
  /\ UNCHANGED <<clock, generator, nap, calls, low>>

----------------------------------------------------------------------------
(* Clocks *)

Tick(p) ==
  /\ clock[p] < MaxClock \/ nap[p] > 0
  /\ clock' = [clock EXCEPT ![p] = IF @ < MaxClock THEN @ + 1 ELSE @]
  /\ nap' = [nap EXCEPT ![p] = IF @ > 0 THEN @ - 1 ELSE 0]
  /\ UNCHANGED <<generator, mutex, pc, calls, issued, low>>

(* A sleep is not measured by this clock, and goes on as before.           *)
SetBack(p, t) ==
  /\ t < clock[p]
  /\ clock' = [clock EXCEPT ![p] = t]
  /\ UNCHANGED <<generator, mutex, nap, pc, calls, issued, low>>

CallStep(p, c) == Call(p, c) \/ NextID(p, c) \/ ToID(p, c)

Next ==
  \E p \in Pods :
    \/ \E a \in Addresses : Start(p, a)
    \/ \E a \in Addresses \cup Unusable : StartPanics(p, a)
    \/ Crash(p)
    \/ \E c \in Callers : CallStep(p, c)
    \/ Tick(p)
    \/ \E t \in 0 .. MaxClock : SetBack(p, t)

Spec == Init /\ [][Next]_vars

(* Time passes; a goroutine that runs goes on; the mutex of Go does not    *)
(* starve a waiter (starvation mode after 1 ms).                           *)
Fairness ==
  \A p \in Pods :
    /\ WF_vars(Tick(p))
    /\ \A c \in Callers : SF_vars(NextID(p, c)) /\ WF_vars(ToID(p, c))

FairSpec == Spec /\ Fairness

----------------------------------------------------------------------------
(* Properties *)

Stamps ==
  [process : Nat, address : Addresses, time : Nat,
   sequence : 0 .. SeqSize - 1, since : Nat, low : Nat]

(* Every variable has its type, and whoever stamps holds the mutex of a    *)
(* running pod.                                                            *)
TypeOK ==
  /\ clock \in [Pods -> Nat]
  /\ podIP \in [Pods -> Addresses \cup {None}]
  /\ starts \in Nat
  /\ process \in [Pods -> Nat]
  /\ elapsed \in [Pods -> Nat]
  /\ sequence \in [Pods -> 0 .. SeqSize - 1]
  /\ mutex \in [Pods -> Callers \cup {None}]
  /\ nap \in [Pods -> Nat]
  /\ pc \in [Pods -> [Callers -> {"idle", "waiting", "stamping"}]]
  /\ calls \in 0 .. MaxCalls
  /\ issued \in Seq(Stamps)
  /\ since \in [Pods -> Nat]
  /\ low \in [Pods -> Nat]
  /\ \A p \in Pods :
       /\ \A c \in Callers : pc[p][c] = "stamping" <=> mutex[p] = c
       /\ podIP[p] = None <=> process[p] = 0
       /\ podIP[p] = None => pc[p] = Idle
       /\ mutex[p] = None => nap[p] = 0

SameProcess(s, t) == s.process = t.process

SameID(s, t) ==
  s.time = t.time /\ s.sequence = t.sequence /\ HostOf[s.address] = HostOf[t.address]

Earlier(s, t) ==
  s.time < t.time \/ (s.time = t.time /\ s.sequence < t.sequence)

(* A process started on the address after s was returned, and its clock    *)
(* was not past the time of s.                                             *)
Reborn(i, j) ==
  /\ issued[j].since >= i
  /\ issued[j].low <= issued[i].time

(* Two calls get the same ID only if their pods have addresses that differ *)
(* above the 16 bits that did.go:53 keeps, or if the second process was    *)
(* started later on the same address with a clock that had not passed the  *)
(* first ID.  Neither goroutines, nor a clock set back, nor a full tick    *)
(* makes a process repeat itself.                                          *)
UniqueIDs ==
  \A i, j \in 1 .. Len(issued) :
    i < j /\ SameID(issued[i], issued[j]) =>
      issued[i].address # issued[j].address \/ Reborn(i, j)

(* The IDs of one process grow in the order they are made, so a call begun *)
(* after another has returned gets the larger ID, even after the clock was *)
(* set back in between.                                                    *)
Ascending ==
  \A i, j \in 1 .. Len(issued) :
    i < j /\ SameProcess(issued[i], issued[j]) => Earlier(issued[i], issued[j])

(* A call returns, with an ID or an error, unless its pod dies: the sleep  *)
(* with the mutex held, however far the clock was set back, ends.          *)
CallReturns ==
  \A p \in Pods, c \in Callers : pc[p][c] = "waiting" ~> pc[p][c] = "idle"
==============================================================================
