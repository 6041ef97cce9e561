---------------------------- MODULE UtilityProofs ----------------------------
(***************************************************************************)
(* The proofs about the small packages that keep no state of their own     *)
(* between services: IDs of any number of pods and goroutines, over any    *)
(* number of starts; tags of any length; texts and keys of any length, in  *)
(* blocks of any size.                                                     *)
(***************************************************************************)
EXTENDS DistributedID, StoredFields, SequenceTheorems, FiniteSetTheorems, TLAPS

(* IDs *)

(* The generator of a process only moves forward.                          *)
LEMMA AdvancedForward ==
  ASSUME NEW e \in Nat, NEW s \in 0 .. SeqSize - 1, NEW t \in Nat
  PROVE  LET next == Advanced(e, s, t)
         IN  /\ next.elapsed \in Nat /\ next.sequence \in 0 .. SeqSize - 1
             /\ next.nap \in Nat
             /\ e < next.elapsed \/ (e = next.elapsed /\ s < next.sequence)
             /\ t <= next.elapsed
<1>1. (s + 1) % SeqSize \in 0 .. SeqSize - 1
  BY DistributedIDAssumption DEF DistributedIDAssumption
<1>2. (s + 1) % SeqSize # 0 => (s + 1) % SeqSize = s + 1
  BY DistributedIDAssumption DEF DistributedIDAssumption
<1>3. 0 \in 0 .. SeqSize - 1
  BY DistributedIDAssumption DEF DistributedIDAssumption
<1>4. CASE e < t
  BY <1>3, <1>4 DEF Advanced
<1>5. CASE ~(e < t) /\ (s + 1) % SeqSize # 0
  BY <1>1, <1>2, <1>5 DEF Advanced
<1>6. CASE ~(e < t) /\ (s + 1) % SeqSize = 0
  BY <1>3, <1>6 DEF Advanced
<1>. QED BY <1>4, <1>5, <1>6

(* An ID stamped in a running process is an ID.  (distributedid.go: ToID.) *)
LEMMA StampType ==
  ASSUME TypeOK, NEW p \in Pods, podIP[p] # None
  PROVE  Stamp(p) \in Stamps
BY DEF Stamp, Stamps, TypeOK

(* TypeOK in two parts: the sets of the variables, and what holds of each  *)
(* pod.                                                                    *)
Pcs == [Callers -> {"idle", "waiting", "stamping"}]

Shapes ==
  /\ clock \in [Pods -> Nat] /\ podIP \in [Pods -> Addresses \cup {None}]
  /\ starts \in Nat /\ process \in [Pods -> Nat]
  /\ elapsed \in [Pods -> Nat] /\ sequence \in [Pods -> 0 .. SeqSize - 1]
  /\ mutex \in [Pods -> Callers \cup {None}] /\ nap \in [Pods -> Nat]
  /\ pc \in [Pods -> Pcs] /\ calls \in 0 .. MaxCalls /\ issued \in Seq(Stamps)
  /\ since \in [Pods -> Nat] /\ low \in [Pods -> Nat]

Held(q) ==
  /\ \A d \in Callers : pc[q][d] = "stamping" <=> mutex[q] = d
  /\ podIP[q] = None <=> process[q] = 0
  /\ podIP[q] = None => pc[q] = Idle
  /\ mutex[q] = None => nap[q] = 0

(* The type invariant is these two parts.                                  *)
LEMMA TypeParts == TypeOK <=> Shapes /\ \A q \in Pods : Held(q)
BY DEF TypeOK, Shapes, Held, Pcs

(* A step keeps Held of the pods that it does not touch.                   *)
Kept(q) ==
  /\ pc'[q] = pc[q] /\ mutex'[q] = mutex[q] /\ podIP'[q] = podIP[q]
  /\ process'[q] = process[q] /\ nap'[q] = nap[q]

(* What holds of a pod still holds of it after a step elsewhere.           *)
LEMMA HeldKept ==
  ASSUME NEW q, Held(q), Kept(q)
  PROVE  Held(q)'
BY DEF Held, Kept, Idle

(* Every variable has its type, and a caller that stamps holds the mutex   *)
(* of a running process.                                                   *)
THEOREM TypeCorrect == Spec => []TypeOK
<1>. USE DistributedIDAssumption DEF DistributedIDAssumption
<1>1. Init => TypeOK
  BY DEF Init, TypeOK, Idle
<1>2. TypeOK /\ [Next]_vars => TypeOK'
  <2>. SUFFICES ASSUME TypeOK, [Next]_vars
                PROVE  TypeOK'
    OBVIOUS
  <2>0. Shapes /\ \A q \in Pods : Held(q)
    BY TypeParts
  <2>. SUFFICES Shapes' /\ \A q \in Pods : Held(q)'
    BY DEF TypeOK, Shapes, Held, Pcs
  <2>1. ASSUME NEW p \in Pods, NEW a \in Addresses, Start(p, a)
        PROVE  Shapes' /\ \A q \in Pods : Held(q)'
    <3>1. a # None /\ starts \in Nat /\ Len(issued) \in Nat /\ clock[p] \in Nat
      BY <2>0 DEF Shapes
    <3>2. Shapes'
      BY <2>0, <2>1, <3>1 DEF Start, Shapes
    <3>3. \A q \in Pods \ {p} : Kept(q)
      BY <2>0, <2>1 DEF Start, Shapes, Kept
    <3>4. Held(p)'
      <4>1. podIP'[p] = a /\ process'[p] = starts + 1
        BY <2>0, <2>1 DEF Start, Shapes
      <4>. QED BY <2>0, <2>1, <3>1, <4>1 DEF Start, Held
    <3>. QED BY <2>0, <3>2, <3>3, <3>4, HeldKept
  <2>2. ASSUME NEW p \in Pods, NEW a \in Addresses \cup Unusable, StartPanics(p, a)
        PROVE  Shapes' /\ \A q \in Pods : Held(q)'
    <3>1. Shapes' /\ \A q \in Pods : Kept(q)
      BY <2>0, <2>2 DEF StartPanics, Shapes, Kept
    <3>. QED BY <2>0, <3>1, HeldKept
  <2>3. ASSUME NEW p \in Pods, Crash(p)
        PROVE  Shapes' /\ \A q \in Pods : Held(q)'
    <3>1. Idle \in Pcs
      BY DEF Idle, Pcs
    <3>2. Shapes'
      BY <2>0, <2>3, <3>1 DEF Crash, Shapes
    <3>3. \A q \in Pods \ {p} : Kept(q)
      BY <2>0, <2>3 DEF Crash, Shapes, Kept
    <3>4. Held(p)'
      <4>1. /\ podIP'[p] = None /\ process'[p] = 0 /\ pc'[p] = Idle
            /\ mutex'[p] = None /\ nap'[p] = 0
        BY <2>0, <2>3 DEF Crash, Shapes
      <4>2. \A d \in Callers : Idle[d] # "stamping" /\ d # None
        BY DEF Idle
      <4>. QED BY <4>1, <4>2 DEF Held
    <3>. QED BY <2>0, <3>2, <3>3, <3>4, HeldKept
  <2>4. ASSUME NEW p \in Pods, NEW c \in Callers, Call(p, c)
        PROVE  Shapes' /\ \A q \in Pods : Held(q)'
    <3>1. pc' \in [Pods -> Pcs]
      BY <2>0, <2>4 DEF Call, Shapes, Pcs
    <3>2. Shapes'
      BY <2>0, <2>4, <3>1 DEF Call, Shapes, generator
    <3>3. \A q \in Pods \ {p} : Kept(q)
      BY <2>0, <2>4 DEF Call, Shapes, Kept, generator
    <3>4. Held(p)'
      <4>1. pc[p] \in Pcs /\ pc'[p] = [pc[p] EXCEPT ![c] = "waiting"]
        BY <2>0, <2>4 DEF Call, Shapes
      <4>2. \A d \in Callers : pc'[p][d] = "stamping" <=> pc[p][d] = "stamping"
        BY <2>4, <4>1 DEF Call, Pcs
      <4>. QED BY <2>0, <2>4, <4>2 DEF Call, Held, generator
    <3>. QED BY <2>0, <3>2, <3>3, <3>4, HeldKept
  <2>5. ASSUME NEW p \in Pods, NEW c \in Callers, NextID(p, c)
        PROVE  Shapes' /\ \A q \in Pods : Held(q)'
    <3>. DEFINE next == Advanced(elapsed[p], sequence[p], clock[p])
    <3>1. next.elapsed \in Nat /\ next.sequence \in 0 .. SeqSize - 1 /\ next.nap \in Nat
      BY <2>0, AdvancedForward DEF Shapes
    <3>2. /\ elapsed' = [elapsed EXCEPT ![p] = next.elapsed]
          /\ sequence' = [sequence EXCEPT ![p] = next.sequence]
          /\ nap' = [nap EXCEPT ![p] = next.nap]
      BY <2>5 DEF NextID
    <3>. HIDE DEF next
    <3>3. /\ elapsed' \in [Pods -> Nat] /\ sequence' \in [Pods -> 0 .. SeqSize - 1]
          /\ nap' \in [Pods -> Nat]
      BY <2>0, <3>1, <3>2 DEF Shapes
    <3>4. pc' \in [Pods -> Pcs] /\ pc'[p] = [pc[p] EXCEPT ![c] = "stamping"] /\ pc[p] \in Pcs
      BY <2>0, <2>5 DEF NextID, Shapes, Pcs
    <3>5. mutex' \in [Pods -> Callers \cup {None}] /\ low' \in [Pods -> Nat]
      BY <2>0, <2>5 DEF NextID, Shapes
    <3>6. Shapes'
      BY <2>0, <2>5, <3>3, <3>4, <3>5 DEF NextID, Shapes
    <3>7. \A q \in Pods \ {p} : Kept(q)
      BY <2>0, <2>5 DEF NextID, Shapes, Kept
    <3>8. Held(p)'
      <4>1. podIP[p] # None
        BY <2>0, <2>5 DEF NextID, Held, Idle
      <4>2. mutex'[p] = c /\ mutex[p] = None
        BY <2>0, <2>5 DEF NextID, Shapes
      <4>3. \A d \in Callers : pc[p][d] # "stamping"
        BY <2>0, <4>2 DEF Held
      <4>4. \A d \in Callers : pc'[p][d] = "stamping" <=> d = c
        BY <3>4, <4>3 DEF Pcs
      <4>. QED BY <2>0, <2>5, <4>1, <4>2, <4>4 DEF NextID, Held
    <3>. QED BY <2>0, <3>6, <3>7, <3>8, HeldKept
  <2>6. ASSUME NEW p \in Pods, NEW c \in Callers, ToID(p, c)
        PROVE  Shapes' /\ \A q \in Pods : Held(q)'
    <3>1. podIP[p] # None
      BY <2>0, <2>6 DEF ToID, Held, Idle
    <3>2. issued' \in Seq(Stamps)
      BY <2>0, <2>6, <3>1, StampType DEF ToID, Shapes
    <3>3. pc' \in [Pods -> Pcs] /\ pc'[p] = [pc[p] EXCEPT ![c] = "idle"] /\ pc[p] \in Pcs
      BY <2>0, <2>6 DEF ToID, Shapes, Pcs
    <3>4. mutex' \in [Pods -> Callers \cup {None}] /\ mutex'[p] = None
      BY <2>0, <2>6 DEF ToID, Shapes
    <3>5. Shapes'
      BY <2>0, <2>6, <3>2, <3>3, <3>4 DEF ToID, Shapes, generator
    <3>6. \A q \in Pods \ {p} : Kept(q)
      BY <2>0, <2>6 DEF ToID, Shapes, Kept, generator
    <3>7. Held(p)'
      <4>1. mutex[p] = c
        BY <2>0, <2>6 DEF ToID, Held
      <4>2. \A d \in Callers : pc'[p][d] # "stamping"
        BY <2>0, <3>3, <4>1 DEF Held, Pcs
      <4>. QED BY <2>0, <2>6, <3>1, <3>4, <4>2 DEF ToID, Held, generator
    <3>. QED BY <2>0, <3>5, <3>6, <3>7, HeldKept
  <2>7. ASSUME NEW p \in Pods, Tick(p)
        PROVE  Shapes' /\ \A q \in Pods : Held(q)'
    <3>1. clock' \in [Pods -> Nat] /\ nap' \in [Pods -> Nat]
      BY <2>0, <2>7 DEF Tick, Shapes
    <3>2. Shapes'
      BY <2>0, <2>7, <3>1 DEF Tick, Shapes, generator
    <3>3. \A q \in Pods \ {p} : Kept(q)
      BY <2>0, <2>7 DEF Tick, Shapes, Kept, generator
    <3>4. Held(p)'
      <4>1. mutex[p] = None => nap'[p] = 0
        BY <2>0, <2>7 DEF Tick, Shapes, Held
      <4>. QED BY <2>0, <2>7, <4>1 DEF Tick, Held, generator
    <3>. QED BY <2>0, <3>2, <3>3, <3>4, HeldKept
  <2>8. ASSUME NEW p \in Pods, NEW t \in 0 .. MaxClock, SetBack(p, t)
        PROVE  Shapes' /\ \A q \in Pods : Held(q)'
    <3>1. Shapes' /\ \A q \in Pods : Kept(q)
      BY <2>0, <2>8 DEF SetBack, Shapes, Kept, generator
    <3>. QED BY <2>0, <3>1, HeldKept
  <2>9. CASE UNCHANGED vars
    <3>1. Shapes' /\ \A q \in Pods : Kept(q)
      BY <2>0, <2>9 DEF vars, Shapes, Kept
    <3>. QED BY <2>0, <3>1, HeldKept
  <2>. QED BY <2>1, <2>2, <2>3, <2>4, <2>5, <2>6, <2>7, <2>8, <2>9 DEF Next, CallStep
<1>. QED BY <1>1, <1>2, PTL DEF Spec

----------------------------------------------------------------------------
(* The inductive invariant *)

(* One running process per address, and no process number twice.           *)
Exclusive ==
  /\ \A p, q \in Pods : podIP[p] # None /\ podIP[p] = podIP[q] => p = q
  /\ \A p, q \in Pods : process[p] # 0 /\ process[p] = process[q] => p = q
  /\ \A p \in Pods : process[p] <= starts
  /\ \A i \in 1 .. Len(issued) : issued[i].process \in 1 .. starts

(* While a process runs, it alone returns IDs with its address, all of     *)
(* them after its start and with its address.                              *)
Alone ==
  \A p \in Pods : podIP[p] # None =>
    /\ since[p] <= Len(issued)
    /\ \A i \in 1 .. Len(issued) :
         issued[i].address = podIP[p] /\ i > since[p] => issued[i].process = process[p]

(* The generator is past every ID it made, and at the last one when nobody *)
(* holds it.                                                               *)
Behind ==
  \A p \in Pods : podIP[p] # None =>
    \A i \in 1 .. Len(issued) : issued[i].process = process[p] =>
      \/ Earlier(issued[i], [time |-> elapsed[p], sequence |-> sequence[p]])
      \/ /\ mutex[p] = None
         /\ issued[i].time = elapsed[p] /\ issued[i].sequence = sequence[p]

(* An ID is not older than the clock was at its earliest.                  *)
NotBelow ==
  /\ \A p \in Pods : mutex[p] # None => low[p] <= elapsed[p]
  /\ \A i \in 1 .. Len(issued) : issued[i].low <= issued[i].time

(* Of two processes on one address the second started after the first had  *)
(* returned its last ID.                                                   *)
InTurn ==
  \A i, j \in 1 .. Len(issued) :
    i < j /\ issued[i].address = issued[j].address =>
      SameProcess(issued[i], issued[j]) \/ issued[j].since >= i

IDInv == Exclusive /\ Alone /\ Behind /\ NotBelow /\ InTurn /\ Ascending

(* The types that the invariants below need, without the pods' other       *)
(* parts.                                                                  *)
LEMMA Typed ==
  ASSUME TypeOK
  PROVE  /\ clock \in [Pods -> Nat] /\ podIP \in [Pods -> Addresses \cup {None}] /\ starts \in Nat
         /\ process \in [Pods -> Nat] /\ elapsed \in [Pods -> Nat]
         /\ sequence \in [Pods -> 0 .. SeqSize - 1] /\ mutex \in [Pods -> Callers \cup {None}]
         /\ since \in [Pods -> Nat] /\ low \in [Pods -> Nat] /\ Len(issued) \in Nat
         /\ \A i \in 1 .. Len(issued) : issued[i] \in Stamps
         /\ \A p \in Pods : podIP[p] = None <=> process[p] = 0
BY DEF TypeOK

(* The invariant implies that equal IDs of one address come from a clock   *)
(* set back across a restart.                                              *)
LEMMA IDInvUnique == IDInv /\ TypeOK => UniqueIDs
<1>. SUFFICES ASSUME IDInv, TypeOK,
                     NEW i \in 1 .. Len(issued), NEW j \in 1 .. Len(issued), i < j,
                     SameID(issued[i], issued[j]), issued[i].address = issued[j].address
              PROVE  Reborn(i, j)
  BY DEF UniqueIDs
<1>1. issued[i] \in Stamps /\ issued[j] \in Stamps
  BY DEF TypeOK
<1>2. ~SameProcess(issued[i], issued[j])
  BY <1>1 DEF IDInv, Ascending, Earlier, SameID, Stamps
<1>. QED BY <1>1, <1>2 DEF IDInv, InTurn, NotBelow, Reborn, SameID, Stamps

(* What a step that returns no ID keeps of the history.                    *)
LEMMA HistoryKept ==
  ASSUME IDInv, TypeOK, issued' = issued
  PROVE  InTurn' /\ Ascending' /\ (\A i \in 1 .. Len(issued) : issued[i].low <= issued[i].time)'
BY DEF IDInv, InTurn, Ascending, NotBelow, Reborn

(* A process that starts gets an address of its own and begins below its   *)
(* clock.                                                                  *)
LEMMA StartKeeps ==
  ASSUME IDInv, TypeOK, TypeOK', NEW p \in Pods, NEW a \in Addresses, Start(p, a)
  PROVE  IDInv'
<1>1. /\ podIP' = [podIP EXCEPT ![p] = a] /\ process' = [process EXCEPT ![p] = starts + 1]
      /\ since' = [since EXCEPT ![p] = Len(issued)] /\ low' = [low EXCEPT ![p] = clock[p]]
      /\ starts' = starts + 1 /\ podIP[p] = None
      /\ UNCHANGED <<elapsed, sequence, mutex, issued>>
      /\ \A q \in Pods : podIP[q] # a
  BY DEF Start
<1>2. a # None
  BY DistributedIDAssumption DEF DistributedIDAssumption
<1>3. Exclusive'
  <2>1. \A q \in Pods : process[q] <= starts /\ process[q] # starts + 1
    BY Typed DEF IDInv, Exclusive
  <2>2. \A i \in 1 .. Len(issued) : issued[i].process \in 1 .. starts + 1
    BY Typed DEF IDInv, Exclusive
  <2>3. \A q, r \in Pods : podIP'[q] # None /\ podIP'[q] = podIP'[r] => q = r
    BY <1>1, <1>2, Typed DEF IDInv, Exclusive
  <2>4. \A q, r \in Pods : process'[q] # 0 /\ process'[q] = process'[r] => q = r
    BY <1>1, <2>1, Typed DEF IDInv, Exclusive
  <2>5. \A q \in Pods : process'[q] <= starts'
    BY <1>1, <2>1, Typed
  <2>. QED BY <1>1, <2>2, <2>3, <2>4, <2>5 DEF Exclusive
<1>4. Alone'
  <2>. SUFFICES ASSUME NEW q \in Pods, podIP'[q] # None
                PROVE  /\ since'[q] <= Len(issued)
                       /\ \A i \in 1 .. Len(issued) :
                            issued[i].address = podIP'[q] /\ i > since'[q]
                              => issued[i].process = process'[q]
    BY <1>1 DEF Alone
  <2>1. CASE q = p
    BY <1>1, <2>1, Typed
  <2>2. CASE q # p
    BY <1>1, <2>2, Typed DEF IDInv, Alone
  <2>. QED BY <2>1, <2>2
<1>5. \A i \in 1 .. Len(issued) : issued[i].process # starts + 1
  BY Typed DEF IDInv, Exclusive
<1>6. Behind'
  <2>. SUFFICES ASSUME NEW q \in Pods, podIP'[q] # None, NEW i \in 1 .. Len(issued),
                       issued[i].process = process'[q]
                PROVE  \/ Earlier(issued[i], [time |-> elapsed[q], sequence |-> sequence[q]])
                       \/ /\ mutex[q] = None
                          /\ issued[i].time = elapsed[q] /\ issued[i].sequence = sequence[q]
    BY <1>1 DEF Behind
  <2>1. q # p
    BY <1>1, <1>5, Typed
  <2>. QED BY <1>1, <2>1, Typed DEF IDInv, Behind
<1>7. mutex[p] = None
  BY <1>1, DistributedIDAssumption DEF TypeOK, Idle, DistributedIDAssumption
<1>8. NotBelow'
  BY <1>1, <1>7, HistoryKept DEF IDInv, NotBelow, TypeOK
<1>. QED BY <1>1, <1>3, <1>4, <1>6, <1>8, HistoryKept DEF IDInv

(* A crash frees the address, and the history of its IDs stays.            *)
LEMMA CrashKeeps ==
  ASSUME IDInv, TypeOK, TypeOK', NEW p \in Pods, Crash(p)
  PROVE  IDInv'
<1>1. /\ podIP' = [podIP EXCEPT ![p] = None] /\ process' = [process EXCEPT ![p] = 0]
      /\ elapsed' = [elapsed EXCEPT ![p] = 0] /\ sequence' = [sequence EXCEPT ![p] = SeqSize - 1]
      /\ mutex' = [mutex EXCEPT ![p] = None] /\ since' = [since EXCEPT ![p] = 0]
      /\ low' = [low EXCEPT ![p] = 0]
      /\ UNCHANGED <<starts, issued>>
  BY DEF Crash
<1>2. Exclusive'
  BY <1>1, Typed DEF IDInv, Exclusive
<1>3. Alone'
  <2>1. \A q \in Pods : podIP'[q] # None =>
          q # p /\ podIP'[q] = podIP[q] /\ process'[q] = process[q] /\ since'[q] = since[q]
    BY <1>1, Typed
  <2>. QED BY <1>1, <2>1 DEF IDInv, Alone
<1>4. Behind'
  <2>1. \A q \in Pods : podIP'[q] # None =>
          /\ podIP[q] # None /\ process'[q] = process[q] /\ mutex'[q] = mutex[q]
          /\ elapsed'[q] = elapsed[q] /\ sequence'[q] = sequence[q]
    BY <1>1, Typed
  <2>2. SUFFICES ASSUME NEW q \in Pods, podIP'[q] # None, NEW i \in 1 .. Len(issued),
                        issued[i].process = process'[q]
                 PROVE  \/ Earlier(issued[i], [time |-> elapsed'[q], sequence |-> sequence'[q]])
                        \/ /\ mutex'[q] = None
                           /\ issued[i].time = elapsed'[q] /\ issued[i].sequence = sequence'[q]
    BY <1>1 DEF Behind
  <2>3. \/ Earlier(issued[i], [time |-> elapsed[q], sequence |-> sequence[q]])
        \/ /\ mutex[q] = None
           /\ issued[i].time = elapsed[q] /\ issued[i].sequence = sequence[q]
    BY <2>1, <2>2 DEF IDInv, Behind
  <2>. QED BY <2>1, <2>2, <2>3
<1>5. NotBelow'
  BY <1>1, HistoryKept DEF IDInv, NotBelow, TypeOK
<1>. QED BY <1>1, <1>2, <1>3, <1>4, <1>5, HistoryKept DEF IDInv

(* The caller that takes the mutex moves elapsed and sequence on, so that  *)
(* they stay ahead of what was issued.                                     *)
LEMMA NextIDKeeps ==
  ASSUME IDInv, TypeOK, TypeOK', NEW p \in Pods, NEW c \in Callers, NextID(p, c)
  PROVE  IDInv'
<1>. DEFINE next == Advanced(elapsed[p], sequence[p], clock[p])
<1>1. /\ mutex[p] = None /\ mutex' = [mutex EXCEPT ![p] = c]
      /\ elapsed' = [elapsed EXCEPT ![p] = next.elapsed]
      /\ sequence' = [sequence EXCEPT ![p] = next.sequence]
      /\ low' = [low EXCEPT ![p] = IF clock[p] < @ THEN clock[p] ELSE @]
      /\ UNCHANGED <<podIP, starts, process, issued, since>>
  BY DEF NextID
<1>2. /\ next.elapsed \in Nat /\ next.sequence \in 0 .. SeqSize - 1
      /\ elapsed[p] < next.elapsed \/ (elapsed[p] = next.elapsed /\ sequence[p] < next.sequence)
      /\ clock[p] <= next.elapsed
  BY AdvancedForward DEF TypeOK
<1>. HIDE DEF next
<1>3. Exclusive' /\ Alone'
  BY <1>1 DEF IDInv, Exclusive, Alone
<1>4. Behind'
  <2>. SUFFICES ASSUME NEW q \in Pods, podIP[q] # None, NEW i \in 1 .. Len(issued),
                       issued[i].process = process[q]
                PROVE  \/ Earlier(issued[i], [time |-> elapsed'[q], sequence |-> sequence'[q]])
                       \/ /\ mutex'[q] = None
                          /\ issued[i].time = elapsed'[q] /\ issued[i].sequence = sequence'[q]
    BY <1>1 DEF Behind
  <2>1. \/ Earlier(issued[i], [time |-> elapsed[q], sequence |-> sequence[q]])
        \/ /\ mutex[q] = None
           /\ issued[i].time = elapsed[q] /\ issued[i].sequence = sequence[q]
    BY DEF IDInv, Behind
  <2>2. CASE q # p
    BY <1>1, <2>1, <2>2 DEF TypeOK
  <2>3. CASE q = p
    <3>1. issued[i] \in Stamps
      BY Typed
    <3>2. elapsed'[p] = next.elapsed /\ sequence'[p] = next.sequence
      BY <1>1 DEF TypeOK
    <3>3. elapsed[p] \in Nat /\ sequence[p] \in 0 .. SeqSize - 1
      BY DEF TypeOK
    <3>. QED BY <1>2, <2>1, <2>3, <3>1, <3>2, <3>3, DistributedIDAssumption
             DEF Earlier, Stamps, DistributedIDAssumption
  <2>. QED BY <2>2, <2>3
<1>5. NotBelow'
  <2>1. low'[p] <= elapsed'[p]
    BY <1>1, <1>2 DEF TypeOK
  <2>2. \A q \in Pods \ {p} : mutex'[q] # None => low'[q] <= elapsed'[q]
    BY <1>1 DEF IDInv, NotBelow, TypeOK
  <2>. QED BY <1>1, <2>1, <2>2, HistoryKept DEF NotBelow
<1>. QED BY <1>1, <1>3, <1>4, <1>5, HistoryKept DEF IDInv

(* The ID that is issued is above all earlier ones of its process.         *)
LEMMA ToIDKeeps ==
  ASSUME IDInv, TypeOK, TypeOK', NEW p \in Pods, NEW c \in Callers, ToID(p, c)
  PROVE  IDInv'
<1>1. /\ pc[p][c] = "stamping" /\ mutex' = [mutex EXCEPT ![p] = None]
      /\ UNCHANGED <<podIP, starts, process, elapsed, sequence, since, low>>
  BY DEF ToID, generator
<1>2. mutex[p] = c /\ c # None /\ podIP[p] # None /\ process[p] # 0
  BY <1>1, DistributedIDAssumption DEF TypeOK, Idle, DistributedIDAssumption
<1>3. low[p] <= elapsed[p]
  BY <1>2 DEF IDInv, NotBelow
<1>4. \A i \in 1 .. Len(issued) : issued[i].process = process[p] =>
        Earlier(issued[i], [time |-> elapsed[p], sequence |-> sequence[p]])
  BY <1>2 DEF IDInv, Behind
<1>5. CASE issued' = issued
  <2>1. Exclusive' /\ Alone'
    BY <1>1, <1>5 DEF IDInv, Exclusive, Alone
  <2>2. Behind'
    <3>1. \A q \in Pods : q # p => mutex'[q] = mutex[q]
      BY <1>1, Typed
    <3>2. \A q \in Pods : process[q] = process[p] => q = p
      BY <1>2 DEF IDInv, Exclusive
    <3>. SUFFICES ASSUME NEW q \in Pods, podIP[q] # None, NEW i \in 1 .. Len(issued),
                         issued[i].process = process[q]
                  PROVE  \/ Earlier(issued[i], [time |-> elapsed[q], sequence |-> sequence[q]])
                         \/ /\ mutex'[q] = None
                            /\ issued[i].time = elapsed[q] /\ issued[i].sequence = sequence[q]
      BY <1>1, <1>5 DEF Behind
    <3>4. CASE q = p
      BY <1>4, <3>4
    <3>5. CASE q # p
      BY <3>1, <3>5 DEF IDInv, Behind
    <3>. QED BY <3>4, <3>5
  <2>3. NotBelow'
    BY <1>1, <1>2, <1>5, HistoryKept DEF IDInv, NotBelow, TypeOK
  <2>. QED BY <1>5, <2>1, <2>2, <2>3, HistoryKept DEF IDInv
<1>6. CASE issued' = Append(issued, Stamp(p))
  <2>. DEFINE s == Stamp(p)
              n == Len(issued) + 1
  <2>1. /\ s \in Stamps /\ s.process = process[p] /\ s.address = podIP[p]
        /\ s.time = elapsed[p] /\ s.sequence = sequence[p] /\ s.since = since[p] /\ s.low = low[p]
    BY <1>2, StampType DEF Stamp
  <2>. HIDE DEF s
  <2>2. /\ Len(issued) \in Nat /\ Len(issued') = n /\ issued'[n] = s
        /\ \A i \in 1 .. Len(issued) : issued'[i] = issued[i] /\ issued[i] \in Stamps
    <3>1. issued \in Seq(Stamps)
      BY DEF TypeOK
    <3>2. issued' = Append(issued, s)
      BY <1>6 DEF s
    <3>3. Len(issued) \in Nat /\ Len(issued') = Len(issued) + 1 /\ issued'[Len(issued) + 1] = s
          /\ \A i \in 1 .. Len(issued) : issued'[i] = issued[i]
      BY <2>1, <3>1, <3>2
    <3>. QED BY <3>3, Typed
  <2>3. \A i \in 1 .. n : i \in 1 .. Len(issued) \/ i = n
    BY <2>2
  <2>. HIDE DEF n
  <2>4. process[p] \in 1 .. starts
    BY <1>2, Typed DEF IDInv, Exclusive
  <2>5. Exclusive'
    BY <1>1, <2>1, <2>2, <2>3, <2>4 DEF IDInv, Exclusive
  <2>6. Alone'
    <3>. SUFFICES ASSUME NEW q \in Pods, podIP[q] # None
                  PROVE  /\ since[q] <= n
                         /\ \A i \in 1 .. n :
                              issued'[i].address = podIP[q] /\ i > since[q]
                                => issued'[i].process = process[q]
      BY <1>1, <2>2 DEF Alone
    <3>1. since[q] <= Len(issued) /\ since[q] \in Nat
      BY DEF IDInv, Alone, TypeOK
    <3>2. podIP[p] = podIP[q] => p = q
      BY <1>2 DEF IDInv, Exclusive
    <3>. QED BY <2>1, <2>2, <2>3, <3>1, <3>2 DEF IDInv, Alone, n
  <2>7. Behind'
    <3>. SUFFICES ASSUME NEW q \in Pods, podIP[q] # None, NEW i \in 1 .. n,
                         issued'[i].process = process[q]
                  PROVE  \/ Earlier(issued'[i], [time |-> elapsed[q], sequence |-> sequence[q]])
                         \/ /\ mutex'[q] = None
                            /\ issued'[i].time = elapsed[q] /\ issued'[i].sequence = sequence[q]
      BY <1>1, <2>2 DEF Behind
    <3>1. mutex'[p] = None /\ (q # p => mutex'[q] = mutex[q])
      BY <1>1 DEF TypeOK
    <3>2. CASE i = n
      <4>1. q = p
        BY <1>2, <2>1, <2>2, <3>2 DEF IDInv, Exclusive
      <4>. QED BY <2>1, <2>2, <3>1, <3>2, <4>1
    <3>3. CASE i \in 1 .. Len(issued)
      BY <1>4, <2>2, <3>1, <3>3 DEF IDInv, Behind
    <3>. QED BY <2>3, <3>2, <3>3
  <2>8. NotBelow'
    <3>1. \A q \in Pods : mutex'[q] # None => low'[q] <= elapsed'[q]
      BY <1>1 DEF IDInv, NotBelow, TypeOK
    <3>2. \A i \in 1 .. n : issued'[i].low <= issued'[i].time
      BY <1>3, <2>1, <2>2, <2>3 DEF IDInv, NotBelow
    <3>. QED BY <2>2, <3>1, <3>2 DEF NotBelow
  <2>9. InTurn'
    <3>. SUFFICES ASSUME NEW i \in 1 .. n, NEW j \in 1 .. n, i < j,
                         issued'[i].address = issued'[j].address
                  PROVE  SameProcess(issued'[i], issued'[j]) \/ issued'[j].since >= i
      BY <2>2 DEF InTurn
    <3>1. i \in 1 .. Len(issued)
      BY <2>2 DEF n
    <3>2. CASE j = n
      <4>1. since[p] \in Nat
        BY DEF TypeOK
      <4>2. i > since[p] => issued[i].process = process[p]
        BY <1>2, <2>1, <2>2, <3>1, <3>2 DEF IDInv, Alone
      <4>. QED BY <2>1, <2>2, <3>1, <3>2, <4>1, <4>2 DEF SameProcess
    <3>3. CASE j \in 1 .. Len(issued)
      BY <2>2, <3>1, <3>3 DEF IDInv, InTurn
    <3>. QED BY <2>3, <3>2, <3>3
  <2>10. Ascending'
    <3>. SUFFICES ASSUME NEW i \in 1 .. n, NEW j \in 1 .. n, i < j,
                         SameProcess(issued'[i], issued'[j])
                  PROVE  Earlier(issued'[i], issued'[j])
      BY <2>2 DEF Ascending
    <3>1. i \in 1 .. Len(issued)
      BY <2>2 DEF n
    <3>2. CASE j = n
      BY <1>4, <2>1, <2>2, <3>1, <3>2 DEF SameProcess, Earlier
    <3>3. CASE j \in 1 .. Len(issued)
      BY <2>2, <3>1, <3>3 DEF IDInv, Ascending
    <3>. QED BY <2>3, <3>2, <3>3
  <2>. QED BY <2>5, <2>6, <2>7, <2>8, <2>9, <2>10 DEF IDInv
<1>. QED BY <1>5, <1>6 DEF ToID

(* Types and invariant hold in every state.                                *)
LEMMA IDInvInductive == Spec => [](TypeOK /\ IDInv)
<1>1. Init => IDInv
  BY DEF Init, IDInv, Exclusive, Alone, Behind, NotBelow, InTurn, Ascending
<1>2. TypeOK /\ TypeOK' /\ IDInv /\ [Next]_vars => IDInv'
  <2>. SUFFICES ASSUME TypeOK, TypeOK', IDInv, [Next]_vars
                PROVE  IDInv'
    OBVIOUS
  <2>1. ASSUME UNCHANGED <<generator, mutex, issued, low>>
        PROVE  IDInv'
    <3>1. Exclusive'
      BY <2>1 DEF generator, IDInv, Exclusive
    <3>2. Alone' /\ NotBelow'
      BY <2>1 DEF generator, IDInv, Alone, NotBelow
    <3>3. Behind'
      BY <2>1 DEF generator, IDInv, Behind
    <3>. QED BY <2>1, <3>1, <3>2, <3>3, HistoryKept DEF IDInv
  <2>2. ASSUME NEW p \in Pods, NEW a \in Addresses \cup Unusable, StartPanics(p, a)
        PROVE  IDInv'
    <3>1. /\ starts' = starts + 1
          /\ UNCHANGED <<podIP, process, elapsed, sequence, mutex, issued, since, low>>
      BY <2>2 DEF StartPanics
    <3>2. Exclusive'
      BY <3>1, Typed DEF IDInv, Exclusive
    <3>3. Alone' /\ NotBelow'
      BY <3>1 DEF IDInv, Alone, NotBelow
    <3>4. Behind'
      BY <3>1 DEF IDInv, Behind
    <3>. QED BY <3>1, <3>2, <3>3, <3>4, HistoryKept DEF IDInv
  <2>3. ASSUME NEW p \in Pods, NEW c \in Callers, CallStep(p, c)
        PROVE  IDInv'
    BY <2>1, <2>3, NextIDKeeps, ToIDKeeps DEF CallStep, Call
  <2>4. ASSUME NEW p \in Pods, Tick(p) \/ \E t \in 0 .. MaxClock : SetBack(p, t)
        PROVE  IDInv'
    BY <2>1, <2>4 DEF Tick, SetBack
  <2>5. CASE UNCHANGED vars
    BY <2>1, <2>5 DEF vars, generator
  <2>. QED BY <2>2, <2>3, <2>4, <2>5, StartKeeps, CrashKeeps DEF Next
<1>. QED BY <1>1, <1>2, TypeCorrect, PTL DEF Spec

(* Equal IDs come from addresses that differ above 16 bits, or from a      *)
(* later process on the same address whose clock was not past the first.   *)
THEOREM UniqueIDsSafe == Spec => []UniqueIDs
BY IDInvInductive, IDInvUnique, PTL

(* The IDs of a process grow in the order they are made.                   *)
THEOREM AscendingSafe == Spec => []Ascending
<1>1. IDInv => Ascending
  BY DEF IDInv
<1>. QED BY <1>1, IDInvInductive, PTL

----------------------------------------------------------------------------
(* Numbers, loops and the splitting of strings *)

(* A nonempty set of numbers has a least.                                  *)
LEMMA LeastExists ==
  ASSUME NEW S \in SUBSET Nat, S # {}
  PROVE  \E n \in S : \A m \in S : n <= m
<1>1. \E x \in S : \A y \in S : <<y, x>> \notin OpToRel(<, Nat)
  BY WFMin, NatLessThanWellFounded, Zenon
<1>2. PICK x \in S : \A y \in S : ~(y < x)
  BY <1>1, Zenon DEF OpToRel
<1>3. \A y \in S : y \in Nat /\ x \in Nat
  OBVIOUS
<1>. QED BY <1>2, <1>3

(* A set of numbers that has 0, and with a number the next up to N.        *)
LEMMA UpTo ==
  ASSUME NEW N \in Nat, NEW S, 0 \in S, \A n \in 0 .. N : n < N /\ n \in S => n + 1 \in S
  PROVE  \A n \in 0 .. N : n \in S
<1>. SUFFICES ASSUME \E n \in 0 .. N : n \notin S
              PROVE  FALSE
  OBVIOUS
<1>. DEFINE T == {n \in 0 .. N : n \notin S}
<1>1. T \in SUBSET Nat /\ T # {}
  OBVIOUS
<1>2. PICK n \in T : \A m \in T : n <= m
  BY <1>1, LeastExists
<1>3. n # 0 /\ n \in 0 .. N
  BY <1>2
<1>4. n - 1 \in 0 .. N /\ n - 1 \notin T /\ n - 1 < N
  BY <1>2, <1>3
<1>5. n - 1 + 1 = n
  BY <1>3
<1>6. n - 1 \in S
  BY <1>4
<1>. QED BY <1>2, <1>4, <1>5, <1>6

(* The values that a loop of N steps, g[i] its step i, goes through.       *)
Loops(N, S, a, g) ==
  {f \in [0 .. N -> S] : f[0] = a /\ \A i \in 1 .. N : f[i] = g[i][f[i - 1]]}

(* A loop of N steps, g[i] its step i, has the values it goes through.     *)
LEMMA LoopExists ==
  ASSUME NEW N \in Nat, NEW S, NEW a \in S, NEW g, \A i \in 1 .. N, x \in S : g[i][x] \in S
  PROVE  Loops(N, S, a, g) # {}
<1>. DEFINE T == {n \in 0 .. N : \E f \in [0 .. n -> S] :
                    f[0] = a /\ \A i \in 1 .. n : f[i] = g[i][f[i - 1]]}
<1>1. 0 \in T
  <2>. DEFINE f == [i \in 0 .. 0 |-> a]
  <2>1. f \in [0 .. 0 -> S] /\ f[0] = a /\ \A i \in 1 .. 0 : f[i] = g[i][f[i - 1]]
    OBVIOUS
  <2>. HIDE DEF f
  <2>2. 0 \in 0 .. N
    OBVIOUS
  <2>. QED BY <2>1, <2>2
<1>2. ASSUME NEW n \in 0 .. N, n < N, n \in T
      PROVE  n + 1 \in T
  <2>1. PICK f \in [0 .. n -> S] : f[0] = a /\ \A i \in 1 .. n : f[i] = g[i][f[i - 1]]
    BY <1>2
  <2>. DEFINE h == [i \in 0 .. (n + 1) |-> IF i = n + 1 THEN g[n + 1][f[n]] ELSE f[i]]
  <2>2. n + 1 \in 0 .. N /\ n + 1 \in 1 .. N /\ f[n] \in S
    BY <1>2
  <2>3. g[n + 1][f[n]] \in S
    BY <2>2
  <2>4. h \in [0 .. (n + 1) -> S]
    BY <2>3
  <2>5. h[0] = a
    BY <2>1
  <2>6. ASSUME NEW i \in 1 .. (n + 1) PROVE h[i] = g[i][h[i - 1]]
    <3>1. CASE i = n + 1
      <4>1. h[i] = g[n + 1][f[n]] /\ h[i - 1] = f[n]
        BY <3>1
      <4>. QED BY <3>1, <4>1
    <3>2. CASE i # n + 1
      <4>1. i \in 1 .. n /\ h[i] = f[i] /\ h[i - 1] = f[i - 1]
        BY <3>2
      <4>. QED BY <4>1, <2>1
    <3>. QED BY <3>1, <3>2
  <2>. HIDE DEF h
  <2>. QED BY <2>2, <2>4, <2>5, <2>6
<1>. HIDE DEF T
<1>3. \A n \in 0 .. N : n \in T
  BY <1>1, <1>2, UpTo
<1>4. N \in 0 .. N
  OBVIOUS
<1>. QED BY <1>3, <1>4 DEF T, Loops

Scan(s, ch) ==
  CHOOSE pieces : pieces = [i \in 0 .. Len(s) |->
        IF i = 0 THEN << <<>> >> ELSE Scanned(pieces[i - 1], s[i], ch)]

Words == Seq(Nat)
PieceLists == Seq(Words) \ {<<>>}

(* A string with one more character is a string.                           *)
LEMMA WordsGrow ==
  /\ <<>> \in Words
  /\ \A p \in Words, c \in Nat : Append(p, c) \in Words
BY DEF Words

(* The length and the characters of a string.                              *)
LEMMA WordType ==
  ASSUME NEW s \in Words
  PROVE  Len(s) \in Nat /\ \A i \in 1 .. Len(s) : s[i] \in Nat
BY DEF Words

(* Split returns what was found when the last character is read.           *)
LEMMA SplitIsScan ==
  ASSUME NEW s, NEW ch
  PROVE  Split(s, ch) = Scan(s, ch)[Len(s)]
BY Zenon DEF Split, Scan

(* With every character that Split reads it has found a list of strings,   *)
(* never an empty one.                                                     *)
LEMMA ScannedType ==
  ASSUME NEW x \in PieceLists, NEW c \in Nat, NEW ch
  PROVE  Scanned(x, c, ch) \in PieceLists
<1>1. x \in Seq(Words) /\ x # <<>>
  BY DEF PieceLists
<1>2. Append(x, <<>>) \in PieceLists
  <2>1. <<>> \in Words
    BY WordsGrow
  <2>2. Append(x, <<>>) \in Seq(Words) /\ Append(x, <<>>) # <<>>
    BY <1>1, <2>1, AppendProperties
  <2>. QED BY <2>2 DEF PieceLists
<1>3. Len(x) \in 1 .. Len(x)
  BY <1>1
<1>4. Append(x[Len(x)], c) \in Words
  BY <1>1, <1>3, WordsGrow, ElementOfSeq
<1>5. [x EXCEPT ![Len(x)] = Append(@, c)] \in PieceLists
  BY <1>1, <1>3, <1>4, ExceptSeq DEF PieceLists
<1>. QED BY <1>2, <1>5 DEF Scanned

(* Pieces in front make no difference to a step.                           *)
LEMMA ScannedConcat ==
  ASSUME NEW a \in Seq(Words), NEW b \in PieceLists, NEW c \in Nat, NEW ch
  PROVE  Scanned(a \o b, c, ch) = a \o Scanned(b, c, ch)
<1>1. b \in Seq(Words) /\ b # <<>> /\ <<>> \in Words
  BY WordsGrow DEF PieceLists
<1>2. /\ Len(a) \in Nat /\ Len(b) \in Nat /\ Len(b) >= 1
      /\ a \o b \in Seq(Words) /\ Len(a \o b) = Len(a) + Len(b)
      /\ \A i \in 1 .. Len(a) + Len(b) : (a \o b)[i] = IF i <= Len(a) THEN a[i] ELSE b[i - Len(a)]
  BY <1>1, ConcatProperties, EmptySeq
<1>3. PICK w : w = a \o b
  OBVIOUS
<1>4. CASE c = ch
  <2>1. PICK e : e = << <<>> >>
    OBVIOUS
  <2>2. e \in Seq(Words)
    BY <1>1, <2>1
  <2>3. Append(w, <<>>) = w \o e
    BY <1>1, <1>2, <1>3, <2>1, AppendIsConcat
  <2>4. Append(b, <<>>) = b \o e
    BY <1>1, <2>1, AppendIsConcat
  <2>5. w \o e = a \o (b \o e)
    <3>1. (a \o b) \o e = a \o (b \o e)
      BY <1>1, <2>2
    <3>. QED BY <1>3, <3>1, Zenon
  <2>. QED BY <1>3, <1>4, <2>3, <2>4, <2>5 DEF Scanned
<1>5. CASE c # ch
  <2>1. PICK p : p = Append(b[Len(b)], c)
    OBVIOUS
  <2>2. PICK m : m = Len(b)
    OBVIOUS
  <2>3. m \in 1 .. Len(b)
    BY <1>2, <2>2
  <2>4. p \in Words
    BY <1>1, <2>1, <2>2, <2>3, ElementOfSeq, WordsGrow
  <2>5. PICK x : x = [b EXCEPT ![m] = p]
    OBVIOUS
  <2>6. /\ x \in Seq(Words) /\ Len(x) = Len(b)
        /\ \A j \in 1 .. Len(b) : x[j] = IF j = m THEN p ELSE b[j]
    BY <1>1, <2>3, <2>4, <2>5, ExceptSeq
  <2>7. PICK k : k = Len(a) + Len(b)
    OBVIOUS
  <2>8. k \in 1 .. Len(w) /\ k = Len(w) /\ w[k] = b[m]
    BY <1>2, <1>3, <2>2, <2>7
  <2>9. PICK y : y = [w EXCEPT ![k] = p]
    OBVIOUS
  <2>10. /\ y \in Seq(Words) /\ Len(y) = Len(w)
         /\ \A j \in 1 .. Len(w) : y[j] = IF j = k THEN p ELSE w[j]
    <3>1. w \in Seq(Words)
      BY <1>2, <1>3
    <3>2. /\ [w EXCEPT ![k] = p] \in Seq(Words) /\ Len([w EXCEPT ![k] = p]) = Len(w)
          /\ \A j \in 1 .. Len(w) : [w EXCEPT ![k] = p][j] = IF j = k THEN p ELSE w[j]
      BY <2>4, <2>8, <3>1
    <3>. QED BY <2>9, <3>2, Zenon
  <2>11. PICK z : z = a \o x
    OBVIOUS
  <2>12. /\ z \in Seq(Words) /\ Len(z) = Len(a) + Len(x)
         /\ \A i \in 1 .. Len(a) + Len(x) : z[i] = IF i <= Len(a) THEN a[i] ELSE x[i - Len(a)]
    <3>1. /\ a \o x \in Seq(Words) /\ Len(a \o x) = Len(a) + Len(x)
          /\ \A i \in 1 .. Len(a) + Len(x) :
               (a \o x)[i] = IF i <= Len(a) THEN a[i] ELSE x[i - Len(a)]
      BY <2>6, ConcatProperties, Zenon
    <3>. QED BY <2>11, <3>1, Zenon
  <2>13. \A i \in 1 .. Len(w) : w[i] = IF i <= Len(a) THEN a[i] ELSE b[i - Len(a)]
    BY <1>2, <1>3
  <2>14. Len(w) = Len(a) + Len(b) /\ Len(y) = Len(z)
    BY <1>2, <1>3, <2>6, <2>10, <2>12
  <2>15. \A j \in 1 .. Len(y) : y[j] = z[j]
    <3>. SUFFICES ASSUME NEW j \in 1 .. Len(y)
                  PROVE  y[j] = z[j]
      OBVIOUS
    <3>0. j \in 1 .. Len(w) /\ j \in 1 .. Len(a) + Len(x) /\ j \in Nat
      BY <1>2, <2>6, <2>10, <2>14
    <3>1. CASE j <= Len(a)
      <4>1. j # k
        BY <1>2, <2>7, <3>1
      <4>2. y[j] = a[j]
        BY <2>10, <2>13, <3>0, <3>1, <4>1
      <4>. QED BY <2>12, <3>0, <3>1, <4>2
    <3>2. CASE ~(j <= Len(a))
      <4>1. PICK i : i = j - Len(a)
        OBVIOUS
      <4>2. i \in 1 .. Len(b) /\ (j = k <=> i = m)
        BY <1>2, <2>2, <2>7, <2>14, <3>0, <3>2, <4>1
      <4>3. w[j] = b[i] /\ z[j] = x[i]
        BY <2>12, <2>13, <3>0, <3>2, <4>1
      <4>. QED BY <2>6, <2>10, <3>0, <4>2, <4>3
    <3>. QED BY <3>1, <3>2
  <2>16. y = z
    BY <2>10, <2>12, <2>14, <2>15, SeqEqual
  <2>17. Scanned(b, c, ch) = x
    BY <1>5, <2>1, <2>2, <2>5 DEF Scanned
  <2>18. Scanned(w, c, ch) = y
    <3>1. Scanned(w, c, ch) = [w EXCEPT ![Len(w)] = Append(w[Len(w)], c)]
      BY <1>5 DEF Scanned
    <3>2. Len(w) = k /\ w[k] = b[Len(b)]
      BY <2>2, <2>8
    <3>. QED BY <2>1, <2>9, <3>1, <3>2
  <2>. QED BY <1>3, <2>11, <2>16, <2>17, <2>18
<1>. QED BY <1>4, <1>5

(* Split starts with one empty piece and reads a character at a time.      *)
LEMMA ScanSteps ==
  ASSUME NEW s \in Words, NEW ch
  PROVE  /\ \A i \in 0 .. Len(s) : Scan(s, ch)[i] \in PieceLists
         /\ Scan(s, ch)[0] = << <<>> >>
         /\ \A i \in 1 .. Len(s) : Scan(s, ch)[i] = Scanned(Scan(s, ch)[i - 1], s[i], ch)
<1>. DEFINE g == [i \in 1 .. Len(s) |-> [x \in PieceLists |-> Scanned(x, s[i], ch)]]
<1>1. PICK a : a = << <<>> >>
  OBVIOUS
<1>2. a \in PieceLists
  BY <1>1, WordsGrow DEF PieceLists
<1>3. \A i \in 1 .. Len(s), x \in PieceLists : g[i][x] = Scanned(x, s[i], ch)
  OBVIOUS
<1>4. Len(s) \in Nat /\ \A i \in 1 .. Len(s) : s[i] \in Nat
  BY WordType
<1>. HIDE DEF g
<1>5. PICK f \in [0 .. Len(s) -> PieceLists] :
        f[0] = a /\ \A i \in 1 .. Len(s) : f[i] = g[i][f[i - 1]]
  <2>1. \A i \in 1 .. Len(s), x \in PieceLists : g[i][x] \in PieceLists
    BY <1>3, <1>4, ScannedType
  <2>2. Loops(Len(s), PieceLists, a, g) # {}
    BY <1>2, <2>1, <1>4, LoopExists
  <2>. QED BY <2>2 DEF Loops
<1>6. \A i \in 0 .. Len(s) : i # 0 => i \in 1 .. Len(s) /\ i - 1 \in 0 .. Len(s)
  BY <1>4
<1>7. f = [i \in 0 .. Len(s) |-> IF i = 0 THEN << <<>> >> ELSE Scanned(f[i - 1], s[i], ch)]
  <2>1. \A i \in 0 .. Len(s) : f[i] \in PieceLists
    BY <1>5
  <2>. QED BY <1>1, <1>3, <1>5, <1>6, <2>1, Zenon
<1>8. PICK h : h = Scan(s, ch)
  OBVIOUS
<1>9. h = [i \in 0 .. Len(s) |-> IF i = 0 THEN << <<>> >> ELSE Scanned(h[i - 1], s[i], ch)]
  BY <1>7, <1>8, Zenon DEF Scan
<1>10. h[0] = a /\ \A i \in 1 .. Len(s) : h[i] = Scanned(h[i - 1], s[i], ch)
  <2>1. 0 \in 0 .. Len(s) /\ \A i \in 1 .. Len(s) : i \in 0 .. Len(s) /\ i # 0
    BY <1>4
  <2>. QED BY <1>1, <1>9, <2>1, Zenon
<1>11. \A n \in 0 .. Len(s) : h[n] \in PieceLists
  <2>. DEFINE T == {n \in 0 .. Len(s) : h[n] \in PieceLists}
  <2>1. 0 \in T
    BY <1>2, <1>4, <1>10
  <2>2. ASSUME NEW n \in 0 .. Len(s), n < Len(s), n \in T
        PROVE  n + 1 \in T
    <3>1. n + 1 \in 1 .. Len(s) /\ n + 1 - 1 = n
      BY <1>4, <2>2
    <3>. QED BY <1>4, <1>10, <2>2, <3>1, ScannedType
  <2>. HIDE DEF T
  <2>3. \A n \in 0 .. Len(s) : n \in T
    BY <1>4, <2>1, <2>2, UpTo
  <2>. QED BY <2>3 DEF T
<1>. QED BY <1>1, <1>8, <1>10, <1>11, Zenon

(* Strings that begin alike are split alike as far as that.                *)
LEMMA ScanAgrees ==
  ASSUME NEW s \in Words, NEW u \in Words, NEW ch,
         Len(s) <= Len(u), \A i \in 1 .. Len(s) : u[i] = s[i]
  PROVE  \A n \in 0 .. Len(s) : Scan(u, ch)[n] = Scan(s, ch)[n]
<1>. DEFINE T == {n \in 0 .. Len(s) : Scan(u, ch)[n] = Scan(s, ch)[n]}
<1>1. Len(s) \in Nat /\ Len(u) \in Nat
  OBVIOUS
<1>2. 0 \in T
  <2>1. Scan(u, ch)[0] = Scan(s, ch)[0]
    BY ScanSteps
  <2>. QED BY <1>1, <2>1
<1>3. ASSUME NEW n \in 0 .. Len(s), n < Len(s), n \in T
      PROVE  n + 1 \in T
  <2>1. PICK i : i = n + 1
    OBVIOUS
  <2>2. i \in 1 .. Len(s) /\ i \in 1 .. Len(u) /\ i - 1 = n /\ i \in 0 .. Len(s)
    BY <1>1, <1>3, <2>1
  <2>3. Scan(u, ch)[i - 1] = Scan(s, ch)[i - 1]
    BY <1>3, <2>2
  <2>4. /\ Scan(u, ch)[i] = Scanned(Scan(u, ch)[i - 1], u[i], ch)
        /\ Scan(s, ch)[i] = Scanned(Scan(s, ch)[i - 1], s[i], ch)
    BY <2>2, ScanSteps
  <2>. QED BY <2>1, <2>2, <2>3, <2>4
<1>. HIDE DEF T
<1>4. \A n \in 0 .. Len(s) : n \in T
  BY <1>1, <1>2, <1>3, UpTo
<1>. QED BY <1>4 DEF T

(* Two strings around a separator are split one after the other.           *)
LEMMA SplitOfConcat ==
  ASSUME NEW s \in Words, NEW t \in Words, NEW ch \in Nat
  PROVE  Split((s \o <<ch>>) \o t, ch) = Split(s, ch) \o Split(t, ch)
<1>1. PICK u : u = (s \o <<ch>>) \o t
  OBVIOUS
<1>2. /\ u \in Words /\ Len(u) = Len(s) + 1 + Len(t)
      /\ Len(s) \in Nat /\ Len(t) \in Nat
      /\ \A i \in 1 .. Len(s) : u[i] = s[i]
      /\ u[Len(s) + 1] = ch
      /\ \A i \in 1 .. Len(t) : u[Len(s) + 1 + i] = t[i]
  BY <1>1 DEF Words
<1>3. PICK a : a = Scan(s, ch)[Len(s)]
  OBVIOUS
<1>4. a \in PieceLists /\ Scan(u, ch)[Len(s)] = a
  <2>1. Len(s) \in 0 .. Len(s) /\ Len(s) <= Len(u)
    BY <1>2
  <2>2. Scan(u, ch)[Len(s)] = Scan(s, ch)[Len(s)]
    BY <1>2, <2>1, ScanAgrees
  <2>3. Scan(s, ch)[Len(s)] \in PieceLists
    BY <2>1, ScanSteps
  <2>. QED BY <1>3, <2>2, <2>3
<1>5. a \in Seq(Words)
  BY <1>4 DEF PieceLists
<1>. DEFINE T == {n \in 0 .. Len(t) : Scan(u, ch)[Len(s) + 1 + n] = a \o Scan(t, ch)[n]}
<1>6. 0 \in T
  <2>1. PICK i : i = Len(s) + 1
    OBVIOUS
  <2>2. i \in 1 .. Len(u) /\ i - 1 = Len(s) /\ u[i] = ch
    BY <1>2, <2>1
  <2>3. Scan(u, ch)[i] = Scanned(Scan(u, ch)[i - 1], u[i], ch)
    BY <1>2, <2>2, ScanSteps
  <2>4. Scan(u, ch)[i] = Append(a, <<>>)
    BY <1>4, <2>2, <2>3 DEF Scanned
  <2>5. Append(a, <<>>) = a \o << <<>> >>
    BY <1>5, AppendIsConcat, EmptySeq
  <2>6. Scan(t, ch)[0] = << <<>> >>
    BY ScanSteps
  <2>7. Len(s) + 1 + 0 = i /\ 0 \in 0 .. Len(t)
    BY <1>2, <2>1
  <2>. QED BY <2>4, <2>5, <2>6, <2>7
<1>7. ASSUME NEW n \in 0 .. Len(t), n < Len(t), n \in T
      PROVE  n + 1 \in T
  <2>1. PICK i : i = Len(s) + 1 + (n + 1)
    OBVIOUS
  <2>2. PICK j : j = n + 1
    OBVIOUS
  <2>0. Len(s) \in Nat /\ Len(t) \in Nat /\ Len(u) = Len(s) + 1 + Len(t) /\ n \in Nat /\ n < Len(t)
    BY <1>2, <1>7
  <2>3. /\ i \in 1 .. Len(u) /\ i - 1 = Len(s) + 1 + n
        /\ j \in 1 .. Len(t) /\ j - 1 = n /\ j \in 0 .. Len(t) /\ n \in 0 .. Len(t)
        /\ i = Len(s) + 1 + j
    BY <2>0, <2>1, <2>2
  <2>4. u[i] = t[j] /\ t[j] \in Nat
    <3>1. u[Len(s) + 1 + j] = t[j]
      BY <1>2, <2>3
    <3>2. t[j] \in Nat
      BY <2>3, WordType
    <3>. QED BY <2>3, <3>1, <3>2
  <2>5. PICK b : b = Scan(t, ch)[n]
    OBVIOUS
  <2>6. b \in PieceLists
    BY <2>3, <2>5, ScanSteps
  <2>7. Scan(u, ch)[i] = Scanned(a \o b, t[j], ch)
    <3>1. Scan(u, ch)[i] = Scanned(Scan(u, ch)[i - 1], u[i], ch)
      BY <1>2, <2>3, ScanSteps
    <3>2. Scan(u, ch)[i - 1] = a \o b
      <4>1. Scan(u, ch)[Len(s) + 1 + n] = a \o Scan(t, ch)[n]
        BY <1>7
      <4>. QED BY <2>3, <2>5, <4>1
    <3>. QED BY <2>4, <3>1, <3>2
  <2>8. Scan(t, ch)[j] = Scanned(b, t[j], ch)
    <3>1. Scan(t, ch)[j] = Scanned(Scan(t, ch)[j - 1], t[j], ch)
      BY <2>3, ScanSteps
    <3>. QED BY <2>3, <2>5, <3>1
  <2>9. Scanned(a \o b, t[j], ch) = a \o Scanned(b, t[j], ch)
    <3>1. t[j] \in Nat
      BY <2>4
    <3>2. PICK c \in Nat : c = t[j]
      BY <3>1
    <3>3. Scanned(a \o b, c, ch) = a \o Scanned(b, c, ch)
      BY <1>5, <2>6, ScannedConcat
    <3>. QED BY <3>2, <3>3
  <2>10. Scan(u, ch)[i] = a \o Scan(t, ch)[j]
    BY <2>7, <2>8, <2>9
  <2>11. Scan(u, ch)[Len(s) + 1 + j] = a \o Scan(t, ch)[j]
    BY <2>3, <2>10
  <2>. QED BY <2>2, <2>3, <2>11
<1>. HIDE DEF T
<1>8. \A n \in 0 .. Len(t) : n \in T
  BY <1>2, <1>6, <1>7, UpTo
<1>9. Len(t) \in T
  BY <1>2, <1>8
<1>10. Scan(u, ch)[Len(u)] = a \o Scan(t, ch)[Len(t)]
  BY <1>2, <1>9 DEF T
<1>. QED BY <1>1, <1>3, <1>10, SplitIsScan

----------------------------------------------------------------------------
(* Trimming, and strings cut up at a separator *)

(* A nonempty set of numbers up to n has a largest.                        *)
LEMMA LargestExists ==
  ASSUME NEW n \in Nat, NEW S \in SUBSET (1 .. n), S # {}
  PROVE  \E i \in S : \A j \in S : j <= i
<1>. DEFINE T == {n - i : i \in S}
<1>1. T \in SUBSET Nat /\ T # {}
  <2>1. \A i \in S : n - i \in Nat
    OBVIOUS
  <2>2. PICK i \in S : TRUE
    OBVIOUS
  <2>3. n - i \in T
    OBVIOUS
  <2>. QED BY <2>1, <2>3
<1>2. PICK x \in T : \A y \in T : x <= y
  BY <1>1, LeastExists
<1>3. PICK i \in S : x = n - i
  OBVIOUS
<1>4. \A j \in S : n - i <= n - j
  BY <1>2, <1>3
<1>5. S \subseteq Nat
  OBVIOUS
<1>6. \A j \in S : j \in Nat /\ i \in Nat
  BY <1>5
<1>. QED BY <1>4, <1>6

(* The characters of s between the places a and b are those that stay.     *)
Stays(s, ch, a, b) ==
  /\ a \in 1 .. Len(s) /\ b \in 1 .. Len(s) /\ a <= b
  /\ s[a] # ch /\ s[b] # ch
  /\ \A i \in 1 .. Len(s) : i < a \/ b < i => s[i] = ch

(* strings.Trim drops everything, or keeps what is between the first and   *)
(* the last character to stay.                                             *)
LEMMA TrimOf ==
  ASSUME NEW s \in Words, NEW ch
  PROVE  \/ Trim(s, ch) = <<>> /\ \A i \in 1 .. Len(s) : s[i] = ch
         \/ \E a, b \in 1 .. Len(s) : Stays(s, ch, a, b) /\ Trim(s, ch) = SubSeq(s, a, b)
<1>. DEFINE K == {i \in 1 .. Len(s) : s[i] # ch}
<1>1. Len(s) \in Nat
  BY WordType
<1>2. Trim(s, ch) = IF K = {} THEN <<>> ELSE SubSeq(s, Min(K), Max(K))
  BY Zenon DEF Trim
<1>3. CASE K = {}
  BY <1>2, <1>3
<1>4. CASE K # {}
  <2>1. K \in SUBSET (1 .. Len(s)) /\ K \in SUBSET Nat
    BY <1>1
  <2>2. \E i \in K : \A j \in K : i >= j
    <3>1. PICK i \in K : \A j \in K : j <= i
      BY <1>1, <1>4, <2>1, LargestExists
    <3>. QED BY <3>1, <2>1
  <2>3. \E i \in K : \A j \in K : i <= j
    BY <1>4, <2>1, LeastExists
  <2>4. \A i \in 1 .. Len(s) : i \in K <=> s[i] # ch
    OBVIOUS
  <2>. HIDE DEF K
  <2>5. Max(K) \in K /\ \A j \in K : Max(K) >= j
    BY <2>2, Zenon DEF Max
  <2>6. Min(K) \in K /\ \A j \in K : Min(K) <= j
    BY <2>3, Zenon DEF Min
  <2>7. PICK a : a = Min(K)
    OBVIOUS
  <2>8. PICK b : b = Max(K)
    OBVIOUS
  <2>9. /\ a \in K /\ b \in K /\ a \in 1 .. Len(s) /\ b \in 1 .. Len(s)
        /\ \A j \in K : a <= j /\ b >= j
    BY <2>1, <2>5, <2>6, <2>7, <2>8
  <2>10. \A i \in 1 .. Len(s) : i < a \/ b < i => s[i] = ch
    BY <1>1, <2>4, <2>9
  <2>11. a <= b /\ s[a] # ch /\ s[b] # ch
    BY <1>1, <2>4, <2>9
  <2>12. Stays(s, ch, a, b)
    BY <2>9, <2>10, <2>11 DEF Stays
  <2>13. Trim(s, ch) = SubSeq(s, a, b)
    BY <1>2, <1>4, <2>7, <2>8
  <2>. QED BY <2>9, <2>12, <2>13
<1>. QED BY <1>3, <1>4

(* That fixes what is trimmed to.                                          *)
LEMMA TrimTo ==
  ASSUME NEW s \in Words, NEW ch, NEW a, NEW b, Stays(s, ch, a, b)
  PROVE  Trim(s, ch) = SubSeq(s, a, b)
<1>1. Len(s) \in Nat /\ a \in 1 .. Len(s) /\ b \in 1 .. Len(s) /\ s[a] # ch /\ s[b] # ch
  BY WordType DEF Stays
<1>2. PICK c, d \in 1 .. Len(s) : Stays(s, ch, c, d) /\ Trim(s, ch) = SubSeq(s, c, d)
  BY <1>1, TrimOf
<1>3. c = a /\ d = b
  BY <1>1, <1>2 DEF Stays
<1>. QED BY <1>2, <1>3

(* What is left when a string is cut out of another.                       *)
LEMMA CutOut ==
  ASSUME NEW s \in Words, NEW a \in 1 .. Len(s), NEW b \in 1 .. Len(s), a <= b
  PROVE  /\ SubSeq(s, a, b) \in Words /\ Len(SubSeq(s, a, b)) = b - a + 1
         /\ \A i \in 1 .. b - a + 1 : SubSeq(s, a, b)[i] = s[a + i - 1]
<1>1. Len(s) \in Nat /\ \A i \in a .. b : s[i] \in Nat
  BY WordType
<1>2. a \in Int /\ b \in Int
  BY <1>1
<1>3. /\ SubSeq(s, a, b) \in Seq(Nat)
      /\ Len(SubSeq(s, a, b)) = IF a <= b THEN b - a + 1 ELSE 0
      /\ \A i \in 1 .. b - a + 1 : SubSeq(s, a, b)[i] = s[a + i - 1]
  BY <1>1, <1>2, SubSeqProperties
<1>. QED BY <1>3 DEF Words

(* A trimmed string is a string.                                           *)
LEMMA TrimType ==
  ASSUME NEW s \in Words, NEW ch
  PROVE  Trim(s, ch) \in Words
<1>1. CASE Trim(s, ch) = <<>>
  BY <1>1, WordsGrow
<1>2. CASE \E a, b \in 1 .. Len(s) : Stays(s, ch, a, b) /\ Trim(s, ch) = SubSeq(s, a, b)
  BY <1>2, CutOut DEF Stays
<1>. QED BY <1>1, <1>2, TrimOf

(* A string without ch at its ends stays as it is.                         *)
LEMMA TrimSame ==
  ASSUME NEW s \in Words, NEW ch, s # <<>> => s[1] # ch /\ s[Len(s)] # ch
  PROVE  Trim(s, ch) = s
<1>1. Len(s) \in Nat /\ (s # <<>> => Len(s) >= 1) /\ SubSeq(s, 1, Len(s)) = s
  BY SubSeqFull, EmptySeq DEF Words
<1>2. CASE s = <<>>
  <2>1. Len(s) = 0
    BY <1>2
  <2>. QED BY <1>2, <2>1, TrimOf
<1>3. CASE s # <<>>
  <2>1. Stays(s, ch, 1, Len(s))
    BY <1>1, <1>3 DEF Stays
  <2>. QED BY <1>1, <2>1, TrimTo
<1>. QED BY <1>2, <1>3

(* Trimming leaves no ch at either end.                                    *)
LEMMA TrimEnds ==
  ASSUME NEW s \in Words, NEW ch
  PROVE  LET r == Trim(s, ch) IN r # <<>> => r[1] # ch /\ r[Len(r)] # ch
<1>1. PICK r : r = Trim(s, ch)
  OBVIOUS
<1>2. ASSUME NEW a \in 1 .. Len(s), NEW b \in 1 .. Len(s), Stays(s, ch, a, b), r = SubSeq(s, a, b)
      PROVE  r[1] # ch /\ r[Len(r)] # ch
  <2>1. a <= b /\ s[a] # ch /\ s[b] # ch /\ Len(s) \in Nat
    BY <1>2, WordType DEF Stays
  <2>2. Len(r) = b - a + 1 /\ \A i \in 1 .. b - a + 1 : r[i] = s[a + i - 1]
    BY <1>2, <2>1, CutOut
  <2>3. 1 \in 1 .. b - a + 1 /\ b - a + 1 \in 1 .. b - a + 1 /\ a + 1 - 1 = a /\ a + (b - a + 1) - 1 = b
    BY <2>1
  <2>4. r[1] = s[a] /\ r[b - a + 1] = s[b]
    BY <2>2, <2>3
  <2>. QED BY <2>1, <2>2, <2>4
<1>. QED BY <1>1, <1>2, TrimOf

(* Trimming twice is trimming once.                                        *)
LEMMA TrimTwice ==
  ASSUME NEW s \in Words, NEW ch
  PROVE  Trim(Trim(s, ch), ch) = Trim(s, ch)
<1>1. PICK r : r = Trim(s, ch)
  OBVIOUS
<1>2. r \in Words /\ (r # <<>> => r[1] # ch /\ r[Len(r)] # ch)
  BY <1>1, TrimType, TrimEnds
<1>3. Trim(r, ch) = r
  BY <1>2, TrimSame
<1>. QED BY <1>1, <1>3

(* Each piece of a string was cut out of it, the last one at its end, and  *)
(* has no separator.                                                       *)
IsCut(s, n, p) == \E a \in 1 .. n + 1, b \in 0 .. n : a <= b + 1 /\ p = SubSeq(s, a, b)
EndsAt(s, n, p) == \E a \in 1 .. n + 1 : p = SubSeq(s, a, n)
Free(p, ch) == \A i \in 1 .. Len(p) : p[i] # ch

CutUp(x, s, n, ch) ==
  /\ \A q \in 1 .. Len(x) : IsCut(s, n, x[q]) /\ Free(x[q], ch)
  /\ EndsAt(s, n, x[Len(x)])

(* The pieces found so far cut up what was read so far: each lies between  *)
(* two separators, or between one and an end, and none has a separator in  *)
(* it.                                                                     *)
LEMMA CutUpStep ==
  ASSUME NEW s \in Words, NEW n \in Nat, n < Len(s), NEW ch, NEW x \in PieceLists, CutUp(x, s, n, ch)
  PROVE  CutUp(Scanned(x, s[n + 1], ch), s, n + 1, ch)
<1>1. /\ Len(s) \in Nat /\ s[n + 1] \in Nat /\ n + 1 \in 1 .. Len(s)
      /\ x \in Seq(Words) /\ Len(x) \in Nat /\ Len(x) >= 1
  <2>1. Len(s) \in Nat /\ n + 1 \in 1 .. Len(s)
    BY WordType
  <2>2. s[n + 1] \in Nat
    BY <2>1, WordType
  <2>3. x \in Seq(Words) /\ x # <<>>
    BY DEF PieceLists
  <2>. QED BY <2>1, <2>2, <2>3, EmptySeq
<1>2. PICK m : m = n + 1
  OBVIOUS
<1>3. m \in 1 .. Len(s) /\ m \in Nat /\ s[m] \in Nat /\ m - 1 = n
  BY <1>1, <1>2
<1>4. ASSUME NEW p, IsCut(s, n, p)
      PROVE  IsCut(s, m, p)
  BY <1>2, <1>4 DEF IsCut
<1>5. CASE s[m] = ch
  <2>1. PICK y : y = Append(x, <<>>)
    OBVIOUS
  <2>2. /\ y \in Seq(Words) /\ Len(y) = Len(x) + 1 /\ y[Len(x) + 1] = <<>>
        /\ \A q \in 1 .. Len(x) : y[q] = x[q]
    BY <1>1, <2>1, WordsGrow, AppendProperties
  <2>3. Scanned(x, s[m], ch) = y
    BY <1>5, <2>1 DEF Scanned
  <2>4. <<>> = SubSeq(s, m + 1, m)
    BY <1>3, SubSeqEmpty
  <2>5. EndsAt(s, m, <<>>)
    <3>1. m + 1 \in 1 .. m + 1
      BY <1>3
    <3>. QED BY <2>4, <3>1 DEF EndsAt
  <2>6. IsCut(s, m, <<>>) /\ Free(<<>>, ch)
    <3>1. m + 1 \in 1 .. m + 1 /\ m \in 0 .. m /\ m + 1 <= m + 1
      BY <1>3
    <3>2. IsCut(s, m, <<>>)
      BY <2>4, <3>1 DEF IsCut
    <3>3. Free(<<>>, ch)
      BY DEF Free
    <3>. QED BY <3>2, <3>3
  <2>7. ASSUME NEW q \in 1 .. Len(y) PROVE IsCut(s, m, y[q]) /\ Free(y[q], ch)
    <3>1. CASE q = Len(x) + 1
      BY <2>2, <2>6, <3>1
    <3>2. CASE q # Len(x) + 1
      <4>1. q \in 1 .. Len(x)
        BY <1>1, <2>2, <3>2
      <4>2. IsCut(s, n, x[q]) /\ Free(x[q], ch) /\ y[q] = x[q]
        BY <2>2, <4>1 DEF CutUp
      <4>. QED BY <1>4, <4>2
    <3>. QED BY <3>1, <3>2
  <2>. QED BY <1>2, <2>2, <2>3, <2>5, <2>7 DEF CutUp
<1>6. CASE s[m] # ch
  <2>1. PICK k : k = Len(x)
    OBVIOUS
  <2>2. k \in 1 .. Len(x) /\ x[k] \in Words
    BY <1>1, <2>1, ElementOfSeq
  <2>3. PICK l \in Words : l = x[k]
    BY <2>2
  <2>4. PICK p \in Words : p = Append(l, s[m])
    BY <1>3, WordsGrow
  <2>5. PICK y : y = [x EXCEPT ![k] = p]
    OBVIOUS
  <2>6. /\ y \in Seq(Words) /\ Len(y) = Len(x)
        /\ \A q \in 1 .. Len(x) : y[q] = IF q = k THEN p ELSE x[q]
    BY <1>1, <2>2, <2>5
  <2>7. Scanned(x, s[m], ch) = y
    BY <1>6, <2>1, <2>3, <2>4, <2>5 DEF Scanned
  <2>8. PICK a \in 1 .. n + 1 : l = SubSeq(s, a, n)
    BY <2>1, <2>3 DEF CutUp, EndsAt
  <2>9. p = SubSeq(s, a, m)
    <3>1. PICK r : r = SubSeq(s, a, m)
      OBVIOUS
    <3>2. \A i \in a .. m : s[i] \in Nat
      BY <1>1, <1>3, WordType
    <3>3. a \in Int /\ m \in Int /\ n \in Int /\ a <= m /\ n = m - 1
      BY <1>2, <1>3
    <3>4. /\ r \in Seq(Nat) /\ Len(r) = m - a + 1
          /\ \A i \in 1 .. m - a + 1 : r[i] = s[a + i - 1]
      BY <3>1, <3>2, <3>3, SubSeqProperties
    <3>5. /\ l \in Seq(Nat) /\ Len(l) = IF a <= n THEN n - a + 1 ELSE 0
          /\ \A i \in 1 .. n - a + 1 : l[i] = s[a + i - 1]
      <4>1. \A i \in a .. n : s[i] \in Nat
        BY <3>2, <3>3
      <4>. QED BY <2>8, <3>3, <4>1, SubSeqProperties
    <3>6. Len(l) = n - a + 1
      BY <3>3, <3>5
    <3>7. /\ p \in Seq(Nat) /\ Len(p) = Len(l) + 1 /\ p[Len(l) + 1] = s[m]
          /\ \A i \in 1 .. Len(l) : p[i] = l[i]
      BY <1>3, <2>4, <3>5, AppendProperties
    <3>8. ASSUME NEW i \in 1 .. Len(p) PROVE p[i] = r[i]
      <4>0. i \in 1 .. m - a + 1 /\ i \in Nat
        BY <3>3, <3>6, <3>7
      <4>1. CASE i = Len(l) + 1
        <5>1. a + i - 1 = m
          BY <3>3, <3>6, <4>1
        <5>2. r[i] = s[m]
          BY <3>4, <4>0, <5>1
        <5>. QED BY <3>7, <4>1, <5>2
      <4>2. CASE i # Len(l) + 1
        <5>1. i \in 1 .. n - a + 1 /\ i \in 1 .. Len(l)
          BY <3>3, <3>6, <3>7, <4>0, <4>2
        <5>. QED BY <3>4, <3>5, <3>7, <4>0, <5>1
      <4>. QED BY <4>1, <4>2
    <3>9. Len(p) = Len(r)
      BY <3>3, <3>4, <3>6, <3>7
    <3>. QED BY <3>1, <3>4, <3>7, <3>8, <3>9, SeqEqual
  <2>10. a \in 1 .. m + 1 /\ m \in 0 .. m /\ a <= m + 1
    BY <1>2, <1>3
  <2>11. EndsAt(s, m, p) /\ IsCut(s, m, p)
    BY <2>9, <2>10 DEF EndsAt, IsCut
  <2>12. Free(p, ch)
    <3>1. Free(l, ch) 
      BY <2>2, <2>3 DEF CutUp
    <3>2. /\ Len(p) = Len(l) + 1 /\ p[Len(l) + 1] = s[m] /\ Len(l) \in Nat
          /\ \A i \in 1 .. Len(l) : p[i] = l[i]
      BY <1>3, <2>4 DEF Words
    <3>. QED BY <1>6, <3>1, <3>2 DEF Free
  <2>13. ASSUME NEW q \in 1 .. Len(y) PROVE IsCut(s, m, y[q]) /\ Free(y[q], ch)
    <3>1. q \in 1 .. Len(x)
      BY <2>6
    <3>2. CASE q = k
      BY <2>6, <2>11, <2>12, <3>1, <3>2
    <3>3. CASE q # k
      <4>1. IsCut(s, n, x[q]) /\ Free(x[q], ch) /\ y[q] = x[q]
        BY <2>6, <3>1, <3>3 DEF CutUp
      <4>. QED BY <1>4, <4>1
    <3>. QED BY <3>2, <3>3
  <2>14. y[Len(y)] = p
    BY <2>1, <2>2, <2>6
  <2>. QED BY <1>2, <2>7, <2>11, <2>13, <2>14 DEF CutUp
<1>. QED BY <1>2, <1>5, <1>6

(* strings.Split cuts the whole string up.                                 *)
LEMMA SplitCutUp ==
  ASSUME NEW s \in Words, NEW ch
  PROVE  Split(s, ch) \in PieceLists /\ CutUp(Split(s, ch), s, Len(s), ch)
<1>1. Len(s) \in Nat
  BY WordType
<1>. DEFINE T == {n \in 0 .. Len(s) : CutUp(Scan(s, ch)[n], s, n, ch)}
<1>2. 0 \in T
  <2>1. PICK x : x = << <<>> >>
    OBVIOUS
  <2>2. Len(x) = 1 /\ x[1] = <<>>
    BY <2>1
  <2>3. <<>> = SubSeq(s, 1, 0)
    BY SubSeqEmpty
  <2>4. IsCut(s, 0, <<>>) /\ EndsAt(s, 0, <<>>) /\ Free(<<>>, ch)
    BY <2>3 DEF IsCut, EndsAt, Free
  <2>5. CutUp(x, s, 0, ch)
    <3>1. \A q \in 1 .. Len(x) : x[q] = <<>>
      BY <2>2
    <3>. QED BY <2>2, <2>4, <3>1 DEF CutUp
  <2>6. Scan(s, ch)[0] = x
    BY <2>1, ScanSteps
  <2>. QED BY <1>1, <2>5, <2>6
<1>3. ASSUME NEW n \in 0 .. Len(s), n < Len(s), n \in T
      PROVE  n + 1 \in T
  <2>1. PICK i : i = n + 1
    OBVIOUS
  <2>2. n \in Nat /\ i \in 1 .. Len(s) /\ i - 1 = n /\ i \in 0 .. Len(s)
    BY <1>1, <1>3, <2>1
  <2>3. PICK x \in PieceLists : x = Scan(s, ch)[n]
    BY ScanSteps
  <2>4. CutUp(x, s, n, ch)
    BY <1>3, <2>3
  <2>5. CutUp(Scanned(x, s[n + 1], ch), s, n + 1, ch)
    BY <1>3, <2>2, <2>4, CutUpStep
  <2>6. Scan(s, ch)[i] = Scanned(x, s[i], ch)
    BY <2>2, <2>3, ScanSteps
  <2>. QED BY <2>1, <2>2, <2>5, <2>6
<1>. HIDE DEF T
<1>4. \A n \in 0 .. Len(s) : n \in T
  BY <1>1, <1>2, <1>3, UpTo
<1>5. Len(s) \in 0 .. Len(s)
  BY <1>1
<1>6. Len(s) \in T
  BY <1>4, <1>5
<1>7. CutUp(Scan(s, ch)[Len(s)], s, Len(s), ch)
  BY <1>6 DEF T
<1>8. Scan(s, ch)[Len(s)] \in PieceLists
  BY <1>5, ScanSteps
<1>. QED BY <1>7, <1>8, SplitIsScan

----------------------------------------------------------------------------
(* Quoted strings *)

(* A string without a separator is one piece.                              *)
LEMMA SplitFree ==
  ASSUME NEW s \in Words, NEW ch, Free(s, ch)
  PROVE  Split(s, ch) = <<s>>
<1>1. Len(s) \in Nat
  BY WordType
<1>2. ASSUME NEW n \in 0 .. Len(s)
      PROVE  SubSeq(s, 1, n) \in Words /\ Len(SubSeq(s, 1, n)) = n
  BY <1>1 DEF Words
<1>. DEFINE T == {n \in 0 .. Len(s) : Scan(s, ch)[n] = <<SubSeq(s, 1, n)>>}
<1>3. 0 \in T
  <2>1. <<>> = SubSeq(s, 1, 0)
    BY SubSeqEmpty
  <2>2. Scan(s, ch)[0] = <<SubSeq(s, 1, 0)>>
    BY <2>1, ScanSteps
  <2>. QED BY <1>1, <2>2
<1>4. ASSUME NEW n \in 0 .. Len(s), n < Len(s), n \in T
      PROVE  n + 1 \in T
  <2>1. PICK i : i = n + 1
    OBVIOUS
  <2>2. n \in Nat /\ i \in 1 .. Len(s) /\ i - 1 = n /\ i \in 0 .. Len(s)
    BY <1>1, <1>4, <2>1
  <2>3. PICK c \in Nat : c = s[i]
    BY <2>2, WordType
  <2>4. PICK p \in Words : p = SubSeq(s, 1, n)
    BY <1>2
  <2>5. Scan(s, ch)[i] = Scanned(<<p>>, c, ch)
    <3>1. Scan(s, ch)[n] = <<p>>
      BY <1>4, <2>4
    <3>. QED BY <2>2, <2>3, <3>1, ScanSteps
  <2>6. c # ch
    BY <2>2, <2>3 DEF Free
  <2>7. Scanned(<<p>>, c, ch) = <<Append(p, c)>>
    BY <2>6 DEF Scanned
  <2>8. Append(p, c) = SubSeq(s, 1, i)
    BY <1>1, <2>1, <2>2, <2>3, <2>4 DEF Words
  <2>. QED BY <2>1, <2>2, <2>5, <2>7, <2>8
<1>. HIDE DEF T
<1>5. \A n \in 0 .. Len(s) : n \in T
  BY <1>1, <1>3, <1>4, UpTo
<1>6. Len(s) \in T
  BY <1>1, <1>5
<1>7. Scan(s, ch)[Len(s)] = <<SubSeq(s, 1, Len(s))>>
  BY <1>6 DEF T
<1>8. SubSeq(s, 1, Len(s)) = s
  BY SubSeqFull DEF Words
<1>. QED BY <1>7, <1>8, SplitIsScan

(* A part of a string, between two of its places, is one of its pieces.    *)
LEMMA SubSeqsHas ==
  ASSUME NEW t, NEW i \in 0 .. Len(t), NEW j \in 0 .. Len(t)
  PROVE  SubSeq(t, i + 1, j) \in SubSeqs(t)
BY DEF SubSeqs

(* A quoted tag is the tag between two quotes.                             *)
LEMMA QuotedWord ==
  ASSUME NEW t \in Words
  PROVE  LET q == Quoted(t)
         IN  /\ q \in Words /\ Len(q) = Len(t) + 2 /\ Len(t) \in Nat
             /\ q[1] = Quote /\ q[Len(t) + 2] = Quote
             /\ \A i \in 1 .. Len(t) : q[i + 1] = t[i]
BY DEF Quoted, Quote, Words

(* What is trimmed of a piece of a quoted tag is a piece of the tag.       *)
LEMMA PieceInside ==
  ASSUME NEW t \in Words, NEW p, IsCut(Quoted(t), Len(Quoted(t)), p)
  PROVE  Trim(p, Quote) \in SubSeqs(t)
<1>1. PICK q : q = Quoted(t)
  OBVIOUS
<1>2. /\ q \in Words /\ Len(q) = Len(t) + 2 /\ Len(t) \in Nat /\ q[1] = Quote /\ q[Len(t) + 2] = Quote
      /\ \A i \in 1 .. Len(t) : q[i + 1] = t[i]
  BY <1>1, QuotedWord
<1>3. PICK a \in 1 .. Len(q) + 1, b \in 0 .. Len(q) : a <= b + 1 /\ p = SubSeq(q, a, b)
  BY <1>1 DEF IsCut
<1>4. a \in Nat /\ b \in Nat /\ a >= 1 /\ b <= Len(t) + 2
  BY <1>2, <1>3
<1>5. /\ p \in Words /\ Len(p) = b - a + 1
      /\ \A i \in 1 .. b - a + 1 : p[i] = q[a + i - 1]
  <2>1. \A i \in a .. b : q[i] \in Nat
    BY <1>2, <1>3, <1>4, WordType
  <2>2. /\ SubSeq(q, a, b) \in Seq(Nat) /\ Len(SubSeq(q, a, b)) = IF a <= b THEN b - a + 1 ELSE 0
        /\ \A i \in 1 .. b - a + 1 : SubSeq(q, a, b)[i] = q[a + i - 1]
    BY <1>4, <2>1, SubSeqProperties
  <2>. QED BY <1>3, <1>4, <2>2 DEF Words
<1>6. CASE Trim(p, Quote) = <<>>
  <2>1. PICK i \in 0 .. Len(t) : i = 0
    BY <1>2
  <2>2. SubSeq(t, i + 1, i) = <<>>
    BY <2>1, SubSeqEmpty
  <2>. QED BY <1>6, <2>2, SubSeqsHas
<1>7. ASSUME NEW c \in 1 .. Len(p), NEW d \in 1 .. Len(p),
             Stays(p, Quote, c, d), Trim(p, Quote) = SubSeq(p, c, d)
      PROVE  Trim(p, Quote) \in SubSeqs(t)
  <2>1. /\ c \in Nat /\ d \in Nat /\ c <= d /\ p[c] # Quote /\ p[d] # Quote
        /\ c \in 1 .. b - a + 1 /\ d \in 1 .. b - a + 1
    BY <1>4, <1>5, <1>7 DEF Stays
  <2>2. PICK e : e = a + c - 1
    OBVIOUS
  <2>3. PICK f : f = a + d - 1
    OBVIOUS
  <2>4. e \in Nat /\ f \in Nat /\ 1 <= e /\ e <= f /\ f <= Len(t) + 2 /\ f - e = d - c
    BY <1>2, <1>4, <2>1, <2>2, <2>3
  <2>5. q[e] # Quote /\ q[f] # Quote
    BY <1>5, <2>1, <2>2, <2>3
  <2>6. 2 <= e /\ f <= Len(t) + 1
    BY <1>2, <2>4, <2>5
  <2>7. PICK r : r = SubSeq(p, c, d)
    OBVIOUS
  <2>8. r \in Words /\ Len(r) = d - c + 1 /\ \A i \in 1 .. d - c + 1 : r[i] = p[c + i - 1]
    BY <1>5, <1>7, <2>1, <2>7, CutOut
  <2>9. PICK w : w = SubSeq(t, e - 2 + 1, f - 1)
    OBVIOUS
  <2>10. e - 2 + 1 \in 1 .. Len(t) /\ f - 1 \in 1 .. Len(t) /\ e - 2 + 1 <= f - 1
    BY <1>2, <2>4, <2>6
  <2>11. /\ w \in Words /\ Len(w) = f - 1 - (e - 2 + 1) + 1
         /\ \A i \in 1 .. f - 1 - (e - 2 + 1) + 1 : w[i] = t[e - 2 + 1 + i - 1]
    BY <2>9, <2>10, CutOut
  <2>12. f - 1 - (e - 2 + 1) + 1 = d - c + 1
    BY <2>1, <2>4
  <2>13. ASSUME NEW i \in 1 .. d - c + 1 PROVE r[i] = w[i]
    <3>1. PICK j : j = e - 2 + i
      OBVIOUS
    <3>2. j \in 1 .. Len(t) /\ e - 2 + 1 + i - 1 = j
      BY <1>2, <2>1, <2>4, <2>6, <3>1
    <3>3. w[i] = t[j]
      BY <2>11, <2>12, <3>2
    <3>4. t[j] = q[j + 1]
      BY <1>2, <3>2
    <3>5. c + i - 1 \in 1 .. b - a + 1 /\ a + (c + i - 1) - 1 = j + 1
      BY <1>4, <2>1, <2>2, <3>1
    <3>6. r[i] = p[c + i - 1]
      BY <2>8
    <3>7. p[c + i - 1] = q[a + (c + i - 1) - 1]
      BY <1>5, <3>5
    <3>. QED BY <3>3, <3>4, <3>5, <3>6, <3>7
  <2>14. r = w
    BY <2>8, <2>11, <2>12, <2>13, SeqEqual DEF Words
  <2>15. e - 2 \in 0 .. Len(t) /\ f - 1 \in 0 .. Len(t)
    BY <1>2, <2>4, <2>6
  <2>16. w \in SubSeqs(t)
    <3>1. PICK i \in 0 .. Len(t) : i = e - 2
      BY <2>15
    <3>2. PICK j \in 0 .. Len(t) : j = f - 1
      BY <2>15
    <3>3. SubSeq(t, i + 1, j) \in SubSeqs(t)
      BY SubSeqsHas
    <3>. QED BY <2>9, <3>1, <3>2, <3>3
  <2>. QED BY <1>7, <2>7, <2>14, <2>16
<1>. QED BY <1>5, <1>6, <1>7, TrimOf

(* A tag that is trimmed already is what is trimmed of it in quotes.       *)
LEMMA TrimQuoted ==
  ASSUME NEW t \in Words, Trim(t, Quote) = t
  PROVE  Trim(Quoted(t), Quote) = t
<1>1. PICK q : q = Quoted(t)
  OBVIOUS
<1>2. /\ q \in Words /\ Len(q) = Len(t) + 2 /\ Len(t) \in Nat /\ q[1] = Quote /\ q[Len(t) + 2] = Quote
      /\ \A i \in 1 .. Len(t) : q[i + 1] = t[i]
  BY <1>1, QuotedWord
<1>3. CASE t = <<>>
  <2>1. Len(t) = 0
    BY <1>3
  <2>2. \A i \in 1 .. Len(q) : q[i] = Quote
    BY <1>2, <2>1
  <2>3. Trim(q, Quote) = <<>>
    BY <1>2, <2>2, TrimOf DEF Stays
  <2>. QED BY <1>1, <1>3, <2>3
<1>4. CASE t # <<>>
  <2>1. Len(t) >= 1
    BY <1>4, EmptySeq DEF Words
  <2>2. t[1] # Quote /\ t[Len(t)] # Quote
    BY <1>4, TrimEnds
  <2>3. PICK m : m = Len(t) + 1
    OBVIOUS
  <2>4. 2 \in 1 .. Len(q) /\ m \in 1 .. Len(q) /\ 2 <= m
    BY <1>2, <2>1, <2>3
  <2>5. q[2] = t[1] /\ q[m] = t[Len(t)]
    <3>1. q[1 + 1] = t[1]
      BY <1>2, <2>1
    <3>2. q[Len(t) + 1] = t[Len(t)]
      BY <1>2, <2>1
    <3>3. 1 + 1 = 2
      OBVIOUS
    <3>. QED BY <2>3, <3>1, <3>2, <3>3
  <2>6. \A i \in 1 .. Len(q) : i < 2 \/ m < i => q[i] = Quote
    <3>1. \A i \in 1 .. Len(q) : i < 2 \/ m < i => i = 1 \/ i = Len(t) + 2
      BY <1>2, <2>3
    <3>. QED BY <1>2, <3>1
  <2>7. Stays(q, Quote, 2, m)
    BY <2>2, <2>4, <2>5, <2>6 DEF Stays
  <2>8. PICK w : w = SubSeq(q, 2, m)
    OBVIOUS
  <2>9. /\ w \in Words /\ Len(w) = m - 2 + 1
        /\ \A i \in 1 .. m - 2 + 1 : w[i] = q[2 + i - 1]
    BY <1>2, <2>4, <2>8, CutOut
  <2>10. m - 2 + 1 = Len(t)
    BY <1>2, <2>3
  <2>11. ASSUME NEW i \in 1 .. Len(t) PROVE w[i] = t[i]
    <3>1. 2 + i - 1 = i + 1
      BY <1>2
    <3>2. w[i] = q[2 + i - 1]
      BY <2>9, <2>10
    <3>. QED BY <1>2, <3>1, <3>2
  <2>12. w = t
    BY <2>9, <2>10, <2>11, SeqEqual DEF Words
  <2>13. Trim(q, Quote) = SubSeq(q, 2, m)
    <3>1. PICK k : k = 2
      OBVIOUS
    <3>2. Stays(q, Quote, k, m)
      BY <2>7, <3>1
    <3>3. Trim(q, Quote) = SubSeq(q, k, m)
      BY <1>2, <3>2, TrimTo
    <3>. QED BY <3>1, <3>3
  <2>. QED BY <1>1, <2>8, <2>12, <2>13
<1>. QED BY <1>3, <1>4

Separator(i) == IF i = 1 THEN <<>> ELSE <<Comma>>

Join(ts) ==
  CHOOSE joined : joined = [i \in 0 .. Len(ts) |->
    IF i = 0 THEN <<>>
    ELSE joined[i - 1] \o (IF i = 1 THEN <<>> ELSE <<Comma>>) \o Quoted(ts[i])]

(* TagSlice2TagString returns what is joined after the last tag.           *)
LEMMA StringIsJoin ==
  ASSUME NEW ts
  PROVE  TagSlice2TagString(ts) = Join(ts)[Len(ts)]
BY Zenon DEF TagSlice2TagString, Join

Joined(x, i, t) == x \o Separator(i) \o Quoted(t)

(* What is joined is a string.                                             *)
LEMMA JoinedType ==
  ASSUME NEW x \in Words, NEW i, NEW t \in Words
  PROVE  Joined(x, i, t) \in Words
BY QuotedWord DEF Joined, Separator, Words, Comma

(* TagSlice2TagString starts with the empty string and joins a tag at a    *)
(* time.                                                                   *)
LEMMA JoinSteps ==
  ASSUME NEW ts \in Seq(Words)
  PROVE  /\ \A i \in 0 .. Len(ts) : Join(ts)[i] \in Words
         /\ Join(ts)[0] = <<>>
         /\ \A i \in 1 .. Len(ts) : Join(ts)[i] = Joined(Join(ts)[i - 1], i, ts[i])
<1>. DEFINE g == [i \in 1 .. Len(ts) |-> [x \in Words |-> Joined(x, i, ts[i])]]
<1>1. PICK a \in Words : a = <<>>
  BY WordsGrow
<1>3. \A i \in 1 .. Len(ts), x \in Words : g[i][x] = Joined(x, i, ts[i])
  OBVIOUS
<1>4. Len(ts) \in Nat /\ \A i \in 1 .. Len(ts) : ts[i] \in Words
  BY ElementOfSeq
<1>. HIDE DEF g
<1>5. PICK f \in [0 .. Len(ts) -> Words] :
        f[0] = a /\ \A i \in 1 .. Len(ts) : f[i] = g[i][f[i - 1]]
  <2>1. \A i \in 1 .. Len(ts), x \in Words : g[i][x] \in Words
    BY <1>3, <1>4, JoinedType
  <2>2. Loops(Len(ts), Words, a, g) # {}
    BY <2>1, <1>4, LoopExists
  <2>. QED BY <2>2 DEF Loops
<1>6. \A i \in 0 .. Len(ts) : i # 0 => i \in 1 .. Len(ts) /\ i - 1 \in 0 .. Len(ts)
  BY <1>4
<1>7. f = [i \in 0 .. Len(ts) |-> IF i = 0 THEN <<>> ELSE Joined(f[i - 1], i, ts[i])]
  <2>1. \A i \in 0 .. Len(ts) : f[i] \in Words
    BY <1>5
  <2>. QED BY <1>1, <1>3, <1>5, <1>6, <2>1, Zenon
<1>8. PICK h : h = Join(ts)
  OBVIOUS
<1>9. h = [i \in 0 .. Len(ts) |-> IF i = 0 THEN <<>> ELSE Joined(h[i - 1], i, ts[i])]
  <2>1. Join(ts) = CHOOSE joined : joined =
          [i \in 0 .. Len(ts) |-> IF i = 0 THEN <<>> ELSE Joined(joined[i - 1], i, ts[i])]
    BY Zenon DEF Join, Joined, Separator
  <2>. QED BY <1>7, <1>8, <2>1, Zenon
<1>10. h[0] = a /\ \A i \in 1 .. Len(ts) : h[i] = Joined(h[i - 1], i, ts[i])
  <2>1. 0 \in 0 .. Len(ts) /\ \A i \in 1 .. Len(ts) : i \in 0 .. Len(ts) /\ i # 0
    BY <1>4
  <2>. QED BY <1>1, <1>9, <2>1, Zenon
<1>11. \A n \in 0 .. Len(ts) : h[n] \in Words
  <2>. DEFINE T == {n \in 0 .. Len(ts) : h[n] \in Words}
  <2>1. 0 \in T
    BY <1>1, <1>4, <1>10
  <2>2. ASSUME NEW n \in 0 .. Len(ts), n < Len(ts), n \in T
        PROVE  n + 1 \in T
    <3>1. n + 1 \in 1 .. Len(ts) /\ n + 1 - 1 = n
      BY <1>4, <2>2
    <3>. QED BY <1>4, <1>10, <2>2, <3>1, JoinedType
  <2>. HIDE DEF T
  <2>3. \A n \in 0 .. Len(ts) : n \in T
    BY <1>4, <2>1, <2>2, UpTo
  <2>. QED BY <2>3 DEF T
<1>. QED BY <1>1, <1>8, <1>10, <1>11, Zenon

----------------------------------------------------------------------------
(* Tags joined to a string *)

(* The first tag is joined without a comma before it.                      *)
LEMMA JoinedFirst ==
  ASSUME NEW t \in Words
  PROVE  Joined(<<>>, 1, t) = Quoted(t)
BY QuotedWord DEF Joined, Separator, Words

(* A comma comes before every further tag.                                 *)
LEMMA JoinedNext ==
  ASSUME NEW x \in Words, NEW i, i # 1, NEW t \in Words
  PROVE  Split(Joined(x, i, t), Comma) = Split(x, Comma) \o Split(Quoted(t), Comma)
<1>1. Joined(x, i, t) = (x \o <<Comma>>) \o Quoted(t)
  BY DEF Joined, Separator
<1>2. PICK q \in Words : q = Quoted(t)
  BY QuotedWord
<1>3. PICK c \in Nat : c = Comma
  BY DEF Comma
<1>4. Split((x \o <<c>>) \o q, c) = Split(x, c) \o Split(q, c)
  BY SplitOfConcat
<1>. QED BY <1>1, <1>2, <1>3, <1>4

(* With a tag joined, the string is not empty: TagString2TagSlice does not *)
(* take it for no tags.                                                    *)
LEMMA JoinedSome ==
  ASSUME NEW x \in Words, NEW i, NEW t \in Words
  PROVE  Joined(x, i, t) # <<>>
<1>1. Separator(i) \in Words
  BY DEF Separator, Words, Comma
<1>2. Quoted(t) \in Words /\ Len(Quoted(t)) >= 2
  BY QuotedWord
<1>3. Len(Joined(x, i, t)) >= 2
  BY <1>1, <1>2 DEF Joined, Words
<1>. QED BY <1>3, EmptySeq

(* Quotes put no comma into a tag.                                         *)
LEMMA QuotedFree ==
  ASSUME NEW t \in Words, Free(t, Comma)
  PROVE  Free(Quoted(t), Comma)
<1>1. PICK q : q = Quoted(t)
  OBVIOUS
<1>2. /\ Len(q) = Len(t) + 2 /\ Len(t) \in Nat /\ q[1] = Quote /\ q[Len(t) + 2] = Quote
      /\ \A i \in 1 .. Len(t) : q[i + 1] = t[i]
  BY <1>1, QuotedWord
<1>3. Quote # Comma
  BY DEF Quote, Comma
<1>4. ASSUME NEW i \in 1 .. Len(q), i # 1, i # Len(t) + 2 PROVE q[i] # Comma
  <2>1. PICK j : j = i - 1
    OBVIOUS
  <2>2. j \in 1 .. Len(t) /\ j + 1 = i
    BY <1>2, <1>4, <2>1
  <2>3. q[j + 1] = t[j]
    BY <1>2, <2>2
  <2>. QED BY <2>2, <2>3 DEF Free
<1>. QED BY <1>1, <1>2, <1>3, <1>4 DEF Free

(* What the pieces x of the first n tags of ts are.                        *)
InOrder(x, ts, n) ==
  /\ \A q \in 1 .. Len(x) : \E j \in 1 .. n : IsCut(Quoted(ts[j]), Len(Quoted(ts[j])), x[q])
  /\ (\A j \in 1 .. n : Free(ts[j], Comma)) =>
       Len(x) = n /\ \A j \in 1 .. n : x[j] = Quoted(ts[j])

(* The pieces of one quoted tag.                                           *)
LEMMA QuotedPieces ==
  ASSUME NEW t \in Words
  PROVE  LET y == Split(Quoted(t), Comma)
         IN  /\ y \in Seq(Words) /\ Len(y) \in Nat
             /\ \A q \in 1 .. Len(y) : IsCut(Quoted(t), Len(Quoted(t)), y[q])
             /\ Free(t, Comma) => Len(y) = 1 /\ y[1] = Quoted(t)
<1>1. PICK w \in Words : w = Quoted(t)
  BY QuotedWord
<1>2. PICK y : y = Split(w, Comma)
  OBVIOUS
<1>3. y \in PieceLists /\ CutUp(y, w, Len(w), Comma)
  BY <1>2, SplitCutUp
<1>4. y \in Seq(Words) /\ Len(y) \in Nat
  BY <1>3 DEF PieceLists
<1>5. \A q \in 1 .. Len(y) : IsCut(w, Len(w), y[q])
  BY <1>3 DEF CutUp
<1>6. Free(t, Comma) => Len(y) = 1 /\ y[1] = w
  <2>1. SUFFICES ASSUME Free(t, Comma)
                 PROVE  Len(y) = 1 /\ y[1] = w
    OBVIOUS
  <2>2. Free(w, Comma)
    BY <1>1, <2>1, QuotedFree
  <2>3. y = <<w>>
    BY <1>2, <2>2, SplitFree
  <2>. QED BY <2>3
<1>. QED BY <1>1, <1>2, <1>4, <1>5, <1>6

(* The stored string is split into the pieces of the quoted tags, in the   *)
(* order of the tags.                                                      *)
LEMMA StringPieces ==
  ASSUME NEW ts \in Seq(Words), NEW n \in 1 .. Len(ts)
  PROVE  InOrder(Split(Join(ts)[n], Comma), ts, n)
<1>1. Len(ts) \in Nat /\ \A i \in 1 .. Len(ts) : ts[i] \in Words
  BY ElementOfSeq
<1>. DEFINE T == {m \in 0 .. Len(ts) : m # 0 => InOrder(Split(Join(ts)[m], Comma), ts, m)}
<1>2. 0 \in T
  BY <1>1
<1>3. ASSUME NEW m \in 0 .. Len(ts), m < Len(ts), m \in T
      PROVE  m + 1 \in T
  <2>1. PICK i : i = m + 1
    OBVIOUS
  <2>2. m \in Nat /\ i \in 1 .. Len(ts) /\ i - 1 = m /\ i \in 0 .. Len(ts)
    BY <1>1, <1>3, <2>1
  <2>3. PICK t \in Words : t = ts[i]
    BY <1>1, <2>2
  <2>4. PICK x \in Words : x = Join(ts)[m]
    BY JoinSteps
  <2>5. Join(ts)[i] = Joined(x, i, t)
    BY <2>2, <2>3, <2>4, JoinSteps
  <2>6. PICK y : y = Split(Quoted(t), Comma)
    OBVIOUS
  <2>7. /\ y \in Seq(Words) /\ Len(y) \in Nat
        /\ \A q \in 1 .. Len(y) : IsCut(Quoted(t), Len(Quoted(t)), y[q])
        /\ Free(t, Comma) => Len(y) = 1 /\ y[1] = Quoted(t)
    BY <2>6, QuotedPieces
  <2>8. CASE m = 0
    <3>1. i = 1
      BY <2>1, <2>8
    <3>2. x = <<>>
      BY <2>4, <2>8, JoinSteps
    <3>3. Split(Join(ts)[i], Comma) = y
      BY <2>5, <2>6, <3>1, <3>2, JoinedFirst
    <3>4. \A q \in 1 .. Len(y) : \E j \in 1 .. i : IsCut(Quoted(ts[j]), Len(Quoted(ts[j])), y[q])
      BY <2>2, <2>3, <2>7
    <3>5. (\A j \in 1 .. i : Free(ts[j], Comma)) => Len(y) = i /\ \A j \in 1 .. i : y[j] = Quoted(ts[j])
      <4>1. \A j \in 1 .. i : j = 1
        BY <3>1
      <4>2. 1 \in 1 .. i
        BY <3>1
      <4>. QED BY <2>3, <2>7, <3>1, <4>1, <4>2
    <3>. QED BY <2>1, <2>2, <3>3, <3>4, <3>5 DEF InOrder
  <2>9. CASE m # 0
    <3>1. i # 1
      BY <2>1, <2>2, <2>9
    <3>2. PICK z : z = Split(x, Comma)
      OBVIOUS
    <3>3. InOrder(z, ts, m)
      BY <1>3, <2>4, <2>9, <3>2
    <3>4. z \in Seq(Words) /\ Len(z) \in Nat
      <4>1. z \in PieceLists
        BY <3>2, SplitCutUp
      <4>. QED BY <4>1 DEF PieceLists
    <3>5. PICK w : w = z \o y
      OBVIOUS
    <3>6. Split(Join(ts)[i], Comma) = w
      BY <2>5, <2>6, <3>1, <3>2, <3>5, JoinedNext
    <3>7. /\ Len(w) = Len(z) + Len(y)
          /\ \A q \in 1 .. Len(z) + Len(y) : w[q] = IF q <= Len(z) THEN z[q] ELSE y[q - Len(z)]
      BY <2>7, <3>4, <3>5, ConcatProperties
    <3>8. ASSUME NEW q \in 1 .. Len(w)
          PROVE  \E j \in 1 .. i : IsCut(Quoted(ts[j]), Len(Quoted(ts[j])), w[q])
      <4>1. CASE q <= Len(z)
        <5>1. q \in 1 .. Len(z) /\ w[q] = z[q]
          BY <2>7, <3>4, <3>7, <4>1
        <5>2. PICK j \in 1 .. m : IsCut(Quoted(ts[j]), Len(Quoted(ts[j])), z[q])
          BY <3>3, <5>1 DEF InOrder
        <5>3. j \in 1 .. i
          BY <2>1, <2>2
        <5>. QED BY <5>1, <5>2, <5>3
      <4>2. CASE ~(q <= Len(z))
        <5>1. q - Len(z) \in 1 .. Len(y) /\ w[q] = y[q - Len(z)]
          BY <2>7, <3>4, <3>7, <4>2
        <5>2. IsCut(Quoted(t), Len(Quoted(t)), w[q])
          BY <2>7, <5>1
        <5>3. i \in 1 .. i
          BY <2>2
        <5>. QED BY <2>3, <5>2, <5>3
      <4>. QED BY <4>1, <4>2
    <3>9. (\A j \in 1 .. i : Free(ts[j], Comma)) => Len(w) = i /\ \A j \in 1 .. i : w[j] = Quoted(ts[j])
      <4>1. SUFFICES ASSUME \A j \in 1 .. i : Free(ts[j], Comma)
                     PROVE  Len(w) = i /\ \A j \in 1 .. i : w[j] = Quoted(ts[j])
        OBVIOUS
      <4>2. i \in 1 .. i /\ \A j \in 1 .. m : j \in 1 .. i
        BY <2>1, <2>2
      <4>3. Len(z) = m /\ \A j \in 1 .. m : z[j] = Quoted(ts[j])
        BY <3>3, <4>1, <4>2 DEF InOrder
      <4>4. Len(y) = 1 /\ y[1] = Quoted(t)
        BY <2>3, <2>7, <4>1, <4>2
      <4>5. Len(w) = i
        BY <2>1, <3>7, <4>3, <4>4
      <4>6. ASSUME NEW j \in 1 .. i PROVE w[j] = Quoted(ts[j])
        <5>1. CASE j = i
          <6>1. ~(j <= m) /\ j - m = 1 /\ j \in 1 .. m + 1
            BY <2>1, <2>2, <5>1
          <6>2. w[j] = y[1]
            BY <3>7, <4>3, <4>4, <6>1
          <6>. QED BY <2>3, <4>4, <5>1, <6>2
        <5>2. CASE j # i
          <6>1. j <= m /\ j \in 1 .. m + 1 /\ j \in 1 .. m
            BY <2>1, <2>2, <5>2
          <6>2. w[j] = z[j]
            BY <3>7, <4>3, <4>4, <6>1
          <6>. QED BY <4>3, <6>1, <6>2
        <5>. QED BY <5>1, <5>2
      <4>. QED BY <4>5, <4>6
    <3>10. InOrder(w, ts, i)
      BY <3>8, <3>9 DEF InOrder
    <3>. QED BY <2>1, <2>2, <3>6, <3>10
  <2>. QED BY <2>8, <2>9
<1>. HIDE DEF T
<1>4. \A m \in 0 .. Len(ts) : m \in T
  BY <1>1, <1>2, <1>3, UpTo
<1>5. n \in 0 .. Len(ts) /\ n # 0
  BY <1>1
<1>. QED BY <1>4, <1>5 DEF T

----------------------------------------------------------------------------
(* Tags there and back; the order of strings *)

(* A plain tag is one without a comma that trimming its quotes leaves      *)
(* alone.                                                                  *)
LEMMA PlainIs ==
  ASSUME NEW t \in Words
  PROVE  Plain(t) <=> Free(t, Comma) /\ Trim(t, Quote) = t
<1>1. DOMAIN t = 1 .. Len(t)
  BY DEF Words
<1>. QED BY <1>1 DEF Plain, Free, ToSet

(* Trimming puts no comma into a tag.                                      *)
LEMMA TrimFree ==
  ASSUME NEW p \in Words, NEW c, Free(p, c), NEW ch
  PROVE  Free(Trim(p, ch), c)
<1>1. CASE Trim(p, ch) = <<>>
  BY <1>1 DEF Free
<1>2. ASSUME NEW a \in 1 .. Len(p), NEW b \in 1 .. Len(p), Stays(p, ch, a, b), Trim(p, ch) = SubSeq(p, a, b)
      PROVE  Free(Trim(p, ch), c)
  <2>1. PICK r : r = SubSeq(p, a, b)
    OBVIOUS
  <2>2. a <= b /\ Len(p) \in Nat
    BY <1>2, WordType DEF Stays
  <2>3. Len(r) = b - a + 1 /\ \A i \in 1 .. b - a + 1 : r[i] = p[a + i - 1]
    BY <2>1, <2>2, CutOut
  <2>4. \A i \in 1 .. b - a + 1 : a + i - 1 \in 1 .. Len(p)
    BY <2>2
  <2>5. \A i \in 1 .. Len(r) : r[i] # c
    BY <2>3, <2>4 DEF Free
  <2>. QED BY <1>2, <2>1, <2>5 DEF Free
<1>. QED BY <1>1, <1>2, TrimOf

Back(ts) == TagString2TagSlice(TagSlice2TagString(ts))

(* What comes back of any list of tags: the list itself if its tags are    *)
(* plain, and in any case plain tags, each a piece of a tag that was       *)
(* saved.                                                                  *)
LEMMA TagsRoundTrip ==
  ASSUME NEW ts \in Seq(Words)
  PROVE  /\ Back(ts) \in Seq(Words)
         /\ (\A i \in 1 .. Len(ts) : Plain(ts[i])) => Back(ts) = ts
         /\ \A i \in 1 .. Len(Back(ts)) : Plain(Back(ts)[i])
         /\ \A i \in 1 .. Len(Back(ts)) : \E j \in 1 .. Len(ts) : Back(ts)[i] \in SubSeqs(ts[j])
<1>1. Len(ts) \in Nat /\ \A i \in 1 .. Len(ts) : ts[i] \in Words
  BY ElementOfSeq
<1>2. PICK str : str = TagSlice2TagString(ts)
  OBVIOUS
<1>3. str = Join(ts)[Len(ts)]
  BY <1>2, StringIsJoin
<1>4. CASE ts = <<>>
  <2>1. Len(ts) = 0
    BY <1>4
  <2>2. str = <<>>
    BY <1>3, <2>1, JoinSteps
  <2>3. Back(ts) = <<>>
    BY <1>2, <2>2 DEF Back, TagString2TagSlice
  <2>4. Back(ts) \in Seq(Words) /\ Len(Back(ts)) = 0
    BY <2>3
  <2>. QED BY <1>4, <2>3, <2>4
<1>5. CASE ts # <<>>
  <2>1. PICK n : n = Len(ts)
    OBVIOUS
  <2>2. n \in 1 .. Len(ts) /\ n - 1 \in 0 .. Len(ts)
    BY <1>1, <1>5, <2>1, EmptySeq
  <2>3. str \in Words /\ str # <<>>
    <3>1. PICK x \in Words : x = Join(ts)[n - 1]
      BY <2>2, JoinSteps
    <3>2. PICK t \in Words : t = ts[n]
      BY <1>1, <2>2
    <3>3. str = Joined(x, n, t)
      BY <1>3, <2>1, <2>2, <3>1, <3>2, JoinSteps
    <3>. QED BY <3>3, JoinedType, JoinedSome
  <2>4. PICK x : x = Split(str, Comma)
    OBVIOUS
  <2>5. x \in Seq(Words) /\ Len(x) \in Nat /\ \A q \in 1 .. Len(x) : x[q] \in Words /\ Free(x[q], Comma)
    <3>1. x \in PieceLists /\ CutUp(x, str, Len(str), Comma)
      BY <2>3, <2>4, SplitCutUp
    <3>2. x \in Seq(Words)
      BY <3>1 DEF PieceLists
    <3>. QED BY <3>1, <3>2, ElementOfSeq DEF CutUp
  <2>6. InOrder(x, ts, n)
    BY <1>3, <2>1, <2>2, <2>4, StringPieces
  <2>7. PICK b : b = Back(ts)
    OBVIOUS
  <2>8. b = [i \in 1 .. Len(x) |-> Trim(x[i], Quote)]
    BY <1>2, <2>3, <2>4, <2>7 DEF Back, TagString2TagSlice
  <2>9. \A i \in 1 .. Len(x) : Trim(x[i], Quote) \in Words
    BY <2>5, TrimType
  <2>10. b \in Seq(Words) /\ Len(b) = Len(x) /\ \A i \in 1 .. Len(x) : b[i] = Trim(x[i], Quote)
    BY <2>5, <2>8, <2>9
  <2>11. ASSUME \A i \in 1 .. Len(ts) : Plain(ts[i])
         PROVE  b = ts
    <3>1. \A i \in 1 .. Len(ts) : ts[i] \in Words /\ Free(ts[i], Comma) /\ Trim(ts[i], Quote) = ts[i]
      BY <1>1, <2>11, PlainIs
    <3>2. Len(x) = Len(ts) /\ \A j \in 1 .. Len(ts) : x[j] = Quoted(ts[j])
      BY <2>1, <2>6, <3>1 DEF InOrder
    <3>3. ASSUME NEW j \in 1 .. Len(ts) PROVE b[j] = ts[j]
      <4>1. PICK t \in Words : t = ts[j]
        BY <1>1
      <4>2. Trim(Quoted(t), Quote) = t
        BY <3>1, <4>1, TrimQuoted
      <4>3. b[j] = Trim(Quoted(t), Quote)
        BY <2>10, <3>2, <4>1
      <4>. QED BY <4>1, <4>2, <4>3
    <3>. QED BY <2>10, <3>2, <3>3, SeqEqual
  <2>12. ASSUME NEW i \in 1 .. Len(b) PROVE Plain(b[i])
    <3>1. PICK p \in Words : p = x[i]
      BY <2>5, <2>10
    <3>2. Free(p, Comma)
      BY <2>5, <2>10, <3>1
    <3>3. PICK r \in Words : r = Trim(p, Quote)
      BY TrimType
    <3>4. Free(r, Comma) /\ Trim(r, Quote) = r
      BY <3>2, <3>3, TrimFree, TrimTwice
    <3>5. b[i] = r
      BY <2>10, <3>1, <3>3
    <3>. QED BY <3>4, <3>5, PlainIs
  <2>13. ASSUME NEW i \in 1 .. Len(b) PROVE \E j \in 1 .. Len(ts) : b[i] \in SubSeqs(ts[j])
    <3>1. PICK p : p = x[i]
      OBVIOUS
    <3>2. PICK j \in 1 .. n : IsCut(Quoted(ts[j]), Len(Quoted(ts[j])), p)
      BY <2>6, <2>10, <3>1 DEF InOrder
    <3>3. PICK t \in Words : t = ts[j]
      BY <1>1, <2>1
    <3>4. Trim(p, Quote) \in SubSeqs(t)
      BY <3>2, <3>3, PieceInside
    <3>5. b[i] = Trim(p, Quote)
      BY <2>10, <3>1
    <3>. QED BY <2>1, <3>3, <3>4, <3>5
  <2>. QED BY <2>7, <2>10, <2>11, <2>12, <2>13
<1>. QED BY <1>4, <1>5

(* The order of strings is strict and total.                               *)
LEMMA LessTransitive ==
  ASSUME NEW s \in Words, NEW t \in Words, NEW u \in Words, Less(s, t), Less(t, u)
  PROVE  Less(s, u)
<1>1. /\ Len(s) \in Nat /\ Len(t) \in Nat /\ Len(u) \in Nat
      /\ \A i \in 1 .. Len(s) : s[i] \in Nat
      /\ \A i \in 1 .. Len(t) : t[i] \in Nat
      /\ \A i \in 1 .. Len(u) : u[i] \in Nat
  BY WordType
<1>2. PICK i \in 1 .. Len(t) :
        i <= Len(s) + 1 /\ (\A j \in 1 .. i - 1 : s[j] = t[j]) /\ (i = Len(s) + 1 \/ s[i] < t[i])
  BY DEF Less
<1>3. PICK k \in 1 .. Len(u) :
        k <= Len(t) + 1 /\ (\A j \in 1 .. k - 1 : t[j] = u[j]) /\ (k = Len(t) + 1 \/ t[k] < u[k])
  BY DEF Less
<1>4. CASE i < k
  <2>1. i \in 1 .. Len(u) /\ t[i] = u[i]
    BY <1>1, <1>3, <1>4
  <2>2. \A j \in 1 .. i - 1 : s[j] = u[j]
    BY <1>1, <1>2, <1>3, <1>4
  <2>. QED BY <1>2, <2>1, <2>2 DEF Less
<1>5. CASE k < i
  <2>1. k <= Len(s) + 1 /\ k \in 1 .. Len(t) /\ k \in 1 .. Len(s) /\ s[k] = t[k]
    BY <1>1, <1>2, <1>3, <1>5
  <2>2. \A j \in 1 .. k - 1 : s[j] = u[j]
    BY <1>1, <1>2, <1>3, <1>5
  <2>3. s[k] < u[k]
    BY <1>1, <1>3, <2>1
  <2>. QED BY <2>1, <2>2, <2>3 DEF Less
<1>6. CASE i = k
  <2>1. \A j \in 1 .. i - 1 : s[j] = u[j]
    BY <1>1, <1>2, <1>3, <1>6
  <2>2. i # Len(t) + 1
    BY <1>1, <1>2
  <2>3. t[i] < u[i] /\ t[i] \in Nat /\ u[i] \in Nat
    BY <1>1, <1>2, <1>3, <1>6, <2>2
  <2>4. i = Len(s) + 1 \/ s[i] < u[i]
    <3>1. CASE i = Len(s) + 1
      BY <3>1
    <3>2. CASE i # Len(s) + 1
      <4>1. i \in 1 .. Len(s)
        BY <1>1, <1>2, <3>2
      <4>2. s[i] \in Nat
        BY <1>1, <4>1
      <4>. QED BY <1>2, <2>3, <3>2, <4>2
    <3>. QED BY <3>1, <3>2
  <2>. QED BY <1>2, <1>6, <2>1, <2>4 DEF Less
<1>. QED BY <1>1, <1>4, <1>5, <1>6

(* No string comes before itself.                                          *)
LEMMA LessStrict ==
  ASSUME NEW s \in Words
  PROVE  ~Less(s, s)
<1>1. Len(s) \in Nat /\ \A i \in 1 .. Len(s) : s[i] \in Nat
  BY WordType
<1>. QED BY <1>1 DEF Less

(* At place i one of two strings ends before the other, or they differ.    *)
Differ(s, t, i) ==
  /\ i <= Len(s) \/ i <= Len(t)
  /\ (i <= Len(s) /\ i <= Len(t)) => s[i] # t[i]

(* Of two strings one comes first, or they are equal.                      *)
LEMMA LessTotal ==
  ASSUME NEW s \in Words, NEW t \in Words, s # t
  PROVE  Less(s, t) \/ Less(t, s)
<1>1. /\ Len(s) \in Nat /\ Len(t) \in Nat
      /\ \A i \in 1 .. Len(s) : s[i] \in Nat
      /\ \A i \in 1 .. Len(t) : t[i] \in Nat
  BY WordType
<1>. DEFINE D == {i \in Nat \ {0} : Differ(s, t, i)}
<1>2. D \in SUBSET Nat /\ D # {}
  <2>1. SUFFICES ASSUME D = {} PROVE FALSE
    BY <1>1
  <2>2. Len(s) = Len(t)
    <3>1. CASE Len(s) < Len(t)
      <4>1. Len(t) \in D
        BY <1>1, <3>1 DEF Differ
      <4>. QED BY <2>1, <4>1
    <3>2. CASE Len(t) < Len(s)
      <4>1. Len(s) \in D
        BY <1>1, <3>2 DEF Differ
      <4>. QED BY <2>1, <4>1
    <3>. QED BY <1>1, <3>1, <3>2
  <2>3. \A i \in 1 .. Len(s) : s[i] = t[i]
    <3>. SUFFICES ASSUME NEW i \in 1 .. Len(s), s[i] # t[i]
                  PROVE  FALSE
      OBVIOUS
    <3>1. i \in D
      BY <1>1, <2>2 DEF Differ
    <3>. QED BY <2>1, <3>1
  <2>4. s = t
    BY <2>2, <2>3, SeqEqual DEF Words
  <2>. QED BY <2>4
<1>3. PICK i \in D : \A j \in D : i <= j
  BY <1>2, LeastExists
<1>4. /\ i \in Nat /\ i # 0 /\ (i <= Len(s) \/ i <= Len(t))
      /\ (i <= Len(s) /\ i <= Len(t)) => s[i] # t[i]
  <2>1. i \in Nat \ {0} /\ Differ(s, t, i)
    BY <1>3
  <2>. QED BY <2>1 DEF Differ
<1>5. \A j \in 1 .. i - 1 : j <= Len(s) /\ j <= Len(t) /\ s[j] = t[j]
  <2>1. \A j \in 1 .. i - 1 : j \in Nat \ {0} /\ j \notin D /\ (j <= Len(s) \/ j <= Len(t))
    BY <1>1, <1>3, <1>4
  <2>2. \A j \in 1 .. i - 1 : j <= Len(s) /\ j <= Len(t) /\ s[j] = t[j]
    BY <1>1, <2>1 DEF Differ
  <2>. QED BY <2>2
<1>. HIDE DEF D
<1>6. i <= Len(s) + 1 /\ i <= Len(t) + 1
  <2>1. i = 1 \/ i - 1 \in 1 .. i - 1
    BY <1>4
  <2>. QED BY <1>1, <1>4, <1>5, <2>1
<1>7. \A j \in 1 .. i - 1 : s[j] = t[j] /\ t[j] = s[j]
  BY <1>5
<1>8. CASE i <= Len(s) /\ i <= Len(t)
  <2>1. s[i] < t[i] \/ t[i] < s[i]
    <3>1. i \in 1 .. Len(s) /\ i \in 1 .. Len(t)
      BY <1>1, <1>4, <1>8
    <3>2. s[i] \in Nat /\ t[i] \in Nat
      BY <1>1, <3>1
    <3>. QED BY <1>4, <1>8, <3>2
  <2>2. i \in 1 .. Len(s) /\ i \in 1 .. Len(t)
    BY <1>1, <1>4, <1>8
  <2>. QED BY <1>6, <1>7, <2>1, <2>2 DEF Less
<1>9. CASE i <= Len(t) /\ ~(i <= Len(s))
  <2>1. i = Len(s) + 1 /\ i \in 1 .. Len(t)
    BY <1>1, <1>4, <1>6, <1>9
  <2>. QED BY <1>7, <2>1 DEF Less
<1>10. CASE i <= Len(s) /\ ~(i <= Len(t))
  <2>1. i = Len(t) + 1 /\ i \in 1 .. Len(s)
    BY <1>1, <1>4, <1>6, <1>10
  <2>. QED BY <1>7, <2>1 DEF Less
<1>. QED BY <1>4, <1>8, <1>9, <1>10

----------------------------------------------------------------------------
(* Cleaned tags *)

Below(K, t) == {u \in K : Less(u, t)}

(* What comes before t has fewer elements than the whole, and more than    *)
(* what comes before one of those.                                         *)
LEMMA BelowSmaller ==
  ASSUME NEW K \in SUBSET Words, IsFiniteSet(K), NEW t \in K
  PROVE  /\ IsFiniteSet(Below(K, t)) /\ Cardinality(Below(K, t)) \in Nat
         /\ Cardinality(Below(K, t)) < Cardinality(K) /\ Cardinality(K) \in Nat
         /\ \A u \in Below(K, t) : Cardinality(Below(K, u)) < Cardinality(Below(K, t))
<1>1. t \in Words
  OBVIOUS
<1>2. /\ IsFiniteSet(K \ {t}) /\ Cardinality(K \ {t}) = Cardinality(K) - 1
      /\ Cardinality(K) \in Nat
  BY FS_RemoveElement, FS_CardinalityType
<1>3. \A u \in K : IsFiniteSet(Below(K, u)) /\ Cardinality(Below(K, u)) \in Nat
  <2>. SUFFICES ASSUME NEW u \in K
                PROVE  IsFiniteSet(Below(K, u)) /\ Cardinality(Below(K, u)) \in Nat
    OBVIOUS
  <2>1. Below(K, u) \in SUBSET K
    BY DEF Below
  <2>. QED BY <2>1, FS_Subset, FS_CardinalityType
<1>4. Below(K, t) \in SUBSET (K \ {t})
  BY <1>1, LessStrict DEF Below
<1>5. Cardinality(Below(K, t)) <= Cardinality(K \ {t})
  BY <1>2, <1>4, FS_Subset
<1>6. ASSUME NEW u \in Below(K, t)
      PROVE  Cardinality(Below(K, u)) < Cardinality(Below(K, t))
  <2>1. u \in K /\ u \in Words /\ Less(u, t)
    BY DEF Below
  <2>2. \A v \in Below(K, u) : v \in K /\ v \in Words /\ Less(v, u)
    BY DEF Below
  <2>3. \A v \in Below(K, u) : v \in Below(K, t)
    BY <1>1, <2>1, <2>2, LessTransitive DEF Below
  <2>4. u \notin Below(K, u)
    BY <2>1, LessStrict DEF Below
  <2>5. PICK B : B = Below(K, u) \cup {u}
    OBVIOUS
  <2>6. B \in SUBSET Below(K, t)
    BY <2>3, <2>5
  <2>7. Cardinality(B) = Cardinality(Below(K, u)) + 1
    BY <1>3, <2>1, <2>4, <2>5, FS_AddElement
  <2>8. Cardinality(B) <= Cardinality(Below(K, t))
    BY <1>3, <2>6, FS_Subset
  <2>. QED BY <1>3, <2>1, <2>7, <2>8
<1>7. Cardinality(Below(K, t)) < Cardinality(K)
  BY <1>2, <1>3, <1>5
<1>. QED BY <1>2, <1>3, <1>6, <1>7

Sorted(s) == \A i, j \in DOMAIN s : i < j => Less(s[i], s[j])

(* A finite set of strings can be listed in order.                         *)
LEMMA SortedExists ==
  ASSUME NEW K \in SUBSET Words, IsFiniteSet(K)
  PROVE  \E s \in [1 .. Cardinality(K) -> K] : Sorted(s)
<1>1. PICK N : N = Cardinality(K)
  OBVIOUS
<1>2. N \in Nat
  BY <1>1, FS_CardinalityType
<1>3. PICK r : r = [t \in K |-> Cardinality(Below(K, t)) + 1]
  OBVIOUS
<1>4. \A t \in K : r[t] = Cardinality(Below(K, t)) + 1 /\ r[t] \in 1 .. N
  BY <1>1, <1>2, <1>3, BelowSmaller
<1>5. r \in [K -> 1 .. N]
  BY <1>3, <1>4
<1>6. \A t, u \in K : Less(u, t) => r[u] < r[t]
  <2>. SUFFICES ASSUME NEW t \in K, NEW u \in K, Less(u, t)
                PROVE  r[u] < r[t]
    OBVIOUS
  <2>1. u \in Below(K, t)
    BY DEF Below
  <2>2. Cardinality(Below(K, u)) < Cardinality(Below(K, t))
    BY <2>1, BelowSmaller
  <2>3. Cardinality(Below(K, u)) \in Nat /\ Cardinality(Below(K, t)) \in Nat
    BY BelowSmaller
  <2>. QED BY <1>4, <2>2, <2>3
<1>7. \A t, u \in K : r[t] = r[u] => t = u
  <2>. SUFFICES ASSUME NEW t \in K, NEW u \in K, r[t] = r[u], t # u
                PROVE  FALSE
    OBVIOUS
  <2>1. Less(t, u) \/ Less(u, t)
    BY LessTotal
  <2>2. r[t] \in Nat
    BY <1>2, <1>4
  <2>. QED BY <1>6, <2>1, <2>2
<1>8. r \in Injection(K, 1 .. N)
  BY <1>5, <1>7 DEF Injection, IsInjective
<1>9. IsFiniteSet(1 .. N) /\ Cardinality(1 .. N) = N
  BY <1>2, FS_Interval
<1>10. r \in Surjection(K, 1 .. N)
  BY <1>1, <1>8, <1>9, FS_Injection
<1>11. \A i \in 1 .. N : \E t \in K : r[t] = i
  BY <1>10 DEF Surjection
<1>12. PICK s : s = [i \in 1 .. N |-> CHOOSE t \in K : r[t] = i]
  OBVIOUS
<1>13. \A i \in 1 .. N : s[i] \in K /\ r[s[i]] = i
  BY <1>11, <1>12
<1>14. s \in [1 .. N -> K]
  BY <1>12, <1>13
<1>15. ASSUME NEW i \in 1 .. N, NEW j \in 1 .. N, i < j
       PROVE  Less(s[i], s[j])
  <2>1. PICK a \in K : a = s[i]
    BY <1>13
  <2>2. PICK b \in K : b = s[j]
    BY <1>13
  <2>3. r[a] = i /\ r[b] = j /\ i \in Nat /\ j \in Nat
    BY <1>2, <1>13, <2>1, <2>2
  <2>4. a # b
    BY <1>15, <2>3
  <2>5. Less(a, b) \/ Less(b, a)
    BY <2>4, LessTotal
  <2>6. ~Less(b, a)
    BY <1>6, <1>15, <2>3
  <2>. QED BY <2>1, <2>2, <2>5, <2>6
<1>16. Sorted(s)
  BY <1>14, <1>15 DEF Sorted
<1>. QED BY <1>1, <1>14, <1>16

Cleaned(ts) == {Trim(ts[i], Space) : i \in 1 .. Len(ts)} \ {<<>>}

(* The tags to keep are finitely many strings.                             *)
LEMMA CleanedFinite ==
  ASSUME NEW ts \in Seq(Words)
  PROVE  Cleaned(ts) \in SUBSET Words /\ IsFiniteSet(Cleaned(ts))
<1>1. Len(ts) \in Nat /\ \A i \in 1 .. Len(ts) : Trim(ts[i], Space) \in Words
  BY ElementOfSeq, TrimType
<1>2. PICK T : T = {Trim(ts[i], Space) : i \in 1 .. Len(ts)}
  OBVIOUS
<1>3. PICK f : f = [i \in 1 .. Len(ts) |-> Trim(ts[i], Space)]
  OBVIOUS
<1>4. f \in Surjection(1 .. Len(ts), T)
  BY <1>2, <1>3 DEF Surjection
<1>5. IsFiniteSet(1 .. Len(ts))
  BY <1>1, FS_Interval
<1>6. IsFiniteSet(T)
  BY <1>4, <1>5, FS_Surjection
<1>7. Cleaned(ts) \in SUBSET T
  BY <1>2 DEF Cleaned
<1>8. T \in SUBSET Words
  BY <1>1, <1>2
<1>. QED BY <1>6, <1>7, <1>8, FS_Subset

(* What TagSliceTransform returns is sorted, and is all of the trimmed     *)
(* tags but the empty one, each once (tags.go:33).                         *)
THEOREM CleanedTags ==
  ASSUME NEW ts \in Seq(Words)
  PROVE  /\ TagSliceTransform(ts) \in Seq(Words)
         /\ Sorted(TagSliceTransform(ts))
         /\ ToSet(TagSliceTransform(ts)) = Cleaned(ts)
<1>1. PICK K : K = Cleaned(ts)
  OBVIOUS
<1>2. K \in SUBSET Words /\ IsFiniteSet(K)
  BY <1>1, CleanedFinite
<1>3. PICK N \in Nat : N = Cardinality(K)
  BY <1>2, FS_CardinalityType
<1>4. TagSliceTransform(ts) = CHOOSE s \in [1 .. N -> K] : Sorted(s)
  BY <1>1, <1>3, Zenon DEF TagSliceTransform, Cleaned, Sorted
<1>5. PICK s : s = TagSliceTransform(ts)
  OBVIOUS
<1>6. s \in [1 .. N -> K] /\ Sorted(s)
  <2>1. \E z \in [1 .. N -> K] : Sorted(z)
    BY <1>2, <1>3, SortedExists
  <2>. QED BY <1>4, <1>5, <2>1, Zenon
<1>7. \A i \in 1 .. N : s[i] \in Words
  BY <1>2, <1>6
<1>8. s \in Seq(Words)
  <2>1. s \in [1 .. N -> Words]
    BY <1>6, <1>7
  <2>. QED BY <2>1, SeqDef
<1>9. \A i, j \in 1 .. N : s[i] = s[j] => i = j
  <2>. SUFFICES ASSUME NEW i \in 1 .. N, NEW j \in 1 .. N, s[i] = s[j], i < j
                PROVE  FALSE
    OBVIOUS
  <2>1. Less(s[i], s[j])
    BY <1>6 DEF Sorted
  <2>2. PICK w \in Words : w = s[i]
    BY <1>7
  <2>. QED BY <2>1, <2>2, LessStrict
<1>10. s \in Injection(1 .. N, K)
  BY <1>6, <1>9 DEF Injection, IsInjective
<1>11. Cardinality(1 .. N) = Cardinality(K)
  BY <1>3, FS_Interval
<1>12. s \in Surjection(1 .. N, K)
  BY <1>2, <1>10, <1>11, FS_Injection
<1>13. ToSet(s) = K
  BY <1>6, <1>12 DEF ToSet, Surjection
<1>. QED BY <1>1, <1>5, <1>6, <1>8, <1>13

----------------------------------------------------------------------------
(* One list of cleaned tags *)

(* A sorted list does not differ first from another with the same tags.    *)
LEMMA FirstPlace ==
  ASSUME NEW s \in Seq(Words), NEW t \in Seq(Words), Sorted(s), Sorted(t), ToSet(s) \subseteq ToSet(t),
         NEW i \in 1 .. Len(s), i \in 1 .. Len(t), \A j \in 1 .. i - 1 : s[j] = t[j],
         Less(s[i], t[i])
  PROVE  FALSE
<1>1. /\ Len(s) \in Nat /\ Len(t) \in Nat
      /\ DOMAIN s = 1 .. Len(s) /\ DOMAIN t = 1 .. Len(t)
      /\ (\A j \in 1 .. Len(s) : s[j] \in Words) /\ \A j \in 1 .. Len(t) : t[j] \in Words
  BY ElementOfSeq
<1>2. PICK x \in Words : x = s[i]
  BY <1>1
<1>3. PICK j \in 1 .. Len(t) : x = t[j]
  BY <1>1, <1>2 DEF ToSet
<1>4. CASE j < i
  <2>1. j \in 1 .. i - 1 /\ j \in 1 .. Len(s)
    BY <1>1, <1>4
  <2>2. Less(s[j], s[i]) /\ s[j] = x
    BY <1>1, <1>3, <1>4, <2>1 DEF Sorted
  <2>. QED BY <1>2, <2>2, LessStrict
<1>5. CASE j = i
  BY <1>2, <1>3, <1>5, LessStrict
<1>6. CASE i < j
  <2>1. PICK y \in Words : y = t[i]
    BY <1>1
  <2>2. Less(y, x) /\ Less(x, y)
    BY <1>1, <1>2, <1>3, <1>6, <2>1 DEF Sorted
  <2>. QED BY <2>2, LessTransitive, LessStrict
<1>. QED BY <1>1, <1>4, <1>5, <1>6

(* Nor does it end before the other.                                       *)
LEMMA SameLength ==
  ASSUME NEW s \in Seq(Words), NEW t \in Seq(Words), Sorted(t), ToSet(t) \subseteq ToSet(s),
         \A j \in 1 .. Len(s) : j \in 1 .. Len(t) => s[j] = t[j]
  PROVE  Len(t) <= Len(s)
<1>1. /\ Len(s) \in Nat /\ Len(t) \in Nat
      /\ DOMAIN s = 1 .. Len(s) /\ DOMAIN t = 1 .. Len(t)
      /\ (\A j \in 1 .. Len(s) : s[j] \in Words) /\ \A j \in 1 .. Len(t) : t[j] \in Words
  BY ElementOfSeq
<1>. SUFFICES ASSUME Len(s) < Len(t) PROVE FALSE
  BY <1>1
<1>2. PICK i \in 1 .. Len(t) : i = Len(s) + 1
  BY <1>1
<1>3. PICK x \in Words : x = t[i]
  BY <1>1
<1>4. PICK j \in 1 .. Len(s) : x = s[j]
  BY <1>1, <1>3 DEF ToSet
<1>5. j \in 1 .. Len(t) /\ j < i
  BY <1>1, <1>2
<1>6. Less(t[j], t[i]) /\ t[j] = x
  BY <1>1, <1>4, <1>5 DEF Sorted
<1>. QED BY <1>3, <1>6, LessStrict

(* Two sorted lists of the same tags are the same.                         *)
LEMMA SortedOnce ==
  ASSUME NEW s \in Seq(Words), NEW t \in Seq(Words), Sorted(s), Sorted(t), ToSet(s) = ToSet(t)
  PROVE  s = t
<1>1. /\ Len(s) \in Nat /\ Len(t) \in Nat
      /\ (\A j \in 1 .. Len(s) : s[j] \in Words) /\ \A j \in 1 .. Len(t) : t[j] \in Words
  BY ElementOfSeq
<1>. DEFINE D == {i \in 1 .. Len(s) : i \in 1 .. Len(t) /\ s[i] # t[i]}
<1>2. D = {}
  <2>. SUFFICES ASSUME D # {} PROVE FALSE
    OBVIOUS
  <2>1. D \in SUBSET Nat
    BY <1>1
  <2>2. PICK i \in D : \A j \in D : i <= j
    BY <2>1, LeastExists
  <2>3. i \in 1 .. Len(s) /\ i \in 1 .. Len(t) /\ s[i] # t[i]
    OBVIOUS
  <2>4. \A j \in 1 .. i - 1 : j \in 1 .. Len(s) /\ j \in 1 .. Len(t) /\ ~(i <= j)
    BY <1>1, <2>3
  <2>5. \A j \in 1 .. i - 1 : s[j] = t[j] /\ t[j] = s[j]
    BY <2>2, <2>4
  <2>6. PICK x \in Words : x = s[i]
    BY <1>1, <2>3
  <2>7. PICK y \in Words : y = t[i]
    BY <1>1, <2>3
  <2>8. Less(x, y) \/ Less(y, x)
    BY <2>3, <2>6, <2>7, LessTotal
  <2>. QED BY <2>3, <2>5, <2>6, <2>7, <2>8, FirstPlace
<1>3. \A i \in 1 .. Len(s) : i \in 1 .. Len(t) => s[i] = t[i]
  BY <1>2
<1>4. \A i \in 1 .. Len(t) : i \in 1 .. Len(s) => t[i] = s[i]
  BY <1>3
<1>5. Len(s) = Len(t)
  <2>1. Len(t) <= Len(s)
    BY <1>3, SameLength
  <2>2. Len(s) <= Len(t)
    BY <1>4, SameLength
  <2>. QED BY <1>1, <2>1, <2>2
<1>. QED BY <1>3, <1>5, SeqEqual

(* The cleaned tags are the only sorted list of the tags to keep: in       *)
(* whatever order they were entered, and however often, the same list is   *)
(* saved, and cleaning it again changes nothing (tags.go).                 *)
THEOREM CleanedOnce ==
  ASSUME NEW ts \in Seq(Words)
  PROVE  /\ \A us \in Seq(Words) : Cleaned(us) = Cleaned(ts) => TagSliceTransform(us) = TagSliceTransform(ts)
         /\ TagSliceTransform(TagSliceTransform(ts)) = TagSliceTransform(ts)
<1>1. PICK s \in Seq(Words) : s = TagSliceTransform(ts)
  BY CleanedTags
<1>2. Sorted(s) /\ ToSet(s) = Cleaned(ts)
  BY <1>1, CleanedTags
<1>3. ASSUME NEW us \in Seq(Words), Cleaned(us) = Cleaned(ts)
      PROVE  TagSliceTransform(us) = s
  <2>1. PICK u \in Seq(Words) : u = TagSliceTransform(us)
    BY CleanedTags
  <2>2. Sorted(u) /\ ToSet(u) = Cleaned(us)
    BY <2>1, CleanedTags
  <2>. QED BY <1>2, <1>3, <2>1, <2>2, SortedOnce
<1>4. Cleaned(s) = Cleaned(ts)
  <2>1. /\ Len(s) \in Nat /\ DOMAIN s = 1 .. Len(s) /\ Len(ts) \in Nat
        /\ \A i \in 1 .. Len(ts) : ts[i] \in Words
    BY ElementOfSeq
  <2>2. ASSUME NEW x \in Cleaned(ts) PROVE Trim(x, Space) = x /\ x # <<>>
    <3>1. PICK i \in 1 .. Len(ts) : x = Trim(ts[i], Space)
      BY DEF Cleaned
    <3>2. PICK w \in Words : w = ts[i]
      BY <2>1
    <3>3. x = Trim(w, Space)
      BY <3>1, <3>2
    <3>. QED BY <3>3, TrimTwice DEF Cleaned
  <2>3. \A i \in 1 .. Len(s) : s[i] \in Cleaned(ts)
    BY <1>2, <2>1 DEF ToSet
  <2>4. \A i \in 1 .. Len(s) : Trim(s[i], Space) = s[i] /\ s[i] # <<>>
    BY <2>2, <2>3
  <2>5. Cleaned(s) = {s[i] : i \in 1 .. Len(s)}
    BY <2>4 DEF Cleaned
  <2>. QED BY <1>2, <2>1, <2>5 DEF ToSet
<1>. QED BY <1>1, <1>3, <1>4

----------------------------------------------------------------------------
(* Tags that are saved and loaded *)

(* The stored string is that of the tags as they were saved, and what is   *)
(* loaded is what comes of that string.                                    *)
TagInv ==
  /\ step \in {"edited", "saved", "loaded", "off"}
  /\ step # "off" => tags \in Seq(Words) /\ saved \in Seq(Words)
  /\ step \in {"saved", "loaded"} => column = TagSlice2TagString(saved)
  /\ step = "loaded" => tags = Back(saved)

(* The invariant of the tags holds of a service that has saved nothing.    *)
LEMMA TagInvInit == FieldsInit => TagInv
<1>. SUFFICES ASSUME FieldsInit PROVE TagInv
  OBVIOUS
<1>1. CASE step = "edited" /\ tags \in TagLists
  <2>1. \A l \in TagLists : l \in Seq(Words)
    BY StoredFieldsAssumption DEF Words
  <2>2. saved = <<>>
    BY DEF FieldsInit
  <2>3. saved \in Seq(Words)
    BY <2>2
  <2>. QED BY <1>1, <2>1, <2>3 DEF TagInv
<1>2. CASE step = "off"
  BY <1>2 DEF TagInv
<1>. QED BY <1>1, <1>2 DEF FieldsInit

(* A save stores the string of the tags it was given.                      *)
LEMMA TagInvSave == ASSUME TagInv, SaveTags PROVE TagInv'
<1>1. step # "off" /\ step' = "saved" /\ tags' = tags
  BY DEF SaveTags
<1>2. tags \in Seq(Words)
  BY <1>1 DEF TagInv
<1>3. PICK s \in {tags, TagSliceTransform(tags)} : saved' = s /\ column' = TagSlice2TagString(s)
  BY DEF SaveTags
<1>4. s \in Seq(Words)
  BY <1>2, <1>3, CleanedTags
<1>5. tags' \in Seq(Words) /\ saved' \in Seq(Words) /\ column' = TagSlice2TagString(saved')
  BY <1>1, <1>2, <1>3, <1>4
<1>. QED BY <1>1, <1>5 DEF TagInv

(* A load returns what comes of the string that was saved.                 *)
LEMMA TagInvLoad == ASSUME TagInv, LoadTags PROVE TagInv'
<1>1. /\ step = "saved" /\ step' = "loaded" /\ saved' = saved /\ column' = column
      /\ tags' = TagString2TagSlice(column)
  BY DEF LoadTags
<1>2. saved \in Seq(Words) /\ column = TagSlice2TagString(saved)
  BY <1>1 DEF TagInv
<1>3. tags' = Back(saved)
  BY <1>1, <1>2 DEF Back
<1>4. Back(saved) \in Seq(Words)
  BY <1>2, TagsRoundTrip
<1>. QED BY <1>1, <1>2, <1>3, <1>4 DEF TagInv

(* The other field does not touch the tags.                                *)
LEMMA TagInvKept == ASSUME TagInv, UNCHANGED tagField PROVE TagInv'
BY DEF TagInv, tagField

(* Every step keeps the invariant of the tags.                             *)
LEMMA TagInvNext == ASSUME TagInv, [FieldsNext]_fieldsVars PROVE TagInv'
<1>1. CASE SaveTags
  BY <1>1, TagInvSave
<1>2. CASE LoadTags
  BY <1>2, TagInvLoad
<1>3. CASE \E t \in Texts : Encrypt(t) \/ WritePkcs5(t) \/ WriteUnpadded(t)
  <2>1. UNCHANGED tagField
    BY <1>3 DEF Encrypt, WritePkcs5, WriteUnpadded, Write
  <2>. QED BY <2>1, TagInvKept
<1>4. CASE \E k \in CipherKeys : ChangeKey(k)
  <2>1. UNCHANGED tagField
    BY <1>4 DEF ChangeKey
  <2>. QED BY <2>1, TagInvKept
<1>5. CASE \E n \in 0 .. Len(blocks.bytes), where \in {"between", "within"} : CutOff(n, where)
  <2>1. UNCHANGED tagField
    BY <1>5 DEF CutOff
  <2>. QED BY <2>1, TagInvKept
<1>6. CASE Decrypt
  <2>1. UNCHANGED tagField
    BY <1>6 DEF Decrypt
  <2>. QED BY <2>1, TagInvKept
<1>7. CASE UNCHANGED fieldsVars
  <2>1. UNCHANGED tagField
    BY <1>7 DEF fieldsVars
  <2>. QED BY <2>1, TagInvKept
<1>. QED BY <1>1, <1>2, <1>3, <1>4, <1>5, <1>6, <1>7 DEF FieldsNext

(* Under the invariant of the tags they come back as promised.             *)
LEMMA TagInvShows == ASSUME TagInv PROVE TagsComeBack
<1>1. CASE step # "loaded"
  BY <1>1 DEF TagsComeBack
<1>2. CASE step = "loaded"
  <2>1. saved \in Seq(Words) /\ tags = Back(saved)
    BY <1>2 DEF TagInv
  <2>. QED BY <2>1, TagsRoundTrip DEF TagsComeBack
<1>. QED BY <1>1, <1>2

(* Tags of any number and length, saved and loaded any number of times:    *)
(* plain ones come back as they were saved, and of others nothing comes    *)
(* back that was not a piece of a saved tag or that would not come back    *)
(* again (tags.go).                                                        *)
THEOREM TagsComeBackSafe == FieldsSpec => []TagsComeBack
<1>1. FieldsInit => TagInv
  BY TagInvInit
<1>2. TagInv /\ [FieldsNext]_fieldsVars => TagInv'
  BY TagInvNext
<1>3. TagInv => TagsComeBack
  BY TagInvShows
<1>. QED BY <1>1, <1>2, <1>3, PTL DEF FieldsSpec

----------------------------------------------------------------------------
(* Padding *)

(* Zeros at its end change nothing of a text without them.                 *)
LEMMA ZerosAfter ==
  ASSUME NEW s \in Words, NEW t \in Words, Len(t) <= Len(s),
         \A i \in 1 .. Len(t) : s[i] = t[i],
         \A i \in 1 .. Len(s) : i > Len(t) => s[i] = 0
  PROVE  WithoutZeros(s) = WithoutZeros(t)
<1>. DEFINE K(x) == {i \in 1 .. Len(x) : x[i] # 0}
<1>1. Len(s) \in Nat /\ Len(t) \in Nat
  BY WordType
<1>2. K(s) = K(t)
  BY <1>1
<1>3. \A x : WithoutZeros(x) = IF K(x) = {} THEN <<>> ELSE SubSeq(x, 1, Max(K(x)))
  BY Zenon DEF WithoutZeros
<1>4. PICK M : M = K(t)
  OBVIOUS
<1>5. M \in SUBSET (1 .. Len(t))
  BY <1>4
<1>. HIDE DEF K
<1>6. CASE M = {}
  BY <1>2, <1>3, <1>4, <1>6
<1>7. CASE M # {}
  <2>1. \E i \in M : \A j \in M : i >= j
    <3>1. PICK i \in M : \A j \in M : j <= i
      BY <1>1, <1>5, <1>7, LargestExists
    <3>. QED BY <1>5, <3>1
  <2>2. PICK m : m = Max(M)
    OBVIOUS
  <2>3. m \in M
    BY <2>1, <2>2, Zenon DEF Max
  <2>4. /\ m \in 1 .. Len(t) /\ m \in 1 .. Len(s) /\ 1 \in 1 .. Len(t) /\ 1 \in 1 .. Len(s)
        /\ 1 <= m /\ m - 1 + 1 = m
    BY <1>1, <1>5, <2>3
  <2>5. PICK one \in 1 .. Len(t) : one = 1
    BY <2>4
  <2>6. PICK a : a = SubSeq(s, 1, m)
    OBVIOUS
  <2>7. PICK b : b = SubSeq(t, 1, m)
    OBVIOUS
  <2>8. a \in Words /\ Len(a) = m /\ \A i \in 1 .. m : a[i] = s[i]
    BY <2>4, <2>6 DEF Words
  <2>9. b \in Words /\ Len(b) = m /\ \A i \in 1 .. m : b[i] = t[i]
    BY <2>4, <2>7 DEF Words
  <2>10. \A i \in 1 .. m : a[i] = b[i]
    BY <1>1, <2>4, <2>8, <2>9
  <2>11. a \in Seq(Nat) /\ b \in Seq(Nat) /\ Len(a) = Len(b) /\ \A i \in 1 .. Len(a) : a[i] = b[i]
    BY <2>8, <2>9, <2>10 DEF Words
  <2>12. a = b
    BY <2>11, SeqEqual
  <2>. QED BY <1>2, <1>3, <1>4, <1>7, <2>2, <2>6, <2>7, <2>12
<1>. QED BY <1>6, <1>7

(* The blocks that hold n bytes and at least one more.                     *)
LEMMA PaddedLength ==
  ASSUME NEW n \in Nat, NEW B \in Nat \ {0}
  PROVE  ((n + B) \div B) * B \in Nat /\ ((n + B) \div B) * B > n
<1>1. PICK m \in Nat : m = n + B
  OBVIOUS
<1>2. PICK d : d = m \div B
  OBVIOUS
<1>3. PICK r : r = m % B
  OBVIOUS
<1>4. d \in Nat /\ r \in 0 .. (B - 1) /\ m = B * d + r
  BY <1>1, <1>2, <1>3
<1>5. B * d = d * B /\ d * B \in Nat
  BY <1>4
<1>. QED BY <1>1, <1>2, <1>4, <1>5

(* Zero padding is the text, then at least one zero (aes.go:87).           *)
LEMMA PaddingHolds ==
  ASSUME NEW t \in Words
  PROVE  /\ ZeroPadded(t) \in Words /\ Len(ZeroPadded(t)) > Len(t)
         /\ \A i \in 1 .. Len(t) : ZeroPadded(t)[i] = t[i]
         /\ \A i \in 1 .. Len(ZeroPadded(t)) : i > Len(t) => ZeroPadded(t)[i] = 0
<1>1. Len(t) \in Nat /\ \A i \in 1 .. Len(t) : t[i] \in Nat
  BY WordType
<1>2. BlockSize \in Nat \ {0}
  BY StoredFieldsAssumption
<1>3. PICK L \in Nat : L = ((Len(t) + BlockSize) \div BlockSize) * BlockSize /\ L > Len(t)
  BY <1>1, <1>2, PaddedLength
<1>4. PICK z : z = ZeroPadded(t)
  OBVIOUS
<1>5. z = [i \in 1 .. L |-> IF i <= Len(t) THEN t[i] ELSE 0]
  BY <1>3, <1>4 DEF ZeroPadded
<1>6. z \in Seq(Nat) /\ Len(z) = L
  BY <1>1, <1>5
<1>7. \A i \in 1 .. L : z[i] = IF i <= Len(t) THEN t[i] ELSE 0
  BY <1>5
<1>8. z \in Words
  BY <1>6 DEF Words
<1>9. \A i \in 1 .. Len(t) : z[i] = t[i]
  BY <1>1, <1>3, <1>7
<1>10. \A i \in 1 .. Len(z) : i > Len(t) => z[i] = 0
  BY <1>1, <1>6, <1>7
<1>. QED BY <1>3, <1>4, <1>6, <1>8, <1>9, <1>10

(* Zero padding is taken off again: its last byte counts none, and the     *)
(* zeros go.                                                               *)
LEMMA ZeroPaddedBack ==
  ASSUME NEW t \in Words
  PROVE  Unpadded(ZeroPadded(t)) = [panic |-> FALSE, text |-> WithoutZeros(t)]
<1>1. PICK z \in Words : z = ZeroPadded(t)
  BY PaddingHolds
<1>2. Len(t) \in Nat /\ Len(z) \in Nat
  BY WordType
<1>3. /\ Len(z) > Len(t)
      /\ \A i \in 1 .. Len(t) : z[i] = t[i]
      /\ \A i \in 1 .. Len(z) : i > Len(t) => z[i] = 0
  BY <1>1, PaddingHolds
<1>4. z # <<>> /\ Last(z) = 0
  BY <1>2, <1>3 DEF Last
<1>5. SubSeq(z, 1, Len(z) - 0) = z
  BY DEF Words
<1>6. Len(t) <= Len(z)
  BY <1>2, <1>3
<1>7. WithoutZeros(z) = WithoutZeros(t)
  BY <1>3, <1>6, ZerosAfter
<1>8. ~(Last(z) > Len(z))
  BY <1>2, <1>4
<1>9. Unpadded(z) = [panic |-> FALSE, text |-> WithoutZeros(z)]
  BY <1>4, <1>5, <1>8 DEF Unpadded
<1>. QED BY <1>1, <1>7, <1>9

(* Padding of which the last byte counts the bytes is taken off again.     *)
LEMMA CountedBack ==
  ASSUME NEW t \in Words, NEW n \in Nat \ {0}
  PROVE  Unpadded(t \o [i \in 1 .. n |-> n]) = [panic |-> FALSE, text |-> WithoutZeros(t)]
<1>1. Len(t) \in Nat /\ t \in Seq(Nat)
  BY WordType DEF Words
<1>2. PICK p : p = [i \in 1 .. n |-> n]
  OBVIOUS
<1>3. p \in Seq(Nat) /\ Len(p) = n /\ p[n] = n
  BY <1>2
<1>4. PICK z : z = t \o p
  OBVIOUS
<1>5. z \in Seq(Nat) /\ Len(z) = Len(t) + n
  BY <1>1, <1>3, <1>4, ConcatProperties
<1>6. PICK k \in 1 .. Len(z) : k = Len(t) + n /\ k > Len(t) /\ k - Len(t) = n
  <2>1. PICK m \in Nat : m = Len(t)
    BY <1>1
  <2>2. m + n \in 1 .. m + n /\ m + n > m /\ m + n - m = n
    OBVIOUS
  <2>. QED BY <1>5, <2>1, <2>2
<1>7. z[k] = p[n]
  BY <1>1, <1>3, <1>4, <1>6, ConcatProperties
<1>8. z # <<>> /\ Last(z) = n /\ Len(z) - n = Len(t) /\ ~(n > Len(z))
  BY <1>1, <1>3, <1>5, <1>6, <1>7 DEF Last
<1>9. SubSeq(z, 1, Len(t)) = t
  BY <1>1, <1>3, <1>4
<1>10. Unpadded(z) = [panic |-> FALSE, text |-> WithoutZeros(t)]
  BY <1>8, <1>9 DEF Unpadded
<1>. QED BY <1>2, <1>4, <1>10

(* Without padding, the last byte of the text itself is taken for a count; *)
(* Decrypt panics when that is more than there is.                         *)
LEMMA UnpaddedPanics ==
  ASSUME NEW t, Unpadded(t).panic
  PROVE  Last(t) > Len(t)
<1>. DEFINE ok == [panic |-> FALSE, text |-> WithoutZeros(SubSeq(t, 1, Len(t) - Last(t)))]
<1>1. ~ok.panic /\ ~[panic |-> FALSE, text |-> <<>>].panic
  OBVIOUS
<1>2. CASE t = <<>>
  BY <1>1, <1>2 DEF Unpadded
<1>3. CASE t # <<>> /\ ~(Last(t) > Len(t))
  <2>1. Unpadded(t) = ok
    BY <1>3 DEF Unpadded
  <2>. QED BY <1>1, <2>1
<1>. QED BY <1>2, <1>3

(* The padding of PKCS #5 has from one byte up to a block.                 *)
LEMMA Pkcs5Length ==
  ASSUME NEW n \in Nat
  PROVE  BlockSize - (n % BlockSize) \in Nat \ {0}
<1>1. BlockSize \in Nat \ {0}
  BY StoredFieldsAssumption
<1>2. PICK r : r = n % BlockSize
  OBVIOUS
<1>3. r \in 0 .. (BlockSize - 1)
  BY <1>1, <1>2
<1>. QED BY <1>1, <1>2, <1>3

----------------------------------------------------------------------------
(* The place of a byte of a key *)

(* A multiple of B that is nearer to 0 than B is 0.                        *)
LEMMA NoMultiple ==
  ASSUME NEW B \in Nat \ {0}, NEW q \in Int, B * q < B, -B < B * q
  PROVE  q = 0
<1>1. CASE q >= 1
  <2>1. PICK d \in Nat : q = d + 1
    BY <1>1
  <2>2. B * q = B * d + B /\ B * d >= 0
    BY <2>1
  <2>. QED BY <2>2
<1>2. CASE q <= -1
  <2>1. PICK d \in Nat : -q = d + 1
    BY <1>2
  <2>2. q = -d - 1
    BY <2>1
  <2>3. B * q = -(B * d) - B /\ B * d >= 0
    BY <2>2
  <2>. QED BY <2>3
<1>. QED BY <1>1, <1>2

(* A number is a multiple of B and its remainder.                          *)
LEMMA Divides ==
  ASSUME NEW x \in Int, NEW B \in Nat \ {0}
  PROVE  x % B \in 0 .. (B - 1) /\ \E d \in Int : x = B * d + (x % B)
<1>1. x \div B \in Int /\ x % B \in 0 .. (B - 1)
  OBVIOUS
<1>2. x = B * (x \div B) + (x % B)
  OBVIOUS
<1>. QED BY <1>1, <1>2

(* Byte i of a key is folded onto place j when they are a multiple of a    *)
(* block apart.                                                            *)
LEMMA PlaceOf ==
  ASSUME NEW i \in Nat \ {0}, NEW j \in 1 .. BlockSize
  PROVE  /\ Place(i) \in 1 .. BlockSize
         /\ (Place(i) = j) <=> ((i - j) % BlockSize = 0)
<1>1. PICK B \in Nat \ {0} : B = BlockSize
  BY StoredFieldsAssumption
<1>2. PICK k \in Nat : k = i - 1
  OBVIOUS
<1>3. PICK r \in 0 .. (B - 1) : r = k % B
  BY <1>1, <1>2
<1>4. PICK d \in Int : k = B * d + r
  <2>1. k \in Int
    OBVIOUS
  <2>. QED BY <1>1, <1>3, <2>1, Divides
<1>5. PICK x \in Int : x = i - j
  BY <1>1
<1>6. PICK u \in 0 .. (B - 1) : u = x % B
  BY <1>1, <1>5
<1>7. PICK e \in Int : x = B * e + u
  BY <1>1, <1>6, Divides
<1>8. Place(i) = r + 1 /\ r + 1 \in 1 .. B
  BY <1>1, <1>2, <1>3 DEF Place
<1>9. k - (j - 1) = x /\ j - 1 \in 0 .. (B - 1)
  BY <1>1, <1>2, <1>5
<1>10. B * d + r - (j - 1) = B * e + u
  BY <1>4, <1>7, <1>9
<1>11. B * (d - e) = u - r + (j - 1)
  <2>1. B * (d - e) = B * d - B * e
    OBVIOUS
  <2>. QED BY <1>3, <1>6, <1>9, <1>10, <2>1
<1>12. ASSUME r + 1 = j PROVE u = 0
  <2>1. B * (d - e) = u
    BY <1>11, <1>12, <1>9
  <2>2. d - e = 0
    BY <1>6, <2>1, NoMultiple
  <2>. QED BY <2>1, <2>2
<1>13. ASSUME u = 0 PROVE r + 1 = j
  <2>1. B * (d - e) = j - 1 - r
    BY <1>3, <1>9, <1>11, <1>13
  <2>2. B * (d - e) < B /\ -B < B * (d - e)
    BY <1>3, <1>9, <2>1
  <2>3. PICK q \in Int : q = d - e
    OBVIOUS
  <2>4. q = 0
    BY <2>2, <2>3, NoMultiple
  <2>5. B * (d - e) = 0
    BY <2>3, <2>4
  <2>. QED BY <1>3, <1>9, <2>1, <2>5
<1>. QED BY <1>1, <1>5, <1>6, <1>8, <1>12, <1>13

----------------------------------------------------------------------------
(* The folding of a key *)

Bits == {0, 1}
BitKeys == Seq(Bits)
Cipher == [1 .. BlockSize -> Bits]
NoBits == [j \in 1 .. BlockSize |-> 0]

Flipped(x, i, bit) == [x EXCEPT ![Place(i)] = Xor(@, bit)]

Fold(k) ==
  CHOOSE folded : folded = [i \in 0 .. Len(k) |->
        IF i = 0 THEN NoBits ELSE Flipped(folded[i - 1], i, k[i])]

(* generateKey returns what is folded after the last byte.                 *)
LEMMA KeyIsFold ==
  ASSUME NEW k
  PROVE  generateKey(k) = Fold(k)[Len(k)]
BY Zenon DEF generateKey, Fold, NoBits, Flipped

(* Folding a byte changes the one place it belongs to.                     *)
LEMMA FlippedType ==
  ASSUME NEW x \in Cipher, NEW i \in Nat \ {0}, NEW bit \in Bits
  PROVE  /\ Flipped(x, i, bit) \in Cipher
         /\ Place(i) \in 1 .. BlockSize
         /\ Flipped(x, i, bit)[Place(i)] = (x[Place(i)] + bit) % 2
         /\ \A j \in 1 .. BlockSize : j # Place(i) => Flipped(x, i, bit)[j] = x[j]
<1>1. BlockSize \in Nat \ {0}
  BY StoredFieldsAssumption
<1>2. PICK one \in 1 .. BlockSize : one = 1
  BY <1>1
<1>3. PICK p \in 1 .. BlockSize : p = Place(i)
  BY <1>2, PlaceOf
<1>4. \A a, b \in Bits : Xor(a, b) \in Bits
  BY DEF Xor, Bits
<1>5. x[p] \in Bits /\ Xor(x[p], bit) = (x[p] + bit) % 2
  BY DEF Cipher, Xor
<1>6. PICK v \in Bits : v = Xor(x[p], bit)
  BY <1>4, <1>5
<1>7. Flipped(x, i, bit) = [x EXCEPT ![p] = v]
  BY <1>3, <1>6 DEF Flipped
<1>. QED BY <1>3, <1>5, <1>6, <1>7 DEF Cipher

(* The length and the bits of a key.                                       *)
LEMMA KeyType ==
  ASSUME NEW k \in BitKeys
  PROVE  Len(k) \in Nat /\ \A i \in 1 .. Len(k) : k[i] \in Bits
BY DEF BitKeys

(* generateKey starts with zeros and folds a byte at a time.               *)
LEMMA FoldSteps ==
  ASSUME NEW k \in BitKeys
  PROVE  /\ \A i \in 0 .. Len(k) : Fold(k)[i] \in Cipher
         /\ Fold(k)[0] = NoBits
         /\ \A i \in 1 .. Len(k) : Fold(k)[i] = Flipped(Fold(k)[i - 1], i, k[i])
<1>. DEFINE g == [i \in 1 .. Len(k) |-> [x \in Cipher |-> Flipped(x, i, k[i])]]
<1>1. NoBits \in Cipher
  BY DEF NoBits, Cipher, Bits
<1>2. \A i \in 1 .. Len(k), x \in Cipher : g[i][x] = Flipped(x, i, k[i])
  OBVIOUS
<1>3. Len(k) \in Nat /\ \A i \in 1 .. Len(k) : k[i] \in Bits
  BY KeyType
<1>4. \A i \in 1 .. Len(k), x \in Cipher : Flipped(x, i, k[i]) \in Cipher
  <2>. SUFFICES ASSUME NEW i \in 1 .. Len(k), NEW x \in Cipher
                PROVE  Flipped(x, i, k[i]) \in Cipher
    OBVIOUS
  <2>1. i \in Nat \ {0} /\ k[i] \in Bits
    BY <1>3
  <2>. QED BY <2>1, FlippedType
<1>. HIDE DEF g
<1>5. PICK f \in [0 .. Len(k) -> Cipher] :
        f[0] = NoBits /\ \A i \in 1 .. Len(k) : f[i] = g[i][f[i - 1]]
  <2>1. \A i \in 1 .. Len(k), x \in Cipher : g[i][x] \in Cipher
    BY <1>2, <1>4
  <2>2. Loops(Len(k), Cipher, NoBits, g) # {}
    BY <1>1, <2>1, <1>3, LoopExists
  <2>. QED BY <2>2 DEF Loops
<1>6. \A i \in 0 .. Len(k) : i # 0 => i \in 1 .. Len(k) /\ i - 1 \in 0 .. Len(k)
  BY <1>3
<1>7. f = [i \in 0 .. Len(k) |-> IF i = 0 THEN NoBits ELSE Flipped(f[i - 1], i, k[i])]
  <2>1. \A i \in 0 .. Len(k) : f[i] \in Cipher
    BY <1>5
  <2>. QED BY <1>2, <1>5, <1>6, <2>1, Zenon
<1>8. PICK h : h = Fold(k)
  OBVIOUS
<1>9. h = [i \in 0 .. Len(k) |-> IF i = 0 THEN NoBits ELSE Flipped(h[i - 1], i, k[i])]
  BY <1>7, <1>8, Zenon DEF Fold
<1>10. h[0] = NoBits /\ \A i \in 1 .. Len(k) : h[i] = Flipped(h[i - 1], i, k[i])
  <2>1. 0 \in 0 .. Len(k) /\ \A i \in 1 .. Len(k) : i \in 0 .. Len(k) /\ i # 0
    BY <1>3
  <2>. QED BY <1>9, <2>1, Zenon
<1>11. \A n \in 0 .. Len(k) : h[n] \in Cipher
  <2>. DEFINE T == {n \in 0 .. Len(k) : h[n] \in Cipher}
  <2>1. 0 \in T
    BY <1>1, <1>3, <1>10
  <2>2. ASSUME NEW n \in 0 .. Len(k), n < Len(k), n \in T
        PROVE  n + 1 \in T
    <3>1. n + 1 \in 1 .. Len(k) /\ n + 1 - 1 = n
      BY <1>3, <2>2
    <3>. QED BY <1>3, <1>4, <1>10, <2>2, <3>1
  <2>. HIDE DEF T
  <2>3. \A n \in 0 .. Len(k) : n \in T
    BY <1>3, <2>1, <2>2, UpTo
  <2>. QED BY <2>3 DEF T
<1>. QED BY <1>8, <1>10, <1>11, Zenon

(* The bits set among the first n bytes that are folded onto place j.      *)
Ones(k, n, j) == {i \in 1 .. n : (i - j) % BlockSize = 0 /\ k[i] = 1}

(* The bits that are set are finitely many.                                *)
LEMMA OnesFinite ==
  ASSUME NEW k, NEW n \in Nat, NEW j
  PROVE  IsFiniteSet(Ones(k, n, j)) /\ Cardinality(Ones(k, n, j)) \in Nat
<1>1. IsFiniteSet(1 .. n)
  BY FS_Interval
<1>2. IsFiniteSet(Ones(k, n, j))
  BY <1>1, FS_Subset DEF Ones
<1>. QED BY <1>2, FS_CardinalityType

(* The next byte adds its bit to the count of its place alone.             *)
LEMMA OneMore ==
  ASSUME NEW k \in BitKeys, NEW n \in Nat, n < Len(k), NEW j \in 1 .. BlockSize
  PROVE  Cardinality(Ones(k, n + 1, j)) =
           Cardinality(Ones(k, n, j)) + (IF Place(n + 1) = j THEN k[n + 1] ELSE 0)
<1>1. PICK i \in Nat \ {0} : i = n + 1
  OBVIOUS
<1>2. i \in 1 .. Len(k) /\ k[i] \in Bits
  BY <1>1, KeyType
<1>3. Place(i) = j <=> (i - j) % BlockSize = 0
  BY PlaceOf
<1>4. PICK S : S = Ones(k, n, j)
  OBVIOUS
<1>5. IsFiniteSet(S) /\ Cardinality(S) \in Nat
  BY <1>4, OnesFinite
<1>6. \A m : m \in 1 .. i <=> m \in 1 .. n \/ m = i
  BY <1>1
<1>7. CASE (i - j) % BlockSize = 0 /\ k[i] = 1
  <2>1. Ones(k, i, j) = S \cup {i}
    BY <1>4, <1>6, <1>7, Zenon DEF Ones
  <2>2. i \notin S
    BY <1>1, <1>4 DEF Ones
  <2>3. Cardinality(S \cup {i}) = Cardinality(S) + 1
    BY <1>5, <2>2, FS_AddElement
  <2>. QED BY <1>1, <1>3, <1>4, <1>7, <2>1, <2>3
<1>8. CASE ~((i - j) % BlockSize = 0 /\ k[i] = 1)
  <2>1. Ones(k, i, j) = S
    BY <1>4, <1>6, <1>8, Zenon DEF Ones
  <2>2. (IF Place(i) = j THEN k[i] ELSE 0) = 0
    BY <1>2, <1>3, <1>8 DEF Bits
  <2>. QED BY <1>1, <1>4, <1>5, <2>1, <2>2
<1>. QED BY <1>7, <1>8

(* Place j of the cipher's key is the parity of the bits folded onto it.   *)
LEMMA FoldParity ==
  ASSUME NEW k \in BitKeys, NEW j \in 1 .. BlockSize
  PROVE  generateKey(k)[j] = Cardinality(Ones(k, Len(k), j)) % 2
<1>. DEFINE T == {n \in 0 .. Len(k) : Fold(k)[n][j] = Cardinality(Ones(k, n, j)) % 2}
<1>1. Len(k) \in Nat
  BY KeyType
<1>2. 0 \in T
  <2>1. Ones(k, 0, j) = {}
    BY DEF Ones
  <2>2. Cardinality(Ones(k, 0, j)) = 0
    BY <2>1, FS_EmptySet
  <2>3. Fold(k)[0][j] = 0
    BY FoldSteps DEF NoBits
  <2>. QED BY <1>1, <2>2, <2>3
<1>3. ASSUME NEW n \in 0 .. Len(k), n < Len(k), n \in T
      PROVE  n + 1 \in T
  <2>1. PICK i \in Nat \ {0} : i = n + 1
    BY <1>1
  <2>2. i \in 1 .. Len(k) /\ i - 1 = n /\ n \in Nat
    BY <1>1, <1>3, <2>1
  <2>3. PICK x \in Cipher : x = Fold(k)[n]
    BY FoldSteps
  <2>4. PICK bit \in Bits : bit = k[i]
    BY <2>2, KeyType
  <2>5. Fold(k)[i] = Flipped(x, i, bit)
    BY <2>2, <2>3, <2>4, FoldSteps
  <2>6. PICK c \in Nat : c = Cardinality(Ones(k, n, j))
    BY <2>2, OnesFinite
  <2>7. x[j] = c % 2
    BY <1>3, <2>3, <2>6
  <2>8. Cardinality(Ones(k, n + 1, j)) =
          Cardinality(Ones(k, n, j)) + (IF Place(n + 1) = j THEN k[n + 1] ELSE 0)
    BY <1>3, <2>2, OneMore
  <2>9. Cardinality(Ones(k, i, j)) = c + (IF Place(i) = j THEN bit ELSE 0)
    BY <2>1, <2>4, <2>6, <2>8
  <2>10. PICK y : y = Fold(k)[i][j]
    OBVIOUS
  <2>13. PICK d : d = Cardinality(Ones(k, i, j))
    OBVIOUS
  <2>14. SUFFICES y = d % 2
    BY <1>1, <2>1, <2>2, <2>10, <2>13
  <2>11. CASE Place(i) = j
    <3>1. y = (x[j] + bit) % 2
      BY <2>5, <2>10, <2>11, FlippedType
    <3>2. ((c % 2) + bit) % 2 = (c + bit) % 2
      BY DEF Bits
    <3>. QED BY <2>7, <2>9, <2>11, <2>13, <3>1, <3>2
  <2>12. CASE Place(i) # j
    <3>1. y = x[j]
      BY <2>5, <2>10, <2>12, FlippedType
    <3>2. d = c
      BY <2>6, <2>9, <2>12, <2>13
    <3>. QED BY <2>7, <3>1, <3>2
  <2>. QED BY <2>11, <2>12
<1>. HIDE DEF T
<1>4. \A n \in 0 .. Len(k) : n \in T
  BY <1>1, <1>2, <1>3, UpTo
<1>5. Len(k) \in T
  BY <1>1, <1>4
<1>. QED BY <1>5, KeyIsFold DEF T

(* Two configured keys are folded to the same key of the cipher exactly if *)
(* they are alike, whatever their lengths (aes.go:125, generateKey).       *)
THEOREM AlikeFold ==
  ASSUME NEW a \in BitKeys, NEW b \in BitKeys
  PROVE  Alike(a, b) <=> generateKey(a) = generateKey(b)
<1>1. Alike(a, b) <=> \A j \in 1 .. BlockSize :
        Cardinality(Ones(a, Len(a), j)) % 2 = Cardinality(Ones(b, Len(b), j)) % 2
  BY Zenon DEF Alike, Ones
<1>2. Alike(a, b) <=> \A j \in 1 .. BlockSize : generateKey(a)[j] = generateKey(b)[j]
  BY <1>1, FoldParity
<1>3. PICK f \in Cipher : f = generateKey(a)
  <2>1. Len(a) \in 0 .. Len(a)
    BY KeyType
  <2>. QED BY <2>1, FoldSteps, KeyIsFold
<1>4. PICK g \in Cipher : g = generateKey(b)
  <2>1. Len(b) \in 0 .. Len(b)
    BY KeyType
  <2>. QED BY <2>1, FoldSteps, KeyIsFold
<1>5. f = g <=> \A j \in 1 .. BlockSize : f[j] = g[j]
  <2>1. f = [j \in 1 .. BlockSize |-> f[j]] /\ g = [j \in 1 .. BlockSize |-> g[j]]
    BY Zenon DEF Cipher
  <2>. QED BY <2>1, Zenon
<1>. QED BY <1>2, <1>3, <1>4, <1>5

----------------------------------------------------------------------------
(* Texts that are encrypted and decrypted *)

Pkcs5(t) == t \o [i \in 1 .. BlockSize - (Len(t) % BlockSize) |-> BlockSize - (Len(t) % BlockSize)]

(* How w pads t.                                                           *)
Padded(w, t) ==
  IF w = "library" THEN ZeroPadded(t) ELSE IF w = "pkcs5" THEN Pkcs5(t) ELSE t

(* Until the column is cut off, the stored blocks are the text as its      *)
(* writer padded it, under the key it was encrypted with; what Decrypt     *)
(* returned is what it may return for them.                                *)
SecretInv ==
  /\ step = "off" => key \in CipherKeys
  /\ writer # "none" => text \in Texts /\ made \in CipherKeys /\ writer \in {"library", "pkcs5", "unpadded"}
  /\ writer # "none" /\ cut = "no" => blocks = Blocks(Padded(writer, text), made)
  /\ writer = "none" => got = <<>>
  /\ got # <<>> => step = "off" /\ \E r \in decryptECB(blocks, cut = "within", key) : got = <<r>>

(* The invariant of the secret holds before a text is written.             *)
LEMMA SecretInvInit == FieldsInit => SecretInv
BY DEF FieldsInit, SecretInv

(* The other field does not touch the secret.                              *)
LEMMA SecretInvTags == ASSUME SecretInv, SaveTags \/ LoadTags PROVE SecretInv'
<1>1. UNCHANGED secretField /\ step # "off" /\ step' # "off"
  BY DEF SaveTags, LoadTags
<1>. QED BY <1>1 DEF SecretInv, secretField

(* A writer stores the padded text under the configured key.               *)
LEMMA SecretInvWrite ==
  ASSUME SecretInv, NEW t \in Texts, NEW w \in {"library", "pkcs5", "unpadded"},
         Write(t, w, Blocks(Padded(w, t), key))
  PROVE  SecretInv'
<1>1. /\ step = "off" /\ step' = "off" /\ key' = key /\ cut' = cut /\ got' = got /\ writer = "none"
      /\ text' = t /\ made' = key /\ writer' = w /\ blocks' = Blocks(Padded(w, t), key)
  BY DEF Write, tagField
<1>2. key \in CipherKeys /\ got = <<>> /\ w # "none"
  BY <1>1 DEF SecretInv
<1>. QED BY <1>1, <1>2 DEF SecretInv

(* The library, a program that pads as PKCS #5 does and one that does not  *)
(* pad are such writers.                                                   *)
LEMMA SecretInvWrites ==
  ASSUME SecretInv, NEW t \in Texts, Encrypt(t) \/ WritePkcs5(t) \/ WriteUnpadded(t)
  PROVE  SecretInv'
<1>1. CASE Encrypt(t)
  <2>1. Write(t, "library", Blocks(Padded("library", t), key))
    BY <1>1 DEF Encrypt, encryptECB, Padded
  <2>. QED BY <2>1, SecretInvWrite
<1>2. CASE WritePkcs5(t)
  <2>1. Write(t, "pkcs5", Blocks(Padded("pkcs5", t), key))
    BY <1>2 DEF WritePkcs5, Pkcs5, Padded
  <2>. QED BY <2>1, SecretInvWrite
<1>3. CASE WriteUnpadded(t)
  <2>1. Write(t, "unpadded", Blocks(Padded("unpadded", t), key))
    BY <1>3 DEF WriteUnpadded, Padded
  <2>. QED BY <2>1, SecretInvWrite
<1>. QED BY <1>1, <1>2, <1>3

(* Another key changes nothing that is stored.                             *)
LEMMA SecretInvKey == ASSUME SecretInv, NEW k \in CipherKeys, ChangeKey(k) PROVE SecretInv'
<1>1. /\ step = "off" /\ step' = step /\ key' = k /\ got = <<>> /\ got' = got
      /\ text' = text /\ made' = made /\ blocks' = blocks /\ writer' = writer /\ cut' = cut
  BY DEF ChangeKey, tagField
<1>. QED BY <1>1 DEF SecretInv

(* Of a column that was cut off nothing more is promised.                  *)
LEMMA SecretInvCut ==
  ASSUME SecretInv, NEW n, NEW where \in {"between", "within"}, CutOff(n, where)
  PROVE  SecretInv'
<1>1. /\ step = "off" /\ step' = step /\ key' = key /\ got = <<>> /\ got' = got
      /\ text' = text /\ made' = made /\ writer' = writer /\ cut' # "no"
  BY DEF CutOff, tagField
<1>. QED BY <1>1 DEF SecretInv

(* Decrypt returns what it may for the stored blocks and the key.          *)
LEMMA SecretInvDecrypt == ASSUME SecretInv, Decrypt PROVE SecretInv'
<1>1. /\ step = "off" /\ step' = step /\ key' = key /\ writer # "none"
      /\ text' = text /\ made' = made /\ blocks' = blocks /\ writer' = writer /\ cut' = cut
  BY DEF Decrypt, tagField
<1>2. \E r \in decryptECB(blocks, cut = "within", key) : got' = <<r>>
  BY DEF Decrypt
<1>. QED BY <1>1, <1>2 DEF SecretInv

(* Every step keeps the invariant of the secret.                           *)
LEMMA SecretInvNext == ASSUME SecretInv, [FieldsNext]_fieldsVars PROVE SecretInv'
<1>1. CASE SaveTags \/ LoadTags
  BY <1>1, SecretInvTags
<1>2. CASE \E t \in Texts : Encrypt(t) \/ WritePkcs5(t) \/ WriteUnpadded(t)
  BY <1>2, SecretInvWrites
<1>3. CASE \E k \in CipherKeys : ChangeKey(k)
  BY <1>3, SecretInvKey
<1>4. CASE \E n \in 0 .. Len(blocks.bytes), where \in {"between", "within"} : CutOff(n, where)
  BY <1>4, SecretInvCut
<1>5. CASE Decrypt
  BY <1>5, SecretInvDecrypt
<1>6. CASE UNCHANGED fieldsVars
  BY <1>6 DEF fieldsVars, secretField, tagField, SecretInv
<1>. QED BY <1>1, <1>2, <1>3, <1>4, <1>5, <1>6 DEF FieldsNext

(* What a text comes back as.                                              *)
Plaintext(t) == [panic |-> FALSE, text |-> WithoutZeros(t)]

(* decryptECB undoes the padding of the library and of PKCS #5, and panics *)
(* only on an unpadded text whose last byte counts more than there is.     *)
LEMMA PaddedBack ==
  ASSUME NEW t \in Words, NEW w \in {"library", "pkcs5", "unpadded"}
  PROVE  /\ w \in {"library", "pkcs5"} => Unpadded(Padded(w, t)) = Plaintext(t)
         /\ Unpadded(Padded(w, t)).panic => w = "unpadded" /\ Last(t) > Len(t)
<1>1. ~Plaintext(t).panic
  BY DEF Plaintext
<1>2. CASE w = "library"
  <2>1. Unpadded(Padded(w, t)) = Plaintext(t)
    BY <1>2, ZeroPaddedBack DEF Padded, Plaintext
  <2>. QED BY <1>1, <2>1
<1>3. CASE w = "pkcs5"
  <2>1. PICK n \in Nat \ {0} : n = BlockSize - (Len(t) % BlockSize)
    BY WordType, Pkcs5Length
  <2>2. Padded(w, t) = t \o [i \in 1 .. n |-> n]
    BY <1>3, <2>1 DEF Pkcs5, Padded
  <2>3. Unpadded(Padded(w, t)) = Plaintext(t)
    BY <2>2, CountedBack DEF Plaintext
  <2>. QED BY <1>1, <2>3
<1>4. CASE w = "unpadded"
  <2>1. Padded(w, t) = t
    BY <1>4 DEF Padded
  <2>. QED BY <1>4, <2>1, UnpaddedPanics
<1>. QED BY <1>2, <1>3, <1>4

(* Under the invariant of the secret it comes back as promised.            *)
LEMMA SecretInvShows == ASSUME SecretInv PROVE SecretComesBack
<1>. SUFFICES ASSUME NEW r \in ToSet(got)
              PROVE  /\ cut = "no" /\ Alike(made, key) /\ writer \in {"library", "pkcs5"} => r = Plaintext(text)
                     /\ r.panic => cut # "no" \/ ~Alike(made, key) \/ (writer = "unpadded" /\ Last(text) > Len(text))
  BY DEF SecretComesBack, Plaintext
<1>1. got # <<>>
  BY DEF ToSet
<1>2. PICK x \in decryptECB(blocks, cut = "within", key) : got = <<x>>
  BY <1>1 DEF SecretInv
<1>3. r = x
  BY <1>2 DEF ToSet
<1>4. CASE cut # "no" \/ ~Alike(made, key)
  BY <1>4
<1>5. CASE cut = "no" /\ Alike(made, key)
  <2>1. /\ key \in CipherKeys /\ text \in Texts /\ made \in CipherKeys
        /\ writer \in {"library", "pkcs5", "unpadded"}
    BY <1>1 DEF SecretInv
  <2>2. PICK bytes : bytes = Padded(writer, text) /\ blocks = Blocks(bytes, made)
    BY <1>1, <1>5 DEF SecretInv
  <2>3. key \in BitKeys /\ made \in BitKeys
    BY <2>1, StoredFieldsAssumption DEF BitKeys, Bits
  <2>4. text \in Words
    <3>1. \A t \in Texts : t \in Seq(Bytes)
      BY StoredFieldsAssumption
    <3>2. text \in Seq(Bytes)
      BY <2>1, <3>1
    <3>3. \A b \in Bytes : b \in Nat
      BY StoredFieldsAssumption DEF Bytes
    <3>. QED BY <3>2, <3>3 DEF Words
  <2>5. generateKey(made) = generateKey(key)
    BY <1>5, <2>3, AlikeFold
  <2>6. blocks.key = generateKey(key) /\ blocks.bytes = bytes
    BY <2>2, <2>5 DEF Blocks
  <2>7. decryptECB(blocks, cut = "within", key) = {Unpadded(bytes)}
    BY <1>5, <2>6 DEF decryptECB
  <2>8. r = Unpadded(bytes)
    BY <1>2, <1>3, <2>7
  <2>. QED BY <2>1, <2>2, <2>4, <2>8, PaddedBack
<1>. QED BY <1>4, <1>5

(* Texts and keys of any length, in blocks of any size: an encrypted text  *)
(* comes back under every key that folds to the same one, and Decrypt      *)
(* panics only for the three reasons that are named (aes.go).              *)
THEOREM SecretComesBackSafe == FieldsSpec => []SecretComesBack
<1>1. FieldsInit => SecretInv
  BY SecretInvInit
<1>2. SecretInv /\ [FieldsNext]_fieldsVars => SecretInv'
  BY SecretInvNext
<1>3. SecretInv => SecretComesBack
  BY SecretInvShows
<1>. QED BY <1>1, <1>2, <1>3, PTL DEF FieldsSpec
=============================================================================
