--------------------------- MODULE WorkloadsProofs ---------------------------
(***************************************************************************)
(* Proofs about Workloads: its types, the namespace and the parts of the   *)
(* objects that are sent, and the absence of lost updates, for every       *)
(* number of workers, clients, slices and options.                         *)
(***************************************************************************)
EXTENDS Workloads, FiniteSetTheorems, TLAPS

(* An option function keeps an object an object of its kind and version.   *)
LEMMA ApplyType ==
  ASSUME NEW o \in Objects, NEW p \in Options
  PROVE  /\ Apply(o, p) \in Objects
         /\ Apply(o, p).kind = o.kind
         /\ Apply(o, p).version = o.version
         /\ Apply(o, p).edits = o.edits
<1>1. CASE p.field = "name"
  <2>1. p.value \in Names
    BY <1>1 DEF Options
  <2>. QED BY <1>1, <2>1 DEF Apply, Objects
<1>2. CASE p.field = "ns"
  <2>1. p.value \in Namespaces
    BY <1>2 DEF Options
  <2>. QED BY <1>2, <2>1 DEF Apply, Objects
<1>3. CASE p.field \notin {"name", "ns"}
  <2>1. p.value \in Parts
    BY <1>3 DEF Options
  <2>2. (IF AppendsParts(o.kind) THEN Append(o.parts, p.value) ELSE <<p.value>>) \in Seq(Parts)
    BY <2>1 DEF Objects
  <2>. QED BY <1>3, <2>2 DEF Apply, Objects
<1>. QED BY <1>1, <1>2, <1>3

(* What the API server stores for worker w, in a version v.                *)
StoredAs(w, v, e) == [Defaulted(w) EXCEPT !.version = v, !.edits = e]

(* What the API server stores for a worker is an object under the worker's *)
(* key.                                                                    *)
LEMMA StoredAsType ==
  ASSUME TypeOK, NEW w \in Workers, pc[w] # "idle", Addressed(w),
         NEW v \in Nat, NEW e \in SUBSET Nat
  PROVE  /\ Defaulted(w) \in Objects
         /\ Defaulted(w).edits = obj[w].edits
         /\ Defaulted(w).version = obj[w].version
         /\ StoredAs(w, v, e) \in Objects
         /\ StoredAs(w, v, e).version = v
         /\ StoredAs(w, v, e).edits = e
         /\ Key(StoredAs(w, v, e)) = Key(Defaulted(w))
         /\ Key(Defaulted(w)) \in Kinds \X Namespaces \X Names
<1>1. obj[w] \in Objects /\ call[w].client \in Clients
  BY DEF TypeOK
<1>2. NsOf[call[w].client] \in Namespaces
  BY <1>1, WorkloadsAssumption DEF WorkloadsAssumption
<1>3. /\ Defaulted(w) \in Objects
      /\ Defaulted(w).edits = obj[w].edits
      /\ Defaulted(w).version = obj[w].version
      /\ Defaulted(w).name = obj[w].name
  BY <1>1, <1>2 DEF Defaulted, Objects
<1>4. Defaulted(w).ns \in Namespaces /\ Defaulted(w).name \in Names
  BY <1>1, <1>2, <1>3 DEF Addressed, Objects
<1>. QED BY <1>3, <1>4 DEF StoredAs, Key, Objects

Labels == {"idle", "build", "create", "hold", "change", "update"}

(* What a busy worker must have: an object, a client, and a slice while it *)
(* applies options.                                                        *)
WorkerOK(l, o, k) ==
  /\ IF l = "idle" THEN o = None ELSE o \in Objects /\ k.client \in Clients
  /\ l \in {"build", "create", "change"} => k.slice \in Slices

(* A step of one worker that sets its own variables to values of their     *)
(* types keeps the types.                                                  *)
LEMMA WorkerType ==
  ASSUME TypeOK, NEW w \in Workers,
         NEW l \in Labels, NEW o \in Objects \cup {None}, NEW k \in CallRecords,
         WorkerOK(l, o, k),
         pc' = [pc EXCEPT ![w] = l], obj' = [obj EXCEPT ![w] = o], call' = [call EXCEPT ![w] = k],
         next' \in [Workers -> Nat \ {0}], spare' = spare,
         slot' \in [Slices -> Namespaces \cup {None}], wrote' \in [Slices -> SUBSET Namespaces],
         cluster' \in SUBSET Objects, clock' \in 0..MaxVersion,
         past' \in [Kinds \X Namespaces \X Names -> SUBSET Nat]
  PROVE  TypeOK'
<1>1. /\ pc' \in [Workers -> Labels] /\ obj' \in [Workers -> Objects \cup {None}]
      /\ call' \in [Workers -> CallRecords]
  BY DEF TypeOK, Labels
<1>2. \A v \in Workers : WorkerOK(pc'[v], obj'[v], call'[v])
  BY DEF TypeOK, WorkerOK, Labels
<1>. QED BY <1>1, <1>2 DEF TypeOK, WorkerOK, Labels

(* The fields of the workers, one by one.                                  *)
LEMMA WorkerFacts ==
  ASSUME TypeOK, NEW w \in Workers
  PROVE  /\ pc[w] \in Labels /\ obj[w] \in Objects \cup {None} /\ call[w] \in CallRecords
         /\ WorkerOK(pc[w], obj[w], call[w])
         /\ next[w] \in Nat \ {0}
         /\ pc = [pc EXCEPT ![w] = pc[w]]
         /\ obj = [obj EXCEPT ![w] = obj[w]]
         /\ call = [call EXCEPT ![w] = call[w]]
BY DEF TypeOK, WorkerOK, Labels

(* No call is among the values of a worker's call.                         *)
LEMMA NoCallType == NoCall \in CallRecords
BY DEF NoCall, CallRecords

(* What the API server has stored after a successful write.                *)
LEMMA StoredType ==
  ASSUME TypeOK, NEW w \in Workers, CreateStored(w) \/ UpdateStored(w)
  PROVE  /\ cluster' \in SUBSET Objects /\ clock' = clock + 1 /\ clock' \in 0..MaxVersion
         /\ past' \in [Kinds \X Namespaces \X Names -> SUBSET Nat]
         /\ CreateStored(w) => StoredAs(w, clock + 1, {clock + 1}) \in Objects
         /\ UpdateStored(w) =>
              StoredAs(w, clock + 1, obj[w].edits \cup {clock + 1}) \in Objects
<1>. USE WorkloadsAssumption DEF WorkloadsAssumption
<1>0. clock \in Nat /\ clock + 1 \in Nat /\ {clock + 1} \in SUBSET Nat
  BY DEF TypeOK
<1>1. CASE CreateStored(w)
  <2>1. StoredAs(w, clock + 1, {clock + 1}) \in Objects
    BY <1>0, <1>1, StoredAsType DEF CreateStored
  <2>2. pc[w] = "create"
    BY <1>1 DEF CreateStored
  <2>3. ~UpdateStored(w)
    BY <2>2 DEF UpdateStored
  <2>4. /\ clock < MaxVersion /\ clock' = clock + 1
        /\ cluster' = (cluster \ Stored(Key(Defaulted(w)))) \cup {StoredAs(w, clock + 1, {clock + 1})}
        /\ past' = [past EXCEPT ![Key(Defaulted(w))] = {clock + 1}]
    BY <1>1 DEF CreateStored, Write, StoredAs
  <2>5. cluster' \in SUBSET Objects
    BY <2>1, <2>4 DEF TypeOK
  <2>6. past' \in [Kinds \X Namespaces \X Names -> SUBSET Nat]
    BY <1>0, <2>4 DEF TypeOK
  <2>7. clock' \in 0..MaxVersion
    BY <1>0, <2>4 DEF TypeOK
  <2>. QED BY <2>1, <2>3, <2>4, <2>5, <2>6, <2>7
<1>2. CASE UpdateStored(w)
  <2>1. pc[w] = "update" /\ Addressed(w)
    BY <1>2 DEF UpdateStored
  <2>2. obj[w].edits \in SUBSET Nat
    BY <2>1, WorkerFacts DEF WorkerOK, Objects
  <2>3. Defaulted(w).edits = obj[w].edits
    BY <2>1, <1>0, StoredAsType
  <2>4. StoredAs(w, clock + 1, obj[w].edits \cup {clock + 1}) \in Objects
    BY <1>0, <2>1, <2>2, StoredAsType
  <2>5. [Defaulted(w) EXCEPT !.version = clock + 1, !.edits = @ \cup {clock + 1}]
          = StoredAs(w, clock + 1, obj[w].edits \cup {clock + 1})
    BY <2>3 DEF StoredAs
  <2>6. ~CreateStored(w)
    BY <2>1 DEF CreateStored
  <2>7. /\ clock < MaxVersion /\ clock' = clock + 1
        /\ cluster' = (cluster \ Stored(Key(Defaulted(w))))
                        \cup {StoredAs(w, clock + 1, obj[w].edits \cup {clock + 1})}
        /\ past' = [past EXCEPT ![Key(Defaulted(w))] = @ \cup {clock + 1}]
    BY <1>2, <2>5 DEF UpdateStored, Write
  <2>8. cluster' \in SUBSET Objects
    BY <2>4, <2>7 DEF TypeOK
  <2>9. past' \in [Kinds \X Namespaces \X Names -> SUBSET Nat]
    <3>1. Key(Defaulted(w)) \in Kinds \X Namespaces \X Names
      BY <1>0, <2>1, <2>2, StoredAsType
    <3>2. past[Key(Defaulted(w))] \cup {clock + 1} \in SUBSET Nat
      BY <1>0, <3>1 DEF TypeOK
    <3>. QED BY <2>7, <3>2 DEF TypeOK
  <2>10. clock' \in 0..MaxVersion
    BY <1>0, <2>7 DEF TypeOK
  <2>. QED BY <2>4, <2>6, <2>7, <2>8, <2>9, <2>10
<1>. QED BY <1>1, <1>2

(* Workers, slices, objects and the cluster keep their types, and a worker *)
(* holds an object exactly while it is busy (kubernetes/*.go).             *)
THEOREM TypeCorrect == Spec => []TypeOK
<1>0. /\ NsOf \in [Clients -> Namespaces] /\ OptionsOf \in [Slices -> Seq(Options)]
      /\ Kinds \subseteq AllKinds /\ MaxVersion \in Nat
      /\ None \notin Namespaces \cup Names \cup Clients \cup Slices
  BY WorkloadsAssumption DEF WorkloadsAssumption
<1>. USE <1>0
<1>1. Init => TypeOK
  BY DEF Init, TypeOK, CallRecords, NoCall
<1>2. TypeOK /\ [Next]_vars => TypeOK'
  <2>. SUFFICES ASSUME TypeOK, [Next]_vars
                PROVE  TypeOK'
    OBVIOUS
  <2>0. /\ slot \in [Slices -> Namespaces \cup {None}] /\ wrote \in [Slices -> SUBSET Namespaces]
        /\ next \in [Workers -> Nat \ {0}]
        /\ cluster \in SUBSET Objects /\ clock \in 0..MaxVersion
        /\ past \in [Kinds \X Namespaces \X Names -> SUBSET Nat]
    BY DEF TypeOK
  <2>1. ASSUME NEW w \in Workers, NEW c \in Clients, NEW s \in Slices,
               StartCreate(w, c, s)
        PROVE  TypeOK'
    <3>. DEFINE mine == [client |-> c, slice |-> s, private |-> ~spare[s]]
    <3>1. New(KindOf[s]) \in Objects
      <4>. KindOf[s] \in Kinds
        BY WorkloadsAssumption DEF WorkloadsAssumption
      <4>. QED BY DEF New, Objects
    <3>2. mine \in CallRecords /\ mine.client = c /\ mine.slice = s
      BY DEF CallRecords
    <3>3. slot' \in [Slices -> Namespaces \cup {None}] /\ wrote' \in [Slices -> SUBSET Namespaces]
      <4>1. NsOf[c] \in Namespaces
        OBVIOUS
      <4>2. CASE ForcesNamespace(KindOf[s]) /\ spare[s]
        <5>1. /\ slot' = [slot EXCEPT ![s] = NsOf[c]]
              /\ wrote' = [wrote EXCEPT ![s] = wrote[s] \cup {NsOf[c]}]
          BY <2>1, <4>2 DEF StartCreate
        <5>2. wrote[s] \cup {NsOf[c]} \in SUBSET Namespaces
          BY <2>0, <4>1
        <5>. QED BY <2>0, <4>1, <5>1, <5>2
      <4>3. CASE ~(ForcesNamespace(KindOf[s]) /\ spare[s])
        BY <2>0, <2>1, <4>3 DEF StartCreate
      <4>. QED BY <4>2, <4>3
    <3>4. WorkerOK("build", New(KindOf[s]), mine)
      BY <3>1, <3>2 DEF WorkerOK
    <3>5. /\ pc' = [pc EXCEPT ![w] = "build"] /\ obj' = [obj EXCEPT ![w] = New(KindOf[s])]
          /\ call' = [call EXCEPT ![w] = mine] /\ UNCHANGED <<spare, next, clusterVars>>
      BY <2>1 DEF StartCreate
    <3>. HIDE DEF mine
    <3>. QED BY <2>0, <3>1, <3>2, <3>3, <3>4, <3>5, WorkerType DEF Labels, clusterVars
  <2>2. ASSUME NEW w \in Workers, ApplyOption(w)
        PROVE  TypeOK'
    <3>. DEFINE new == Apply(obj[w], OptionsOf[call[w].slice][next[w]])
    <3>1. OptionsOf[call[w].slice][next[w]] \in Options
      BY <2>2, WorkerFacts DEF ApplyOption, WorkerOK
    <3>2. new \in Objects
      BY <2>2, <3>1, ApplyType, WorkerFacts DEF ApplyOption, WorkerOK
    <3>3. WorkerOK(pc[w], new, call[w])
      BY <2>2, <3>2, WorkerFacts DEF WorkerOK, ApplyOption
    <3>4. /\ obj' = [obj EXCEPT ![w] = new] /\ UNCHANGED <<sliceVars, pc, call, clusterVars>>
          /\ next' \in [Workers -> Nat \ {0}]
      BY <2>0, <2>2 DEF ApplyOption
    <3>5. /\ pc' = [pc EXCEPT ![w] = pc[w]] /\ call' = [call EXCEPT ![w] = call[w]]
          /\ pc[w] \in Labels /\ call[w] \in CallRecords
      BY <3>4, WorkerFacts
    <3>. HIDE DEF new
    <3>. QED BY <2>0, <3>2, <3>3, <3>4, <3>5, WorkerType DEF sliceVars, clusterVars
  <2>3. ASSUME NEW w \in Workers, FinishBuild(w)
        PROVE  TypeOK'
    <3>. DEFINE new == IF ForcesNamespace(obj[w].kind)
                       THEN [obj[w] EXCEPT !.ns = AppendedNs(w)]
                       ELSE obj[w]
    <3>1. AppendedNs(w) \in Namespaces \cup {None}
      BY <2>0, <2>3, WorkerFacts DEF FinishBuild, AppendedNs, WorkerOK
    <3>2. obj[w] \in Objects
      BY <2>3, WorkerFacts DEF FinishBuild, WorkerOK
    <3>3. new \in Objects
      BY <3>1, <3>2 DEF Objects
    <3>4. WorkerOK("create", new, call[w])
      BY <2>3, <3>3, WorkerFacts DEF WorkerOK, FinishBuild
    <3>5. obj' = [obj EXCEPT ![w] = new]
      BY <2>3, WorkerFacts DEF FinishBuild
    <3>6. /\ pc' = [pc EXCEPT ![w] = "create"] /\ UNCHANGED <<sliceVars, call, clusterVars>>
          /\ next' \in [Workers -> Nat \ {0}]
      BY <2>0, <2>3 DEF FinishBuild
    <3>. HIDE DEF new
    <3>. QED BY <2>0, <3>3, <3>4, <3>5, <3>6, WorkerFacts, WorkerType DEF Labels, sliceVars, clusterVars
  <2>4. ASSUME NEW w \in Workers, NEW s \in Slices, StartUpdateDaemonSet(w, s)
        PROVE  TypeOK'
    <3>. DEFINE mine == [call[w] EXCEPT !.slice = s]
    <3>1. mine \in CallRecords /\ mine.slice = s /\ mine.client = call[w].client
      BY WorkerFacts DEF CallRecords
    <3>2. WorkerOK("change", obj[w], mine)
      BY <2>4, <3>1, WorkerFacts DEF WorkerOK, StartUpdateDaemonSet
    <3>3. /\ call' = [call EXCEPT ![w] = mine] /\ pc' = [pc EXCEPT ![w] = "change"]
          /\ UNCHANGED <<sliceVars, next, obj, clusterVars>>
      BY <2>4 DEF StartUpdateDaemonSet
    <3>. HIDE DEF mine
    <3>. QED BY <2>0, <3>1, <3>2, <3>3, WorkerFacts, WorkerType DEF Labels, sliceVars, clusterVars
  <2>5. ASSUME NEW w \in Workers, FinishChange(w) \/ UpdateFails(w)
        PROVE  TypeOK'
    <3>1. PICK l \in {"update", "hold"} : pc' = [pc EXCEPT ![w] = l]
      BY <2>5 DEF FinishChange, UpdateFails
    <3>2. WorkerOK(l, obj[w], call[w])
      BY <2>5, WorkerFacts DEF FinishChange, UpdateFails, WorkerOK
    <3>3. UNCHANGED <<sliceVars, call, obj, clusterVars>>
      BY <2>5 DEF FinishChange, UpdateFails
    <3>4. next' \in [Workers -> Nat \ {0}]
      <4>1. next' \in {next, [next EXCEPT ![w] = 1]}
        BY <2>5 DEF FinishChange, UpdateFails
      <4>. QED BY <2>0, <4>1
    <3>5. /\ obj' = [obj EXCEPT ![w] = obj[w]] /\ call' = [call EXCEPT ![w] = call[w]]
          /\ obj[w] \in Objects \cup {None} /\ call[w] \in CallRecords
      BY <3>3, WorkerFacts
    <3>6. l \in Labels
      BY DEF Labels
    <3>7. /\ spare' = spare /\ slot' \in [Slices -> Namespaces \cup {None}]
          /\ wrote' \in [Slices -> SUBSET Namespaces]
          /\ cluster' \in SUBSET Objects /\ clock' \in 0..MaxVersion
          /\ past' \in [Kinds \X Namespaces \X Names -> SUBSET Nat]
      BY <2>0, <3>3 DEF sliceVars, clusterVars
    <3>. QED BY <3>1, <3>2, <3>4, <3>5, <3>6, <3>7, WorkerType
  <2>6. ASSUME NEW w \in Workers, UpdateDeploy(w)
        PROVE  TypeOK'
    <3>0. \E p \in Parts : obj' = [obj EXCEPT ![w].parts = <<p>>]
      BY <2>6, Zenon DEF UpdateDeploy
    <3>1. PICK p \in Parts : obj' = [obj EXCEPT ![w].parts = <<p>>]
      BY <3>0, Zenon
    <3>. DEFINE new == [obj[w] EXCEPT !.parts = <<p>>]
                mine == [call[w] EXCEPT !.slice = None]
    <3>2. mine \in CallRecords /\ mine.client = call[w].client
      BY WorkerFacts DEF CallRecords
    <3>3. new \in Objects
      <4>1. obj[w] \in Objects /\ <<p>> \in Seq(Parts)
        BY <2>6, WorkerFacts DEF UpdateDeploy, WorkerOK
      <4>. QED BY <4>1 DEF Objects
    <3>4. WorkerOK("update", new, mine)
      BY <2>6, <3>2, <3>3, WorkerFacts DEF UpdateDeploy, WorkerOK
    <3>5. /\ obj' = [obj EXCEPT ![w] = new] /\ call' = [call EXCEPT ![w] = mine]
          /\ pc' = [pc EXCEPT ![w] = "update"] /\ UNCHANGED <<sliceVars, next, clusterVars>>
      BY <2>6, <3>1 DEF UpdateDeploy
    <3>. HIDE DEF new, mine
    <3>. QED BY <2>0, <3>2, <3>3, <3>4, <3>5, WorkerType DEF Labels, sliceVars, clusterVars
  <2>7. ASSUME NEW w \in Workers, Release(w) \/ CreateFails(w)
        PROVE  TypeOK'
    <3>1. /\ obj' = [obj EXCEPT ![w] = None] /\ call' = [call EXCEPT ![w] = NoCall]
          /\ pc' = [pc EXCEPT ![w] = "idle"] /\ UNCHANGED <<sliceVars, next, clusterVars>>
      BY <2>7 DEF Release, CreateFails, Failed
    <3>2. WorkerOK("idle", None, NoCall)
      BY DEF WorkerOK
    <3>. QED BY <2>0, <3>1, <3>2, NoCallType, WorkerType DEF Labels, sliceVars, clusterVars
  <2>8. ASSUME NEW w \in Workers, NEW c \in Clients, NEW o \in cluster, Get(w, c, o)
        PROVE  TypeOK'
    <3>. DEFINE mine == [call[w] EXCEPT !.client = c]
    <3>1. mine \in CallRecords /\ mine.client = c /\ o \in Objects
      BY <2>0, WorkerFacts DEF CallRecords
    <3>2. WorkerOK("hold", o, mine)
      BY <3>1 DEF WorkerOK
    <3>3. /\ obj' = [obj EXCEPT ![w] = o] /\ call' = [call EXCEPT ![w] = mine]
          /\ pc' = [pc EXCEPT ![w] = "hold"] /\ UNCHANGED <<sliceVars, next, clusterVars>>
      BY <2>8 DEF Get
    <3>. HIDE DEF mine
    <3>. QED BY <2>0, <3>1, <3>2, <3>3, WorkerType DEF Labels, sliceVars, clusterVars
  <2>9. ASSUME NEW w \in Workers, CreateOk(w)
        PROVE  TypeOK'
    <3>. DEFINE new == StoredAs(w, clock + 1, {clock + 1})
    <3>1. CreateStored(w) /\ obj' = [obj EXCEPT ![w] = new]
      BY <2>9 DEF CreateOk, StoredAs
    <3>2. new \in Objects
      BY <3>1, StoredType
    <3>3. WorkerOK("hold", new, call[w])
      BY <3>1, <3>2, WorkerFacts DEF CreateStored, WorkerOK
    <3>4. pc' = [pc EXCEPT ![w] = "hold"] /\ UNCHANGED <<sliceVars, call, next>>
      BY <2>9 DEF CreateOk
    <3>. HIDE DEF new
    <3>. QED BY <2>0, <3>1, <3>2, <3>3, <3>4, StoredType, WorkerFacts, WorkerType DEF Labels, sliceVars
  <2>10. ASSUME NEW w \in Workers, CreateUnanswered(w)
        PROVE  TypeOK'
    <3>1. /\ obj' = [obj EXCEPT ![w] = None] /\ call' = [call EXCEPT ![w] = NoCall]
          /\ pc' = [pc EXCEPT ![w] = "idle"] /\ UNCHANGED <<sliceVars, next>>
          /\ CreateStored(w)
      BY <2>10 DEF CreateUnanswered, Failed
    <3>2. WorkerOK("idle", None, NoCall)
      BY DEF WorkerOK
    <3>. QED BY <2>0, <3>1, <3>2, NoCallType, StoredType, WorkerType DEF Labels, sliceVars
  <2>11. ASSUME NEW w \in Workers, UpdateOk(w)
        PROVE  TypeOK'
    <3>. DEFINE new == StoredAs(w, clock + 1, obj[w].edits \cup {clock + 1})
    <3>1. UpdateStored(w) /\ pc[w] = "update" /\ Addressed(w)
      BY <2>11 DEF UpdateOk, UpdateStored
    <3>2. Defaulted(w).edits = obj[w].edits
      BY <3>1, StoredAsType
    <3>3. obj' = [obj EXCEPT ![w] = new]
      BY <2>11, <3>2 DEF UpdateOk, StoredAs
    <3>4. new \in Objects
      BY <3>1, StoredType
    <3>5. WorkerOK("hold", new, call[w])
      BY <3>1, <3>4, WorkerFacts DEF WorkerOK
    <3>6. pc' = [pc EXCEPT ![w] = "hold"] /\ UNCHANGED <<sliceVars, call, next>>
      BY <2>11 DEF UpdateOk
    <3>. HIDE DEF new
    <3>. QED BY <2>0, <3>1, <3>3, <3>4, <3>5, <3>6, StoredType, WorkerFacts, WorkerType DEF Labels, sliceVars
  <2>12. ASSUME NEW w \in Workers, UpdateUnanswered(w)
        PROVE  TypeOK'
    <3>1. /\ UpdateStored(w) /\ pc[w] = "update"
          /\ pc' = [pc EXCEPT ![w] = "hold"] /\ UNCHANGED <<sliceVars, call, next, obj>>
      BY <2>12 DEF UpdateUnanswered, UpdateStored
    <3>2. WorkerOK("hold", obj[w], call[w])
      BY <3>1, WorkerFacts DEF WorkerOK
    <3>3. /\ obj' = [obj EXCEPT ![w] = obj[w]] /\ call' = [call EXCEPT ![w] = call[w]]
          /\ obj[w] \in Objects \cup {None} /\ call[w] \in CallRecords
      BY <3>1, WorkerFacts
    <3>. QED BY <2>0, <3>1, <3>2, <3>3, StoredType, WorkerType DEF Labels, sliceVars
  <2>13. ASSUME NEW o \in cluster, Delete(o)
        PROVE  TypeOK'
    BY <2>0, <2>13 DEF Delete, TypeOK, sliceVars
  <2>14. CASE UNCHANGED vars
    BY <2>14 DEF vars, TypeOK, sliceVars, clusterVars
  <2>. QED BY <2>1, <2>2, <2>3, <2>4, <2>5, <2>6, <2>7, <2>8, <2>9, <2>10, <2>11, <2>12, <2>13,
              <2>14 DEF Next, WorkerStep
<1>. QED BY <1>1, <1>2, PTL DEF Spec

----------------------------------------------------------------------------
(* The appended element of a worker that builds in a shared array holds a  *)
(* namespace, and the room of a slice holds only what was written into it. *)
SlotInv ==
  /\ \A s \in Slices : slot[s] # None => slot[s] \in wrote[s]
  /\ \A w \in Workers :
       pc[w] = "build" /\ ForcesNamespace(obj[w].kind) /\ ~call[w].private =>
         slot[call[w].slice] # None

NamespaceInv == SlotInv /\ NamespaceForced

(* A step of worker w that sends no new object and starts no new build     *)
(* keeps the invariant of the namespaces.                                  *)
LEMMA NamespaceFrame ==
  ASSUME TypeOK, NamespaceInv, NEW w \in Workers, UNCHANGED sliceVars,
         \A v \in Workers \ {w} : pc'[v] = pc[v] /\ obj'[v] = obj[v] /\ call'[v] = call[v],
         pc'[w] \notin {"build", "create"}
  PROVE  NamespaceInv'
BY DEF NamespaceInv, SlotInv, NamespaceForced, sliceVars

(* Created Deployments, Services and Ingresses carry the namespace of      *)
(* their client, or one that a concurrent call wrote into the same array.  *)
THEOREM NamespaceForcedSafe == Spec => []NamespaceForced
<1>0. /\ NsOf \in [Clients -> Namespaces] /\ OptionsOf \in [Slices -> Seq(Options)]
      /\ Kinds \subseteq AllKinds /\ MaxVersion \in Nat
      /\ None \notin Namespaces \cup Names \cup Clients \cup Slices
  BY WorkloadsAssumption DEF WorkloadsAssumption
<1>. USE <1>0
<1>1. Init => NamespaceInv
  BY DEF Init, NamespaceInv, SlotInv, NamespaceForced
<1>2. TypeOK /\ NamespaceInv /\ [Next]_vars => NamespaceInv'
  <2>. SUFFICES ASSUME TypeOK, NamespaceInv, [Next]_vars
                PROVE  NamespaceInv'
    OBVIOUS
  <2>0. /\ slot \in [Slices -> Namespaces \cup {None}] /\ wrote \in [Slices -> SUBSET Namespaces]
        /\ pc \in [Workers -> Labels] /\ obj \in [Workers -> Objects \cup {None}]
        /\ call \in [Workers -> CallRecords]
    BY DEF TypeOK, Labels
  <2>1. ASSUME NEW w \in Workers, NEW c \in Clients, NEW s \in Slices,
               StartCreate(w, c, s)
        PROVE  NamespaceInv'
    <3>1. /\ pc' = [pc EXCEPT ![w] = "build"] /\ obj' = [obj EXCEPT ![w] = New(KindOf[s])]
          /\ call' = [call EXCEPT ![w] = [client |-> c, slice |-> s, private |-> ~spare[s]]]
      BY <2>1 DEF StartCreate
    <3>2. NsOf[c] \in Namespaces /\ NsOf[c] # None
      OBVIOUS
    <3>3. /\ \A t \in Slices : wrote[t] \subseteq wrote'[t]
          /\ \A t \in Slices : slot'[t] # None => slot'[t] \in wrote'[t]
          /\ \A t \in Slices : slot[t] # None => slot'[t] # None
          /\ ForcesNamespace(KindOf[s]) /\ spare[s] => slot'[s] # None
      <4>1. CASE ForcesNamespace(KindOf[s]) /\ spare[s]
        <5>1. /\ slot' = [slot EXCEPT ![s] = NsOf[c]]
              /\ wrote' = [wrote EXCEPT ![s] = wrote[s] \cup {NsOf[c]}]
          BY <2>1, <4>1 DEF StartCreate
        <5>. QED BY <2>0, <3>2, <5>1 DEF NamespaceInv, SlotInv
      <4>2. CASE ~(ForcesNamespace(KindOf[s]) /\ spare[s])
        BY <2>1, <4>2 DEF StartCreate, NamespaceInv, SlotInv
      <4>. QED BY <4>1, <4>2
    <3>4. /\ pc'[w] = "build" /\ obj'[w].kind = KindOf[s] /\ call'[w].slice = s
          /\ call'[w].private = ~spare[s]
          /\ \A v \in Workers \ {w} : pc'[v] = pc[v] /\ obj'[v] = obj[v] /\ call'[v] = call[v]
      BY <2>0, <3>1 DEF New
    <3>5. SlotInv'
      <4>1. ASSUME NEW v \in Workers, pc'[v] = "build", ForcesNamespace(obj'[v].kind),
                   ~call'[v].private
            PROVE  slot'[call'[v].slice] # None
        <5>1. CASE v = w
          BY <3>3, <3>4, <4>1, <5>1
        <5>2. CASE v # w
          <6>1. call[v].slice \in Slices
            BY <3>4, <4>1, <5>2 DEF TypeOK
          <6>. QED BY <3>3, <3>4, <4>1, <5>2, <6>1 DEF NamespaceInv, SlotInv
        <5>. QED BY <5>1, <5>2
      <4>. QED BY <3>3, <4>1 DEF SlotInv
    <3>6. NamespaceForced'
      <4>1. ASSUME NEW v \in Workers, pc'[v] = "create", ForcesNamespace(obj'[v].kind)
            PROVE  \/ obj'[v].ns = NsOf[call'[v].client]
                   \/ ~call'[v].private /\ obj'[v].ns \in wrote'[call'[v].slice]
        <5>1. v # w
          BY <3>4, <4>1
        <5>2. call[v].slice \in Slices
          BY <3>4, <4>1, <5>1 DEF TypeOK
        <5>. QED BY <3>3, <3>4, <4>1, <5>1, <5>2 DEF NamespaceInv, NamespaceForced
      <4>. QED BY <4>1 DEF NamespaceForced
    <3>. QED BY <3>5, <3>6 DEF NamespaceInv
  <2>2. ASSUME NEW w \in Workers, ApplyOption(w)
        PROVE  NamespaceInv'
    <3>1. /\ OptionsOf[call[w].slice][next[w]] \in Options /\ obj[w] \in Objects
      BY <2>2 DEF ApplyOption, TypeOK
    <3>2. Apply(obj[w], OptionsOf[call[w].slice][next[w]]).kind = obj[w].kind
      BY <3>1, ApplyType
    <3>3. /\ obj'[w].kind = obj[w].kind /\ UNCHANGED <<sliceVars, pc, call>>
          /\ \A v \in Workers \ {w} : obj'[v] = obj[v]
      BY <2>0, <2>2, <3>2 DEF ApplyOption
    <3>. QED BY <2>2, <3>3 DEF NamespaceInv, SlotInv, NamespaceForced, sliceVars, ApplyOption
  <2>3. ASSUME NEW w \in Workers, FinishBuild(w)
        PROVE  NamespaceInv'
    <3>1. obj[w] \in Objects /\ call[w].slice \in Slices /\ pc[w] = "build"
      BY <2>3 DEF FinishBuild, TypeOK
    <3>2. /\ pc' = [pc EXCEPT ![w] = "create"] /\ UNCHANGED <<sliceVars, call>>
          /\ \A v \in Workers \ {w} : obj'[v] = obj[v]
          /\ obj'[w].kind = obj[w].kind
          /\ ForcesNamespace(obj[w].kind) => obj'[w].ns = AppendedNs(w)
      BY <2>0, <2>3, <3>1 DEF FinishBuild, Objects
    <3>3. ForcesNamespace(obj[w].kind) =>
            \/ obj'[w].ns = NsOf[call'[w].client]
            \/ ~call'[w].private /\ obj'[w].ns \in wrote'[call'[w].slice]
      BY <3>1, <3>2 DEF AppendedNs, NamespaceInv, SlotInv, sliceVars
    <3>. QED BY <2>0, <3>1, <3>2, <3>3 DEF NamespaceInv, SlotInv, NamespaceForced, sliceVars
  <2>4. ASSUME NEW w \in Workers,
               \/ \E s \in Slices : StartUpdateDaemonSet(w, s)
               \/ FinishChange(w) \/ UpdateDeploy(w) \/ Release(w)
        PROVE  NamespaceInv'
    <3>1. /\ UNCHANGED sliceVars /\ pc'[w] \notin {"build", "create"}
          /\ \A v \in Workers \ {w} : pc'[v] = pc[v] /\ obj'[v] = obj[v] /\ call'[v] = call[v]
      BY <2>0, <2>4 DEF StartUpdateDaemonSet, FinishChange, UpdateDeploy, Release
    <3>. QED BY <3>1, NamespaceFrame
  <2>5. ASSUME NEW w \in Workers, CreateOk(w) \/ CreateUnanswered(w) \/ CreateFails(w)
        PROVE  NamespaceInv'
    <3>1. /\ UNCHANGED sliceVars /\ pc'[w] \notin {"build", "create"}
          /\ \A v \in Workers \ {w} : pc'[v] = pc[v] /\ obj'[v] = obj[v] /\ call'[v] = call[v]
      BY <2>0, <2>5 DEF CreateOk, CreateUnanswered, CreateFails, Failed
    <3>. QED BY <3>1, NamespaceFrame
  <2>6. ASSUME NEW w \in Workers,
               \/ \E c \in Clients, o \in cluster : Get(w, c, o)
               \/ UpdateOk(w) \/ UpdateUnanswered(w) \/ UpdateFails(w)
        PROVE  NamespaceInv'
    <3>1. /\ UNCHANGED sliceVars /\ pc'[w] \notin {"build", "create"}
          /\ \A v \in Workers \ {w} : pc'[v] = pc[v] /\ obj'[v] = obj[v] /\ call'[v] = call[v]
      BY <2>0, <2>6 DEF Get, UpdateOk, UpdateUnanswered, UpdateFails
    <3>. QED BY <3>1, NamespaceFrame
  <2>7. CASE (\E o \in cluster : Delete(o)) \/ UNCHANGED vars
    BY <2>7 DEF Delete, vars, NamespaceInv, SlotInv, NamespaceForced, sliceVars
  <2>. QED BY <2>1, <2>2, <2>3, <2>4, <2>5, <2>6, <2>7 DEF Next, WorkerStep
<1>3. NamespaceInv => NamespaceForced
  BY DEF NamespaceInv
<1>. QED BY <1>1, <1>2, <1>3, TypeCorrect, PTL DEF Spec

----------------------------------------------------------------------------
(* Stored objects have proper keys and versions of their own.              *)
StoredOK ==
  /\ \A o \in cluster : Key(o) \in Kinds \X Namespaces \X Names /\ o.version \in 1..clock
  /\ \A o, q \in cluster : o.version = q.version => o = q

(* A worker's copy has the history of the stored object of its version.    *)
CopiesAgree ==
  \A w \in Workers : pc[w] \in {"hold", "change", "update"} =>
    /\ obj[w].version \in 1..clock
    /\ \A o \in cluster : o.version = obj[w].version => o.edits = obj[w].edits

EditInv == StoredOK /\ CopiesAgree /\ NoLostUpdate

(* Worker w stores n in the next version, and keeps a copy of it, keeps    *)
(* what it had, or keeps nothing.                                          *)
LEMMA WriteKeeps ==
  ASSUME TypeOK, EditInv, NEW w \in Workers, NEW n \in Objects,
         Key(n) \in Kinds \X Namespaces \X Names,
         n.version = clock + 1, clock' = clock + 1,
         cluster' = (cluster \ Stored(Key(n))) \cup {n},
         past' = [past EXCEPT ![Key(n)] = n.edits],
         \A v \in Workers \ {w} : pc'[v] = pc[v] /\ obj'[v] = obj[v],
         \/ pc'[w] = "idle"
         \/ obj'[w] = n
         \/ obj'[w] = obj[w] /\ pc[w] \in {"hold", "change", "update"}
  PROVE  EditInv'
<1>0. clock \in Nat /\ clock + 1 \notin 1..clock /\ clock + 1 \in 1..(clock + 1)
      /\ 1..clock \subseteq 1..(clock + 1)
  BY DEF TypeOK
<1>1. \A o \in cluster' : o = n \/ (o \in cluster /\ Key(o) # Key(n))
  BY DEF Stored
<1>2. StoredOK'
  <2>1. \A o \in cluster' : Key(o) \in Kinds \X Namespaces \X Names /\ o.version \in 1..(clock + 1)
    BY <1>0, <1>1 DEF EditInv, StoredOK
  <2>2. ASSUME NEW o \in cluster', NEW q \in cluster', o.version = q.version
        PROVE  o = q
    <3>1. CASE o \in cluster /\ q \in cluster
      BY <2>2, <3>1 DEF EditInv, StoredOK
    <3>2. CASE o = n \/ q = n
      BY <1>0, <1>1, <2>2, <3>2 DEF EditInv, StoredOK
    <3>. QED BY <1>1, <2>2, <3>1, <3>2
  <2>3. \A o \in cluster' : Key(o)' = Key(o)
    BY DEF Key
  <2>. QED BY <2>1, <2>2, <2>3 DEF StoredOK, Key
<1>3. CopiesAgree'
  <2>1. ASSUME NEW v \in Workers, pc'[v] \in {"hold", "change", "update"}
        PROVE  /\ obj'[v].version \in 1..clock'
               /\ \A o \in cluster' : o.version = obj'[v].version => o.edits = obj'[v].edits
    <3>1. CASE obj'[v] = n
      BY <1>0, <1>1, <3>1 DEF EditInv, StoredOK
    <3>2. CASE obj'[v] # n
      <4>1. obj'[v] = obj[v] /\ pc[v] \in {"hold", "change", "update"}
        BY <2>1, <3>2
      <4>. QED BY <1>0, <1>1, <4>1 DEF EditInv, CopiesAgree
    <3>. QED BY <3>1, <3>2
  <2>. QED BY <2>1 DEF CopiesAgree
<1>4. NoLostUpdate'
  <2>1. past \in [Kinds \X Namespaces \X Names -> SUBSET Nat]
    BY DEF TypeOK
  <2>2. ASSUME NEW o \in cluster'
        PROVE  o.edits = past'[Key(o)]
    <3>1. CASE o = n
      BY <2>1, <3>1
    <3>2. CASE o # n
      <4>1. o \in cluster /\ Key(o) # Key(n) /\ Key(o) \in Kinds \X Namespaces \X Names
        BY <1>1, <2>2, <3>2 DEF EditInv, StoredOK
      <4>. QED BY <2>1, <4>1 DEF EditInv, NoLostUpdate
    <3>. QED BY <3>1, <3>2
  <2>3. \A o \in cluster' : Key(o)' = Key(o)
    BY DEF Key
  <2>. QED BY <2>2, <2>3 DEF NoLostUpdate, Key
<1>. QED BY <1>2, <1>3, <1>4 DEF EditInv

(* Two workers that read the same version cannot both replace it: an       *)
(* object descends from all that was stored under its key.                 *)
THEOREM NoLostUpdateSafe == Spec => []NoLostUpdate
<1>1. Init => EditInv
  BY DEF Init, EditInv, StoredOK, CopiesAgree, NoLostUpdate
<1>2. TypeOK /\ EditInv /\ [Next]_vars => EditInv'
  <2>. SUFFICES ASSUME TypeOK, EditInv, [Next]_vars
                PROVE  EditInv'
    OBVIOUS
  <2>0. /\ pc \in [Workers -> Labels] /\ obj \in [Workers -> Objects \cup {None}]
        /\ cluster \in SUBSET Objects /\ clock \in Nat
        /\ past \in [Kinds \X Namespaces \X Names -> SUBSET Nat]
    BY DEF TypeOK, Labels
  <2>1. ASSUME NEW w \in Workers, UNCHANGED clusterVars,
               \A v \in Workers \ {w} : pc'[v] = pc[v] /\ obj'[v] = obj[v],
               pc'[w] \in {"hold", "change", "update"} =>
                 /\ obj'[w].version \in 1..clock
                 /\ \A o \in cluster : o.version = obj'[w].version => o.edits = obj'[w].edits
        PROVE  EditInv'
    BY <2>1 DEF EditInv, StoredOK, CopiesAgree, NoLostUpdate, clusterVars, Key
  <2>2. ASSUME NEW w \in Workers,
               \/ \E c \in Clients, s \in Slices : StartCreate(w, c, s)
               \/ FinishBuild(w) \/ Release(w) \/ CreateFails(w)
        PROVE  EditInv'
    <3>1. /\ UNCHANGED clusterVars /\ pc'[w] \notin {"hold", "change", "update"}
          /\ \A v \in Workers \ {w} : pc'[v] = pc[v] /\ obj'[v] = obj[v]
      BY <2>0, <2>2 DEF StartCreate, FinishBuild, Release, CreateFails, Failed
    <3>. QED BY <2>1, <3>1
  <2>3. ASSUME NEW w \in Workers, ApplyOption(w)
        PROVE  EditInv'
    <3>0. /\ call[w].slice \in Slices /\ next[w] \in Nat \ {0}
          /\ next[w] <= Len(OptionsOf[call[w].slice]) /\ obj[w] \in Objects
      BY <2>3 DEF ApplyOption, TypeOK
    <3>1. OptionsOf[call[w].slice][next[w]] \in Options /\ obj[w] \in Objects
      BY <3>0, WorkloadsAssumption DEF WorkloadsAssumption
    <3>2. /\ obj'[w].version = obj[w].version /\ obj'[w].edits = obj[w].edits
      BY <2>0, <2>3, <3>1, ApplyType DEF ApplyOption
    <3>3. /\ UNCHANGED <<pc, clusterVars>>
          /\ \A v \in Workers \ {w} : pc'[v] = pc[v] /\ obj'[v] = obj[v]
      BY <2>0, <2>3 DEF ApplyOption
    <3>. QED BY <2>1, <3>2, <3>3 DEF EditInv, CopiesAgree
  <2>4. ASSUME NEW w \in Workers,
               \/ \E s \in Slices : StartUpdateDaemonSet(w, s)
               \/ FinishChange(w) \/ UpdateFails(w)
        PROVE  EditInv'
    <3>1. /\ pc[w] \in {"hold", "change", "update"} /\ UNCHANGED <<obj, clusterVars>>
          /\ \A v \in Workers \ {w} : pc'[v] = pc[v] /\ obj'[v] = obj[v]
      BY <2>0, <2>4 DEF StartUpdateDaemonSet, FinishChange, UpdateFails
    <3>. QED BY <2>1, <3>1 DEF EditInv, CopiesAgree
  <2>5. ASSUME NEW w \in Workers, UpdateDeploy(w)
        PROVE  EditInv'
    <3>1. PICK p \in Parts : obj' = [obj EXCEPT ![w] = [obj[w] EXCEPT !.parts = <<p>>]]
      BY <2>5 DEF UpdateDeploy
    <3>2. obj[w] \in Objects /\ pc[w] = "hold" /\ UNCHANGED clusterVars
      BY <2>5 DEF UpdateDeploy, TypeOK
    <3>3. obj'[w].version = obj[w].version /\ obj'[w].edits = obj[w].edits
      BY <2>0, <3>1, <3>2 DEF Objects
    <3>4. \A v \in Workers \ {w} : pc'[v] = pc[v] /\ obj'[v] = obj[v]
      BY <2>0, <2>5, <3>1 DEF UpdateDeploy
    <3>. QED BY <2>1, <3>2, <3>3, <3>4 DEF EditInv, CopiesAgree
  <2>6. ASSUME NEW w \in Workers, NEW c \in Clients, NEW o \in cluster, Get(w, c, o)
        PROVE  EditInv'
    <3>1. obj' = [obj EXCEPT ![w] = o] /\ pc' = [pc EXCEPT ![w] = "hold"] /\ UNCHANGED clusterVars
      BY <2>6 DEF Get
    <3>2. /\ obj'[w] = o
          /\ \A v \in Workers \ {w} : pc'[v] = pc[v] /\ obj'[v] = obj[v]
      BY <2>0, <3>1
    <3>. QED BY <2>1, <3>1, <3>2 DEF EditInv, StoredOK
  <2>7. ASSUME NEW w \in Workers, CreateStored(w), CreateOk(w) \/ CreateUnanswered(w)
        PROVE  EditInv'
    <3>. DEFINE n == StoredAs(w, clock + 1, {clock + 1})
    <3>1. /\ n \in Objects /\ n.version = clock + 1 /\ n.edits = {clock + 1}
          /\ Key(n) = Key(Defaulted(w)) /\ Key(n) \in Kinds \X Namespaces \X Names
      <4>1. pc[w] = "create" /\ Addressed(w) /\ obj[w] \in Objects
        BY <2>7 DEF CreateStored, TypeOK
      <4>2. {clock + 1} \in SUBSET Nat /\ clock + 1 \in Nat
        BY <2>0
      <4>. QED BY <4>1, <4>2, StoredAsType
    <3>2. /\ clock' = clock + 1 /\ cluster' = (cluster \ Stored(Key(n))) \cup {n}
          /\ past' = [past EXCEPT ![Key(n)] = n.edits]
      BY <2>7, <3>1 DEF CreateStored, Write, StoredAs
    <3>3. /\ pc'[w] = "idle" \/ obj'[w] = n
          /\ \A v \in Workers \ {w} : pc'[v] = pc[v] /\ obj'[v] = obj[v]
      BY <2>0, <2>7 DEF CreateOk, CreateUnanswered, Failed, StoredAs
    <3>. HIDE DEF n
    <3>. QED BY <3>1, <3>2, <3>3, WriteKeeps
  <2>8. ASSUME NEW w \in Workers, UpdateStored(w), UpdateOk(w) \/ UpdateUnanswered(w)
        PROVE  EditInv'
    <3>. DEFINE n == StoredAs(w, clock + 1, obj[w].edits \cup {clock + 1})
    <3>1. pc[w] = "update" /\ Addressed(w) /\ obj[w] \in Objects
      BY <2>8 DEF UpdateStored, TypeOK
    <3>2. obj[w].edits \cup {clock + 1} \in SUBSET Nat /\ clock + 1 \in Nat
      BY <2>0, <3>1 DEF Objects
    <3>3. /\ n \in Objects /\ n.version = clock + 1 /\ n.edits = obj[w].edits \cup {clock + 1}
          /\ Key(n) = Key(Defaulted(w)) /\ Key(n) \in Kinds \X Namespaces \X Names
          /\ Defaulted(w).edits = obj[w].edits
      BY <3>1, <3>2, StoredAsType
    <3>4. obj[w].edits = past[Key(n)]
      <4>1. PICK o \in Stored(Key(n)) : obj[w].version \in {0, o.version}
        BY <2>8, <3>3 DEF UpdateStored
      <4>2. obj[w].version \in 1..clock
        BY <3>1 DEF EditInv, CopiesAgree
      <4>3. o \in cluster /\ Key(o) = Key(n) /\ o.version = obj[w].version
        BY <2>0, <4>1, <4>2 DEF Stored
      <4>. QED BY <3>1, <4>3 DEF EditInv, CopiesAgree, NoLostUpdate
    <3>5. n = [Defaulted(w) EXCEPT !.version = clock + 1, !.edits = @ \cup {clock + 1}]
      BY <3>3 DEF StoredAs
    <3>6. /\ clock' = clock + 1 /\ cluster' = (cluster \ Stored(Key(n))) \cup {n}
          /\ past' = [past EXCEPT ![Key(n)] = past[Key(n)] \cup {clock + 1}]
      BY <2>8, <3>3, <3>5 DEF UpdateStored, Write
    <3>7. /\ obj'[w] = n \/ obj'[w] = obj[w]
          /\ \A v \in Workers \ {w} : pc'[v] = pc[v] /\ obj'[v] = obj[v]
      BY <2>0, <2>8, <3>5 DEF UpdateOk, UpdateUnanswered
    <3>. HIDE DEF n
    <3>. QED BY <3>1, <3>3, <3>4, <3>6, <3>7, WriteKeeps
  <2>9. ASSUME NEW o \in cluster, Delete(o)
        PROVE  EditInv'
    BY <2>9 DEF Delete, EditInv, StoredOK, CopiesAgree, NoLostUpdate, Key
  <2>10. CASE UNCHANGED vars
    BY <2>10 DEF vars, clusterVars, EditInv, StoredOK, CopiesAgree, NoLostUpdate, Key
  <2>. QED BY <2>2, <2>3, <2>4, <2>5, <2>6, <2>7, <2>8, <2>9, <2>10
           DEF Next, WorkerStep, CreateOk, CreateUnanswered, UpdateOk, UpdateUnanswered
<1>3. EditInv => NoLostUpdate
  BY DEF EditInv
<1>. QED BY <1>1, <1>2, <1>3, TypeCorrect, PTL DEF Spec

----------------------------------------------------------------------------
(* The parts of an object *)

(* How the part options among the first n + 1 come from those among the    *)
(* first n.                                                                *)
LEMMA PartOptionsStep ==
  ASSUME NEW opts, NEW n \in Nat
  PROVE  /\ IsFiniteSet(PartOptions(opts, n))
         /\ PartOptions(opts, n) \subseteq 1 .. n
         /\ opts[n + 1].field = "part" => PartOptions(opts, n + 1) = PartOptions(opts, n) \cup {n + 1}
         /\ opts[n + 1].field # "part" => PartOptions(opts, n + 1) = PartOptions(opts, n)
<1>1. IsFiniteSet(1 .. n)
  BY FS_Interval
<1>2. PartOptions(opts, n) \in SUBSET (1 .. n)
  BY DEF PartOptions
<1>3. IsFiniteSet(PartOptions(opts, n))
  BY <1>1, <1>2, FS_Subset
<1>4. 1 .. (n + 1) = (1 .. n) \cup {n + 1}
  OBVIOUS
<1>. QED BY <1>2, <1>3, <1>4 DEF PartOptions

(* Only the kind and the parts of an object matter to what was asked.      *)
LEMMA PartsAskedSame ==
  ASSUME NEW o, NEW q, o.kind = q.kind, o.parts = q.parts, NEW opts, NEW n
  PROVE  PartsAsked(o, opts, n) <=> PartsAsked(q, opts, n)
BY DEF PartsAsked

(* A part option appended to what the first n have made.                   *)
(* (deployment.go:13-18, ingress.go IngWithRule.)                          *)
LEMMA AppendPart ==
  ASSUME NEW o \in Objects, NEW q \in Objects, NEW opts \in Seq(Options), NEW n \in Nat,
         PartsAsked(o, opts, n), AppendsParts(o.kind), q.kind = o.kind,
         opts[n + 1].field = "part", opts[n + 1].value \in Parts,
         q.parts = Append(o.parts, opts[n + 1].value)
  PROVE  PartsAsked(q, opts, n + 1)
<1>. DEFINE set == PartOptions(opts, n)
            new == PartOptions(opts, n + 1)
<1>1. /\ IsFiniteSet(set) /\ set \subseteq 1 .. n /\ new = set \cup {n + 1} /\ n + 1 \notin set
  <2>1. n + 1 \notin 1 .. n
    OBVIOUS
  <2>. QED BY <2>1, PartOptionsStep
<1>2. /\ Len(o.parts) = Cardinality(set)
      /\ \A i \in set : o.parts[Cardinality(set \cap (1 .. i))] = opts[i].value
  BY DEF PartsAsked
<1>. HIDE DEF set, new
<1>3. Cardinality(set) \in Nat /\ Cardinality(new) = Cardinality(set) + 1
  BY <1>1, FS_CardinalityType, FS_AddElement
<1>4. /\ Len(q.parts) = Cardinality(new)
      /\ \A j \in 1 .. Cardinality(set) : q.parts[j] = o.parts[j]
      /\ q.parts[Cardinality(new)] = opts[n + 1].value
  BY <1>2, <1>3 DEF Objects
<1>5. ASSUME NEW i \in new
      PROVE  q.parts[Cardinality(new \cap (1 .. i))] = opts[i].value
  <2>1. CASE i = n + 1
    <3>1. 1 .. n \subseteq 1 .. (n + 1) /\ n + 1 \in 1 .. (n + 1)
      OBVIOUS
    <3>2. new \cap (1 .. i) = new
      BY <1>1, <2>1, <3>1
    <3>. QED BY <1>4, <2>1, <3>2
  <2>2. CASE i \in set
    <3>. DEFINE below == set \cap (1 .. i)
    <3>1. i \in 1 .. n /\ i \in below /\ new \cap (1 .. i) = below /\ below \in SUBSET set
      BY <1>1, <2>2
    <3>. HIDE DEF below
    <3>2. IsFiniteSet(below) /\ Cardinality(below) <= Cardinality(set) /\ Cardinality(below) \in Nat
      BY <1>1, <3>1, FS_Subset, FS_CardinalityType
    <3>3. Cardinality(below) # 0
      BY <3>1, <3>2, FS_EmptySet
    <3>4. Cardinality(below) \in 1 .. Cardinality(set)
      BY <1>3, <3>2, <3>3
    <3>5. o.parts[Cardinality(below)] = opts[i].value
      BY <1>2, <2>2 DEF below
    <3>. QED BY <1>4, <3>1, <3>4, <3>5
  <2>. QED BY <1>1, <2>1, <2>2
<1>. QED BY <1>4, <1>5 DEF PartsAsked, new

(* One more option: what was asked of the first n is asked of n + 1; where *)
(* a part replaces the one before, a part is enough.  (deployment.go:130,  *)
(* daemonset.go:109.)                                                      *)
LEMMA ApplyParts ==
  ASSUME NEW o \in Objects, NEW opts \in Seq(Options), NEW n \in Nat, n + 1 <= Len(opts)
  PROVE  /\ PartsAsked(o, opts, n) => PartsAsked(Apply(o, opts[n + 1]), opts, n + 1)
         /\ ~AppendsParts(o.kind) =>
              \/ PartOptions(opts, n + 1) = PartOptions(opts, n)
              \/ PartsAsked(Apply(o, opts[n + 1]), opts, n + 1)
<1>. DEFINE p == opts[n + 1]
            q == Apply(o, p)
<1>1. p \in Options /\ q \in Objects /\ q.kind = o.kind
  BY ApplyType
<1>2. CASE p.field # "part"
  <2>1. q.parts = o.parts
    BY <1>1, <1>2 DEF Apply, Objects, Options
  <2>2. PartOptions(opts, n + 1) = PartOptions(opts, n)
    BY <1>2, PartOptionsStep
  <2>. QED BY <1>1, <2>1, <2>2, PartsAskedSame DEF PartsAsked
<1>3. CASE p.field = "part"
  <2>1. /\ p.value \in Parts
        /\ q.parts = IF AppendsParts(o.kind) THEN Append(o.parts, p.value) ELSE <<p.value>>
    BY <1>1, <1>3 DEF Apply, Objects, Options
  <2>2. CASE AppendsParts(o.kind)
    BY <1>1, <1>3, <2>1, <2>2, AppendPart
  <2>3. CASE ~AppendsParts(o.kind)
    <3>1. /\ n + 1 \in PartOptions(opts, n + 1) /\ PartOptions(opts, n + 1) \subseteq 1 .. (n + 1)
      BY <1>3, PartOptionsStep DEF PartOptions
    <3>2. q.parts = <<opts[n + 1].value>> /\ ~AppendsParts(q.kind)
      BY <1>1, <2>1, <2>3
    <3>. HIDE DEF q
    <3>3. PartsAsked(q, opts, n + 1)
      BY <3>1, <3>2 DEF PartsAsked
    <3>. QED BY <2>3, <3>3 DEF q
  <2>. QED BY <2>2, <2>3
<1>. QED BY <1>2, <1>3

(* A worker in state l with call k, its next option and its object: while  *)
(* it applies options, those before the next one are in the object.  In    *)
(* UpdateDaemonSet that holds as soon as they have a part.                 *)
Built(l, k, n, o) ==
  LET opts == OptionsOf[k.slice]
      all == Len(opts)
  IN  /\ l \notin {"build", "change"} => n = 1
      /\ l \in {"build", "change"} => n <= all + 1
      /\ l = "build" => PartsAsked(o, opts, n - 1)
      /\ l = "create" => PartsAsked(o, opts, all)
      /\ l = "change" =>
           /\ o.kind = "daemonset"
           /\ PartOptions(opts, n - 1) # {} => PartsAsked(o, opts, n - 1)
      /\ l = "update" /\ k.slice # None /\ PartOptions(opts, all) # {} =>
           PartsAsked(o, opts, all)

BuiltInv == \A w \in Workers : Built(pc[w], call[w], next[w], obj[w])

(* A step of worker w is about worker w.                                   *)
LEMMA BuiltFrame ==
  ASSUME BuiltInv, NEW w \in Workers, Built(pc'[w], call'[w], next'[w], obj'[w]),
         \A v \in Workers \ {w} :
           pc'[v] = pc[v] /\ call'[v] = call[v] /\ next'[v] = next[v] /\ obj'[v] = obj[v]
  PROVE  BuiltInv'
<1>1. ASSUME NEW v \in Workers
      PROVE  Built(pc'[v], call'[v], next'[v], obj'[v])
  <2>1. CASE v = w
    BY <2>1
  <2>2. CASE v # w
    BY <2>2 DEF BuiltInv
  <2>. QED BY <2>1, <2>2
<1>. QED BY <1>1 DEF BuiltInv

(* An object is sent with the parts its options ask for, however often     *)
(* they were used before.  (deployment.go:128-132, daemonset.go:108-112.)  *)
THEOREM BuiltAsAskedSafe == Spec => []BuiltAsAsked
<1>1. Init => BuiltInv
  BY DEF Init, BuiltInv, Built, NoCall
<1>2. TypeOK /\ BuiltInv /\ [Next]_vars => BuiltInv'
  <2>. SUFFICES ASSUME TypeOK, BuiltInv, [Next]_vars
                PROVE  BuiltInv'
    OBVIOUS
  <2>0. /\ pc \in [Workers -> Labels] /\ obj \in [Workers -> Objects \cup {None}]
        /\ call \in [Workers -> CallRecords] /\ next \in [Workers -> Nat \ {0}]
    BY DEF TypeOK, Labels
  <2>1. ASSUME NEW w \in Workers, NEW c \in Clients, NEW s \in Slices, StartCreate(w, c, s)
        PROVE  BuiltInv'
    <3>. DEFINE opts == OptionsOf[s]
                k == [client |-> c, slice |-> s, private |-> ~spare[s]]
    <3>0. /\ pc' = [pc EXCEPT ![w] = "build"] /\ obj' = [obj EXCEPT ![w] = New(KindOf[s])]
          /\ call' = [call EXCEPT ![w] = k] /\ next' = next /\ pc[w] = "idle"
      BY <2>1 DEF StartCreate
    <3>1. /\ pc'[w] = "build" /\ obj'[w] = New(KindOf[s]) /\ call'[w] = k /\ k.slice = s
          /\ next'[w] = 1
          /\ \A v \in Workers \ {w} :
                pc'[v] = pc[v] /\ call'[v] = call[v] /\ next'[v] = next[v] /\ obj'[v] = obj[v]
      BY <2>0, <3>0 DEF BuiltInv, Built
    <3>2. Len(opts) \in Nat
      BY WorkloadsAssumption DEF WorkloadsAssumption
    <3>3. PartsAsked(New(KindOf[s]), opts, 0)
      <4>1. PartOptions(opts, 0) = {}
        BY DEF PartOptions
      <4>2. New(KindOf[s]).parts = <<>> /\ Len(<<>>) = 0
        BY DEF New
      <4>. QED BY <4>1, <4>2, FS_EmptySet DEF PartsAsked
    <3>. HIDE DEF k
    <3>4. Built("build", k, 1, New(KindOf[s]))
      BY <3>1, <3>2, <3>3 DEF Built
    <3>. QED BY <3>1, <3>4, BuiltFrame
  <2>2. ASSUME NEW w \in Workers, ApplyOption(w)
        PROVE  BuiltInv'
    <3>. DEFINE opts == OptionsOf[call[w].slice]
                n == next[w] - 1
                q == Apply(obj[w], opts[next[w]])
    <3>1. /\ pc[w] \in {"build", "change"} /\ next[w] <= Len(opts)
          /\ obj' = [obj EXCEPT ![w] = q] /\ next' = [next EXCEPT ![w] = next[w] + 1]
          /\ UNCHANGED <<pc, call>>
      BY <2>2 DEF ApplyOption
    <3>2. /\ obj[w] \in Objects /\ opts \in Seq(Options) /\ Len(opts) \in Nat
          /\ n \in Nat /\ n + 1 = next[w] /\ opts[next[w]] \in Options
      BY <3>1, WorkerFacts, WorkloadsAssumption DEF WorkerOK, WorkloadsAssumption
    <3>3. /\ obj'[w] = q /\ next'[w] = next[w] + 1 /\ pc'[w] = pc[w] /\ call'[w] = call[w]
          /\ \A v \in Workers \ {w} :
                pc'[v] = pc[v] /\ call'[v] = call[v] /\ next'[v] = next[v] /\ obj'[v] = obj[v]
      BY <2>0, <3>1
    <3>4. q.kind = obj[w].kind
      BY <3>2, ApplyType
    <3>5. /\ PartsAsked(obj[w], opts, n) => PartsAsked(q, opts, n + 1)
          /\ ~AppendsParts(obj[w].kind) =>
               \/ PartOptions(opts, n + 1) = PartOptions(opts, n)
               \/ PartsAsked(q, opts, n + 1)
      BY <3>1, <3>2, ApplyParts
    <3>6. Built(pc[w], call[w], next[w], obj[w])
      BY DEF BuiltInv
    <3>. HIDE DEF q, n, opts
    <3>7. Built(pc[w], call[w], next[w] + 1, q)
      <4>1. /\ n = next[w] - 1 /\ n + 1 = (next[w] + 1) - 1 /\ next[w] + 1 <= Len(opts) + 1
        BY <3>1, <3>2 DEF n
      <4>2. CASE pc[w] = "build"
        BY <3>5, <3>6, <4>1, <4>2 DEF Built, opts
      <4>3. CASE pc[w] = "change"
        <5>1. ~AppendsParts(obj[w].kind)
          BY <3>6, <4>3 DEF Built, AppendsParts
        <5>. QED BY <3>4, <3>5, <3>6, <4>1, <4>3, <5>1 DEF Built, opts
      <4>. QED BY <3>1, <4>2, <4>3
    <3>. QED BY <3>3, <3>7, BuiltFrame
  <2>3. ASSUME NEW w \in Workers, FinishBuild(w)
        PROVE  BuiltInv'
    <3>. DEFINE opts == OptionsOf[call[w].slice]
    <3>1. /\ pc[w] = "build" /\ next[w] > Len(opts) /\ call' = call
          /\ pc' = [pc EXCEPT ![w] = "create"] /\ next' = [next EXCEPT ![w] = 1]
      BY <2>3 DEF FinishBuild
    <3>2. obj[w] \in Objects /\ Len(opts) \in Nat /\ next[w] \in Nat
      BY <3>1, WorkerFacts, WorkloadsAssumption DEF WorkerOK, WorkloadsAssumption
    <3>3. /\ obj'[w].kind = obj[w].kind /\ obj'[w].parts = obj[w].parts
          /\ \A v \in Workers \ {w} : obj'[v] = obj[v]
      BY <2>0, <2>3, <3>2 DEF FinishBuild, Objects
    <3>4. PartsAsked(obj[w], opts, Len(opts))
      <4>1. Built("build", call[w], next[w], obj[w])
        BY <3>1 DEF BuiltInv
      <4>2. next[w] - 1 = Len(opts)
        BY <3>1, <3>2, <4>1 DEF Built
      <4>. QED BY <4>1, <4>2 DEF Built
    <3>5. PartsAsked(obj'[w], opts, Len(opts))
      BY <3>3, <3>4, PartsAskedSame
    <3>6. Built("create", call[w], 1, obj'[w])
      BY <3>5 DEF Built
    <3>7. /\ pc'[w] = "create" /\ next'[w] = 1 /\ call'[w] = call[w]
          /\ \A v \in Workers \ {w} : pc'[v] = pc[v] /\ call'[v] = call[v] /\ next'[v] = next[v]
      BY <2>0, <3>1
    <3>. QED BY <3>3, <3>6, <3>7, BuiltFrame
  <2>4. ASSUME NEW w \in Workers, NEW s \in Slices, StartUpdateDaemonSet(w, s)
        PROVE  BuiltInv'
    <3>1. /\ pc[w] = "hold" /\ obj[w].kind = "daemonset" /\ UNCHANGED <<next, obj>>
          /\ pc' = [pc EXCEPT ![w] = "change"]
          /\ call' = [call EXCEPT ![w] = [call[w] EXCEPT !.slice = s]]
      BY <2>4 DEF StartUpdateDaemonSet
    <3>2. /\ pc'[w] = "change" /\ call'[w].slice = s /\ next'[w] = 1 /\ obj'[w] = obj[w]
          /\ \A v \in Workers \ {w} :
                pc'[v] = pc[v] /\ call'[v] = call[v] /\ next'[v] = next[v] /\ obj'[v] = obj[v]
      BY <2>0, <3>1 DEF BuiltInv, Built, CallRecords
    <3>3. PartOptions(OptionsOf[s], 1 - 1) = {} /\ 1 <= Len(OptionsOf[s]) + 1
      BY WorkloadsAssumption DEF PartOptions, WorkloadsAssumption
    <3>4. Built("change", call'[w], 1, obj[w])
      BY <3>1, <3>2, <3>3 DEF Built
    <3>. QED BY <3>2, <3>4, BuiltFrame
  <2>5. ASSUME NEW w \in Workers, FinishChange(w)
        PROVE  BuiltInv'
    <3>. DEFINE opts == OptionsOf[call[w].slice]
    <3>1. /\ pc[w] = "change" /\ next[w] > Len(opts) /\ UNCHANGED <<call, obj>>
          /\ pc' = [pc EXCEPT ![w] = "update"] /\ next' = [next EXCEPT ![w] = 1]
      BY <2>5 DEF FinishChange
    <3>2. Len(opts) \in Nat /\ next[w] \in Nat
      BY <3>1, WorkerFacts, WorkloadsAssumption DEF WorkerOK, WorkloadsAssumption
    <3>3. PartOptions(opts, Len(opts)) # {} => PartsAsked(obj[w], opts, Len(opts))
      <4>1. Built("change", call[w], next[w], obj[w])
        BY <3>1 DEF BuiltInv
      <4>2. next[w] - 1 = Len(opts)
        BY <3>1, <3>2, <4>1 DEF Built
      <4>. QED BY <4>1, <4>2 DEF Built
    <3>4. Built("update", call[w], 1, obj[w])
      BY <3>3 DEF Built
    <3>5. /\ pc'[w] = "update" /\ next'[w] = 1 /\ call'[w] = call[w] /\ obj'[w] = obj[w]
          /\ \A v \in Workers \ {w} :
                pc'[v] = pc[v] /\ call'[v] = call[v] /\ next'[v] = next[v] /\ obj'[v] = obj[v]
      BY <2>0, <3>1
    <3>. QED BY <3>4, <3>5, BuiltFrame
  <2>6. ASSUME NEW w \in Workers, UpdateDeploy(w)
        PROVE  BuiltInv'
    <3>1. /\ pc[w] = "hold" /\ pc' = [pc EXCEPT ![w] = "update"] /\ next' = next
          /\ call' = [call EXCEPT ![w] = [call[w] EXCEPT !.slice = None]]
          /\ \E p \in Parts : obj' = [obj EXCEPT ![w] = [obj[w] EXCEPT !.parts = <<p>>]]
      BY <2>6 DEF UpdateDeploy
    <3>2. /\ pc'[w] = "update" /\ call'[w].slice = None /\ next'[w] = 1
          /\ \A v \in Workers \ {w} :
                pc'[v] = pc[v] /\ call'[v] = call[v] /\ next'[v] = next[v] /\ obj'[v] = obj[v]
      BY <2>0, <3>1 DEF BuiltInv, Built, CallRecords
    <3>3. Built("update", call'[w], 1, obj'[w])
      BY <3>2 DEF Built
    <3>. QED BY <3>2, <3>3, BuiltFrame
  <2>7. ASSUME NEW w \in Workers,
               \/ Release(w) \/ CreateOk(w) \/ CreateUnanswered(w) \/ CreateFails(w)
               \/ \E c \in Clients, o \in cluster : Get(w, c, o)
               \/ UpdateOk(w) \/ UpdateUnanswered(w) \/ UpdateFails(w)
        PROVE  BuiltInv'
    <3>1. /\ pc[w] \notin {"build", "change"} /\ next' = next /\ pc'[w] \in {"idle", "hold"}
          /\ \A v \in Workers \ {w} :
                pc'[v] = pc[v] /\ call'[v] = call[v] /\ next'[v] = next[v] /\ obj'[v] = obj[v]
      BY <2>0, <2>7 DEF Release, CreateOk, CreateUnanswered, CreateFails, CreateStored, Failed, Get,
                        UpdateOk, UpdateUnanswered, UpdateFails, UpdateStored
    <3>2. next'[w] = 1
      BY <3>1 DEF BuiltInv, Built
    <3>3. Built(pc'[w], call'[w], 1, obj'[w])
      BY <3>1 DEF Built
    <3>. QED BY <3>1, <3>2, <3>3, BuiltFrame
  <2>8. CASE (\E o \in cluster : Delete(o)) \/ UNCHANGED vars
    BY <2>8 DEF Delete, vars, BuiltInv
  <2>. QED BY <2>1, <2>2, <2>3, <2>4, <2>5, <2>6, <2>7, <2>8 DEF Next, WorkerStep
<1>3. BuiltInv => BuiltAsAsked
  BY DEF BuiltInv, Built, BuiltAsAsked
<1>. QED BY <1>1, <1>2, <1>3, TypeCorrect, PTL DEF Spec
==============================================================================
