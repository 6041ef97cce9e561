------------------------------ MODULE Workloads ------------------------------
(***************************************************************************)
(* kubernetes/*.go: clients of different namespaces build Deployments,     *)
(* Services, Ingresses and DaemonSets from option functions and create,    *)
(* read, update and delete them.  CreateDeploy, CreateSvc and              *)
(* CreateIngress append one more option, the client's namespace, to the    *)
(* caller's variadic slice: when the array behind that slice has room, the *)
(* append writes into the array, which other calls may be using as well.   *)
(*                                                                         *)
(* The API server is external: it fills in an empty namespace, refuses one *)
(* that differs from the request's, refuses a second object of a name, and *)
(* refuses an update made on an old version; an answer may be lost.        *)
(*                                                                         *)
(* Left out: the many fields that are set and never read again; one        *)
(* "parts" field stands for the containers of Deployments and DaemonSets,  *)
(* the rules of an Ingress and the spec of a Service.                      *)
(***************************************************************************)
EXTENDS Naturals, Sequences, FiniteSets

CONSTANTS
  Workers,      \* goroutines of the application
  Clients,      \* KubernetesClients
  NsOf,         \* NsOf[c]: the namespace of client c
  Namespaces,
  Slices,       \* option slices the application holds
  OptionsOf,    \* OptionsOf[s]: the options in slice s
  KindOf,       \* KindOf[s]: the kind of objects they are options of
  Kinds,        \* kinds of objects in use
  Names, Parts, \* names, and containers or rules
  MaxVersion,   \* bound: writes to the cluster
  None          \* no name, no namespace

AllKinds == {"deployment", "service", "ingress", "daemonset"}

(* The fields that an option sets.                                         *)
Options == [field : {"name"}, value : Names]
      \cup [field : {"ns"}, value : Namespaces]
      \cup [field : {"part"}, value : Parts]

ASSUME WorkloadsAssumption ==
  /\ NsOf \in [Clients -> Namespaces]
  /\ OptionsOf \in [Slices -> Seq(Options)]
  /\ Kinds \subseteq AllKinds
  /\ KindOf \in [Slices -> Kinds]
  /\ MaxVersion \in Nat
  /\ None \notin Namespaces \cup Names \cup Clients \cup Slices

VARIABLES
  spare,   \* spare[s]: has the array behind slice s room after its last option
  slot,    \* slot[s]: the namespace option last written into that room
  pc,      \* pc[w]: what worker w is doing
  call,    \* call[w]: client and slice of its call; does it own its array
  next,    \* next[w]: the option to apply next
  obj,     \* obj[w]: the object it builds or has read
  cluster, \* objects stored by the API server
  clock,   \* the last resource version
  wrote,   \* history: namespaces ever written into the room of slice s
  past     \* history: versions stored under a key since its creation

sliceVars == <<spare, slot, wrote>>
clusterVars == <<cluster, clock, past>>
vars == <<sliceVars, pc, call, next, obj, clusterVars>>

(* A stored object and a copy of it carry the history of their edits.      *)
Objects == [kind : Kinds, name : Names \cup {None}, ns : Namespaces \cup {None},
            parts : Seq(Parts), version : Nat, edits : SUBSET Nat]

CallRecords == [client : Clients \cup {None}, slice : Slices \cup {None}, private : BOOLEAN]

NoCall == [client |-> None, slice |-> None, private |-> FALSE]

(* newDeploy, newService, newIngress, newDaemonSet.                        *)
New(k) == [kind |-> k, name |-> None, ns |-> None, parts |-> <<>>,
           version |-> 0, edits |-> {}]

(* The Create calls that append the client's namespace.                    *)
ForcesNamespace(k) == k # "daemonset"

(* WithContainer and IngWithRule append; DsWithContainer and SvcWithSpec   *)
(* replace.                                                                *)
AppendsParts(k) == k \in {"deployment", "ingress"}

(* A bug: every kind appends.                                              *)
ApplyAppending(o, p) ==
  CASE p.field = "name" -> [o EXCEPT !.name = p.value]
    [] p.field = "ns" -> [o EXCEPT !.ns = p.value]
    [] OTHER -> [o EXCEPT !.parts = Append(@, p.value)]

(* One option function applied to object o.                                *)
Apply(o, p) ==
  CASE p.field = "name" -> [o EXCEPT !.name = p.value]
    [] p.field = "ns" -> [o EXCEPT !.ns = p.value]
    [] OTHER -> [o EXCEPT !.parts = IF AppendsParts(o.kind) THEN Append(@, p.value) ELSE <<p.value>>]

Key(o) == <<o.kind, o.ns, o.name>>

Stored(key) == {o \in cluster : Key(o) = key}

(* Only the room behind a slice that a namespace is appended to matters.   *)
Init ==
  /\ spare \in [Slices -> BOOLEAN]
  /\ \A s \in Slices : spare[s] => ForcesNamespace(KindOf[s])
  /\ slot = [s \in Slices |-> None]
  /\ wrote = [s \in Slices |-> {}]
  /\ pc = [w \in Workers |-> "idle"]
  /\ call = [w \in Workers |-> NoCall]
  /\ next = [w \in Workers |-> 1]
  /\ obj = [w \in Workers |-> None]
  /\ cluster = {}
  /\ clock = 0
  /\ past = [key \in Kinds \X Namespaces \X Names |-> {}]

----------------------------------------------------------------------------
(* The library *)

(* A bug: no new object is made.                                           *)
StartCreateNoObject(w, c, s) ==
  /\ pc[w] = "idle"
  /\ pc' = [pc EXCEPT ![w] = "build"]
  /\ call' = [call EXCEPT ![w] = [client |-> c, slice |-> s, private |-> TRUE]]
  /\ UNCHANGED <<sliceVars, obj, next, clusterVars>>

(* CreateDeploy, CreateSvc, CreateIngress, CreateDaemonSet: append the     *)
(* namespace option, in a new array or in the room of the caller's, and    *)
(* begin with an empty object.                                             *)
StartCreate(w, c, s) ==
  /\ pc[w] = "idle"
  /\ pc' = [pc EXCEPT ![w] = "build"]
  /\ obj' = [obj EXCEPT ![w] = New(KindOf[s])]
  /\ call' = [call EXCEPT ![w] = [client |-> c, slice |-> s, private |-> ~spare[s]]]
  /\ IF ForcesNamespace(KindOf[s]) /\ spare[s]
     THEN /\ slot' = [slot EXCEPT ![s] = NsOf[c]]
          /\ wrote' = [wrote EXCEPT ![s] = @ \cup {NsOf[c]}]
     ELSE UNCHANGED <<slot, wrote>>
  /\ UNCHANGED <<spare, next, clusterVars>>

(* The loop over the caller's options, in Create and in UpdateDaemonSet.   *)
ApplyOption(w) ==
  /\ pc[w] \in {"build", "change"}
  /\ next[w] <= Len(OptionsOf[call[w].slice])
  /\ obj' = [obj EXCEPT ![w] = Apply(@, OptionsOf[call[w].slice][next[w]])]
  /\ next' = [next EXCEPT ![w] = @ + 1]
  /\ UNCHANGED <<sliceVars, pc, call, clusterVars>>

(* The namespace option that the appended element of worker w holds now.   *)
AppendedNs(w) == IF call[w].private THEN NsOf[call[w].client] ELSE slot[call[w].slice]

(* A bug: the namespace is set before the caller's options are applied.    *)
FinishBuildCallerWins(w) ==
  /\ pc[w] = "build"
  /\ next[w] > Len(OptionsOf[call[w].slice])
  /\ obj' = IF ForcesNamespace(obj[w].kind) /\ obj[w].ns = None
            THEN [obj EXCEPT ![w].ns = AppendedNs(w)]
            ELSE obj
  /\ pc' = [pc EXCEPT ![w] = "create"]
  /\ next' = [next EXCEPT ![w] = 1]
  /\ UNCHANGED <<sliceVars, call, clusterVars>>

(* The end of the loop: the appended option is the last to be applied.     *)
FinishBuild(w) ==
  /\ pc[w] = "build"
  /\ next[w] > Len(OptionsOf[call[w].slice])
  /\ obj' = IF ForcesNamespace(obj[w].kind)
            THEN [obj EXCEPT ![w].ns = AppendedNs(w)]
            ELSE obj
  /\ pc' = [pc EXCEPT ![w] = "create"]
  /\ next' = [next EXCEPT ![w] = 1]
  /\ UNCHANGED <<sliceVars, call, clusterVars>>

(* A bug: the options are applied to a new object of the same name.        *)
StartUpdateFresh(w, s) ==
  /\ pc[w] = "hold"
  /\ obj[w].kind = "daemonset" /\ KindOf[s] = "daemonset"
  /\ pc' = [pc EXCEPT ![w] = "change"]
  /\ call' = [call EXCEPT ![w].slice = s]
  /\ obj' = [obj EXCEPT ![w] = [New("daemonset") EXCEPT !.name = obj[w].name]]
  /\ UNCHANGED <<sliceVars, next, clusterVars>>

(* UpdateDaemonSet applies its options to the caller's object itself.      *)
StartUpdateDaemonSet(w, s) ==
  /\ pc[w] = "hold"
  /\ obj[w].kind = "daemonset" /\ KindOf[s] = "daemonset"
  /\ pc' = [pc EXCEPT ![w] = "change"]
  /\ call' = [call EXCEPT ![w].slice = s]
  /\ UNCHANGED <<sliceVars, next, obj, clusterVars>>

FinishChange(w) ==
  /\ pc[w] = "change"
  /\ next[w] > Len(OptionsOf[call[w].slice])
  /\ pc' = [pc EXCEPT ![w] = "update"]
  /\ next' = [next EXCEPT ![w] = 1]
  /\ UNCHANGED <<sliceVars, call, obj, clusterVars>>

(* UpdateDeploy sends the Deployment that the caller has changed.          *)
UpdateDeploy(w) ==
  /\ pc[w] = "hold"
  /\ obj[w].kind = "deployment"
  /\ \E p \in Parts : obj' = [obj EXCEPT ![w].parts = <<p>>]
  /\ call' = [call EXCEPT ![w].slice = None]
  /\ pc' = [pc EXCEPT ![w] = "update"]
  /\ UNCHANGED <<sliceVars, next, clusterVars>>

(* The application has no more use for the object worker w holds.          *)
Release(w) ==
  /\ pc[w] = "hold"
  /\ pc' = [pc EXCEPT ![w] = "idle"]
  /\ obj' = [obj EXCEPT ![w] = None]
  /\ call' = [call EXCEPT ![w] = NoCall]
  /\ UNCHANGED <<sliceVars, next, clusterVars>>

----------------------------------------------------------------------------
(* The API server: requests go to the namespace of the client *)

(* The object with the namespace of the request filled in.                 *)
Defaulted(w) == IF obj[w].ns = None THEN [obj[w] EXCEPT !.ns = NsOf[call[w].client]] ELSE obj[w]

Addressed(w) == Defaulted(w).ns = NsOf[call[w].client] /\ obj[w].name # None

(* The object under key is replaced by o, in a new version.                *)
Write(key, o) ==
  /\ clock < MaxVersion
  /\ clock' = clock + 1
  /\ cluster' = (cluster \ Stored(key)) \cup {o}

CreateStored(w) ==
  LET key == Key(Defaulted(w))
  IN  /\ pc[w] = "create"
      /\ Addressed(w)
      /\ Stored(key) = {}
      /\ Write(key, [Defaulted(w) EXCEPT !.version = clock + 1, !.edits = {clock + 1}])
      /\ past' = [past EXCEPT ![key] = {clock + 1}]

(* Create succeeds and returns the object.                                 *)
CreateOk(w) ==
  /\ CreateStored(w)
  /\ obj' = [obj EXCEPT ![w] = [Defaulted(w) EXCEPT !.version = clock + 1,
                                                    !.edits = {clock + 1}]]
  /\ pc' = [pc EXCEPT ![w] = "hold"]
  /\ UNCHANGED <<sliceVars, call, next>>

Failed(w) ==
  /\ pc' = [pc EXCEPT ![w] = "idle"]
  /\ obj' = [obj EXCEPT ![w] = None]
  /\ call' = [call EXCEPT ![w] = NoCall]
  /\ UNCHANGED <<sliceVars, next>>

(* The object is stored, the answer is lost.                               *)
CreateUnanswered(w) == CreateStored(w) /\ Failed(w)

(* Create fails: wrong namespace, a name that is taken, no connection.     *)
CreateFails(w) == pc[w] = "create" /\ Failed(w) /\ UNCHANGED clusterVars

(* GetDeploy, GetSvc, GetIngress, GetDaemonSet.                            *)
Get(w, c, o) ==
  /\ pc[w] = "idle"
  /\ o.ns = NsOf[c]
  /\ obj' = [obj EXCEPT ![w] = o]
  /\ call' = [call EXCEPT ![w].client = c]
  /\ pc' = [pc EXCEPT ![w] = "hold"]
  /\ UNCHANGED <<sliceVars, next, clusterVars>>

UpdateStored(w) ==
  LET key == Key(Defaulted(w))
  IN  /\ pc[w] = "update"
      /\ Addressed(w)
      /\ \E o \in Stored(key) : obj[w].version \in {0, o.version}
      /\ Write(key, [Defaulted(w) EXCEPT !.version = clock + 1, !.edits = @ \cup {clock + 1}])
      /\ past' = [past EXCEPT ![key] = @ \cup {clock + 1}]

(* Update succeeds and returns the new version.                            *)
UpdateOk(w) ==
  /\ UpdateStored(w)
  /\ obj' = [obj EXCEPT ![w] = [Defaulted(w) EXCEPT !.version = clock + 1,
                                                    !.edits = @ \cup {clock + 1}]]
  /\ pc' = [pc EXCEPT ![w] = "hold"]
  /\ UNCHANGED <<sliceVars, call, next>>

(* The caller keeps the object it has changed, and may try again with it.  *)
UpdateUnanswered(w) ==
  /\ UpdateStored(w)
  /\ pc' = [pc EXCEPT ![w] = "hold"]
  /\ UNCHANGED <<sliceVars, call, next, obj>>

(* Update fails: a newer version, no such object, no connection.           *)
UpdateFails(w) ==
  /\ pc[w] = "update"
  /\ pc' = [pc EXCEPT ![w] = "hold"]
  /\ UNCHANGED <<sliceVars, call, next, obj, clusterVars>>

(* DeleteDeploy, DeleteSvc, DeleteIngress, DeleteDaemonSet.                *)
Delete(o) ==
  /\ cluster' = cluster \ {o}
  /\ UNCHANGED <<sliceVars, pc, call, next, obj, clock, past>>

----------------------------------------------------------------------------
WorkerStep(w) ==
  \/ \E c \in Clients, s \in Slices : StartCreate(w, c, s)
  \/ ApplyOption(w)
  \/ FinishBuild(w)
  \/ \E s \in Slices : StartUpdateDaemonSet(w, s)
  \/ FinishChange(w)
  \/ UpdateDeploy(w)
  \/ Release(w)
  \/ CreateOk(w)
  \/ CreateUnanswered(w)
  \/ CreateFails(w)
  \/ \E c \in Clients, o \in cluster : Get(w, c, o)
  \/ UpdateOk(w)
  \/ UpdateUnanswered(w)
  \/ UpdateFails(w)

Next ==
  \/ \E w \in Workers : WorkerStep(w)
  \/ \E o \in cluster : Delete(o)

Spec == Init /\ [][Next]_vars

----------------------------------------------------------------------------
(* Properties *)

TypeOK ==
  /\ spare \in [Slices -> BOOLEAN]
  /\ slot \in [Slices -> Namespaces \cup {None}]
  /\ wrote \in [Slices -> SUBSET Namespaces]
  /\ pc \in [Workers -> {"idle", "build", "create", "hold", "change", "update"}]
  /\ call \in [Workers -> CallRecords]
  /\ next \in [Workers -> Nat \ {0}]
  /\ obj \in [Workers -> Objects \cup {None}]
  /\ \A w \in Workers :
       /\ IF pc[w] = "idle" THEN obj[w] = None
          ELSE obj[w] \in Objects /\ call[w].client \in Clients
       /\ pc[w] \in {"build", "create", "change"} => call[w].slice \in Slices
  /\ cluster \in SUBSET Objects
  /\ clock \in 0..MaxVersion
  /\ past \in [Kinds \X Namespaces \X Names -> SUBSET Nat]

(* A Deployment, Service or Ingress is sent with the namespace of its      *)
(* client, whatever namespace the caller's options set; the only other     *)
(* namespaces it can get are those of clients that appended to the same    *)
(* slice while the array behind it had room.  (deployment.go:128,          *)
(* service.go:60, ingress.go:92.)                                          *)
NamespaceForced ==
  \A w \in Workers :
    pc[w] = "create" /\ ForcesNamespace(obj[w].kind) =>
      \/ obj[w].ns = NsOf[call[w].client]
      \/ ~call[w].private /\ obj[w].ns \in wrote[call[w].slice]

(* The options that set a part, among the first n of opts.                 *)
PartOptions(opts, n) == {i \in 1 .. n : opts[i].field = "part"}

(* Object o has the parts that the first n of opts ask for: each in the    *)
(* place that counts those up to it, or only the last one.                 *)
PartsAsked(o, opts, n) ==
  LET set == PartOptions(opts, n)
  IN  IF AppendsParts(o.kind) THEN
        /\ Len(o.parts) = Cardinality(set)
        /\ \A i \in set : o.parts[Cardinality(set \cap (1 .. i))] = opts[i].value
      ELSE IF set = {} THEN o.parts = <<>>
      ELSE \E i \in set : set \subseteq 1 .. i /\ o.parts = <<opts[i].value>>

(* An object that is sent has the parts its options ask for, once each and *)
(* in their order, however often the same options were used before: by     *)
(* other workers, or by a failed UpdateDaemonSet that changed the caller's *)
(* object and is tried again with it.  (deployment.go:128-132,             *)
(* daemonset.go:53, daemonset.go:108-112.)                                 *)
BuiltAsAsked ==
  \A w \in Workers :
    pc[w] \in {"create", "update"} /\ call[w].slice # None =>
      LET opts == OptionsOf[call[w].slice]
      IN  PartOptions(opts, Len(opts)) # {} \/ pc[w] = "create" =>
            PartsAsked(obj[w], opts, Len(opts))

(* No update is lost: a stored object descends from every version stored   *)
(* since its creation, because the version that was read travels through   *)
(* the options and into the request.  (daemonset.go:108-113,               *)
(* deployment.go:144-146.)                                                 *)
NoLostUpdate == \A o \in cluster : o.edits = past[Key(o)]
==============================================================================
