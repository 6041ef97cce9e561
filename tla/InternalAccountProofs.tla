------------------------ MODULE InternalAccountProofs ------------------------
(***************************************************************************)
(* Proofs about InternalAccount, for any set of processes, calls and       *)
(* names, any collation and any number of accounts.                        *)
(***************************************************************************)
EXTENDS InternalAccount, TLAPS

(* The account or row that call c stands for.                              *)
Mine(c) == [name |-> NameOf[c], id |-> appId[c]]

(* A call about to insert has been told of its account.                    *)
SaveBacked == \A c \in Calls : pc[c] = "save" => Mine(c) \in accounts

(* A client that was handed out has a row.                                 *)
ReadyRow == \A c \in Calls : pc[c] = "ready" => Mine(c) \in rows

(* The guarantees of the policies.                                         *)
UniqueAccounts ==
  policy.uniqueName => \A a, b \in accounts : a.name = b.name => a = b

UniqueRows ==
  policy.uniqueRow => \A r, s \in rows : Fold[r.name] = Fold[s.name] => r = s

(* One call at most runs InitDB in a process, and calls that are past the  *)
(* SELECT have a handle.                                                   *)
OnceGuards ==
  /\ \A c \in Calls : pc[c] = "opening" => once[ProcOf[c]] = "running"
  /\ \A c, d \in Calls :
       pc[c] = "opening" /\ pc[d] = "opening" /\ ProcOf[c] = ProcOf[d] => c = d
  /\ \A c \in Calls : pc[c] \in {"create", "save", "ready"} => db[ProcOf[c]] = "open"

AccountInv ==
  /\ TypeOK
  /\ RowsBacked
  /\ SaveBacked
  /\ ReadyRow
  /\ UniqueAccounts
  /\ UniqueRows

(* A step that touches neither user-management nor the table, and brings   *)
(* no call to its INSERT or its client, preserves what the two hold.       *)
LEMMA QuietStep ==
  ASSUME AccountInv, TypeOK', UNCHANGED <<policy, accounts, rows>>,
         \A c \in Calls : pc'[c] \in {"save", "ready"} => pc'[c] = pc[c] /\ appId'[c] = appId[c]
  PROVE  AccountInv'
BY DEF AccountInv, RowsBacked, SaveBacked, ReadyRow, UniqueAccounts, UniqueRows, Found, Mine

(* The type invariant is preserved; an inserted row needs SaveBacked to be *)
(* one.                                                                    *)
LEMMA TypeStep ==
  ASSUME AccountInv, [Next]_vars
  PROVE  TypeOK'
<1>. USE AccountAssumption DEF AccountAssumption, TypeOK, Goto
<1>0. TypeOK
  BY DEF AccountInv
<1>1. ASSUME NEW c \in Calls, Call(c) \/ EnterOnce(c) \/ PassOnce(c) \/ OpenOk(c) \/ OpenFail(c)
      PROVE  TypeOK'
  BY <1>0, <1>1 DEF Call, EnterOnce, PassOnce, OpenOk, OpenFail
<1>2. ASSUME NEW c \in Calls, SelectHit(c) \/ SelectMiss(c) \/ SelectFail(c)
      PROVE  TypeOK'
  <2>1. \A r \in Found(NameOf[c]) : r.id \in Nat
    BY <1>0 DEF Found, Accounts
  <2>. QED BY <1>0, <1>2, <2>1 DEF SelectHit, SelectMiss, SelectFail
<1>3. ASSUME NEW c \in Calls, CreateOk(c) \/ CreateUnanswered(c) \/ CreateFail(c)
      PROVE  TypeOK'
  <2>1. NameOf[c] \in Names /\ [name |-> NameOf[c], id |-> nextId] \in Accounts
    BY <1>0 DEF Accounts
  <2>. QED BY <1>0, <1>3, <2>1 DEF CreateOk, CreateUnanswered, CreateFail, AccountCreated
<1>4. ASSUME NEW c \in Calls, SaveOk(c) \/ SaveUnanswered(c) \/ SaveFail(c)
      PROVE  TypeOK'
  <2>1. Mine(c) \in Accounts
    BY <1>0, <1>4 DEF SaveOk, SaveUnanswered, SaveFail, AccountInv, SaveBacked
  <2>. QED BY <1>0, <1>4, <2>1 DEF SaveOk, SaveUnanswered, SaveFail, RowInserted, Mine
<1>5. ASSUME NEW p \in Procs, Restart(p)
      PROVE  TypeOK'
  BY <1>0, <1>5 DEF Restart
<1>6. CASE UNCHANGED vars
  BY <1>0, <1>6 DEF vars
<1>. QED BY <1>1, <1>2, <1>3, <1>4, <1>5, <1>6 DEF Next, CallStep

(* What user-management and the table hold is consistent with the calls.   *)
(* (oauth2.go:111-133.)                                                    *)
LEMMA AccountInvariant == Spec => []AccountInv
<1>. USE AccountAssumption DEF AccountAssumption
<1>1. Init => AccountInv
  BY DEF Init, AccountInv, TypeOK, RowsBacked, SaveBacked, ReadyRow, UniqueAccounts, UniqueRows
<1>2. AccountInv /\ [Next]_vars => AccountInv'
  <2>. SUFFICES ASSUME AccountInv, [Next]_vars
                PROVE  AccountInv'
    OBVIOUS
  <2>0. TypeOK' /\ pc \in [Calls -> {"idle", "newDB", "opening", "select", "create", "save",
                                     "ready", "panicked"}]
        /\ appId \in [Calls -> Nat \cup {NoId}] /\ rows \subseteq Accounts
    BY TypeStep DEF AccountInv, TypeOK
  <2>1. ASSUME NEW c \in Calls,
               \/ Call(c) \/ EnterOnce(c) \/ PassOnce(c) \/ OpenOk(c) \/ OpenFail(c)
               \/ SelectMiss(c) \/ SelectFail(c) \/ CreateFail(c) \/ SaveFail(c)
        PROVE  AccountInv'
    <3>1. UNCHANGED <<policy, accounts, rows>>
      BY <2>1 DEF Call, EnterOnce, PassOnce, OpenOk, OpenFail, SelectMiss, SelectFail,
                  CreateFail, SaveFail
    <3>2. /\ \E l \in {"newDB", "opening", "select", "create", "panicked"} :
               pc' = [pc EXCEPT ![c] = l]
          /\ appId' = appId \/ appId' = [appId EXCEPT ![c] = NoId]
      BY <2>1 DEF Call, EnterOnce, PassOnce, OpenOk, OpenFail, SelectMiss, SelectFail,
                  CreateFail, SaveFail, Goto
    <3>. QED BY <2>0, <3>1, <3>2, QuietStep
  <2>2. ASSUME NEW c \in Calls, SelectHit(c)
        PROVE  AccountInv'
    <3>1. UNCHANGED <<policy, accounts, rows>>
      BY <2>2 DEF SelectHit
    <3>2. PICK r \in rows :
            IF ComputeMD5(r.name) = ComputeMD5(NameOf[c])
            THEN appId' = [appId EXCEPT ![c] = r.id] /\ pc' = [pc EXCEPT ![c] = "ready"]
            ELSE appId' = appId /\ pc' = [pc EXCEPT ![c] = "panicked"]
      BY <2>2 DEF SelectHit, Found, Goto
    <3>3. CASE ComputeMD5(r.name) = ComputeMD5(NameOf[c])
      <4>1. r.name = NameOf[c] /\ r = [name |-> r.name, id |-> r.id]
        BY <2>0, <3>3 DEF ComputeMD5, Accounts
      <4>2. appId' = [appId EXCEPT ![c] = r.id] /\ pc' = [pc EXCEPT ![c] = "ready"]
        BY <3>2, <3>3
      <4>3. Mine(c)' = r
        BY <2>0, <4>1, <4>2 DEF Mine
      <4>4. ReadyRow'
        BY <2>0, <3>1, <4>2, <4>3 DEF AccountInv, ReadyRow, Mine
      <4>5. SaveBacked'
        BY <2>0, <3>1, <4>2 DEF AccountInv, SaveBacked, Mine
      <4>. QED BY <2>0, <3>1, <4>4, <4>5
               DEF AccountInv, RowsBacked, UniqueAccounts, UniqueRows
    <3>4. CASE ~(ComputeMD5(r.name) = ComputeMD5(NameOf[c]))
      BY <2>0, <3>1, <3>2, <3>4, QuietStep
    <3>. QED BY <3>3, <3>4
  <2>3. ASSUME NEW c \in Calls, CreateOk(c) \/ CreateUnanswered(c)
        PROVE  AccountInv'
    <3>. DEFINE a == [name |-> NameOf[c], id |-> nextId]
    <3>1. /\ policy.uniqueName => ~HasAccount(NameOf[c])
          /\ accounts' = accounts \cup {a} /\ UNCHANGED <<policy, rows>>
          /\ \/ appId' = [appId EXCEPT ![c] = nextId] /\ pc' = [pc EXCEPT ![c] = "save"]
             \/ appId' = appId /\ pc' = [pc EXCEPT ![c] = "panicked"]
      BY <2>3 DEF CreateOk, CreateUnanswered, AccountCreated, Goto
    <3>2. RowsBacked' /\ UniqueAccounts' /\ UniqueRows'
      BY <3>1 DEF AccountInv, RowsBacked, UniqueAccounts, UniqueRows, HasAccount
    <3>3. SaveBacked' /\ ReadyRow'
      BY <2>0, <3>1 DEF AccountInv, SaveBacked, ReadyRow, Mine
    <3>. QED BY <2>0, <3>2, <3>3 DEF AccountInv
  <2>4. ASSUME NEW c \in Calls, SaveOk(c) \/ SaveUnanswered(c)
        PROVE  AccountInv'
    <3>1. /\ pc[c] = "save"
          /\ policy.uniqueRow => Found(NameOf[c]) = {}
          /\ rows' = rows \cup {Mine(c)} /\ UNCHANGED <<policy, accounts, appId>>
          /\ \E l \in {"ready", "panicked"} : pc' = [pc EXCEPT ![c] = l]
      BY <2>4 DEF SaveOk, SaveUnanswered, RowInserted, Goto, Mine
    <3>2. Mine(c) \in accounts
      BY <3>1 DEF AccountInv, SaveBacked
    <3>3. RowsBacked' /\ UniqueAccounts'
      BY <3>1, <3>2 DEF AccountInv, RowsBacked, UniqueAccounts
    <3>4. UniqueRows'
      BY <3>1 DEF AccountInv, UniqueRows, Found, Mine
    <3>5. SaveBacked' /\ ReadyRow'
      BY <2>0, <3>1 DEF AccountInv, SaveBacked, ReadyRow, Mine
    <3>. QED BY <2>0, <3>3, <3>4, <3>5 DEF AccountInv
  <2>5. ASSUME NEW p \in Procs, Restart(p)
        PROVE  AccountInv'
    <3>1. /\ UNCHANGED <<policy, accounts, rows>>
          /\ \A c \in Calls : pc'[c] \in {"save", "ready"} => pc'[c] = pc[c] /\ appId'[c] = appId[c]
      BY <2>0, <2>5 DEF Restart
    <3>. QED BY <2>0, <3>1, QuietStep
  <2>6. CASE UNCHANGED vars
    BY <2>0, <2>6, QuietStep DEF vars
  <2>. QED BY <2>1, <2>2, <2>3, <2>4, <2>5, <2>6 DEF Next, CallStep
<1>. QED BY <1>1, <1>2, PTL DEF Spec

(* Type correctness.                                                       *)
THEOREM TypeCorrect == Spec => []TypeOK
<1>1. AccountInv => TypeOK
  BY DEF AccountInv
<1>. QED BY <1>1, AccountInvariant, PTL

(* No restart finds credentials that were never issued.  (oauth2.go:119.)  *)
THEOREM RowsBackedSafe == Spec => []RowsBacked
<1>1. AccountInv => RowsBacked
  BY DEF AccountInv
<1>. QED BY <1>1, AccountInvariant, PTL

(* A client that was handed out has the credentials of an account of its   *)
(* own name.  (oauth2.go:174-178.)                                         *)
THEOREM ReadyCredentialsSafe == Spec => []ReadyCredentials
<1>1. AccountInv => ReadyCredentials
  BY DEF AccountInv, ReadyRow, RowsBacked, ReadyCredentials, Mine
<1>. QED BY <1>1, AccountInvariant, PTL

(* Replicas agree on the account when duplicates are refused by either of  *)
(* the two services.  (oauth2.go:115-130.)                                 *)
THEOREM AgreementSafe == Spec => []Agreement
<1>1. AccountInv => Agreement
  <2>. SUFFICES ASSUME AccountInv, policy.uniqueName \/ policy.uniqueRow,
                       NEW c \in Calls, NEW d \in Calls, pc[c] = "ready", pc[d] = "ready",
                       NameOf[c] = NameOf[d]
                PROVE  appId[c] = appId[d]
    BY DEF Agreement
  <2>1. Mine(c) \in rows /\ Mine(d) \in rows /\ Mine(c) \in accounts /\ Mine(d) \in accounts
    BY DEF AccountInv, ReadyRow, RowsBacked
  <2>2. Mine(c).name = Mine(d).name /\ Mine(c).id = appId[c] /\ Mine(d).id = appId[d]
    BY DEF Mine
  <2>3. Mine(c) = Mine(d)
    <3>1. CASE policy.uniqueName
      BY <3>1, <2>1, <2>2 DEF AccountInv, UniqueAccounts
    <3>2. CASE policy.uniqueRow
      BY <3>2, <2>1, <2>2 DEF AccountInv, UniqueRows
    <3>. QED BY <3>1, <3>2
  <2>. QED BY <2>2, <2>3
<1>. QED BY <1>1, AccountInvariant, PTL

----------------------------------------------------------------------------
(* Steps *)

(* A name whose account has no row stays locked out.  (oauth2.go:119-130.) *)
THEOREM OrphanLocksOutHolds == Spec => OrphanLocksOut
<1>. DEFINE Locked == policy.uniqueName =>
              \A n \in Names : Orphaned(n) =>
                Orphaned(n)' /\ \A c \in Calls : NameOf[c] = n => pc'[c] # "ready"
<1>1. AccountInv /\ [Next]_vars => [Locked]_vars
  <2>. SUFFICES ASSUME AccountInv, Next, policy.uniqueName, NEW n \in Names, Orphaned(n)
                PROVE  Orphaned(n)' /\ \A c \in Calls : NameOf[c] = n => pc'[c] # "ready"
    OBVIOUS
  <2>0. pc \in [Calls -> {"idle", "newDB", "opening", "select", "create", "save",
                          "ready", "panicked"}]
    BY DEF AccountInv, TypeOK
  <2>1. \A c \in Calls : NameOf[c] = n => pc[c] \notin {"save", "ready"}
    BY DEF AccountInv, ReadyRow, Mine, Orphaned
  <2>2. ASSUME accounts \subseteq accounts', \A r \in rows' : r.name # n,
               \A c \in Calls : NameOf[c] = n => pc'[c] \notin {"save", "ready"}
        PROVE  Orphaned(n)' /\ \A c \in Calls : NameOf[c] = n => pc'[c] # "ready"
    BY <2>2 DEF Orphaned, HasAccount
  <2>3. \A r \in rows : r.name # n
    BY DEF Orphaned
  <2>4. ASSUME NEW c \in Calls,
               \/ Call(c) \/ EnterOnce(c) \/ PassOnce(c) \/ OpenOk(c) \/ OpenFail(c)
               \/ SelectMiss(c) \/ SelectFail(c) \/ CreateFail(c) \/ SaveFail(c)
        PROVE  Orphaned(n)' /\ \A d \in Calls : NameOf[d] = n => pc'[d] # "ready"
    <3>1. UNCHANGED <<accounts, rows>>
      BY <2>4 DEF Call, EnterOnce, PassOnce, OpenOk, OpenFail, SelectMiss, SelectFail,
                  CreateFail, SaveFail
    <3>2. \E l \in {"newDB", "opening", "select", "create", "panicked"} :
            pc' = [pc EXCEPT ![c] = l]
      BY <2>4 DEF Call, EnterOnce, PassOnce, OpenOk, OpenFail, SelectMiss, SelectFail,
                  CreateFail, SaveFail, Goto
    <3>. QED BY <2>0, <2>1, <2>2, <2>3, <3>1, <3>2
  <2>5. ASSUME NEW c \in Calls, SelectHit(c)
        PROVE  Orphaned(n)' /\ \A d \in Calls : NameOf[d] = n => pc'[d] # "ready"
    <3>1. UNCHANGED <<accounts, rows>>
      BY <2>5 DEF SelectHit
    <3>2. PICK r \in rows :
            IF ComputeMD5(r.name) = ComputeMD5(NameOf[c])
            THEN pc' = [pc EXCEPT ![c] = "ready"]
            ELSE pc' = [pc EXCEPT ![c] = "panicked"]
      BY <2>5 DEF SelectHit, Found, Goto
    <3>3. NameOf[c] = n => pc' = [pc EXCEPT ![c] = "panicked"]
      BY <2>3, <3>2 DEF ComputeMD5
    <3>. QED BY <2>0, <2>1, <2>2, <2>3, <3>1, <3>2, <3>3
  <2>6. ASSUME NEW c \in Calls, CreateOk(c) \/ CreateUnanswered(c)
        PROVE  Orphaned(n)' /\ \A d \in Calls : NameOf[d] = n => pc'[d] # "ready"
    <3>1. /\ ~HasAccount(NameOf[c]) /\ accounts \subseteq accounts' /\ rows' = rows
          /\ \E l \in {"save", "panicked"} : pc' = [pc EXCEPT ![c] = l]
      BY <2>6 DEF CreateOk, CreateUnanswered, AccountCreated, Goto
    <3>2. NameOf[c] # n
      BY <3>1 DEF Orphaned
    <3>. QED BY <2>0, <2>1, <2>2, <2>3, <3>1, <3>2
  <2>7. ASSUME NEW c \in Calls, SaveOk(c) \/ SaveUnanswered(c)
        PROVE  Orphaned(n)' /\ \A d \in Calls : NameOf[d] = n => pc'[d] # "ready"
    <3>1. /\ pc[c] = "save" /\ accounts' = accounts /\ rows' = rows \cup {Mine(c)}
          /\ \E l \in {"ready", "panicked"} : pc' = [pc EXCEPT ![c] = l]
      BY <2>7 DEF SaveOk, SaveUnanswered, RowInserted, Goto, Mine
    <3>2. NameOf[c] # n /\ Mine(c).name # n
      BY <2>1, <3>1 DEF Mine
    <3>. QED BY <2>0, <2>1, <2>2, <2>3, <3>1, <3>2
  <2>8. ASSUME NEW p \in Procs, Restart(p)
        PROVE  Orphaned(n)' /\ \A d \in Calls : NameOf[d] = n => pc'[d] # "ready"
    BY <2>1, <2>2, <2>3, <2>8 DEF Restart
  <2>. QED BY <2>4, <2>5, <2>6, <2>7, <2>8 DEF Next, CallStep
<1>. QED BY <1>1, AccountInvariant, PTL DEF Spec, OrphanLocksOut

(* One call runs InitDB, and calls past the SELECT have a handle.          *)
(* (db.go:35-41.)                                                          *)
LEMMA OnceInvariant == Spec => []OnceGuards
<1>. USE AccountAssumption DEF AccountAssumption
<1>1. Init => OnceGuards
  BY DEF Init, OnceGuards
<1>2. TypeOK /\ OnceGuards /\ [Next]_vars => OnceGuards'
  <2>. SUFFICES ASSUME TypeOK, OnceGuards, [Next]_vars
                PROVE  OnceGuards'
    OBVIOUS
  <2>. USE DEF Goto, OnceGuards
  <2>0. /\ once \in [Procs -> {"new", "running", "done"}]
        /\ db \in [Procs -> {"nil", "open"}]
        /\ pc \in [Calls -> {"idle", "newDB", "opening", "select", "create", "save",
                             "ready", "panicked"}]
    BY DEF TypeOK
  <2>1. ASSUME NEW c \in Calls, Call(c) \/ EnterOnce(c) \/ PassOnce(c) \/ OpenOk(c) \/ OpenFail(c)
        PROVE  OnceGuards'
    BY <2>0, <2>1 DEF Call, EnterOnce, PassOnce, OpenOk, OpenFail
  <2>2. ASSUME NEW c \in Calls,
               \/ SelectHit(c) \/ SelectMiss(c) \/ SelectFail(c)
               \/ CreateOk(c) \/ CreateUnanswered(c) \/ CreateFail(c)
               \/ SaveOk(c) \/ SaveUnanswered(c) \/ SaveFail(c)
        PROVE  OnceGuards'
    <3>1. /\ UNCHANGED <<once, db>>
          /\ \E l \in {"create", "save", "ready", "panicked"} :
               /\ pc' = [pc EXCEPT ![c] = l]
               /\ l # "panicked" => db[ProcOf[c]] = "open"
      BY <2>0, <2>2 DEF SelectHit, SelectMiss, SelectFail, CreateOk, CreateUnanswered,
           CreateFail, SaveOk, SaveUnanswered, SaveFail
    <3>. QED BY <2>0, <3>1
  <2>3. ASSUME NEW p \in Procs, Restart(p)
        PROVE  OnceGuards'
    BY <2>0, <2>3 DEF Restart
  <2>4. CASE UNCHANGED vars
    BY <2>4 DEF vars
  <2>. QED BY <2>1, <2>2, <2>3, <2>4 DEF Next, CallStep
<1>. QED BY <1>1, <1>2, TypeCorrect, PTL DEF Spec

(* A process whose InitDB panicked gets no client before its restart.      *)
(* (db.go:36-40.)                                                          *)
THEOREM PoisonedUntilRestartHolds == Spec => PoisonedUntilRestart
<1>. USE AccountAssumption DEF AccountAssumption
<1>. DEFINE Poisoned ==
       \A p \in Procs :
         once[p] = "done" /\ db[p] = "nil" =>
           \/ once'[p] = "new" /\ \A c \in Calls : ProcOf[c] = p => pc'[c] = "idle"
           \/ /\ once'[p] = "done" /\ db'[p] = "nil"
              /\ \A c \in Calls : ProcOf[c] = p => pc'[c] # "ready"
<1>1. TypeOK /\ OnceGuards /\ [Next]_vars => [Poisoned]_vars
  <2>. SUFFICES ASSUME TypeOK, OnceGuards, Next, NEW p \in Procs,
                       once[p] = "done", db[p] = "nil"
                PROVE  \/ once'[p] = "new" /\ \A c \in Calls : ProcOf[c] = p => pc'[c] = "idle"
                       \/ /\ once'[p] = "done" /\ db'[p] = "nil"
                          /\ \A c \in Calls : ProcOf[c] = p => pc'[c] # "ready"
    OBVIOUS
  <2>0. /\ once \in [Procs -> {"new", "running", "done"}]
        /\ db \in [Procs -> {"nil", "open"}]
        /\ pc \in [Calls -> {"idle", "newDB", "opening", "select", "create", "save",
                             "ready", "panicked"}]
    BY DEF TypeOK
  <2>1. \A c \in Calls : ProcOf[c] = p =>
          pc[c] \notin {"opening", "create", "save", "ready"}
    BY <2>0 DEF OnceGuards
  <2>2. ASSUME NEW c \in Calls, Call(c) \/ CallStep(c)
        PROVE  once'[p] = "done" /\ db'[p] = "nil" /\ \A d \in Calls : ProcOf[d] = p => pc'[d] # "ready"
    <3>1. CASE Call(c) \/ EnterOnce(c) \/ PassOnce(c) \/ OpenFail(c) \/ SelectMiss(c)
               \/ SelectFail(c) \/ CreateFail(c) \/ SaveFail(c) \/ CreateOk(c)
               \/ CreateUnanswered(c) \/ SaveUnanswered(c)
      BY <2>0, <2>1, <3>1 DEF Call, EnterOnce, PassOnce, OpenFail, SelectMiss, SelectFail,
           CreateFail, SaveFail, CreateOk, CreateUnanswered, SaveUnanswered, Goto
    <3>2. CASE OpenOk(c)
      BY <2>0, <2>1, <3>2 DEF OpenOk, Goto
    <3>3. CASE SelectHit(c) \/ SaveOk(c)
      <4>1. ProcOf[c] # p /\ UNCHANGED <<once, db>> /\ \E l \in {"ready", "panicked"} : pc' = [pc EXCEPT ![c] = l]
        BY <2>1, <3>3 DEF SelectHit, SaveOk, Goto
      <4>. QED BY <2>0, <2>1, <4>1
    <3>. QED BY <2>2, <3>1, <3>2, <3>3 DEF CallStep
  <2>3. ASSUME NEW q \in Procs, Restart(q)
        PROVE  \/ once'[p] = "new" /\ \A c \in Calls : ProcOf[c] = p => pc'[c] = "idle"
               \/ /\ once'[p] = "done" /\ db'[p] = "nil"
                  /\ \A c \in Calls : ProcOf[c] = p => pc'[c] # "ready"
    BY <2>0, <2>1, <2>3 DEF Restart
  <2>. QED BY <2>2, <2>3 DEF Next
<1>. QED BY <1>1, TypeCorrect, OnceInvariant, PTL DEF Spec, PoisonedUntilRestart
==============================================================================
