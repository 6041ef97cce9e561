--------------------------- MODULE InternalAccount ---------------------------
(***************************************************************************)
(* oauth/oauth2.go and db/db.go: a service asks for an HTTP client of its  *)
(* internal application account.  initInternalAccount opens the process's  *)
(* database handle once, looks the account up in t_internal_app, and, when *)
(* it finds none, creates one at user-management and inserts its row.      *)
(* Calls run in several goroutines of several processes (replicas) that    *)
(* share the table and user-management.                                    *)
(*                                                                         *)
(* External, and therefore open: whether user-management refuses a second  *)
(* account of a name, whether the table refuses a second row of a name     *)
(* (policy), and which names the column's collation takes as equal (Fold). *)
(*                                                                         *)
(* Left out: URLs, SQL text, the token requests that the client makes      *)
(* later; the secret is the MD5 of the name and stands for the name.       *)
(***************************************************************************)
EXTENDS Naturals, FiniteSets

CONSTANTS
  Calls,       \* calls of NewOAuth2HTTPClient, one goroutine each
  Procs,       \* processes
  Names,       \* application names
  ProcOf,      \* ProcOf[c]: the process call c runs in
  NameOf,      \* NameOf[c]: AppName of call c
  Fold,        \* Fold[n]: what the database compares n by
  MaxAccounts, \* bound: accounts user-management creates
  NoId         \* "no account ID"

ASSUME AccountAssumption ==
  /\ ProcOf \in [Calls -> Procs]
  /\ NameOf \in [Calls -> Names]
  /\ MaxAccounts \in Nat
  /\ NoId \notin Nat

VARIABLES
  policy,   \* what user-management and the table refuse
  once,     \* once[p]: dbOnce of process p
  db,       \* db[p]: the package's handle in process p
  pc,       \* pc[c]: where call c is
  appId,    \* appId[c]: info.AppID
  accounts, \* accounts at user-management
  rows,     \* rows of t_internal_app
  nextId    \* the next account ID

vars == <<policy, once, db, pc, appId, accounts, rows, nextId>>

Accounts == [name : Names, id : Nat]

(* MD5 of a name: names with the same secret are the same name.            *)
ComputeMD5(n) == <<"md5", n>>

HasAccount(n) == \E a \in accounts : a.name = n

(* The rows a SELECT for name n may return first.                          *)
Found(n) == {r \in rows : Fold[r.name] = Fold[n]}

Init ==
  /\ policy \in [uniqueName : BOOLEAN, uniqueRow : BOOLEAN]
  /\ once = [p \in Procs |-> "new"]
  /\ db = [p \in Procs |-> "nil"]
  /\ pc = [c \in Calls |-> "idle"]
  /\ appId = [c \in Calls |-> NoId]
  /\ accounts = {}
  /\ rows = {}
  /\ nextId = 0

Goto(c, label) == pc' = [pc EXCEPT ![c] = label]

(* A goroutine calls NewOAuth2HTTPClient, for the first time or, after a   *)
(* panic it recovered from, again.                                         *)
Call(c) ==
  /\ pc[c] \in {"idle", "panicked"}
  /\ Goto(c, "newDB")
  /\ appId' = [appId EXCEPT ![c] = NoId]
  /\ UNCHANGED <<policy, once, db, accounts, rows, nextId>>

(* A bug: InitDB is run again when it left no handle.                      *)
EnterOnceIfNil(c) ==
  /\ pc[c] = "newDB"
  /\ once[ProcOf[c]] # "running" /\ db[ProcOf[c]] = "nil"
  /\ once' = [once EXCEPT ![ProcOf[c]] = "running"]
  /\ Goto(c, "opening")
  /\ UNCHANGED <<policy, db, appId, accounts, rows, nextId>>

(* dbOnce.Do: the first call runs InitDB, the others wait for it ...       *)
EnterOnce(c) ==
  /\ pc[c] = "newDB"
  /\ once[ProcOf[c]] = "new"
  /\ once' = [once EXCEPT ![ProcOf[c]] = "running"]
  /\ Goto(c, "opening")
  /\ UNCHANGED <<policy, db, appId, accounts, rows, nextId>>

(* ... and return once it has ended, however it ended.                     *)
PassOnce(c) ==
  /\ pc[c] = "newDB"
  /\ once[ProcOf[c]] = "done"
  /\ Goto(c, "select")
  /\ UNCHANGED <<policy, once, db, appId, accounts, rows, nextId>>

(* InitDB opens and pings the database.                                    *)
OpenOk(c) ==
  /\ pc[c] = "opening"
  /\ db' = [db EXCEPT ![ProcOf[c]] = "open"]
  /\ once' = [once EXCEPT ![ProcOf[c]] = "done"]
  /\ Goto(c, "select")
  /\ UNCHANGED <<policy, appId, accounts, rows, nextId>>

(* A bug: a panic inside once leaves it unfinished.                        *)
OpenFailHangs(c) ==
  /\ pc[c] = "opening"
  /\ Goto(c, "panicked")
  /\ UNCHANGED <<policy, once, db, appId, accounts, rows, nextId>>

(* InitDB panics; sync.Once counts a panic as done and db stays nil.       *)
OpenFail(c) ==
  /\ pc[c] = "opening"
  /\ once' = [once EXCEPT ![ProcOf[c]] = "done"]
  /\ Goto(c, "panicked")
  /\ UNCHANGED <<policy, db, appId, accounts, rows, nextId>>

(* A bug: the secret of the row is not compared.                           *)
SelectHitAnySecret(c) ==
  /\ pc[c] = "select"
  /\ db[ProcOf[c]] = "open"
  /\ \E r \in Found(NameOf[c]) :
       /\ appId' = [appId EXCEPT ![c] = r.id]
       /\ Goto(c, "ready")
  /\ UNCHANGED <<policy, once, db, accounts, rows, nextId>>

(* retrieveInternalAccountByDB finds a row and compares its secret; a      *)
(* mismatch is an error, and NewOAuth2HTTPClientWithOptions panics.        *)
SelectHit(c) ==
  /\ pc[c] = "select"
  /\ db[ProcOf[c]] = "open"
  /\ \E r \in Found(NameOf[c]) :
       IF ComputeMD5(r.name) = ComputeMD5(NameOf[c])
       THEN appId' = [appId EXCEPT ![c] = r.id] /\ Goto(c, "ready")
       ELSE appId' = appId /\ Goto(c, "panicked")
  /\ UNCHANGED <<policy, once, db, accounts, rows, nextId>>

(* sql.ErrNoRows: the account has to be created.                           *)
SelectMiss(c) ==
  /\ pc[c] = "select"
  /\ db[ProcOf[c]] = "open"
  /\ Found(NameOf[c]) = {}
  /\ Goto(c, "create")
  /\ UNCHANGED <<policy, once, db, appId, accounts, rows, nextId>>

(* The query fails, or is made on the nil handle of a failed InitDB.       *)
SelectFail(c) ==
  /\ pc[c] = "select"
  /\ Goto(c, "panicked")
  /\ UNCHANGED <<policy, once, db, appId, accounts, rows, nextId>>

(* user-management creates the account, unless it refuses a second one of  *)
(* the name.                                                               *)
AccountCreated(c) ==
  /\ policy.uniqueName => ~HasAccount(NameOf[c])
  /\ nextId < MaxAccounts
  /\ accounts' = accounts \cup {[name |-> NameOf[c], id |-> nextId]}
  /\ nextId' = nextId + 1

(* A bug: the ID of the answer is not kept.                                *)
CreateOkNoId(c) ==
  /\ pc[c] = "create"
  /\ AccountCreated(c)
  /\ Goto(c, "save")
  /\ UNCHANGED <<policy, once, db, appId, rows>>

(* createInternalAccount is answered 201.                                  *)
CreateOk(c) ==
  /\ pc[c] = "create"
  /\ AccountCreated(c)
  /\ appId' = [appId EXCEPT ![c] = nextId]
  /\ Goto(c, "save")
  /\ UNCHANGED <<policy, once, db, rows>>

(* The account is created, its answer lost: Post returns an error.         *)
CreateUnanswered(c) ==
  /\ pc[c] = "create"
  /\ AccountCreated(c)
  /\ Goto(c, "panicked")
  /\ UNCHANGED <<policy, once, db, appId, rows>>

(* A bug: an answer other than 201 is taken for success.                   *)
CreateFailIgnored(c) ==
  /\ pc[c] = "create"
  /\ appId' = [appId EXCEPT ![c] = nextId]
  /\ Goto(c, "save")
  /\ UNCHANGED <<policy, once, db, accounts, rows, nextId>>

(* Post fails or answers other than 201.                                   *)
CreateFail(c) ==
  /\ pc[c] = "create"
  /\ Goto(c, "panicked")
  /\ UNCHANGED <<policy, once, db, appId, accounts, rows, nextId>>

(* The row of c, inserted unless the table refuses a second one.           *)
RowInserted(c) ==
  /\ policy.uniqueRow => Found(NameOf[c]) = {}
  /\ rows' = rows \cup {[name |-> NameOf[c], id |-> appId[c]]}

(* saveInternalAccountToDB succeeds: the client is built.                  *)
SaveOk(c) ==
  /\ pc[c] = "save"
  /\ RowInserted(c)
  /\ Goto(c, "ready")
  /\ UNCHANGED <<policy, once, db, appId, accounts, nextId>>

(* The row is inserted, Exec returns an error.                             *)
SaveUnanswered(c) ==
  /\ pc[c] = "save"
  /\ RowInserted(c)
  /\ Goto(c, "panicked")
  /\ UNCHANGED <<policy, once, db, appId, accounts, nextId>>

(* A bug: the error of the INSERT is logged and ignored.                   *)
SaveFailIgnored(c) ==
  /\ pc[c] = "save"
  /\ Goto(c, "ready")
  /\ UNCHANGED <<policy, once, db, appId, accounts, rows, nextId>>

(* The INSERT fails: the account stays without a row.                      *)
SaveFail(c) ==
  /\ pc[c] = "save"
  /\ Goto(c, "panicked")
  /\ UNCHANGED <<policy, once, db, appId, accounts, rows, nextId>>

(* Process p ends, in whatever its calls were doing, and starts again.     *)
Restart(p) ==
  /\ once' = [once EXCEPT ![p] = "new"]
  /\ db' = [db EXCEPT ![p] = "nil"]
  /\ pc' = [c \in Calls |-> IF ProcOf[c] = p THEN "idle" ELSE pc[c]]
  /\ appId' = [c \in Calls |-> IF ProcOf[c] = p THEN NoId ELSE appId[c]]
  /\ UNCHANGED <<policy, accounts, rows, nextId>>

CallStep(c) ==
  \/ EnterOnce(c)
  \/ PassOnce(c)
  \/ OpenOk(c)
  \/ OpenFail(c)
  \/ SelectHit(c)
  \/ SelectMiss(c)
  \/ SelectFail(c)
  \/ CreateOk(c)
  \/ CreateUnanswered(c)
  \/ CreateFail(c)
  \/ SaveOk(c)
  \/ SaveUnanswered(c)
  \/ SaveFail(c)

Next ==
  \/ \E c \in Calls : Call(c) \/ CallStep(c)
  \/ \E p \in Procs : Restart(p)

Spec == Init /\ [][Next]_vars

(* Goroutines run, and the database and user-management answer or time     *)
(* out: http.Client has a timeout and the driver reports broken            *)
(* connections.                                                            *)
FairSpec == Spec /\ \A c \in Calls : WF_vars(CallStep(c))

----------------------------------------------------------------------------
(* Properties *)

TypeOK ==
  /\ policy \in [uniqueName : BOOLEAN, uniqueRow : BOOLEAN]
  /\ once \in [Procs -> {"new", "running", "done"}]
  /\ db \in [Procs -> {"nil", "open"}]
  /\ pc \in [Calls -> {"idle", "newDB", "opening", "select", "create", "save",
                       "ready", "panicked"}]
  /\ appId \in [Calls -> Nat \cup {NoId}]
  /\ accounts \in SUBSET Accounts
  /\ rows \in SUBSET Accounts
  /\ nextId \in 0..MaxAccounts

(* A row always names an account that user-management has, under the name  *)
(* it was created with: no restart finds credentials that were never       *)
(* issued.  (oauth2.go:119-130: the INSERT comes after the 201.)           *)
RowsBacked == rows \subseteq accounts

(* The credentials of a client that was handed out are those of an account *)
(* of its own name, though the database may match other spellings.         *)
(* (oauth2.go:174-178, the comparison of secrets.)                         *)
ReadyCredentials ==
  \A c \in Calls : pc[c] = "ready" => [name |-> NameOf[c], id |-> appId[c]] \in accounts

(* Replicas that ask for one name get one account, if user-management or   *)
(* the table refuses duplicates; the library itself takes no lock between  *)
(* its SELECT and its INSERT.  (oauth2.go:115-130.)                        *)
Agreement ==
  policy.uniqueName \/ policy.uniqueRow =>
    \A c, d \in Calls :
      pc[c] = "ready" /\ pc[d] = "ready" /\ NameOf[c] = NameOf[d] => appId[c] = appId[d]

(* The account of n exists, no row tells its ID, and no call is about to   *)
(* insert one.                                                             *)
Orphaned(n) ==
  /\ HasAccount(n)
  /\ \A r \in rows : r.name # n
  /\ \A c \in Calls : NameOf[c] = n => pc[c] # "save"

(* When names are unique, a failure between the creation of an account and *)
(* the INSERT of its row locks the name out for good: no later call, in    *)
(* any process, after any restart, gets a client.  (oauth2.go:119-130 has  *)
(* no way to learn the ID of an account that exists.)                      *)
OrphanLocksOut ==
  [][policy.uniqueName =>
       \A n \in Names : Orphaned(n) =>
         Orphaned(n)' /\ \A c \in Calls : NameOf[c] = n => pc'[c] # "ready"]_vars

(* A database that cannot be reached at the first use costs the process    *)
(* its handle: calls that come after the database is back fail as well,    *)
(* until the process is restarted.  (db.go:36-40: dbOnce is done although  *)
(* InitDB panicked.)                                                       *)
PoisonedUntilRestart ==
  [][\A p \in Procs :
       once[p] = "done" /\ db[p] = "nil" =>
         \/ once'[p] = "new" /\ \A c \in Calls : ProcOf[c] = p => pc'[c] = "idle"
         \/ /\ once'[p] = "done" /\ db'[p] = "nil"
            /\ \A c \in Calls : ProcOf[c] = p => pc'[c] # "ready"]_vars

(* Every call comes to an end: those that wait on dbOnce are released by   *)
(* the one that runs InitDB even if it panics.  (db.go:36-38.)             *)
CallsSettle ==
  \A c \in Calls : (pc[c] = "newDB") ~> (pc[c] \in {"ready", "panicked", "idle"})
==============================================================================
