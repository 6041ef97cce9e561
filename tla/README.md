# A TLA+ verification of kweaver-go-lib

kweaver-go-lib is a Go library that services link in: an audit log shipped to
Kafka, an OAuth client with an account of its own, helpers for Kubernetes
objects, localised HTTP errors, token introspection, and smaller utilities.
It has no main program.  What can go wrong is in the package-level state that
all goroutines of a service share (channels, `sync.Once`, maps, slices handed in
by callers), and in the external services whose answers may be late or lost.
The modules here model that state and those services; the data they carry
(texts, URLs, SQL, JSON) is abstracted to what the properties tell apart.

`PROJECT.json` has the machine-readable side: runs, the source lines of every
definition, mutants, findings, hazards and theorems.

To check a run: `tlc -config Audit_order.cfg MCAudit`; to check the proofs:
`tlapm AuditPipelineProofs.tla`.

## 1. Inventory

| Component (source) | State | Operations | What is hard |
|---|---|---|---|
| Audit pipeline (`audit/audit.go`, `mq/mq.go`) | channel of 1000 records, producer, one handler goroutine per `Init` | `Init`, `NewInfoLog`, `NewWarnLog`, `NewWarnLogWithError`; handler: connect, take, send, retry | callers block on a full channel; retries of sends whose answer was lost; order; a crash loses memory |
| Internal account (`oauth/oauth2.go`) | table `t_internal_app`, accounts at user-management | `NewOAuth2HTTPClient[WithOptions]`: select, create, insert | two replicas at once; a failure between create and insert |
| Database handle (`db/db.go`) | `dbOnce`, `db` | `NewDB`, `InitDB` | a panic inside `sync.Once` |
| Kubernetes client (`kubernetes/*.go`) | the caller's option slices and objects; objects at the API server | Create, Get, Update, Delete of Deployments, Services, Ingresses, DaemonSets | `append` to a slice that others use; retried updates; lost answers |
| Locale files, error table, languages, replies (`i18n/i18n.go`, `rest/errors.go`, `rest/common_errors.go`, `rest/language.go`, `rest/server.go`) | `iLocalizer`, `allErrs`, `Languages`, `DefaultLanguage` | `RegisterI18n`, `Translate`, `Register`, `SetLang`, `NewHTTPError`, `With...`, `ReplyOK`, `ReplyError` | any order of loading and registering; every mistake ends the process (`Fatalf`), at start or in a request; `SetLang` during requests |
| Token introspection (`rest/hydra.go`) | none; one HTTP client | `Introspect`, `VerifyToken` | late answers, missing fields (panic), revocation; its visitor types meet those of `audit.TransforOperator` |
| HTTP client (`rest/http_client.go`) | connection pool; the caller's `queryValues` | `Get`, `Post`, `Put`, `Delete`, `Patch` and their `NoUnmarshal` forms | `generateURL` writes into the caller's map; a body that breaks off; clients without a limit of time |
| Distributed IDs (`did/did.go`) | the sonyflake generator | `init`, `GenerateDistributedID` | machine ID of 16 bits from `POD_IP`; restarts; clocks set back; sequence overflow |
| Tracing (`observability/observability_trace.go`, `observability_setting.go`, `middleware/middleware.go`) | global provider and propagator; open spans; the exporter's queue | `InitTraceProvider`, `Start...Span`, `EndSpan`, `TracingMiddleware`, header injection and extraction | which parent a span has, across services; a full queue blocks request goroutines; a provider set late |
| Tags (`common/tags.go`) | a database column | `TagSlice2TagString`, `TagString2TagSlice`, `TagSliceTransform` | round trips |
| AES cipher (`crypto/aes.go`, `crypto/cipher.go`) | a key | `Encrypt`, `Decrypt` | padding arithmetic, keys of any length |
| OpenSearch client (`rest/opensearch_client.go`) | a shared backoff | `NewOpenSearchClient`, `CheckConnection` | one backoff for all requests |
| RSA and haitai ciphers, times | none | conversions | none |
| Metrics, logs and attributes, logger | global providers and logger | set-up | none |

How they interact: a handler of a service calls `VerifyToken`, whose visitor
becomes the operator of the audit records it logs; records wait in the channel
until the handler goroutine has written them to Kafka; when anything fails the
handler answers with an `HTTPError` in the language of the request.  It calls
other services with the HTTP client, which sends the trace context that
`StartServerSpan` or the middleware found in the request.  At start the service loads its locale files, registers its error codes, opens the
database and asks for its internal account.

What makes each component correct is the list of properties in section 3.

## 2. Modules

| Module | What it is |
|---|---|
| `AuditDelivery` | abstract specification: at-least-once delivery with crashes, records taken in the order of acceptance and as many under way as there are hands |
| `AuditPipeline` | the audit package, Kafka and the sarama client |
| `AuditPipelineProofs` | safety of `AuditPipeline`; it implements `AuditDelivery` |
| `InternalAccount`, `InternalAccountProofs` | the account call with the database handle; safety |
| `Workloads`, `WorkloadsProofs` | Kubernetes objects and option slices; safety |
| `ErrorRegistry`, `ErrorRegistryProofs` | locale files, error codes and answers; safety |
| `Visitor`, `VisitorProofs` | token introspection and audit operator; safety |
| `DistributedID` | IDs of pods that restart, and the generator's environment |
| `HttpClient`, `HttpClientProofs` | calls that share query values, and what they return; safety |
| `Tracing`, `TracingProofs` | spans, contexts and the exporter's queue in services that call one another; safety |
| `Tags`, `AESCipher` | pure functions of `common/tags.go` and `crypto/aes.go` |
| `StoredFields` | fields that a service stores with them, and loads again |
| `UtilityProofs` | safety of `DistributedID` and `StoredFields`, and what the functions of `Tags` and `AESCipher` return |
| `MC...` | values of the constants for TLC |

`AuditPipeline` is composed with its abstraction by `INSTANCE AuditDelivery`, where the
channel is the queue and the records that handlers hold are those under way;
`InternalAccount` composes `oauth` and `db`; `Visitor` composes `rest/hydra.go`
and the operator type of `audit`; `ErrorRegistry` composes `i18n` and `rest`;
`Tracing` composes `observability`, `middleware` and the header that
`rest/http_client.go` sends, in several processes; `StoredFields` composes `Tags`
and `AESCipher`.

Definitions with the comment "A bug:" are mutated forms that no behaviour uses.
They are what `PROJECT.json` lists under `mutants`: put in place of the
definition they follow, each breaks the property it is listed for.

### AuditPipeline

`chan`, `hpc`, `held`, `tries` are `auditLogChan`, the place of each handler
goroutine, the message it is sending and sarama's failed attempts in one
`SendMessage`.  `NewLog`/`Enqueue` are the two halves of a call: building the
record, and the blocking `auditLogChan <- log` at audit.go:158, where callers are
served in any order.  `InitAudit` is `Init`: it starts a handler only when the
process is not a unit test and the queue is Kafka, but callers send in every
mode.  `ConnectOk/Fail/Wake` is the endless connecting, `Receive` takes a
record and gives it its ID, `SendAcked`, `AttemptFailed`, `SendLost`,
`SendAckLost`, `SendLate`, `SendWake` are what an attempt can come to and the
loop of `sendLog` around it.  With `Net.MaxOpenRequests = 1` there is one attempt
at a time; one whose answer is lost may have been written (`SendAckLost`), and one
that the client gave up on may be written later (`LateAppend`).  `Crash` empties
the memory and starts the process again.

### InternalAccount

`once`, `db` are `dbOnce` and the handle of each process; `pc` goes through
`NewDB`, the SELECT, the creation and the INSERT.  Every one of these may fail,
and the last two may be done with the answer lost.  `policy` leaves open what the
repository does not tell: whether user-management or the table refuses a
duplicate name.  `Fold` is the collation of the name column, which may take
different spellings as equal.

### Workloads

`spare[s]` says whether the array behind option slice `s` has room after its last
option; if so `append` writes the namespace option into it (`slot[s]`) and all
calls with `s` see it, otherwise the call has an array of its own.  Options are
applied one by one (`ApplyOption`), so other goroutines get between the append
and the reading of its slot.  `Get`, `StartUpdateDaemonSet`, `UpdateDeploy`,
`UpdateOk`, `UpdateUnanswered`, `UpdateFails` follow an object that was read, changed
in place and sent, again after a failure if the caller wishes.  `edits` and `past`
are history: which versions an object descends from.

### ErrorRegistry

A text is abstracted to its language.  `RegisterI18n`, `LoadFile`, `LoadFileFails`,
`CheckLanguageMap` load one directory; `Register` registers one list of codes;
`AddLanguage` is the application's write to the exported map `Languages`;
`SetLang` may come at any time.  A request is `BeginRequest` (or
`BeginWithLanguage`, a language put in the context by the application), then
`NewHTTPError`, `ReplyInternal`, `WithDescription`, `WithSolution`.
`Fatalf` is `status = "stopped"`; `culprit` is history: what a request stopped for.

### Visitor

`VerifyToken` sends the request, `Answer` is the service's answer with any set of
its fields, `ReturnVisitor`, `IntrospectFails` and `IntrospectPanics` are the ways
a call ends.  `Read` is the set of fields that the early returns of `Introspect`
let it read.  `LogAudit` applies `TransforOperator` to the visitor.  `Revoke` may
come at any time; `fresh` is history: the token was active when the call began.

### DistributedID

An ID is a time, a sequence number and a machine ID; `Start` is the package's `init`,
`StartPanics` its panics (no address, an address that does not parse, low bits 0).
`Call`, `NextID`, `ToID` are `GenerateDistributedID` outside and inside the generator's
mutex: the generator (sonyflake 1.3.0) is external, and modelled because what this
package promises rests on it: it never follows a clock backwards, and when the numbers
of a tick are used up it borrows the next tick and sleeps with the mutex held.  Each pod has
a clock of its own; `Tick` and `SetBack` change it, `Crash` ends a process.
`issued` is history: every ID returned, with its pod and process.

### HttpClient

`pc` goes from the parsing of the URL through the writes of `generateURL` into the
caller's map, one key at a time (`WriteKey`), to `Encode`, `Send` and the ways an answer
may come: not at all, whole, or cut off in the body.  `Timeout[c]` is that of the client a
goroutine calls with: 600 s with `NewHTTPClient`, what the program asks for with the
`WithOptions` forms (0, the zero value of the options, and anything below it is no limit), and
whatever a client brings that `NewHTTPClientWithRawClient` wraps.  `TimesOut` needs a limit.
Every request carries the caller's context: `ContextEnds` is the caller's doing, `Cancelled`
what net/http makes of it, before an answer and while the body is read.  Two goroutines in one Go map
are a data race: `ConcurrentMap` is the runtime's fatal error, `WriteLost` a write that
is lost.  `wrote` is history: which parameters calls wrote into a map.  `httpDo` and
`httpDoNoUnmarshal` end in `Unmarshal`, `ReadFails` and `NoUnmarshal`.

### Tracing

A context is the span it holds.  `head` is the context in the header of a request,
`request` the one in `c.Request`, `open` the spans a goroutine has started.
`StartServerSpan` takes the header, `StartSpan` (the internal, consumer and producer
spans) the context at hand, `Call` sends it on.  Whether a service has a propagator or a
provider, whether a route has the middleware, and whether a call was made with the context
or with `context.Background()` is left open.  `EndSpan` waits in `Enqueue` while the
provider's queue is full; `Take` and `Export` are the SDK's batch processor, which
exports a batch once, whatever comes of it.  `base` and `due` are history: the context in
which a request was made, and the recorded spans that no export has taken.

### Tags, AESCipher, StoredFields

The conversions of tags work on sequences of characters: `Split` reads one after the other
(`Scanned` is one turn of its loop), `TagSlice2TagString` joins one tag after the other, and
`TagSliceTransform` is the sorted list of the trimmed tags, of which there is one.  The cipher
works on sequences of bytes; the stored blocks are kept as their bytes with the folded key they were
made with, and `generateKey` folds one byte of the configured key after the other onto its `Place`.  `encryptECB` pads with zero bytes,
always at least one; `decryptECB` drops as many bytes as the last one counts, and then zeros.
`StoredFields` gives them a life: tags are cleaned or not, saved, loaded and saved
again (`FieldsSpec`); a text is written by this library, or by a program that pads as PKCS #5 does,
or not at all, and read after the key was changed or the column cut off.

## 3. Runs

| Run | Shows | Bounds |
|---|---|---|
| `audit_order` | `FirstDeliveryOrder`, `OffModeBound`, `EventuallyOnTopic`, `CallerReleased`, `TypeOK` | 3 callers of 1 record, channel of 1, 1 handler, 1 retry, 1 crash, any number of outages |
| `audit_handlers` | `Accounted`, `DedupKey`, `LossBound`, `ImplementsDelivery` | 4 callers of 1 record, 2 handlers, 1 crash |
| `account_safety` | `ReadyCredentials`, `Agreement`, `OrphanLocksOut`, `PoisonedUntilRestart`, `CallsSettle`, `TypeOK` | 3 calls in 2 processes, 2 spellings, 3 accounts, any number of restarts |
| `workloads` | `NamespaceForced`, `BuiltAsAsked`, `NoLostUpdate`, `TypeOK` | 2 workers, 2 clients, 2 slices, 3 writes |
| `registry` | `LanguagesAgree`, `FoundAtStart`, `AnswerLanguage`, `TypeOK` | 3 languages, 2 modules, 12 pairs of directories, 1 handler |
| `registry_missing` | `CompleteErrors` violated | the same |
| `visitor` | `AdmittedWhileActive`, `Attribution`, `CallReturns`, `TypeOK` | 5 tokens, 1 request at a time |
| `visitor_audit` | `RealNameIsUser` violated | the same |
| `ids` | `UniqueIDs`, `Ascending`, `CallReturns`, `TypeOK` | 2 pods of 2 goroutines, 3 addresses, 2 starts, 4 calls, 2 IDs in a tick, 3 ticks |
| `http` | `QueryAsAsked`, `AnswerOrError`, `CallReturns`, `TypeOK` | 2 goroutines with any number of calls, 1 map, 2 parameters, 2 queries, 1 client with a `Timeout` and 1 without |
| `codecs` | `TagsComeBack`, `SecretComesBack` | 2 tags of 3 and 2 characters, 3 loads; texts of 0 to 4 bytes in blocks of 2, 6 keys |
| `tracing` | `OneTrace`, `SpansKept`, `TypeOK` | 2 services, 3 goroutines (1 that calls, 2 alike that are called), 2 spans alive at a time, queue and batch of 1, 1 fault |

Why the bounds are enough.  A channel of capacity 1 is full after one record, and
two records of two callers are the fewest that can be put out of order or be taken
for each other; 1 retry gives both a retry inside `SendMessage` and one of
`sendLog`'s loop; 4 callers fill the channel and two handlers with one to spare.
Three accounts let two calls that raced and a third that came later all differ; two
processes are the fewest that do not share `dbOnce`.  Two goroutines are enough for
one to overwrite the other's slot, and three writes for a read, an update in
between and a late update.  One language beyond the built-in ones is enough to be
added late; the pairs of directories hold each kind of mistake once, and one
handler is enough because handlers share only what `SetLang` writes.  Requests
share only the tokens, and `Revoke` comes between any two steps of one.
Of the three addresses two agree in the low 16 bits and one is 0 there; two IDs in a tick
make the second call of a tick borrow the next, and two starts put two processes
into one pod or into two.  Two goroutines are enough for a race in one map; one query
overwrites what the caller gave, the other adds to it and leaves behind what the first does not
name.  Of the two one has a client with a `Timeout` and the other a client without, since what a
client is to a call is only its limit.  Four characters (space, quote, comma and another) are all that the
conversions of tags tell apart; texts below, at and above one block and at two, with last
bytes that count less, as much and more than there is, are all cases of the padding; the keys
are shorter than, as long as and up to twice the block, with pieces that cancel.  In
`tracing`, two spans are the fewest that can have each other as parent, in one service or
two, and with a queue of one a second recorded end has to wait; a caller that gave up on
one goroutine calls the other while the first goes on; the caller's service may set its
provider a second time, also between two nested spans.  Longer chains of calls, more
spans and several goroutines that wait for room are left to the theorems.  For the safety properties the theorems of
section 5 remove all these bounds but those the module's constants name.

Deadlock is checked everywhere but in `registry` and `registry_missing`, where
the process may stop for good (`Fatalf`), and in `codecs`, where a field's life is over when
it was read.

### What the properties say

- `FirstDeliveryOrder`: when the first copy of a record is written, fewer records accepted
  earlier are still to be written than there are handlers, but for those that a crash
  dropped.  With one handler, as in the run, there are none: the comment at audit.go:20
  claims it.  With several a record overtakes those the others are still sending, and no more.
- `ImplementsDelivery`: with two handlers, outages, retries, late writes and a crash every step
  is one of `AuditDelivery` or changes nothing that it speaks of.
- `DedupKey`: retries leave copies on the topic; `out_biz_id` is drawn before the
  first attempt, so it tells copies from records.
- `Accounted`, `LossBound`: only a crash loses records, and no more than the channel
  and the handlers hold.
- `OffModeBound`: in unit-test mode, or with another queue, nothing drains the channel; the
  1001st caller blocks for ever.
- `OrphanLocksOut`: if user-management refuses duplicate names, a failure between
  creating the account and inserting its row locks the name out for good.
- `PoisonedUntilRestart`: `sync.Once` is done after a panic: a database that was down at
  the first use leaves the process without a handle.
- `Agreement`, `ReadyCredentials`: what still holds in spite of the
  missing lock between SELECT and INSERT.
- `NamespaceForced`: the namespace of an object is its client's, except that clients that
  share a slice with room may get each other's.
- `BuiltAsAsked`, `NoLostUpdate`: changing the caller's object in place is repeatable
  (with slices that share a whole array or nothing; overlapping ones are left out),
  and an update never overwrites a version it did not descend from.
- `LanguagesAgree`: the random order of Go's map iteration does not matter to the check of
  the languages.
- `FoundAtStart`: apart from three cases (never registered, public, added late), no request
  stops the process: `Register` has looked at every text before.
- `AnswerLanguage`: `SetLang` during a request does not mix languages in an answer.  A request
  that has a language of its own in the context and another in its header is not among those
  of the run.
- `AdmittedWhileActive`, `Attribution`, `CallReturns`: who is admitted and named, and that
  the call ends, in an error, a visitor or a panic.  An unknown visitor type becomes the empty one
  and its visitor is admitted; `Attribution` says that it is never taken for a known kind, and
  that a missing field never passes for an empty one.  That a missing field panics, instead of
  being an error, no property forbids.  (The clause of `Attribution` about users has no case today: no path
  gives the operator type of a user, see the findings.)

- `UniqueIDs`: equal IDs come only from two addresses with the same low 16 bits, or from two
  processes with one machine ID of which the later did not find its clock past the time of the
  first ID; never from two goroutines.
- `Ascending`: the IDs of a process grow, also when its clock is set back.
- `CallReturns` (`ids`): neither the sleep with the mutex held nor the end of the 39 bits
  of time (an error) leaves a caller behind.
- `QueryAsAsked`: a request carries the parameters of its own URL, and nothing but what the
  caller or a call with the same map put there, unless two calls were in the map at once.
- `AnswerOrError`: no error means the whole answer; an error may come with a code, and
  with a part of the body from the `NoUnmarshal` methods.
- `CallReturns` (`http`): a limit of the client covers the body, and so does the end of the
  caller's context: either is enough for a call to return, whatever the service does.  A call
  with neither may wait for ever, and the run has such calls: the property says nothing of them.
- `TagsComeBack`: only a comma, or a quote at an end, changes a tag, into pieces of itself,
  and only once.
- `SecretComesBack`: what the library encrypted it reads back, whatever the length, but for
  zero bytes at the end; what another program padded as well; `Decrypt` panics in three cases only.
- `OneTrace`: a span's parent is the innermost recorded span around it, or the caller's, across
  services that record nothing, abandoned calls, restarts and providers set late.
- `SpansKept`: no span is dropped or queued twice until an export takes it or the process
  ends; nothing shuts a provider down, so what waits then is lost.

### Findings

- `registry_missing`: errors.go:61 tests the `ok` of errors.go:55 again, not one of the
  lookup at errors.go:60.  The stop at errors.go:62, "errorCode %s missing lang: %s", can
  never happen, and an error with empty texts is sent instead.
- `visitor_audit`: hydra.go:72-78 makes the visitor type of a real-name user
  `VisitorType_User`; audit.go:125 knows only `VisitorType_RealName`.  The audit records of real-name
  users have an empty operator type.

## 4. Fairness

- `audit_order`: a goroutine that can step does (weak fairness of `InitAudit`,
  `ConnectWake`, `Receive`, `SendWake`: timers fire and the scheduler runs every
  goroutine).  Callers compete for the room in the channel, which Go serves first come
  first served: strong fairness of `Enqueue`.  Connecting and sending succeed if they are possible
  again and again: strong fairness of `ConnectOk` and `SendAcked`.  This says that Kafka,
  while it is up, does not fail every attempt; the code tries for ever.  Both properties
  assume `<>[]brokerUp`.  Nothing is assumed of failures or crashes.
- `account_safety`: weak fairness of the step of each call: the goroutine runs, its HTTP
  client has a timeout (600 s: oauth2.go:77, http_client.go:92-99) and the driver reports a broken connection.  Calling and
  restarting are not fair.
- `visitor`: weak fairness of the ends of a call: `http.Client.Timeout` of 600 s
  (http_client.go:47-52, 78) covers the reading of the body.  The service is not fair.
- `ids`: weak fairness of `Tick` (time passes, also after a clock was set back) and of
  `ToID`; strong fairness of `NextID`, since Go's mutex does not starve a waiter.  Pods need not
  live.
- `http`: weak fairness of each goroutine's own steps; of `TimesOut`, which exists only for a
  client with a `Timeout` above 0 (http_client.go:48-50 and 92-99 set 600 s; 54-82 take what the
  caller asks for, and 84-90 any client); and of `Cancelled`, which exists only once the caller's
  context has ended (247-250).  Both are net/http's promise for its own transport.  It does not
  hold while an OAuth2 client fetches its token, which is not modelled: the caller's context is
  not asked then.  Neither the service nor the end of a context is fair.

## 5. Proofs

Most theorems are `Spec => []P` or `Spec => [][A]_vars` for every value of the constants
that satisfies the module's named assumption (types, finiteness of the sets that are
counted, and that the "none" values are not members); three are about functions and hold for
every argument.  Where the code loops, the modules have recursive functions, not recursive operators.

- **AuditPipeline**.  `TypeCorrect` needs that a caller that is sending has begun at
  least one record.  `DedupKeySafe` and `AccountedSafe` come from `RecordInv`: the channel is
  the end of `accepted` (with a handler taking from its head), every record is accepted
  once, only accepted records have requests, and a record has one ID wherever a request
  of it is: in hand, late, or on the topic.  `DedupKey` alone says nothing of the requests
  that are not written yet, so it is not inductive.  `FirstDeliveryOrderSafe` holds for any number of
  handlers.  Its `WindowInv` says that every record taken from the channel is in hand or settled
  (lost or on the topic), and that a request in hand, late or written found all but fewer records than
  there are handlers settled before it.  A free handler takes the next record while at most
  the other handlers hold one, which bounds the window, and from then on it can only shrink.
  `DeliveryImplemented` maps every step to one of `AuditDelivery` or a stutter, for any number of
  handlers too; that a late request never belongs to a record which is still in the channel
  comes from `RecordInv`.  `OffModeBoundSafe` counts `Capacity` records for every crash and those in
  the channel; `LossBoundSafe` counts the records of a sequence and those that handlers hold by
  surjections onto them.
- **InternalAccount**.  `AccountInv`: rows name accounts; a call about to insert has an
  account of its name; a client that was handed out has a row of its own; if
  names (or rows) are unique, no two accounts (rows) share one.  `Agreement` and
  `ReadyCredentials` follow; the two action properties are proved from it as well.
- **Workloads**.  `NamespaceInv`: what is in a slot was written there, and a call that
  builds from a shared array finds the slot written.  `EditInv`: a stored object's edits are
  all of its key's history, and so are those of any copy with the stored version; the
  API server's test of the version does the rest.  `BuiltAsAskedSafe` needs `BuiltInv`: while options are
  applied, those before the next one are in the object, once each and in order; in
  `UpdateDaemonSet`, where the caller's object may hold parts of an earlier try, that holds as
  soon as one part option was applied, because there a part replaces what was there before.
  Options are counted, not filtered, so that no lemma needs induction over sequences.
- **ErrorRegistry**.  `LanguagesAgreeSafe` rests on a lemma about finite sets: maps of
  equal size, one contained in the other, are equal.  `StartInv`: a registered code has
  its three texts, parsable, in each of its languages.  `AnswerInv`: a default of the time
  of the request is in `seen`, and the languages only grow.
- **HttpClient**.  `MapInv` = `Origin` (what is in a map was given or written), `OwnThere`
  (a call that is alone in its map finds there what it has written so far), `AsAsked`
  (`QueryAsAsked` of one call).  `AnswerOrErrorSafe` is inductive with the types.
- **Visitor**.  `FreshInv`: while the token is active, and when an answer says it is, it
  was active at the call.  `OperatorInv`: the answer was whole, and visitor and operator are functions of the
  token's claims.
- **Tracing**.  The goroutines, services and spans are any number.  `Innermost`, the context a reader of
  the trace expects, is a choice of the largest index in a set; the lemmas `WithinStep` and
  `WithinSame` say how it changes when a span is started or ended.  `LinkedInv` is what makes
  `OneTrace` inductive: not only recorded spans but every open one has the parent that `OneTrace` asks for,
  because a span that is not recorded hands its parent on; and the context in which a request was
  made is the header's if the service propagates, the request's own context that one or none.  `KeptInv` adds to `SpansKept` that the shares are disjoint one by one: no span is
  open in two goroutines, twice in one or twice in a queue, and a span is in the process of its
  provider, so that a process that ends takes exactly its own.  The module's assumption says besides types
  that "none" is not a span.
- **DistributedID** (in `UtilityProofs`).  `TypeCorrect` is proved in two parts: the sets of the variables, and
  what holds of each pod (who stamps holds the mutex).  `IDInv` = `Exclusive` (an address and
  a process belong to one pod), `Alone` (since its start a running process alone returns IDs with its
  address), `Behind` (its generator is past every ID it made), `NotBelow` (an ID is not
  older than the earliest reading of the clock), `InTurn` (of two processes on one address the
  second started after the last ID of the first), `Ascending`.  A lemma, `AdvancedForward`,
  says that the generator only moves forward.
- **Tags** (in `UtilityProofs`).  What a loop computes is proved from its turns: `LoopExists` says that a
  recursive function with a value for every turn exists, so that it satisfies its equation, and `UpTo` is
  induction up to a bound, from the well-foundedness of the numbers as a theorem about sets.  On them rest
  `SplitOfConcat` (two strings around a separator are split one after the other), `SplitCutUp` (the pieces
  cut the whole string up), `StringPieces` (the stored string falls into the pieces of the quoted tags, in
  their order), and `TrimQuoted`, `TrimTwice`, `PieceInside` about the quotes.  `TagsRoundTrip` puts them together
  for any list of tags.  `TagInv`, which says that the column is the string of what was saved and that
  what was loaded came of it, carries it over any number of loads (`TagsComeBackSafe`): `TagsComeBack` alone
  says nothing of a column that was not loaded yet.  Strings are strictly and totally ordered (`LessTransitive`, `LessStrict`, `LessTotal`), so a
  finite set of them has a sorted list (`CleanedTags`), and only one (`CleanedOnce`): the choice in
  `TagSliceTransform` is none, and cleaning is idempotent.
- **AESCipher** (in `UtilityProofs`).  `FoldParity`, by induction over the bytes of a key, and `PlaceOf`, about
  remainders, give `AlikeFold`: `Alike` is exactly when two keys open each other's blocks.  `PaddedBack`
  says for each writer what `decryptECB` makes of its padding; it needs `PaddedLength`, that there is
  always a zero byte at the end, so that the last byte never counts bytes of the text.  `SecretInv`: until the column is cut off, its
  blocks are the padded text under the key it was encrypted with, and a result is one that `Decrypt` may
  return for them.  `SecretComesBackSafe` follows for texts and keys of any length and blocks of any size.

Only model-checked:

- the liveness properties `EventuallyOnTopic`, `CallerReleased`, `CallsSettle` and the three
  `CallReturns` (fairness and ENABLED);
- what is listed under "violated".

## 6. Not modelled, and the plan

Not modelled, with reasons:

- `rest/opensearch_client.go`, `logger/`, metrics, logs and attributes of `observability/`:
  configuration of libraries; the mocks are generated.
- `crypto/rsa.go` calls the standard library and logs its errors; `crypto/haitai.go` asks an
  external service and ends the process (`Fatalf`, haitai.go:73, 77, 105, 109) on any error.
- CBC in `crypto/aes.go`: `NewAESCipher` always sets ECB.
- `common/time.go`: its layout ends in ".999", which drops zeros at the end, so the texts of
  times differ in length; no state.
- Kubernetes: `ListDeploy`, and the reading and watching of pods, which change nothing.
- HTTP: headers, methods, and pairs of a URL's query that do not parse.  The token source of an
  OAuth2 client, with its cache and mutex, belongs to golang.org/x/oauth2.
- Tracing: attributes, names and status of spans, sampling.  The propagator is set by the
  application; the model leaves open whether it is.  A queue size of 0 is left out.
- `GetXLang` is a table lookup after a library's matcher; a template that fails on the data
  it is given stops a request like any other failure of `Translate`, but depends on the data.

The modules were written in the order of the damage a mistake does: audit records, accounts,
cluster objects, answers, visitors, IDs, calls, stored fields, traces.  Every safety property of
the runs has its theorem.  What would come next is a composition: a service that verifies a token, logs and
crashes, in which every record on the topic names a visitor who was admitted; its theorem would
follow from `AttributionSafe` and `AccountedSafe`.
