# FleetControl: specifications, model checking and proofs

TLA+ models of FleetControl's Control Plane API (`src/api`), Fleet Operator
(`src/operator`) and command line `fleetctl` (`src/fleetctl`). TLC checks them on
small instances; TLAPS proves the main safety properties for every value of the
constants. `PROJECT.json` ties every definition to the lines it models,
lists the runs, the mutants that show what each property excludes, the hazards
and the findings.

## 1. The system

| Component | State | Operations | Talks to |
|---|---|---|---|
| Satellite routes (`api/internal/satellite`) | table `satellites` | create, list, get, update, delete, heartbeat | PostgreSQL, one or two statements per request, no transaction |
| Authentication (`api/internal/auth`) | none of its own: JWTs are held by clients; the signing secret is shared by the instances | login, issue, parse, middleware, role check | PostgreSQL (login), every guarded route |
| User administration (`api/internal/user`) | table `users` | create, list, delete | PostgreSQL |
| HTTP wiring (`api/internal/httpserver`, `api/gen/server.gen.go`) | none | which route passes which middleware; binding of path ids | all handlers |
| Startup, pool, health (`api/cmd/server`, `api/internal/db`, `api/internal/health`) | configuration, connection pool | load, connect, ping, listen; acquire and give back | PostgreSQL, every handler |
| Fleet Operator (`operator/internal/controller`) | informer cache, work queue; the object itself lives in the API server | Reconcile | Kubernetes API server |
| fleetctl (`fleetctl/...`) | configuration file (server, token) | login, health, satellite and user commands | the Control Plane over HTTP |
| Docs, logging, generated client and models | none | static output, marshalling | |
| Agent, charts, Argo CD, observability | empty directories at this commit | | |

At this commit the operator does not call the Control Plane (that is announced for
a later phase in a comment of `Reconcile`), so the two are modelled apart.

What is hard:

* **Check, then act.** `Service.Update` and `Service.Delete` read a row, decide who
  owns it and write with a second statement. Nothing is locked in between.
* **Late writes.** A statement whose request was cancelled, or whose API process
  died, may still commit, even after the client was told 500.
* **Statement time.** `NOW()` is taken when a heartbeat's statement starts, the row
  is written when its lock is granted.
* **Stale authority.** The middleware believes the token alone. Role and existence
  of the user are those of the time of login; the clocks of the instances differ.
* **One pool for all.** Login, the routes and the health check wait for the same
  connections; login's query ignores that its client is gone, list holds a connection
  while it reads, update and delete acquire twice.
* **Judged once.** A satellite request passes the middleware and then runs for as long
  as it takes; its user, its token and even its process may be gone before it writes.
* **Login is several steps**: query, bcrypt, issue. The user may go in between.
* **Stale cache.** `Reconcile` reads the informer's cache and writes the whole status
  back; leader election is off by default; a write is itself an event.
* **Failure of one step**: retries by error, lost answers, restart of the manager.
* **A file without a lock.** fleetctl's `Save` truncates the configuration and then
  writes it; `login` loads it before and again after its request. Another command may
  read or write it in between, and the process may be stopped there.
* **A question over HTTP before the act.** `fleetctl satellite delete` asks who owns the
  satellite and then deletes it; request or answer may be lost or late, and the user
  tries again.

What makes each part correct: the satellite routes behave as if each request took
effect at one instant; an operator-owned row is moved or removed only under the
operator's mark; a deleted id stays deleted; a heartbeat is not undone. Whoever acts
on a guarded route was registered here in that role; only admins change users; a
deleted user's tokens die. Every change of a satellite was asked for by such a user. The
server listens only with a sound configuration and a database; no connection is lost; the
health check answers, and truthfully; nobody waits for ever for a connection. The operator never undoes another's write, does not feed
on its own writes, and in the end every object that exists is Ready. fleetctl sends a
token only to its issuer, never asks for the removal of an operator's satellite, reports
a delete only when it is done, and always ends.

## 2. Modules

| Module | What it is |
|---|---|
| `SatelliteTypes` | rows, requests and answers of the satellite routes |
| `SatelliteContract` | what a client of the satellite routes may rely on: `SatelliteService` keeps it, `Fleetctl` assumes it |
| `SatelliteAtomic` | abstract specification: each request is one atomic step, or fails, or is detached from its answer |
| `SatelliteService` | the handlers, statement by statement |
| `SatelliteProofs` | proofs about it, its refinement of `SatelliteAtomic` included |
| `ControlPlane` | the composition of `AccessControl` and `SatelliteService` along `NewRouter` |
| `ControlPlaneProofs` | proofs about it |
| `Pool`, `PoolProofs` | one API process from start to end and its connection pool; proofs about it |
| `Principal` | constructors and validation of principals |
| `AccessControl` | users table, login, tokens, middleware, user routes |
| `AccessProofs` | proofs about it |
| `Operator` | `SatelliteReconciler` against a versioned API server |
| `OperatorProofs` | proofs about it |
| `Fleetctl` | the commands, the configuration file, and Control Planes as fleetctl sees them |
| `FleetctlProofs` | proofs about it |
| `MCSatellite`, `MCAccess`, `MCControlPlane`, `MCPool`, `MCOperator`, `MCFleetctl` | instances for TLC; what the documents say of the answers |

### SatelliteService

One *slot* per request in progress. `Receive` is a request past routing and
authentication. `RejectMalformed` is an id that does not bind or a body that does
not decode. `Create`/`CreateConflict`, `List`, `GetByID` are one statement.
`CheckAbsent`, `CheckRefused`, `CheckPassed` are the first statement of update and
delete, `SetRegion`, `SetRegionGone`, `DeleteRow` the second. `BeginHeartbeat` fixes
`NOW()`, `UpdateHeartbeat`/`HeartbeatGone` write. `StatementFails` is any error of
PostgreSQL. `Abandon` is a handler that stops waiting for a write: the slot is
*detached*, and the write commits later, or `Release` drops it. `Crash(X)` is the
death of an API process that serves the requests in X, with any subset of their writes
surviving. The header test that
marks a request as the operator's is the Boolean `fromOperator`. Code 0 is a
connection closed without an answer. `used` remembers the ids handed out:
`gen_random_uuid()` does not repeat. `created_at` is left out. `standing` is what a client knows
of each satellite: unused, manual, operator or gone.

### AccessControl

Slots again, and *instances*: API processes with their own clocks (`Skew`). Login is
`LoginFound` (the query), then `LoginWrongPassword`, `LoginNoRole` or `LoginIssue`;
the middleware is `Unauthorized`, `Forbidden`, `Admit`; the user routes follow.
`TimelyClaims` and `ClaimsValid` are the two halves of the parser's validation (the
library's `exp`/`iat` rules under the options the code sets, and
`Claims.Validate`). A signature is a Boolean, a bcrypt hash the password it was made
from, and a password over 72 bytes one that bcrypt refuses. `ledger` is history: who
was ever registered, as what, and when deleted. Foreign tokens are given, never ours.

### ControlPlane

`ControlPlane` extends `AccessControl`, where a request on `/satellites` ends as
"admitted", and instantiates `SatelliteService` (its stages as `spc`, its answers as
`sresp`) for what comes after. Both use the same slots and the same clock. `Enter` is the
middleware's `Admit` and the handler's `Receive` in one step; `Fall(i)` kills process *i*
on both sides; `Leave` ends a request; a statement that outlives its request goes on
alone until it writes or `Settle` drops it. `by` is history: for whom a satellite request
was admitted, and when that token was issued.

### Pool

One process: `Start(e)` is `main` in environment *e* up to `pgxpool.New` (`Load`,
`getEnv`, `NewJWTManager`), `Connected` the answered ping and the start of the listener,
`Stop` every end, from `log.Fatal` to a kill. A request has a *kind*: login, health check,
one statement, list, or pair (update and delete of a satellite: a check and a write). It
waits (`Acquire`), runs, perhaps reads rows (`RowsOpen`, `RowsRead`, `ScanFails`), and
gives its connection back; `CheckPasses` gives it back and waits anew. `Listens` says
what ends its context: nothing for login (`context.Background()`), the client's going for
the routes, also two seconds for the health check. `GivesUp` and `Interrupted` are a
context that ends in the queue and at a statement; the latter costs the connection
(`Discard`), which pgxpool closes and frees (`Replaced`). PostgreSQL goes, comes, answers,
fails or stays silent. Environment variables are reduced to what `getEnv`,
`NewJWTManager` and the parser of the DSN tell apart; PORT is left out.

### Operator

`hist[n]` is every version of object *n*; its length is the resourceVersion.
`Deliver` moves a manager's cache one version on and enqueues the name; `Pop` starts
`Reconcile`. `GetNotFound`, `GetFails`, `AlreadyReady` and `MarkReady` are what may
follow `r.Get`; `UpdateStatus`, `UpdateConflict`, `UpdateFails` and
`UpdateStatusUnheard` (done, but the answer is lost) what may follow
`r.Status().Update`. `Crash` forgets cache, queue and worker; a request already sent
becomes an orphan that lands later or is refused. `Restart` lists what exists. The
API server, informer and queue are external, modelled from what the controller
relies on: optimistic concurrency, events in order, no name in the queue twice, an
error means again. Other writers of the status may report any phase of the CRD. An
object that one of them makes `Ready` is left alone by `Reconcile`
(`satellite_controller.go:67-69`) and stays without `managedBy`, so no property says
that every Ready object carries the mark.

### Fleetctl

One process per command in progress. `Client` is `Options.Client` with its `Load`;
`RejectArguments`, `PasswordRefused`, `NotLoggedIn`, `LoadFails`, `NoAnswer` (the client's
timeout or an error of the connection), `StatusError`, `OutputFails`, `DeleteRefused` and
`SaveFails` are the ways a command may fail. `Request` sends the one request of most
commands; `AskOwner` and `DeleteOwner` are the two of delete. `Reload`, `Truncate` and
`Write` are the end of login, `os.WriteFile` being two steps. `Interrupt` is a process
stopped anywhere; its request may arrive all the same. Requests are served (`Serve`),
served without the answer coming back (`ServeUnheard`) or lost (`RequestLost`);
`Elsewhere` is what other users and the operator do to satellites. On the satellite
routes the Control Planes answer, and satellites come and go, as
`SatelliteContract` says and no more is assumed (`Outcomes`, `Lives`); on the others what
they may answer (`LoginAnswer`, `HealthAnswer`, `Unauthorized`, `UserAnswer`) is what the
handlers and the middleware of `src/api` answer, reduced to the status and the
token that fleetctl looks at. A token is named after the
server that issued it; it may have expired, so a 401 is always possible.

`satellite.go:97` also goes on to the DELETE when the answer to its question has no body
or no `managed_by`. `Handler.GetByID` always sends both, and the contract says so; towards
another implementation of the API `OwnedUntouched` is not claimed.

`crossed` and `fileCrossed` are history. A login is *crossed* when its second `Load` names
another server than its first (`root.go:71`): what it then saves pairs its token with that
server, and whoever reads the file while it is there inherits the history. When two logins
write after both have truncated, the end of the longer file may stay behind the shorter
one. It is the end of a token line, base64url without a colon, and `Load` skips it
(`runtime.go:69-71`), so the file is read as the last one wrote it; this takes tokens to be
longer than the addresses of servers, as JWTs are.

## 3. Runs

| Run | Bounds | What it shows |
|---|---|---|
| `satellite_routes` | 2 slots, 2 ids, 2 names, 2 regions, clock 0..1, an operator-owned row at the start, every route | `TypeOK`, `CheckStillValid` (the ownership decision still holds when the write runs), `Linearizable` (refinement of `SatelliteAtomic`), `OwnershipRespected`, `NoResurrection`, `HeartbeatKept`, `RegressOnlyByOverlap`, `KeepsContract` (every answer tells of the table as it is, satellites come and go as `SatelliteContract` says) |
| `access_routes` | 2 slots, 3 user ids, 2 names, lifetime 1, time 0..1, 2 tokens, 2 foreign tokens, a row with an unknown role, every route and refusal | `TypeOK`, `PrincipalSound`, `AdminOnly` |
| `access_revocation` | 2 slots on 2 instances whose clocks differ by 1 | `RevocationBound`, `FreshTokenAccepted`, `LockoutIsPermanent` |
| `control_plane` | 2 slots, 2 processes, 1 user who logs in, uses the satellite routes and is deleted, 1 satellite of the operator, a heartbeat, a marked and an unmarked delete, lifetime 1, time 0..1 | `PartsIntact` (the whole refines both parts), `ChangedByUsers`, `LastWritesBounded` |
| `pool` | 2 requests of every kind on 1 connection, a sound environment and one with each flaw, fairness | `TypeOK`, `NoLeak`, `ServesOnlyReady`, `HealthIsHonest`, `HealthAnswers`, `EveryRequestEnds`, `OnlyLoginsExhaust` |
| `operator_safety` | 2 managers, 1 object, 2 regions, 3 edits, 1 crash each | `TypeOK`, `NothingLost`, `OneWritePerEdit` (never a version on top of its own), `NoLostWork` (while an object is not Ready, every running manager will look at it again) |
| `operator_liveness` | the same with 1 region and 2 edits, fairness | `Settles` (every existing object becomes and stays Ready), `Rests` (the queues run empty) |
| `fleetctl_config` | 2 processes, 2 servers, 4 commands: login with and without `--server`, list, health, user create and list | `TypeOK`, `TokensStayHome` (a token goes only to its issuer, unless the login that saved the file was crossed) |
| `fleetctl_delete` | 2 processes, 1 server, 2 satellites, 3 commands: delete, get, create, login, good and bad arguments; fairness | `OwnedUntouched`, `DeletedMeansGone`, `Terminates` |
| `claim_delete`, `claim_malformed`, `claim_login` | as above | a violation each, see section 6 |

Why the bounds are enough to be of interest: every race here is between one request
and one other that changes the row, so two slots give all pairs and a detached write
occupies one of them; two instants are enough for a heartbeat to overtake another. One
connection for two requests is a pool at its limit: one holds, one waits. Two processes
let one die while the other serves. Two ids allow deletion and creation under the same name.
Three user ids allow the admin, another and one registered anew. Three edits allow
create, delete, create again, and a status write between two reads. Four commands allow
a crossed login, a command that uses what it left, and a login after it; three a delete
that is lost, tried again and raced by another. Slots and processes are symmetric; the three
runs with liveness use no symmetry. The bounds are `MaxTime`, `MaxTokens`, `MaxEdits`,
`MaxCrashes` and `MaxRuns`. The proofs do not depend on any of them.

Deadlock is checked except in the three `claim_` runs and in the operator's and
fleetctl's, where the system rests once the edits or commands are used up; that it rests
in the right state is `Settles`, `Rests` and `Terminates`.

### Fairness

`Operator`, `Fleetctl` and `Pool` have liveness properties. `Operator`'s `FairSpec` assumes
that the watch goes on (`WF` of `Deliver`), that a dead pod is started again (`WF` of `Restart`), that the
queue is first in, first out, so that a name in it is taken some time (`SF` of `Pop`:
a worker that alternates between busy and idle disables it again and again), and that
a call which is retried for ever is answered some time (`SF` of `Reconcile` and of
`UpdateStatus`; failures may come any finite number of times in a row). Nobody has to
edit, to fail or to crash. controller-runtime's rate-limited requeue and the Deployment
justify these; nothing is assumed of the order in which two managers run.

`Fleetctl`'s `FairSpec` assumes that a process which can go on does (`WF` of the steps of
each command): the user answers or leaves the password prompt, and the timer of the HTTP
client expires. Nothing is assumed of servers and network.

`Pool`'s `FairSpec` assumes of the process that timers fire, that a context which has
ended is obeyed (`WF` of `TimeIsUp`, `GivesUp`, `Interrupted`) and that a closed connection
is replaced (`WF` of `Replaced`); of pgxpool that it serves those who wait in turn (`SF` of
`Acquire`: a connection comes free and is taken by another again and again, but the queue
is first in, first out). Nothing is assumed of PostgreSQL or the clients. Two properties
carry what they need of them as a hypothesis: `EveryRequestEnds` that statements end,
`OnlyLoginsExhaust` that clients leave some time.

The rest of the API has no background work: a request is driven by its client, so the
properties of the satellite and user routes are safety properties and assume no fairness.

## 4. Proofs

All are checked by TLAPS to the last leaf, from the named assumptions on the constants
only (`NullAssumption`, `MaxTimeAssumption`, `RequestsAssumption`, `SeedAssumption`,
`AccessAssumption`, `SatelliteAssumption`, `OperatorAssumption`, `FleetctlAssumption`, `PoolAssumption`: NULL and the malformed id are no ordinary
values, bounds are natural numbers, the seeded rows and the requests are well typed,
foreign tokens are not signed for this deployment, clocks differ by at most `MaxSkew`).

* **`SatelliteProofs`.** `Inv` = `TypeOK`, `SlotOK` (what a stage says of its request,
  a stamp lies within its request's life), `RowsAreUsed` and `CheckStillValid`. The
  last is the heart: after the check another request may delete the row, but no step
  changes `managed_by`, and an id is never handed out twice, so a row that is still
  there is still unguarded. From it: `TypeCorrect`, `CheckNeverStale`,
  `DeletedStaysDeleted`, `OwnershipTheorem`, `HeartbeatsKept`, `RegressTheorem`, and
  `Refinement`: each step of the handlers is a step or a stutter of `SatelliteAtomic`,
  the write being the instant at which an update or delete takes effect. `ContractTheorem`
  is the guarantee that fleetctl's proofs assume: what a step does to the table
  (`TableStep`) gives the ways of a satellite, and a case for each handler that answers
  gives its outcome; delete's 204 is true of the instant of the write only because
  `CheckStillValid` holds then.
* **`AccessProofs`.** `Inv` = `TypeOK`, `LiveRows`, `TokenOK` for each token, `SlotOK`,
  `PrincipalSound`. The ledger never changes the role of an id, so that a row, the
  result of a login's query, a token and a principal, each made from the one before,
  agree with it for ever. From it: `TypeCorrect`, `PrincipalTheorem`, `AdminTheorem`,
  `FreshTheorem`, `RevocationTheorem` (`iat` within `MaxSkew` of the real time of issue
  and `exp = iat + TTL`), `LockoutTheorem`.
* **`ControlPlaneProofs`.** `Composition`: every step of the whole is a step or a stutter
  of `AccessControl` and of `SatelliteService`, so that each theorem about a part holds of
  the whole. That is proved, not only said: `WholeLinearizable`, `WholeSatellites` and
  `WholeAccess` restate them of `CSpec`, the former two by an instance of
  `SatelliteProofs` whose step lemmas (`NextInv`, `AtomicStep`, `ContractStep`, ...) apply
  to the steps of the whole. With `AccessControl`'s `Inv` thereby at hand, `CInv` adds `Attributed`: a
  satellite request in any stage, detached ones included, was admitted for a user the
  ledger knows in that role, within the bound of `RevocationTheorem`'s lemma
  (`AdmittedInTime`). It is inductive because the ledger keeps roles and records a
  deletion once, at the present time, when every request in progress has been admitted
  already. From it: `AttributionTheorem` (together with the satellite routes' invariant:
  the request that writes is for the row that changes, and carries the operator's mark if
  the row is the operator's) and `LastWritesTheorem`.
* **`PoolProofs`.** `Inv` = `TypeOK`, `NoLeak`, `Standing` (who connects or serves has
  passed the checks, who serves has met PostgreSQL) and `Witnessed` (while PostgreSQL is
  there, every health check in progress has seen it, and one that said so has). From it:
  `TypeCorrect`, `ConnectionsAreReturned`, `ReadyBeforeServing`, `HealthTells`. `AdvanceTheorem`:
  each step of a handler lowers a measure (`Left`, at most five) that no step of another
  raises.
* **`OperatorProofs`.** `Inv` = `TypeOK`, `CacheOK` (a cache is at a version there was),
  `RequestsOK` (an update under way was made from the version it names, which was
  alive and not Ready), `WritesOK` (each write of the operator was made from the version
  right before it). Versions never change once written, and the server takes an update
  only while its base is the newest. From it: `TypeCorrect`, `NothingLostTheorem`,
  `OneWriteTheorem`: a version of the operator is Ready, an update is made from one
  that is not. `NoLostWork` is inductive on top of `Inv`:
  a `Reconcile` that ends while the newest version it can see is not Ready has put the name
  back, one that ends on an older version leaves an event to come, and a new version is an
  event for every manager. From it: `NoLostWorkTheorem`.

* **`FleetctlProofs`.** `Inv` = `TypeOK`, `StageOK`, `WireOK`, `DeleteOK` for each
  command, `FileOK` and `CarriedOK`. A command's own state is disturbed by no other;
  satellites only move on (unused, managed, gone), so what delete was told stays true enough:
  one that was manual is manual or gone for ever. `CarriedOK` says whose token is where on
  its way from the answer through the second `Load` to the file and from the file to a
  client, and `FileOK` that a file no crossed login wrote pairs a server with its own token;
  an uncrossed login saves such a pair because its second `Load` named the server of its
  first. From it: `TypeCorrect`,
  `TokensTheorem`, `OwnedTheorem`, `DeletedTheorem`. Of its servers the proof uses
  `SatelliteContract` alone (`OutcomeFacts`, `LivesOn`). `AdvanceTheorem`: each step of a
  command lowers a measure (`Left`, at most nine) that no one's step raises, so a command
  never starts over.

Only model-checked: `Settles`, `Rests`, `Terminates`, `HealthAnswers`, `EveryRequestEnds` and
`OnlyLoginsExhaust` (liveness under fairness and ENABLED are beyond the prover), and the answers the `claim_`
runs look at. What these rest on beside fairness is proved: for `Settles` and `Rests` that no
work is lost and that the operator never writes on top of its own version; for `Terminates` and
`EveryRequestEnds` the measures of the two `AdvanceTheorem`s, and for the latter also `NoLeak`.

## 5. What the checks say about the code

* Check-then-act in update and delete is safe as things stand, but for a reason that
  is easy to lose: no statement ever changes `managed_by`. A route that hands a row over
  to the operator would break `CheckStillValid` and with it `OwnershipRespected`.
* `last_seen_at` may go back, but only among overlapping heartbeats.
* Deleting a user does not revoke tokens; they die `TTL + MaxSkew` later at most.
* A token works at once on an instance whose clock is not behind its issuer's; others
  refuse it for up to the difference, since `iat` is checked without leeway.
* Deleting the last admin is final once that admin's tokens have expired.
* A deleted user's satellite writes end with the tokens, except for statements already
  admitted: when those commit is PostgreSQL's affair alone.
* A health check answers within its deadline whatever else happens, but an exhausted pool
  makes a working server report itself unhealthy. Logins are the only requests that can
  keep the pool exhausted once their clients have left.
* Start-up has no deadline: while PostgreSQL is silent, `Connect` waits. A blank value of
  an environment variable is not replaced by its default but stops the process.
* Two managers at once do no harm beyond conflicts that are retried.
* fleetctl's token and server part company in one way only: a login's second `Load` finds
  another server in the file than the first, because another login saved in between. The
  token of the one server then goes to the other with every command until the next login
  that is not crossed mends the file. Without this exception `TokensStayHome` is violated.
  Logins side by side that name their server with `--server` do no such harm. A login
  stopped between truncation and write leaves the default server and no token, which is
  harmless.
* An object that somebody else marks Ready is never marked as the operator's.
* fleetctl's check of the owner is never outdated, for the same reason as the API's. After
  a delete whose answer was lost, a second one reports a failure (the 404 of its question),
  never a false success.

## 6. Findings

1. `DELETE /satellites/{id}` never answers the 404 its contract documents
   (`claim_delete`), nor does `DELETE /users/{id}`, which drops the row count.
2. A path id that does not bind reaches a nil `ErrorHandlerFunc`: the goroutine panics
   and the client sees a closed connection instead of 400 (`claim_malformed`).
3. Login answers a failing database with 401, documented as invalid credentials
   (`claim_login`).

## 7. Not modelled

Logging, documentation pages and generated marshalling (no state); the flags and
scaffolding of the operator's `main` (run once, before anything is concurrent);
`GetByID` and `GetByUsername` of the user service and the constructors of operator and
agent principals (no caller); agent, charts, Argo CD, observability (nothing there yet).
The pool is not composed with the routes: a handler's statement is one step there, and
its wait for a connection before it changes no row.

## 8. Plan

Done: 1. satellite routes, their abstract specification, refinement and proofs;
2. access control and proofs; 3. operator, liveness and proofs; 4. fleetctl, liveness and
proofs; 5. `ControlPlane`, the composition of 1 and 2, and proofs; 6. `Pool`, liveness
and proofs;
7. the contract between the satellite routes and fleetctl, kept by the one and assumed by
the other; the parts' theorems carried over to the composition; what the liveness
properties rest on, proved without fairness.

Left: the composition of a fleetctl command with `SatelliteService` itself in place of its
contract, and, once the operator or an agent calls the Control Plane, theirs with it.
