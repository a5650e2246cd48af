# Verification of the Supabase Manager

TLA+ models of the control plane in this repository, the TLC configurations that check them, and
TLAPS proofs. `PROJECT.json` lists components, runs, mutants, hazards, theorems, and the source
lines each definition models. Paths below are relative to `src/apps/`; M stands for
`manager/internal/`, P for `provisioner/internal/`, N for `nginxproxy/internal/`.

## 1. The system

Two Go processes, and an optional third, manage isolated Supabase servers on one host.

| Part | State it keeps | Operations | Talks to |
|---|---|---|---|
| Configuration store (M `store/`) | SQLite: projects, revisions and their snapshots, secrets, port reservations and allocations, leases with fences, operations, commands | one transaction per method | everything in the Manager |
| Operation ledger (M `operation/`) | operation rows and their event log | Create, Start, StartStep, CompleteStep, Succeed, Fail, BeginRollback, CompleteRollback | store |
| Configuration orchestrator (M `configuration/`, `httpapi/configuration.go`) | in memory: a lock per project, a registry of leases, goroutines | QueuePatch, Run, Resume | store, ledger, Provisioner |
| Password rotation (same files, P `runtime/rotate.go`) | command and compensation phase; a journal in `project.json`, generations, role passwords | queue, rotate, confirm, roll back, recover | store, Provisioner, PostgreSQL |
| Installation and life cycle (M `install/`, `lifecycle/`, `httpapi/projects.go`) | project status | install, retry, start, stop, restart, delete | store, Provisioner |
| Runtime (P `runtime/`, `projectfs/root.go`, `compose/`, `health/`) | `project.json` and its lock, runtime generations and their pointer, `volumes/db`, containers, site | Reconcile with its rollback, Lifecycle | Docker Compose, Nginx agent |
| Edge functions (M `functions/`, P `projectfs/functions.go`, `runtime/functions.go`) | operations, spool of archives; releases, `state.json`, live directory | deploy, roll back, delete, resume | Provisioner, Compose |
| Configuration aggregate (M `project/configuration*.go`, `httpapi/configuration.go`; P `render/`) | the canonical configuration and its secrets | patch a section or one part of it, validate, complete secret actions, hydrate, render, plan what to recreate | store, orchestrator, runtime |
| Nginx agent (N, P `proxy/`) | three files per site, a certificate pair, what nginx has loaded | apply, remove, stage, with restore | Nginx |
| Administrator authentication (M `auth/`, `store/auth.go`, `httpapi/auth_*.go`) | the administrator, sessions with one synchronizer token each | set up, log in, check, refresh, log out, expire | store, browser tabs |
| Ports, secrets, HTTP plumbing, GoTrue proxy, web dashboard | none of their own | probes, cryptography, forwarding, user interface | |

### What is hard in it

* **Goroutines that share an operation.** A request starts a goroutine for the operation it queued;
  a ticker resumes whatever is queued or running every minute; a repeated request is given the
  active operation. Statuses are checked in one statement and written in another. Locks are in
  memory and go with the process.
* **Two processes that fail separately.** The Manager calls the Provisioner over HTTP; connections
  break, answers are lost, either process restarts between any two steps. Idempotency keys, leases,
  fences, journals and compensation phases exist to survive this.
* **Multi-step changes of a runtime that is not transactional**: files, a pointer, containers, role
  passwords, a site. Each has a rollback of several steps that may fail as well.
* **Two tables for one resource**: a host port may be reserved, allocated, or both.
* **Knowledge written down twice.** What the Manager sends and what the renderer insists on, what
  the renderer puts into a service and which change makes the Provisioner recreate it, are
  separate lists in separate processes.
* **Handlers with no lock at all**: the Nginx agent's, and the session handlers of several tabs.

Per component, correctness means: a lease belongs to the command it runs, and a superseded holder
is refused (store); an operation moves along its life cycle and its log tells how (ledger); a lock
has somebody to return it, what is committed was applied, an end is final, and every operation
ends (orchestrator);
password, files and containers agree when a rotation is published or undone (rotation); a
published database survives, nothing starts on a half-initialised one, and a server at rest is what
its metadata says (runtime); directory, record, container and reported status agree (functions);
a flag has its secret, what is admitted renders, and the containers follow what was applied
(aggregate); nginx runs what the files say and an answer is true of both (agent); one
administrator, ended sessions stay ended, and a change is served only on a live one (sessions).
The hazards behind these properties are in `PROJECT.json`, each at its line.

## 2. Modules

```
OperationLifecycle  <-implements-  OperationLedger  <- LedgerAndSessionsProofs
ConfigurationStore  <- ConfigurationStoreProofs
        ^-- EXTENDS -- ConfigurationOrchestrator  <- ConfigurationOrchestratorProofs
        |                  (its steps implement the store's)
        ^-- EXTENDS -- PasswordRotation  <- PasswordRotationProofs
                           (its steps implement the store's)
ServerRuntime       <- EXTENDS -- ServerInstall  <- ServerInstallProofs
FunctionReleases    <- FunctionReleasesProofs
ConfigurationApply  <- ConfigurationApplyProofs
NginxAgent          <- NginxAgentProofs
AdminSessions       <- LedgerAndSessionsProofs
```

`MC*` modules and `.cfg` files give the constants their values; no definition is replaced.
Definitions whose comment begins with "Mutant" are wrong variants of the definition that follows
them, used by the mutation entries of `PROJECT.json` and by nothing else.

**ConfigurationStore** models `store/configuration.go`, `ports.go` and `projects.go`. A variable is
a table (or the columns of one that the rules read), an action is one transaction; `BEGIN IMMEDIATE`
serialises them, and one that returns an error is a stutter. A configuration is reduced to its
host ports, a project's secrets to one value, a lease's expiry to whether it has passed. `Next` is
everything the Manager does to these tables; `OwnedNext` is the part that runs under a lease.

**OperationLedger** models `operation/service.go` over `store/operations.go`: each call reads the
status (`Begin`, with `requireStatus`) and writes it later without a condition
(`UpdateOperation`, with the event). Callers may abandon a call, the process may restart, the project may be
deleted, after which the row cannot be read. **OperationLifecycle** is the promise to the
dashboard: one atomic step along an edge. `contested` tells the operations on which two calls overlap,
from when a second one is pending until none is: those take whatever status is written last.

**ConfigurationOrchestrator** composes the store with ordinary configuration updates. A
goroutine is the sequence of calls it still has to make; its deferred calls are the end of that
sequence, which is how the double release of a resumed goroutine shows, and how a read that fails before `Run` has
deferred its releases (`ReadFails`) shows as a goroutine with nothing left to call. A request handler
hands its goroutine whatever operation is active, whoever drives it. The Provisioner is external: it applies the snapshot or fails, with or without having applied it. The statuses the
orchestrator writes are among the store's `StatusWrites` (`OrchestratorAssumption`), which is what
lets each of its calls be one of the store's transactions.

**PasswordRotation** composes the store with both sides of a rotation: the Manager's worker and
recovery, calls that wait for the Provisioner's metadata lock and run step by step, and the
runtime as three passwords (roles, selected files, containers). Any number of workers may run; the
configurations have one. The answer of a rotation that could not be observed is the code's, a
failure whose outcome counts as known (P `runtime/rotate.go` 398 to 400), and not the interface's. A rotation's new password is named
by its operation. Like the orchestrator's, its steps are among the store's transactions: the
statuses and phases it writes are among those the store allows, and no operation is the password
the server was installed with (`RotationAssumption`); `RecordAssumption` says that the value for
"nothing there" is no record.

**ServerRuntime** has one action per command of Reconcile, of its rollback and of Lifecycle, over
containers, database directory, pointer, site and metadata. **ServerInstall** puts on top of it the
installation orchestrator, the life cycle service, their handlers, and the call that a
configuration operation makes. Two assumptions of the constants come from the code: the Compose
definition of a helper (`auth-templates`, `imgproxy`) is the same in every configuration
(`render/render.go` 170; the template files mounted into one are ConfigurationApply's subject), so
that a plan which never lists a helper may leave it alone; and the database is enabled in every one.

**FunctionReleases** models one function: release directories as operators on a record, the
Provisioner's service, the Manager's service with its check-then-write statuses and its spool,
and the scheduler. A request that finds an operation of the project still active is given the newest
of them (`store/functions.go` 28 orders by `created_at`). `StatusTellsRelease` says of an operation
that was undone that it left current what was current before (`RolledTo`), or, where it deployed the
release that was current already, the one before that, which is what the restore then selects.

**ConfigurationApply** follows one setting from a client to the containers. A configuration is the
set of its leaves that have their second value (a switch that is on, a string that was edited);
leaves that validation, renderer and plan treat alike are one. On the Manager's side are the
section handlers, the handlers of one part of a section, which read first and queue the whole
section later, validation, the four secret actions and hydration. On the Provisioner's side are
the secrets the renderer insists on, the tables `Reads` and `Carries` (what the definition, the
environment and the mounts of a service carry), `Marks` (`affectedServices`), the steps of
Reconcile, its rollback, and an attempt that is cut off. The module is about which service gets
what; the single commands and their failures are ServerRuntime.

**NginxAgent** has one step per file, per `nginx -t` and per reload of a request, and the same for
the restore; goroutines have no lock. A request keeps the snapshot it took. A caller that gives
up cancels the context, after which commands fail but file operations go on. Two applies of one
site overlap only after that, because Reconcile holds the server's metadata lock; a removal may overlap
with anything, because deletion does not (P `runtime/backend.go` 183). Staging a
certificate is a check and two writes.

**AdminSessions** has one step per store call of each handler and the browser's side: tabs share a
cookie and each hold the synchronizer token of the last answer they read. The clock moves in
units in which both limits are expressed.

## 3. Runs

Deadlock is checked in `rotation_faults` and `rotation_compensation`, `server_install` and `functions`,
where the ticker goes on for ever or an explicit step marks the end; elsewhere the bounds (identifiers,
revisions, fences, events) stop the system, and the configurations say `CHECK_DEADLOCK FALSE`.

| Run | Question | Bounds | Distinct states |
|---|---|---|---|
| `store` | Whose lease is it, can a port be allocated twice, in any order of transactions? | 2 projects, one created and deleted on the way, 2 operations, 1 contended port, 2 fences | 357,367 |
| `store_collision` | (violated) Do servers keep distinct ports? | 2 projects, 3 ports | |
| `ledger_drivers` | Does check-then-write implement the life cycle, whoever drives an operation? | 2 goroutines on any of 2 operations, 5 events each | 982,064 |
| `orchestrator_recovery` | Has the lock an owner, is what is committed applied, are ends final, and does every operation end? | 1 request handler, used again and again, scheduler and its worker, 1 operation, 1 fault | 422,230 |
| `rotation_faults` | Is what is published live, what is undone restored, and does it end? | 2 rotations, 2 faults, 3 requests and faults together | 323,805 |
| `rotation_compensation` | (violated) Is a rollback that was begun re-entered before anything is published? | 1 rotation, 2 faults | |
| `server_install` | Are database, runtime and metadata kept together? | 4 services, 2 configurations, 2 requests, 1 fault | 105,407 |
| `functions` | Do directory, record, container and status agree, and is a rollback completed? | 3 archives, 2 goroutines, 2 requests, 1 fault | 911,078 |
| `configuration_apply` | Do flags have secrets, does what is admitted render, do the containers follow? | every leaf and secret action, 2 patches, 1 part handler, 1 fault | 308,921 |
| `configuration_stale` | (violated) Does a successful apply reach every service? | 1 patch, no fault | |
| `nginx_sites` | Are files, nginx and answers kept together without a lock? | 2 sites, 2 routes, 2 goroutines, 3 requests, 1 fault | 900,572 |
| `admin_sessions` | Do sessions end for good, are changes served on live ones, can some tab act? | 2 tabs, 2 sessions, 4 tokens, the idle limit | 898,380 |

**Why the bounds suffice for the cases meant.** Two operations on one project give takeover,
late release and reuse; two fences give take and take over. Two projects competing for
one port, one of them created and deleted on the way, give every conflict between two tables. Five
events reach the end of each path of the life cycle. In `ledger_drivers` two goroutines drive one operation
or two, overlap and come apart again. In `orchestrator_recovery` the handler is used again when its goroutine has ended
(after its work, a refusal, a missed deadline, a failed read or a restart), with the resumed worker
still at it or the operation grown old, so that a request, a worker and the ticker meet on one operation; one
fault can fall between any two steps. The sequences that need a second operation or a second
handler are named in section 5; the proofs have no such bound.
Three requests and faults together give `rotation_faults` two failures inside one rotation (one in the
rotation and one in its rollback, an interrupted attempt and a retry that fails) or one failure
with a second rotation before or after it. In the server run the failure that starts a rollback
is the fault, so a second failure inside that rollback is not reached by the run; the proofs of
ServerInstall and FunctionReleases have no bound on failures, and finding their invariants with two
failures is what gave `BootstrapFirst` and `StatusTellsRelease` their present form. Two requests of any kind
give every pair, concurrent or in sequence, on a new and on an installed server. The two server
configurations differ in a service, a setting and the site. Three archives are needed for pruning to
have something to prune. Two patches give every pair of a leaf or secret action with another, by section or
by part, on either side of a failure. Three requests give the agent two that overlap on a site and
one for another site, or two stagings and an apply. A session is idle after one unit of a clock that
goes to two, so that requests are sent before and answered after its end; its absolute limit of three is
not reached by the run (nor by the code, where the idle limit, counted from the login, always
comes first); `ServedLive` proves the property for any limits. The safety properties of every module are also
proved for all bounds (section 4), those of PasswordRotation under the hypotheses named there.

**History variables.** `disturbed` (server) records that requests overlapped, that a rollback
reported failure, that an answer of the Nginx agent was lost or that the Provisioner restarted;
`RuntimeAgrees` and `BootstrapFirst` speak of behaviours without these, because the code promises
nothing then; `BootstrapFirst` excepts as well the rest of a rollback one of whose steps has failed,
because a first installation whose containers cannot be taken down discards its database all the same
(P `runtime/reconcile.go` 119 to 129). `DatabaseKept`, `RequestsEnd` and the type invariant do not use it. `torn` and
`shared` (functions) record a file operation that was broken off and two simultaneous drivers.
`suspect` (aggregate) holds the targets an apply that was neither finished nor rolled back may have
changed, until an apply recreates them; `unsettled` and `alone` (agent) tell a site whose request broke
off and a request that shared its site, `half` a staging that overlapped another or left one file;
`over` and `sent` (sessions) what had ended, and the time, when a request was sent. `contested` (ledger)
holds the operations on which two calls overlap. `company` (orchestrator) holds the goroutines that
have shared their project with another; `CommittedIsApplied` and `EndIsFinal` except these, and the
two liveness properties except a project that is `Orphaned`: its lock is taken and nobody is left to
give it back. `compensated` and `retried` (rotation) hold the rotations whose rollback was ever
asked for, and those begun again over their own changes or beside another goroutine.
`RotationsEnd` excepts a rotation that was `Outrun`. Section 5 tells what happens in each exception.

**Fairness.** Weak fairness of the steps of goroutines and handlers (the Go scheduler runs them,
every HTTP call, Compose command and file operation has a deadline or ends), of the minute ticker
(`cmd/manager/main.go` 76), of leases running out, and of the agent's handlers (`net/http` runs them,
and neither lock nor channel is in their way). Nobody has to send a request and nothing
has to fail. No strong fairness is used.

### What the violated runs show

* `store_collision`: an ordinary update commits by dropping its reservations without writing
  allocations, so the port it took for a newly enabled kind is in no table and another server is
  admitted with it.
* `rotation_compensation`: publication fails, the rollback selects the old files, sets the roles back and is
  broken off. The worker that resumes the rotation was handed an entry from before the step
  `MARK_CONFIGURATION_GOOD` was written, so it does not re-enter the rollback (M `configuration/orchestrator.go`
  425) but begins again; the Provisioner replays the success it keeps under the idempotency key,
  and the Manager confirms and commits over a runtime that was taken back in part. A worker that knows
  the step does the same on the first rotation of a server, whose previous snapshot holds no database
  password (line 426).
* `configuration_stale`: `affectedServices` (P `runtime/reconcile.go` 545) marks fewer services than
  read a changed leaf, and a replaced secret changes no leaf at all: the apply succeeds and a
  container goes on with the old value. `Unplanned` lists the leaves; `RuntimeConverges` shows that
  there are no others.

## 4. Proofs

`ConfigurationStoreProofs` proves, for all constants that satisfy `ConstantsAssumption`, that every
behaviour of `Spec` satisfies `TypeOK`, `LeaseBindsPayload`, `LastGoodNotAhead`, `PortExclusive`
and `FenceRises`. The inductive invariant is `Inv`: the type invariant, the three invariants, and
`CommandHasOperation` (a durable command has an operation row). The last is what makes
the binding inductive: restore and mark-good write the row of the operation that a command names. A lemma per
transaction shows that it keeps the types (`...Type`) and the rest (`...Safe`); `FenceStep` derives the action
property from `Inv`. `PortExclusive` rests on `ProjectExclusive`: the projection writes an
allocation only after `CanProject` saw no other owner. `OwnedPortsApart` is the counterpart of
`store_collision`: of `OwnedSpec`, the protocol without the canonical commit of ordinary updates, it
proves `PortsNeverCollide`. The invariant is `PortsCovered`: a configuration's ports are all in one of
the two tables, in the allocations while the last good revision is current (`GoodIsAllocated`) and in the
reservations while a candidate is pending (`PendingIsReserved`), and what one project has reserved no
other has allocated (`ReservedIsFree`). So the collision is owed to that commit alone.

`LedgerAndSessionsProofs` proves of the ledger `LedgerTyped`; `LogTellsStatus` for any number of drivers, because a
write appends its event in the same transaction; and `LedgerImplementsLifecycle`, for any number of
goroutines on any operations, with the invariant `PendingIsCurrent`: of an operation that is not
contested at most one call is pending, and the status it has checked is still the status of the row.
Each step then maps to an edge of the life cycle, to an overwrite of a contested operation, or to a
step of the drivers that changes no status. What the lack of a condition in `UpdateOperation` costs is so
confined to the time calls overlap.

`ConfigurationApplyProofs` proves the five properties of the `configuration_apply` run for any
initial configuration, any leaves and values, any number of editors, patches and failures.
`TypeInv` adds that a draft lies in the section it was read from. `FlagsAreBacked` is inductive
with it (`PatchKeeps`: a case per secret action; the omitted one is impossible, because a section
that says a secret is set must name an action and other sections are completed with retain).
`AdmittedIsRenderable` adds that the stored configuration is valid: validation of switches does not
look at flags. `FailureIsRetryable` needs `PointerInv`: before publication the pointer names the
generation before, afterwards the candidate. `RuntimeFollows` is the theorem with the most in it.
`Alike` says that the plan may take two releases for each other at a service, `Fits` that an image
is as good as the release's own; `Planned` and `NeededPlanned` compare the renderer's tables with
the plan's, service by service; `UnmarkedAlike` concludes that what is neither marked, added nor
disabled may be left alone, for all pairs of configurations. The invariant `RunInv` then has two
shapes: `Quiet` before publication (what runs fits the applied release, and the current
generation is alike), and `Underway` after it (each service fits one of the two releases, and
those the steps so far were about fit the candidate), from which both the end of the apply and
its rollback lead back to `Quiet`.

`NginxAgentProofs` proves the type invariant, the three invariants or action properties about
files, nginx and answers, and both about the pair, for any sites, routes, material and goroutines.
`SiteStep` classifies what a step does to a request (onward, restoring, given up, answered), and
every later proof is by that classification. `PairInv` says what the two files hold at each step of
a lone staging; `SettledIsServed` is inductive with it, because a request leaves a site only through
a reload or through the history variable; `AnswersTrue` needs `LoneInv`: a request that is alone on
its site finds the files it is past as it left them.

`ConfigurationOrchestratorProofs` proves the refinement and the three safety properties of the
`orchestrator_recovery` run, for any projects, operations, handlers, resumed goroutines and number of
faults. `OrchestratorImplementsStore` maps each action to a transaction of `Next` or a stutter, one lemma
per action; what a goroutine remembers (its fence, snapshot and operation, `MemoryOK`) has to be typed for
that, and `MemoryOK` is inductive only together with the store's own `Inv`. `ManagerKeepsStoreSafe` then
carries the three invariants of the store over to the Manager. `ChannelHasOwner` follows a lock from
owner to owner: `WillRelease` is kept by every step of a goroutine that does not drain the
channel (`RunOwner`, `RequestOwner`), the ticker hands it to the goroutine it starts (`TickerOwner`), and
the one step after which nobody drains it is the read that fails in a request's goroutine. `CommitsWhatRuns`
and `EndsAreFinal` rest on `Histories`: a goroutine that never had company knows its operation's
status, has applied what it is about to commit (`AppliesFirst`: every program applies before it
commits), and nobody else can have changed runtime or snapshot meanwhile, because whoever did would
have been its company (`JoinStep`, `HistoryAlone`).

`FunctionReleasesProofs` proves the five safety properties of the `functions` run. `FnInv` holds
whoever drives what: it ties each call to its operation and its goroutine, says that a live directory
the container has not loaded is about to be (`RestartPending`), and that the files agree as long as no
file operation was broken off (`Agrees`). `LiveIsLoaded` follows, and so does `RollbackCompleted`: the
write of ROLLING_BACK and the write that ends it are two steps of one goroutine, and any other
goroutine that drives the operation fails its status change meanwhile. The rest needs `SoleInv`, for
as long as no operation has had two drivers: each operation has one goroutine (`Exclusive`), and what
that goroutine is about to record, or the Provisioner about to answer, is true of the releases
(`WorkTells`, `CallTells`), among them the previous one, which is kept (`Retained`). That closes
`ReleasesConsistent`, and `StatusTellsRelease` by the step that wrote the status (`OpTells`).

`ServerInstallProofs` proves the five safety properties of the `server_install` run, for any services,
configurations, goroutines, requests and failures. The invariant has three parts. `BaseInv` holds
whatever overlaps: the metadata lock is held by exactly the Reconcile that is past its first step
(`Locked`), and what such a Reconcile relies on between its steps (`Sound`: the directory it staged,
the pointer it switched, that a first installation is still unpublished) nobody else disturbs;
`PublishedIsWhole` and `DatabaseKept` follow from it alone. `KeysInv` keeps idempotency keys apart and
says which call each step of a goroutine has made. `CalmInv` is about a server that nothing has
disturbed: `Where` says for every step of a Reconcile, of its rollback and of Lifecycle what the
pointer, the containers, the database and the site are (of the old configuration, of the new one, or
each container of one of them), so that both the last step of a success and the last of a clean
rollback lead back to `Rest`, which is `RuntimeAgrees`; `BootstrapFirst` is read off the same table.
`Aims` adds that what is on its way to be published is the canonical configuration under a key that
has no stored outcome yet. One lemma per action shows that it keeps all three (`...Keeps`).

`LedgerAndSessionsProofs` proves the three properties of `admin_sessions`, and that only one
administrator is ever created, for any number of tabs, sessions and tokens and any limits. `EndInv` keeps apart the tokens that were drawn, are live and
have ended; `ActInv` says that the newest synchronizer token of a session is held by a tab, is on
its way to one, or that a tab can fetch one.

`PasswordRotationProofs` is about any operations, goroutines, requests and faults.

* `RotationTyped` needs more than types: `ProcessInv` adds to the store's `Inv` what the processes know.
  An operation is a rotation of the server and its candidate is not the first revision; a snapshot
  beyond the first has a secret; a request whose connection lives is the one its goroutine waits for
  (`Awaited`); the histories are sets of operations, kept apart (`HistoryTyped`) because nothing else depends
  on them; the Provisioner's request has at each step the journal and generations it goes on with
  (`Rotating`, `Rollback`); what it keeps of an operation and what it answers go together (`Answered`).
* `RotationImplementsStore` maps each action to a transaction of the store's `Next` or a stutter, and
  `RotationKeepsStoreSafe` carries the store's invariants over.
* `AnchorStaysOld` proves `AnchorIsOld` for as long as operations have distinct revisions
  (`RevisionsDistinct`). A password is settled when the server was installed with it or when the
  Provisioner keeps an outcome of its rotation; the anchor, the generations to go back to and the stored secrets are
  settled (`AnchorInv`), the journal's own operation is not. A revision is used again only
  after a rotation was given up and its revision restored; then the journal of the one may be read as the
  other's, and the argument is lost.
* `UndisturbedCommitIsLive` proves of one operation what `CommittedIsLive` says of it, for as long as its
  revision is `Undisturbed`: no newer candidate is admitted, and nobody rolls the revision back, restores it
  or publishes another password under it. Failed commands, lost answers, restarts, repeated and
  resumed requests are all allowed, and so is any past. `KeptRuns` says that a success the Provisioner keeps
  is what runs, `PublishedStays` that what was published is still stored when its goroutine comes to commit.
* `FirstRollbackRestores` proves `RolledBackIsRestored` for the first rotation of a server while the
  goroutine of its request drives it (`FirstAlone`): commands may fail, connections break and the
  Provisioner restart, any number of times. `FirstDrive` says for every step of the goroutine what it relies
  on (`Steady`): before its request is answered, that nothing was touched or that the request is on
  its way; after an answer, that only confirmations are left with the Provisioner and the anchor is the old
  password; on the way back, that the old password is in all three places before the secret is restored.
  The property itself is about the only rotation so far; the theorem adds that no resumed goroutine took it over.

Each module starts with its type invariant; those of the store, ledger, aggregate, agent and
sessions (`TypeCorrect`, `LedgerTyped`, `SessionsTyped`) are proved and not also model-checked; `LastGoodNotAhead` and `StagedPairKept`
are theorems only, too. The inductive invariants were checked by TLC before they were proved, those
of ServerInstall and FunctionReleases with two and three failures.

Only model-checked: every liveness property (`OperationsEnd`, `LockIsReturned`, `RotationsEnd`,
`RequestsEnd`, `FunctionOpsSettle`, `RequestsAnswered`: the prover has no rule for fairness), and what
the three hypotheses above leave out: `AnchorIsOld` where a revision is used twice, `CommittedIsLive` of an
operation that is disturbed, `RolledBackIsRestored` of a rotation that was resumed. The
`rotation_faults` run checks these within its bounds.

## 5. What is not modelled

* The text of Compose, environment and site files, JSON and SQL, encryption, ranges and formats of
  single fields, presets and migrations of old rows: a leaf or a secret is an abstract value.
* The port allocator's probes of the host (its candidates are any free port of `ConfigurationStore`,
  whose transactions decide), the GoTrue proxy (stateless forwarding), the cipher and generators, the
  Provisioner's client and server (their classification of errors is in the modules of the
  operations), routing and the event stream, entry points and settings, the web dashboard (its
  requests are the environment of the modules). They keep no state of their own that the
  properties here could be about.
* ConfigurationApply: the restart of the Manager (ConfigurationOrchestrator), ports, revisions, and
  the single commands of a step (ServerRuntime).
* AdminSessions: `ChangePassword`, which has no caller, and recovery codes, which nothing reads.
* ConfigurationOrchestrator: deletion of projects; a Reconcile call that outlives the Manager that
  sent it (Restart lets it take effect at once or not at all).
* PasswordRotation: a handler of the Provisioner that acts after its successor has begun. Two Manager
  workers at the same time are in the module and its proofs, not in its runs.
* ServerInstall: restarts of the Manager (installations and life cycle operations are not resumed
  by the code); revisions and fences of Reconcile, which the code no longer refuses by.
* FunctionReleases: the 45-minute deadline, database errors, several functions of one server.
* NginxAgent: tokens, names and the password hash; requests that are refused before the snapshot.

### Limits of the code met while modelling

Each but the one `rotation_compensation` shows is stepped around by a hypothesis or a history variable of
a property, and has no run of its own. Where a property names an exception, this is why.

* `Run` reads the configuration before it installs its deferred releases (M `configuration/orchestrator.go`
  709 to 717), and the goroutine of a request ignores its error (M `httpapi/configuration.go` 353). When
  the read fails, the project's lock stays taken until the process restarts, and neither requests nor
  Resume get past it. `LockHasOwner` says that the lock is lost in no other way; `OperationsEnd` and
  `LockIsReturned` except a project this has happened to (`Orphaned`).
* A request is given the operation that is active and starts a goroutine for it, without the lock if
  another goroutine drives it (M `httpapi/configuration.go` 353); the lock also opens under its owner when
  the goroutine of Resume releases it a second time (M `configuration/orchestrator.go` 975), which needs no
  fault: a list read by the ticker just before an operation ended starts a goroutine whose `Run` releases the
  lock, a request takes it, and the second release gives away the request's. From then on nothing
  serialises the project's goroutines, contrary to what QueuePatch says of itself (104 to 106).
  * Without the exception of `company`, `CommittedIsApplied` is false: a request is handed an operation
    after a restart and works without the lock; an hour later the next request fails that operation as
    expired and admits another; the first worker's commit then marks the configuration of the second as
    applied, which it never was.
  * Without it `EndIsFinal` is false, too: both workers check that the operation is running, one writes
    SUCCEEDED, the other its own status over it.
  These need two operations or two goroutines of requests, more than the run has; TLC finds both with them.
* A rotation whose outcome the Provisioner could not observe is answered as a failure with a known outcome,
  because the result is built anew without `RuntimeOutcomeUnknown` (P `runtime/rotate.go` 398 to 400; M
  `provisioner/client.go` 312). The Manager then reports FAILED and neither undoes nor restores anything
  (M `configuration/orchestrator.go` 506 to 517), although `src/internal/contracts/provisioner.go` 30 to 32 says that
  such an operation stays recoverable. The roles may have the new password and the store the old one; no
  property of a rotation that succeeded or was rolled back is about it.
* Releasing a lease deletes the row that holds its fence, so fences restart from 1 afterwards, although
  M `store/configuration.go` 318 to 320 promises a fresh generation. A rotation that was taken over with
  a greater fence, succeeded, lost its answer and is resumed with a smaller one is `Outrun`: its success is
  replayed, its confirmation and its rollback are refused (P `runtime/rotate.go` 32 and 73), and it is
  resumed for ever.
* The snapshot of a revision is made before its own rotation publishes, so a second rotation's
  "old password" is the one from before the first (M `configuration/orchestrator.go` 489).
  `RolledBackIsRestored` is about the first.
* A resumed rotation can contradict itself. A rollback in the Provisioner that fails half way leaves the kept
  outcome "ok" of its rotation, which a worker that begins again is then answered with
  (`rotation_compensation`; `CommittedIsLive` excepts these as `compensated`). A retry that fails restores the
  generation it found, which after an interrupted first attempt may be the rotation's own, and answers
  that it is undone; or it fails before it has changed anything, and what the first attempt changed
  stays. The Manager restores the stored secret and reports ROLLED_BACK over a runtime that was not
  (`RolledBackIsRestored` excepts these as `retried`).
* The handlers of SMTP, of an OAuth provider and of TLS read the configuration without the lock and queue a
  whole section later (M `httpapi/configuration.go` 177). No revision is compared, so what another request
  saved to the section in between is set back without a conflict, although the comments at 273 to 276 and
  291 to 292 say that the endpoint owns its part only. `PartKeepsTheRest` is about a section that is still as
  it was read; without that condition TLC finds it violated by two requests and no fault.
* The request's goroutine and the ticker may both run a rollback of a function: the second swap undoes
  the first and the operation reports success (M `functions/service.go` 179).
* The Studio flag is taken from the client with no secret action: set while no password is stored,
  it makes every patch of another section retain a secret that does not exist.
* With the Auth service off and SMTP or an OAuth provider still on, an admitted configuration does not
  render: hydrate looks at the service, the renderer only at the feature.
* An apply that disables a service and is interrupted after the pointer switch leaves a Compose file
  without it, while the metadata still list it: the next apply names it to that file, fails, and
  its rollback fails on the same name, until the old services are asked for again.
* The rollback of an apply gives the site the passwords of the request that failed.
* The agent's handler of a request that was given up restores its snapshot over what a newer request
  wrote; its restore cannot be validated or reloaded, because its context is over; two stagings of one
  name may mix their files, and one file left behind refuses every later staging of the name.
* `last_seen_at` is written at login only: the 12 hours "idle" are a fixed lifetime.
* A deleted project leaves its active operations with a NULL project, and listing fails on them.
* A failure or restart between the removal of `volumes/db` and the copy of its template
  (P `projectfs/root.go` 136) leaves a directory that staging refuses for ever.
* After a restart of the Provisioner between recreation and publication, applying the published
  configuration again recreates nothing, because affected services are computed from the metadata
  (`suspect` in ConfigurationApply).
* If the answer of the Nginx agent is lost, the rollback does not know that the site was changed.
* START brings up only the database and the core services; its status is RUNNING whatever the health.
* Retry of a stopped server starts nothing, because nothing is affected or added; it fails its health
  check and takes the runtime down. A Retry that fails while it validates ports takes a running server down.
* Deploying an archive that is the previous release, or one whose first deployment was cut off,
  is refused because the release exists already.
* A Manager that stops between BeginRollback and CompleteRollback leaves ROLLING_BACK, which nothing
  resumes and which refuses further function operations.
* The archive leaves the spool before Succeed, so that a driver resumed in between reports FAILED
  for a release that is live. A second upload while one is active is dropped silently.

## 6. Plan

1. More of the model: a second request handler in the recovery run and a second worker in the rotation
   run, within the time a run should take; overlapping handlers in PasswordRotation; restarts of the
   Manager in ServerInstall; the agent composed with ServerRuntime in place of the site as one value; an
   abstract server that ServerInstall implements.
2. More proofs: `AnchorIsOld` without `RevisionsDistinct`, which needs an invariant about revisions
   that were given up; `RolledBackIsRestored` of a rotation that was resumed once.
