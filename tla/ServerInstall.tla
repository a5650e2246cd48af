---------------------------- MODULE ServerInstall ----------------------------
(***************************************************************************)
(* The Manager's side of one server: the installation orchestrator         *)
(* (install/orchestrator.go), the life cycle service (lifecycle/           *)
(* service.go) and the handlers that start them (httpapi/projects.go),     *)
(* composed with the Provisioner of ServerRuntime.                         *)
(*                                                                         *)
(* Every request starts a goroutine of its own.  Nothing keeps two of them *)
(* apart: only an administrator who waits for one to end before starting   *)
(* the next does.  A configuration operation is here no more than its call *)
(* of Reconcile; ConfigurationOrchestrator models the rest of it.          *)
(***************************************************************************)
EXTENDS ServerRuntime

CONSTANTS
    First,       \* the configuration the server is created with
    MaxRequests  \* bound on requests of administrators

VARIABLES
    project,   \* projects.status, None once the row is deleted
    desired,   \* the canonical configuration
    op,        \* goroutines, by the operation they run
    requests   \* requests so far

managerVars == <<project, desired, op, requests>>
installVars == <<rtVars, managerVars>>

Statuses == {"DRAFT", "INSTALLING", "RUNNING", "STOPPED", "FAILED"}
Actions == {"START", "STOP", "RESTART", "DELETE_RUNTIME"}
OpKinds == {"INSTALL", "APPLY", "FORCE_RUNTIME", "FORCE_DATA"} \cup Actions
Ended == {"SUCCEEDED", "FAILED", "ROLLED_BACK"}
OpSteps == {"queued", "prepared", "reconcile", "start", "inspect", "undo", "call"} \cup Ended

Operation ==
    [kind : OpKinds, step : OpSteps, key : Keys, cfg : Configs \cup {None}]

ASSUME InstallAssumption ==
    /\ First \in Configs /\ MaxRequests \in Nat /\ Keys = 1..MaxRequests
    /\ None \notin Operation \cup Statuses

Running(c) == op[c] # None /\ op[c].step \notin Ended
Idle == \A c \in Callers : ~Running(c)
Doing(c, kind, step) == op[c] # None /\ op[c].kind = kind /\ op[c].step = step
Answered(c) == call[c] # None /\ call[c].at = "answered"

Status(s) == project' = IF project = None THEN None ELSE s

Step(c, step) == op' = [op EXCEPT ![c].step = step]

\* The goroutine sends its next request to the Provisioner.
Send(c, kind, cfg, step) ==
    /\ Step(c, step) /\ call' = [call EXCEPT ![c] = NewCall(kind, cfg, op[c].key)]
    /\ UNCHANGED <<meta, tree, runtime, holder, disturbed>>

End(c, step) ==
    /\ Step(c, step) /\ call' = [call EXCEPT ![c] = None]
    /\ UNCHANGED <<meta, tree, runtime, holder, disturbed>>

-----------------------------------------------------------------------------
(***************************************************************************)
(* Requests of administrators.                                             *)
(***************************************************************************)

\* create, retry, queueLifecycle, delete and the configuration handlers.  A
\* configuration is canonical as soon as it is admitted, and a second one is
\* not admitted before the first was applied or has failed.
Ask(c, kind, cfg) ==
    /\ ~Running(c) /\ c = CHOOSE d \in Callers : ~Running(d)
    /\ project # None
    /\ requests < MaxRequests /\ requests' = requests + 1
    /\ kind = "APPLY" <=> cfg # None
    /\ kind = "APPLY" => \A d \in Callers : ~(Running(d) /\ op[d].kind = "APPLY")
    /\ desired' = IF kind = "APPLY" THEN cfg ELSE desired
    /\ op' = [op EXCEPT ![c] = [kind |-> kind, step |-> "queued", key |-> requests + 1,
                                cfg |-> None]]
    /\ disturbed' = (disturbed \/ ~Idle)
    /\ UNCHANGED <<meta, tree, runtime, call, holder, faults, project>>

-----------------------------------------------------------------------------
(***************************************************************************)
(* install.Orchestrator.Run                                                *)
(***************************************************************************)

\* Every failure ends in the same rollback: DELETE_RUNTIME.
InstallRollback(c) ==
    Send(c, "DELETE_RUNTIME", None, "undo") /\ UNCHANGED <<faults, project, desired, requests>>

\* An operation whose project is gone cannot be read any more.
InstallBegin(c) ==
    /\ Doing(c, "INSTALL", "queued")
    /\ IF project = None
       THEN Step(c, "FAILED") /\ UNCHANGED project
       ELSE /\ op' = [op EXCEPT ![c].step = "prepared", ![c].cfg = desired]
            /\ Status("INSTALLING")
    /\ UNCHANGED <<rtVars, desired, requests>>

\* Ports and secrets, and the configuration written back with its ports.
InstallPrepare(c) ==
    /\ Doing(c, "INSTALL", "prepared")
    /\ \/ /\ project # None /\ desired' = op[c].cfg
          /\ Send(c, "RECONCILE", op[c].cfg, "reconcile") /\ UNCHANGED <<faults, project, requests>>
       \/ project = None /\ InstallRollback(c)
       \/ Fault /\ Send(c, "DELETE_RUNTIME", None, "undo") /\ UNCHANGED <<project, desired, requests>>

InstallReconciled(c) ==
    /\ Doing(c, "INSTALL", "reconcile") /\ Answered(c)
    /\ IF call[c].answer = "ok" /\ project # None
       THEN Send(c, "START", None, "start") /\ UNCHANGED <<faults, project, desired, requests>>
       ELSE InstallRollback(c)

InstallStarted(c) ==
    /\ Doing(c, "INSTALL", "start") /\ Answered(c)
    /\ IF call[c].answer = "ok" /\ project # None
       THEN Step(c, "inspect") /\ UNCHANGED <<rtVars, project, desired, requests>>
       ELSE InstallRollback(c)

\* EnabledComposeServices does not know the template helper.
InstallInspected(c) ==
    LET healthy == Healthy(op[c].cfg.on \ (Core \cap Helpers)) /\ project # None IN
    /\ Doing(c, "INSTALL", "inspect")
    /\ \/ /\ healthy /\ Status("RUNNING")
          /\ End(c, "SUCCEEDED") /\ UNCHANGED <<faults, desired, requests>>
       \/ ~healthy /\ InstallRollback(c)
       \/ /\ Fault /\ Send(c, "DELETE_RUNTIME", None, "undo")
          /\ UNCHANGED <<project, desired, requests>>

InstallRolledBack(c) ==
    /\ Doing(c, "INSTALL", "undo") /\ Answered(c)
    /\ Status("FAILED")
    /\ End(c, IF call[c].answer = "ok" THEN "ROLLED_BACK" ELSE "FAILED")
    /\ UNCHANGED <<faults, desired, requests>>

Install(c) ==
    \/ InstallBegin(c) \/ InstallPrepare(c) \/ InstallReconciled(c)
    \/ InstallStarted(c) \/ InstallInspected(c) \/ InstallRolledBack(c)

-----------------------------------------------------------------------------
(***************************************************************************)
(* lifecycle.Service.Run and ForceDelete, and the apply of a configuration *)
(***************************************************************************)
provisionerAction(kind) ==
    CASE kind = "FORCE_RUNTIME" -> "DELETE_RUNTIME"
      [] kind = "FORCE_DATA" -> "DELETE_DATA"
      [] kind = "APPLY" -> "RECONCILE"
      [] OTHER -> kind

Direct == {"FORCE_RUNTIME", "FORCE_DATA"}

\* An apply reads the canonical configuration when it starts.  A deletion is
\* a request of its own, without an operation that could not be read.
CallProvisioner(c) ==
    LET kind == op[c].kind
        cfg == IF kind = "APPLY" THEN desired ELSE None
    IN
    /\ Running(c) /\ kind # "INSTALL" /\ op[c].step = "queued"
    /\ IF project = None /\ kind \notin Direct
       THEN Step(c, "FAILED") /\ UNCHANGED rtVars
       ELSE Send(c, provisionerAction(kind), cfg, "call") /\ NoFault
    /\ UNCHANGED <<project, desired, requests>>

CallFailed(c) ==
    /\ Running(c) /\ op[c].step = "call" /\ Answered(c) /\ call[c].answer # "ok"
    /\ End(c, "FAILED") /\ UNCHANGED <<faults, project, desired, requests>>

\* Mutant: every failed call is made again.
CallAgainAlways(c) ==
    LET kind == op[c].kind IN
    /\ Running(c) /\ op[c].step = "call" /\ Answered(c) /\ call[c].answer # "ok"
    /\ Send(c, provisionerAction(kind), IF kind = "APPLY" THEN desired ELSE None, "call")
    /\ UNCHANGED <<faults, project, desired, requests>>

\* A worker that lost the Provisioner is resumed, with the same key.
CallAgain(c) ==
    /\ Doing(c, "APPLY", "call") /\ Answered(c) /\ call[c].answer = "error"
    /\ Send(c, "RECONCILE", desired, "call") /\ UNCHANGED <<faults, project, desired, requests>>

\* START and RESTART look at the health before they report; the status is
\* RUNNING whatever it is.
CallSucceeded(c) ==
    LET kind == op[c].kind
        done == IF project = None THEN "FAILED" ELSE "SUCCEEDED"
    IN
    /\ Running(c) /\ op[c].step = "call" /\ Answered(c) /\ call[c].answer = "ok"
    /\ \/ kind \in {"START", "RESTART"} /\ Status("RUNNING") /\ End(c, done) /\ NoFault
       \/ kind \in {"START", "RESTART"} /\ UNCHANGED project /\ End(c, "FAILED") /\ Fault
       \/ /\ kind \in {"STOP", "DELETE_RUNTIME", "FORCE_RUNTIME"}
          /\ Status("STOPPED") /\ End(c, done) /\ NoFault
       \/ kind = "FORCE_DATA" /\ project' = None /\ End(c, done) /\ NoFault
       \/ kind = "APPLY" /\ UNCHANGED project /\ End(c, done) /\ NoFault
    /\ UNCHANGED <<desired, requests>>

Manager(c) == Install(c) \/ CallProvisioner(c) \/ CallFailed(c) \/ CallAgain(c) \/ CallSucceeded(c)

-----------------------------------------------------------------------------
\* A server that was just created, or one that was installed before.
InstallInit ==
    /\ \/ RuntimeInit /\ project = "DRAFT"
       \/ InstalledInit(First) /\ project = "RUNNING"
    /\ desired = First
    /\ op = [c \in Callers |-> None] /\ requests = 0

InstallNext ==
    \/ \E c \in Callers, kind \in OpKinds, cfg \in Configs \cup {None} : Ask(c, kind, cfg)
    \/ \E c \in Callers : Manager(c)
    \/ \E c \in Callers : Provisioner(c) /\ UNCHANGED managerVars
    \/ Crash /\ UNCHANGED managerVars
    \/ Idle /\ (requests = MaxRequests \/ project = None) /\ UNCHANGED installVars

\* Goroutines of both processes run on; requests need not come.
InstallFairness ==
    \A c \in Callers : WF_installVars(Manager(c)) /\ WF_installVars(Provisioner(c) /\ UNCHANGED managerVars)

InstallSpec == InstallInit /\ [][InstallNext]_installVars
FairInstallSpec == InstallSpec /\ InstallFairness

-----------------------------------------------------------------------------
\* The type of every variable; a goroutine that ended has no call.
InstallTypeOK ==
    /\ RuntimeTypeOK
    /\ project \in Statuses \cup {None} /\ desired \in Configs
    /\ op \in [Callers -> Operation \cup {None}] /\ requests \in 0..MaxRequests
    /\ \A c \in Callers : ~Running(c) => call[c] = None

\* Once a server was published, no reconcile, rollback, failed retry or
\* crash discards its database: only DELETE_DATA does, with the metadata
\* (reconcile.go 114 and 206 decide it from the metadata they have read).
DatabaseKept ==
    [][meta # None /\ meta.published /\ pgdata = "ready" => pgdata' = "ready" \/ meta' = None]_installVars

\* Between the requests of an administrator who waits for each to end, the
\* runtime is the one project.json publishes: pointer, containers and site
\* after a success and after a rollback alike.  What was never published has
\* left no container, no site and no database behind, and what a successful
\* installation or apply published last is the canonical configuration.
RuntimeAgrees ==
    Idle /\ ~disturbed =>
        /\ IF Metadata.published
           THEN /\ current = meta.cfg /\ site = meta.cfg.route
                /\ \A s \in Services : cont[s] # None => s \in meta.cfg.on /\ cont[s].set = meta.cfg.set[s]
           ELSE /\ current = None /\ site = None /\ pgdata = "empty"
                /\ \A s \in Services : cont[s] = None
        /\ \A c \in Callers :
              op[c] # None /\ op[c].kind \in {"INSTALL", "APPLY"} /\ op[c].step = "SUCCEEDED" /\ op[c].key = requests
              => Metadata.cfg = desired

\* "Auth and PostgREST must never be started against a database that does
\* not satisfy this contract" (compose/runner.go 63): whatever failed before,
\* no other service runs while the database is not completely initialised.
\* (A rollback that cannot take the containers down discards the database all
\* the same, reconcile.go 121 to 129: a step of the rollback has failed then.)
BootstrapFirst ==
    ~disturbed /\ (\A c \in Callers : call[c] # None => call[c].clean) =>
        \A s \in Services \ {Database} : Healthy({s}) => pgdata = "ready"

\* A directory that has lost volumes/db is refused by every later staging, and
\* deleting the data is the way out (projectfs/root.go 136 and 276): whatever
\* was interrupted or failed, this never befalls a server that is published.
PublishedIsWhole == meta # None /\ meta.published => tree = "full"

\* Every request ends: the lock is handed on after failures and restarts, and
\* no rollback waits for anything that does not come.
RequestsEnd == \A c \in Callers : Running(c) ~> ~Running(c)
=============================================================================
