-------------------------- MODULE FunctionReleases --------------------------
(***************************************************************************)
(* One Edge Function of one server: the Manager's functions.Service        *)
(* (functions/service.go) with its durable operations and its spool of     *)
(* uploaded archives, and the Provisioner's FunctionService                *)
(* (runtime/functions.go) with the release directories it publishes from   *)
(* (projectfs/functions.go).                                               *)
(*                                                                         *)
(* An operation is driven by the goroutine of the request that queued it,  *)
(* and by the scheduler, which every minute runs each operation that is    *)
(* QUEUED or RUNNING.  Nothing keeps two drivers of one operation apart:   *)
(* Service.locks is never used.  A status is checked in one statement and  *)
(* written in another.                                                     *)
(***************************************************************************)
EXTENDS Naturals, FiniteSets

CONSTANTS
    Archives,     \* uploads, by their SHA-256
    Workers,      \* places for goroutines of the Manager and their calls
    None,
    Unknown,
    Foreign,      \* a function directory that the Manager did not make
    StartFiles,   \* what the directories may hold at first
    MaxRequests,  \* bound on requests of administrators
    MaxFaults     \* bound on failures and restarts

VARIABLES
    files,     \* the function's directories, see FileStates
    loaded,    \* what the functions container loaded when it last started, or
               \* Unknown after a restart that failed or was cut off
    op,        \* operations, by the number of the request that queued them
    spool,     \* operations whose archive is in the spool
    work,      \* the Manager's goroutines
    call,      \* the call each of them has, or had, at the Provisioner
    requests,  \* requests so far
    faults,    \* failures so far
    torn,      \* history: a file operation failed or was cut off half-way
    shared     \* history: two drivers had one operation at the same time

managed == <<op, spool, work, requests, shared>>
provisioned == <<files, loaded, torn>>
fnVars == <<files, loaded, op, spool, work, call, requests, faults, torn, shared>>

Kinds == {"DEPLOY", "ROLLBACK", "DELETE"}
Statuses == {"QUEUED", "RUNNING", "FAILED", "ROLLING_BACK", "ROLLED_BACK", "SUCCEEDED"}

\* releases/ and its state.json, the directory the container reads, and the
\* marker that says which release that directory was copied from.
FileStates ==
    [releases : SUBSET Archives, live : Archives \cup {None, Foreign}, active : Archives \cup {None},
     current : Archives \cup {None}, previous : Archives \cup {None}]

NoFiles == [releases |-> {}, live |-> None, active |-> None, current |-> None, previous |-> None]

Fault == faults < MaxFaults /\ faults' = faults + 1
NoFault == UNCHANGED faults

-----------------------------------------------------------------------------
(***************************************************************************)
(* Release directories.  Every operation holds runtimeMu, so its steps     *)
(* show only when it fails or is cut off.                                  *)
(***************************************************************************)

isManagedFunctionDirectory(f) == f.active # None /\ f.active \in f.releases

CanSwitch(f, sha) == sha \in f.releases /\ (f.live = None \/ isManagedFunctionDirectory(f))

Switched(f, sha) == [f EXCEPT !.live = sha, !.active = sha]

\* A switch that fails puts the old directory back; the marker may be ahead.
SwitchFailed(f, sha) == {f, [f EXCEPT !.active = sha], Switched(f, sha)}

\* A switch that is cut off may leave no directory, or one ahead of the marker.
SwitchCut(f, sha) == SwitchFailed(f, sha) \cup {[f EXCEPT !.live = None], [f EXCEPT !.live = sha]}

writeManagedFunctionState(f, cur, prev) == [f EXCEPT !.current = cur, !.previous = prev]

\* StageFunctionRelease extracts the archive, ActivateFunctionRelease renames
\* it into releases/; a release that is there already is only switched to
\* again, and only when it is the current one.
Staged(f, sha) == [f EXCEPT !.releases = @ \cup {sha}]

CanActivate(f, sha) == (sha \notin f.releases \/ f.current = sha) /\ CanSwitch(Staged(f, sha), sha)

Unpruned(f, sha) == writeManagedFunctionState(Switched(Staged(f, sha), sha), sha, f.current)

pruneFunctionReleases(f) == [f EXCEPT !.releases = @ \cap {f.current, f.previous}]

ActivateFunctionRelease(f, sha) ==
    IF sha \in f.releases THEN Switched(f, sha) ELSE pruneFunctionReleases(Unpruned(f, sha))

CanRollback(f) == f.current # None /\ f.previous # None /\ CanSwitch(f, f.previous)

\* Mutant: the release that was left is not remembered.
RollbackForgets(f) == writeManagedFunctionState(Switched(f, f.previous), f.current, f.previous)

RollbackFunctionRelease(f) == writeManagedFunctionState(Switched(f, f.previous), f.previous, f.current)

CanRestore(f, act) == act.previous # None /\ CanSwitch(f, act.previous)

RestoreFunctionRelease(f, act) ==
    writeManagedFunctionState(Switched(f, act.previous), act.previous, act.current)

CanDelete(f) == f.current # None /\ (f.live = None \/ isManagedFunctionDirectory(f))

\* The directory is removed, then everything the Manager keeps, in any order.
DeleteFailed(f) ==
    {f} \cup [releases : SUBSET f.releases, live : {None}, active : {f.active, None},
              current : {f.current}, previous : {f.previous}]
        \cup [releases : SUBSET f.releases, live : {None}, active : {f.active, None},
              current : {None}, previous : {None}]

-----------------------------------------------------------------------------
(***************************************************************************)
(* FunctionService of the Provisioner.                                     *)
(***************************************************************************)
Active(w) == call[w] # None /\ call[w].at # "answered"
At(w, at) == call[w] # None /\ call[w].at = at

\* The answer of a call whose Manager is gone reaches nobody.
Answer(w, answer) ==
    call' = [call EXCEPT ![w] = IF @.alive THEN [@ EXCEPT !.at = "answered", !.answer = answer] ELSE None]

Goto(w, at) == call' = [call EXCEPT ![w].at = at]

Allowed(w) ==
    CASE call[w].kind = "DEPLOY" -> CanActivate(files, call[w].sha)
      [] call[w].kind = "ROLLBACK" -> CanRollback(files)
      [] call[w].kind = "DELETE" -> CanDelete(files)

Result(w) ==
    CASE call[w].kind = "DEPLOY" -> ActivateFunctionRelease(files, call[w].sha)
      [] call[w].kind = "ROLLBACK" -> RollbackFunctionRelease(files)
      [] call[w].kind = "DELETE" -> NoFiles

\* What a file operation leaves behind when it fails, or when it is cut off.
Broken(w, Cut(_, _)) ==
    LET sha == call[w].sha IN
    CASE call[w].at = "restore" /\ CanRestore(files, call[w].act) -> Cut(files, call[w].act.previous)
      [] call[w].at = "files" /\ Allowed(w) /\ call[w].kind = "DEPLOY" ->
            {files, Staged(files, sha)} \cup Cut(Staged(files, sha), sha)
              \cup IF sha \in files.releases THEN {} ELSE {Unpruned(files, sha)}
      [] call[w].at = "files" /\ Allowed(w) /\ call[w].kind = "ROLLBACK" ->
            Cut(files, files.previous) \cup {RollbackFunctionRelease(files)}
      [] call[w].at = "files" /\ Allowed(w) /\ call[w].kind = "DELETE" -> DeleteFailed(files)
      [] OTHER -> {files}

\* What is live is what is published, and what is published is kept.
Agrees(f) ==
    /\ f.live \in Archives => f.live = f.current /\ f.live = f.active
    /\ f.current # None => f.live = f.current /\ f.current \in f.releases
Retained(f) == f.previous # None => f.previous \in f.releases
Consistent(f) == Agrees(f) /\ Retained(f)

Replace(f) == files' = f /\ torn' = (torn /\ ~Consistent(f))
Break(F) == files' \in F /\ torn' = (torn \/ files' # files)

\* Deploy up to the activation, Rollback and Delete up to the restart.
FileOperation(w) ==
    /\ At(w, "files")
    /\ LET after == Result(w)
           act == [current |-> after.current, previous |-> after.previous]
           next == call' = [call EXCEPT ![w].at = "restart", ![w].act = act]
       IN \/ Allowed(w) /\ Replace(after) /\ next /\ NoFault
          \/ /\ Allowed(w) /\ call[w].kind = "DEPLOY" /\ call[w].sha \notin files.releases
             /\ Replace(Unpruned(files, call[w].sha)) /\ next /\ Fault
          \/ ~Allowed(w) /\ Answer(w, "error") /\ UNCHANGED <<files, torn>> /\ NoFault
          \/ Allowed(w) /\ Break(Broken(w, SwitchFailed)) /\ Answer(w, "error") /\ Fault
    /\ UNCHANGED <<loaded, managed>>

\* docker compose restart functions; it is killed when the Manager is gone.
\* A restart that fails may have loaded the function.
RestartOk(w) == call[w].alive /\ loaded' = files.live /\ NoFault
RestartFails(w) == loaded' = Unknown /\ IF call[w].alive THEN Fault ELSE NoFault

Restart(w) ==
    /\ At(w, "restart")
    /\ \/ RestartOk(w) /\ Answer(w, "ok")
       \/ RestartFails(w) /\ IF call[w].kind = "DEPLOY" THEN Goto(w, "restore") ELSE Answer(w, "error")
    /\ UNCHANGED <<files, torn, managed>>

\* Mutant: the container is not restarted after the release was restored.
RestoreOnly(w) ==
    /\ At(w, "restore")
    /\ \/ /\ CanRestore(files, call[w].act)
          /\ Replace(RestoreFunctionRelease(files, call[w].act)) /\ Answer(w, "rolledback") /\ NoFault
          /\ loaded' = call[w].act.current
       \/ /\ ~CanRestore(files, call[w].act)
          /\ Answer(w, "error") /\ UNCHANGED <<files, torn, loaded>> /\ NoFault
    /\ UNCHANGED managed

Restore(w) ==
    /\ At(w, "restore")
    /\ LET act == call[w].act IN
         \/ CanRestore(files, act) /\ Replace(RestoreFunctionRelease(files, act)) /\ Goto(w, "again") /\ NoFault
         \/ ~CanRestore(files, act) /\ Answer(w, "error") /\ UNCHANGED <<files, torn>> /\ NoFault
         \/ CanRestore(files, act) /\ Break(Broken(w, SwitchFailed)) /\ Answer(w, "error") /\ Fault
    /\ UNCHANGED <<loaded, managed>>

RestartAgain(w) ==
    /\ At(w, "again")
    /\ \/ RestartOk(w) /\ Answer(w, "rolledback")
       \/ RestartFails(w) /\ Answer(w, "error")
    /\ UNCHANGED <<files, torn, managed>>

Provisioner(w) == FileOperation(w) \/ Restart(w) \/ Restore(w) \/ RestartAgain(w)

\* The Provisioner restarts in the middle of its calls.
ProvisionerRestart ==
    /\ Fault /\ \E w \in Workers : Active(w) /\ Break(Broken(w, SwitchCut))
    /\ loaded' = IF \E w \in Workers : Active(w) /\ call[w].at # "files" THEN Unknown ELSE loaded
    /\ call' = [w \in Workers |->
                  CASE ~Active(w) -> call[w]
                    [] Active(w) /\ call[w].alive -> [call[w] EXCEPT !.at = "answered", !.answer = "error"]
                    [] OTHER -> None]
    /\ UNCHANGED managed

-----------------------------------------------------------------------------
(***************************************************************************)
(* functions.Service of the Manager.                                       *)
(***************************************************************************)
ActiveStatus == {"QUEUED", "RUNNING", "ROLLING_BACK"}
ActiveOps == {i \in DOMAIN op : op[i] # None /\ op[i].status \in ActiveStatus}
Driven(i) == \E w \in Workers : (work[w] # None /\ work[w].op = i) \/ (Active(w) /\ call[w].op = i)

\* The goroutine starts to run the operation, whose status it has seen.
Drive(w, i, seen, sched) ==
    /\ work' = [work EXCEPT ![w] = [op |-> i, at |-> IF seen = "QUEUED" THEN "start" ELSE "step",
                                    checked |-> FALSE, rolled |-> FALSE, sched |-> sched]]
    /\ shared' = (shared \/ Driven(i))

Free(w) == work[w] = None /\ call[w] = None
NextFree(w) == Free(w) /\ w = CHOOSE v \in Workers : Free(v)

\* QueueDeploy, QueueRollback and QueueDelete, with AdmitFunctionOperation: the
\* newest active operation is driven once more when it is of the same kind, and
\* the archive of a second upload is dropped; one of another kind refuses.
Queue(w, kind, sha) ==
    /\ NextFree(w) /\ requests < MaxRequests /\ requests' = requests + 1
    /\ kind = "DEPLOY" <=> sha # None
    /\ IF ActiveOps = {}
       THEN /\ op' = [op EXCEPT ![requests + 1] =
                        [kind |-> kind, sha |-> sha, status |-> "QUEUED", again |-> FALSE,
                         current |-> files.current, previous |-> files.previous]]
            /\ spool' = IF kind = "DEPLOY" THEN spool \cup {requests + 1} ELSE spool
            /\ Drive(w, requests + 1, "QUEUED", FALSE)
       ELSE /\ \E i \in ActiveOps :
                 /\ \A j \in ActiveOps : j <= i
                 /\ IF op[i].kind = kind
                    THEN Drive(w, i, op[i].status, FALSE) /\ op' = [op EXCEPT ![i].again = TRUE]
                    ELSE UNCHANGED <<op, work, shared>>
            /\ UNCHANGED spool
    /\ UNCHANGED <<provisioned, call, faults>>

\* Mutant: an operation that had started is not taken up again.
ResumeQueued == {i \in DOMAIN op : op[i] # None /\ op[i].status = "QUEUED"}

ListActiveOperations == {i \in DOMAIN op : op[i] # None /\ op[i].status \in {"QUEUED", "RUNNING"}}

\* At start and every minute; one round ends before the next begins.
Resume(w) ==
    /\ NextFree(w) /\ \A v \in Workers : work[v] # None => ~work[v].sched
    /\ \E i \in ListActiveOperations :
         /\ Drive(w, i, op[i].status, TRUE)
         /\ op' = [op EXCEPT ![i].again = @ \/ ~(op[i].status = "QUEUED" /\ ~Driven(i))]
    /\ UNCHANGED <<provisioned, call, spool, requests, faults>>

(***************************************************************************)
(* Run.  Each change of status is a check and then a write; "step" and     *)
(* "complete" stand for the StartStep and CompleteStep calls around the    *)
(* call of the Provisioner, whose errors are ignored.                      *)
(***************************************************************************)
Changes == {"start", "step", "complete", "succeed", "fail", "undo", "undone"}

Requires(at) ==
    CASE at = "start" -> "QUEUED" [] at = "undo" -> "FAILED" [] at = "undone" -> "ROLLING_BACK" [] OTHER -> "RUNNING"

Makes(at) ==
    CASE at = "succeed" -> "SUCCEEDED" [] at = "fail" -> "FAILED" [] at = "undo" -> "ROLLING_BACK"
      [] at = "undone" -> "ROLLED_BACK" [] OTHER -> "RUNNING"

\* Mutant: the rollback is begun and not completed.
DoneUndoing(r) ==
    CASE r.at = "start" -> "step" [] r.at = "step" -> "call" [] r.at = "complete" -> "succeed"
      [] r.at = "fail" /\ r.rolled -> "undo" [] OTHER -> "end"

Done(r) ==
    CASE r.at = "start" -> "step" [] r.at = "step" -> "call" [] r.at = "complete" -> "succeed"
      [] r.at = "fail" /\ r.rolled -> "undo" [] r.at = "undo" -> "undone" [] OTHER -> "end"

Refused(at) == CASE at = "step" -> "call" [] at = "complete" -> "succeed" [] OTHER -> "end"

Moved(r, at) == IF at = "end" THEN None ELSE [r EXCEPT !.at = at, !.checked = FALSE]
On(w, S) == work[w] # None /\ work[w].at \in S

requireStatus(w) ==
    /\ On(w, Changes) /\ ~work[w].checked
    /\ LET r == work[w] IN
         work' = [work EXCEPT ![w] = IF op[r.op].status = Requires(r.at)
                                     THEN [r EXCEPT !.checked = TRUE] ELSE Moved(r, Refused(r.at))]
    /\ UNCHANGED <<provisioned, call, op, spool, requests, faults, shared>>

update(w) ==
    /\ On(w, Changes) /\ work[w].checked
    /\ LET r == work[w] IN
         /\ op' = [op EXCEPT ![r.op].status = Makes(r.at)]
         /\ work' = [work EXCEPT ![w] = Moved(r, Done(r))]
    /\ UNCHANGED <<provisioned, call, spool, requests, faults, shared>>

\* A deployment whose archive is gone from the spool fails without a call.
CallProvisioner(w) ==
    /\ On(w, {"call"})
    /\ LET i == work[w].op IN
         IF op[i].kind = "DEPLOY" /\ i \notin spool
         THEN work' = [work EXCEPT ![w].at = "fail"] /\ UNCHANGED call
         ELSE /\ work' = [work EXCEPT ![w].at = "wait"]
              /\ call' = [call EXCEPT ![w] = [op |-> i, kind |-> op[i].kind, sha |-> op[i].sha,
                                              at |-> "files", alive |-> TRUE, act |-> None, answer |-> None]]
    /\ UNCHANGED <<provisioned, op, spool, requests, faults, shared>>

\* Mutant: the error of the Provisioner is not looked at.
ReturnOk(w) ==
    /\ On(w, {"wait"}) /\ At(w, "answered")
    /\ spool' = spool \ {work[w].op} /\ call' = [call EXCEPT ![w] = None]
    /\ work' = [work EXCEPT ![w].at = "complete"]
    /\ UNCHANGED <<provisioned, op, requests, faults, shared>>

\* The spool is emptied before the outcome is recorded.
CallReturned(w) ==
    /\ On(w, {"wait"}) /\ At(w, "answered")
    /\ spool' = spool \ {work[w].op} /\ call' = [call EXCEPT ![w] = None]
    /\ work' = [work EXCEPT ![w].at = IF call[w].answer = "ok" THEN "complete" ELSE "fail",
                            ![w].rolled = call[w].answer = "rolledback"]
    /\ UNCHANGED <<provisioned, op, requests, faults, shared>>

Run(w) == requireStatus(w) \/ update(w) \/ CallProvisioner(w) \/ CallReturned(w)

\* Mutant: calls outlive the Manager that made them.
RestartKeepsCalls ==
    /\ Fault /\ \E w \in Workers : work[w] # None
    /\ work' = [w \in Workers |-> None]
    /\ UNCHANGED <<provisioned, call, op, spool, requests, shared>>

\* The Manager restarts; the contexts of its calls are cancelled.
ManagerRestart ==
    /\ Fault /\ \E w \in Workers : work[w] # None
    /\ work' = [w \in Workers |-> None]
    /\ call' = [w \in Workers |-> IF Active(w) THEN [call[w] EXCEPT !.alive = FALSE] ELSE None]
    /\ UNCHANGED <<provisioned, op, spool, requests, shared>>

-----------------------------------------------------------------------------
ShaOrNone == Archives \cup {None}
Operation ==
    [kind : Kinds, sha : ShaOrNone, status : Statuses, again : BOOLEAN,
     current : ShaOrNone, previous : ShaOrNone]
Goroutine ==
    [op : 1..MaxRequests, at : Changes \cup {"call", "wait"}, checked : BOOLEAN,
     rolled : BOOLEAN, sched : BOOLEAN]
\* What state.json says.
Published == [current : ShaOrNone, previous : ShaOrNone]
Call ==
    [op : 1..MaxRequests, kind : Kinds, sha : ShaOrNone, alive : BOOLEAN,
     at : {"files", "restart", "restore", "again", "answered"},
     act : {None} \cup Published,
     answer : {None, "ok", "rolledback", "error"}]

\* Nothing is there, or a directory of the user's, or what earlier
\* deployments published.
ASSUME FunctionAssumption ==
    /\ MaxRequests \in Nat /\ MaxFaults \in Nat
    /\ None \notin Archives \cup Operation \cup Goroutine \cup Call \cup Published
    /\ Foreign \notin Archives
    /\ StartFiles \subseteq FileStates /\ \A f \in StartFiles : Consistent(f)

FnInit ==
    /\ files \in StartFiles
    /\ loaded = files.live
    /\ op = [i \in 1..MaxRequests |-> None] /\ spool = {}
    /\ work = [w \in Workers |-> None] /\ call = [w \in Workers |-> None]
    /\ requests = 0 /\ faults = 0
    /\ torn = FALSE /\ shared = FALSE

Idle == \A w \in Workers : Free(w)

FnNext ==
    \/ \E w \in Workers, kind \in Kinds, sha \in Archives \cup {None} : Queue(w, kind, sha)
    \/ \E w \in Workers : Resume(w) \/ Run(w) \/ Provisioner(w)
    \/ ProvisionerRestart \/ ManagerRestart
    \/ Idle /\ requests = MaxRequests /\ UNCHANGED fnVars

\* Goroutines run on, Docker commands end and the ticker keeps ticking;
\* nobody needs to send a request.
FnFairness ==
    /\ \A w \in Workers : WF_fnVars(Run(w) \/ Provisioner(w))
    /\ WF_fnVars(\E w \in Workers : Resume(w))

FnSpec == FnInit /\ [][FnNext]_fnVars
FairFnSpec == FnSpec /\ FnFairness

-----------------------------------------------------------------------------
\* The type of every variable; a call is alive exactly while a goroutine of
\* the Manager waits for it.
FnTypeOK ==
    /\ files \in FileStates /\ loaded \in Archives \cup {None, Foreign, Unknown}
    /\ op \in [1..MaxRequests -> {None} \cup Operation] /\ spool \subseteq DOMAIN op
    /\ work \in [Workers -> {None} \cup Goroutine] /\ call \in [Workers -> {None} \cup Call]
    /\ requests \in 0..MaxRequests /\ faults \in 0..MaxFaults
    /\ torn \in BOOLEAN /\ shared \in BOOLEAN
    /\ \A w \in Workers : On(w, {"wait"}) <=> (call[w] # None /\ call[w].alive)

\* However many drivers an operation has and whatever fails, as long as no
\* file operation was broken off: the live directory is the release that
\* state.json calls current, and that release is kept.  Unless an operation
\* had two drivers at once, the previous release is kept too, so that a
\* rollback finds what it needs (pruning, restore and the repair of a current
\* release work on the same two).
ReleasesConsistent == ~torn => Agrees(files) /\ (~shared => Retained(files))

\* When nothing is under way, and nothing was broken off, the container
\* runs what is live: no release is published, restored or deleted after the
\* restart that was to load it (runtime/functions.go 86 to 94).
LiveIsLoaded == Idle /\ ~torn /\ loaded # Unknown => loaded = files.live

LastOp == CHOOSE i \in DOMAIN op : op[i] # None /\ \A j \in DOMAIN op : op[j] # None => j <= i

\* What an operation that was undone leaves current: what was current before,
\* or, of a deployment of the current release, the one before that.
RolledTo(o) ==
    \/ files.current = o.current
    \/ o.kind = "DEPLOY" /\ o.sha = o.current /\ files.current = o.previous

\* The status of the last operation is true of the releases, provided that
\* no operation had two drivers at once: a deployment that SUCCEEDED is
\* current, even when it was resumed after a restart; one that was ROLLED_BACK
\* was undone, and so was an operation that FAILED in its first run.
StatusTellsRelease ==
    Idle /\ ~torn /\ loaded # Unknown /\ ~shared /\ (\E i \in DOMAIN op : op[i] # None) =>
        LET o == op[LastOp] IN
        CASE o.status = "SUCCEEDED" /\ o.kind = "DEPLOY" -> files.current = o.sha
          [] o.status = "SUCCEEDED" /\ o.kind = "ROLLBACK" /\ ~o.again -> files.current = o.previous
          [] o.status = "SUCCEEDED" /\ o.kind = "DELETE" -> files = NoFiles
          [] o.status = "ROLLED_BACK" -> RolledTo(o)
          [] o.status = "FAILED" /\ ~o.again -> RolledTo(o)
          [] OTHER -> TRUE

Unsettled == \E i \in DOMAIN op : op[i] # None /\ op[i].status \in {"QUEUED", "RUNNING"}

\* What is queued gets an end, over restarts of the Manager and of the
\* Provisioner.  (Nothing takes up an operation that a restart leaves in
\* ROLLING_BACK, which then refuses every other.)
FunctionOpsSettle == Unsettled ~> ~Unsettled

RollbackLeft ==
    \E i \in DOMAIN op : /\ op[i] # None /\ op[i].status = "ROLLING_BACK"
                         /\ ~\E w \in Workers : On(w, {"undone"}) /\ work[w].op = i

\* ROLLING_BACK has no way out but the goroutine that wrote it, and refuses the
\* project every other function operation (functions/service.go 165).  However
\* many goroutines drive an operation, only a restart of the Manager leaves
\* one in that status with nobody to complete it.
RollbackCompleted == [][RollbackLeft' => RollbackLeft \/ ManagerRestart]_fnVars
=============================================================================
