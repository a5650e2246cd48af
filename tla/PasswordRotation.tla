--------------------------- MODULE PasswordRotation ---------------------------
(***************************************************************************)
(* Rotation of a project's database password: the Manager's worker and its *)
(* recovery (configuration/orchestrator.go), the Provisioner's journalled  *)
(* rotation, rollback and confirmation (provisioner runtime/rotate.go) and *)
(* the runtime they change: the role password in PostgreSQL, the selected  *)
(* generation of runtime files, and the containers recreated from it.      *)
(*                                                                         *)
(* The secret of ConfigurationStore is the database password.  Rotation o  *)
(* generates one password, called o.  A generation of runtime files is the *)
(* password rendered into it.  Manager and Provisioner talk over HTTP: a   *)
(* call waits for the Provisioner's metadata lock, runs step by step and   *)
(* is answered, and the connection may be lost at any time.  The steps of  *)
(* a call run under the connection's context: once it is lost, commands    *)
(* fail and file operations do not.                                        *)
(***************************************************************************)
EXTENDS ConfigurationStore

CONSTANTS
    Server,      \* the project whose password is rotated
    Workers,     \* Manager goroutines
    MaxRequests, \* bound on requests for a rotation
    MaxFaults,   \* bound on failures, restarts and lost connections
    MaxEvents    \* bound on requests and faults together

ASSUME RotationAssumption ==
    /\ Server \in Installed
    /\ Ops \subseteq Secrets
    /\ InitialSecret[Server] \in Secrets \ Ops
    /\ MaxRequests \in Nat /\ MaxFaults \in Nat /\ MaxEvents \in Nat
    /\ {"RUNNING", "FAILED", "ROLLING_BACK", "ROLLED_BACK", "SUCCEEDED"} \subseteq StatusWrites
    /\ {"RUNTIME_COMMITTED", "ROLLBACK_PENDING", "ROLLBACK_CONFIRMED"} \subseteq PhaseWrites

VARIABLES
    lock,      \* the project's one-slot channel is full
    requests,  \* requests made so far
    queue,     \* None, or the revision the request being queued has read
    entries,   \* active operations the scheduler has listed and not yet seen to
    worker,    \* Manager goroutines
    tails,     \* deferred releases of goroutines started by Resume
    step,      \* operations.current_step, as far as recovery reads it
    meta,      \* the Provisioner's project.json
    calls,     \* requests waiting for the metadata lock
    exec,      \* the request that holds it
    dbpw,      \* the password of the database roles
    env,       \* the selected generation of runtime files
    running,   \* the generation the dependent containers were created from
    faults,
    compensated, \* history: the rotations whose rollback was ever asked for
    retried      \* history: the rotations begun again over their own changes or beside another goroutine

managerVars == <<lock, requests, queue, entries, worker, tails, step>>
runtimeVars == <<dbpw, env, running>>
provVars == <<meta, calls, exec>>
stepVars == <<storeVars, managerVars, runtimeVars, provVars, faults>>
rotVars == <<stepVars, compensated, retried>>

Old == InitialSecret[Server]

\* What a call of the Provisioner comes back with: success; a rejected
\* revision; an error that does not say what happened; and the known failures
\* of a rotation, before the runtime changed, undone, and not undone.
Outcomes == {"ok", "rejected", "unknown", "unchanged", "undone", "broken"}
Kept == {"ok", "unchanged", "undone", "broken"}
CallKinds == {"rotate", "rollback", "confirm"}

Idle == [pc |-> "idle", op |-> None, seen |-> "", step |-> "", fence |-> 1, old |-> None,
         reply |-> "", back |-> FALSE, recovery |-> "", resumed |-> FALSE]

WorkerSteps == {"idle", "start", "recover", "prepare", "reconcile", "rotating", "mark", "publish",
                "confirming", "good", "compensate", "rolling", "restore", "fail", "begin",
                "complete", "succeed", "exit"}
CallSteps == {"start", "stage", "alter", "recreate", "verify", "commit"}

OperationSteps == {"", "EARLY", "MARK_CONFIGURATION_GOOD"}
JournalPhases == {"prepared", "runtime-published", "db-rotated", "provisioner-committed"}

Token == [op : Ops, fence : Fences]
Entry == [op : Ops, seen : Active, step : OperationSteps]
Goroutine == [pc : WorkerSteps, op : Ops \cup {None}, seen : Statuses \cup {""},
              step : OperationSteps, fence : Fences, old : Secrets \cup {None},
              reply : Outcomes \cup {""}, back : BOOLEAN,
              recovery : {"", "confirmed", "rolled"}, resumed : BOOLEAN]
Request == [by : Workers, kind : CallKinds, op : Ops, fence : Fences,
            old : Secrets \cup {None}, new : Secrets \cup {None}, live : BOOLEAN]
Execution == [by : Workers, kind : CallKinds, op : Ops, fence : Fences,
              old : Secrets \cup {None}, new : Secrets \cup {None}, live : BOOLEAN,
              pc : CallSteps, anchor : Secrets, previous : Secrets]
Journal == [op : Ops, phase : JournalPhases, anchor : Secrets]
Metadata == [rev : Revisions, fence : 0..MaxFence, journal : Journal \cup {None},
             kept : [Ops -> Kept \cup {None}], rolledBack : SUBSET Ops]

ASSUME RecordAssumption == None \notin Kept \cup Journal \cup Execution

\* The type of every variable of both processes and of the runtime.
RotTypeOK ==
    /\ TypeOK
    /\ lock \in BOOLEAN
    /\ requests \in 0..MaxRequests
    /\ queue \in Revisions \cup {None}
    /\ entries \subseteq Entry
    /\ worker \in [Workers -> Goroutine]
    /\ tails \subseteq Token
    /\ step \in [Ops -> OperationSteps]
    /\ meta \in Metadata
    /\ calls \subseteq Request
    /\ exec \in Execution \cup {None}
    /\ dbpw \in Secrets /\ env \in Secrets /\ running \in Secrets
    /\ faults \in 0..MaxFaults
    /\ compensated \subseteq Ops /\ retried \subseteq Ops

RotInit ==
    /\ Init
    /\ lock = FALSE /\ requests = 0 /\ queue = None /\ entries = {} /\ tails = {}
    /\ worker = [w \in Workers |-> Idle]
    /\ step = [o \in Ops |-> ""]
    /\ meta = [rev |-> 1, fence |-> 0, journal |-> None,
               kept |-> [o \in Ops |-> None], rolledBack |-> {}]
    /\ calls = {} /\ exec = None
    /\ dbpw = Old /\ env = Old /\ running = Old
    /\ faults = 0
    /\ compensated = {} /\ retried = {}

\* The failures of this model are bounded together.
Fault == faults < MaxFaults /\ requests + faults < MaxEvents /\ faults' = faults + 1
NoFault == UNCHANGED faults

Rev(o) == payload[o].rev

\* GetSecretAtRevision.
SecretAt(r) == IF rows[Server][r] = None THEN None ELSE rows[Server][r].secrets

-----------------------------------------------------------------------------
(* Requests and the scheduler.                                             *)

\* QueueDatabasePasswordRotation does not look for an active operation.
QueueRead ==
    /\ requests < MaxRequests /\ requests + faults < MaxEvents
    /\ requests' = requests + 1
    /\ ~lock /\ queue = None
    /\ lock' = TRUE
    /\ queue' = rev[Server]
    /\ UNCHANGED <<storeVars, entries, worker, tails, step, runtimeVars, provVars, faults>>

\* The admission, or its refusal.
QueueAdmit ==
    /\ queue # None
    /\ \/ \E o \in Ops, w \in Workers :
            /\ worker[w].pc = "idle"
            /\ AdmitConfiguration(Server, o, queue, canonical[Server], None)
            /\ worker' = [worker EXCEPT ![w] = [Idle EXCEPT !.pc = "start", !.op = o,
                                                  !.seen = "QUEUED", !.fence = lease'[Server].fence]]
            /\ UNCHANGED lock
       \/ /\ lock' = FALSE
          /\ UNCHANGED <<storeVars, worker>>
    /\ queue' = None
    /\ UNCHANGED <<entries, tails, requests, step, runtimeVars, provVars, faults>>

ListActive ==
    /\ entries = {}
    /\ entries' = {[op |-> o, seen |-> ops[o].status, step |-> step[o]] :
                     o \in {q \in Ops : ops[q] # None /\ ops[q].status \in Active}}
    /\ UNCHANGED <<storeVars, lock, queue, worker, tails, requests, step, runtimeVars, provVars, faults>>

\* An entry is passed over when the project is locked or its lease is held.
Resume(e) ==
    /\ e \in entries
    /\ entries' = entries \ {e}
    /\ \/ \E w \in Workers :
            /\ ~lock /\ worker[w].pc = "idle"
            /\ AcquireConfigurationLeaseForOperation(Server, e.op)
            /\ lock' = TRUE
            /\ worker' = [worker EXCEPT ![w] = [Idle EXCEPT !.pc = "start", !.op = e.op,
                                                  !.seen = e.seen, !.step = e.step, !.resumed = TRUE,
                                                  !.fence = lease'[Server].fence]]
       \/ /\ lock \/ ~CanTakeLease(Server)
          /\ UNCHANGED <<storeVars, lock, worker>>
    /\ UNCHANGED <<queue, tails, requests, step, runtimeVars, provVars, faults>>

-----------------------------------------------------------------------------
(* RunDatabasePasswordRotation.                                            *)

Goto(w, pc) == worker' = [worker EXCEPT ![w].pc = pc, ![w].reply = ""]
GotoWith(w, pc, back) == worker' = [worker EXCEPT ![w].pc = pc, ![w].reply = "", ![w].back = back]
At(w, pc) == worker[w].pc = pc
Replied(w, pc) == worker[w].pc = pc /\ worker[w].reply # ""

\* A request leaves the Manager.
Send(w, kind, old, new) ==
    calls' = calls \cup {[by |-> w, kind |-> kind, op |-> worker[w].op, fence |-> worker[w].fence,
                          old |-> old, new |-> new, live |-> TRUE]}

Start(w) ==
    LET o == worker[w].op
        seen == worker[w].seen
    IN
    /\ At(w, "start")
    /\ IF seen = "QUEUED" /\ ops[o].status = "QUEUED"
         THEN UpdateOperation(o, "RUNNING") /\ Goto(w, "recover")
         ELSE /\ Goto(w, IF seen = "RUNNING" THEN "recover" ELSE "exit")
              /\ UNCHANGED storeVars
    /\ UNCHANGED <<lock, queue, entries, tails, requests, step, runtimeVars, provVars, faults>>

\* Where a rotation that was begun before goes on.  The step is the one the
\* scheduler read when it listed the operation.
Recover(w) ==
    LET o == worker[w].op
        phase == ops[o].phase
        marking == worker[w].step = "MARK_CONFIGURATION_GOOD"
        published == lastGood[Server] >= Rev(o)
    IN
    /\ At(w, "recover")
    /\ IF phase = "COMMITTED" /\ published THEN Goto(w, "succeed") /\ UNCHANGED calls
       ELSE IF phase = "STATE_RESTORED" THEN GotoWith(w, "fail", TRUE) /\ UNCHANGED calls
       ELSE IF marking /\ phase = "ROLLBACK_CONFIRMED"
         THEN /\ worker' = [worker EXCEPT ![w].pc = "restore", ![w].back = TRUE,
                                          ![w].recovery = "confirmed"]
              /\ UNCHANGED calls
       ELSE IF marking /\ phase \in {"ROLLBACK_PENDING", "RUNTIME_COMMITTED"}
                       /\ SecretAt(Rev(o) - 1) # None
         THEN /\ worker' = [worker EXCEPT ![w].pc = "rolling", ![w].recovery = "rolled"]
              /\ Send(w, "rollback", o, SecretAt(Rev(o) - 1))
       ELSE Goto(w, IF published THEN "succeed" ELSE "prepare") /\ UNCHANGED calls
    /\ UNCHANGED <<storeVars, lock, queue, entries, tails, requests, step, runtimeVars, meta, exec, faults>>

\* VALIDATE, SAVE and RENDER; a lost lease gives the candidate up first.
Prepare(w) ==
    LET o == worker[w].op IN
    /\ At(w, "prepare")
    /\ IF ops[o].status # "RUNNING"
         THEN Goto(w, "exit") /\ UNCHANGED step /\ NoFault
         ELSE /\ step' = [step EXCEPT ![o] = "EARLY"]
              /\ \/ Goto(w, "reconcile") /\ NoFault
                 \/ GotoWith(w, "restore", FALSE) /\ Fault
                 \/ GotoWith(w, "fail", FALSE) /\ Fault
    /\ UNCHANGED <<storeVars, lock, queue, entries, requests, tails, runtimeVars, provVars>>

\* The credential that is to be replaced.
OldPassword(o) == IF SecretAt(Rev(o) - 1) # None THEN SecretAt(Rev(o) - 1) ELSE secret[Server]

ReconcileServices(w) ==
    LET o == worker[w].op IN
    /\ At(w, "reconcile")
    /\ \/ /\ OwnsConfigurationLease(Server, o, worker[w].fence)
          /\ worker' = [worker EXCEPT ![w].pc = "rotating", ![w].old = OldPassword(o)]
          /\ Send(w, "rotate", OldPassword(o), o)
          /\ NoFault
       \/ /\ IF OwnsConfigurationLease(Server, o, worker[w].fence) THEN Fault ELSE NoFault
          /\ GotoWith(w, "fail", FALSE)
          /\ UNCHANGED calls
    /\ UNCHANGED <<storeVars, lock, queue, entries, tails, requests, step, runtimeVars, meta, exec>>

\* What the Manager makes of an answer.
isRejectedRuntimeRevision(reply) == reply = "rejected"
runtimeOutcomeKnown(reply) == reply \in {"unchanged", "undone", "broken"}
reconcileRollback(reply) == reply = "undone"
shouldRestoreConfiguration(reply) == reply \in {"unchanged", "undone"}

\* Mutant: a rejected revision is left to the scheduler.
RotatedRejectedAgain(w) ==
    LET reply == worker[w].reply IN
    /\ Replied(w, "rotating")
    /\ IF reply = "ok"
         THEN SetOperationCompensation(worker[w].op, "RUNTIME_COMMITTED") /\ Goto(w, "mark")
         ELSE /\ IF ~runtimeOutcomeKnown(reply)
                   THEN Goto(w, "exit")
                   ELSE GotoWith(w, IF shouldRestoreConfiguration(reply) THEN "restore" ELSE "fail",
                                 reconcileRollback(reply))
              /\ UNCHANGED storeVars
    /\ UNCHANGED <<lock, queue, entries, tails, requests, step, runtimeVars, provVars, faults>>

\* A rejected revision and a failure that left or put back the runtime give the
\* candidate up; an unknown outcome leaves the operation to the scheduler.
Rotated(w) ==
    LET reply == worker[w].reply IN
    /\ Replied(w, "rotating")
    /\ IF reply = "ok"
         THEN SetOperationCompensation(worker[w].op, "RUNTIME_COMMITTED") /\ Goto(w, "mark")
         ELSE /\ IF ~(isRejectedRuntimeRevision(reply) \/ runtimeOutcomeKnown(reply))
                   THEN Goto(w, "exit")
                   ELSE GotoWith(w, IF \/ isRejectedRuntimeRevision(reply)
                                       \/ shouldRestoreConfiguration(reply) THEN "restore" ELSE "fail",
                                 reconcileRollback(reply))
              /\ UNCHANGED storeVars
    /\ UNCHANGED <<lock, queue, entries, tails, requests, step, runtimeVars, provVars, faults>>

\* VERIFY and the start of MARK_CONFIGURATION_GOOD.
Mark(w) ==
    LET o == worker[w].op IN
    /\ At(w, "mark")
    /\ IF ops[o].status = "RUNNING"
         THEN step' = [step EXCEPT ![o] = "MARK_CONFIGURATION_GOOD"] /\ Goto(w, "publish")
         ELSE Goto(w, "exit") /\ UNCHANGED step
    /\ UNCHANGED <<storeVars, lock, queue, entries, requests, tails, runtimeVars, provVars, faults>>

Publish(w) ==
    LET o == worker[w].op IN
    /\ At(w, "publish")
    /\ \/ /\ PublishConfigurationSecret(Server, Rev(o), o)
          /\ Goto(w, "confirming")
          /\ Send(w, "confirm", None, None)
          /\ NoFault
       \/ /\ IF rev[Server] = Rev(o) THEN Fault ELSE NoFault
          /\ Goto(w, "compensate")
          /\ UNCHANGED <<storeVars, calls>>
    /\ UNCHANGED <<lock, queue, entries, tails, requests, step, runtimeVars, meta, exec>>

Confirmed(w) ==
    /\ Replied(w, "confirming")
    /\ Goto(w, IF worker[w].reply = "ok" THEN "good" ELSE "compensate")
    /\ UNCHANGED <<storeVars, lock, queue, entries, tails, requests, step, runtimeVars, provVars, faults>>

Good(w) ==
    LET o == worker[w].op
        f == worker[w].fence
    IN
    /\ At(w, "good")
    /\ \/ MarkConfigurationGoodOwned(Server, o, f) /\ Goto(w, "succeed")
       \/ /\ ~(OwnsCandidate(Server, o, f) /\ rows[Server][rev[Server]] # None)
          /\ Goto(w, "compensate")
          /\ UNCHANGED storeVars
    /\ UNCHANGED <<lock, queue, entries, tails, requests, step, runtimeVars, provVars, faults>>

Compensate(w) ==
    LET o == worker[w].op IN
    /\ At(w, "compensate")
    /\ SetOperationCompensation(o, "ROLLBACK_PENDING")
    /\ Goto(w, "rolling")
    /\ Send(w, "rollback", o, worker[w].old)
    /\ UNCHANGED <<lock, queue, entries, tails, requests, step, runtimeVars, meta, exec, faults>>

\* Any error leaves the operation to the scheduler.
RolledBack(w) ==
    /\ Replied(w, "rolling")
    /\ IF worker[w].reply = "ok"
         THEN /\ SetOperationCompensation(worker[w].op, "ROLLBACK_CONFIRMED")
              /\ GotoWith(w, "restore", TRUE)
         ELSE Goto(w, "exit") /\ UNCHANGED storeVars
    /\ UNCHANGED <<lock, queue, entries, tails, requests, step, runtimeVars, provVars, faults>>

\* The transaction restores, finds its own earlier restoration, or fails.
Restore(w) ==
    LET o == worker[w].op
        f == worker[w].fence
        again == /\ rev[Server] # Rev(o) /\ rev[Server] = lastGood[Server]
                 /\ ops[o].phase = "STATE_RESTORED"
    IN
    /\ At(w, "restore")
    /\ \/ RestoreConfigurationStateOwned(Server, o, f) /\ Goto(w, "fail")
       \/ /\ ~OwnsCandidate(Server, o, f)
          /\ IF again THEN Goto(w, "fail")
             ELSE CASE worker[w].recovery = "" -> GotoWith(w, "fail", FALSE)
                    [] worker[w].recovery = "rolled" -> Goto(w, "exit")
                    [] worker[w].recovery = "confirmed" ->
                         Goto(w, IF lastGood[Server] < Rev(o) THEN "exit" ELSE "fail")
          /\ UNCHANGED storeVars
    /\ UNCHANGED <<lock, queue, entries, tails, requests, step, runtimeVars, provVars, faults>>

\* A write of the operation service whose status check fails is skipped.
Advance(w, pc, required, result, then, otherwise) ==
    /\ At(w, pc)
    /\ IF ops[worker[w].op].status = required
         THEN UpdateOperation(worker[w].op, result) /\ Goto(w, then)
         ELSE UNCHANGED storeVars /\ Goto(w, otherwise)
    /\ UNCHANGED <<lock, queue, entries, tails, requests, step, runtimeVars, provVars, faults>>

fail(w) ==
    LET next == IF worker[w].back THEN "begin" ELSE "exit" IN
    \/ Advance(w, "fail", "RUNNING", "FAILED", next, next)
    \/ Advance(w, "begin", "FAILED", "ROLLING_BACK", "complete", "exit")
    \/ Advance(w, "complete", "ROLLING_BACK", "ROLLED_BACK", "exit", "exit")

Succeed(w) == Advance(w, "succeed", "RUNNING", "SUCCEEDED", "exit", "exit")

\* The deferred releases; Resume's goroutine makes them once more on its own.
Exit(w) ==
    LET token == [op |-> worker[w].op, fence |-> worker[w].fence] IN
    /\ At(w, "exit")
    /\ ReleaseConfigurationLeaseOwned(Server, token.op, token.fence)
    /\ lock' = FALSE
    /\ tails' = IF worker[w].resumed THEN tails \cup {token} ELSE tails
    /\ worker' = [worker EXCEPT ![w] = Idle]
    /\ UNCHANGED <<queue, entries, requests, step, runtimeVars, provVars, faults>>

LateRelease(t) ==
    /\ t \in tails
    /\ ReleaseConfigurationLeaseOwned(Server, t.op, t.fence)
    /\ lock' = FALSE
    /\ tails' = tails \ {t}
    /\ UNCHANGED <<queue, entries, requests, worker, step, runtimeVars, provVars, faults>>

Run(w) ==
    \/ Start(w) \/ Recover(w) \/ Prepare(w) \/ ReconcileServices(w) \/ Rotated(w) \/ Mark(w)
    \/ Publish(w) \/ Confirmed(w) \/ Good(w) \/ Compensate(w) \/ RolledBack(w) \/ Restore(w)
    \/ fail(w) \/ Succeed(w) \/ Exit(w)

-----------------------------------------------------------------------------
(* The Provisioner.  A request holds the metadata lock from Begin to       *)
(* Finish.  The write of project.json that ends a rotation happens on      *)
(* failure too, so that a known failure is replayed.                       *)

\* The answer reaches the goroutine unless the connection is gone.
Finish(outcome) ==
    /\ exec' = None
    /\ worker' = IF exec.live THEN [worker EXCEPT ![exec.by].reply = outcome] ELSE worker

Continue(pc) == exec' = [exec EXCEPT !.pc = pc] /\ UNCHANGED worker
Doing(kind, pc) == exec # None /\ exec.kind = kind /\ exec.pc = pc

\* A command of a live connection succeeds unless there is a fault; without a
\* connection it fails.
Succeeds == exec.live /\ NoFault
Fails == IF exec.live THEN Fault ELSE NoFault

Begin(c) ==
    /\ exec = None /\ c \in calls
    /\ calls' = calls \ {c}
    /\ exec' = [by |-> c.by, kind |-> c.kind, op |-> c.op, fence |-> c.fence, old |-> c.old,
                new |-> c.new, live |-> c.live, pc |-> "start", anchor |-> env, previous |-> env]
    /\ UNCHANGED <<storeVars, managerVars, runtimeVars, meta, faults>>

Keep(outcome) == meta' = [meta EXCEPT !.kept[exec.op] = outcome]
Phase(phase) == meta' = [meta EXCEPT !.journal.phase = phase]

\* Mutant: the anchor is the selected generation even when the journal is there.
RotatePrepareReanchored ==
    /\ Doing("rotate", "start")
    /\ IF meta.kept[exec.op] # None THEN Finish(meta.kept[exec.op]) /\ UNCHANGED meta
       ELSE IF \/ meta.fence > exec.fence
               \/ meta.rev # Rev(exec.op) - 1
               \/ exec.old = exec.new
         THEN Finish("rejected") /\ UNCHANGED meta
       ELSE /\ meta' = [meta EXCEPT !.fence = exec.fence,
                         !.journal = [op |-> exec.op, phase |-> "prepared", anchor |-> env]]
            /\ exec' = [exec EXCEPT !.pc = "stage", !.anchor = env]
            /\ UNCHANGED worker
    /\ NoFault
    /\ UNCHANGED <<runtimeVars, calls>>

\* A kept outcome is replayed and a superseded request rejected.  The fence is
\* claimed; a journal of the same operation keeps its anchor, the generation to
\* go back to, and another one is replaced.
RotatePrepare ==
    LET journal == IF meta.journal # None /\ meta.journal.op = exec.op THEN meta.journal
                   ELSE [op |-> exec.op, phase |-> "prepared", anchor |-> env]
    IN
    /\ Doing("rotate", "start")
    /\ IF meta.kept[exec.op] # None THEN Finish(meta.kept[exec.op]) /\ UNCHANGED meta
       ELSE IF \/ meta.fence > exec.fence
               \/ meta.rev # Rev(exec.op) - 1
               \/ exec.old = exec.new
         THEN Finish("rejected") /\ UNCHANGED meta
       ELSE /\ meta' = [meta EXCEPT !.fence = exec.fence, !.journal = journal]
            /\ exec' = [exec EXCEPT !.pc = "stage", !.anchor = journal.anchor]
            /\ UNCHANGED worker
    /\ NoFault
    /\ UNCHANGED <<runtimeVars, calls>>

\* The new generation is rendered, validated and selected.  When the journal
\* cannot be written it is put back.
RotateStage ==
    /\ Doing("rotate", "stage")
    /\ \/ /\ Succeeds
          /\ env' = exec.new
          /\ Phase("runtime-published")
          /\ exec' = [exec EXCEPT !.pc = "alter", !.previous = env]
          /\ UNCHANGED worker
       \/ /\ Fails
          /\ Keep("unchanged") /\ Finish("unchanged")
          /\ UNCHANGED env
       \/ /\ exec.live /\ Fault
          /\ Keep("undone") /\ Finish("undone")
          /\ UNCHANGED env
    /\ UNCHANGED <<dbpw, running, calls>>

\* A failed command may have changed the roles.  When the journal cannot be
\* written they are changed back; the containers are not recreated yet.
RotateAlter ==
    /\ Doing("rotate", "alter")
    /\ \/ /\ Succeeds
          /\ dbpw' = exec.new
          /\ Phase("db-rotated")
          /\ Continue("recreate")
          /\ UNCHANGED env
       \/ /\ Fails
          /\ dbpw' \in {dbpw, exec.new}
          /\ env' = exec.previous
          /\ Keep("broken") /\ Finish("broken")
       \/ /\ exec.live /\ Fault
          /\ dbpw' = exec.old
          /\ env' = exec.previous
          /\ Keep("undone") /\ Finish("undone")
    /\ UNCHANGED <<running, calls>>

\* Mutant: the generation selected before the rotation is not selected again.
UndoKeepsGeneration(wholly) ==
    /\ UNCHANGED env
    /\ \/ wholly /\ dbpw' = exec.old /\ running' = exec.anchor
       \/ /\ ~wholly
          /\ dbpw' \in {dbpw, exec.old}
          /\ running' \in {running, exec.anchor}

\* rollback: the generation selected before, the old credential, the anchored
\* generation's containers.  It runs under the same context and may stop after
\* any of its commands.
Undo(wholly) ==
    /\ env' = exec.previous
    /\ \/ wholly /\ dbpw' = exec.old /\ running' = exec.anchor
       \/ /\ ~wholly
          /\ dbpw' \in {dbpw, exec.old}
          /\ running' \in {running, exec.anchor}

RotateUndo ==
    \/ Undo(exec.live) /\ exec.live /\ Keep("undone") /\ Finish("undone")
    \/ Undo(FALSE) /\ Keep("broken") /\ Finish("broken")

\* Mutant: the error of the recreation is dropped.
RotateRecreateIgnored ==
    /\ Doing("rotate", "recreate")
    /\ \/ Succeeds /\ running' = exec.new
       \/ Fails /\ UNCHANGED running
    /\ Continue("verify")
    /\ UNCHANGED <<meta, dbpw, env, calls>>

RotateRecreate ==
    /\ Doing("rotate", "recreate")
    /\ \/ Succeeds /\ running' = exec.new /\ Continue("verify") /\ UNCHANGED <<meta, dbpw, env>>
       \/ Fails /\ RotateUndo
    /\ UNCHANGED calls

\* Mutant: an unknown outcome is kept like a known one.
RotateVerifyKept ==
    /\ Doing("rotate", "verify")
    /\ \/ Succeeds /\ Phase("provisioner-committed") /\ Continue("commit") /\ UNCHANGED runtimeVars
       \/ Fails /\ Keep("unknown") /\ Finish("broken") /\ UNCHANGED runtimeVars
       \/ Fails /\ RotateUndo
    /\ UNCHANGED calls

\* When Docker cannot be asked the outcome is unknown: nothing is undone and
\* nothing kept.  The answer is composed anew without RuntimeOutcomeUnknown, so
\* that the Manager takes it for a known failure that was not undone.
RotateVerify ==
    /\ Doing("rotate", "verify")
    /\ \/ Succeeds /\ Phase("provisioner-committed") /\ Continue("commit") /\ UNCHANGED runtimeVars
       \/ Fails /\ Finish("broken") /\ UNCHANGED <<meta, runtimeVars>>
       \/ Fails /\ RotateUndo
    /\ UNCHANGED calls

\* The final write of project.json; without it the runtime is undone and the
\* answer does not say so.
RotateCommit ==
    /\ Doing("rotate", "commit")
    /\ \/ /\ NoFault
          /\ meta' = [meta EXCEPT !.rev = Rev(exec.op), !.kept[exec.op] = "ok"]
          /\ Finish("ok")
          /\ UNCHANGED runtimeVars
       \/ /\ Fault
          /\ Undo(exec.live) \/ Undo(FALSE)
          /\ Finish("unknown")
          /\ UNCHANGED meta
    /\ UNCHANGED calls

\* The old generation is selected: the journal's anchor, or one rendered anew.
RollbackStage ==
    /\ Doing("rollback", "start")
    /\ IF exec.op \in meta.rolledBack THEN Finish("ok") /\ UNCHANGED env /\ NoFault
       ELSE IF meta.rev # Rev(exec.op) \/ meta.fence > exec.fence
         THEN Finish("rejected") /\ UNCHANGED env /\ NoFault
       ELSE \/ /\ meta.journal # None \/ exec.live
               /\ env' = IF meta.journal # None THEN meta.journal.anchor ELSE exec.new
               /\ Continue("alter") /\ NoFault
            \/ meta.journal = None /\ Fails /\ Finish("unknown") /\ UNCHANGED env
    /\ UNCHANGED <<meta, dbpw, running, calls>>

RollbackAlter ==
    /\ Doing("rollback", "alter")
    /\ \/ Succeeds /\ dbpw' = exec.new /\ Continue("recreate")
       \/ Fails /\ dbpw' \in {dbpw, exec.new} /\ Finish("unknown")
    /\ UNCHANGED <<meta, env, running, calls>>

RollbackRecreate ==
    /\ Doing("rollback", "recreate")
    /\ \/ /\ Succeeds
          /\ running' = env
          /\ meta' = [meta EXCEPT !.rev = Rev(exec.op) - 1, !.journal = None,
                                  !.rolledBack = @ \cup {exec.op}]
          /\ Finish("ok")
       \/ Fails /\ running' \in {running, env} /\ Finish("unknown") /\ UNCHANGED meta
    /\ UNCHANGED <<dbpw, env, calls>>

Confirm ==
    /\ Doing("confirm", "start")
    /\ IF \/ meta.rev # Rev(exec.op) \/ meta.fence > exec.fence
          \/ /\ meta.journal # None
             /\ meta.journal.op # exec.op \/ meta.journal.phase # "provisioner-committed"
         THEN Finish("rejected") /\ UNCHANGED meta
         ELSE Finish("ok") /\ meta' = [meta EXCEPT !.journal = None]
    /\ NoFault
    /\ UNCHANGED <<runtimeVars, calls>>

Provision ==
    /\ \/ RotatePrepare \/ RotateStage \/ RotateAlter \/ RotateRecreate \/ RotateVerify
       \/ RotateCommit \/ RollbackStage \/ RollbackAlter \/ RollbackRecreate \/ Confirm
    /\ UNCHANGED <<storeVars, lock, queue, entries, tails, requests, step>>

-----------------------------------------------------------------------------
(* Time and faults.                                                        *)

\* renewLease keeps the lease of a running worker.
Expire ==
    /\ ExpireLease(Server)
    /\ \A w \in Workers : worker[w].pc # "idle" =>
          ~HoldsLease(Server, worker[w].op, worker[w].fence)
    /\ UNCHANGED <<managerVars, runtimeVars, provVars, faults>>

Orphans(S) == {[c EXCEPT !.live = FALSE] : c \in S}

\* The connection of a waiting goroutine breaks, or its context ends.  The
\* request may not have arrived.
Disconnect(w) ==
    LET mine == {c \in calls : c.by = w /\ c.live}
        working == exec # None /\ exec.by = w /\ exec.live
    IN
    /\ Fault
    /\ mine # {} \/ working
    /\ worker' = [worker EXCEPT ![w].reply = "unknown"]
    /\ calls' \in {calls \ mine, (calls \ mine) \cup Orphans(mine)}
    /\ exec' = IF working THEN [exec EXCEPT !.live = FALSE] ELSE exec
    /\ UNCHANGED <<storeVars, lock, queue, entries, tails, requests, step, runtimeVars, meta>>

RestartManager ==
    /\ Fault
    /\ lock' = FALSE /\ queue' = None /\ entries' = {} /\ tails' = {}
    /\ worker' = [w \in Workers |-> Idle]
    /\ calls' = Orphans(calls)
    /\ exec' = IF exec = None THEN None ELSE [exec EXCEPT !.live = FALSE]
    /\ UNCHANGED <<storeVars, requests, step, runtimeVars, meta>>

\* A request it was working on stops where it is.
RestartProvisioner ==
    /\ Fault
    /\ exec # None \/ calls # {}
    /\ exec' = None /\ calls' = {}
    /\ worker' = [w \in Workers |->
                    IF \/ exec # None /\ exec.live /\ exec.by = w
                       \/ \E c \in calls : c.live /\ c.by = w
                      THEN [worker[w] EXCEPT !.reply = "unknown"] ELSE worker[w]]
    /\ UNCHANGED <<storeVars, lock, queue, entries, tails, requests, step, runtimeVars, meta>>

-----------------------------------------------------------------------------

RotStep ==
    \/ QueueRead \/ QueueAdmit \/ ListActive
    \/ \E e \in entries : Resume(e)
    \/ \E w \in Workers : Run(w)
    \/ \E t \in tails : LateRelease(t)
    \/ \E c \in calls : Begin(c)
    \/ Provision
    \/ Expire
    \/ \E w \in Workers : Disconnect(w)
    \/ RestartManager \/ RestartProvisioner

\* A goroutine is about to begin the rotation o from its first step, with the
\* password of o already stored or in some place of the runtime, or while another
\* goroutine runs o.
BeginsAgain(w, o) ==
    /\ worker[w].pc = "prepare" /\ worker[w].op = o
    /\ \/ o \in {secret[Server], dbpw, env, running}
       \/ \E v \in Workers \ {w} : worker[v].op = o

RotNext ==
    /\ RotStep
    /\ compensated' = compensated \cup {c.op : c \in {d \in calls' : d.kind = "rollback"}}
    /\ retried' = retried \cup {o \in Ops : \E w \in Workers : BeginsAgain(w, o)'}

\* Goroutines run, the Provisioner works, the scheduler ticks, leases run out.
\* A queued request is answered; nobody has to send another one.
Fairness ==
    /\ WF_stepVars(QueueAdmit)
    /\ WF_stepVars(ListActive \/ \E e \in entries : Resume(e))
    /\ \A w \in Workers : WF_stepVars(Run(w))
    /\ WF_stepVars(\E t \in tails : LateRelease(t))
    /\ WF_stepVars((\E c \in calls : Begin(c)) \/ Provision)
    /\ WF_stepVars(Expire)

RotSpec == RotInit /\ [][RotNext]_rotVars
FairRotSpec == RotSpec /\ Fairness

-----------------------------------------------------------------------------
(* Properties.                                                             *)

\* When the Manager publishes a rotation (MarkConfigurationGoodOwned writes the
\* phase COMMITTED) the new password is the stored secret, the password of the
\* database roles, the one in the selected runtime files and the one the
\* containers were created with.  Rotations whose rollback was ever asked for are
\* left out: see RollbackIsReentered.
CommittedIsLive ==
    [][\A o \in Ops :
          /\ ops[o] # None /\ ops[o].phase # "COMMITTED" /\ ops'[o].phase = "COMMITTED"
          /\ o \notin compensated
          => secret[Server] = o /\ dbpw = o /\ env = o /\ running = o]_rotVars

\* When a rotation is reported as rolled back (CompleteRollback), the stored
\* secret, the roles, the selected files and the containers agree on one
\* password again.  Two cases are left out, where they need not agree.  One is a
\* server with another rotation: a later one takes its oldPassword from a snapshot
\* made before the previous rotation published its password, and may put back one
\* that nothing else uses.  The other is a rotation that was begun again over its
\* own changes or beside another goroutine: failing early, it is taken for one
\* that changed nothing.
RolledBackIsRestored ==
    [][\A o \in Ops :
          ( /\ ops[o] # None /\ ops[o].status = "ROLLING_BACK" /\ ops'[o].status = "ROLLED_BACK"
            /\ \A q \in Ops \ {o} : ops[q] = None
            /\ o \notin retried )
          => secret[Server] = dbpw /\ env = dbpw /\ running = dbpw]_rotVars

\* The journal's OldGeneration is never a generation of the rotation itself,
\* however often the rotation is interrupted after publishing one and retried.
AnchorIsOld == meta.journal # None => meta.journal.anchor # meta.journal.op

\* The Provisioner keeps the success of o and has seen a greater fence than the
\* one o has now.
Outrun(o) ==
    payload[o] # None /\ payload[o].fence < meta.fence /\ meta.kept[o] = "ok"

\* A rotation that was admitted does not stay queued or running for ever: the
\* worker ends it, or the scheduler resumes it until a worker does.  Rotations
\* that were outrun are left out: their success is replayed, their confirmation
\* and their rollback are refused, and so they are resumed for ever.
RotationsEnd ==
    \A o \in Ops : (ops[o] # None /\ ops[o].status \in Active)
                     ~> (ops[o] # None /\ (ops[o].status \notin Active \/ Outrun(o)))

\* "Re-enter through the same fenced, idempotent rollback key before attempting
\* any new rotation work": a rotation whose rollback was asked for does not end
\* up committed over a runtime that was rolled back.
RollbackIsReentered ==
    [][\A o \in compensated :
          ops[o].phase # "COMMITTED" /\ ops'[o].phase = "COMMITTED"
          => dbpw = o /\ env = o /\ running = o]_rotVars

=============================================================================
