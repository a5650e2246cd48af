------------------------ MODULE PasswordRotationProofs ------------------------
(***************************************************************************)
(* Proofs about the rotation of the database password: both processes      *)
(* keep their types, every step of the Manager is a transaction of the     *)
(* store, the journal's anchor never is a generation of the rotation it    *)
(* belongs to, and what a rotation publishes or gives back is what runs.   *)
(* For any number of operations, goroutines, requests, failures, restarts  *)
(* and lost connections.                                                   *)
(***************************************************************************)
EXTENDS PasswordRotation, ConfigurationStoreProofs

-----------------------------------------------------------------------------
(* What the processes know.                                                  *)

Waiting == {"rotating", "rolling", "confirming"}
Waits(kind) == CASE kind = "rotate" -> "rotating"
                 [] kind = "rollback" -> "rolling"
                 [] OTHER -> "confirming"

\* From the answer to the rotation to its publication.
Passed == {"mark", "publish", "confirming", "good"}

\* Every operation is a rotation of Server, whose candidate is not its first
\* revision, and its command stays.
ServerOps ==
    \A o \in Ops :
       /\ ops[o] # None => payload[o] # None
       /\ payload[o] # None => payload[o].project = Server /\ payload[o].rev > 1

\* A candidate's snapshot has the secret that was stored when it was admitted.
KnownSecrets ==
    /\ secret[Server] \in Secrets
    /\ \A r \in Revisions : r > 1 /\ rows[Server][r] # None => rows[Server][r].secrets \in Secrets

\* What a request says of itself.
RequestOK(c) ==
    /\ payload[c.op] # None
    /\ c.kind = "rotate" => c.new = c.op /\ c.old \in Secrets
    /\ c.kind = "rollback" => c.new \in Secrets

Memory ==
    /\ \A w \in Workers :
          /\ worker[w].pc # "idle" => worker[w].op \in Ops /\ payload[worker[w].op] # None
          /\ worker[w].pc \in Passed \cup {"rotating", "compensate"} => worker[w].old \in Secrets
          /\ worker[w].pc \notin Waiting => worker[w].reply = ""
    /\ \A c \in calls : RequestOK(c)
    /\ exec # None => RequestOK(exec)

\* A request whose connection lives is the one its goroutine waits for.
AwaitedBy(c) ==
    /\ worker[c.by].pc = Waits(c.kind) /\ worker[c.by].op = c.op
    /\ worker[c.by].reply = ""

Awaited ==
    /\ \A c \in calls : c.live => AwaitedBy(c)
    /\ \A c, d \in calls : c.live /\ d.live /\ c.by = d.by => c = d
    /\ exec # None /\ exec.live => AwaitedBy(exec) /\ \A c \in calls : c.live => c.by # exec.by

\* How far the Provisioner's request has come.
Rotating ==
    exec # None /\ exec.kind = "rotate" /\ exec.pc # "start" =>
       /\ meta.journal # None /\ meta.journal.op = exec.op
       /\ meta.kept[exec.op] = None
       /\ meta.rev = Rev(exec.op) - 1
       /\ exec.pc # "stage" => env = exec.op
       /\ exec.pc \in {"recreate", "verify", "commit"} => dbpw = exec.op
       /\ exec.pc \in {"verify", "commit"} => running = exec.op

Rollback ==
    exec # None /\ exec.kind = "rollback" /\ exec.pc # "start" => meta.rev = Rev(exec.op)

\* A goroutine goes on with a rotation only when the Provisioner has kept its
\* success.
Answered ==
    \A w \in Workers :
       \/ worker[w].pc \in Passed
       \/ worker[w].pc = "rotating" /\ worker[w].reply = "ok"
       => meta.kept[worker[w].op] = "ok"

Processes == ServerOps /\ KnownSecrets /\ Memory /\ Awaited /\ Rotating /\ Rollback /\ Answered

ManagerTyped ==
    /\ lock \in BOOLEAN
    /\ requests \in 0..MaxRequests
    /\ queue \in Revisions \cup {None}
    /\ entries \subseteq Entry
    /\ worker \in [Workers -> Goroutine]
    /\ tails \subseteq Token
    /\ step \in [Ops -> OperationSteps]
    /\ faults \in 0..MaxFaults

ProvisionerTyped ==
    /\ meta \in Metadata
    /\ calls \subseteq Request
    /\ exec \in Execution \cup {None}
    /\ dbpw \in Secrets /\ env \in Secrets /\ running \in Secrets

HistoryTyped == compensated \subseteq Ops /\ retried \subseteq Ops

LEMMA TypeParts == RotTypeOK <=> TypeOK /\ ManagerTyped /\ ProvisionerTyped /\ HistoryTyped
  BY DEF RotTypeOK, ManagerTyped, ProvisionerTyped, HistoryTyped

LEMMA ServerFacts ==
  /\ Server \in Projects /\ Old \in Secrets /\ Old \notin Ops
  /\ InitialSecret[Server] = Old
  /\ Ops \subseteq Secrets
  /\ None \notin Secrets /\ None \notin Projects /\ None \notin Kept /\ None \notin Journal
  /\ None \notin Execution
  /\ {"RUNNING", "FAILED", "ROLLING_BACK", "ROLLED_BACK", "SUCCEEDED"} \subseteq StatusWrites
  /\ {"RUNTIME_COMMITTED", "ROLLBACK_PENDING", "ROLLBACK_CONFIRMED"} \subseteq PhaseWrites
  BY ConstantsAssumption, RotationAssumption, RecordAssumption DEF Old

-----------------------------------------------------------------------------
(* The transactions of the store a rotation makes, and at which of its steps. *)

Compensations == {"RUNTIME_COMMITTED", "ROLLBACK_PENDING", "ROLLBACK_CONFIRMED"}

RotStore ==
    \/ \E o \in Ops, e \in Revisions : AdmitConfiguration(Server, o, e, canonical[Server], None)
    \/ \E o \in Ops : AcquireConfigurationLeaseForOperation(Server, o)
    \/ ExpireLease(Server)
    \/ \E o \in Ops, f \in Fences : ReleaseConfigurationLeaseOwned(Server, o, f)
    \/ \E w \in Workers, o \in Ops, f \in Fences :
          /\ worker[w].op = o /\ worker[w].fence = f /\ payload[o] # None
          /\ \/ worker[w].pc = "restore" /\ RestoreConfigurationStateOwned(Server, o, f)
             \/ worker[w].pc = "good" /\ MarkConfigurationGoodOwned(Server, o, f)
             \/ worker[w].pc = "publish" /\ PublishConfigurationSecret(Server, Rev(o), o)
             \/ \E x \in StatusWrites : UpdateOperation(o, x)
             \/ \E ph \in Compensations : SetOperationCompensation(o, ph)

LEMMA PayloadFacts ==
  ASSUME TypeOK, NEW o \in Ops, payload[o] # None
  PROVE  payload[o] \in Payload /\ payload[o].rev \in Revisions /\ payload[o].fence \in Fences
  BY DEF TypeOK, Payload

LEMMA RotStoreIsNext == TypeOK /\ RotStore => Next
  <1> SUFFICES ASSUME TypeOK, RotStore PROVE Next
    OBVIOUS
  <1>1. ASSUME NEW o \in Ops, NEW e \in Revisions,
               AdmitConfiguration(Server, o, e, canonical[Server], None)
        PROVE  Next
    BY <1>1, ServerFacts DEF Next, Admissible
  <1>2. ASSUME NEW o \in Ops, payload[o] # None, PublishConfigurationSecret(Server, Rev(o), o)
        PROVE  Next
    BY <1>2, ServerFacts, PayloadFacts DEF Rev, Next, OwnedNext
  <1> QED
    BY <1>1, <1>2, ServerFacts DEF RotStore, Compensations, Next, OwnedNext

\* A command is never withdrawn or bound to another revision.
PayloadKept ==
    \A o \in Ops : payload[o] # None => payload'[o] # None /\ payload'[o].rev = payload[o].rev

LEMMA RotStoreKeeps ==
  ASSUME Inv, ServerOps, KnownSecrets, [RotStore]_storeVars
  PROVE  ServerOps' /\ KnownSecrets' /\ PayloadKept
  <1> USE DEF Inv
  <1>1. CASE payload' = payload /\ rows' = rows /\ secret' = secret
             /\ \A o \in Ops : ops'[o] # None => ops[o] # None
    BY <1>1 DEF ServerOps, KnownSecrets, PayloadKept
  <1>2. ASSUME NEW o \in Ops, NEW e \in Revisions,
               AdmitConfiguration(Server, o, e, canonical[Server], None)
        PROVE  ServerOps' /\ KnownSecrets' /\ PayloadKept
    <2> DEFINE next == rev[Server] + 1
               cmd == [project |-> Server, rev |-> next, fence |-> NextFence(Server)]
               row == [config |-> canonical[Server], secrets |-> secret[Server]]
               new == [status |-> "QUEUED", project |-> Server, phase |-> ""]
    <2>1. /\ next \in Revisions /\ NextFence(Server) \in Fences
          /\ payload' = [payload EXCEPT ![o] = cmd] /\ ops' = [ops EXCEPT ![o] = new]
          /\ rows' = [rows EXCEPT ![Server][next] = row] /\ secret' = secret
          /\ ops[o] = None
      BY <1>2 DEF AdmitConfiguration
    <2>2. cmd \in Payload /\ cmd # None /\ cmd.project = Server /\ cmd.rev = next /\ row.secrets = secret[Server]
      BY <2>1, ServerFacts, NoneFacts DEF Payload
    <2>3. next > 1 /\ payload[o] = None
      <3>1. rev[Server] \in Revisions
        BY ServerFacts DEF TypeOK
      <3>2. payload[o] = None
        BY <2>1 DEF Safe, CommandHasOperation
      <3> QED
        BY <3>1, <3>2, ConstantsAssumption DEF Revisions
    <2> HIDE DEF cmd, row, new, next
    <2>4. ServerOps'
      BY <2>1, <2>2, <2>3 DEF ServerOps, TypeOK
    <2>5. KnownSecrets'
      BY <2>1, <2>2, ServerFacts DEF KnownSecrets, TypeOK
    <2>6. PayloadKept
      BY <2>1, <2>3 DEF PayloadKept, TypeOK
    <2> QED
      BY <2>4, <2>5, <2>6
  <1>3. ASSUME NEW o \in Ops, AcquireConfigurationLeaseForOperation(Server, o)
        PROVE  ServerOps' /\ KnownSecrets' /\ PayloadKept
    <2> DEFINE cmd == [payload[o] EXCEPT !.fence = NextFence(Server)]
    <2>1. payload[o] \in Payload /\ NextFence(Server) \in Fences
      BY <1>3 DEF AcquireConfigurationLeaseForOperation, TypeOK
    <2>2. cmd \in Payload /\ cmd # None /\ cmd.project = payload[o].project /\ cmd.rev = payload[o].rev
      BY <2>1, NoneFacts DEF Payload
    <2>3. payload' = [payload EXCEPT ![o] = cmd] /\ ops' = ops /\ rows' = rows /\ secret' = secret
      BY <1>3 DEF AcquireConfigurationLeaseForOperation, Rebind, projectVars
    <2> HIDE DEF cmd
    <2> QED
      BY <2>1, <2>2, <2>3, NoneFacts DEF ServerOps, KnownSecrets, PayloadKept, TypeOK
  <1>4. ASSUME NEW o \in Ops, NEW f \in Fences, RestoreConfigurationStateOwned(Server, o, f)
        PROVE  ServerOps' /\ KnownSecrets' /\ PayloadKept
    <2>1. /\ payload' = payload /\ payload[o] # None /\ payload[o].rev = rev[Server]
          /\ rows[Server][rev[Server]] # None
          /\ secret' = [secret EXCEPT ![Server] = rows[Server][rev[Server]].secrets]
          /\ rows' = [rows EXCEPT ![Server][rev[Server]] = None]
          /\ ops' = [ops EXCEPT ![o].phase = "STATE_RESTORED"]
      BY <1>4 DEF RestoreConfigurationStateOwned, OwnsCandidate
    <2>2. rev[Server] \in Revisions /\ rev[Server] > 1
      BY <2>1, ServerFacts DEF ServerOps, TypeOK
    <2>3. \A q \in Ops : ops'[q] # None => ops[q] # None
      BY <2>1 DEF TypeOK, Safe, CommandHasOperation
    <2> QED
      BY <2>1, <2>2, <2>3, ServerFacts DEF ServerOps, KnownSecrets, PayloadKept, TypeOK
  <1>5. ASSUME NEW o \in Ops, payload[o] # None, PublishConfigurationSecret(Server, Rev(o), o)
        PROVE  ServerOps' /\ KnownSecrets' /\ PayloadKept
    BY <1>5, ServerFacts DEF PublishConfigurationSecret, ServerOps, KnownSecrets, PayloadKept, TypeOK
  <1>6. ASSUME NEW o \in Ops, NEW f \in Fences, MarkConfigurationGoodOwned(Server, o, f)
        PROVE  ServerOps' /\ KnownSecrets' /\ PayloadKept
    <2>1. payload' = payload /\ rows' = rows /\ secret' = secret /\ ops[o] # None
      BY <1>6 DEF MarkConfigurationGoodOwned, OwnsCandidate, Safe, CommandHasOperation
    <2>2. \A q \in Ops : ops'[q] # None => ops[q] # None
      BY <2>1, <1>6 DEF MarkConfigurationGoodOwned, TypeOK
    <2> QED
      BY <2>1, <2>2, <1>1
  <1>7. ASSUME NEW o \in Ops, NEW x, UpdateOperation(o, x) \/ SetOperationCompensation(o, x)
        PROVE  ServerOps' /\ KnownSecrets' /\ PayloadKept
    <2>1. payload' = payload /\ rows' = rows /\ secret' = secret /\ ops[o] # None
      BY <1>7 DEF UpdateOperation, SetOperationCompensation, projectVars
    <2>2. \A q \in Ops : ops'[q] # None => ops[q] # None
      BY <2>1, <1>7 DEF UpdateOperation, SetOperationCompensation, TypeOK
    <2> QED
      BY <2>1, <2>2, <1>1
  <1> QED
    BY <1>1, <1>2, <1>3, <1>4, <1>5, <1>6, <1>7
       DEF RotStore, storeVars, projectVars, ExpireLease, ReleaseConfigurationLeaseOwned

-----------------------------------------------------------------------------
(* A goroutine of the Manager takes a step.                                  *)

Others(w) == \A v \in Workers \ {w} : worker'[v] = worker[v]

\* s is r at another step of its program, its answer consumed.
Moved(r, s, pc, back) ==
    /\ s \in Goroutine
    /\ s.pc = pc /\ s.reply = "" /\ s.back = back
    /\ s.op = r.op /\ s.seen = r.seen /\ s.step = r.step /\ s.fence = r.fence
    /\ s.old = r.old /\ s.recovery = r.recovery /\ s.resumed = r.resumed

LEMMA GotoMoves ==
  ASSUME worker \in [Workers -> Goroutine], NEW w \in Workers, NEW pc \in WorkerSteps, Goto(w, pc)
  PROVE  /\ worker' \in [Workers -> Goroutine] /\ Others(w)
         /\ Moved(worker[w], worker'[w], pc, worker[w].back)
  <1> DEFINE r == worker[w]
             s == [r EXCEPT !.pc = pc, !.reply = ""]
  <1>1. r \in Goroutine /\ s \in Goroutine /\ Moved(r, s, pc, r.back)
    BY ZenonT(60) DEF Goroutine, Moved
  <1>2. worker' = [worker EXCEPT ![w] = s]
    BY DEF Goto
  <1> HIDE DEF s
  <1> QED
    BY <1>1, <1>2 DEF Others

LEMMA GotoWithMoves ==
  ASSUME worker \in [Workers -> Goroutine], NEW w \in Workers, NEW pc \in WorkerSteps,
         NEW back \in BOOLEAN, GotoWith(w, pc, back)
  PROVE  /\ worker' \in [Workers -> Goroutine] /\ Others(w)
         /\ Moved(worker[w], worker'[w], pc, back)
  <1> DEFINE r == worker[w]
             s == [r EXCEPT !.pc = pc, !.reply = "", !.back = back]
  <1>1. r \in Goroutine /\ s \in Goroutine /\ Moved(r, s, pc, back)
    BY ZenonT(60) DEF Goroutine, Moved
  <1>2. worker' = [worker EXCEPT ![w] = s]
    BY DEF GotoWith
  <1> HIDE DEF s
  <1> QED
    BY <1>1, <1>2 DEF Others

\* The request a goroutine makes.
Asks(w, kind, old, new) ==
    /\ Send(w, kind, old, new)
    /\ worker'[w].pc = Waits(kind)
    /\ old \in Secrets \cup {None} /\ new \in Secrets \cup {None}
    /\ kind = "rotate" => /\ new = worker[w].op
                          /\ old = OldPassword(worker[w].op) /\ old \in Secrets
    /\ kind = "rollback" => /\ new \in Secrets
                            /\ \/ worker[w].pc = "compensate" /\ new = worker[w].old
                               \/ new = SecretAt(Rev(worker[w].op) - 1)

\* What every step of a goroutine has in common.
GoroutineMove(w) ==
    /\ worker' \in [Workers -> Goroutine] /\ Others(w)
    /\ worker[w].pc # "idle"
    /\ worker[w].pc \in Waiting => worker[w].reply # ""
    /\ worker'[w].reply = ""
    /\ \/ worker'[w] = Idle
       \/ worker'[w].op = worker[w].op /\ worker'[w].resumed = worker[w].resumed
    /\ worker'[w].pc \in Passed => \/ worker[w].pc \in Passed
                                   \/ worker[w].pc = "rotating" /\ worker[w].reply = "ok"
    /\ \/ worker'[w].old = worker[w].old
       \/ worker'[w].old = OldPassword(worker[w].op)
       \/ worker'[w] = Idle
    /\ worker'[w].pc \in Passed \cup {"rotating", "compensate"} => worker'[w].old \in Secrets
    /\ \/ calls' = calls /\ worker'[w].pc \notin Waiting
       \/ \E kind \in CallKinds, old, new \in Secrets \cup {None} : Asks(w, kind, old, new)
    /\ UNCHANGED <<meta, exec, dbpw, env, running, queue, entries, requests>>
    /\ lock' \in BOOLEAN /\ tails' \subseteq Token
    /\ step' \in [Ops -> OperationSteps] /\ faults' \in 0..MaxFaults

LEMMA WorkerFacts ==
  ASSUME RotTypeOK, ServerOps, Memory, NEW w \in Workers
  PROVE  /\ worker[w] \in Goroutine /\ worker \in [Workers -> Goroutine]
         /\ worker[w].fence \in Fences /\ worker[w].reply \in Outcomes \cup {""}
         /\ worker[w].back \in BOOLEAN /\ worker[w].pc \in WorkerSteps
         /\ worker[w].pc # "idle" => /\ worker[w].op \in Ops
                                     /\ payload[worker[w].op] # None
                                     /\ Rev(worker[w].op) \in Revisions
                                     /\ Rev(worker[w].op) > 1
         /\ worker[w].pc \notin Waiting => worker[w].reply = ""
         /\ worker[w].pc \in Passed \cup {"rotating", "compensate"} => worker[w].old \in Secrets
         /\ lock \in BOOLEAN /\ tails \subseteq Token /\ step \in [Ops -> OperationSteps]
         /\ faults \in 0..MaxFaults
  <1>1. worker[w] \in Goroutine /\ TypeOK
    BY DEF RotTypeOK
  <1>2. worker[w].pc # "idle" => Rev(worker[w].op) \in Revisions /\ Rev(worker[w].op) > 1
    BY <1>1, PayloadFacts DEF Memory, ServerOps, Rev
  <1> QED
    BY <1>1, <1>2 DEF Memory, Goroutine, RotTypeOK

LEMMA OldPasswordFacts ==
  ASSUME RotTypeOK, KnownSecrets, NEW o \in Ops, Rev(o) \in Revisions, Rev(o) > 1
  PROVE  /\ OldPassword(o) \in Secrets
         /\ SecretAt(Rev(o) - 1) # None => SecretAt(Rev(o) - 1) \in Secrets
  <1>1. Rev(o) - 1 \in Revisions
    BY ConstantsAssumption DEF Revisions
  <1>2. rows[Server][Rev(o) - 1] # None => rows[Server][Rev(o) - 1].secrets \in Secrets \cup {None}
    BY <1>1, ServerFacts, RowFacts DEF RotTypeOK
  <1> QED
    BY <1>2 DEF OldPassword, SecretAt, KnownSecrets

LEMMA FaultFacts == faults \in 0..MaxFaults /\ (Fault \/ NoFault) => faults' \in 0..MaxFaults
  BY RotationAssumption DEF Fault, NoFault

\* A goroutine goes to another step without a request.
LEMMA PlainMove ==
  ASSUME RotTypeOK, ServerOps, Memory, NEW w \in Workers, worker[w].pc # "idle",
         NEW pc \in WorkerSteps \ (Waiting \cup {"rotating"}), NEW back,
         worker' \in [Workers -> Goroutine], Others(w), Moved(worker[w], worker'[w], pc, back),
         worker[w].pc \in Waiting => worker[w].reply # "",
         pc \in Passed => \/ worker[w].pc \in Passed
                         \/ (worker[w].pc = "rotating" /\ worker[w].reply = "ok"),
         pc = "compensate" => worker[w].pc \in Passed,
         UNCHANGED <<lock, calls, meta, exec, dbpw, env, running, queue, entries, requests, tails>>,
         step' \in [Ops -> OperationSteps], faults' \in 0..MaxFaults
  PROVE  GoroutineMove(w)
  <1>1. worker'[w].pc = pc /\ worker'[w].reply = "" /\ worker'[w].op = worker[w].op
        /\ worker'[w].resumed = worker[w].resumed /\ worker'[w].old = worker[w].old
    BY DEF Moved
  <1>2. pc \in Passed \cup {"compensate"} => worker[w].old \in Secrets
    BY WorkerFacts
  <1>3. lock \in BOOLEAN /\ tails \subseteq Token
    BY WorkerFacts
  <1> QED
    BY <1>1, <1>2, <1>3 DEF GoroutineMove

LEMMA StartMove ==
  ASSUME RotTypeOK, ServerOps, Memory, NEW w \in Workers, Start(w)
  PROVE  GoroutineMove(w)
  <1>1. /\ \E pc \in {"recover", "exit"} : Goto(w, pc)
        /\ worker[w].pc = "start"
        /\ UNCHANGED <<lock, calls, meta, exec, dbpw, env, running, queue, entries, requests, tails,
                       step, faults>>
    BY DEF Start, At, runtimeVars, provVars
  <1> QED
    BY <1>1, WorkerFacts, GotoMoves, PlainMove DEF Waiting, Passed, WorkerSteps

LEMMA PrepareMove ==
  ASSUME RotTypeOK, ServerOps, Memory, NEW w \in Workers, Prepare(w)
  PROVE  GoroutineMove(w)
  <1>1. /\ \/ \E pc \in {"exit", "reconcile"} : Goto(w, pc)
           \/ \E pc \in {"restore", "fail"} : GotoWith(w, pc, FALSE)
        /\ worker[w].pc = "prepare"
        /\ Fault \/ NoFault
        /\ step' = step \/ step' = [step EXCEPT ![worker[w].op] = "EARLY"]
        /\ UNCHANGED <<lock, calls, meta, exec, dbpw, env, running, queue, entries, requests, tails>>
    BY DEF Prepare, At, runtimeVars, provVars
  <1>2. step' \in [Ops -> OperationSteps] /\ faults' \in 0..MaxFaults
    BY <1>1, WorkerFacts, FaultFacts DEF OperationSteps
  <1> QED
    BY <1>1, <1>2, WorkerFacts, GotoMoves, GotoWithMoves, PlainMove, ZenonT(60) DEF Waiting, Passed, WorkerSteps

LEMMA RotatedMove ==
  ASSUME RotTypeOK, ServerOps, Memory, NEW w \in Workers, Rotated(w)
  PROVE  GoroutineMove(w)
  <1>1. /\ \/ Goto(w, "mark") /\ worker[w].reply = "ok"
           \/ Goto(w, "exit")
           \/ \E pc \in {"restore", "fail"}, back \in BOOLEAN : GotoWith(w, pc, back)
        /\ worker[w].pc = "rotating" /\ worker[w].reply # ""
        /\ UNCHANGED <<lock, calls, meta, exec, dbpw, env, running, queue, entries, requests, tails,
                       step, faults>>
    BY DEF Rotated, Replied, runtimeVars, provVars, reconcileRollback
  <1> QED
    BY <1>1, WorkerFacts, GotoMoves, GotoWithMoves, PlainMove, ZenonT(60) DEF Waiting, Passed, WorkerSteps

LEMMA MarkMove ==
  ASSUME RotTypeOK, ServerOps, Memory, NEW w \in Workers, Mark(w)
  PROVE  GoroutineMove(w)
  <1>1. /\ \E pc \in {"publish", "exit"} : Goto(w, pc)
        /\ worker[w].pc = "mark"
        /\ \/ step' = step
           \/ step' = [step EXCEPT ![worker[w].op] = "MARK_CONFIGURATION_GOOD"]
        /\ UNCHANGED <<lock, calls, meta, exec, dbpw, env, running, queue, entries, requests, tails,
                       faults>>
    BY DEF Mark, At, runtimeVars, provVars
  <1>2. step' \in [Ops -> OperationSteps]
    BY <1>1, WorkerFacts DEF OperationSteps
  <1> QED
    BY <1>1, <1>2, WorkerFacts, GotoMoves, PlainMove DEF Waiting, Passed, WorkerSteps

LEMMA ConfirmedMove ==
  ASSUME RotTypeOK, ServerOps, Memory, NEW w \in Workers, Confirmed(w) \/ Good(w)
  PROVE  GoroutineMove(w)
  <1>1. /\ \E pc \in {"good", "compensate", "succeed"} : Goto(w, pc)
        /\ worker[w].pc \in {"confirming", "good"}
        /\ worker[w].pc = "confirming" => worker[w].reply # ""
        /\ UNCHANGED <<lock, calls, meta, exec, dbpw, env, running, queue, entries, requests, tails,
                       step, faults>>
    BY DEF Confirmed, Good, At, Replied, runtimeVars, provVars
  <1> QED
    BY <1>1, WorkerFacts, GotoMoves, PlainMove DEF Waiting, Passed, WorkerSteps

LEMMA RolledBackMove ==
  ASSUME RotTypeOK, ServerOps, Memory, NEW w \in Workers, RolledBack(w)
  PROVE  GoroutineMove(w)
  <1>1. /\ Goto(w, "exit") \/ GotoWith(w, "restore", TRUE)
        /\ worker[w].pc = "rolling" /\ worker[w].reply # ""
        /\ UNCHANGED <<lock, calls, meta, exec, dbpw, env, running, queue, entries, requests, tails,
                       step, faults>>
    BY DEF RolledBack, Replied, runtimeVars, provVars
  <1> QED
    BY <1>1, WorkerFacts, GotoMoves, GotoWithMoves, PlainMove DEF Waiting, Passed, WorkerSteps

LEMMA RestoreMove ==
  ASSUME RotTypeOK, ServerOps, Memory, NEW w \in Workers, Restore(w)
  PROVE  GoroutineMove(w)
  <1>1. worker[w].recovery \in {"", "rolled", "confirmed"}
    BY WorkerFacts DEF Goroutine
  <1>2. /\ \/ \E pc \in {"fail", "exit"} : Goto(w, pc)
           \/ GotoWith(w, "fail", FALSE)
        /\ worker[w].pc = "restore"
        /\ UNCHANGED <<lock, calls, meta, exec, dbpw, env, running, queue, entries, requests, tails,
                       step, faults>>
    BY <1>1 DEF Restore, At, runtimeVars, provVars
  <1> QED
    BY <1>2, WorkerFacts, GotoMoves, GotoWithMoves, PlainMove, ZenonT(60) DEF Waiting, Passed, WorkerSteps

LEMMA AdvanceMove ==
  ASSUME RotTypeOK, ServerOps, Memory, NEW w \in Workers, fail(w) \/ Succeed(w)
  PROVE  GoroutineMove(w)
  <1>1. /\ \E pc \in {"begin", "complete", "exit"} : Goto(w, pc)
        /\ worker[w].pc \in {"fail", "begin", "complete", "succeed"}
        /\ UNCHANGED <<lock, calls, meta, exec, dbpw, env, running, queue, entries, requests, tails,
                       step, faults>>
    BY DEF fail, Succeed, Advance, At, runtimeVars, provVars
  <1> QED
    BY <1>1, WorkerFacts, GotoMoves, PlainMove DEF Waiting, Passed, WorkerSteps

LEMMA IdleType == Idle \in Goroutine /\ Idle.pc = "idle" /\ Idle.reply = ""
  BY ConstantsAssumption DEF Idle, Goroutine, WorkerSteps, Statuses, OperationSteps, Fences, Outcomes

LEMMA ExitMove ==
  ASSUME RotTypeOK, ServerOps, Memory, NEW w \in Workers, Exit(w)
  PROVE  GoroutineMove(w)
  <1>1. /\ worker[w].pc = "exit" /\ lock' = FALSE
        /\ worker' = [worker EXCEPT ![w] = Idle]
        /\ \/ tails' = tails
           \/ tails' = tails \cup {[op |-> worker[w].op, fence |-> worker[w].fence]}
        /\ UNCHANGED <<calls, meta, exec, dbpw, env, running, queue, entries, requests, step, faults>>
    BY DEF Exit, At, runtimeVars, provVars
  <1>2. tails' \subseteq Token
    <2>1. worker[w].op \in Ops /\ worker[w].fence \in Fences /\ tails \subseteq Token
      BY <1>1, WorkerFacts
    <2>2. [op |-> worker[w].op, fence |-> worker[w].fence] \in Token
      BY <2>1 DEF Token
    <2> QED
      BY <1>1, <2>1, <2>2
  <1>3. worker' \in [Workers -> Goroutine] /\ Others(w) /\ worker'[w] = Idle
    BY <1>1, WorkerFacts, IdleType DEF Others
  <1>4. Idle.pc \notin Passed \cup Waiting \cup {"rotating", "compensate"} /\ Idle.reply = ""
    BY IdleType DEF Passed, Waiting
  <1> HIDE DEF Idle
  <1> QED
    BY <1>1, <1>2, <1>3, <1>4, WorkerFacts DEF GoroutineMove, Waiting, Passed

\* A goroutine asks the Provisioner for something and waits.
LEMMA AskingMove ==
  ASSUME RotTypeOK, ServerOps, Memory, NEW w \in Workers, worker[w].pc \notin Waiting \cup {"idle"},
         worker' \in [Workers -> Goroutine], Others(w), worker'[w].reply = "",
         worker'[w].op = worker[w].op, worker'[w].resumed = worker[w].resumed,
         worker'[w].old = worker[w].old \/ worker'[w].old = OldPassword(worker[w].op),
         worker'[w].pc \in Waiting, worker'[w].pc = "confirming" => worker[w].pc \in Passed,
         worker'[w].pc \in Passed \cup {"rotating", "compensate"} => worker'[w].old \in Secrets,
         \E kind \in CallKinds, old, new \in Secrets \cup {None} : Asks(w, kind, old, new),
         UNCHANGED <<lock, meta, exec, dbpw, env, running, queue, entries, requests, tails, step>>,
         faults' \in 0..MaxFaults
  PROVE  GoroutineMove(w)
  BY WorkerFacts DEF GoroutineMove, Waiting, Passed

LEMMA ReconcileMove ==
  ASSUME RotTypeOK, ServerOps, KnownSecrets, Memory, NEW w \in Workers, ReconcileServices(w)
  PROVE  GoroutineMove(w)
  <1> DEFINE old == OldPassword(worker[w].op)
  <1>1. /\ worker[w].pc = "reconcile"
        /\ Fault \/ NoFault
        /\ UNCHANGED <<lock, meta, exec, dbpw, env, running, queue, entries, requests, tails, step>>
    BY DEF ReconcileServices, At, runtimeVars
  <1>2. faults' \in 0..MaxFaults /\ old \in Secrets /\ worker[w].op \in Ops
    BY <1>1, WorkerFacts, FaultFacts, OldPasswordFacts
  <1>3. CASE /\ worker' = [worker EXCEPT ![w].pc = "rotating", ![w].old = old]
             /\ Send(w, "rotate", old, worker[w].op)
    <2> DEFINE s == [worker[w] EXCEPT !.pc = "rotating", !.old = old]
    <2>1. s \in Goroutine /\ s.pc = "rotating" /\ s.old = old /\ s.reply = worker[w].reply
          /\ s.op = worker[w].op /\ s.resumed = worker[w].resumed
      BY <1>2, WorkerFacts, ZenonT(60) DEF Goroutine, WorkerSteps
    <2>2. worker' = [worker EXCEPT ![w] = s]
      BY <1>3
    <2> HIDE DEF s
    <2>3. worker' \in [Workers -> Goroutine] /\ Others(w) /\ worker'[w] = s
      BY <2>1, <2>2, WorkerFacts DEF Others
    <2>4. Asks(w, "rotate", old, worker[w].op)
      BY <1>2, <1>3, <2>1, <2>3, ServerFacts DEF Asks, Waits
    <2>5. worker[w].reply = ""
      BY <1>1, WorkerFacts DEF Waiting
    <2> HIDE DEF old
    <2>6. worker'[w].old = OldPassword(worker[w].op)
      BY <2>1, <2>3 DEF old
    <2> QED
      BY <1>1, <1>2, <2>1, <2>3, <2>4, <2>5, <2>6, ServerFacts, AskingMove DEF CallKinds, Waiting
  <1>4. CASE GotoWith(w, "fail", FALSE) /\ calls' = calls
    <2>1. step' \in [Ops -> OperationSteps]
      BY <1>1, WorkerFacts
    <2> QED
      BY <1>1, <1>2, <1>4, <2>1, WorkerFacts, GotoWithMoves, PlainMove DEF Waiting, Passed, WorkerSteps
  <1> QED
    BY <1>3, <1>4 DEF ReconcileServices

LEMMA RecoverMove ==
  ASSUME RotTypeOK, ServerOps, KnownSecrets, Memory, NEW w \in Workers, Recover(w)
  PROVE  GoroutineMove(w)
  <1> DEFINE old == SecretAt(Rev(worker[w].op) - 1)
  <1>1. /\ worker[w].pc = "recover"
        /\ UNCHANGED <<lock, meta, exec, dbpw, env, running, queue, entries, requests, tails, step,
                       faults>>
    BY DEF Recover, At, runtimeVars
  <1>2. /\ faults' \in 0..MaxFaults /\ worker[w].op \in Ops /\ worker[w] \in Goroutine
        /\ worker[w].reply = "" /\ worker \in [Workers -> Goroutine]
        /\ step' \in [Ops -> OperationSteps]
    BY <1>1, WorkerFacts DEF Waiting
  <1>3. CASE /\ \/ \E pc \in {"succeed", "prepare"} : Goto(w, pc)
                \/ GotoWith(w, "fail", TRUE)
             /\ calls' = calls
    BY <1>1, <1>2, <1>3, GotoMoves, GotoWithMoves, PlainMove DEF Waiting, Passed, WorkerSteps
  <1>4. CASE /\ worker' = [worker EXCEPT ![w].pc = "restore", ![w].back = TRUE,
                                          ![w].recovery = "confirmed"]
             /\ calls' = calls
    <2> DEFINE s == [worker[w] EXCEPT !.pc = "restore", !.back = TRUE, !.recovery = "confirmed"]
    <2>1. s \in Goroutine /\ s.pc = "restore" /\ s.old = worker[w].old /\ s.reply = ""
          /\ s.op = worker[w].op /\ s.resumed = worker[w].resumed
      BY <1>2 DEF Goroutine, WorkerSteps
    <2>2. worker' = [worker EXCEPT ![w] = s]
      BY <1>4
    <2> HIDE DEF s
    <2>3. worker' \in [Workers -> Goroutine] /\ Others(w) /\ worker'[w] = s
      BY <1>2, <2>1, <2>2 DEF Others
    <2> QED
      BY <1>1, <1>2, <1>4, <2>1, <2>3, WorkerFacts DEF GoroutineMove, Waiting, Passed
  <1>5. CASE /\ worker' = [worker EXCEPT ![w].pc = "rolling", ![w].recovery = "rolled"]
             /\ old # None /\ Send(w, "rollback", worker[w].op, old)
    <2> DEFINE s == [worker[w] EXCEPT !.pc = "rolling", !.recovery = "rolled"]
    <2>1. s \in Goroutine /\ s.pc = "rolling" /\ s.old = worker[w].old /\ s.reply = ""
          /\ s.op = worker[w].op /\ s.resumed = worker[w].resumed
      BY <1>2 DEF Goroutine, WorkerSteps
    <2>2. worker' = [worker EXCEPT ![w] = s]
      BY <1>5
    <2> HIDE DEF s
    <2>3. worker' \in [Workers -> Goroutine] /\ Others(w) /\ worker'[w] = s
      BY <1>2, <2>1, <2>2 DEF Others
    <2>4. old \in Secrets
      BY <1>1, <1>2, <1>5, WorkerFacts, OldPasswordFacts
    <2>5. Asks(w, "rollback", worker[w].op, old)
      BY <1>2, <1>5, <2>1, <2>3, <2>4, ServerFacts DEF Asks, Waits
    <2> QED
      BY <1>1, <1>2, <2>1, <2>3, <2>4, <2>5, ServerFacts, AskingMove DEF CallKinds, Waiting, Passed
  <1> QED
    BY <1>3, <1>4, <1>5 DEF Recover

LEMMA PublishMove ==
  ASSUME RotTypeOK, ServerOps, Memory, NEW w \in Workers, Publish(w)
  PROVE  GoroutineMove(w)
  <1>1. /\ worker[w].pc = "publish"
        /\ Fault \/ NoFault
        /\ UNCHANGED <<lock, meta, exec, dbpw, env, running, queue, entries, requests, tails, step>>
    BY DEF Publish, At, runtimeVars
  <1>2. /\ faults' \in 0..MaxFaults /\ worker[w].reply = "" /\ worker \in [Workers -> Goroutine]
        /\ step' \in [Ops -> OperationSteps] /\ worker[w].old \in Secrets
    BY <1>1, WorkerFacts, FaultFacts DEF Waiting, Passed
  <1>3. CASE Goto(w, "confirming") /\ Send(w, "confirm", None, None)
    <2>1. /\ worker' \in [Workers -> Goroutine] /\ Others(w)
          /\ Moved(worker[w], worker'[w], "confirming", worker[w].back)
      BY <1>2, <1>3, GotoMoves DEF WorkerSteps
    <2>2. Asks(w, "confirm", None, None)
      BY <1>3, <2>1 DEF Asks, Waits, Moved
    <2> QED
      BY <1>1, <1>2, <2>1, <2>2, AskingMove DEF CallKinds, Waiting, Passed, Moved
  <1>4. CASE Goto(w, "compensate") /\ calls' = calls
    BY <1>1, <1>2, <1>4, GotoMoves, PlainMove DEF Waiting, Passed, WorkerSteps
  <1> QED
    BY <1>3, <1>4 DEF Publish

LEMMA CompensateMove ==
  ASSUME RotTypeOK, ServerOps, Memory, NEW w \in Workers, Compensate(w)
  PROVE  GoroutineMove(w)
  <1>1. /\ worker[w].pc = "compensate" /\ Goto(w, "rolling")
        /\ Send(w, "rollback", worker[w].op, worker[w].old)
        /\ UNCHANGED <<lock, meta, exec, dbpw, env, running, queue, entries, requests, tails, step,
                       faults>>
    BY DEF Compensate, At, runtimeVars
  <1>2. /\ faults' \in 0..MaxFaults /\ worker[w].reply = "" /\ worker \in [Workers -> Goroutine]
        /\ step' \in [Ops -> OperationSteps] /\ worker[w].old \in Secrets /\ worker[w].op \in Ops
    BY <1>1, WorkerFacts DEF Waiting, Passed
  <1>3. /\ worker' \in [Workers -> Goroutine] /\ Others(w)
        /\ Moved(worker[w], worker'[w], "rolling", worker[w].back)
    BY <1>1, <1>2, GotoMoves DEF WorkerSteps
  <1>4. Asks(w, "rollback", worker[w].op, worker[w].old)
    BY <1>1, <1>2, <1>3, ServerFacts DEF Asks, Waits, Moved
  <1> QED
    BY <1>1, <1>2, <1>3, <1>4, ServerFacts, AskingMove DEF CallKinds, Waiting, Passed, Moved

LEMMA RunMove ==
  ASSUME RotTypeOK, ServerOps, KnownSecrets, Memory, NEW w \in Workers, Run(w)
  PROVE  GoroutineMove(w)
  BY StartMove, RecoverMove, PrepareMove, ReconcileMove, RotatedMove, MarkMove, PublishMove,
     ConfirmedMove, CompensateMove, RolledBackMove, RestoreMove, AdvanceMove, ExitMove DEF Run

-----------------------------------------------------------------------------
(* The Provisioner takes a step.                                             *)

Same(c, d) ==
    /\ d.by = c.by /\ d.kind = c.kind /\ d.op = c.op /\ d.fence = c.fence
    /\ d.old = c.old /\ d.new = c.new /\ d.live = c.live

Continues ==
    /\ worker' = worker
    /\ exec' \in Execution /\ exec'.pc # "start" /\ Same(exec, exec')

\* What every step of the Provisioner has in common.
ProvisionMove ==
    /\ exec # None /\ exec \in Execution
    /\ calls' = calls /\ meta' \in Metadata
    /\ dbpw' \in Secrets /\ env' \in Secrets /\ running' \in Secrets
    /\ faults' \in 0..MaxFaults
    /\ \A o \in Ops : \/ meta'.kept[o] = meta.kept[o]
                      \/ o = exec.op /\ exec.kind = "rotate" /\ meta.kept[o] = None
    /\ Rotating' /\ Rollback'
    /\ \/ Continues
       \/ \E outcome \in Outcomes :
             /\ Finish(outcome)
             /\ exec.kind = "rotate" /\ outcome = "ok" => meta'.kept[exec.op] = "ok"

LEMMA MetaFacts ==
  ASSUME RotTypeOK
  PROVE  /\ meta \in Metadata /\ meta.rev \in Revisions /\ meta.fence \in 0..MaxFence
         /\ meta.journal # None => meta.journal \in Journal
         /\ meta.kept \in [Ops -> Kept \cup {None}] /\ meta.rolledBack \subseteq Ops
         /\ dbpw \in Secrets /\ env \in Secrets /\ running \in Secrets
         /\ faults \in 0..MaxFaults
         /\ \A o \in Ops : meta.kept[o] # None => meta.kept[o] \in Kept
  BY DEF RotTypeOK, Metadata

LEMMA ExecFacts ==
  ASSUME RotTypeOK, ServerOps, Memory, exec # None
  PROVE  /\ exec \in Execution
         /\ exec.by \in Workers /\ exec.kind \in CallKinds /\ exec.op \in Ops
         /\ exec.fence \in Fences /\ exec.pc \in CallSteps /\ exec.live \in BOOLEAN
         /\ exec.anchor \in Secrets /\ exec.previous \in Secrets
         /\ payload[exec.op] # None
         /\ Rev(exec.op) \in Revisions /\ Rev(exec.op) > 1
         /\ exec.kind = "rotate" => exec.new = exec.op /\ exec.old \in Secrets
         /\ exec.kind = "rollback" => exec.new \in Secrets
  <1>1. exec \in Execution /\ TypeOK
    BY DEF RotTypeOK
  <1>2. exec.op \in Ops /\ payload[exec.op] # None
    BY <1>1 DEF Execution, Memory, RequestOK
  <1>3. Rev(exec.op) \in Revisions /\ Rev(exec.op) > 1
    BY <1>1, <1>2, PayloadFacts DEF ServerOps, Rev
  <1> QED
    BY <1>1, <1>2, <1>3 DEF Execution, Memory, RequestOK

LEMMA KeepType ==
  ASSUME RotTypeOK, exec # None, exec.op \in Ops, NEW outcome \in Kept, Keep(outcome)
  PROVE  /\ meta' \in Metadata /\ meta'.kept[exec.op] = outcome
         /\ \A o \in Ops \ {exec.op} : meta'.kept[o] = meta.kept[o]
         /\ meta'.rev = meta.rev /\ meta'.journal = meta.journal
  BY DEF Keep, RotTypeOK, Metadata

LEMMA PhaseType ==
  ASSUME RotTypeOK, meta.journal # None, NEW phase \in JournalPhases, Phase(phase)
  PROVE  /\ meta' \in Metadata /\ meta'.kept = meta.kept /\ meta'.rev = meta.rev
         /\ meta'.journal # None /\ meta'.journal.op = meta.journal.op
         /\ meta'.journal.anchor = meta.journal.anchor
         /\ meta'.journal.phase = phase
  <1> DEFINE j == [meta.journal EXCEPT !.phase = phase]
  <1>1. j \in Journal /\ j.op = meta.journal.op /\ j.anchor = meta.journal.anchor /\ j.phase = phase
    BY MetaFacts DEF Journal
  <1>2. meta' = [meta EXCEPT !.journal = j]
    BY DEF Phase
  <1> HIDE DEF j
  <1> QED
    BY <1>1, <1>2, MetaFacts, ServerFacts DEF Metadata

LEMMA ContinueType ==
  ASSUME exec \in Execution, NEW pc \in CallSteps \ {"start"},
         NEW anchor \in Secrets, NEW previous \in Secrets,
         worker' = worker,
         \/ exec' = [exec EXCEPT !.pc = pc]
         \/ exec' = [exec EXCEPT !.pc = pc, !.anchor = anchor]
         \/ exec' = [exec EXCEPT !.pc = pc, !.previous = previous]
  PROVE  Continues /\ exec'.pc = pc
  <1>1. CASE exec' = [exec EXCEPT !.pc = pc]
    BY <1>1 DEF Continues, Same, Execution
  <1>2. CASE exec' = [exec EXCEPT !.pc = pc, !.anchor = anchor]
    BY <1>2 DEF Continues, Same, Execution
  <1>3. CASE exec' = [exec EXCEPT !.pc = pc, !.previous = previous]
    BY <1>3 DEF Continues, Same, Execution
  <1> QED
    BY <1>1, <1>2, <1>3

\* A call that ends.
LEMMA EndMove ==
  ASSUME RotTypeOK, ServerOps, Memory, exec # None, calls' = calls, payload' = payload,
         meta' \in Metadata, dbpw' \in Secrets, env' \in Secrets, running' \in Secrets,
         faults' \in 0..MaxFaults,
         NEW outcome \in Outcomes, Finish(outcome),
         \A o \in Ops : \/ meta'.kept[o] = meta.kept[o]
                        \/ o = exec.op /\ exec.kind = "rotate" /\ meta.kept[o] = None,
         exec.kind = "rotate" /\ outcome = "ok" => meta'.kept[exec.op] = "ok"
  PROVE  ProvisionMove
  <1>1. exec' = None
    BY DEF Finish
  <1>2. Rotating' /\ Rollback'
    BY <1>1 DEF Rotating, Rollback
  <1> QED
    BY <1>2, ExecFacts DEF ProvisionMove

LEMMA PrepareRotation ==
  ASSUME RotTypeOK, ServerOps, Memory, payload' = payload, RotatePrepare
  PROVE  ProvisionMove
  <1> DEFINE j == IF meta.journal # None /\ meta.journal.op = exec.op THEN meta.journal
                  ELSE [op |-> exec.op, phase |-> "prepared", anchor |-> env]
  <1>1. /\ exec # None /\ exec.kind = "rotate" /\ exec.pc = "start"
        /\ UNCHANGED <<dbpw, env, running, calls, faults>>
    BY DEF RotatePrepare, Doing, runtimeVars, NoFault
  <1>2. CASE meta.kept[exec.op] # None /\ Finish(meta.kept[exec.op]) /\ meta' = meta
    <2>1. meta.kept[exec.op] \in Outcomes
      BY <1>1, <1>2, MetaFacts, ExecFacts DEF Kept, Outcomes
    <2> QED
      BY <1>1, <1>2, <2>1, MetaFacts, ExecFacts, EndMove
  <1>3. CASE Finish("rejected") /\ meta' = meta
    BY <1>1, <1>3, MetaFacts, ExecFacts, EndMove DEF Outcomes
  <1>4. CASE /\ meta.kept[exec.op] = None /\ meta.rev = Rev(exec.op) - 1
             /\ meta' = [meta EXCEPT !.fence = exec.fence, !.journal = j]
             /\ exec' = [exec EXCEPT !.pc = "stage", !.anchor = j.anchor]
             /\ worker' = worker
    <2>1. j \in Journal /\ j.op = exec.op /\ j.anchor \in Secrets
      BY <1>1, MetaFacts, ExecFacts DEF Journal, JournalPhases
    <2>2. j # None /\ exec.fence \in 0..MaxFence
      BY <1>1, <2>1, ServerFacts, ExecFacts DEF Fences
    <2> HIDE DEF j
    <2>3. /\ meta' \in Metadata /\ meta'.journal = j /\ meta'.kept = meta.kept
          /\ meta'.rev = meta.rev
      BY <1>4, <2>1, <2>2, MetaFacts DEF Metadata
    <2>4. Continues /\ exec'.pc = "stage"
      BY <1>1, <1>4, <2>1, ExecFacts, ContinueType DEF CallSteps
    <2>5. Rotating' /\ Rollback'
      BY <1>1, <1>4, <2>1, <2>2, <2>3, <2>4 DEF Rotating, Rollback, Continues, Same, Rev
    <2> QED
      BY <1>1, <2>3, <2>4, <2>5, MetaFacts, ExecFacts DEF ProvisionMove
  <1> QED
    BY <1>2, <1>3, <1>4 DEF RotatePrepare

LEMMA FaultTypes ==
  ASSUME RotTypeOK, Fault \/ NoFault \/ Succeeds \/ Fails
  PROVE  faults' \in 0..MaxFaults
  BY MetaFacts, FaultFacts DEF Succeeds, Fails

\* A rotation's call ends with an outcome that is kept.
LEMMA KeptMove ==
  ASSUME RotTypeOK, ServerOps, Memory, exec # None, exec.kind = "rotate",
         meta.kept[exec.op] = None, calls' = calls, payload' = payload,
         NEW outcome \in {"unchanged", "undone", "broken"}, Keep(outcome), Finish(outcome),
         dbpw' \in Secrets, env' \in Secrets, running' \in Secrets, faults' \in 0..MaxFaults
  PROVE  ProvisionMove
  <1>1. outcome \in Kept /\ outcome \in Outcomes /\ outcome # "ok"
    BY DEF Kept, Outcomes
  <1>2. meta' \in Metadata /\ \A o \in Ops \ {exec.op} : meta'.kept[o] = meta.kept[o]
    BY <1>1, ExecFacts, KeepType
  <1> QED
    BY <1>1, <1>2, ExecFacts, EndMove

LEMMA UndoTypes ==
  ASSUME RotTypeOK, ServerOps, Memory, exec # None, exec.kind = "rotate",
         NEW wholly \in BOOLEAN, Undo(wholly)
  PROVE  dbpw' \in Secrets /\ env' \in Secrets /\ running' \in Secrets
  BY MetaFacts, ExecFacts DEF Undo

LEMMA UndoMove ==
  ASSUME RotTypeOK, ServerOps, Memory, exec # None, exec.kind = "rotate",
         meta.kept[exec.op] = None, calls' = calls, payload' = payload,
         RotateUndo, faults' \in 0..MaxFaults
  PROVE  ProvisionMove
  <1>1. exec.live \in BOOLEAN
    BY ExecFacts
  <1>2. dbpw' \in Secrets /\ env' \in Secrets /\ running' \in Secrets
    BY <1>1, UndoTypes DEF RotateUndo
  <1> QED
    BY <1>2, KeptMove DEF RotateUndo

\* What is known of a rotation's call while it runs.
LEMMA RunningFacts ==
  ASSUME RotTypeOK, ServerOps, Memory, Rotating, NEW pc \in CallSteps \ {"start"}, Doing("rotate", pc)
  PROVE  /\ exec # None /\ exec \in Execution /\ exec.kind = "rotate" /\ exec.pc = pc
         /\ exec.op \in Ops /\ exec.new = exec.op /\ exec.op \in Secrets
         /\ exec.old \in Secrets /\ exec.previous \in Secrets /\ exec.anchor \in Secrets
         /\ meta.journal # None /\ meta.journal.op = exec.op
         /\ meta.kept[exec.op] = None /\ meta.rev = Rev(exec.op) - 1
         /\ pc # "stage" => env = exec.op
         /\ pc \in {"recreate", "verify", "commit"} => dbpw = exec.op
         /\ pc \in {"verify", "commit"} => running = exec.op
  BY ExecFacts, ServerFacts DEF Doing, Rotating

LEMMA StageRotation ==
  ASSUME RotTypeOK, ServerOps, Memory, Rotating, payload' = payload, RotateStage
  PROVE  ProvisionMove
  <1>1. Doing("rotate", "stage") /\ UNCHANGED <<dbpw, running, calls>>
    BY DEF RotateStage
  <1>2. "stage" \in CallSteps \ {"start"}
    BY DEF CallSteps
  <1>3. CASE /\ Succeeds /\ env' = exec.new /\ Phase("runtime-published")
             /\ exec' = [exec EXCEPT !.pc = "alter", !.previous = env] /\ worker' = worker
    <2>1. /\ meta' \in Metadata /\ meta'.kept = meta.kept /\ meta'.rev = meta.rev
          /\ meta'.journal # None /\ meta'.journal.op = exec.op
      BY <1>1, <1>2, <1>3, RunningFacts, PhaseType DEF JournalPhases
    <2>2. Continues /\ exec'.pc = "alter"
      BY <1>1, <1>2, <1>3, RunningFacts, MetaFacts, ContinueType DEF CallSteps
    <2>3. Rotating' /\ Rollback'
      BY <1>1, <1>2, <1>3, <2>1, <2>2, RunningFacts DEF Rotating, Rollback, Continues, Same, Rev
    <2> QED
      BY <1>1, <1>2, <1>3, <2>1, <2>2, <2>3, RunningFacts, MetaFacts, FaultTypes DEF ProvisionMove
  <1>4. CASE /\ Fails \/ Fault
             /\ \E outcome \in {"unchanged", "undone"} : Keep(outcome) /\ Finish(outcome)
             /\ env' = env
    BY <1>1, <1>2, <1>4, RunningFacts, MetaFacts, FaultTypes, KeptMove
  <1> QED
    BY <1>3, <1>4 DEF RotateStage

LEMMA AlterRotation ==
  ASSUME RotTypeOK, ServerOps, Memory, Rotating, payload' = payload, RotateAlter
  PROVE  ProvisionMove
  <1>1. Doing("rotate", "alter") /\ UNCHANGED <<running, calls>>
    BY DEF RotateAlter
  <1>2. "alter" \in CallSteps \ {"start"}
    BY DEF CallSteps
  <1>3. CASE Succeeds /\ dbpw' = exec.new /\ Phase("db-rotated") /\ Continue("recreate") /\ env' = env
    <2>1. /\ meta' \in Metadata /\ meta'.kept = meta.kept /\ meta'.rev = meta.rev
          /\ meta'.journal # None /\ meta'.journal.op = exec.op
      BY <1>1, <1>2, <1>3, RunningFacts, PhaseType DEF JournalPhases
    <2>2. Continues /\ exec'.pc = "recreate"
      BY <1>1, <1>2, <1>3, RunningFacts, ContinueType DEF CallSteps, Continue
    <2>3. Rotating' /\ Rollback'
      BY <1>1, <1>2, <1>3, <2>1, <2>2, RunningFacts DEF Rotating, Rollback, Continues, Same, Rev
    <2> QED
      BY <1>1, <1>2, <1>3, <2>1, <2>2, <2>3, RunningFacts, MetaFacts, FaultTypes DEF ProvisionMove
  <1>4. CASE /\ Fails \/ Fault
             /\ dbpw' \in {dbpw, exec.new, exec.old} /\ env' = exec.previous
             /\ \E outcome \in {"broken", "undone"} : Keep(outcome) /\ Finish(outcome)
    BY <1>1, <1>2, <1>4, RunningFacts, MetaFacts, FaultTypes, KeptMove
  <1> QED
    BY <1>3, <1>4 DEF RotateAlter

LEMMA RecreateRotation ==
  ASSUME RotTypeOK, ServerOps, Memory, Rotating, payload' = payload, RotateRecreate
  PROVE  ProvisionMove
  <1>1. Doing("rotate", "recreate") /\ calls' = calls
    BY DEF RotateRecreate
  <1>2. "recreate" \in CallSteps \ {"start"}
    BY DEF CallSteps
  <1>3. CASE Succeeds /\ running' = exec.new /\ Continue("verify") /\ UNCHANGED <<meta, dbpw, env>>
    <2>1. Continues /\ exec'.pc = "verify"
      BY <1>1, <1>2, <1>3, RunningFacts, ContinueType DEF CallSteps, Continue
    <2>2. Rotating' /\ Rollback'
      BY <1>1, <1>2, <1>3, <2>1, RunningFacts DEF Rotating, Rollback, Continues, Same, Rev
    <2> QED
      BY <1>1, <1>2, <1>3, <2>1, <2>2, RunningFacts, MetaFacts, FaultTypes DEF ProvisionMove
  <1>4. CASE Fails /\ RotateUndo
    BY <1>1, <1>2, <1>4, RunningFacts, FaultTypes, UndoMove
  <1> QED
    BY <1>3, <1>4 DEF RotateRecreate

LEMMA VerifyRotation ==
  ASSUME RotTypeOK, ServerOps, Memory, Rotating, payload' = payload, RotateVerify
  PROVE  ProvisionMove
  <1>1. Doing("rotate", "verify") /\ calls' = calls
    BY DEF RotateVerify
  <1>2. "verify" \in CallSteps \ {"start"}
    BY DEF CallSteps
  <1>3. CASE Succeeds /\ Phase("provisioner-committed") /\ Continue("commit") /\ UNCHANGED runtimeVars
    <2>1. /\ meta' \in Metadata /\ meta'.kept = meta.kept /\ meta'.rev = meta.rev
          /\ meta'.journal # None /\ meta'.journal.op = exec.op
      BY <1>1, <1>2, <1>3, RunningFacts, PhaseType DEF JournalPhases
    <2>2. Continues /\ exec'.pc = "commit"
      BY <1>1, <1>2, <1>3, RunningFacts, ContinueType DEF CallSteps, Continue
    <2>3. Rotating' /\ Rollback'
      BY <1>1, <1>2, <1>3, <2>1, <2>2, RunningFacts
         DEF Rotating, Rollback, Continues, Same, Rev, runtimeVars
    <2> QED
      BY <1>1, <1>2, <1>3, <2>1, <2>2, <2>3, RunningFacts, MetaFacts, FaultTypes
         DEF ProvisionMove, runtimeVars
  <1>4. CASE Fails /\ Finish("broken") /\ UNCHANGED <<meta, runtimeVars>>
    BY <1>1, <1>2, <1>4, RunningFacts, MetaFacts, FaultTypes, EndMove DEF Outcomes, runtimeVars
  <1>5. CASE Fails /\ RotateUndo
    BY <1>1, <1>2, <1>5, RunningFacts, FaultTypes, UndoMove
  <1> QED
    BY <1>3, <1>4, <1>5 DEF RotateVerify

LEMMA CommitRotation ==
  ASSUME RotTypeOK, ServerOps, Memory, Rotating, payload' = payload, RotateCommit
  PROVE  ProvisionMove
  <1>1. Doing("rotate", "commit") /\ calls' = calls
    BY DEF RotateCommit
  <1>2. "commit" \in CallSteps \ {"start"}
    BY DEF CallSteps
  <1>3. CASE /\ NoFault /\ Finish("ok") /\ UNCHANGED runtimeVars
             /\ meta' = [meta EXCEPT !.rev = Rev(exec.op), !.kept[exec.op] = "ok"]
    <2>1. /\ meta' \in Metadata /\ meta'.kept[exec.op] = "ok"
          /\ \A o \in Ops \ {exec.op} : meta'.kept[o] = meta.kept[o]
      BY <1>1, <1>2, <1>3, RunningFacts, MetaFacts, ExecFacts DEF Metadata, Kept
    <2> QED
      BY <1>1, <1>2, <1>3, <2>1, RunningFacts, MetaFacts, FaultTypes, EndMove
         DEF Outcomes, runtimeVars
  <1>4. CASE Fault /\ (Undo(exec.live) \/ Undo(FALSE)) /\ Finish("unknown") /\ meta' = meta
    <2>1. dbpw' \in Secrets /\ env' \in Secrets /\ running' \in Secrets
      BY <1>1, <1>2, <1>4, RunningFacts, ExecFacts, UndoTypes
    <2> QED
      BY <1>1, <1>2, <1>4, <2>1, RunningFacts, MetaFacts, FaultTypes, EndMove DEF Outcomes
  <1> QED
    BY <1>3, <1>4 DEF RotateCommit

\* What is known of a rollback's call.
LEMMA RollingFacts ==
  ASSUME RotTypeOK, ServerOps, Memory, Rollback, NEW pc \in CallSteps, Doing("rollback", pc)
  PROVE  /\ exec # None /\ exec \in Execution /\ exec.kind = "rollback" /\ exec.pc = pc
         /\ exec.op \in Ops /\ exec.new \in Secrets
         /\ Rev(exec.op) \in Revisions /\ Rev(exec.op) > 1 /\ payload[exec.op] # None
         /\ pc # "start" => meta.rev = Rev(exec.op)
  BY ExecFacts DEF Doing, Rollback

LEMMA StageRollback ==
  ASSUME RotTypeOK, ServerOps, Memory, Rollback, payload' = payload, RollbackStage
  PROVE  ProvisionMove
  <1>1. Doing("rollback", "start") /\ UNCHANGED <<meta, dbpw, running, calls>>
    BY DEF RollbackStage
  <1>2. "start" \in CallSteps
    BY DEF CallSteps
  <1>3. CASE /\ Fails \/ NoFault
             /\ \E outcome \in {"ok", "rejected", "unknown"} : Finish(outcome)
             /\ env' = env
    BY <1>1, <1>2, <1>3, RollingFacts, MetaFacts, FaultTypes, EndMove DEF Outcomes
  <1>4. CASE /\ NoFault /\ meta.rev = Rev(exec.op)
             /\ env' = IF meta.journal # None THEN meta.journal.anchor ELSE exec.new
             /\ Continue("alter")
    <2>1. Continues /\ exec'.pc = "alter"
      BY <1>1, <1>2, <1>4, RollingFacts, ContinueType DEF CallSteps, Continue
    <2>2. env' \in Secrets
      BY <1>1, <1>2, <1>4, RollingFacts, MetaFacts DEF Journal
    <2>3. Rotating' /\ Rollback'
      BY <1>1, <1>2, <1>4, <2>1, RollingFacts DEF Rotating, Rollback, Continues, Same, Rev
    <2> QED
      BY <1>1, <1>2, <1>4, <2>1, <2>2, <2>3, RollingFacts, MetaFacts, FaultTypes DEF ProvisionMove
  <1> QED
    BY <1>3, <1>4 DEF RollbackStage

LEMMA AlterRollback ==
  ASSUME RotTypeOK, ServerOps, Memory, Rollback, payload' = payload, RollbackAlter
  PROVE  ProvisionMove
  <1>1. Doing("rollback", "alter") /\ UNCHANGED <<meta, env, running, calls>>
    BY DEF RollbackAlter
  <1>2. "alter" \in CallSteps
    BY DEF CallSteps
  <1>3. CASE Fails /\ dbpw' \in {dbpw, exec.new} /\ Finish("unknown")
    BY <1>1, <1>2, <1>3, RollingFacts, MetaFacts, FaultTypes, EndMove DEF Outcomes
  <1>4. CASE Succeeds /\ dbpw' = exec.new /\ Continue("recreate")
    <2>1. Continues /\ exec'.pc = "recreate"
      BY <1>1, <1>2, <1>4, RollingFacts, ContinueType DEF CallSteps, Continue
    <2>2. Rotating' /\ Rollback'
      BY <1>1, <1>2, <1>4, <2>1, RollingFacts DEF Rotating, Rollback, Continues, Same, Rev
    <2> QED
      BY <1>1, <1>2, <1>4, <2>1, <2>2, RollingFacts, MetaFacts, FaultTypes DEF ProvisionMove
  <1> QED
    BY <1>3, <1>4 DEF RollbackAlter

LEMMA RecreateRollback ==
  ASSUME RotTypeOK, ServerOps, Memory, Rollback, payload' = payload, RollbackRecreate
  PROVE  ProvisionMove
  <1>1. Doing("rollback", "recreate") /\ UNCHANGED <<dbpw, env, calls>>
    BY DEF RollbackRecreate
  <1>2. "recreate" \in CallSteps
    BY DEF CallSteps
  <1>3. CASE Fails /\ running' \in {running, env} /\ Finish("unknown") /\ meta' = meta
    BY <1>1, <1>2, <1>3, RollingFacts, MetaFacts, FaultTypes, EndMove DEF Outcomes
  <1>4. CASE /\ Succeeds /\ running' = env /\ Finish("ok")
             /\ meta' = [meta EXCEPT !.rev = Rev(exec.op) - 1, !.journal = None,
                                     !.rolledBack = @ \cup {exec.op}]
    <2>1. Rev(exec.op) - 1 \in Revisions
      BY <1>1, <1>2, RollingFacts, ConstantsAssumption DEF Revisions
    <2>2. meta' \in Metadata /\ meta'.kept = meta.kept
      BY <1>1, <1>2, <1>4, <2>1, RollingFacts, MetaFacts DEF Metadata
    <2> QED
      BY <1>1, <1>2, <1>4, <2>2, RollingFacts, MetaFacts, FaultTypes, EndMove DEF Outcomes
  <1> QED
    BY <1>3, <1>4 DEF RollbackRecreate

LEMMA ConfirmMove ==
  ASSUME RotTypeOK, ServerOps, Memory, payload' = payload, Confirm
  PROVE  ProvisionMove
  <1>1. /\ exec # None /\ exec.kind = "confirm" /\ UNCHANGED <<dbpw, env, running, calls, faults>>
        /\ \E outcome \in {"ok", "rejected"} : Finish(outcome)
        /\ meta' = meta \/ meta' = [meta EXCEPT !.journal = None]
    BY DEF Confirm, Doing, runtimeVars, NoFault
  <1>2. meta' \in Metadata /\ meta'.kept = meta.kept
    BY <1>1, MetaFacts DEF Metadata
  <1> QED
    BY <1>1, <1>2, MetaFacts, EndMove DEF Outcomes

LEMMA ProvisionMoves ==
  ASSUME RotTypeOK, ServerOps, Memory, Rotating, Rollback, Provision
  PROVE  /\ ProvisionMove
         /\ UNCHANGED <<storeVars, lock, queue, entries, tails, requests, step>>
  <1>1. UNCHANGED <<storeVars, lock, queue, entries, tails, requests, step>> /\ payload' = payload
    BY DEF Provision, storeVars
  <1> QED
    BY <1>1, PrepareRotation, StageRotation, AlterRotation, RecreateRotation, VerifyRotation,
       CommitRotation, StageRollback, AlterRollback, RecreateRollback, ConfirmMove DEF Provision

-----------------------------------------------------------------------------
(* The invariants of the two processes.                                      *)

ProcessInv == Inv /\ ManagerTyped /\ ProvisionerTyped /\ HistoryTyped /\ Processes

LEMMA ProcessInvFacts ==
  ProcessInv => /\ RotTypeOK /\ TypeOK /\ Inv
                /\ ServerOps /\ KnownSecrets /\ Memory /\ Awaited /\ Rotating /\ Rollback /\ Answered
  BY TypeParts DEF ProcessInv, Processes, Inv

LEMMA RunStore ==
  ASSUME RotTypeOK, ServerOps, Memory, NEW w \in Workers, Run(w)
  PROVE  [RotStore]_storeVars
  <1> DEFINE o == worker[w].op
             f == worker[w].fence
  <1>1. worker[w].pc # "idle" => o \in Ops /\ f \in Fences /\ payload[o] # None
    BY WorkerFacts
  <1>2. CASE \/ Recover(w) \/ Prepare(w) \/ ReconcileServices(w) \/ Mark(w) \/ Confirmed(w)
    BY <1>2 DEF Recover, Prepare, ReconcileServices, Mark, Confirmed
  <1>3. CASE Start(w) \/ Rotated(w) \/ Compensate(w) \/ RolledBack(w)
    BY <1>1, <1>3, ServerFacts DEF Start, Rotated, Compensate, RolledBack, At, Replied, RotStore, Compensations
  <1>4. CASE Publish(w) \/ Good(w) \/ Restore(w) \/ Exit(w)
    BY <1>1, <1>4 DEF Publish, Good, Restore, Exit, At, RotStore
  <1>5. CASE fail(w) \/ Succeed(w)
    BY <1>1, <1>5, ServerFacts DEF fail, Succeed, Advance, At, RotStore
  <1> QED
    BY <1>2, <1>3, <1>4, <1>5 DEF Run

LEMMA StepStore ==
  ASSUME RotTypeOK, ServerOps, Memory, [RotNext]_rotVars
  PROVE  [RotStore]_storeVars
  <1>1. ASSUME NEW t \in tails, LateRelease(t) PROVE [RotStore]_storeVars
    BY <1>1 DEF LateRelease, RotStore, RotTypeOK, Token
  <1>2. ASSUME NEW e \in entries, Resume(e) PROVE [RotStore]_storeVars
    BY <1>2 DEF Resume, RotStore, RotTypeOK, Entry
  <1>3. CASE QueueAdmit
    BY <1>3 DEF QueueAdmit, RotStore, RotTypeOK
  <1>4. CASE Provision \/ RestartManager \/ RestartProvisioner \/ ListActive \/ QueueRead
             \/ (\E c \in calls : Begin(c)) \/ (\E w \in Workers : Disconnect(w))
    BY <1>4 DEF Provision, RestartManager, RestartProvisioner, ListActive, QueueRead, Begin, Disconnect
  <1>5. CASE Expire
    BY <1>5 DEF Expire, RotStore
  <1>6. CASE UNCHANGED rotVars
    BY <1>6 DEF rotVars, stepVars
  <1> QED
    BY <1>1, <1>2, <1>3, <1>4, <1>5, <1>6, RunStore DEF RotNext, RotStep

LEMMA StepPayload ==
  ASSUME ProcessInv, [RotNext]_rotVars
  PROVE  Inv' /\ ServerOps' /\ KnownSecrets' /\ PayloadKept
  <1>1. [RotStore]_storeVars
    BY ProcessInvFacts, StepStore
  <1>2. [Next]_storeVars
    BY <1>1, ProcessInvFacts, RotStoreIsNext
  <1> QED
    BY <1>1, <1>2, ProcessInvFacts, RotStoreKeeps, NextType, NextSafe DEF Inv, Safe, TypeInv

\* Requests that are made stay well-formed.
LEMMA RequestKept ==
  ASSUME PayloadKept, NEW c, c.op \in Ops, RequestOK(c)
  PROVE  RequestOK(c)'
  BY DEF PayloadKept, RequestOK

LEMMA RequestFacts ==
  ASSUME RotTypeOK, NEW c \in calls
  PROVE  /\ c \in Request /\ c.by \in Workers /\ c.kind \in CallKinds /\ c.op \in Ops
         /\ c.live \in BOOLEAN
  BY DEF RotTypeOK, Request

\* The Provisioner's own variables and the runtime rest.
LEMMA RestingKept ==
  ASSUME RotTypeOK, Memory, Rotating, Rollback, PayloadKept,
         UNCHANGED <<meta, exec, dbpw, env, running>>
  PROVE  Rotating' /\ Rollback' /\ (exec' # None => RequestOK(exec)')
  <1>1. exec # None => exec.op \in Ops /\ payload[exec.op] # None
    BY DEF RotTypeOK, Execution, Memory, RequestOK
  <1>2. exec # None => payload'[exec.op] # None /\ Rev(exec.op)' = Rev(exec.op)
    BY <1>1 DEF PayloadKept, Rev
  <1>3. Rotating' /\ Rollback'
    BY <1>2 DEF Rotating, Rollback
  <1>4. exec' # None => RequestOK(exec)'
    BY <1>2 DEF RequestOK, Memory
  <1> QED
    BY <1>3, <1>4

LEMMA WaitsFacts ==
  ASSUME NEW kind \in CallKinds
  PROVE  /\ Waits(kind) \in Waiting
         /\ (Waits(kind) = "rotating") <=> (kind = "rotate")
         /\ (Waits(kind) = "rolling") <=> (kind = "rollback")
         /\ (Waits(kind) = "confirming") <=> (kind = "confirm")
  BY DEF CallKinds, Waits, Waiting

\* The request w makes, and that it is the only one waiting for w.
LEMMA AskedFacts ==
  ASSUME ProcessInv, PayloadKept, NEW w \in Workers, worker[w].pc # "idle", GoroutineMove(w),
         NEW kind \in CallKinds, NEW old \in Secrets \cup {None}, NEW new \in Secrets \cup {None},
         Asks(w, kind, old, new)
  PROVE  \E c \in Request :
            /\ calls' = calls \cup {c}
            /\ c.by = w /\ c.kind = kind /\ c.op = worker[w].op /\ c.new = new /\ c.old = old /\ c.live
            /\ RequestOK(c)' /\ AwaitedBy(c)'
  <1> DEFINE sent == [by |-> w, kind |-> kind, op |-> worker[w].op, fence |-> worker[w].fence,
                      old |-> old, new |-> new, live |-> TRUE]
  <1>1. /\ worker[w].op \in Ops /\ worker[w].fence \in Fences /\ payload[worker[w].op] # None
    BY ProcessInvFacts, WorkerFacts
  <1>2. sent \in Request
    BY <1>1 DEF Request
  <1>3. PICK c \in Request : c = sent
    BY <1>2
  <1>4. /\ c.by = w /\ c.kind = kind /\ c.op = worker[w].op /\ c.new = new /\ c.old = old
        /\ c.live
    BY <1>3
  <1>5. calls' = calls \cup {c}
    BY <1>3 DEF Asks, Send
  <1> HIDE DEF sent
  <1>6. RequestOK(c)'
    <2>1. payload'[c.op] # None
      BY <1>1, <1>4 DEF PayloadKept
    <2>2. /\ c.kind = "rotate" => c.new = c.op /\ c.old \in Secrets
          /\ c.kind = "rollback" => c.new \in Secrets
      BY <1>4 DEF Asks
    <2> QED
      BY <2>1, <2>2 DEF RequestOK
  <1>7. worker'[w].pc = Waits(kind) /\ worker'[w].reply = "" /\ worker'[w].op = worker[w].op
    <2>1. Waits(kind) \in Waiting /\ Idle.pc \notin Waiting
      BY WaitsFacts DEF Waiting, Idle
    <2> QED
      BY <2>1 DEF GoroutineMove, Asks
  <1>8. AwaitedBy(c)'
    BY <1>4, <1>7 DEF AwaitedBy
  <1> QED
    BY <1>4, <1>5, <1>6, <1>8

LEMMA RunKeeps ==
  ASSUME ProcessInv, PayloadKept, NEW w \in Workers, GoroutineMove(w)
  PROVE  /\ ManagerTyped' /\ ProvisionerTyped'
         /\ Memory' /\ Awaited' /\ Rotating' /\ Rollback' /\ Answered'
  <1>0. /\ worker[w].pc # "idle" /\ UNCHANGED <<meta, exec, dbpw, env, running>>
        /\ worker' \in [Workers -> Goroutine] /\ Others(w) /\ worker'[w].reply = ""
    BY DEF GoroutineMove
  <1>1. \/ calls' = calls
        \/ \E c \in Request : calls' = calls \cup {c} /\ c.by = w /\ c.live
                              /\ RequestOK(c)' /\ AwaitedBy(c)'
    <2>1. CASE \E kind \in CallKinds, old, new \in Secrets \cup {None} : Asks(w, kind, old, new)
      BY <1>0, <2>1, AskedFacts
    <2> QED
      BY <2>1 DEF GoroutineMove
  <1>2. ManagerTyped'
    BY DEF GoroutineMove, ManagerTyped, ProcessInv
  <1>3. ProvisionerTyped'
    BY <1>0, <1>1 DEF ProvisionerTyped, ProcessInv
  <1>4. Rotating' /\ Rollback' /\ (exec' # None => RequestOK(exec)')
    BY <1>0, ProcessInvFacts, RestingKept
  <1>5. /\ worker[w].op \in Ops /\ payload'[worker[w].op] # None
        /\ worker'[w].pc # "idle" => worker'[w].op = worker[w].op
        /\ worker'[w].pc \in Passed => worker'[w].op = worker[w].op
    <2>1. worker[w].op \in Ops /\ payload[worker[w].op] # None
      BY <1>0, ProcessInvFacts, WorkerFacts
    <2>2. Idle.pc = "idle" /\ "idle" \notin Passed
      BY DEF Idle, Passed
    <2> QED
      BY <2>1, <2>2 DEF PayloadKept, GoroutineMove
  <1>6. Memory'
    <2>1. ASSUME NEW v \in Workers
          PROVE  /\ worker'[v].pc # "idle" => worker'[v].op \in Ops /\ payload'[worker'[v].op] # None
                 /\ worker'[v].pc \in Passed \cup {"rotating", "compensate"} => worker'[v].old \in Secrets
                 /\ worker'[v].pc \notin Waiting => worker'[v].reply = ""
      <3>1. CASE v = w
        BY <1>0, <1>5, <3>1 DEF GoroutineMove
      <3>2. CASE v # w
        BY <1>0, <3>2, ProcessInvFacts DEF Others, Memory, PayloadKept
      <3> QED
        BY <3>1, <3>2
    <2>2. ASSUME NEW c \in calls' PROVE RequestOK(c)'
      <3>1. CASE c \in calls
        BY <3>1, ProcessInvFacts, RequestFacts, RequestKept DEF Memory
      <3> QED
        BY <3>1, <1>1
    <2> QED
      BY <2>1, <2>2, <1>4 DEF Memory
  <1>7. Awaited'
    <2>1. ASSUME NEW c, c.live, c.by \in Workers, c.kind \in CallKinds, AwaitedBy(c)
          PROVE  c.by # w /\ AwaitedBy(c)'
      <3>1. c.by # w
        BY <2>1, WaitsFacts DEF AwaitedBy, GoroutineMove
      <3>2. worker'[c.by] = worker[c.by]
        BY <2>1, <3>1, <1>0 DEF Others
      <3> QED
        BY <2>1, <3>1, <3>2 DEF AwaitedBy
    <2>2. ASSUME NEW c \in calls, c.live PROVE c.by # w /\ AwaitedBy(c)'
      BY <2>1, <2>2, ProcessInvFacts, RequestFacts DEF Awaited
    <2>3. exec # None /\ exec.live => exec.by # w /\ AwaitedBy(exec)'
      BY <2>1, <1>0, ProcessInvFacts, ExecFacts DEF Awaited
    <2>4. exec' = exec /\ (exec # None /\ exec.live => \A c \in calls : c.live => c.by # exec.by)
      BY <1>0, ProcessInvFacts DEF Awaited
    <2>5. \A c, d \in calls : c.live /\ d.live /\ c.by = d.by => c = d
      BY ProcessInvFacts DEF Awaited
    <2>6. CASE calls' = calls
      BY <2>2, <2>3, <2>4, <2>5, <2>6 DEF Awaited, AwaitedBy
    <2>7. ASSUME NEW x \in Request, calls' = calls \cup {x}, x.by = w, x.live, AwaitedBy(x)'
          PROVE  Awaited'
      <3>1. \A c \in calls' : c.live => AwaitedBy(c)'
        BY <2>2, <2>7
      <3>2. \A c, d \in calls' : c.live /\ d.live /\ c.by = d.by => c = d
        BY <2>2, <2>5, <2>7
      <3>3. exec' # None /\ exec'.live => AwaitedBy(exec)' /\ \A c \in calls' : c.live => c.by # exec'.by
        BY <2>3, <2>4, <2>7
      <3> QED
        BY <3>1, <3>2, <3>3 DEF Awaited
    <2> QED
      BY <1>1, <2>6, <2>7
  <1>8. Answered'
    <2> SUFFICES ASSUME NEW v \in Workers,
                        \/ worker'[v].pc \in Passed
                        \/ worker'[v].pc = "rotating" /\ worker'[v].reply = "ok"
                 PROVE  meta'.kept[worker'[v].op] = "ok"
      BY DEF Answered
    <2>1. CASE v = w
      BY <1>0, <1>5, <2>1, ProcessInvFacts DEF GoroutineMove, Answered
    <2>2. CASE v # w
      BY <1>0, <2>2, ProcessInvFacts DEF Others, Answered
    <2> QED
      BY <2>1, <2>2
  <1> QED
    BY <1>2, <1>3, <1>4, <1>6, <1>7, <1>8

\* r with an answer.
Replies(r, s, outcome) ==
    /\ s \in Goroutine
    /\ s.reply = outcome
    /\ s.pc = r.pc /\ s.op = r.op /\ s.old = r.old /\ s.resumed = r.resumed
    /\ s.fence = r.fence /\ s.back = r.back /\ s.seen = r.seen /\ s.step = r.step
    /\ s.recovery = r.recovery

LEMMA ReplyType ==
  ASSUME NEW r \in Goroutine, NEW outcome \in Outcomes
  PROVE  Replies(r, [r EXCEPT !.reply = outcome], outcome)
  BY DEF Goroutine, Replies

LEMMA FinishFacts ==
  ASSUME RotTypeOK, exec \in Execution, NEW outcome \in Outcomes, Finish(outcome)
  PROVE  /\ worker' \in [Workers -> Goroutine]
         /\ \A v \in Workers :
               IF exec.live /\ v = exec.by THEN Replies(worker[v], worker'[v], outcome)
               ELSE worker'[v] = worker[v]
  <1>1. exec.by \in Workers /\ worker \in [Workers -> Goroutine] /\ exec.live \in BOOLEAN
    BY DEF RotTypeOK, Execution
  <1>2. CASE exec.live
    <2> DEFINE s == [worker[exec.by] EXCEPT !.reply = outcome]
    <2>1. worker' = [worker EXCEPT ![exec.by] = s]
      BY <1>2 DEF Finish
    <2>2. Replies(worker[exec.by], s, outcome)
      BY <1>1, ReplyType
    <2> HIDE DEF s
    <2> QED
      BY <1>1, <1>2, <2>1, <2>2 DEF Replies
  <1>3. CASE ~exec.live
    BY <1>1, <1>3 DEF Finish
  <1> QED
    BY <1>1, <1>2, <1>3

LEMMA ProvisionKeeps ==
  ASSUME ProcessInv, PayloadKept, ProvisionMove,
         UNCHANGED <<payload, lock, queue, entries, tails, requests, step>>
  PROVE  /\ ManagerTyped' /\ ProvisionerTyped'
         /\ Memory' /\ Awaited' /\ Rotating' /\ Rollback' /\ Answered'
  <1>1. /\ exec \in Execution /\ exec # None /\ calls' = calls /\ Rotating' /\ Rollback'
        /\ \A o \in Ops : meta.kept[o] = "ok" => meta'.kept[o] = "ok"
        /\ faults' \in 0..MaxFaults
    <2>1. \A o \in Ops : meta.kept[o] = "ok" => meta'.kept[o] = "ok"
      BY ServerFacts DEF ProvisionMove, Kept
    <2> QED
      BY <2>1 DEF ProvisionMove
  <1>2. \A c \in calls : RequestOK(c)'
    BY ProcessInvFacts, RequestFacts, RequestKept DEF Memory
  <1>3. exec.op \in Ops /\ exec.by \in Workers /\ exec.kind \in CallKinds /\ RequestOK(exec)
    BY <1>1, ProcessInvFacts, ExecFacts DEF Memory
  <1>4. CASE Continues
    <2>1. ManagerTyped' /\ ProvisionerTyped'
      BY <1>1, <1>4 DEF ProvisionMove, Continues, ManagerTyped, ProvisionerTyped, ProcessInv
    <2>2. RequestOK(exec)'
      BY <1>3, <1>4 DEF Continues, Same, RequestOK, PayloadKept
    <2>3. Memory'
      BY <1>1, <1>2, <1>4, <2>2, ProcessInvFacts DEF Memory, Continues, PayloadKept
    <2>4. exec.live => AwaitedBy(exec)'
      BY <1>1, <1>4, ProcessInvFacts DEF Awaited, AwaitedBy, Continues, Same
    <2>5. Awaited'
      BY <1>1, <1>4, <2>4, ProcessInvFacts DEF Awaited, AwaitedBy, Continues, Same
    <2>6. Answered'
      <3>1. \A w \in Workers : worker[w].pc # "idle" => worker[w].op \in Ops
        BY ProcessInvFacts, WorkerFacts
      <3> QED
        BY <1>1, <1>4, <3>1, ProcessInvFacts DEF Answered, Continues, Passed
    <2> QED
      BY <1>1, <2>1, <2>3, <2>5, <2>6
  <1>5. ASSUME NEW outcome \in Outcomes, Finish(outcome),
               exec.kind = "rotate" /\ outcome = "ok" => meta'.kept[exec.op] = "ok"
        PROVE  ManagerTyped' /\ ProvisionerTyped' /\ Memory' /\ Awaited' /\ Answered'
    <2>1. /\ worker' \in [Workers -> Goroutine] /\ exec' = None
          /\ \A v \in Workers :
               IF exec.live /\ v = exec.by THEN Replies(worker[v], worker'[v], outcome)
               ELSE worker'[v] = worker[v]
      BY <1>1, <1>5, ProcessInvFacts, FinishFacts DEF Finish
    <2>2. ManagerTyped' /\ ProvisionerTyped'
      BY <1>1, <2>1 DEF ProvisionMove, ManagerTyped, ProvisionerTyped, ProcessInv
    <2>3. exec.live => worker[exec.by].pc \in Waiting /\ worker[exec.by].op = exec.op
                       /\ (worker[exec.by].pc = "rotating" => exec.kind = "rotate")
      BY <1>1, <1>3, WaitsFacts, ProcessInvFacts DEF Awaited, AwaitedBy
    <2>4. \A v \in Workers : worker'[v].pc = worker[v].pc /\ worker'[v].op = worker[v].op
                               /\ worker'[v].old = worker[v].old
      BY <2>1 DEF Replies
    <2>5. Memory'
      <3>1. \A v \in Workers : worker'[v].pc \notin Waiting => worker'[v].reply = ""
        BY <2>1, <2>3, <2>4, ProcessInvFacts DEF Memory
      <3> QED
        BY <1>1, <1>2, <2>1, <2>4, <3>1, ProcessInvFacts DEF Memory, PayloadKept
    <2>6. Awaited'
      <3>1. ASSUME NEW c \in calls, c.live PROVE AwaitedBy(c)'
        <4>1. c.by \in Workers /\ AwaitedBy(c) /\ ~(exec.live /\ c.by = exec.by)
          BY <1>1, <3>1, ProcessInvFacts, RequestFacts DEF Awaited
        <4>2. worker'[c.by] = worker[c.by]
          BY <2>1, <4>1
        <4> QED
          BY <4>1, <4>2 DEF AwaitedBy
      <3> QED
        BY <1>1, <2>1, <3>1, ProcessInvFacts DEF Awaited
    <2>7. Answered'
      <3> SUFFICES ASSUME NEW v \in Workers,
                          \/ worker'[v].pc \in Passed
                          \/ worker'[v].pc = "rotating" /\ worker'[v].reply = "ok"
                   PROVE  meta'.kept[worker'[v].op] = "ok"
        BY DEF Answered
      <3>1. worker[v].op \in Ops
        BY <2>4, ProcessInvFacts, WorkerFacts DEF Passed
      <3>2. CASE exec.live /\ v = exec.by /\ worker'[v].pc = "rotating"
        BY <1>5, <2>1, <2>3, <2>4, <3>2, <1>1, ProcessInvFacts DEF Replies, Passed
      <3>3. CASE ~(exec.live /\ v = exec.by /\ worker'[v].pc = "rotating")
        BY <1>1, <2>1, <2>4, <3>1, <3>3, ProcessInvFacts DEF Answered
      <3> QED
        BY <3>2, <3>3
    <2> QED
      BY <2>2, <2>5, <2>6, <2>7
  <1> QED
    BY <1>1, <1>4, <1>5 DEF ProvisionMove

\* c without its connection.
Orphan(c, d) ==
    /\ d.by = c.by /\ d.kind = c.kind /\ d.op = c.op /\ d.old = c.old /\ d.new = c.new
    /\ ~d.live

\* A goroutine stops or learns that its connection is lost.
Loses(r, s) ==
    \/ s = r
    \/ s = Idle
    \/ r.pc \in Waiting /\ Replies(r, s, "unknown")

\* What lost connections and restarts have in common.
ConnectionsBreak ==
    /\ worker' \in [Workers -> Goroutine] /\ calls' \subseteq Request /\ exec' \in Execution \cup {None}
    /\ \A v \in Workers : Loses(worker[v], worker'[v])
    /\ \A d \in calls' : \E c \in calls : Orphan(c, d) \/ (d = c /\ (c.live => worker'[c.by] = worker[c.by]))
    /\ \/ exec' = None
       \/ exec' = exec /\ (exec # None /\ exec.live => worker'[exec.by] = worker[exec.by])
       \/ exec # None /\ Orphan(exec, exec') /\ exec'.pc = exec.pc /\ exec'.anchor = exec.anchor
                      /\ exec'.previous = exec.previous
    /\ UNCHANGED <<meta, dbpw, env, running>>

LEMMA BreakKeeps ==
  ASSUME ProcessInv, PayloadKept, ConnectionsBreak
  PROVE  ProvisionerTyped' /\ Memory' /\ Awaited' /\ Rotating' /\ Rollback' /\ Answered'
  <1>0. UNCHANGED <<meta, dbpw, env, running>>
    BY DEF ConnectionsBreak
  <1>1. ProvisionerTyped'
    BY <1>0 DEF ProcessInv, ProvisionerTyped, ConnectionsBreak
  <1>2. ASSUME NEW v \in Workers
        PROVE  /\ worker'[v] = Idle \/ (worker'[v].pc = worker[v].pc /\ worker'[v].op = worker[v].op
                                        /\ worker'[v].old = worker[v].old)
               /\ \/ worker'[v].reply = worker[v].reply
                  \/ worker'[v].pc \in Waiting /\ worker'[v].reply = "unknown"
                  \/ worker'[v] = Idle
    BY DEF ConnectionsBreak, Loses, Replies
  <1>3. Idle.pc = "idle" /\ Idle.reply = "" /\ "idle" \notin Passed \cup Waiting \cup {"rotating", "compensate"}
    BY DEF Idle, Passed, Waiting
  <1> HIDE DEF Idle
  <1>4. ASSUME NEW d \in calls'
        PROVE  \E c \in calls : /\ d.kind = c.kind /\ d.op = c.op /\ d.old = c.old /\ d.new = c.new
                                /\ d.live => d = c /\ worker'[c.by] = worker[c.by]
    BY DEF ConnectionsBreak, Orphan
  <1>5. exec' # None => /\ exec # None
                        /\ exec'.kind = exec.kind /\ exec'.op = exec.op /\ exec'.new = exec.new
                        /\ exec'.old = exec.old /\ exec'.pc = exec.pc
                        /\ exec'.live => exec' = exec /\ worker'[exec.by] = worker[exec.by]
    BY DEF ConnectionsBreak, Orphan
  <1>6. Memory'
    <2>1. ASSUME NEW d \in calls' PROVE RequestOK(d)'
      <3>1. PICK c \in calls : d.kind = c.kind /\ d.op = c.op /\ d.old = c.old /\ d.new = c.new
        BY <1>4
      <3>2. RequestOK(c) /\ c.op \in Ops
        BY ProcessInvFacts, RequestFacts DEF Memory
      <3> QED
        BY <3>1, <3>2 DEF RequestOK, PayloadKept
    <2>2. exec' # None => RequestOK(exec)'
      <3>1. exec # None => RequestOK(exec) /\ exec.op \in Ops
        BY ProcessInvFacts, ExecFacts DEF Memory
      <3> QED
        BY <3>1, <1>5 DEF RequestOK, PayloadKept
    <2>3. ASSUME NEW v \in Workers
          PROVE  /\ worker'[v].pc # "idle" => worker'[v].op \in Ops /\ payload'[worker'[v].op] # None
                 /\ worker'[v].pc \in Passed \cup {"rotating", "compensate"} => worker'[v].old \in Secrets
                 /\ worker'[v].pc \notin Waiting => worker'[v].reply = ""
      BY <1>2, <1>3, ProcessInvFacts DEF Memory, PayloadKept
    <2> QED
      BY <2>1, <2>2, <2>3 DEF Memory
  <1>7. Rotating' /\ Rollback'
    <2>1. exec # None => exec.op \in Ops /\ payload[exec.op] # None
      BY ProcessInvFacts, ExecFacts
    <2>2. exec' # None => payload'[exec'.op].rev = payload[exec.op].rev
      BY <1>5, <2>1 DEF PayloadKept
    <2>3. Rotating'
      BY <1>0, <1>5, <2>2, ProcessInvFacts DEF Rotating, Rev
    <2>4. Rollback'
      BY <1>0, <1>5, <2>2, ProcessInvFacts DEF Rollback, Rev
    <2> QED
      BY <2>3, <2>4
  <1>8. Awaited'
    <2>1. ASSUME NEW d \in calls', d.live PROVE d \in calls /\ AwaitedBy(d)'
      <3>1. d \in calls /\ worker'[d.by] = worker[d.by]
        BY <1>4, <2>1
      <3>2. AwaitedBy(d)
        BY <2>1, <3>1, ProcessInvFacts DEF Awaited
      <3> QED
        BY <3>1, <3>2 DEF AwaitedBy
    <2>2. exec' # None /\ exec'.live => exec' = exec /\ AwaitedBy(exec)'
      BY <1>5, ProcessInvFacts DEF Awaited, AwaitedBy
    <2> QED
      BY <2>1, <2>2, ProcessInvFacts DEF Awaited
  <1>9. Answered'
    BY <1>0, <1>2, <1>3, ProcessInvFacts DEF Answered
  <1> QED
    BY <1>1, <1>6, <1>7, <1>8, <1>9

LEMMA DisconnectKeeps ==
  ASSUME ProcessInv, PayloadKept, NEW w \in Workers, Disconnect(w)
  PROVE  ManagerTyped' /\ ConnectionsBreak
  <1> DEFINE mine == {c \in calls : c.by = w /\ c.live}
             working == exec # None /\ exec.by = w /\ exec.live
             r == [worker[w] EXCEPT !.reply = "unknown"]
  <1>1. /\ mine # {} \/ working
        /\ worker' = [worker EXCEPT ![w] = r]
        /\ calls' \in {calls \ mine, (calls \ mine) \cup Orphans(mine)}
        /\ exec' = IF working THEN [exec EXCEPT !.live = FALSE] ELSE exec
        /\ Fault
        /\ UNCHANGED <<lock, queue, entries, tails, requests, step, meta, dbpw, env, running>>
    BY DEF Disconnect, runtimeVars
  <1>2. worker[w].pc \in Waiting
    <2>1. CASE mine # {}
      <3>1. PICK c \in calls : c.by = w /\ c.live
        BY <2>1
      <3>2. worker[w].pc = Waits(c.kind) /\ c.kind \in CallKinds
        BY <3>1, ProcessInvFacts, RequestFacts DEF Awaited, AwaitedBy
      <3> QED
        BY <3>2, WaitsFacts
    <2>2. CASE working
      <3>1. worker[w].pc = Waits(exec.kind) /\ exec.kind \in CallKinds
        BY <2>2, ProcessInvFacts, ExecFacts DEF Awaited, AwaitedBy
      <3> QED
        BY <3>1, WaitsFacts
    <2> QED
      BY <1>1, <2>1, <2>2
  <1>3. worker[w] \in Goroutine /\ Replies(worker[w], r, "unknown")
    BY ProcessInvFacts, WorkerFacts, ReplyType DEF Outcomes
  <1> HIDE DEF r
  <1>4. /\ worker' \in [Workers -> Goroutine]
        /\ worker'[w] = r /\ \A v \in Workers \ {w} : worker'[v] = worker[v]
    BY <1>1, <1>3, ProcessInvFacts DEF Replies, RotTypeOK
  <1>5. ASSUME NEW c \in mine
        PROVE  [c EXCEPT !.live = FALSE] \in Request /\ Orphan(c, [c EXCEPT !.live = FALSE])
    BY ProcessInvFacts DEF RotTypeOK, Request, Orphan
  <1>6. \A d \in calls' : d \in Request /\ \E c \in calls : Orphan(c, d) \/ (d = c /\ c \notin mine)
    BY <1>1, <1>5, ProcessInvFacts, RequestFacts DEF Orphans
  <1>7. \A d \in calls' : \E c \in calls : Orphan(c, d) \/ (d = c /\ (c.live => worker'[c.by] = worker[c.by]))
    BY <1>4, <1>6, ProcessInvFacts, RequestFacts
  <1>8. /\ exec' \in Execution \cup {None}
        /\ \/ exec' = exec /\ (exec # None /\ exec.live => worker'[exec.by] = worker[exec.by])
           \/ exec # None /\ Orphan(exec, exec') /\ exec'.pc = exec.pc /\ exec'.anchor = exec.anchor
                          /\ exec'.previous = exec.previous
    <2>1. CASE working
      <3>1. exec \in Execution
        BY <2>1, ProcessInvFacts, ExecFacts
      <3>2. exec' = [exec EXCEPT !.live = FALSE]
        BY <1>1, <2>1
      <3> QED
        BY <2>1, <3>1, <3>2 DEF Execution, Orphan
    <2>2. CASE ~working
      BY <1>1, <1>4, <2>2, ProcessInvFacts, ExecFacts DEF RotTypeOK
    <2> QED
      BY <2>1, <2>2
  <1>9. ManagerTyped'
    BY <1>1, <1>4, FaultFacts DEF ManagerTyped, ProcessInv
  <1> QED
    BY <1>1, <1>2, <1>3, <1>4, <1>6, <1>7, <1>8, <1>9 DEF ConnectionsBreak, Loses

LEMMA RestartManagerKeeps ==
  ASSUME ProcessInv, PayloadKept, RestartManager
  PROVE  ManagerTyped' /\ ConnectionsBreak
  <1>1. /\ lock' = FALSE /\ queue' = None /\ entries' = {} /\ tails' = {} /\ Fault
        /\ worker' = [w \in Workers |-> Idle]
        /\ calls' = Orphans(calls)
        /\ exec' = IF exec = None THEN None ELSE [exec EXCEPT !.live = FALSE]
        /\ UNCHANGED <<requests, step, meta, dbpw, env, running>>
    BY DEF RestartManager, runtimeVars
  <1>2. worker' \in [Workers -> Goroutine] /\ \A v \in Workers : worker'[v] = Idle
    BY <1>1, IdleType
  <1>3. \A d \in calls' : d \in Request /\ \E c \in calls : Orphan(c, d)
    <2>1. ASSUME NEW c \in calls
          PROVE  [c EXCEPT !.live = FALSE] \in Request /\ Orphan(c, [c EXCEPT !.live = FALSE])
      BY ProcessInvFacts DEF RotTypeOK, Request, Orphan
    <2> QED
      BY <1>1, <2>1 DEF Orphans
  <1>4. /\ exec' \in Execution \cup {None}
        /\ \/ exec' = None
           \/ exec # None /\ Orphan(exec, exec') /\ exec'.pc = exec.pc /\ exec'.anchor = exec.anchor
                          /\ exec'.previous = exec.previous
    <2>1. exec # None => exec \in Execution
      BY ProcessInvFacts, ExecFacts
    <2> QED
      BY <1>1, <2>1 DEF Execution, Orphan
  <1>5. ManagerTyped'
    BY <1>1, <1>2, FaultFacts DEF ManagerTyped, ProcessInv
  <1> QED
    BY <1>1, <1>2, <1>3, <1>4, <1>5 DEF ConnectionsBreak, Loses

LEMMA RestartProvisionerKeeps ==
  ASSUME ProcessInv, PayloadKept, RestartProvisioner
  PROVE  ManagerTyped' /\ ConnectionsBreak
  <1> DEFINE lost(w) == \/ exec # None /\ exec.live /\ exec.by = w
                        \/ \E c \in calls : c.live /\ c.by = w
             r(w) == [worker[w] EXCEPT !.reply = "unknown"]
  <1>1. /\ exec' = None /\ calls' = {} /\ Fault
        /\ worker' = [w \in Workers |-> IF lost(w) THEN r(w) ELSE worker[w]]
        /\ UNCHANGED <<lock, queue, entries, tails, requests, step, meta, dbpw, env, running>>
    BY DEF RestartProvisioner, runtimeVars
  <1>2. ASSUME NEW w \in Workers
        PROVE  /\ worker[w] \in Goroutine /\ Replies(worker[w], r(w), "unknown")
               /\ lost(w) => worker[w].pc \in Waiting
    <2>1. lost(w) => worker[w].pc \in Waiting
      BY ProcessInvFacts, RequestFacts, ExecFacts, WaitsFacts, ZenonT(60) DEF Awaited, AwaitedBy
    <2> QED
      BY <2>1, ProcessInvFacts, WorkerFacts, ReplyType DEF Outcomes
  <1> HIDE DEF r, lost
  <1>3. worker' \in [Workers -> Goroutine] /\ \A v \in Workers : Loses(worker[v], worker'[v])
    BY <1>1, <1>2 DEF Replies, Loses
  <1>4. ManagerTyped'
    BY <1>1, <1>3, FaultFacts DEF ManagerTyped, ProcessInv
  <1> QED
    BY <1>1, <1>3, <1>4 DEF ConnectionsBreak

\* A goroutine is started for an operation.
LEMMA StartedKeeps ==
  ASSUME ProcessInv, PayloadKept, NEW w \in Workers, worker[w].pc = "idle",
         NEW o \in Ops, payload'[o] # None, NEW r \in Goroutine,
         r.pc = "start", r.op = o, r.reply = "", r.old = None,
         worker' = [worker EXCEPT ![w] = r],
         UNCHANGED <<meta, calls, exec, dbpw, env, running>>
  PROVE  /\ worker' \in [Workers -> Goroutine]
         /\ ProvisionerTyped' /\ Memory' /\ Awaited' /\ Rotating' /\ Rollback' /\ Answered'
  <1>1. /\ worker' \in [Workers -> Goroutine] /\ worker'[w] = r
        /\ \A v \in Workers \ {w} : worker'[v] = worker[v]
    BY ProcessInvFacts DEF RotTypeOK
  <1>2. Rotating' /\ Rollback' /\ (exec' # None => RequestOK(exec)')
    BY ProcessInvFacts, RestingKept
  <1>3. "start" \notin Passed \cup Waiting \cup {"rotating", "compensate"}
    BY DEF Passed, Waiting
  <1>4. Memory'
    <2>1. \A c \in calls : RequestOK(c)'
      BY ProcessInvFacts, RequestFacts, RequestKept DEF Memory
    <2> QED
      BY <1>1, <1>2, <1>3, <2>1, ProcessInvFacts DEF Memory, PayloadKept
  <1>5. Awaited'
    <2>1. "idle" \notin Waiting
      BY DEF Waiting
    <2>2. ASSUME NEW c \in calls, c.live PROVE AwaitedBy(c)'
      <3>1. c.by \in Workers /\ AwaitedBy(c) /\ Waits(c.kind) \in Waiting
        BY <2>2, ProcessInvFacts, RequestFacts, WaitsFacts DEF Awaited
      <3> QED
        BY <1>1, <2>1, <3>1 DEF AwaitedBy
    <2>3. exec # None /\ exec.live => AwaitedBy(exec)'
      <3>1. exec # None => exec.by \in Workers /\ Waits(exec.kind) \in Waiting
        BY ProcessInvFacts, ExecFacts, WaitsFacts
      <3> QED
        BY <1>1, <2>1, <3>1, ProcessInvFacts, ZenonT(60) DEF AwaitedBy, Awaited
    <2> QED
      BY <2>2, <2>3, ProcessInvFacts DEF Awaited
  <1>6. Answered'
    BY <1>1, <1>3, ProcessInvFacts DEF Answered
  <1>7. ProvisionerTyped'
    BY DEF ProcessInv, ProvisionerTyped
  <1> QED
    BY <1>1, <1>2, <1>4, <1>5, <1>6, <1>7

\* Nothing the processes know changes.
LEMMA QuietKeeps ==
  ASSUME ProcessInv, PayloadKept, UNCHANGED <<worker, meta, calls, exec, dbpw, env, running>>
  PROVE  ProvisionerTyped' /\ Memory' /\ Awaited' /\ Rotating' /\ Rollback' /\ Answered'
  <1>1. Rotating' /\ Rollback' /\ (exec' # None => RequestOK(exec)')
    BY ProcessInvFacts, RestingKept
  <1>2. \A c \in calls : RequestOK(c)'
    BY ProcessInvFacts, RequestFacts, RequestKept DEF Memory
  <1>3. Memory'
    BY <1>1, <1>2, ProcessInvFacts DEF Memory, PayloadKept
  <1>4. Awaited'
    BY ProcessInvFacts DEF Awaited, AwaitedBy
  <1>5. Answered'
    BY ProcessInvFacts DEF Answered
  <1>6. ProvisionerTyped'
    BY DEF ProcessInv, ProvisionerTyped
  <1> QED
    BY <1>1, <1>3, <1>4, <1>5, <1>6

\* The lease a goroutine is started with.
LEMMA LeaseTaken ==
  ASSUME TypeOK, NEW o \in Ops, NEW e,
         \/ AdmitConfiguration(Server, o, e, canonical[Server], None)
         \/ AcquireConfigurationLeaseForOperation(Server, o)
  PROVE  lease'[Server].fence \in Fences /\ payload'[o] # None
  <1>1. NextFence(Server) \in Fences /\ TakeLease(Server, o)
    BY DEF AdmitConfiguration, AcquireConfigurationLeaseForOperation
  <1>2. lease'[Server].fence = NextFence(Server)
    BY <1>1, ServerFacts DEF TakeLease, TypeOK
  <1>3. CASE AdmitConfiguration(Server, o, e, canonical[Server], None)
    <2> DEFINE cmd == [project |-> Server, rev |-> rev[Server] + 1, fence |-> NextFence(Server)]
    <2>1. cmd \in Payload
      BY <1>3, ServerFacts DEF AdmitConfiguration, Payload
    <2>2. payload' = [payload EXCEPT ![o] = cmd]
      BY <1>3 DEF AdmitConfiguration
    <2> HIDE DEF cmd
    <2> QED
      BY <1>1, <1>2, <2>1, <2>2, NoneFacts DEF TypeOK
  <1>4. CASE AcquireConfigurationLeaseForOperation(Server, o)
    <2> DEFINE cmd == [payload[o] EXCEPT !.fence = NextFence(Server)]
    <2>1. cmd \in Payload
      BY <1>1, <1>4 DEF AcquireConfigurationLeaseForOperation, TypeOK, Payload
    <2>2. payload' = [payload EXCEPT ![o] = cmd]
      BY <1>4 DEF AcquireConfigurationLeaseForOperation, Rebind
    <2> HIDE DEF cmd
    <2> QED
      BY <1>1, <1>2, <2>1, <2>2, NoneFacts DEF TypeOK
  <1> QED
    BY <1>3, <1>4

LEMMA AdmitKeeps ==
  ASSUME ProcessInv, PayloadKept, QueueAdmit
  PROVE  /\ ManagerTyped' /\ ProvisionerTyped'
         /\ Memory' /\ Awaited' /\ Rotating' /\ Rollback' /\ Answered'
  <1>0. /\ UNCHANGED <<meta, calls, exec, dbpw, env, running, entries, tails, requests, step, faults>>
        /\ queue' = None
    BY DEF QueueAdmit, runtimeVars, provVars
  <1>1. ASSUME NEW o \in Ops, NEW w \in Workers, worker[w].pc = "idle",
               AdmitConfiguration(Server, o, queue, canonical[Server], None),
               worker' = [worker EXCEPT ![w] = [Idle EXCEPT !.pc = "start", !.op = o,
                                                  !.seen = "QUEUED", !.fence = lease'[Server].fence]],
               lock' = lock
        PROVE  /\ ManagerTyped' /\ ProvisionerTyped'
               /\ Memory' /\ Awaited' /\ Rotating' /\ Rollback' /\ Answered'
    <2>1. payload'[o] # None /\ lease'[Server].fence \in Fences
      BY <1>1, LeaseTaken, ProcessInvFacts DEF RotTypeOK
    <2> DEFINE r == [Idle EXCEPT !.pc = "start", !.op = o, !.seen = "QUEUED",
                                 !.fence = lease'[Server].fence]
    <2>2. r \in Goroutine /\ r.pc = "start" /\ r.op = o /\ r.reply = "" /\ r.old = None
      <3>1. PICK f \in Fences : f = lease'[Server].fence
        BY <2>1
      <3>2. PICK q : q = r
        OBVIOUS
      <3>3. q = [Idle EXCEPT !.pc = "start", !.op = o, !.seen = "QUEUED", !.fence = f]
        BY <3>1, <3>2
      <3> HIDE DEF r
      <3>4. "QUEUED" \in Statuses /\ "" \in OperationSteps
        BY DEF Statuses, Active, OperationSteps
      <3>5. q \in Goroutine /\ q.pc = "start" /\ q.op = o /\ q.reply = "" /\ q.old = None
        BY <3>3, <3>4 DEF Idle, Goroutine, WorkerSteps
      <3> QED
        BY <3>2, <3>5
    <2>3. worker' = [worker EXCEPT ![w] = r]
      BY <1>1
    <2> HIDE DEF r
    <2>4. /\ worker' \in [Workers -> Goroutine]
          /\ ProvisionerTyped' /\ Memory' /\ Awaited' /\ Rotating' /\ Rollback' /\ Answered'
      BY <1>0, <1>1, <2>1, <2>2, <2>3, StartedKeeps, ZenonT(60)
    <2> QED
      BY <1>0, <1>1, <2>4 DEF ManagerTyped, ProcessInv
  <1>2. CASE lock' = FALSE /\ worker' = worker
    BY <1>0, <1>2, QuietKeeps DEF ManagerTyped, ProcessInv
  <1> QED
    BY <1>0, <1>1, <1>2 DEF QueueAdmit

LEMMA ResumeKeeps ==
  ASSUME ProcessInv, PayloadKept, NEW e \in entries, Resume(e)
  PROVE  /\ ManagerTyped' /\ ProvisionerTyped'
         /\ Memory' /\ Awaited' /\ Rotating' /\ Rollback' /\ Answered'
  <1>0. /\ UNCHANGED <<meta, calls, exec, dbpw, env, running, queue, tails, requests, step, faults>>
        /\ entries' \subseteq entries /\ e \in Entry
    BY ProcessInvFacts DEF Resume, runtimeVars, provVars, RotTypeOK
  <1>1. ASSUME NEW w \in Workers, worker[w].pc = "idle",
               AcquireConfigurationLeaseForOperation(Server, e.op), lock' = TRUE,
               worker' = [worker EXCEPT ![w] = [Idle EXCEPT !.pc = "start", !.op = e.op,
                                                  !.seen = e.seen, !.step = e.step, !.resumed = TRUE,
                                                  !.fence = lease'[Server].fence]]
        PROVE  /\ ManagerTyped' /\ ProvisionerTyped'
               /\ Memory' /\ Awaited' /\ Rotating' /\ Rollback' /\ Answered'
    <2>1. e.op \in Ops /\ e.seen \in Statuses /\ e.step \in OperationSteps
      BY <1>0 DEF Entry, Statuses
    <2>2. PICK o \in Ops : o = e.op
      BY <2>1
    <2>3. payload'[o] # None /\ lease'[Server].fence \in Fences
      BY <1>1, <2>2, LeaseTaken, ProcessInvFacts DEF RotTypeOK
    <2> DEFINE r == [Idle EXCEPT !.pc = "start", !.op = o, !.seen = e.seen, !.step = e.step,
                                 !.resumed = TRUE, !.fence = lease'[Server].fence]
    <2>4. r \in Goroutine /\ r.pc = "start" /\ r.op = o /\ r.reply = "" /\ r.old = None
      <3>1. PICK f \in Fences : f = lease'[Server].fence
        BY <2>3
      <3>2. PICK q : q = r
        OBVIOUS
      <3>3. PICK s \in Statuses, st \in OperationSteps : s = e.seen /\ st = e.step
        BY <2>1
      <3>4. q = [Idle EXCEPT !.pc = "start", !.op = o, !.seen = s, !.step = st, !.resumed = TRUE,
                             !.fence = f]
        BY <3>1, <3>2, <3>3
      <3> HIDE DEF r
      <3>5. q \in Goroutine /\ q.pc = "start" /\ q.op = o /\ q.reply = "" /\ q.old = None
        BY <3>4 DEF Idle, Goroutine, WorkerSteps
      <3> QED
        BY <3>2, <3>5
    <2>5. worker' = [worker EXCEPT ![w] = r]
      BY <1>1, <2>2
    <2> HIDE DEF r
    <2>6. /\ worker' \in [Workers -> Goroutine]
          /\ ProvisionerTyped' /\ Memory' /\ Awaited' /\ Rotating' /\ Rollback' /\ Answered'
      BY <1>0, <1>1, <2>3, <2>4, <2>5, StartedKeeps, ZenonT(60)
    <2> QED
      BY <1>0, <1>1, <2>6 DEF ManagerTyped, ProcessInv
  <1>2. CASE lock' = lock /\ worker' = worker
    BY <1>0, <1>2, QuietKeeps DEF ManagerTyped, ProcessInv
  <1> QED
    BY <1>0, <1>1, <1>2 DEF Resume

\* The scheduler lists the operations it may resume.
LEMMA ListKeeps ==
  ASSUME ProcessInv, PayloadKept, ListActive
  PROVE  /\ ManagerTyped' /\ ProvisionerTyped'
         /\ Memory' /\ Awaited' /\ Rotating' /\ Rollback' /\ Answered'
  <1>1. /\ UNCHANGED <<worker, meta, calls, exec, dbpw, env, running, lock, queue, tails, requests,
                       step, faults>>
        /\ entries' = {[op |-> o, seen |-> ops[o].status, step |-> step[o]] :
                         o \in {q \in Ops : ops[q] # None /\ ops[q].status \in Active}}
    BY DEF ListActive, runtimeVars, provVars
  <1>2. \A o \in Ops : step[o] \in OperationSteps
    BY ProcessInvFacts DEF RotTypeOK
  <1>3. entries' \subseteq Entry
    BY <1>1, <1>2 DEF Entry
  <1> QED
    BY <1>1, <1>3, QuietKeeps DEF ManagerTyped, ProcessInv

LEMMA OtherQuiet ==
  ASSUME ProcessInv, PayloadKept,
         \/ QueueRead \/ (\E t \in tails : LateRelease(t)) \/ Expire \/ UNCHANGED rotVars
  PROVE  /\ ManagerTyped' /\ ProvisionerTyped'
         /\ Memory' /\ Awaited' /\ Rotating' /\ Rollback' /\ Answered'
  <1>1. UNCHANGED <<worker, meta, calls, exec, dbpw, env, running, step, entries, faults>>
    BY DEF QueueRead, LateRelease, Expire, rotVars, stepVars, managerVars, runtimeVars, provVars
  <1>2. lock' \in BOOLEAN /\ tails' \subseteq Token /\ requests' \in 0..MaxRequests
        /\ queue' \in Revisions \cup {None}
    <2>1. rev[Server] \in Revisions /\ MaxRequests \in Nat
      BY ServerFacts, ProcessInvFacts, RotationAssumption DEF RotTypeOK, TypeOK
    <2>2. lock \in BOOLEAN /\ tails \subseteq Token /\ requests \in 0..MaxRequests
          /\ queue \in Revisions \cup {None}
      BY DEF ProcessInv, ManagerTyped
    <2>3. CASE QueueRead
      BY <2>1, <2>2, <2>3 DEF QueueRead
    <2>4. CASE \E t \in tails : LateRelease(t)
      BY <2>2, <2>4 DEF LateRelease
    <2>5. CASE Expire \/ UNCHANGED rotVars
      BY <2>2, <2>5 DEF Expire, rotVars, stepVars, managerVars
    <2> QED
      BY <2>3, <2>4, <2>5
  <1> QED
    BY <1>1, <1>2, QuietKeeps DEF ManagerTyped, ProcessInv

\* A request gets the metadata lock.
LEMMA BeginKeeps ==
  ASSUME ProcessInv, PayloadKept, NEW c \in calls, Begin(c)
  PROVE  /\ ManagerTyped' /\ ProvisionerTyped'
         /\ Memory' /\ Awaited' /\ Rotating' /\ Rollback' /\ Answered'
  <1>1. /\ UNCHANGED <<worker, meta, dbpw, env, running, lock, queue, tails, requests, step, entries, faults>>
        /\ exec = None /\ calls' = calls \ {c}
        /\ exec' = [by |-> c.by, kind |-> c.kind, op |-> c.op, fence |-> c.fence, old |-> c.old,
                    new |-> c.new, live |-> c.live, pc |-> "start", anchor |-> env, previous |-> env]
    BY DEF Begin, managerVars, runtimeVars
  <1>2. c \in Request /\ env \in Secrets
    BY ProcessInvFacts DEF RotTypeOK
  <1>3. /\ exec' \in Execution /\ exec'.by = c.by /\ exec'.kind = c.kind /\ exec'.op = c.op
        /\ exec'.old = c.old /\ exec'.new = c.new /\ exec'.live = c.live /\ exec'.pc = "start"
    BY <1>1, <1>2 DEF Request, Execution, CallSteps
  <1>4. ManagerTyped' /\ ProvisionerTyped'
    BY <1>1, <1>3 DEF ManagerTyped, ProvisionerTyped, ProcessInv
  <1>5. \A d \in calls : RequestOK(d)'
    BY ProcessInvFacts, RequestFacts, RequestKept DEF Memory
  <1>6. Memory'
    BY <1>1, <1>3, <1>5, ProcessInvFacts DEF Memory, PayloadKept, RequestOK
  <1>7. Awaited'
    BY <1>1, <1>3, ProcessInvFacts DEF Awaited, AwaitedBy
  <1>8. Rotating' /\ Rollback' /\ Answered'
    BY <1>1, <1>3, ProcessInvFacts DEF Rotating, Rollback, Answered
  <1> QED
    BY <1>4, <1>6, <1>7, <1>8

\* The history only ever speaks of rotations.
LEMMA HistoryKept ==
  ASSUME HistoryTyped, calls' \subseteq Request, [RotNext]_rotVars
  PROVE  HistoryTyped'
  <1>1. {c.op : c \in {d \in calls' : d.kind = "rollback"}} \subseteq Ops
    BY DEF Request
  <1>2. CASE RotNext
    BY <1>1, <1>2 DEF HistoryTyped, RotNext
  <1> QED
    BY <1>2 DEF HistoryTyped, rotVars

\* Every step of the two processes keeps their invariant.
LEMMA ProcessStep == ProcessInv /\ [RotNext]_rotVars => ProcessInv'
  <1> SUFFICES ASSUME ProcessInv, [RotNext]_rotVars PROVE ProcessInv'
    OBVIOUS
  <1>0. Inv' /\ ServerOps' /\ KnownSecrets' /\ PayloadKept
    BY StepPayload
  <1> DEFINE Kept2 == /\ ManagerTyped' /\ ProvisionerTyped'
                      /\ Memory' /\ Awaited' /\ Rotating' /\ Rollback' /\ Answered'
  <1>1. ASSUME QueueAdmit PROVE Kept2
    BY <1>0, <1>1, AdmitKeeps
  <1>2. ASSUME NEW e \in entries, Resume(e) PROVE Kept2
    BY <1>0, <1>2, ResumeKeeps
  <1>3. ASSUME ListActive PROVE Kept2
    BY <1>0, <1>3, ListKeeps
  <1>4. ASSUME QueueRead \/ (\E t \in tails : LateRelease(t)) \/ Expire \/ UNCHANGED rotVars
        PROVE  Kept2
    BY <1>0, <1>4, OtherQuiet
  <1>5. ASSUME NEW c \in calls, Begin(c) PROVE Kept2
    BY <1>0, <1>5, BeginKeeps
  <1>6. ASSUME NEW w \in Workers, Run(w) PROVE Kept2
    <2>1. GoroutineMove(w)
      BY <1>6, ProcessInvFacts, RunMove
    <2> QED
      BY <1>0, <2>1, RunKeeps
  <1>7. ASSUME Provision PROVE Kept2
    <2>1. ProvisionMove /\ UNCHANGED <<storeVars, lock, queue, entries, tails, requests, step>>
      BY <1>7, ProcessInvFacts, ProvisionMoves
    <2>2. UNCHANGED <<payload, lock, queue, entries, tails, requests, step>>
      BY <2>1 DEF storeVars
    <2> QED
      BY <1>0, <2>1, <2>2, ProvisionKeeps
  <1>8. ASSUME ConnectionsBreak, ManagerTyped' PROVE Kept2
    BY <1>0, <1>8, BreakKeeps
  <1>9. ASSUME NEW w \in Workers, Disconnect(w) PROVE Kept2
    BY <1>0, <1>8, <1>9, DisconnectKeeps
  <1>10. ASSUME RestartManager \/ RestartProvisioner PROVE Kept2
    BY <1>0, <1>8, <1>10, RestartManagerKeeps, RestartProvisionerKeeps
  <1>11. Kept2
    BY <1>1, <1>2, <1>3, <1>4, <1>5, <1>6, <1>7, <1>9, <1>10 DEF RotNext, RotStep
  <1>12. HistoryTyped'
    BY <1>11, HistoryKept DEF ProcessInv, ProvisionerTyped
  <1> QED
    BY <1>0, <1>11, <1>12 DEF ProcessInv, Processes

LEMMA InitProcess == RotInit => ProcessInv
  <1> SUFFICES ASSUME RotInit PROVE ProcessInv
    OBVIOUS
  <1>1. Inv /\ Init
    BY InitInv DEF RotInit
  <1>2. /\ lock = FALSE /\ requests = 0 /\ queue = None /\ entries = {} /\ tails = {}
        /\ worker = [w \in Workers |-> Idle] /\ step = [o \in Ops |-> ""]
        /\ calls = {} /\ exec = None /\ dbpw = Old /\ env = Old /\ running = Old /\ faults = 0
        /\ meta = [rev |-> 1, fence |-> 0, journal |-> None,
                   kept |-> [o \in Ops |-> None], rolledBack |-> {}]
    BY DEF RotInit
  <1>3. ManagerTyped
    <2>1. worker \in [Workers -> Goroutine] /\ step \in [Ops -> OperationSteps]
      BY <1>2, IdleType DEF OperationSteps
    <2>2. 0 \in 0..MaxRequests /\ 0 \in 0..MaxFaults
      BY RotationAssumption
    <2> QED
      BY <1>2, <2>1, <2>2 DEF ManagerTyped
  <1>4. ProvisionerTyped
    <2>1. 1 \in Revisions /\ 0 \in 0..MaxFence
      BY ConstantsAssumption DEF Revisions
    <2>2. [o \in Ops |-> None] \in [Ops -> Kept \cup {None}]
      OBVIOUS
    <2>3. meta \in Metadata
      BY <1>2, <2>1, <2>2 DEF Metadata
    <2> QED
      BY <1>2, <2>3, ServerFacts DEF ProvisionerTyped
  <1>5. ServerOps
    BY <1>1 DEF Init, ServerOps
  <1>6. KnownSecrets
    <2>1. secret[Server] = Old
      BY <1>1, ServerFacts, RotationAssumption DEF Init, Old
    <2>2. \A r \in Revisions : r > 1 => rows[Server][r] = None
      BY <1>1, ServerFacts DEF Init, NoRows
    <2> QED
      BY <2>1, <2>2, ServerFacts DEF KnownSecrets
  <1>7. Memory /\ Awaited /\ Rotating /\ Rollback /\ Answered
    <2>1. \A w \in Workers : worker[w].pc = "idle" /\ worker[w].reply = ""
      BY <1>2, IdleType
    <2> QED
      BY <1>2, <2>1 DEF Memory, Awaited, Rotating, Rollback, Answered, Passed, Waiting
  <1>8. HistoryTyped
    BY DEF RotInit, HistoryTyped
  <1> QED
    BY <1>1, <1>8, <1>3, <1>4, <1>5, <1>6, <1>7 DEF ProcessInv, Processes

LEMMA ProcessesInvariant == RotSpec => []ProcessInv
  BY InitProcess, ProcessStep, PTL DEF RotSpec

LEMMA RotationSteps == ProcessInv /\ [RotNext]_rotVars => [Next]_storeVars
  BY ProcessInvFacts, StepStore, RotStoreIsNext

-----------------------------------------------------------------------------

\* In every reachable state each variable of the Manager's goroutines, of the
\* requests under way, of the Provisioner's metadata and of the runtime has the
\* shape the code gives it: only known failures and successes are kept for
\* replay, and a goroutine that rotates or compensates has a password to go
\* back to.
THEOREM RotationTyped == RotSpec => []RotTypeOK
  <1>1. ProcessInv => RotTypeOK
    BY ProcessInvFacts
  <1> QED
    BY <1>1, ProcessesInvariant, PTL

\* A rotation, its recovery and its retries change the configuration store by
\* the store's transactions only, each with the arguments the store allows.
THEOREM RotationImplementsStore == RotSpec => Spec
  <1>1. RotInit => Init
    BY DEF RotInit
  <1> QED
    BY <1>1, ProcessesInvariant, RotationSteps, PTL DEF RotSpec, Spec

\* Whatever the goroutines, the scheduler and the faults do to a rotation, the
\* lease belongs to a command that carries its fence, the last good revision
\* does not run ahead, and a port has one owner.
THEOREM RotationKeepsStoreSafe == RotSpec => [](LeaseBindsPayload /\ LastGoodNotAhead /\ PortExclusive)
  <1>1. ProcessInv => LeaseBindsPayload /\ LastGoodNotAhead /\ PortExclusive
    BY DEF ProcessInv, Inv, Safe
  <1> QED
    BY <1>1, ProcessesInvariant, PTL

-----------------------------------------------------------------------------
(* The anchor of the journal.  A password is settled when no rotation       *)
(* generated it, or when the Provisioner has kept how that rotation ended.   *)
(* Everything a rotation may go back to is settled; a generation that is not *)
(* belongs to the journal's own rotation.                                    *)

\* A goroutine is started.
Launched(w) ==
    /\ worker[w].pc = "idle" /\ Others(w)
    /\ worker'[w].pc = "start" /\ worker'[w].old = None /\ worker'[w].reply = ""
    /\ UNCHANGED <<meta, calls, exec, dbpw, env, running>>

\* The steps by what they do to the memory of the two processes.
LEMMA StepKinds ==
  ASSUME ProcessInv, [RotNext]_rotVars
  PROVE  \/ \E w \in Workers : Run(w) /\ GoroutineMove(w)
         \/ Provision /\ ProvisionMove
         \/ \E c \in calls : Begin(c)
         \/ ConnectionsBreak
         \/ \E w \in Workers : Launched(w)
         \/ UNCHANGED <<worker, meta, calls, exec, dbpw, env, running>>
  <1>0. PayloadKept /\ worker \in [Workers -> Goroutine]
    BY StepPayload, ProcessInvFacts DEF RotTypeOK
  <1>1. ASSUME NEW w \in Workers, NEW r, worker[w].pc = "idle", worker' = [worker EXCEPT ![w] = r],
               r.pc = "start", r.old = None, r.reply = "",
               UNCHANGED <<meta, calls, exec, dbpw, env, running>>
        PROVE  Launched(w)
    BY <1>0, <1>1 DEF Launched, Others
  <1>2. CASE QueueAdmit
    <2>1. ASSUME NEW o \in Ops, NEW w \in Workers, worker[w].pc = "idle",
                 worker' = [worker EXCEPT ![w] = [Idle EXCEPT !.pc = "start", !.op = o,
                                                    !.seen = "QUEUED", !.fence = lease'[Server].fence]]
          PROVE  Launched(w)
      <3> DEFINE r == [Idle EXCEPT !.pc = "start", !.op = o, !.seen = "QUEUED",
                                   !.fence = lease'[Server].fence]
      <3>1. r.pc = "start" /\ r.old = None /\ r.reply = ""
        BY DEF Idle
      <3>2. worker' = [worker EXCEPT ![w] = r]
        BY <2>1
      <3> HIDE DEF r
      <3> QED
        BY <1>1, <1>2, <2>1, <3>1, <3>2 DEF QueueAdmit, runtimeVars, provVars
    <2> QED
      BY <1>2, <2>1 DEF QueueAdmit, runtimeVars, provVars
  <1>3. CASE \E e \in entries : Resume(e)
    <2> PICK e \in entries : Resume(e)
      BY <1>3
    <2>1. ASSUME NEW w \in Workers, worker[w].pc = "idle",
                 worker' = [worker EXCEPT ![w] = [Idle EXCEPT !.pc = "start", !.op = e.op,
                                                    !.seen = e.seen, !.step = e.step, !.resumed = TRUE,
                                                    !.fence = lease'[Server].fence]]
          PROVE  Launched(w)
      <3> DEFINE r == [Idle EXCEPT !.pc = "start", !.op = e.op, !.seen = e.seen, !.step = e.step,
                                   !.resumed = TRUE, !.fence = lease'[Server].fence]
      <3>1. r.pc = "start" /\ r.old = None /\ r.reply = ""
        BY DEF Idle
      <3>2. worker' = [worker EXCEPT ![w] = r]
        BY <2>1
      <3> HIDE DEF r
      <3> QED
        BY <1>1, <2>1, <3>1, <3>2 DEF Resume, runtimeVars, provVars
    <2> QED
      BY <2>1 DEF Resume, runtimeVars, provVars
  <1>4. CASE \E w \in Workers : Run(w)
    BY <1>4, ProcessInvFacts, RunMove
  <1>5. CASE Provision
    BY <1>5, ProcessInvFacts, ProvisionMoves
  <1>6. CASE RestartManager \/ RestartProvisioner \/ \E w \in Workers : Disconnect(w)
    BY <1>0, <1>6, DisconnectKeeps, RestartManagerKeeps, RestartProvisionerKeeps
  <1>7. CASE \/ QueueRead \/ ListActive \/ (\E t \in tails : LateRelease(t)) \/ Expire \/ UNCHANGED rotVars
    BY <1>7 DEF QueueRead, ListActive, LateRelease, Expire, rotVars, stepVars, managerVars, runtimeVars, provVars
  <1> QED
    BY <1>2, <1>3, <1>4, <1>5, <1>6, <1>7 DEF RotNext, RotStep

\* The Provisioner never forgets how a rotation ended.
KeptStays == \A o \in Ops : meta.kept[o] # None => meta'.kept[o] = meta.kept[o]

LEMMA KeptStep == ProcessInv /\ [RotNext]_rotVars => KeptStays
  BY StepKinds DEF KeptStays, GoroutineMove, ProvisionMove, Begin, ConnectionsBreak, Launched

\* Where the stored secret and the snapshots' secrets come from.
SecretMoves ==
    /\ \/ secret'[Server] = secret[Server]
       \/ \E r \in Revisions : rows[Server][r] # None /\ secret'[Server] = rows[Server][r].secrets
       \/ \E w \in Workers : worker[w].pc = "publish" /\ secret'[Server] = worker[w].op
    /\ \A r \in Revisions : rows'[Server][r] # None =>
          \/ rows[Server][r] # None /\ rows'[Server][r] = rows[Server][r]
          \/ rows'[Server][r].secrets = secret[Server]

LEMMA SecretStep == Inv /\ [RotStore]_storeVars => SecretMoves
  <1> SUFFICES ASSUME Inv, [RotStore]_storeVars PROVE SecretMoves
    OBVIOUS
  <1>0. Server \in Projects /\ TypeOK
    BY ServerFacts DEF Inv
  <1>1. CASE secret' = secret /\ rows' = rows
    BY <1>1 DEF SecretMoves
  <1>2. ASSUME NEW o \in Ops, NEW e \in Revisions,
               AdmitConfiguration(Server, o, e, canonical[Server], None)
        PROVE  SecretMoves
    <2> DEFINE row == [config |-> canonical[Server], secrets |-> secret[Server]]
    <2>1. secret' = secret /\ rows' = [rows EXCEPT ![Server][rev[Server] + 1] = row]
      BY <1>2 DEF AdmitConfiguration
    <2>2. row.secrets = secret[Server]
      OBVIOUS
    <2> HIDE DEF row
    <2> QED
      BY <1>0, <2>1, <2>2 DEF SecretMoves, TypeOK
  <1>3. ASSUME NEW o \in Ops, NEW f \in Fences, RestoreConfigurationStateOwned(Server, o, f)
        PROVE  SecretMoves
    <2>1. /\ rows[Server][rev[Server]] # None /\ rev[Server] \in Revisions
          /\ secret' = [secret EXCEPT ![Server] = rows[Server][rev[Server]].secrets]
          /\ rows' = [rows EXCEPT ![Server][rev[Server]] = None]
      BY <1>0, <1>3 DEF RestoreConfigurationStateOwned, TypeOK
    <2> QED
      BY <1>0, <2>1 DEF SecretMoves, TypeOK
  <1>4. ASSUME NEW w \in Workers, worker[w].pc = "publish",
               PublishConfigurationSecret(Server, Rev(worker[w].op), worker[w].op)
        PROVE  SecretMoves
    BY <1>0, <1>4 DEF PublishConfigurationSecret, SecretMoves, TypeOK
  <1> QED
    BY <1>1, <1>2, <1>3, <1>4
       DEF RotStore, storeVars, projectVars, ExpireLease, ReleaseConfigurationLeaseOwned,
           AcquireConfigurationLeaseForOperation, MarkConfigurationGoodOwned, UpdateOperation,
           SetOperationCompensation

Settled(x) == x \in Ops => meta.kept[x] # None

SecretsSettled ==
    /\ Settled(secret[Server])
    /\ \A r \in Revisions : rows[Server][r] # None => Settled(rows[Server][r].secrets)
    /\ \A w \in Workers : Settled(worker[w].old)
    /\ \A c \in calls : c.kind = "rollback" => Settled(c.new)
    /\ exec # None /\ exec.kind = "rollback" => Settled(exec.new)

LEMMA SettledStays ==
  ASSUME KeptStays, NEW x, Settled(x)
  PROVE  Settled(x)'
  BY DEF KeptStays, Settled

LEMMA SecretsSettledStep ==
  ASSUME ProcessInv, [RotNext]_rotVars, SecretsSettled
  PROVE  SecretsSettled'
  <1>1. KeptStays /\ SecretMoves
    BY KeptStep, SecretStep, StepStore, ProcessInvFacts
  <1>2. \A x : Settled(x) => (x \in Ops => meta'.kept[x] # None)
    BY <1>1 DEF KeptStays, Settled
  <1>3. Settled(None)
    BY ServerFacts DEF Settled
  <1>4. \A o \in Ops : Rev(o) \in Revisions /\ Rev(o) > 1 => Settled(OldPassword(o)) /\ Settled(SecretAt(Rev(o) - 1))
    <2>1. \A r \in Revisions : r > 1 => r - 1 \in Revisions
      BY ConstantsAssumption DEF Revisions
    <2> QED
      BY <1>3, <2>1 DEF SecretsSettled, OldPassword, SecretAt
  <1>5. /\ secret'[Server] \in Ops => meta'.kept[secret'[Server]] # None
        /\ \A r \in Revisions : rows'[Server][r] # None =>
              (rows'[Server][r].secrets \in Ops => meta'.kept[rows'[Server][r].secrets] # None)
    <2>1. ASSUME NEW w \in Workers, worker[w].pc = "publish" PROVE Settled(worker[w].op)
      BY <2>1, ProcessInvFacts, ServerFacts DEF Answered, Passed, Settled, Kept
    <2> QED
      BY <1>1, <1>2, <2>1 DEF SecretMoves, SecretsSettled
  <1> DEFINE Memories == /\ \A w \in Workers : Settled(worker'[w].old)
                         /\ \A c \in calls' : c.kind = "rollback" => Settled(c.new)
                         /\ exec' # None /\ exec'.kind = "rollback" => Settled(exec'.new)
  <1>6. ASSUME NEW w \in Workers, GoroutineMove(w) PROVE Memories
    <2>1. worker[w].pc # "idle" /\ Others(w) /\ exec' = exec
      BY <1>6 DEF GoroutineMove
    <2>2. /\ worker[w].op \in Ops /\ Rev(worker[w].op) \in Revisions /\ Rev(worker[w].op) > 1
      BY <2>1, ProcessInvFacts, WorkerFacts
    <2>3. Settled(worker'[w].old)
      <3>1. Idle.old = None
        BY DEF Idle
      <3> QED
        BY <1>3, <1>4, <1>6, <2>2, <3>1 DEF GoroutineMove, SecretsSettled
    <2>4. \A c \in calls' : c.kind = "rollback" => Settled(c.new)
      <3>1. CASE calls' = calls
        BY <3>1 DEF SecretsSettled
      <3>2. ASSUME NEW kind \in CallKinds, NEW old, NEW new, Asks(w, kind, old, new)
            PROVE  \A c \in calls' : c.kind = "rollback" => Settled(c.new)
        <4>1. kind = "rollback" => Settled(new)
          BY <1>4, <2>2, <3>2 DEF Asks, SecretsSettled
        <4> DEFINE c0 == [by |-> w, kind |-> kind, op |-> worker[w].op, fence |-> worker[w].fence,
                          old |-> old, new |-> new, live |-> TRUE]
        <4>2. calls' = calls \cup {c0} /\ c0.kind = kind /\ c0.new = new
          BY <3>2 DEF Asks, Send
        <4> HIDE DEF c0
        <4> QED
          BY <4>1, <4>2 DEF SecretsSettled
      <3> QED
        BY <1>6, <3>1, <3>2 DEF GoroutineMove
    <2> QED
      BY <2>1, <2>3, <2>4 DEF SecretsSettled, Others
  <1>7. ASSUME ProvisionMove PROVE Memories
    <2>1. \A v \in Workers : worker'[v].old = worker[v].old
      BY <1>7, ProcessInvFacts, FinishFacts DEF ProvisionMove, Continues, Replies
    <2>2. calls' = calls /\ (exec' # None => exec # None /\ exec'.kind = exec.kind /\ exec'.new = exec.new)
      BY <1>7 DEF ProvisionMove, Continues, Same, Finish
    <2> QED
      BY <2>1, <2>2 DEF SecretsSettled
  <1>8. ASSUME NEW c \in calls, Begin(c) PROVE Memories
    BY <1>8 DEF Begin, managerVars, SecretsSettled
  <1>9. ASSUME ConnectionsBreak PROVE Memories
    <2>1. Idle.old = None
      BY DEF Idle
    <2>2. \A v \in Workers : worker'[v].old = worker[v].old \/ worker'[v].old = None
      BY <1>9, <2>1 DEF ConnectionsBreak, Loses, Replies
    <2>3. \A d \in calls' : \E c \in calls : d.kind = c.kind /\ d.new = c.new
      BY <1>9 DEF ConnectionsBreak, Orphan
    <2>4. exec' # None => exec # None /\ exec'.kind = exec.kind /\ exec'.new = exec.new
      BY <1>9 DEF ConnectionsBreak, Orphan
    <2> QED
      BY <1>3, <2>2, <2>3, <2>4 DEF SecretsSettled
  <1>10. ASSUME NEW w \in Workers, Launched(w) PROVE Memories
    BY <1>3, <1>10 DEF Launched, Others, SecretsSettled
  <1>11. ASSUME UNCHANGED <<worker, calls, exec>> PROVE Memories
    BY <1>11 DEF SecretsSettled
  <1>12. Memories
    BY <1>6, <1>7, <1>8, <1>9, <1>10, <1>11, StepKinds
  <1>13. /\ \A w \in Workers : worker'[w].old \in Ops => meta'.kept[worker'[w].old] # None
         /\ \A c \in calls' : c.kind = "rollback" => (c.new \in Ops => meta'.kept[c.new] # None)
         /\ exec' # None /\ exec'.kind = "rollback" => (exec'.new \in Ops => meta'.kept[exec'.new] # None)
    BY <1>2, <1>12
  <1> QED
    BY <1>5, <1>13 DEF SecretsSettled, Settled

RevisionsDistinct ==
    \A o, q \in Ops : o # q /\ payload[o] # None /\ payload[q] # None => Rev(o) # Rev(q)

JournalOps == meta.journal # None => meta.journal.op \in Ops /\ payload[meta.journal.op] # None

\* The call of a rotation has the journal and the generations to go back to.
RotatingSettled ==
    exec # None /\ exec.kind = "rotate" /\ exec.pc # "start" =>
       /\ Settled(exec.anchor)
       /\ env = exec.op \/ Settled(env)
       /\ exec.pc # "stage" => Settled(exec.previous) \/ exec.previous = exec.op

RollbackSettled == exec # None /\ exec.kind = "rollback" /\ exec.pc # "start" => Settled(env)

JournalSettled ==
    /\ meta.journal # None => Settled(meta.journal.anchor)
    /\ meta.journal # None /\ meta.kept[meta.journal.op] = None => meta.rev = Rev(meta.journal.op) - 1
    /\ ~Settled(env) => meta.journal # None /\ meta.journal.op = env
    /\ AnchorIsOld

RuntimeSettled == RotatingSettled /\ RollbackSettled /\ JournalSettled

\* Nothing but the call under way changes.
LEMMA RuntimeRests ==
  ASSUME ProcessInv, PayloadKept, JournalOps, RuntimeSettled, UNCHANGED <<meta, env>>,
         \/ exec' = None
         \/ exec'.pc = "start"
         \/ /\ exec # None /\ exec'.kind = exec.kind /\ exec'.op = exec.op /\ exec'.pc = exec.pc
            /\ exec'.anchor = exec.anchor /\ exec'.previous = exec.previous
  PROVE  JournalOps' /\ RuntimeSettled'
  <1>1. JournalOps' /\ (meta.journal # None => Rev(meta.journal.op)' = Rev(meta.journal.op))
    BY DEF JournalOps, PayloadKept, Rev
  <1>2. JournalSettled'
    BY <1>1 DEF RuntimeSettled, JournalSettled, Settled, AnchorIsOld
  <1>3. RotatingSettled' /\ RollbackSettled'
    BY DEF RuntimeSettled, RotatingSettled, RollbackSettled, Settled
  <1> QED
    BY <1>1, <1>2, <1>3 DEF RuntimeSettled

\* A call ends: what it leaves selected is settled, or the journal is there.
LEMMA CallEnds ==
  ASSUME RotTypeOK, KeptStays, payload' = payload, JournalOps, JournalSettled, exec' = None,
         meta'.journal = meta.journal \/ meta'.journal = None,
         meta'.journal # None /\ meta'.kept[meta.journal.op] = None => meta'.rev = meta.rev,
         ~Settled(env)' => meta'.journal # None /\ meta.journal.op = env'
  PROVE  JournalOps' /\ RuntimeSettled'
  <1>1. RotatingSettled' /\ RollbackSettled'
    BY DEF RotatingSettled, RollbackSettled
  <1>2. JournalOps'
    BY DEF JournalOps
  <1>3. JournalSettled'
    <2>1. CASE meta'.journal = None
      BY <2>1 DEF JournalSettled, AnchorIsOld
    <2>2. CASE meta'.journal = meta.journal /\ meta.journal # None
      BY <2>2 DEF JournalSettled, AnchorIsOld, Settled, KeptStays, JournalOps, Rev
    <2> QED
      BY <2>1, <2>2
  <1> QED
    BY <1>1, <1>2, <1>3 DEF RuntimeSettled

LEMMA PrepareSettled ==
  ASSUME ProcessInv, JournalOps, RuntimeSettled, RevisionsDistinct, payload' = payload, KeptStays,
         RotatePrepare
  PROVE  JournalOps' /\ RuntimeSettled'
  <1> DEFINE j == IF meta.journal # None /\ meta.journal.op = exec.op THEN meta.journal
                  ELSE [op |-> exec.op, phase |-> "prepared", anchor |-> env]
  <1>1. exec # None /\ exec.kind = "rotate" /\ UNCHANGED <<dbpw, env, running, calls>>
    BY DEF RotatePrepare, Doing, runtimeVars
  <1>2. CASE meta' = meta /\ exec' = None
    BY <1>1, <1>2, ProcessInvFacts, CallEnds, SettledStays DEF RuntimeSettled, JournalSettled, Settled
  <1>3. CASE /\ meta.kept[exec.op] = None /\ meta.rev = Rev(exec.op) - 1
             /\ meta' = [meta EXCEPT !.fence = exec.fence, !.journal = j]
             /\ exec' = [exec EXCEPT !.pc = "stage", !.anchor = j.anchor]
    <2>1. exec \in Execution /\ exec.op \in Ops /\ payload[exec.op] # None /\ Rev(exec.op) \in Revisions
      BY <1>1, ProcessInvFacts, ExecFacts
    <2>2. j.op = exec.op /\ Settled(j.anchor) /\ j.anchor # j.op /\ j # None
          /\ (env = exec.op \/ Settled(env))
      <3>1. CASE meta.journal # None /\ meta.journal.op = exec.op
        BY <3>1 DEF RuntimeSettled, JournalSettled, AnchorIsOld
      <3>2. CASE ~(meta.journal # None /\ meta.journal.op = exec.op)
        <4>1. Settled(env)
          <5> SUFFICES ASSUME ~Settled(env) PROVE FALSE
            OBVIOUS
          <5>1. /\ meta.journal # None /\ meta.journal.op = env /\ meta.rev = Rev(env) - 1
                /\ env \in Ops /\ payload[env] # None
            BY DEF RuntimeSettled, JournalSettled, JournalOps, Settled
          <5>2. Rev(env) \in Revisions
            BY <5>1, PayloadFacts, ProcessInvFacts DEF Rev
          <5>3. Rev(env) = Rev(exec.op)
            BY <1>3, <2>1, <5>1, <5>2 DEF Revisions
          <5> QED
            BY <2>1, <3>2, <5>1, <5>3 DEF RevisionsDistinct
        <4>2. env # exec.op
          BY <1>3, <2>1, <4>1 DEF Settled
        <4>3. [op |-> exec.op, phase |-> "prepared", anchor |-> env] \in Journal
          BY <2>1, ProcessInvFacts, MetaFacts DEF Journal, JournalPhases
        <4>4. j = [op |-> exec.op, phase |-> "prepared", anchor |-> env]
          BY <3>2
        <4> QED
          BY <4>1, <4>2, <4>3, <4>4, ServerFacts
      <3> QED
        BY <3>1, <3>2
    <2> HIDE DEF j
    <2>3. meta \in Metadata
      BY ProcessInvFacts, MetaFacts
    <2>4. meta'.kept = meta.kept /\ meta'.rev = meta.rev /\ meta'.journal = j
      BY <1>3, <2>3 DEF Metadata
    <2>5. exec'.op = exec.op /\ exec'.pc = "stage" /\ exec'.anchor = j.anchor /\ exec'.kind = "rotate"
      BY <1>1, <1>3, <2>1 DEF Execution
    <2>6. JournalOps'
      BY <2>1, <2>2, <2>4 DEF JournalOps
    <2>7. RotatingSettled' /\ RollbackSettled'
      BY <1>1, <2>2, <2>4, <2>5 DEF RotatingSettled, RollbackSettled, Settled
    <2>8. JournalSettled'
      <3>1. ~Settled(env)' => j.op = env'
        BY <1>1, <2>2, <2>4 DEF Settled
      <3> QED
        BY <1>1, <1>3, <2>2, <2>4, <3>1 DEF JournalSettled, AnchorIsOld, Settled, Rev
    <2> QED
      BY <2>6, <2>7, <2>8 DEF RuntimeSettled
  <1> QED
    BY <1>2, <1>3 DEF RotatePrepare, Finish

\* A rotation that goes on after its generation was selected.
LEMMA ContinueSettled ==
  ASSUME ProcessInv, JournalOps, RuntimeSettled, payload' = payload, KeptStays,
         exec # None, exec.kind = "rotate", exec.pc # "start",
         meta'.kept = meta.kept, meta'.rev = meta.rev,
         meta'.journal # None, meta'.journal.op = meta.journal.op,
         meta'.journal.anchor = meta.journal.anchor,
         exec'.kind = "rotate", exec'.op = exec.op, exec'.anchor = exec.anchor,
         env' = exec.op, exec'.previous = env \/ (exec'.previous = exec.previous /\ exec.pc # "stage")
  PROVE  JournalOps' /\ RuntimeSettled'
  <1>1. meta.journal # None /\ meta.journal.op = exec.op
    BY ProcessInvFacts DEF Rotating
  <1>2. JournalOps'
    BY <1>1 DEF JournalOps
  <1>3. RotatingSettled' /\ RollbackSettled'
    BY DEF RuntimeSettled, RotatingSettled, RollbackSettled, Settled
  <1>4. JournalSettled'
    BY <1>1 DEF RuntimeSettled, JournalSettled, AnchorIsOld, Settled, Rev
  <1> QED
    BY <1>2, <1>3, <1>4 DEF RuntimeSettled

\* A rotation ends with the generation it found or published selected.
LEMMA RotationEnds ==
  ASSUME ProcessInv, JournalOps, RuntimeSettled, payload' = payload, KeptStays,
         exec # None, exec.kind = "rotate", exec.pc # "start", exec' = None,
         \/ meta' = meta
         \/ \E outcome \in Kept : Keep(outcome)
         \/ meta' = [meta EXCEPT !.rev = Rev(exec.op), !.kept[exec.op] = "ok"],
         env' = env \/ (env' = exec.previous /\ exec.pc # "stage")
  PROVE  JournalOps' /\ RuntimeSettled'
  <1>1. /\ meta.journal # None /\ meta.journal.op = exec.op /\ exec.op \in Ops
        /\ meta \in Metadata /\ meta.kept[exec.op] = None
    BY ProcessInvFacts, ExecFacts, MetaFacts DEF Rotating
  <1>2. meta'.journal = meta.journal /\ (meta'.kept[exec.op] = None => meta'.rev = meta.rev)
    <2>1. CASE \E outcome \in Kept : Keep(outcome)
      BY <1>1, <2>1, ServerFacts, ProcessInvFacts, KeepType
    <2>2. CASE meta' = [meta EXCEPT !.rev = Rev(exec.op), !.kept[exec.op] = "ok"]
      BY <1>1, <2>2, ServerFacts DEF Metadata, Kept
    <2> QED
      BY <2>1, <2>2
  <1>3. ~Settled(env)' => env' = exec.op
    BY <1>1 DEF RuntimeSettled, RotatingSettled, JournalSettled, Settled, KeptStays
  <1> QED
    BY <1>1, <1>2, <1>3, ProcessInvFacts, CallEnds DEF RuntimeSettled

LEMMA RotationSettled ==
  ASSUME ProcessInv, JournalOps, RuntimeSettled, payload' = payload, KeptStays,
         RotateStage \/ RotateAlter \/ RotateRecreate \/ RotateVerify \/ RotateCommit
  PROVE  JournalOps' /\ RuntimeSettled'
  <1>1. exec # None /\ exec.kind = "rotate" /\ exec.pc \notin {"start"}
    BY DEF RotateStage, RotateAlter, RotateRecreate, RotateVerify, RotateCommit, Doing
  <1>2. /\ exec \in Execution /\ exec.op \in Ops /\ exec.new = exec.op
        /\ meta.journal # None /\ meta.journal.op = exec.op
        /\ exec.pc # "stage" => env = exec.op
    BY <1>1, ProcessInvFacts, ExecFacts DEF Rotating
  <1>3. ASSUME NEW phase \in JournalPhases, Phase(phase)
        PROVE  /\ meta'.kept = meta.kept /\ meta'.rev = meta.rev
               /\ meta'.journal # None /\ meta'.journal.op = meta.journal.op
               /\ meta'.journal.anchor = meta.journal.anchor
    BY <1>2, <1>3, ProcessInvFacts, PhaseType
  <1>4. {"runtime-published", "db-rotated", "provisioner-committed"} \subseteq JournalPhases
        /\ {"unchanged", "undone", "broken"} \subseteq Kept
    BY DEF JournalPhases, Kept
  <1>5. ASSUME NEW pc, exec' = [exec EXCEPT !.pc = pc]
        PROVE  /\ exec'.kind = "rotate" /\ exec'.op = exec.op
               /\ exec'.anchor = exec.anchor /\ exec'.previous = exec.previous
    BY <1>1, <1>2, <1>5 DEF Execution
  <1>6. CASE RotateStage
    <2>1. exec.pc = "stage" /\ exec.pc # "start"
      BY <1>6 DEF RotateStage, Doing
    <2>2. CASE /\ env' = exec.new /\ Phase("runtime-published")
               /\ exec' = [exec EXCEPT !.pc = "alter", !.previous = env]
      <3>1. /\ exec'.kind = "rotate" /\ exec'.op = exec.op /\ exec'.anchor = exec.anchor
            /\ exec'.previous = env
        BY <1>1, <1>2, <2>2 DEF Execution
      <3> QED
        BY <1>1, <1>2, <1>3, <1>4, <2>1, <2>2, <3>1, ContinueSettled
    <2>3. CASE (Keep("unchanged") \/ Keep("undone")) /\ exec' = None /\ env' = env
      BY <1>1, <1>4, <2>1, <2>3, RotationEnds
    <2> QED
      BY <1>6, <2>2, <2>3 DEF RotateStage, Finish
  <1>7. CASE RotateAlter
    <2>1. exec.pc = "alter"
      BY <1>7 DEF RotateAlter, Doing
    <2>2. CASE Phase("db-rotated") /\ Continue("recreate") /\ env' = env
      BY <1>1, <1>2, <1>3, <1>4, <1>5, <2>1, <2>2, ContinueSettled DEF Continue
    <2>3. CASE (Keep("broken") \/ Keep("undone")) /\ exec' = None /\ env' = exec.previous
      BY <1>1, <1>4, <2>1, <2>3, RotationEnds
    <2> QED
      BY <1>7, <2>2, <2>3 DEF RotateAlter, Finish
  <1>8. ASSUME RotateUndo, exec.pc # "stage" PROVE JournalOps' /\ RuntimeSettled'
    <2>1. (Keep("undone") \/ Keep("broken")) /\ exec' = None /\ env' = exec.previous
      BY <1>8 DEF RotateUndo, Undo, Finish
    <2> QED
      BY <1>1, <1>4, <1>8, <2>1, RotationEnds
  <1>9. CASE RotateRecreate
    <2>1. exec.pc = "recreate"
      BY <1>9 DEF RotateRecreate, Doing
    <2>2. CASE Continue("verify") /\ meta' = meta /\ env' = env
      BY <1>1, <1>2, <1>5, <2>1, <2>2, ContinueSettled DEF Continue
    <2> QED
      BY <1>8, <1>9, <2>1, <2>2 DEF RotateRecreate
  <1>10. CASE RotateVerify
    <2>1. exec.pc = "verify"
      BY <1>10 DEF RotateVerify, Doing
    <2>2. CASE Phase("provisioner-committed") /\ Continue("commit") /\ env' = env
      BY <1>1, <1>2, <1>3, <1>4, <1>5, <2>1, <2>2, ContinueSettled DEF Continue
    <2>3. CASE exec' = None /\ meta' = meta /\ env' = env
      BY <1>1, <2>1, <2>3, RotationEnds
    <2> QED
      BY <1>8, <1>10, <2>1, <2>2, <2>3 DEF RotateVerify, Finish, runtimeVars
  <1>11. CASE RotateCommit
    <2>1. exec.pc = "commit"
      BY <1>11 DEF RotateCommit, Doing
    <2>2. exec' = None /\ (env' = env \/ env' = exec.previous)
      BY <1>11 DEF RotateCommit, Finish, Undo, runtimeVars
    <2>3. meta' = meta \/ meta' = [meta EXCEPT !.rev = Rev(exec.op), !.kept[exec.op] = "ok"]
      BY <1>11 DEF RotateCommit
    <2> QED
      BY <1>1, <2>1, <2>2, <2>3, RotationEnds
  <1> QED
    BY <1>6, <1>7, <1>9, <1>10, <1>11

LEMMA RollbackAndConfirmSettled ==
  ASSUME ProcessInv, JournalOps, RuntimeSettled, SecretsSettled, payload' = payload, KeptStays,
         RollbackStage \/ RollbackAlter \/ RollbackRecreate \/ Confirm
  PROVE  JournalOps' /\ RuntimeSettled'
  <1>1. exec # None /\ exec.kind \in {"rollback", "confirm"}
    BY DEF RollbackStage, RollbackAlter, RollbackRecreate, Confirm, Doing
  <1>2. exec \in Execution /\ exec.op \in Ops /\ Rev(exec.op) \in Revisions /\ meta \in Metadata
    BY <1>1, ProcessInvFacts, ExecFacts, MetaFacts
  <1>3. CASE meta' = meta /\ exec' = None /\ env' = env
    BY <1>3, ProcessInvFacts, CallEnds DEF RuntimeSettled, JournalSettled, Settled
  <1>4. ASSUME exec.kind = "rollback", meta' = meta, NEW pc \in {"alter", "recreate"}, Continue(pc),
               Settled(env')
        PROVE  JournalOps' /\ RuntimeSettled'
    <2>1. exec'.kind = "rollback" /\ exec'.pc = pc
      BY <1>2, <1>4 DEF Continue, Execution
    <2>2. JournalOps'
      BY <1>4 DEF JournalOps
    <2>3. RotatingSettled' /\ RollbackSettled'
      BY <1>4, <2>1 DEF RotatingSettled, RollbackSettled, Settled
    <2>4. JournalSettled'
      BY <1>4 DEF RuntimeSettled, JournalSettled, AnchorIsOld, Settled, Rev
    <2> QED
      BY <2>2, <2>3, <2>4 DEF RuntimeSettled
  <1>5. CASE RollbackStage
    <2>1. exec.kind = "rollback" /\ meta' = meta
      BY <1>5 DEF RollbackStage, Doing
    <2>2. CASE /\ env' = IF meta.journal # None THEN meta.journal.anchor ELSE exec.new
               /\ Continue("alter")
      BY <1>1, <1>4, <2>1, <2>2 DEF RuntimeSettled, JournalSettled, SecretsSettled
    <2> QED
      BY <1>3, <1>5, <2>1, <2>2 DEF RollbackStage, Finish
  <1>6. CASE RollbackAlter
    <2>1. exec.kind = "rollback" /\ meta' = meta /\ env' = env /\ exec.pc # "start"
      BY <1>6 DEF RollbackAlter, Doing
    <2>2. Settled(env)
      BY <1>1, <2>1 DEF RuntimeSettled, RollbackSettled
    <2> QED
      BY <1>3, <1>4, <1>6, <2>1, <2>2 DEF RollbackAlter, Finish
  <1>7. ASSUME exec' = None, env' = env, Settled(env), meta'.journal = None
        PROVE  JournalOps' /\ RuntimeSettled'
    <2>1. Settled(env)'
      BY <1>7 DEF Settled, KeptStays
    <2> QED
      BY <1>7, <2>1 DEF JournalOps, RuntimeSettled, RotatingSettled, RollbackSettled, JournalSettled,
         AnchorIsOld
  <1>8. CASE RollbackRecreate
    <2>1. exec.kind = "rollback" /\ env' = env /\ exec.pc # "start" /\ exec' = None
      BY <1>8 DEF RollbackRecreate, Doing, Finish
    <2>2. Settled(env)
      BY <1>1, <2>1 DEF RuntimeSettled, RollbackSettled
    <2>3. CASE meta' = meta
      BY <1>3, <2>1, <2>3
    <2>4. CASE meta' = [meta EXCEPT !.rev = Rev(exec.op) - 1, !.journal = None,
                                    !.rolledBack = @ \cup {exec.op}]
      BY <1>2, <1>7, <2>1, <2>2, <2>4 DEF Metadata
    <2> QED
      BY <1>8, <2>3, <2>4 DEF RollbackRecreate
  <1>9. CASE Confirm
    <2>1. exec' = None /\ env' = env
      BY <1>9 DEF Confirm, Finish, runtimeVars
    <2>2. CASE /\ meta' = [meta EXCEPT !.journal = None] /\ meta.rev = Rev(exec.op)
               /\ meta.journal # None => meta.journal.op = exec.op
      <3>1. Settled(env)
        <4> SUFFICES ASSUME ~Settled(env) PROVE FALSE
          OBVIOUS
        <4>1. meta.journal # None /\ meta.journal.op = env /\ meta.kept[env] = None
          BY DEF RuntimeSettled, JournalSettled, Settled
        <4>2. meta.rev = Rev(exec.op) - 1
          BY <2>2, <4>1 DEF RuntimeSettled, JournalSettled
        <4> QED
          BY <1>2, <2>2, <4>2 DEF Revisions
      <3>2. meta'.journal = None
        BY <1>2, <2>2 DEF Metadata
      <3> QED
        BY <1>7, <2>1, <3>1, <3>2
    <2> QED
      BY <1>3, <1>9, <2>1, <2>2 DEF Confirm
  <1> QED
    BY <1>5, <1>6, <1>8, <1>9

\* What is settled stays settled while no two rotations have one revision.
AnchorInv == SecretsSettled /\ (RevisionsDistinct => JournalOps /\ RuntimeSettled)

LEMMA AnchorStep == ProcessInv /\ AnchorInv /\ [RotNext]_rotVars => AnchorInv'
  <1> SUFFICES ASSUME ProcessInv, AnchorInv, [RotNext]_rotVars PROVE AnchorInv'
    OBVIOUS
  <1>1. PayloadKept /\ KeptStays
    BY StepPayload, KeptStep
  <1>2. SecretsSettled'
    BY SecretsSettledStep DEF AnchorInv
  <1> SUFFICES ASSUME RevisionsDistinct' PROVE JournalOps' /\ RuntimeSettled'
    BY <1>2 DEF AnchorInv
  <1>3. RevisionsDistinct
    <2> SUFFICES ASSUME NEW o \in Ops, NEW q \in Ops, o # q, payload[o] # None, payload[q] # None
                 PROVE  Rev(o) # Rev(q)
      BY DEF RevisionsDistinct
    <2>1. payload'[o] # None /\ payload'[q] # None /\ payload'[o].rev = Rev(o) /\ payload'[q].rev = Rev(q)
      BY <1>1 DEF PayloadKept, Rev
    <2>2. payload'[o].rev # payload'[q].rev
      BY <2>1 DEF RevisionsDistinct, Rev
    <2> QED
      BY <2>1, <2>2
  <1>4. SecretsSettled /\ JournalOps /\ RuntimeSettled
    BY <1>3 DEF AnchorInv
  <1>5. CASE Provision
    <2>1. payload' = payload
      BY <1>5 DEF Provision, storeVars
    <2>2. \/ RotatePrepare
          \/ RotateStage \/ RotateAlter \/ RotateRecreate \/ RotateVerify \/ RotateCommit
          \/ RollbackStage \/ RollbackAlter \/ RollbackRecreate \/ Confirm
      BY <1>5 DEF Provision
    <2> QED
      BY <1>1, <1>3, <1>4, <2>1, <2>2, PrepareSettled, RotationSettled, RollbackAndConfirmSettled
  <1>6. ASSUME NEW c \in calls, Begin(c) PROVE JournalOps' /\ RuntimeSettled'
    <2>1. exec'.pc = "start" /\ UNCHANGED <<meta, env>>
      BY <1>6 DEF Begin, runtimeVars
    <2> QED
      BY <1>1, <1>4, <2>1, RuntimeRests
  <1>7. CASE UNCHANGED <<meta, env, exec>>
    BY <1>1, <1>4, <1>7, RuntimeRests
  <1>8. CASE ConnectionsBreak
    BY <1>1, <1>4, <1>8, RuntimeRests DEF ConnectionsBreak, Orphan
  <1>9. ASSUME NEW w \in Workers, GoroutineMove(w) \/ Launched(w) PROVE UNCHANGED <<meta, env, exec>>
    BY <1>9 DEF GoroutineMove, Launched
  <1> QED
    BY <1>5, <1>6, <1>7, <1>8, <1>9, StepKinds

LEMMA InitAnchor == RotInit => AnchorInv
  <1> SUFFICES ASSUME RotInit PROVE AnchorInv
    OBVIOUS
  <1>1. /\ worker = [w \in Workers |-> Idle] /\ calls = {} /\ exec = None /\ env = Old
        /\ meta.journal = None /\ Init
    BY DEF RotInit
  <1>2. secret[Server] = Old
    BY <1>1, ServerFacts, RotationAssumption DEF Init, Old
  <1>3. \A r \in Revisions : rows[Server][r] # None => rows[Server][r].secrets = None
    <2> DEFINE row == [config |-> InitialConfig[Server], secrets |-> None]
    <2>1. rows[Server] = [NoRows EXCEPT ![1] = row] /\ row.secrets = None
      BY <1>1, ServerFacts, RotationAssumption DEF Init
    <2> HIDE DEF row
    <2> QED
      BY <2>1 DEF NoRows
  <1>4. Idle.old = None
    BY DEF Idle
  <1>5. Settled(Old) /\ Settled(None)
    BY ServerFacts DEF Settled
  <1>6. SecretsSettled
    BY <1>1, <1>2, <1>3, <1>4, <1>5 DEF SecretsSettled
  <1>7. JournalOps /\ RuntimeSettled
    BY <1>1, <1>5 DEF JournalOps, RuntimeSettled, RotatingSettled, RollbackSettled, JournalSettled,
       AnchorIsOld
  <1> QED
    BY <1>6, <1>7 DEF AnchorInv

\* The generation the Provisioner's journal goes back to never is one the
\* journal's own rotation published, however often the rotation is interrupted,
\* retried or resumed and whatever else is rotated meanwhile.  Two admissions
\* with one candidate revision are left out: the second can only follow a first
\* one whose revision was given up, and then the Provisioner, which compares
\* revisions, may take one rotation's leftovers for the other's.
THEOREM AnchorStaysOld == RotSpec => [](RevisionsDistinct => AnchorIsOld)
  <1>1. RotInit => ProcessInv /\ AnchorInv
    BY InitProcess, InitAnchor
  <1>2. (ProcessInv /\ AnchorInv) /\ [RotNext]_rotVars => (ProcessInv /\ AnchorInv)'
    BY ProcessStep, AnchorStep
  <1>3. AnchorInv => (RevisionsDistinct => AnchorIsOld)
    BY DEF AnchorInv, RuntimeSettled, JournalSettled
  <1> QED
    BY <1>1, <1>2, <1>3, PTL DEF RotSpec

-----------------------------------------------------------------------------
(* What a rotation publishes is what runs, as long as nobody gives its       *)
(* revision up or publishes another password under it.                       *)

\* No newer candidate is admitted, and no goroutine and no request rolls back
\* or restores the revision of o or publishes another rotation's password
\* under it.  It speaks of o's time only: what came before is left open.
Undisturbed(o) ==
    payload[o] # None =>
       /\ \A q \in Ops : payload[q] # None => Rev(q) <= Rev(o)
       /\ \A c \in calls \cup ({exec} \ {None}) : c.kind = "rollback" => Rev(c.op) # Rev(o)
       /\ \A w \in Workers :
             worker[w].pc \in {"restore", "publish"} /\ Rev(worker[w].op) = Rev(o) =>
                worker[w].pc = "publish" /\ worker[w].op = o

\* A rotation whose success the Provisioner keeps is the one that runs.
KeptRuns(o) ==
    meta.kept[o] = "ok" =>
       payload[o] # None /\ meta.rev = Rev(o) /\ dbpw = o /\ env = o /\ running = o

\* A goroutine that has published the password of o still finds it stored.
PublishedStays(o) ==
    \A w \in Workers : worker[w].op = o /\ worker[w].pc \in {"confirming", "good"} =>
       rev[Server] = Rev(o) /\ secret[Server] = o

LEMMA KeptRunsStep ==
  ASSUME ProcessInv, [RotNext]_rotVars, NEW o \in Ops, Undisturbed(o), KeptRuns(o)
  PROVE  KeptRuns(o)'
  <1>1. PayloadKept
    BY StepPayload
  <1>2. CASE UNCHANGED <<meta, dbpw, env, running>>
    BY <1>1, <1>2 DEF KeptRuns, PayloadKept, Rev
  <1>3. CASE Provision
    <2>1. payload' = payload /\ exec # None
      BY <1>3, ProcessInvFacts, ProvisionMoves DEF ProvisionMove, storeVars
    <2>2. /\ exec.op \in Ops /\ exec.kind \in CallKinds /\ payload[exec.op] # None
          /\ Rev(exec.op) \in Revisions /\ meta \in Metadata /\ meta.rev \in Revisions
      BY <2>1, ProcessInvFacts, ExecFacts, MetaFacts
    <2>3. meta.kept[o] = "ok" => /\ payload[o] # None /\ Rev(o) \in Revisions /\ Rev(exec.op) <= Rev(o)
                                 /\ meta.rev = Rev(o) /\ dbpw = o /\ env = o /\ running = o
                                 /\ exec.kind = "rollback" => Rev(exec.op) # Rev(o)
      BY <2>1, <2>2, ProcessInvFacts, PayloadFacts DEF KeptRuns, Undisturbed, Rev
    <2>4. meta.kept[o] = "ok" => ~(exec.kind = "rotate" /\ exec.pc # "start")
      BY <2>1, <2>2, <2>3, ProcessInvFacts DEF Rotating, Revisions
    <2>5. meta.kept[o] = "ok" => ~(exec.kind = "rollback" /\ exec.pc # "start")
      BY <2>1, <2>2, <2>3, ProcessInvFacts DEF Rollback
    <2>6. CASE RotatePrepare \/ Confirm
      <3>1. meta'.kept = meta.kept /\ meta'.rev = meta.rev /\ UNCHANGED <<dbpw, env, running>>
        BY <2>2, <2>6 DEF RotatePrepare, Confirm, Metadata, runtimeVars
      <3> QED
        BY <2>1, <3>1 DEF KeptRuns, Rev
    <2>7. CASE RollbackStage
      <3>1. meta' = meta /\ UNCHANGED <<dbpw, running>> /\ exec.kind = "rollback"
            /\ (meta.rev # Rev(exec.op) => env' = env)
        BY <2>7 DEF RollbackStage, Doing
      <3> QED
        BY <2>1, <2>3, <3>1 DEF KeptRuns, Rev
    <2>8. CASE RollbackAlter \/ RollbackRecreate
      <3>1. exec.kind = "rollback" /\ exec.pc # "start"
        BY <2>8 DEF RollbackAlter, RollbackRecreate, Doing
      <3>2. meta'.kept = meta.kept
        BY <2>2, <2>8 DEF RollbackAlter, RollbackRecreate, Metadata
      <3> QED
        BY <2>5, <3>1, <3>2 DEF KeptRuns
    <2>9. CASE RotateStage \/ RotateAlter \/ RotateRecreate \/ RotateVerify \/ RotateCommit
      <3>1. exec.kind = "rotate" /\ exec.pc # "start" /\ meta.journal # None
        BY <2>1, <2>9, ProcessInvFacts
           DEF RotateStage, RotateAlter, RotateRecreate, RotateVerify, RotateCommit, Doing, Rotating
      <3> SUFFICES ASSUME meta'.kept[o] = "ok"
                   PROVE  payload[o] # None /\ meta'.rev = Rev(o) /\ dbpw' = o /\ env' = o /\ running' = o
        BY <2>1 DEF KeptRuns, Rev
      <3>2. meta.kept[o] # "ok"
        BY <2>4, <3>1
      <3>3. ASSUME NEW outcome \in {"unchanged", "undone", "broken"} PROVE ~Keep(outcome)
        <4> SUFFICES ASSUME Keep(outcome) PROVE FALSE
          OBVIOUS
        <4>1. meta'.kept[exec.op] = outcome /\ \A q \in Ops \ {exec.op} : meta'.kept[q] = meta.kept[q]
          BY <2>1, <2>2, ProcessInvFacts, KeepType DEF Kept
        <4> QED
          BY <3>2, <4>1
      <3>4. ASSUME NEW phase \in JournalPhases PROVE ~Phase(phase)
        <4> SUFFICES ASSUME Phase(phase) PROVE FALSE
          OBVIOUS
        <4>1. meta'.kept = meta.kept
          BY <3>1, ProcessInvFacts, PhaseType
        <4> QED
          BY <3>2, <4>1
      <3>5. meta' # meta
        BY <3>2
      <3>6. {"runtime-published", "db-rotated", "provisioner-committed"} \subseteq JournalPhases
        BY DEF JournalPhases
      <3>7. ~RotateStage /\ ~RotateAlter
        BY <3>3, <3>4, <3>6 DEF RotateStage, RotateAlter
      <3>8. ~RotateRecreate /\ ~RotateVerify
        BY <3>3, <3>4, <3>5, <3>6 DEF RotateRecreate, RotateVerify, RotateUndo
      <3>9. /\ exec.pc = "commit" /\ UNCHANGED <<dbpw, env, running>>
            /\ meta' = [meta EXCEPT !.rev = Rev(exec.op), !.kept[exec.op] = "ok"]
        BY <2>9, <3>5, <3>7, <3>8 DEF RotateCommit, Doing, runtimeVars
      <3>10. exec.op = o
        BY <2>2, <3>2, <3>9 DEF Metadata
      <3>11. meta'.rev = Rev(o)
        BY <2>2, <3>9, <3>10 DEF Metadata
      <3>12. dbpw = o /\ env = o /\ running = o
        BY <2>1, <3>1, <3>9, <3>10, ProcessInvFacts DEF Rotating
      <3> QED
        BY <2>2, <3>9, <3>10, <3>11, <3>12
    <2> QED
      BY <1>3, <2>6, <2>7, <2>8, <2>9 DEF Provision
  <1> QED
    BY <1>2, <1>3, StepKinds DEF GoroutineMove, Begin, ConnectionsBreak, Launched, runtimeVars

\* The store keeps the password of o at o's revision.
LEMMA StoredStays ==
  ASSUME ProcessInv, [RotStore]_storeVars, NEW o \in Ops, payload[o] # None,
         Undisturbed(o), Undisturbed(o)', PayloadKept,
         rev[Server] = Rev(o), secret[Server] = o
  PROVE  rev'[Server] = Rev(o) /\ secret'[Server] = o
  <1>0. Server \in Projects /\ TypeOK
    BY ServerFacts, ProcessInvFacts
  <1>1. ASSUME NEW q \in Ops, NEW e \in Revisions,
               AdmitConfiguration(Server, q, e, canonical[Server], None)
        PROVE  FALSE
    <2> DEFINE cmd == [project |-> Server, rev |-> rev[Server] + 1, fence |-> NextFence(Server)]
    <2>1. payload' = [payload EXCEPT ![q] = cmd] /\ cmd.rev = rev[Server] + 1 /\ cmd \in Payload
          /\ ops[q] = None
      BY <1>1, <1>0 DEF AdmitConfiguration, Payload
    <2> HIDE DEF cmd
    <2>2. q # o
      BY <2>1, ProcessInvFacts DEF Inv, Safe, CommandHasOperation
    <2>3. payload'[q] = cmd /\ payload'[o] = payload[o]
      BY <1>0, <2>1, <2>2 DEF TypeOK
    <2>4. payload'[q].rev <= payload'[o].rev
      BY <2>1, <2>3, NoneFacts DEF Undisturbed, Rev
    <2>5. rev[Server] \in Nat
      BY <1>0, ConstantsAssumption DEF TypeOK, Revisions
    <2> QED
      BY <2>1, <2>3, <2>4, <2>5 DEF Rev
  <1>2. ASSUME NEW w \in Workers, NEW q \in Ops, NEW f, worker[w].op = q, worker[w].pc = "restore",
               RestoreConfigurationStateOwned(Server, q, f)
        PROVE  FALSE
    BY <1>2 DEF RestoreConfigurationStateOwned, OwnsCandidate, Undisturbed, Rev
  <1>3. ASSUME NEW w \in Workers, NEW q \in Ops, worker[w].op = q, worker[w].pc = "publish",
               PublishConfigurationSecret(Server, Rev(q), q)
        PROVE  rev'[Server] = Rev(o) /\ secret'[Server] = o
    <2>1. q = o
      BY <1>3 DEF PublishConfigurationSecret, Undisturbed
    <2> QED
      BY <1>0, <1>3, <2>1 DEF PublishConfigurationSecret, TypeOK
  <1>4. CASE rev' = rev /\ secret' = secret
    BY <1>4
  <1> QED
    BY <1>1, <1>2, <1>3, <1>4
       DEF RotStore, storeVars, projectVars, ExpireLease, ReleaseConfigurationLeaseOwned,
           AcquireConfigurationLeaseForOperation, MarkConfigurationGoodOwned, UpdateOperation,
           SetOperationCompensation

\* A goroutine has published, or publishes now.
LEMMA Publishing ==
  ASSUME ProcessInv, NEW w \in Workers, Run(w), worker'[w].pc \in {"confirming", "good"}
  PROVE  \/ worker[w].pc \in {"confirming", "good"} /\ UNCHANGED storeVars
         \/ /\ worker[w].pc = "publish" /\ worker[w].op \in Ops /\ payload[worker[w].op] # None
            /\ PublishConfigurationSecret(Server, Rev(worker[w].op), worker[w].op)
  <1>1. worker \in [Workers -> Goroutine]
    BY ProcessInvFacts DEF RotTypeOK
  <1>2. CASE Publish(w)
    <2>1. worker[w].pc = "publish" /\ worker[w].op \in Ops /\ payload[worker[w].op] # None
      BY <1>2, ProcessInvFacts, WorkerFacts DEF Publish, At
    <2>2. Goto(w, "compensate") => worker'[w].pc = "compensate"
      BY <1>1, ZenonT(60) DEF Goto, Goroutine
    <2> QED
      BY <1>2, <2>1, <2>2 DEF Publish
  <1>3. CASE Confirmed(w)
    BY <1>3 DEF Confirmed, Replied
  <1>4. ASSUME NEW pc \in WorkerSteps \ {"confirming", "good"},
               Goto(w, pc) \/ (\E back \in BOOLEAN : GotoWith(w, pc, back))
        PROVE  FALSE
    BY <1>1, <1>4, GotoMoves, GotoWithMoves, ZenonT(60) DEF Moved
  <1>5. CASE Good(w) \/ Start(w) \/ Prepare(w) \/ Rotated(w) \/ Mark(w) \/ Compensate(w)
             \/ RolledBack(w) \/ fail(w) \/ Succeed(w)
    BY <1>4, <1>5 DEF Good, Start, Prepare, Rotated, Mark, Compensate, RolledBack, fail, Succeed,
       Advance, WorkerSteps, reconcileRollback
  <1>6. CASE Restore(w)
    <2>1. worker[w].recovery \in {"", "rolled", "confirmed"}
      BY <1>1 DEF Goroutine
    <2> QED
      BY <1>4, <1>6, <2>1 DEF Restore, WorkerSteps
  <1>7. CASE Recover(w) \/ ReconcileServices(w) \/ Exit(w)
    <2>2. ASSUME worker' = [worker EXCEPT ![w].pc = "restore", ![w].back = TRUE,
                                          ![w].recovery = "confirmed"]
          PROVE  FALSE
      <3> DEFINE r == [worker[w] EXCEPT !.pc = "restore", !.back = TRUE, !.recovery = "confirmed"]
      <3>1. r.pc = "restore" /\ worker' = [worker EXCEPT ![w] = r]
        BY <1>1, <2>2 DEF Goroutine
      <3> HIDE DEF r
      <3>2. worker'[w] = r
        BY <1>1, <3>1
      <3> QED
        BY <3>1, <3>2
    <2>3. ASSUME worker' = [worker EXCEPT ![w].pc = "rolling", ![w].recovery = "rolled"]
          PROVE  FALSE
      <3> DEFINE r == [worker[w] EXCEPT !.pc = "rolling", !.recovery = "rolled"]
      <3>1. r.pc = "rolling" /\ worker' = [worker EXCEPT ![w] = r]
        BY <1>1, <2>3, ZenonT(60) DEF Goroutine
      <3> HIDE DEF r
      <3>2. worker'[w] = r
        BY <1>1, <3>1
      <3> QED
        BY <3>1, <3>2
    <2>4. ASSUME NEW old, worker' = [worker EXCEPT ![w].pc = "rotating", ![w].old = old]
          PROVE  FALSE
      <3> DEFINE r == [worker[w] EXCEPT !.pc = "rotating", !.old = old]
      <3>1. r.pc = "rotating" /\ worker' = [worker EXCEPT ![w] = r]
        BY <1>1, <2>4, ZenonT(60) DEF Goroutine
      <3> HIDE DEF r
      <3>2. worker'[w] = r
        BY <1>1, <3>1
      <3> QED
        BY <3>1, <3>2
    <2>5. CASE Recover(w)
      BY <1>4, <2>2, <2>3, <2>5 DEF Recover, WorkerSteps
    <2>6. CASE ReconcileServices(w)
      BY <1>4, <2>4, <2>6 DEF ReconcileServices, WorkerSteps
    <2>7. CASE Exit(w)
      <3>1. worker'[w] = Idle
        BY <1>1, <2>7 DEF Exit
      <3> QED
        BY <3>1, IdleType
    <2> QED
      BY <1>7, <2>5, <2>6, <2>7
  <1> QED
    BY <1>2, <1>3, <1>5, <1>6, <1>7 DEF Run

LEMMA PublishedStaysStep ==
  ASSUME ProcessInv, [RotNext]_rotVars, NEW o \in Ops, Undisturbed(o), Undisturbed(o)',
         PublishedStays(o)
  PROVE  PublishedStays(o)'
  <1>1. PayloadKept /\ [RotStore]_storeVars /\ worker \in [Workers -> Goroutine]
    BY StepPayload, StepStore, ProcessInvFacts DEF RotTypeOK
  <1> SUFFICES ASSUME NEW v \in Workers, worker'[v].op = o, worker'[v].pc \in {"confirming", "good"}
               PROVE  rev'[Server] = payload'[o].rev /\ secret'[Server] = o
    BY DEF PublishedStays, Rev
  <1>2. ASSUME worker[v].op = o, worker[v].pc \in {"confirming", "good"}
        PROVE  rev'[Server] = payload'[o].rev /\ secret'[Server] = o
    <2>1. payload[o] # None
      BY <1>2, ProcessInvFacts, WorkerFacts
    <2>2. rev[Server] = Rev(o) /\ secret[Server] = o
      BY <1>2 DEF PublishedStays
    <2>3. payload'[o].rev = Rev(o)
      BY <1>1, <2>1 DEF PayloadKept, Rev
    <2> QED
      BY <1>1, <2>1, <2>2, <2>3, StoredStays
  <1>3. ASSUME NEW w \in Workers, Run(w), GoroutineMove(w)
        PROVE  rev'[Server] = payload'[o].rev /\ secret'[Server] = o
    <2>1. CASE v # w
      BY <1>2, <1>3, <2>1 DEF GoroutineMove, Others
    <2>2. CASE v = w
      <3>1. worker[w].op = o
        BY <1>3, <2>2, IdleType DEF GoroutineMove
      <3>2. CASE worker[w].pc = "publish" /\ PublishConfigurationSecret(Server, Rev(o), o)
        BY <3>2, ServerFacts, ProcessInvFacts DEF PublishConfigurationSecret, Rev, TypeOK
      <3> QED
        BY <1>2, <1>3, <2>2, <3>1, <3>2, Publishing
    <2> QED
      BY <2>1, <2>2
  <1>4. ASSUME ProvisionMove
        PROVE  worker[v].op = o /\ worker[v].pc \in {"confirming", "good"}
    BY <1>4, ProcessInvFacts, FinishFacts DEF ProvisionMove, Continues, Replies
  <1>5. ASSUME ConnectionsBreak
        PROVE  worker[v].op = o /\ worker[v].pc \in {"confirming", "good"}
    BY <1>5, IdleType DEF ConnectionsBreak, Loses, Replies
  <1>6. ASSUME NEW w \in Workers, Launched(w)
        PROVE  worker[v].op = o /\ worker[v].pc \in {"confirming", "good"}
    BY <1>6 DEF Launched, Others
  <1>7. ASSUME worker' = worker
        PROVE  worker[v].op = o /\ worker[v].pc \in {"confirming", "good"}
    BY <1>7
  <1> QED
    BY <1>2, <1>3, <1>4, <1>5, <1>6, <1>7, StepKinds DEF Begin, managerVars

\* When the Manager commits o, o is what is stored and what runs.
CommitIsLive(o) ==
    ops[o] # None /\ ops[o].phase # "COMMITTED" /\ ops'[o].phase = "COMMITTED" =>
       secret[Server] = o /\ dbpw = o /\ env = o /\ running = o

LEMMA CommitStep ==
  ASSUME ProcessInv, [RotNext]_rotVars, NEW o \in Ops, KeptRuns(o), PublishedStays(o)
  PROVE  CommitIsLive(o)
  <1> SUFFICES ASSUME ops[o] # None, ops[o].phase # "COMMITTED", ops'[o].phase = "COMMITTED"
               PROVE  secret[Server] = o /\ dbpw = o /\ env = o /\ running = o
    BY DEF CommitIsLive
  <1>1. [RotStore]_storeVars /\ TypeOK
    BY StepStore, ProcessInvFacts
  <1>2. \A q \in Ops : ops[q] # None => ops[q] \in Operation
    BY <1>1 DEF TypeOK
  <1>3. \E w \in Workers : worker[w].pc = "good" /\ worker[w].op = o
    <2>1. ASSUME NEW q \in Ops, NEW e \in Revisions,
                 AdmitConfiguration(Server, q, e, canonical[Server], None)
          PROVE  FALSE
      <3> DEFINE new == [status |-> "QUEUED", project |-> Server, phase |-> ""]
      <3>1. ops[q] = None /\ ops' = [ops EXCEPT ![q] = new]
        BY <2>1 DEF AdmitConfiguration
      <3> HIDE DEF new
      <3> QED
        BY <1>1, <3>1 DEF TypeOK
    <2>2. ASSUME NEW q \in Ops, NEW ph \in Compensations \cup {"STATE_RESTORED"},
                 ops' = [ops EXCEPT ![q].phase = ph]
          PROVE  FALSE
      <3> DEFINE new == [ops[q] EXCEPT !.phase = ph]
      <3>1. q = o => new.phase = ph
        BY <1>2 DEF Operation
      <3>2. ops' = [ops EXCEPT ![q] = new]
        BY <2>2
      <3> HIDE DEF new
      <3> QED
        BY <1>1, <3>1, <3>2 DEF TypeOK, Compensations
    <2>3. ASSUME NEW q \in Ops, NEW x, UpdateOperation(q, x) PROVE FALSE
      <3> DEFINE new == [ops[q] EXCEPT !.status = x]
      <3>1. q = o => new.phase = ops[o].phase
        BY <1>2 DEF Operation
      <3>2. ops' = [ops EXCEPT ![q] = new]
        BY <2>3 DEF UpdateOperation
      <3> HIDE DEF new
      <3> QED
        BY <1>1, <3>1, <3>2 DEF TypeOK
    <2>4. ASSUME NEW w \in Workers, NEW q \in Ops, NEW f, worker[w].op = q, worker[w].pc = "good",
                 MarkConfigurationGoodOwned(Server, q, f)
          PROVE  worker[w].op = o
      <3> DEFINE new == [ops[q] EXCEPT !.phase = "COMMITTED"]
      <3>1. ops' = [ops EXCEPT ![q] = new]
        BY <2>4 DEF MarkConfigurationGoodOwned
      <3> HIDE DEF new
      <3> QED
        BY <1>1, <2>4, <3>1 DEF TypeOK
    <2>5. ASSUME ops' = ops PROVE FALSE
      BY <2>5
    <2>6. ASSUME NEW q \in Ops, NEW f, RestoreConfigurationStateOwned(Server, q, f) PROVE FALSE
      BY <2>2, <2>6 DEF RestoreConfigurationStateOwned
    <2>7. ASSUME NEW q \in Ops, NEW ph \in Compensations, SetOperationCompensation(q, ph) PROVE FALSE
      BY <2>2, <2>7 DEF SetOperationCompensation
    <2> QED
      BY <1>1, <2>1, <2>3, <2>4, <2>5, <2>6, <2>7
         DEF RotStore, storeVars, ExpireLease, ReleaseConfigurationLeaseOwned,
             AcquireConfigurationLeaseForOperation, PublishConfigurationSecret
  <1>4. secret[Server] = o
    BY <1>3 DEF PublishedStays
  <1>5. meta.kept[o] = "ok"
    BY <1>3, ProcessInvFacts DEF Answered, Passed
  <1> QED
    BY <1>4, <1>5 DEF KeptRuns

\* As long as nobody gives the revision of a rotation up or publishes another
\* password under it, the Manager commits the rotation only when its password
\* is the stored secret, the password of the database roles, the one in the
\* selected runtime files and the one the containers run with, whatever was
\* lost, repeated, restarted or replayed on the way.  Since a behaviour may stop
\* after any step, only what comes before the commit matters.
THEOREM UndisturbedCommitIsLive ==
  ASSUME NEW o \in Ops
  PROVE  RotSpec /\ []Undisturbed(o) => [][CommitIsLive(o)]_rotVars
  <1> DEFINE LiveInv == ProcessInv /\ KeptRuns(o) /\ PublishedStays(o)
  <1>1. RotInit => LiveInv
    <2> SUFFICES ASSUME RotInit PROVE LiveInv
      OBVIOUS
    <2>1. meta.kept[o] = None /\ \A w \in Workers : worker[w].pc = "idle"
      BY IdleType DEF RotInit
    <2> QED
      BY <2>1, InitProcess, ServerFacts DEF KeptRuns, PublishedStays, Kept
  <1>2. LiveInv /\ [RotNext]_rotVars /\ Undisturbed(o) /\ Undisturbed(o)' => LiveInv'
    BY ProcessStep, KeptRunsStep, PublishedStaysStep
  <1>3. LiveInv /\ [RotNext]_rotVars => CommitIsLive(o)
    BY CommitStep
  <1> HIDE DEF LiveInv
  <1>4. LiveInv /\ [RotNext]_rotVars => [CommitIsLive(o)]_rotVars
    BY <1>3
  <1> QED
    BY <1>1, <1>2, <1>4, PTL DEF RotSpec

-----------------------------------------------------------------------------
(* What is reported as rolled back has been put back, when nothing was       *)
(* rotated before and the goroutine of the request drives the rotation.      *)

\* No other operation was admitted, and no goroutine was resumed for o.
FirstAlone(o) ==
    /\ \A q \in Ops \ {o} : ops[q] = None
    /\ \A w \in Workers : worker[w].op = o => worker[w].resumed = FALSE

\* The runtime has the password the server was installed with, in all places.
Whole == dbpw = Old /\ env = Old /\ running = Old

Unbegun(o) ==
    /\ Whole /\ secret[Server] = Old
    /\ calls = {} /\ exec = None
    /\ meta.journal = None /\ meta.kept[o] = None /\ o \notin meta.rolledBack

Anchored == meta.journal # None => meta.journal.anchor = Old

OnlyConfirms ==
    /\ \A c \in calls : c.kind = "confirm"
    /\ exec # None => exec.kind = "confirm"

\* The one request of the rotation is on its way.
OnTheWay(o) ==
    /\ Anchored /\ o \notin meta.rolledBack
    /\ \A c \in calls : c.kind = "rotate" /\ c.live /\ c.old = Old
    /\ exec # None => /\ exec.kind = "rotate" /\ exec.live /\ exec.old = Old /\ exec.previous = Old
                      /\ exec.pc # "start" => exec.anchor = Old
                      /\ exec.pc = "stage" => Whole
                      /\ exec.pc = "alter" => dbpw = Old /\ running = Old
    /\ exec = None \/ exec.pc = "start" => Whole /\ meta.kept[o] = None

\* The one request of the rollback is on its way.
OnTheWayBack(o) ==
    /\ Anchored /\ o \notin meta.rolledBack
    /\ \A c \in calls : c.kind # "confirm" => c.kind = "rollback" /\ c.live /\ c.new = Old
    /\ exec # None /\ exec.kind # "confirm" =>
          /\ exec.kind = "rollback" /\ exec.live /\ exec.new = Old
          /\ exec.pc # "start" => env = Old
          /\ exec.pc = "recreate" => dbpw = Old

EarlySteps == {"start", "recover", "prepare", "reconcile"}
BeforeRestore == EarlySteps \cup Passed \cup {"rotating", "compensate", "rolling", "restore"}

\* A goroutine that has no answer yet; one that was not resumed.
Silent(r) == r.reply = ""
Plain(r) == r.step = "" /\ r.recovery = ""
Unanswered(w) == Silent(worker[w])
Fresh(w) == Plain(worker[w])

\* What the goroutine that drives the first rotation can rely on at its steps.
Steady(o, w) ==
    /\ Fresh(w)
    /\ worker[w].pc \in BeforeRestore => ops[o].phase # "STATE_RESTORED"
    /\ worker[w].pc \in EarlySteps => worker[w].back = FALSE /\ Unbegun(o)
    /\ worker[w].pc = "rotating" =>
          /\ worker[w].old = Old
          /\ Unanswered(w) => OnTheWay(o)
          /\ worker[w].reply = "ok" => OnlyConfirms /\ Anchored /\ o \notin meta.rolledBack
          /\ worker[w].reply = "undone" => OnlyConfirms /\ Whole
    /\ worker[w].pc \in Passed \cup {"compensate"} =>
          worker[w].old = Old /\ OnlyConfirms /\ Anchored /\ o \notin meta.rolledBack
    /\ worker[w].pc = "rolling" =>
          /\ Unanswered(w) => OnTheWayBack(o)
          /\ worker[w].reply = "ok" => OnlyConfirms /\ Whole
    /\ worker[w].pc \in {"restore", "fail", "begin", "complete"} /\ worker[w].back = TRUE =>
          /\ OnlyConfirms /\ Whole
          /\ worker[w].pc # "restore" => secret[Server] = Old
    /\ worker[w].pc \in {"begin", "complete"} => worker[w].back = TRUE

FirstSnapshots ==
    \A r \in Revisions : rows[Server][r] # None =>
       rows[Server][r].secrets = Old \/ (r = 1 /\ rows[Server][r].secrets = None)

FirstDrive(o) ==
    /\ FirstSnapshots
    /\ ops[o] = None => Unbegun(o) /\ \A w \in Workers : worker[w].pc = "idle"
    /\ \A w \in Workers : worker[w].pc # "idle" =>
          Steady(o, w) /\ \A v \in Workers \ {w} : worker[v].pc = "idle"

\* Everything there is belongs to o.
LEMMA FirstFacts ==
  ASSUME ProcessInv, NEW o \in Ops, FirstAlone(o)
  PROVE  /\ \A q \in Ops : payload[q] # None => q = o /\ ops[o] # None
         /\ \A w \in Workers : worker[w].pc # "idle" => worker[w].op = o /\ ops[o] # None
         /\ exec # None => exec.op = o /\ ops[o] # None
         /\ \A c \in calls : c.op = o /\ ops[o] # None
         /\ o # Old /\ Rev(o) = payload[o].rev
         /\ ops[o] # None => ops[o] \in Operation
  <1>1. \A q \in Ops : payload[q] # None => q = o /\ ops[o] # None
    BY ProcessInvFacts DEF Inv, Safe, CommandHasOperation, FirstAlone
  <1>2. \A w \in Workers : worker[w].pc # "idle" => worker[w].op = o /\ ops[o] # None
    <2> SUFFICES ASSUME NEW w \in Workers, worker[w].pc # "idle"
                 PROVE  worker[w].op = o /\ ops[o] # None
      OBVIOUS
    <2>1. Memory
      BY ProcessInvFacts
    <2>2. worker[w].op \in Ops /\ payload[worker[w].op] # None
      BY <2>1, Zenon DEF Memory
    <2> QED
      BY <1>1, <2>2
  <1>3. exec # None => exec.op = o /\ ops[o] # None
    BY <1>1, ProcessInvFacts, ExecFacts
  <1>4. \A c \in calls : c.op = o /\ ops[o] # None
    <2> SUFFICES ASSUME NEW c \in calls PROVE c.op = o /\ ops[o] # None
      OBVIOUS
    <2>1. Memory /\ c.op \in Ops
      BY ProcessInvFacts, RequestFacts
    <2>2. RequestOK(c)
      BY <2>1, Zenon DEF Memory
    <2> QED
      BY <1>1, <2>1, <2>2 DEF RequestOK
  <1>5. o # Old /\ Rev(o) = payload[o].rev /\ (ops[o] # None => ops[o] \in Operation)
    BY ServerFacts, ProcessInvFacts DEF Rev, TypeOK
  <1> QED
    BY <1>1, <1>2, <1>3, <1>4, <1>5

LEMMA PhaseNames == {"STATE_RESTORED", "COMMITTED"} \cup Compensations \subseteq Phases
  BY Zenon DEF Compensations, Phases

\* What the writes of an operation's status and phase change.
LEMMA StatusWritten ==
  ASSUME TypeOK, NEW o \in Ops, NEW x \in Statuses, UpdateOperation(o, x)
  PROVE  /\ ops'[o] # None /\ ops'[o].status = x /\ ops'[o].phase = ops[o].phase
         /\ \A q \in Ops \ {o} : ops'[q] = ops[q]
         /\ ops[o] # None /\ UNCHANGED <<rows, secret>>
  <1> DEFINE new == [ops[o] EXCEPT !.status = x]
  <1>1. ops[o] \in Operation /\ ops' = [ops EXCEPT ![o] = new]
    BY DEF UpdateOperation, TypeOK
  <1>2. new # None /\ new.status = x /\ new.phase = ops[o].phase
    <2>1. new \in Operation
      BY <1>1 DEF Operation
    <2> QED
      BY <1>1, <2>1, NoneFacts DEF Operation
  <1> HIDE DEF new
  <1> QED
    BY <1>1, <1>2 DEF TypeOK, UpdateOperation, projectVars

LEMMA PhaseWritten ==
  ASSUME TypeOK, NEW o \in Ops, NEW ph \in Phases, ops[o] # None, ops' = [ops EXCEPT ![o].phase = ph]
  PROVE  /\ ops'[o] # None /\ ops'[o].phase = ph /\ ops'[o].status = ops[o].status
         /\ \A q \in Ops \ {o} : ops'[q] = ops[q]
  <1> DEFINE new == [ops[o] EXCEPT !.phase = ph]
  <1>1. ops[o] \in Operation /\ ops' = [ops EXCEPT ![o] = new]
    BY DEF TypeOK
  <1>2. new # None /\ new.phase = ph /\ new.status = ops[o].status
    <2>1. new \in Operation
      BY <1>1 DEF Operation
    <2> QED
      BY <1>1, <2>1, NoneFacts DEF Operation
  <1> HIDE DEF new
  <1> QED
    BY <1>1, <1>2 DEF TypeOK

\* The only snapshot that is made is made before anything is rotated.
LEMMA FirstStore ==
  ASSUME ProcessInv, [RotStore]_storeVars, NEW o \in Ops, FirstAlone(o), FirstAlone(o)', FirstDrive(o)
  PROVE  FirstSnapshots' /\ (ops[o] # None => ops'[o] # None)
  <1>0. Server \in Projects /\ TypeOK
    BY ServerFacts, ProcessInvFacts
  <1>1. CASE rows' = rows /\ (ops[o] # None => ops'[o] # None)
    BY <1>1 DEF FirstDrive, FirstSnapshots
  <1>2. ASSUME NEW q \in Ops, NEW e \in Revisions,
               AdmitConfiguration(Server, q, e, canonical[Server], None)
        PROVE  FirstSnapshots' /\ (ops[o] # None => ops'[o] # None)
    <2> DEFINE next == rev[Server] + 1
               row == [config |-> canonical[Server], secrets |-> secret[Server]]
               new == [status |-> "QUEUED", project |-> Server, phase |-> ""]
    <2>1. /\ ops[q] = None /\ ops' = [ops EXCEPT ![q] = new]
          /\ rows' = [rows EXCEPT ![Server][next] = row]
      <3>1. ops[q] = None
        BY <1>2, Zenon DEF AdmitConfiguration
      <3>2. ops' = [ops EXCEPT ![q] = new]
        BY <1>2, Zenon DEF AdmitConfiguration
      <3>3. rows' = [rows EXCEPT ![Server][next] = row]
        BY <1>2, Zenon DEF AdmitConfiguration
      <3> QED
        BY <3>1, <3>2, <3>3, Zenon
    <2>2. row.secrets = secret[Server]
      OBVIOUS
    <2>3. new \in Operation
      BY ServerFacts DEF Operation, Statuses, Active, Phases
    <2> HIDE DEF row, new, next
    <2>4. q = o /\ secret[Server] = Old
      <3>1. ops'[q] = new /\ new # None
        BY <1>0, <2>1, <2>3, NoneFacts DEF TypeOK
      <3> QED
        BY <2>1, <3>1 DEF FirstAlone, FirstDrive, Unbegun
    <2> QED
      BY <1>0, <2>1, <2>2, <2>3, <2>4, NoneFacts DEF FirstDrive, FirstSnapshots, TypeOK
  <1>3. ASSUME NEW q \in Ops, NEW f \in Fences, RestoreConfigurationStateOwned(Server, q, f)
        PROVE  FirstSnapshots' /\ (ops[o] # None => ops'[o] # None)
    <2>1. rows' = [rows EXCEPT ![Server][rev[Server]] = None]
          /\ ops' = [ops EXCEPT ![q].phase = "STATE_RESTORED"] /\ ops[q] # None
      BY <1>3, ProcessInvFacts
         DEF RestoreConfigurationStateOwned, OwnsCandidate, Inv, Safe, CommandHasOperation
    <2>2. ops[o] # None => ops'[o] # None
      BY <1>0, <2>1, PhaseNames, PhaseWritten
    <2> QED
      BY <1>0, <2>1, <2>2 DEF FirstDrive, FirstSnapshots, TypeOK
  <1>4. ASSUME NEW q \in Ops, NEW f, MarkConfigurationGoodOwned(Server, q, f)
        PROVE  rows' = rows /\ (ops[o] # None => ops'[o] # None)
    <2>1. rows' = rows /\ ops' = [ops EXCEPT ![q].phase = "COMMITTED"] /\ ops[q] # None
      BY <1>4, ProcessInvFacts
         DEF MarkConfigurationGoodOwned, OwnsCandidate, Inv, Safe, CommandHasOperation
    <2> QED
      BY <1>0, <2>1, PhaseNames, PhaseWritten
  <1>5. ASSUME NEW q \in Ops, NEW x \in Statuses, UpdateOperation(q, x)
        PROVE  rows' = rows /\ (ops[o] # None => ops'[o] # None)
    BY <1>0, <1>5, StatusWritten
  <1>6. ASSUME NEW q \in Ops, NEW x \in Compensations, SetOperationCompensation(q, x)
        PROVE  rows' = rows /\ (ops[o] # None => ops'[o] # None)
    <2>1. rows' = rows /\ ops' = [ops EXCEPT ![q].phase = x] /\ ops[q] # None
      BY <1>6 DEF SetOperationCompensation, projectVars
    <2> QED
      BY <1>0, <2>1, PhaseNames, PhaseWritten
  <1>7. StatusWrites \subseteq Statuses
    BY ConstantsAssumption
  <1> QED
    BY <1>1, <1>2, <1>3, <1>4, <1>5, <1>6, <1>7
       DEF RotStore, storeVars, projectVars, ExpireLease, ReleaseConfigurationLeaseOwned,
           AcquireConfigurationLeaseForOperation, PublishConfigurationSecret

LEMMA ReplyFacts ==
  ASSUME NEW r, NEW s, NEW outcome \in Outcomes, Replies(r, s, outcome)
  PROVE  ~Silent(s) /\ (Plain(r) => Plain(s))
  <1>1. s.reply \in Outcomes /\ s.step = r.step /\ s.recovery = r.recovery
    BY DEF Replies
  <1>2. "" \notin Outcomes
    BY DEF Outcomes
  <1>3. s.reply # ""
    BY <1>1, <1>2, Zenon
  <1>4. ~Silent(s)
    BY <1>3, Zenon DEF Silent
  <1>5. Plain(r) => Plain(s)
    BY <1>1, Zenon DEF Plain
  <1> QED
    BY <1>4, <1>5

LEMMA MoveFacts ==
  ASSUME NEW r, NEW s, NEW pc, NEW back, Moved(r, s, pc, back)
  PROVE  /\ Silent(s) /\ (Plain(r) => Plain(s))
         /\ s.pc = pc /\ s.back = back /\ s.old = r.old
  <1>1. Silent(s)
    BY Zenon DEF Moved, Silent
  <1>2. s.step = r.step /\ s.recovery = r.recovery
    BY Zenon DEF Moved
  <1>3. Plain(r) => Plain(s)
    BY <1>2, Zenon DEF Plain
  <1>4. s.pc = pc /\ s.back = back /\ s.old = r.old
    BY Zenon DEF Moved
  <1> QED
    BY <1>1, <1>3, <1>4

LEMMA SilentFacts ==
  /\ \A r : Silent(r) => r.reply \notin Outcomes
  /\ Silent(Idle) /\ Plain(Idle)
  <1>1. "" \notin Outcomes
    BY DEF Outcomes
  <1>2. ASSUME NEW r, Silent(r) PROVE r.reply \notin Outcomes
    BY <1>1, <1>2, Zenon DEF Silent
  <1>4. Idle.reply = ""
    BY Zenon DEF Idle
  <1>5. Idle.step = ""
    BY Zenon DEF Idle
  <1>6. Idle.recovery = ""
    BY Zenon DEF Idle
  <1>7. Silent(Idle)
    BY <1>4, Zenon DEF Silent
  <1>8. Plain(Idle)
    BY <1>5, <1>6, Zenon DEF Plain
  <1> QED
    BY <1>2, <1>7, <1>8

LEMMA PlainKept ==
  ASSUME NEW r, NEW s, s.step = r.step, s.recovery = r.recovery, Plain(r)
  PROVE  Plain(s)
  BY Zenon DEF Plain

LEMMA IdlePc == Idle.pc = "idle" /\ ~(Idle.reply = "unknown")
  BY Zenon DEF Idle

LEMMA MemoryFacts ==
  ASSUME NEW w
  PROVE  /\ worker'[w] = worker[w] => (Unanswered(w)' <=> Unanswered(w)) /\ (Fresh(w)' <=> Fresh(w))
         /\ \A outcome \in Outcomes : Replies(worker[w], worker'[w], outcome) =>
               ~Unanswered(w)' /\ (Fresh(w) => Fresh(w)')
         /\ \A pc, back : Moved(worker[w], worker'[w], pc, back) =>
               /\ Unanswered(w)' /\ (Fresh(w) => Fresh(w)')
               /\ worker'[w].pc = pc /\ worker'[w].back = back /\ worker'[w].old = worker[w].old
         /\ Unanswered(w) => worker[w].reply \notin Outcomes
  <1>1. worker'[w] = worker[w] => (Unanswered(w)' <=> Unanswered(w)) /\ (Fresh(w)' <=> Fresh(w))
    BY DEF Unanswered, Fresh
  <1>2. ASSUME NEW outcome \in Outcomes, Replies(worker[w], worker'[w], outcome)
        PROVE  ~Unanswered(w)' /\ (Fresh(w) => Fresh(w)')
    BY <1>2, ReplyFacts DEF Unanswered, Fresh
  <1>3. ASSUME NEW pc, NEW back, Moved(worker[w], worker'[w], pc, back)
        PROVE  /\ Unanswered(w)' /\ (Fresh(w) => Fresh(w)')
               /\ worker'[w].pc = pc /\ worker'[w].back = back /\ worker'[w].old = worker[w].old
    BY <1>3, MoveFacts DEF Unanswered, Fresh
  <1>4. Unanswered(w) => worker[w].reply \notin Outcomes
    BY SilentFacts DEF Unanswered
  <1> QED
    BY <1>1, <1>2, <1>3, <1>4

LEMMA AwaitedFacts ==
  ASSUME NEW c, AwaitedBy(c)
  PROVE  worker[c.by].pc = Waits(c.kind) /\ Unanswered(c.by)
  <1>1. worker[c.by].pc = Waits(c.kind)
    BY Zenon DEF AwaitedBy
  <1>2. worker[c.by].reply = ""
    BY Zenon DEF AwaitedBy
  <1>3. Unanswered(c.by)
    BY <1>2, Zenon DEF Unanswered, Silent
  <1> QED
    BY <1>1, <1>3

\* The goroutine that drives the rotation is the one a live request belongs to.
LEMMA DriverFacts ==
  ASSUME ProcessInv, NEW o \in Ops, FirstAlone(o), FirstDrive(o)
  PROVE  /\ exec # None /\ exec.live =>
               /\ exec.by \in Workers /\ worker[exec.by].pc = Waits(exec.kind)
               /\ worker[exec.by].pc # "idle" /\ Unanswered(exec.by)
               /\ \A c \in calls : ~c.live
               /\ \A v \in Workers \ {exec.by} : worker[v].pc = "idle"
         /\ \A c \in calls : c.live =>
               /\ c.by \in Workers /\ worker[c.by].pc = Waits(c.kind)
               /\ worker[c.by].pc # "idle" /\ Unanswered(c.by)
               /\ \A v \in Workers \ {c.by} : worker[v].pc = "idle"
  <1>1. \A kind \in CallKinds : Waits(kind) # "idle"
    BY DEF CallKinds, Waits
  <1>2. \A c \in calls : c.live =>
               /\ c.by \in Workers /\ worker[c.by].pc = Waits(c.kind)
               /\ worker[c.by].pc # "idle" /\ Unanswered(c.by)
               /\ \A v \in Workers \ {c.by} : worker[v].pc = "idle"
    BY <1>1, ProcessInvFacts, RequestFacts, AwaitedFacts DEF Awaited, FirstDrive
  <1>3. exec # None /\ exec.live =>
               /\ exec.by \in Workers /\ worker[exec.by].pc = Waits(exec.kind)
               /\ worker[exec.by].pc # "idle" /\ Unanswered(exec.by)
               /\ \A v \in Workers \ {exec.by} : worker[v].pc = "idle"
    BY <1>1, ProcessInvFacts, ExecFacts, AwaitedFacts DEF Awaited, FirstDrive
  <1>4. exec # None /\ exec.live => \A c \in calls : ~c.live
    BY <1>2, <1>3, ProcessInvFacts DEF Awaited
  <1> QED
    BY <1>2, <1>3, <1>4

\* Steps that leave the tables alone: it is enough to look at the goroutine
\* that drives the rotation.
LEMMA DriveKept ==
  ASSUME NEW o \in Ops, FirstDrive(o), UNCHANGED <<rows, ops, secret>>,
         \A v \in Workers : worker[v].pc = "idle" => worker'[v].pc = "idle",
         ops[o] = None => Unbegun(o)',
         \A w \in Workers : worker'[w].pc # "idle" /\ Steady(o, w) => Steady(o, w)'
  PROVE  FirstDrive(o)'
  <1>1. FirstSnapshots'
    BY DEF FirstDrive, FirstSnapshots
  <1>2. ops'[o] = None => Unbegun(o)' /\ \A w \in Workers : worker'[w].pc = "idle"
    BY DEF FirstDrive
  <1>3. ASSUME NEW w \in Workers, worker'[w].pc # "idle"
        PROVE  Steady(o, w)' /\ \A v \in Workers \ {w} : worker'[v].pc = "idle"
    <2>1. worker[w].pc # "idle"
      BY <1>3
    <2>2. Steady(o, w) /\ \A v \in Workers \ {w} : worker[v].pc = "idle"
      BY <2>1 DEF FirstDrive
    <2> QED
      BY <1>3, <2>2
  <1> QED
    BY <1>1, <1>2, <1>3 DEF FirstDrive

\* What a goroutine relies on when neither it nor the tables move.
LEMMA SteadyRests ==
  ASSUME NEW o \in Ops, NEW w \in Workers, Steady(o, w), UNCHANGED <<ops, secret>>,
         worker'[w] = worker[w],
         Unbegun(o) => Unbegun(o)',
         worker[w].pc = "rotating" /\ Unanswered(w) /\ OnTheWay(o) => OnTheWay(o)',
         worker[w].pc = "rolling" /\ Unanswered(w) /\ OnTheWayBack(o) => OnTheWayBack(o)',
         OnlyConfirms => OnlyConfirms' /\ (Whole => Whole') /\ (Anchored => Anchored')
                         /\ (o \notin meta.rolledBack => o \notin meta'.rolledBack)
  PROVE  Steady(o, w)'
  BY MemoryFacts DEF Steady

\* An answer reaches the goroutine.
LEMMA SteadyAnswered ==
  ASSUME NEW o \in Ops, NEW w \in Workers, Steady(o, w), UNCHANGED <<ops, secret>>,
         NEW outcome \in Outcomes, Replies(worker[w], worker'[w], outcome),
         worker[w].pc \in Waiting,
         worker[w].pc = "rotating" /\ outcome = "ok" =>
            OnlyConfirms' /\ Anchored' /\ o \notin meta'.rolledBack,
         worker[w].pc = "rotating" /\ outcome = "undone" => OnlyConfirms' /\ Whole',
         worker[w].pc = "rolling" /\ outcome = "ok" => OnlyConfirms' /\ Whole',
         worker[w].pc = "confirming" =>
            OnlyConfirms' /\ (Anchored => Anchored')
            /\ (o \notin meta.rolledBack => o \notin meta'.rolledBack)
  PROVE  Steady(o, w)'
  <1>1. ~Unanswered(w)' /\ (Fresh(w) => Fresh(w)')
    BY MemoryFacts
  <1>2. worker'[w].pc \notin EarlySteps \cup {"restore", "fail", "begin", "complete", "compensate"}
    BY DEF Replies, Waiting, EarlySteps
  <1> QED
    BY <1>1, <1>2 DEF Steady, Replies, Waiting, Passed, EarlySteps, BeforeRestore

\* What the step of the first rotation leaves: the next one, or a true answer.
LEMMA FirstRotates ==
  ASSUME ProcessInv, NEW o \in Ops, FirstAlone(o), OnTheWay(o), exec # None,
         calls' = calls,
         \/ RotatePrepare \/ RotateStage \/ RotateAlter \/ RotateRecreate \/ RotateVerify \/ RotateCommit
  PROVE  \/ worker' = worker /\ OnTheWay(o)'
         \/ \E outcome \in Outcomes :
               /\ Finish(outcome)
               /\ outcome = "ok" => Anchored' /\ o \notin meta'.rolledBack
               /\ outcome = "undone" => Whole'
  <1> DEFINE Goal == \/ worker' = worker /\ OnTheWay(o)'
                     \/ \E outcome \in Outcomes :
                           /\ Finish(outcome)
                           /\ outcome = "ok" => Anchored' /\ o \notin meta'.rolledBack
                           /\ outcome = "undone" => Whole'
  <1>1. /\ exec \in Execution /\ exec.op = o /\ exec.live /\ exec.kind = "rotate"
        /\ exec.old = Old /\ exec.previous = Old
        /\ Anchored /\ o \notin meta.rolledBack /\ meta \in Metadata
        /\ \A c \in calls : c.kind = "rotate" /\ c.live /\ c.old = Old
    BY FirstFacts, ExecFacts, MetaFacts, ProcessInvFacts DEF OnTheWay
  <1>2. {"ok", "rejected", "unknown", "unchanged", "undone", "broken"} \subseteq Outcomes
        /\ {"unchanged", "undone", "broken"} \subseteq Kept
        /\ {"runtime-published", "db-rotated", "provisioner-committed"} \subseteq JournalPhases
    BY DEF Outcomes, Kept, JournalPhases
  <1>3. exec.pc # "start" => meta.journal # None /\ meta.journal.op = o /\ exec.anchor = Old
    BY <1>1, ProcessInvFacts DEF Rotating, OnTheWay
  <1>0. \A x \in Execution : x # None
    BY ServerFacts
  <1>4. ASSUME NEW outcome \in Outcomes \ {"ok", "undone"}, Finish(outcome)
        PROVE  Goal
    BY <1>4
  <1>5. ASSUME NEW phase \in JournalPhases, Phase(phase), meta.journal # None
        PROVE  Anchored' /\ o \notin meta'.rolledBack
    <2>1. meta'.journal.anchor = meta.journal.anchor
      BY <1>5, ProcessInvFacts, PhaseType
    <2>2. meta'.rolledBack = meta.rolledBack
      BY <1>1, <1>5 DEF Phase, Metadata
    <2> QED
      BY <1>1, <1>5, <2>1, <2>2 DEF Anchored
  <1>6. ASSUME NEW pc \in {"alter", "recreate", "verify", "commit"}, exec.pc # "start",
               \/ exec' = [exec EXCEPT !.pc = pc]
               \/ exec' = [exec EXCEPT !.pc = pc, !.previous = Old],
               worker' = worker, Anchored', o \notin meta'.rolledBack,
               pc = "alter" => dbpw' = Old /\ running' = Old
        PROVE  Goal
    <2>1. /\ exec'.kind = "rotate" /\ exec'.live /\ exec'.old = Old /\ exec'.previous = Old
          /\ exec'.anchor = Old /\ exec'.pc = pc /\ exec' \in Execution
      <3>1. CASE exec' = [exec EXCEPT !.pc = pc]
        BY <1>1, <1>3, <1>6, <3>1, ServerFacts DEF Execution, CallSteps
      <3>2. CASE exec' = [exec EXCEPT !.pc = pc, !.previous = Old]
        BY <1>1, <1>3, <1>6, <3>2, ServerFacts DEF Execution, CallSteps
      <3> QED
        BY <1>6, <3>1, <3>2
    <2>2. OnTheWay(o)'
      BY <1>1, <1>0, <1>6, <2>1 DEF OnTheWay
    <2> QED
      BY <1>6, <2>2
  <1>7. CASE RotatePrepare
    <2> DEFINE j == IF meta.journal # None /\ meta.journal.op = exec.op THEN meta.journal
                    ELSE [op |-> exec.op, phase |-> "prepared", anchor |-> env]
    <2>1. exec.pc = "start" /\ Whole /\ meta.kept[exec.op] = None /\ UNCHANGED <<dbpw, env, running>>
      BY <1>1, <1>7 DEF RotatePrepare, Doing, runtimeVars, OnTheWay
    <2>2. j.anchor = Old
      BY <1>1, <2>1 DEF Anchored, Whole
    <2>3. CASE Finish("rejected")
      BY <1>2, <1>4, <2>3
    <2>4. CASE /\ meta' = [meta EXCEPT !.fence = exec.fence, !.journal = j]
               /\ exec' = [exec EXCEPT !.pc = "stage", !.anchor = j.anchor]
               /\ worker' = worker
      <3> HIDE DEF j
      <3>1. meta'.journal = j /\ meta'.rolledBack = meta.rolledBack
        BY <1>1, <2>4 DEF Metadata
      <3>2. /\ exec'.kind = "rotate" /\ exec'.live /\ exec'.old = Old /\ exec'.previous = Old
            /\ exec'.anchor = Old /\ exec'.pc = "stage" /\ exec' \in Execution
        BY <1>1, <2>2, <2>4, ServerFacts DEF Execution, CallSteps
      <3>3. Whole'
        BY <2>1 DEF Whole
      <3> QED
        BY <1>1, <1>0, <2>2, <2>4, <3>1, <3>2, <3>3 DEF OnTheWay, Anchored
    <2> QED
      BY <1>7, <2>1, <2>3, <2>4 DEF RotatePrepare
  <1>8. CASE RotateStage
    <2>1. exec.pc = "stage" /\ Whole /\ UNCHANGED <<dbpw, running>>
      BY <1>1, <1>8 DEF RotateStage, Doing, OnTheWay
    <2>2. CASE /\ Phase("runtime-published") /\ worker' = worker
               /\ exec' = [exec EXCEPT !.pc = "alter", !.previous = env]
      BY <1>2, <1>3, <1>5, <1>6, <2>1, <2>2 DEF Whole
    <2>3. CASE Finish("unchanged")
      BY <1>2, <1>4, <2>3
    <2>4. CASE Finish("undone") /\ env' = env
      BY <1>2, <2>1, <2>4 DEF Whole
    <2> QED
      BY <1>8, <2>2, <2>3, <2>4 DEF RotateStage
  <1>9. CASE RotateAlter
    <2>1. exec.pc = "alter" /\ dbpw = Old /\ running' = Old
      BY <1>1, <1>9 DEF RotateAlter, Doing, OnTheWay
    <2>2. CASE Phase("db-rotated") /\ Continue("recreate")
      BY <1>2, <1>3, <1>5, <1>6, <2>1, <2>2 DEF Continue
    <2>3. CASE Finish("broken")
      BY <1>2, <1>4, <2>3
    <2>4. CASE Finish("undone") /\ dbpw' = exec.old /\ env' = exec.previous
      BY <1>1, <1>2, <2>1, <2>4 DEF Whole
    <2> QED
      BY <1>9, <2>2, <2>3, <2>4 DEF RotateAlter
  <1>10. ASSUME RotateUndo, exec.pc # "start" PROVE Goal
    <2>1. CASE Finish("broken")
      BY <1>2, <1>4, <2>1
    <2>2. CASE Finish("undone") /\ Undo(exec.live) /\ exec.live
      <3>1. Undo(TRUE)
        BY <2>2
      <3>2. Whole'
        BY <1>1, <1>3, <1>10, <3>1 DEF Undo, Whole
      <3> QED
        BY <1>2, <2>2, <3>2
    <2> QED
      BY <1>10, <2>1, <2>2 DEF RotateUndo
  <1>11. CASE RotateRecreate
    <2>1. exec.pc = "recreate"
      BY <1>11 DEF RotateRecreate, Doing
    <2>2. CASE Continue("verify") /\ meta' = meta
      BY <1>1, <1>6, <2>1, <2>2 DEF Continue, Anchored
    <2> QED
      BY <1>10, <1>11, <2>1, <2>2 DEF RotateRecreate
  <1>12. CASE RotateVerify
    <2>1. exec.pc = "verify"
      BY <1>12 DEF RotateVerify, Doing
    <2>2. CASE Phase("provisioner-committed") /\ Continue("commit")
      BY <1>2, <1>3, <1>5, <1>6, <2>1, <2>2 DEF Continue
    <2>3. CASE Finish("broken")
      BY <1>2, <1>4, <2>3
    <2> QED
      BY <1>10, <1>12, <2>1, <2>2, <2>3 DEF RotateVerify
  <1>13. CASE RotateCommit
    <2>1. CASE /\ meta' = [meta EXCEPT !.rev = Rev(exec.op), !.kept[exec.op] = "ok"]
               /\ Finish("ok")
      <3>1. meta'.journal = meta.journal /\ meta'.rolledBack = meta.rolledBack
        BY <1>1, <2>1 DEF Metadata
      <3> QED
        BY <1>1, <1>2, <2>1, <3>1 DEF Anchored
    <2>2. CASE Finish("unknown")
      BY <1>2, <1>4, <2>2
    <2> QED
      BY <1>13, <2>1, <2>2 DEF RotateCommit
  <1> QED
    BY <1>7, <1>8, <1>9, <1>11, <1>12, <1>13

\* The same of the step of the first rotation's rollback.
LEMMA FirstRollsBack ==
  ASSUME ProcessInv, NEW o \in Ops, FirstAlone(o), OnTheWayBack(o), exec # None, exec.kind = "rollback",
         calls' = calls,
         RollbackStage \/ RollbackAlter \/ RollbackRecreate
  PROVE  \/ worker' = worker /\ OnTheWayBack(o)'
         \/ \E outcome \in Outcomes :
               /\ Finish(outcome)
               /\ outcome = "ok" => Whole'
  <1> DEFINE Goal == \/ worker' = worker /\ OnTheWayBack(o)'
                     \/ \E outcome \in Outcomes :
                           /\ Finish(outcome)
                           /\ outcome = "ok" => Whole'
  <1>1. /\ exec \in Execution /\ exec.op = o /\ exec.live /\ exec.new = Old
        /\ exec.pc # "start" => env = Old
        /\ exec.pc = "recreate" => dbpw = Old
        /\ Anchored /\ o \notin meta.rolledBack
        /\ \A c \in calls : c.kind # "confirm" => c.kind = "rollback" /\ c.live /\ c.new = Old
    BY FirstFacts, ExecFacts, ProcessInvFacts DEF OnTheWayBack
  <1>2. {"ok", "rejected", "unknown"} \subseteq Outcomes /\ \A x \in Execution : x # None
    BY ServerFacts DEF Outcomes
  <1>3. ASSUME Finish("rejected") \/ Finish("unknown") PROVE Goal
    BY <1>2, <1>3
  <1>4. ASSUME NEW pc \in {"alter", "recreate"}, Continue(pc), meta' = meta,
               env' = Old, pc = "recreate" => dbpw' = Old
        PROVE  Goal
    <2>1. /\ exec'.kind = "rollback" /\ exec'.live /\ exec'.new = Old /\ exec'.pc = pc
      BY <1>1, <1>4 DEF Continue, Execution
    <2>2. OnTheWayBack(o)'
      BY <1>1, <1>4, <2>1 DEF OnTheWayBack, Anchored
    <2> QED
      BY <1>4, <2>2 DEF Continue
  <1>5. CASE RollbackStage
    <2>1. CASE Continue("alter") /\ env' = IF meta.journal # None THEN meta.journal.anchor ELSE exec.new
      <3>1. env' = Old /\ meta' = meta
        BY <1>1, <1>5, <2>1 DEF RollbackStage, Anchored
      <3> QED
        BY <1>4, <2>1, <3>1
    <2> QED
      BY <1>1, <1>3, <1>5, <2>1 DEF RollbackStage
  <1>6. CASE RollbackAlter
    <2>1. exec.pc = "alter" /\ meta' = meta /\ env' = env
      BY <1>6 DEF RollbackAlter, Doing
    <2> QED
      BY <1>1, <1>3, <1>4, <1>6, <2>1 DEF RollbackAlter
  <1>7. CASE RollbackRecreate
    <2>1. exec.pc = "recreate" /\ dbpw' = dbpw /\ env' = env
      BY <1>7 DEF RollbackRecreate, Doing
    <2>2. CASE running' = env /\ Finish("ok")
      BY <1>1, <1>2, <2>1, <2>2 DEF Whole
    <2> QED
      BY <1>3, <1>7, <2>2 DEF RollbackRecreate
  <1> QED
    BY <1>5, <1>6, <1>7

LEMMA FirstConfirms ==
  ASSUME ProcessInv, Confirm
  PROVE  /\ exec.kind = "confirm" /\ UNCHANGED <<dbpw, env, running, calls>> /\ exec' = None
         /\ (Anchored => Anchored') /\ meta'.rolledBack = meta.rolledBack
         /\ \E outcome \in Outcomes : Finish(outcome)
  <1>1. /\ exec.kind = "confirm" /\ UNCHANGED <<dbpw, env, running, calls>>
        /\ Finish("ok") \/ Finish("rejected")
        /\ meta' = meta \/ meta' = [meta EXCEPT !.journal = None]
    BY DEF Confirm, Doing, runtimeVars
  <1>2. meta'.rolledBack = meta.rolledBack /\ (meta'.journal = meta.journal \/ meta'.journal = None)
    BY <1>1, ProcessInvFacts, MetaFacts DEF Metadata
  <1> QED
    BY <1>1, <1>2 DEF Finish, Outcomes, Anchored

LEMMA FirstProvision ==
  ASSUME ProcessInv, NEW o \in Ops, FirstAlone(o), FirstDrive(o), Provision, ProvisionMove
  PROVE  FirstDrive(o)'
  <1>1. /\ exec # None /\ exec \in Execution /\ calls' = calls /\ UNCHANGED storeVars
        /\ ops[o] # None
        /\ exec.kind \in CallKinds
    BY ProcessInvFacts, FirstFacts, ExecFacts DEF Provision, ProvisionMove
  <1>2. UNCHANGED <<rows, ops, secret>> /\ ~Unbegun(o)
    BY <1>1 DEF storeVars, Unbegun
  <1>3. \A v \in Workers : worker'[v] = worker[v]
                            \/ \E outcome \in Outcomes : Replies(worker[v], worker'[v], outcome)
    BY <1>1, ProcessInvFacts, FinishFacts DEF ProvisionMove, Continues
  <1>4. \A v \in Workers : worker[v].pc = "idle" => worker'[v].pc = "idle"
    BY <1>3 DEF Replies
  <1>5. /\ exec.kind = "rotate" =>
              RotatePrepare \/ RotateStage \/ RotateAlter \/ RotateRecreate \/ RotateVerify \/ RotateCommit
        /\ exec.kind = "rollback" => RollbackStage \/ RollbackAlter \/ RollbackRecreate
        /\ exec.kind = "confirm" => Confirm
    BY DEF Provision, Doing, RotatePrepare, RotateStage, RotateAlter, RotateRecreate, RotateVerify,
           RotateCommit, RollbackStage, RollbackAlter, RollbackRecreate, Confirm
  <1>6. ASSUME NEW w \in Workers, worker'[w].pc # "idle", Steady(o, w)
        PROVE  Steady(o, w)'
    <2>1. worker[w].pc # "idle"
      BY <1>4, <1>6
    <2>2. exec.live => exec.by = w /\ worker[w].pc = Waits(exec.kind) /\ Unanswered(w)
                       /\ \A c \in calls : ~c.live
      BY <1>1, <2>1, DriverFacts
    <2>3. ASSUME NEW outcome \in Outcomes, Finish(outcome), exec.live
          PROVE  Replies(worker[w], worker'[w], outcome) /\ exec' = None
      BY <1>1, <2>2, <2>3, ProcessInvFacts, FinishFacts DEF Finish
    <2>4. ASSUME NEW outcome \in Outcomes, Finish(outcome), ~exec.live
          PROVE  worker' = worker
      BY <2>4 DEF Finish
    <2>5. CASE exec.kind = "confirm"
      <3>1. /\ UNCHANGED <<dbpw, env, running>> /\ exec' = None
            /\ (Anchored => Anchored') /\ meta'.rolledBack = meta.rolledBack
        BY <1>5, <2>5, FirstConfirms
      <3>2. (OnlyConfirms => OnlyConfirms') /\ (Whole => Whole')
        BY <1>1, <3>1 DEF OnlyConfirms, Whole
      <3>3. PICK outcome \in Outcomes : Finish(outcome)
        BY <1>5, <2>5, FirstConfirms
      <3>4. CASE exec.live
        <4>1. worker[w].pc = "confirming" /\ Replies(worker[w], worker'[w], outcome)
          BY <2>2, <2>3, <2>5, <3>3, <3>4 DEF Waits
        <4>2. OnlyConfirms
          BY <1>6, <4>1 DEF Steady, Passed
        <4> QED
          BY <1>2, <1>6, <3>1, <3>2, <4>1, <4>2, SteadyAnswered DEF Waiting
      <3>5. CASE ~exec.live
        <4>1. ~OnTheWay(o)
          BY <1>1, <2>5 DEF OnTheWay
        <4>2. OnTheWayBack(o) => OnTheWayBack(o)'
          BY <1>1, <3>1 DEF OnTheWayBack
        <4> QED
          BY <1>2, <1>6, <2>4, <3>1, <3>2, <3>3, <3>5, <4>1, <4>2, SteadyRests
      <3> QED
        BY <3>4, <3>5
    <2>6. CASE exec.kind = "rotate"
      <3>1. ~OnlyConfirms /\ ~OnTheWayBack(o)
        BY <1>1, <2>6 DEF OnlyConfirms, OnTheWayBack
      <3>2. CASE worker[w].pc = "rotating" /\ Unanswered(w)
        <4>1. OnTheWay(o) /\ exec.live
          BY <1>1, <1>6, <3>2 DEF Steady, OnTheWay
        <4>2. CASE worker' = worker /\ OnTheWay(o)'
          BY <1>2, <1>6, <3>1, <4>2, SteadyRests
        <4>3. ASSUME NEW outcome \in Outcomes, Finish(outcome),
                     outcome = "ok" => Anchored' /\ o \notin meta'.rolledBack,
                     outcome = "undone" => Whole'
              PROVE  Steady(o, w)'
          <5>1. OnlyConfirms'
            BY <1>1, <2>2, <2>3, <4>1, <4>3 DEF OnTheWay, OnlyConfirms
          <5> QED
            BY <1>2, <1>6, <2>3, <3>2, <4>1, <4>3, <5>1, SteadyAnswered DEF Waiting
        <4> QED
          BY <1>1, <1>5, <2>6, <4>1, <4>2, <4>3, FirstRotates
      <3>3. CASE ~(worker[w].pc = "rotating" /\ Unanswered(w))
        <4>1. ~exec.live
          BY <2>2, <2>6, <3>3 DEF Waits
        <4>2. worker'[w] = worker[w]
          BY <1>1, <2>4, <4>1 DEF ProvisionMove, Continues
        <4> QED
          BY <1>2, <1>6, <3>1, <3>3, <4>2, SteadyRests
      <3> QED
        BY <3>2, <3>3
    <2>7. CASE exec.kind = "rollback"
      <3>1. ~OnlyConfirms /\ ~OnTheWay(o)
        BY <1>1, <2>7 DEF OnlyConfirms, OnTheWay
      <3>2. CASE worker[w].pc = "rolling" /\ Unanswered(w)
        <4>1. OnTheWayBack(o) /\ exec.live
          BY <1>1, <1>6, <2>7, <3>2 DEF Steady, OnTheWayBack
        <4>2. CASE worker' = worker /\ OnTheWayBack(o)'
          BY <1>2, <1>6, <3>1, <4>2, SteadyRests
        <4>3. ASSUME NEW outcome \in Outcomes, Finish(outcome), outcome = "ok" => Whole'
              PROVE  Steady(o, w)'
          <5>1. OnlyConfirms'
            BY <1>1, <2>2, <2>3, <4>1, <4>3 DEF OnTheWayBack, OnlyConfirms
          <5> QED
            BY <1>2, <1>6, <2>3, <3>2, <4>1, <4>3, <5>1, SteadyAnswered DEF Waiting
        <4> QED
          BY <1>1, <1>5, <2>7, <4>1, <4>2, <4>3, FirstRollsBack
      <3>3. CASE ~(worker[w].pc = "rolling" /\ Unanswered(w))
        <4>1. ~exec.live
          BY <2>2, <2>7, <3>3 DEF Waits
        <4>2. worker'[w] = worker[w]
          BY <1>1, <2>4, <4>1 DEF ProvisionMove, Continues
        <4> QED
          BY <1>2, <1>6, <3>1, <3>3, <4>2, SteadyRests
      <3> QED
        BY <3>2, <3>3
    <2> QED
      BY <1>1, <2>5, <2>6, <2>7 DEF CallKinds
  <1> QED
    BY <1>1, <1>2, <1>4, <1>6, DriveKept

\* A request gets the metadata lock.
LEMMA FirstBegin ==
  ASSUME ProcessInv, NEW o \in Ops, FirstAlone(o), FirstDrive(o), NEW c \in calls, Begin(c)
  PROVE  FirstDrive(o)'
  <1>1. /\ UNCHANGED <<storeVars, worker, meta, dbpw, env, running>>
        /\ exec = None /\ calls' = calls \ {c}
        /\ exec' = [by |-> c.by, kind |-> c.kind, op |-> c.op, fence |-> c.fence, old |-> c.old,
                    new |-> c.new, live |-> c.live, pc |-> "start", anchor |-> env, previous |-> env]
    BY DEF Begin, managerVars, runtimeVars
  <1>2. /\ exec'.kind = c.kind /\ exec'.old = c.old /\ exec'.new = c.new /\ exec'.live = c.live
        /\ exec'.pc = "start" /\ exec'.previous = env
    BY <1>1
  <1>3. UNCHANGED <<rows, ops, secret>> /\ ops[o] # None /\ ~Unbegun(o)
    BY <1>1, FirstFacts DEF storeVars, Unbegun
  <1>4. OnTheWay(o) => OnTheWay(o)'
    BY <1>1, <1>2 DEF OnTheWay, Anchored, Whole
  <1>5. OnTheWayBack(o) => OnTheWayBack(o)'
    BY <1>1, <1>2 DEF OnTheWayBack, Anchored
  <1>6. OnlyConfirms => OnlyConfirms' /\ (Whole => Whole') /\ (Anchored => Anchored')
    BY <1>1, <1>2 DEF OnlyConfirms, Anchored, Whole
  <1>7. \A w \in Workers : Steady(o, w) => Steady(o, w)'
    BY <1>1, <1>3, <1>4, <1>5, <1>6, SteadyRests
  <1> QED
    BY <1>1, <1>3, <1>7, DriveKept

\* A goroutine that no lost connection concerns: its requests stay.
Spared(v) ==
    /\ \A d \in calls' : d.by = v => d \in calls
    /\ exec # None /\ exec.live /\ exec.by = v => exec' = exec

Told(v) == worker'[v] = Idle \/ worker'[v].reply = "unknown"

\* Whose connection is lost is told so, or is gone itself.
LEMMA BreakTells ==
  ASSUME ProcessInv, NEW v \in Workers,
         (\E w \in Workers : Disconnect(w)) \/ RestartManager \/ RestartProvisioner
  PROVE  Told(v) \/ Spared(v)
  <1>1. ASSUME NEW w \in Workers, Disconnect(w) PROVE Told(v) \/ Spared(v)
    <2> DEFINE mine == {c \in calls : c.by = w /\ c.live}
               r == [worker[w] EXCEPT !.reply = "unknown"]
    <2>1. /\ worker' = [worker EXCEPT ![w] = r]
          /\ calls' \in {calls \ mine, (calls \ mine) \cup Orphans(mine)}
          /\ ~(exec # None /\ exec.by = w /\ exec.live) => exec' = exec
      BY <1>1 DEF Disconnect
    <2>2. worker[w] \in Goroutine /\ worker \in [Workers -> Goroutine]
      BY ProcessInvFacts DEF RotTypeOK
    <2>3. r.reply = "unknown"
      BY <2>2, ReplyType DEF Outcomes, Replies
    <2> HIDE DEF r
    <2>4. CASE v = w
      BY <2>1, <2>2, <2>3, <2>4 DEF Told
    <2>5. CASE v # w
      <3>1. ASSUME NEW c \in mine PROVE [c EXCEPT !.live = FALSE].by = w
        BY ProcessInvFacts DEF RotTypeOK, Request
      <3>2. \A d \in Orphans(mine) : d.by = w
        BY <3>1 DEF Orphans
      <3>3. \A d \in calls' : d.by = v => d \in calls
        BY <2>1, <2>5, <3>2
      <3> QED
        BY <2>1, <2>5, <3>3 DEF Spared
    <2> QED
      BY <2>4, <2>5
  <1>2. CASE RestartManager
    BY <1>2 DEF RestartManager, Told
  <1>3. CASE RestartProvisioner
    <2> DEFINE lost(w) == \/ exec # None /\ exec.live /\ exec.by = w
                          \/ \E c \in calls : c.live /\ c.by = w
               r(w) == [worker[w] EXCEPT !.reply = "unknown"]
    <2>1. /\ calls' = {}
          /\ worker' = [w \in Workers |-> IF lost(w) THEN r(w) ELSE worker[w]]
      BY <1>3 DEF RestartProvisioner
    <2>2. worker[v] \in Goroutine
      BY ProcessInvFacts DEF RotTypeOK
    <2>3. r(v).reply = "unknown"
      BY <2>2, ReplyType DEF Outcomes, Replies
    <2> HIDE DEF r
    <2>4. lost(v) => Told(v)
      BY <2>1, <2>3 DEF Told
    <2>5. ~lost(v) => Spared(v)
      BY <2>1 DEF Spared
    <2> QED
      BY <2>4, <2>5
  <1> QED
    BY <1>1, <1>2, <1>3

\* Connections are lost, or one of the processes starts again.
LEMMA FirstBreak ==
  ASSUME ProcessInv, NEW o \in Ops, FirstAlone(o), FirstDrive(o), ConnectionsBreak, UNCHANGED storeVars,
         \A v \in Workers : Told(v) \/ Spared(v)
  PROVE  FirstDrive(o)'
  <1>1. UNCHANGED <<rows, ops, secret, meta, dbpw, env, running>>
    BY DEF ConnectionsBreak, storeVars
  <1>2. \A v \in Workers : \/ worker'[v] = worker[v]
                           \/ worker'[v].pc = "idle"
                           \/ worker[v].pc \in Waiting /\ Replies(worker[v], worker'[v], "unknown")
    BY IdlePc DEF ConnectionsBreak, Loses
  <1>3. \A v \in Workers : worker[v].pc = "idle" => worker'[v].pc = "idle"
    BY <1>2 DEF Waiting
  <1>4. \A d \in calls' : \E c \in calls : d.kind = c.kind /\ d.by = c.by
    BY DEF ConnectionsBreak, Orphan
  <1>5. /\ exec = None => exec' = None
        /\ exec' # None => exec # None /\ exec'.kind = exec.kind
    BY DEF ConnectionsBreak, Orphan
  <1>6. Unbegun(o) => Unbegun(o)'
    BY <1>1, <1>4, <1>5 DEF Unbegun, Whole
  <1>7. OnlyConfirms => OnlyConfirms' /\ (Whole => Whole') /\ (Anchored => Anchored')
                        /\ (o \notin meta.rolledBack => o \notin meta'.rolledBack)
    <2>1. OnlyConfirms => OnlyConfirms'
      BY <1>4, <1>5 DEF OnlyConfirms
    <2> QED
      BY <1>1, <2>1 DEF Whole, Anchored
  <1>8. ASSUME NEW w \in Workers, worker'[w].pc # "idle", Steady(o, w)
        PROVE  Steady(o, w)'
    <2>1. worker[w].pc # "idle"
      BY <1>3, <1>8
    <2>2. CASE worker'[w] = worker[w]
      <3>1. ASSUME Unanswered(w) PROVE Spared(w)
        BY <1>8, <2>2, <3>1, IdlePc, MemoryFacts DEF Told, Outcomes
      <3>2. ASSUME Spared(w), OnTheWay(o) PROVE OnTheWay(o)'
        <4>1. \A c \in calls : c.by = w
          BY <2>1, <3>2, DriverFacts DEF OnTheWay
        <4>2. calls' \subseteq calls
          BY <1>4, <3>2, <4>1 DEF Spared
        <4>3. exec # None => exec' = exec
          BY <2>1, <3>2, DriverFacts DEF OnTheWay, Spared
        <4> QED
          BY <1>1, <1>5, <3>2, <4>2, <4>3 DEF OnTheWay, Anchored, Whole
      <3>3. ASSUME Spared(w), OnTheWayBack(o) PROVE OnTheWayBack(o)'
        <4>1. \A c \in calls : c.kind # "confirm" => c.by = w
          BY <2>1, <3>3, DriverFacts DEF OnTheWayBack
        <4>2. \A d \in calls' : d.kind # "confirm" => d \in calls
          BY <1>4, <3>3, <4>1 DEF Spared
        <4>3. exec # None /\ exec.kind # "confirm" => exec' = exec
          BY <2>1, <3>3, DriverFacts DEF OnTheWayBack, Spared
        <4> QED
          BY <1>1, <1>5, <3>3, <4>2, <4>3 DEF OnTheWayBack, Anchored
      <3> QED
        BY <1>1, <1>6, <1>7, <1>8, <2>2, <3>1, <3>2, <3>3, SteadyRests
    <2>3. CASE worker[w].pc \in Waiting /\ Replies(worker[w], worker'[w], "unknown")
      <3>1. worker[w].pc = "confirming" => OnlyConfirms
        BY <1>8 DEF Steady, Passed
      <3> QED
        BY <1>1, <1>7, <1>8, <2>3, <3>1, SteadyAnswered DEF Outcomes
    <2> QED
      BY <1>2, <1>8, <2>2, <2>3
  <1> QED
    BY <1>1, <1>3, <1>6, <1>8, DriveKept DEF FirstDrive

\* Nothing the rotation knows of changes.
LEMMA FirstQuiet ==
  ASSUME NEW o \in Ops, FirstDrive(o),
         UNCHANGED <<rows, ops, secret, worker, meta, calls, exec, dbpw, env, running>>
  PROVE  FirstDrive(o)'
  <1>1. Unbegun(o) => Unbegun(o)'
    BY DEF Unbegun, Whole
  <1>2. OnTheWay(o) => OnTheWay(o)'
    BY DEF OnTheWay, Anchored, Whole
  <1>3. OnTheWayBack(o) => OnTheWayBack(o)'
    BY DEF OnTheWayBack, Anchored
  <1>4. OnlyConfirms => OnlyConfirms' /\ (Whole => Whole') /\ (Anchored => Anchored')
    BY DEF OnlyConfirms, Anchored, Whole
  <1>5. \A w \in Workers : Steady(o, w) => Steady(o, w)'
    BY <1>1, <1>2, <1>3, <1>4, SteadyRests
  <1> QED
    BY <1>1, <1>5, DriveKept DEF FirstDrive

LEMMA AdmitRest == QueueAdmit => UNCHANGED <<meta, calls, exec, dbpw, env, running>>
  BY Zenon DEF QueueAdmit, runtimeVars, provVars

LEMMA AdmitCases ==
  ASSUME QueueAdmit
  PROVE  \/ UNCHANGED <<storeVars, worker>>
         \/ \E q \in Ops, w \in Workers :
               /\ worker[w].pc = "idle"
               /\ AdmitConfiguration(Server, q, queue, canonical[Server], None)
               /\ worker' = [worker EXCEPT ![w] = [Idle EXCEPT !.pc = "start", !.op = q,
                                                     !.seen = "QUEUED", !.fence = lease'[Server].fence]]
  BY Zenon DEF QueueAdmit

\* The goroutine of the request starts.
LEMMA FirstAdmit ==
  ASSUME ProcessInv, NEW o \in Ops, FirstAlone(o), FirstAlone(o)', FirstDrive(o), QueueAdmit,
         [RotStore]_storeVars
  PROVE  FirstDrive(o)'
  <1>0. UNCHANGED <<meta, calls, exec, dbpw, env, running>>
    BY AdmitRest
  <1>1. CASE UNCHANGED <<storeVars, worker>>
    BY <1>0, <1>1, FirstQuiet DEF storeVars
  <1>2. ASSUME NEW q \in Ops, NEW w \in Workers, worker[w].pc = "idle",
               AdmitConfiguration(Server, q, queue, canonical[Server], None),
               worker' = [worker EXCEPT ![w] = [Idle EXCEPT !.pc = "start", !.op = q,
                                                  !.seen = "QUEUED", !.fence = lease'[Server].fence]]
        PROVE  FirstDrive(o)'
    <2> DEFINE new == [status |-> "QUEUED", project |-> Server, phase |-> ""]
               r == [Idle EXCEPT !.pc = "start", !.op = q, !.seen = "QUEUED", !.fence = lease'[Server].fence]
    <2>1. ops[q] = None /\ ops' = [ops EXCEPT ![q] = new] /\ secret' = secret
      <3>1. ops[q] = None
        BY <1>2, Zenon DEF AdmitConfiguration
      <3>2. ops' = [ops EXCEPT ![q] = new]
        BY <1>2, Zenon DEF AdmitConfiguration
      <3>3. secret' = secret
        BY <1>2, Zenon DEF AdmitConfiguration
      <3> QED
        BY <3>1, <3>2, <3>3, Zenon
    <2>2. new \in Operation
      BY ServerFacts DEF Operation, Statuses, Active, Phases
    <2>3. new.phase # "STATE_RESTORED"
      BY Zenon
    <2>4. r.pc = "start" /\ r.back = FALSE /\ Plain(r)
      <3>1. PICK f : f = lease'[Server].fence
        OBVIOUS
      <3>2. PICK s : s = r
        OBVIOUS
      <3>3. s = [Idle EXCEPT !.pc = "start", !.op = q, !.seen = "QUEUED", !.fence = f]
        BY <3>1, <3>2
      <3> HIDE DEF r
      <3>4. s.pc = "start" /\ s.back = FALSE
        BY <3>3, Zenon DEF Idle
      <3>5. s.step = Idle.step /\ s.recovery = Idle.recovery
        BY <3>3, Zenon DEF Idle
      <3>6. Plain(s)
        BY <3>5, SilentFacts, PlainKept
      <3> QED
        BY <3>2, <3>4, <3>6
    <2>5. worker' = [worker EXCEPT ![w] = r]
      BY <1>2
    <2> HIDE DEF new, r
    <2>6. ops'[q] = new /\ new # None /\ worker'[w] = r /\ \A v \in Workers \ {w} : worker'[v] = worker[v]
      BY <2>1, <2>2, <2>5, NoneFacts, ProcessInvFacts DEF TypeOK, RotTypeOK
    <2>7. q = o
      BY <2>6 DEF FirstAlone
    <2>8. Unbegun(o)' /\ \A v \in Workers \ {w} : worker'[v].pc = "idle"
      BY <1>0, <2>1, <2>6, <2>7 DEF FirstDrive, Unbegun, Whole
    <2>9. Steady(o, w)'
      <3>1. Fresh(w)'
        BY <2>4, <2>6 DEF Fresh
      <3> QED
        BY <2>3, <2>4, <2>6, <2>7, <2>8, <3>1 DEF Steady, EarlySteps, Passed
    <2>10. FirstSnapshots'
      BY FirstStore
    <2> QED
      BY <2>4, <2>6, <2>7, <2>8, <2>9, <2>10 DEF FirstDrive
  <1> QED
    BY <1>1, <1>2, AdmitCases, Zenon

\* No goroutine is resumed.
LEMMA FirstResume ==
  ASSUME ProcessInv, NEW o \in Ops, FirstAlone(o), FirstAlone(o)', FirstDrive(o), NEW e \in entries, Resume(e)
  PROVE  FirstDrive(o)'
  <1>0. UNCHANGED <<meta, calls, exec, dbpw, env, running>>
    BY DEF Resume, runtimeVars, provVars
  <1>1. CASE UNCHANGED <<storeVars, worker>>
    BY <1>0, <1>1, FirstQuiet DEF storeVars
  <1>2. ASSUME NEW w \in Workers,
               AcquireConfigurationLeaseForOperation(Server, e.op),
               worker' = [worker EXCEPT ![w] = [Idle EXCEPT !.pc = "start", !.op = e.op,
                                                  !.seen = e.seen, !.step = e.step, !.resumed = TRUE,
                                                  !.fence = lease'[Server].fence]]
        PROVE  FALSE
    <2>1. e.op = o
      BY <1>2, FirstFacts, ProcessInvFacts DEF AcquireConfigurationLeaseForOperation, RotTypeOK, Entry
    <2> DEFINE r == [Idle EXCEPT !.pc = "start", !.op = e.op, !.seen = e.seen, !.step = e.step,
                                 !.resumed = TRUE, !.fence = lease'[Server].fence]
    <2>2. r.op = e.op /\ r.resumed = TRUE
      BY DEF Idle
    <2>3. worker' = [worker EXCEPT ![w] = r]
      BY <1>2
    <2> HIDE DEF r
    <2>4. worker'[w] = r
      BY <2>3, ProcessInvFacts DEF RotTypeOK
    <2> QED
      BY <2>1, <2>2, <2>4 DEF FirstAlone
  <1> QED
    BY <1>1, <1>2 DEF Resume

\* Where the step of a goroutine leads.
LEMMA Goes ==
  ASSUME ProcessInv, NEW w \in Workers, Fresh(w), NEW pc \in WorkerSteps, Goto(w, pc)
  PROVE  /\ worker'[w].pc = pc /\ worker'[w].back = worker[w].back /\ worker'[w].old = worker[w].old
         /\ Fresh(w)' /\ Unanswered(w)'
  <1>1. worker \in [Workers -> Goroutine]
    BY ProcessInvFacts DEF RotTypeOK
  <1>2. Moved(worker[w], worker'[w], pc, worker[w].back)
    BY <1>1, GotoMoves
  <1> QED
    BY <1>2, MemoryFacts

LEMMA GoesWith ==
  ASSUME ProcessInv, NEW w \in Workers, Fresh(w), NEW pc \in WorkerSteps, NEW back \in BOOLEAN,
         GotoWith(w, pc, back)
  PROVE  /\ worker'[w].pc = pc /\ worker'[w].back = back /\ worker'[w].old = worker[w].old
         /\ Fresh(w)' /\ Unanswered(w)'
  <1>1. worker \in [Workers -> Goroutine]
    BY ProcessInvFacts DEF RotTypeOK
  <1>2. Moved(worker[w], worker'[w], pc, back)
    BY <1>1, GotoWithMoves
  <1> QED
    BY <1>2, MemoryFacts

\* The steps before the call.
LEMMA FirstStarts ==
  ASSUME ProcessInv, NEW o \in Ops, NEW w \in Workers, worker[w].op = o, Steady(o, w), Start(w)
  PROVE  Steady(o, w)'
  <1>1. /\ worker[w].pc = "start"
        /\ \E pc \in {"recover", "exit"} : Goto(w, pc)
        /\ UNCHANGED <<meta, calls, exec, dbpw, env, running>>
    BY DEF Start, At, runtimeVars, provVars
  <1>2. ops'[o].phase = ops[o].phase /\ secret' = secret
    <2>1. UpdateOperation(o, "RUNNING") \/ UNCHANGED storeVars
      BY DEF Start
    <2>2. "RUNNING" \in Statuses /\ TypeOK
      BY ServerFacts, ConstantsAssumption, ProcessInvFacts
    <2> QED
      BY <2>1, <2>2, StatusWritten DEF storeVars
  <1>3. Unbegun(o)' /\ worker[w].back = FALSE /\ ops[o].phase # "STATE_RESTORED" /\ Fresh(w)
    BY <1>1, <1>2 DEF Steady, Unbegun, Whole, EarlySteps, BeforeRestore
  <1>4. PICK pc \in {"recover", "exit"} : worker'[w].pc = pc
    BY <1>1, <1>3, Goes DEF WorkerSteps
  <1>5. worker'[w].back = FALSE /\ Fresh(w)'
    BY <1>1, <1>3, Goes DEF WorkerSteps
  <1> QED
    BY <1>2, <1>3, <1>4, <1>5 DEF Steady, EarlySteps, BeforeRestore, Passed

LEMMA FirstRecovers ==
  ASSUME ProcessInv, NEW o \in Ops, NEW w \in Workers, worker[w].op = o, Steady(o, w), Recover(w)
  PROVE  Steady(o, w)'
  <1>1. /\ worker[w].pc = "recover"
        /\ UNCHANGED <<storeVars, meta, exec, dbpw, env, running>>
    BY DEF Recover, At, runtimeVars
  <1>2. /\ Unbegun(o) /\ worker[w].back = FALSE /\ ops[o].phase # "STATE_RESTORED" /\ Fresh(w)
    BY <1>1 DEF Steady, EarlySteps, BeforeRestore
  <1>3. worker[w].step # "MARK_CONFIGURATION_GOOD"
    BY <1>2, Zenon DEF Fresh, Plain
  <1>4. calls' = calls /\ \E pc \in {"succeed", "prepare"} : Goto(w, pc)
    BY <1>2, <1>3 DEF Recover
  <1>5. PICK pc \in {"succeed", "prepare"} : worker'[w].pc = pc
    BY <1>2, <1>4, Goes DEF WorkerSteps
  <1>6. worker'[w].back = FALSE /\ Fresh(w)'
    BY <1>2, <1>4, Goes DEF WorkerSteps
  <1>7. Unbegun(o)' /\ ops' = ops
    BY <1>1, <1>2, <1>4 DEF Unbegun, Whole, storeVars
  <1> QED
    BY <1>2, <1>5, <1>6, <1>7 DEF Steady, EarlySteps, BeforeRestore, Passed

LEMMA FirstPrepares ==
  ASSUME ProcessInv, NEW o \in Ops, NEW w \in Workers, worker[w].op = o, Steady(o, w), Prepare(w)
  PROVE  Steady(o, w)'
  <1>1. /\ worker[w].pc = "prepare"
        /\ UNCHANGED <<storeVars, meta, calls, exec, dbpw, env, running>>
        /\ \/ \E pc \in {"exit", "reconcile"} : Goto(w, pc)
           \/ \E pc \in {"restore", "fail"} : GotoWith(w, pc, FALSE)
    BY DEF Prepare, At, runtimeVars, provVars
  <1>2. /\ Unbegun(o) /\ worker[w].back = FALSE /\ ops[o].phase # "STATE_RESTORED" /\ Fresh(w)
    BY <1>1 DEF Steady, EarlySteps, BeforeRestore
  <1>3. worker'[w].back = FALSE /\ Fresh(w)' /\ worker'[w].pc \in {"exit", "reconcile", "restore", "fail"}
    BY <1>1, <1>2, Goes, GoesWith DEF WorkerSteps
  <1>4. Unbegun(o)' /\ ops' = ops
    BY <1>1, <1>2 DEF Unbegun, Whole, storeVars
  <1> QED
    BY <1>2, <1>3, <1>4 DEF Steady, EarlySteps, BeforeRestore, Passed

\* The first call gives the credential of the installation as the old one.
LEMMA FirstReconciles ==
  ASSUME ProcessInv, NEW o \in Ops, NEW w \in Workers, worker[w].op = o, worker[w].pc # "idle",
         FirstSnapshots, Steady(o, w), ReconcileServices(w)
  PROVE  Steady(o, w)'
  <1>1. /\ worker[w].pc = "reconcile"
        /\ UNCHANGED <<storeVars, meta, exec, dbpw, env, running>>
    BY DEF ReconcileServices, At, runtimeVars
  <1>2. /\ Unbegun(o) /\ worker[w].back = FALSE /\ ops[o].phase # "STATE_RESTORED" /\ Fresh(w)
    BY <1>1 DEF Steady, EarlySteps, BeforeRestore
  <1>3. OldPassword(o) = Old
    <2>1. Rev(o) \in Revisions /\ Rev(o) > 1 /\ secret[Server] = Old
      BY <1>2, ProcessInvFacts, WorkerFacts, Zenon DEF Unbegun
    <2>2. Rev(o) - 1 \in Revisions
      BY <2>1, ConstantsAssumption DEF Revisions
    <2> QED
      BY <2>1, <2>2 DEF FirstSnapshots, OldPassword, SecretAt
  <1>4. ops' = ops
    BY <1>1 DEF storeVars
  <1>5. CASE /\ worker' = [worker EXCEPT ![w].pc = "rotating", ![w].old = OldPassword(o)]
             /\ Send(w, "rotate", OldPassword(o), o)
    <2> DEFINE r == [worker[w] EXCEPT !.pc = "rotating", !.old = Old]
               c == [by |-> w, kind |-> "rotate", op |-> o, fence |-> worker[w].fence, old |-> Old,
                     new |-> o, live |-> TRUE]
    <2>1. worker[w] \in Goroutine /\ worker \in [Workers -> Goroutine]
      BY ProcessInvFacts DEF RotTypeOK
    <2>2. /\ r.pc = "rotating" /\ r.old = Old /\ r.back = worker[w].back
          /\ r.step = worker[w].step /\ r.recovery = worker[w].recovery
      BY <2>1, Zenon DEF Goroutine
    <2>3. worker' = [worker EXCEPT ![w] = r] /\ calls' = {c}
      BY <1>2, <1>3, <1>5 DEF Send, Unbegun
    <2>4. c.kind = "rotate" /\ c.live /\ c.old = Old
      OBVIOUS
    <2> HIDE DEF r, c
    <2>5. worker'[w] = r
      BY <2>1, <2>3
    <2>6. Fresh(w)'
      BY <1>2, <2>2, <2>5, PlainKept DEF Fresh
    <2>7. OnTheWay(o)' /\ Anchored' /\ o \notin meta'.rolledBack
      BY <1>1, <1>2, <2>3, <2>4 DEF OnTheWay, Unbegun, Anchored, Whole
    <2>8. Unanswered(w)'
      <3>1. Unanswered(w) /\ r.reply = worker[w].reply
        <4>1. worker[w].reply = ""
          <5>1. worker[w].pc \notin Waiting
            BY <1>1 DEF Waiting
          <5> QED
            BY <5>1, ProcessInvFacts, WorkerFacts, Zenon
        <4>2. r.reply = worker[w].reply
          BY <2>1, Zenon DEF r, Goroutine
        <4> QED
          BY <4>1, <4>2, Zenon DEF Unanswered, Silent
      <3> QED
        BY <2>5, <3>1, Zenon DEF Unanswered, Silent
    <2>9. Unanswered(w)' => worker'[w].reply \notin Outcomes
      BY SilentFacts DEF Unanswered
    <2> QED
      BY <1>2, <1>4, <2>2, <2>5, <2>6, <2>7, <2>8, <2>9
         DEF Steady, EarlySteps, BeforeRestore, Passed, Outcomes
  <1>6. CASE GotoWith(w, "fail", FALSE)
    <2>1. worker'[w].pc = "fail" /\ worker'[w].back = FALSE /\ Fresh(w)'
      BY <1>2, <1>6, GoesWith DEF WorkerSteps
    <2> QED
      BY <2>1 DEF Steady, EarlySteps, BeforeRestore, Passed
  <1> QED
    BY <1>5, <1>6 DEF ReconcileServices

LEMMA CompensationWritten ==
  ASSUME ProcessInv, NEW o \in Ops, NEW ph \in Compensations, SetOperationCompensation(o, ph)
  PROVE  ops'[o].phase # "STATE_RESTORED" /\ ops'[o].status = ops[o].status /\ secret' = secret
  <1>1. ops[o] # None /\ ops' = [ops EXCEPT ![o].phase = ph] /\ secret' = secret
    BY DEF SetOperationCompensation, projectVars
  <1>2. TypeOK /\ ph \in Phases /\ ph # "STATE_RESTORED"
    <2>1. "STATE_RESTORED" \notin Compensations
      BY DEF Compensations
    <2> QED
      BY <2>1, ProcessInvFacts, PhaseNames
  <1> QED
    BY <1>1, <1>2, PhaseWritten

\* The steps after the call.
LEMMA FirstAnswered ==
  ASSUME ProcessInv, NEW o \in Ops, NEW w \in Workers, worker[w].op = o, Steady(o, w), Rotated(w)
  PROVE  Steady(o, w)'
  <1>1. /\ worker[w].pc = "rotating" /\ Fresh(w) /\ worker[w].old = Old
        /\ ops[o].phase # "STATE_RESTORED"
        /\ UNCHANGED <<meta, calls, exec, dbpw, env, running>>
    <2>1. /\ worker[w].pc = "rotating"
          /\ UNCHANGED <<meta, calls, exec, dbpw, env, running>>
      BY Zenon DEF Rotated, Replied, runtimeVars, provVars
    <2> QED
      BY <2>1 DEF Steady, BeforeRestore
  <1>2. OnlyConfirms => OnlyConfirms' /\ (Whole => Whole') /\ (Anchored => Anchored')
    BY <1>1 DEF OnlyConfirms, Whole, Anchored
  <1>3. CASE /\ worker[w].reply = "ok" /\ Goto(w, "mark")
             /\ SetOperationCompensation(o, "RUNTIME_COMMITTED")
    <2>1. worker'[w].pc = "mark" /\ worker'[w].old = Old /\ Fresh(w)'
      BY <1>1, <1>3, Goes DEF WorkerSteps
    <2>2. ops'[o].phase # "STATE_RESTORED"
      BY <1>3, CompensationWritten DEF Compensations
    <2>3. OnlyConfirms' /\ Anchored' /\ o \notin meta'.rolledBack
      BY <1>1, <1>2, <1>3 DEF Steady
    <2> QED
      BY <2>1, <2>2, <2>3 DEF Steady, EarlySteps, BeforeRestore, Passed
  <1>4. CASE Goto(w, "exit")
    <2>1. worker'[w].pc = "exit" /\ Fresh(w)'
      BY <1>1, <1>4, Goes DEF WorkerSteps
    <2> QED
      BY <2>1 DEF Steady, EarlySteps, BeforeRestore, Passed
  <1>5. ASSUME NEW pc \in {"restore", "fail"}, GotoWith(w, pc, reconcileRollback(worker[w].reply)),
               worker[w].reply = "undone" => pc = "restore", ops' = ops
        PROVE  Steady(o, w)'
    <2> DEFINE back == reconcileRollback(worker[w].reply)
    <2>1. back \in BOOLEAN /\ (back = TRUE => worker[w].reply = "undone" /\ pc = "restore")
      BY <1>5 DEF reconcileRollback
    <2> HIDE DEF back
    <2>2. worker'[w].pc = pc /\ worker'[w].back = back /\ Fresh(w)'
      BY <1>1, <1>5, <2>1, GoesWith DEF WorkerSteps, back
    <2>3. back = TRUE => OnlyConfirms' /\ Whole'
      BY <1>1, <1>2, <2>1 DEF Steady
    <2> QED
      BY <1>1, <1>5, <2>1, <2>2, <2>3 DEF Steady, EarlySteps, BeforeRestore, Passed
  <1>6. \/ worker[w].reply = "ok"
        \/ Goto(w, "exit")
        \/ \E pc \in {"restore", "fail"} :
              /\ GotoWith(w, pc, reconcileRollback(worker[w].reply))
              /\ worker[w].reply = "undone" => pc = "restore"
              /\ ops' = ops
    <2>1. UNCHANGED storeVars => ops' = ops
      BY DEF storeVars
    <2>2. shouldRestoreConfiguration("undone")
      BY DEF shouldRestoreConfiguration
    <2> QED
      BY <2>1, <2>2, Zenon DEF Rotated
  <1>7. worker[w].reply = "ok" => Goto(w, "mark") /\ SetOperationCompensation(o, "RUNTIME_COMMITTED")
    BY Zenon DEF Rotated
  <1> QED
    BY <1>3, <1>4, <1>5, <1>6, <1>7

LEMMA FirstMarks ==
  ASSUME ProcessInv, NEW o \in Ops, NEW w \in Workers, worker[w].op = o, Steady(o, w),
         Mark(w) \/ Publish(w) \/ Confirmed(w)
  PROVE  Steady(o, w)'
  <1>1. /\ worker[w].pc \in {"mark", "publish", "confirming"}
        /\ \/ \E pc \in {"publish", "exit", "good", "compensate"} : Goto(w, pc) /\ calls' = calls
           \/ Goto(w, "confirming") /\ Send(w, "confirm", None, None)
        /\ UNCHANGED <<meta, exec, dbpw, env, running>>
    BY Zenon DEF Mark, Publish, Confirmed, At, Replied, runtimeVars, provVars
  <1>2. ops' = ops
    BY Zenon DEF Mark, Publish, Confirmed, PublishConfigurationSecret, storeVars
  <1>3. /\ Fresh(w) /\ worker[w].old = Old /\ OnlyConfirms /\ Anchored /\ o \notin meta.rolledBack
        /\ ops[o].phase # "STATE_RESTORED"
    BY <1>1 DEF Steady, Passed, BeforeRestore
  <1>4. worker'[w].pc \in {"publish", "exit", "good", "compensate", "confirming"}
        /\ worker'[w].old = Old /\ Fresh(w)'
    BY <1>1, <1>3, Goes DEF WorkerSteps
  <1>5. OnlyConfirms' /\ Anchored' /\ o \notin meta'.rolledBack
    BY <1>1, <1>3 DEF OnlyConfirms, Anchored, Send
  <1> QED
    BY <1>2, <1>3, <1>4, <1>5 DEF Steady, EarlySteps, BeforeRestore, Passed

LEMMA FirstGood ==
  ASSUME ProcessInv, NEW o \in Ops, NEW w \in Workers, worker[w].op = o, Steady(o, w), Good(w)
  PROVE  Steady(o, w)'
  <1>1. /\ worker[w].pc = "good"
        /\ Goto(w, "succeed") \/ (Goto(w, "compensate") /\ UNCHANGED storeVars)
        /\ UNCHANGED <<meta, calls, exec, dbpw, env, running>>
    BY DEF Good, At, runtimeVars, provVars
  <1>2. /\ Fresh(w) /\ worker[w].old = Old /\ OnlyConfirms /\ Anchored /\ o \notin meta.rolledBack
        /\ ops[o].phase # "STATE_RESTORED"
    BY <1>1 DEF Steady, Passed, BeforeRestore
  <1>3. OnlyConfirms' /\ Anchored' /\ o \notin meta'.rolledBack
    BY <1>1, <1>2 DEF OnlyConfirms, Anchored
  <1>4. CASE Goto(w, "succeed")
    <2>1. worker'[w].pc = "succeed" /\ Fresh(w)'
      BY <1>2, <1>4, Goes DEF WorkerSteps
    <2> QED
      BY <2>1 DEF Steady, EarlySteps, BeforeRestore, Passed
  <1>5. CASE Goto(w, "compensate") /\ UNCHANGED storeVars
    <2>1. worker'[w].pc = "compensate" /\ worker'[w].old = Old /\ Fresh(w)' /\ ops' = ops
      BY <1>2, <1>5, Goes DEF WorkerSteps, storeVars
    <2> QED
      BY <1>2, <1>3, <2>1 DEF Steady, EarlySteps, BeforeRestore, Passed
  <1> QED
    BY <1>1, <1>4, <1>5

LEMMA FirstCompensates ==
  ASSUME ProcessInv, NEW o \in Ops, NEW w \in Workers, worker[w].op = o, Steady(o, w), Compensate(w)
  PROVE  Steady(o, w)'
  <1> DEFINE c == [by |-> w, kind |-> "rollback", op |-> o, fence |-> worker[w].fence, old |-> o,
                   new |-> worker[w].old, live |-> TRUE]
  <1>1. /\ worker[w].pc = "compensate" /\ Goto(w, "rolling")
        /\ SetOperationCompensation(o, "ROLLBACK_PENDING")
        /\ calls' = calls \cup {c}
        /\ UNCHANGED <<meta, exec, dbpw, env, running>>
    BY DEF Compensate, At, Send, runtimeVars
  <1>2. /\ Fresh(w) /\ worker[w].old = Old /\ OnlyConfirms /\ Anchored /\ o \notin meta.rolledBack
    BY <1>1 DEF Steady, Passed
  <1>3. c.kind = "rollback" /\ c.live /\ c.new = Old
    BY <1>2
  <1> HIDE DEF c
  <1>4. worker'[w].pc = "rolling" /\ Fresh(w)' /\ Unanswered(w)'
    BY <1>1, <1>2, Goes DEF WorkerSteps
  <1>5. ops'[o].phase # "STATE_RESTORED"
    BY <1>1, CompensationWritten DEF Compensations
  <1>6. OnTheWayBack(o)'
    BY <1>1, <1>2, <1>3 DEF OnlyConfirms, OnTheWayBack, Anchored
  <1>7. worker'[w].reply \notin Outcomes
    BY <1>4, SilentFacts DEF Unanswered
  <1> QED
    BY <1>4, <1>5, <1>6, <1>7 DEF Steady, EarlySteps, BeforeRestore, Passed, Outcomes

LEMMA FirstRolledBack ==
  ASSUME ProcessInv, NEW o \in Ops, NEW w \in Workers, worker[w].op = o, Steady(o, w), RolledBack(w)
  PROVE  Steady(o, w)'
  <1>1. /\ worker[w].pc = "rolling"
        /\ UNCHANGED <<meta, calls, exec, dbpw, env, running>>
        /\ \/ /\ worker[w].reply = "ok" /\ GotoWith(w, "restore", TRUE)
              /\ SetOperationCompensation(o, "ROLLBACK_CONFIRMED")
           \/ Goto(w, "exit")
    BY Zenon DEF RolledBack, Replied, runtimeVars, provVars
  <1>2. Fresh(w)
    BY DEF Steady
  <1>3. CASE /\ worker[w].reply = "ok" /\ GotoWith(w, "restore", TRUE)
             /\ SetOperationCompensation(o, "ROLLBACK_CONFIRMED")
    <2>1. worker'[w].pc = "restore" /\ Fresh(w)'
      BY <1>2, <1>3, GoesWith DEF WorkerSteps
    <2>2. ops'[o].phase # "STATE_RESTORED"
      BY <1>3, CompensationWritten DEF Compensations
    <2>3. OnlyConfirms' /\ Whole'
      BY <1>1, <1>3 DEF Steady, OnlyConfirms, Whole
    <2> QED
      BY <2>1, <2>2, <2>3 DEF Steady, EarlySteps, BeforeRestore, Passed
  <1>4. CASE Goto(w, "exit")
    <2>1. worker'[w].pc = "exit" /\ Fresh(w)'
      BY <1>2, <1>4, Goes DEF WorkerSteps
    <2> QED
      BY <2>1 DEF Steady, EarlySteps, BeforeRestore, Passed
  <1> QED
    BY <1>1, <1>3, <1>4

\* The transaction gives the secret of the snapshot back, or the goroutine
\* does not report that anything was rolled back.
LEMMA FirstRestores ==
  ASSUME ProcessInv, NEW o \in Ops, NEW w \in Workers, worker[w].op = o, payload[o] # None,
         FirstSnapshots, Steady(o, w), Restore(w)
  PROVE  Steady(o, w)'
  <1>1. /\ worker[w].pc = "restore"
        /\ UNCHANGED <<meta, calls, exec, dbpw, env, running>>
    BY Zenon DEF Restore, At, runtimeVars, provVars
  <1>2. /\ Fresh(w) /\ ops[o].phase # "STATE_RESTORED"
        /\ worker[w].back = TRUE => OnlyConfirms /\ Whole
    BY <1>1 DEF Steady, BeforeRestore
  <1>3. worker[w].recovery # "rolled" /\ worker[w].recovery # "confirmed"
    BY <1>2, Zenon DEF Fresh, Plain
  <1>4. \/ RestoreConfigurationStateOwned(Server, o, worker[w].fence) /\ Goto(w, "fail")
        \/ GotoWith(w, "fail", FALSE)
    <2>1. worker[w].recovery = ""
      BY <1>2, Zenon DEF Fresh, Plain
    <2> QED
      BY <1>2, <2>1, Zenon DEF Restore
  <1>5. worker[w].back = TRUE => OnlyConfirms' /\ Whole'
    BY <1>1, <1>2 DEF OnlyConfirms, Whole
  <1>6. CASE RestoreConfigurationStateOwned(Server, o, worker[w].fence) /\ Goto(w, "fail")
    <2>1. /\ secret' = [secret EXCEPT ![Server] = rows[Server][rev[Server]].secrets]
          /\ rows[Server][rev[Server]] # None /\ payload[o].rev = rev[Server]
      BY <1>6 DEF RestoreConfigurationStateOwned, OwnsCandidate
    <2>2. rev[Server] \in Revisions /\ rev[Server] > 1
      BY <2>1, ServerFacts, ProcessInvFacts DEF TypeOK, ServerOps
    <2>3. secret'[Server] = Old
      BY <2>1, <2>2, ServerFacts, ProcessInvFacts DEF FirstSnapshots, TypeOK
    <2>4. worker'[w].pc = "fail" /\ worker'[w].back = worker[w].back /\ Fresh(w)'
      BY <1>2, <1>6, Goes DEF WorkerSteps
    <2> QED
      BY <1>5, <2>3, <2>4 DEF Steady, EarlySteps, BeforeRestore, Passed
  <1>7. CASE GotoWith(w, "fail", FALSE)
    <2>1. worker'[w].pc = "fail" /\ worker'[w].back = FALSE /\ Fresh(w)'
      BY <1>2, <1>7, GoesWith DEF WorkerSteps
    <2> QED
      BY <2>1 DEF Steady, EarlySteps, BeforeRestore, Passed
  <1> QED
    BY <1>4, <1>6, <1>7

LEMMA FirstFails ==
  ASSUME ProcessInv, NEW o \in Ops, NEW w \in Workers, worker[w].op = o, Steady(o, w),
         fail(w) \/ Succeed(w)
  PROVE  Steady(o, w)'
  <1>1. /\ \/ worker[w].pc = "fail" /\ Goto(w, IF worker[w].back THEN "begin" ELSE "exit")
           \/ worker[w].pc = "begin" /\ Goto(w, "complete")
           \/ Goto(w, "exit")
        /\ UNCHANGED <<meta, calls, exec, dbpw, env, running>>
        /\ secret' = secret
    BY DEF fail, Succeed, Advance, At, UpdateOperation, projectVars, storeVars, runtimeVars, provVars
  <1>2. Fresh(w) /\ (worker[w].pc = "begin" => worker[w].back = TRUE)
    BY DEF Steady
  <1>3. OnlyConfirms /\ Whole /\ secret[Server] = Old => OnlyConfirms' /\ Whole' /\ secret'[Server] = Old
    BY <1>1 DEF OnlyConfirms, Whole
  <1>4. ASSUME Goto(w, "exit") PROVE Steady(o, w)'
    <2>1. worker'[w].pc = "exit" /\ Fresh(w)'
      BY <1>2, <1>4, Goes DEF WorkerSteps
    <2> QED
      BY <2>1 DEF Steady, EarlySteps, BeforeRestore, Passed
  <1>5. ASSUME NEW pc \in {"begin", "complete"}, Goto(w, pc), worker[w].back = TRUE,
               worker[w].pc \in {"fail", "begin"}
        PROVE  Steady(o, w)'
    <2>1. worker'[w].pc = pc /\ worker'[w].back = TRUE /\ Fresh(w)'
      BY <1>2, <1>5, Goes DEF WorkerSteps
    <2>2. OnlyConfirms' /\ Whole' /\ secret'[Server] = Old
      BY <1>3, <1>5 DEF Steady
    <2> QED
      BY <2>1, <2>2 DEF Steady, EarlySteps, BeforeRestore, Passed
  <1>6. worker[w].back \in BOOLEAN
    BY ProcessInvFacts, WorkerFacts, Zenon
  <1> QED
    BY <1>1, <1>2, <1>4, <1>5, <1>6

LEMMA FirstRun ==
  ASSUME ProcessInv, NEW o \in Ops, FirstAlone(o), FirstAlone(o)', FirstDrive(o), [RotStore]_storeVars,
         NEW w \in Workers, Run(w), GoroutineMove(w)
  PROVE  FirstDrive(o)'
  <1>1. worker[w].pc # "idle" /\ \A v \in Workers \ {w} : worker'[v] = worker[v]
    BY Zenon DEF GoroutineMove, Others
  <1>2. /\ worker[w].op = o /\ ops[o] # None /\ payload[o] # None
        /\ Steady(o, w) /\ \A v \in Workers \ {w} : worker[v].pc = "idle"
    BY <1>1, FirstFacts, ProcessInvFacts DEF FirstDrive, ServerOps
  <1>3. FirstSnapshots /\ FirstSnapshots' /\ ops'[o] # None
    BY <1>2, FirstStore DEF FirstDrive
  <1>4. worker'[w].pc = "idle" \/ Steady(o, w)'
    <2>1. CASE Exit(w)
      <3>1. worker' = [worker EXCEPT ![w] = Idle] /\ worker \in [Workers -> Goroutine]
        BY <2>1, ProcessInvFacts DEF Exit, RotTypeOK
      <3> QED
        BY <3>1, IdlePc, Zenon
    <2>2. CASE ~Exit(w)
      BY <1>1, <1>2, <1>3, <2>2, FirstStarts, FirstRecovers, FirstPrepares, FirstReconciles,
         FirstAnswered, FirstMarks, FirstGood, FirstCompensates, FirstRolledBack, FirstRestores,
         FirstFails DEF Run
    <2> QED
      BY <2>1, <2>2
  <1> QED
    BY <1>1, <1>2, <1>3, <1>4 DEF FirstDrive

LEMMA FirstStep ==
  ASSUME ProcessInv, [RotNext]_rotVars, NEW o \in Ops, FirstAlone(o), FirstAlone(o)', FirstDrive(o)
  PROVE  FirstDrive(o)'
  <1>0. [RotStore]_storeVars
    BY ProcessInvFacts, StepStore
  <1>1. CASE QueueAdmit
    BY <1>0, <1>1, FirstAdmit
  <1>2. ASSUME NEW e \in entries, Resume(e) PROVE FirstDrive(o)'
    BY <1>2, FirstResume
  <1>3. CASE \/ QueueRead \/ ListActive \/ (\E t \in tails : LateRelease(t)) \/ Expire \/ UNCHANGED rotVars
    <2>1. UNCHANGED <<rows, ops, secret, worker, meta, calls, exec, dbpw, env, running>>
      BY <1>3 DEF QueueRead, ListActive, LateRelease, Expire, ExpireLease,
                  ReleaseConfigurationLeaseOwned, rotVars, stepVars, storeVars, projectVars, managerVars,
                  runtimeVars, provVars
    <2> QED
      BY <2>1, FirstQuiet
  <1>4. ASSUME NEW c \in calls, Begin(c) PROVE FirstDrive(o)'
    BY <1>4, FirstBegin
  <1>5. ASSUME NEW w \in Workers, Run(w) PROVE FirstDrive(o)'
    <2>1. GoroutineMove(w)
      BY <1>5, ProcessInvFacts, RunMove
    <2> QED
      BY <1>0, <1>5, <2>1, FirstRun
  <1>6. CASE Provision
    BY <1>6, ProcessInvFacts, ProvisionMoves, FirstProvision
  <1>7. CASE (\E w \in Workers : Disconnect(w)) \/ RestartManager \/ RestartProvisioner
    <2>1. ConnectionsBreak
      BY <1>7, StepPayload, DisconnectKeeps, RestartManagerKeeps, RestartProvisionerKeeps
    <2>2. UNCHANGED storeVars
      BY <1>7 DEF Disconnect, RestartManager, RestartProvisioner
    <2>3. \A v \in Workers : Told(v) \/ Spared(v)
      BY <1>7, BreakTells
    <2> QED
      BY <2>1, <2>2, <2>3, FirstBreak
  <1> QED
    BY <1>1, <1>2, <1>3, <1>4, <1>5, <1>6, <1>7 DEF RotNext, RotStep

LEMMA InitFirst == ASSUME RotInit, NEW o \in Ops PROVE FirstDrive(o)
  <1>1. /\ worker = [w \in Workers |-> Idle] /\ calls = {} /\ exec = None
        /\ dbpw = Old /\ env = Old /\ running = Old
        /\ meta = [rev |-> 1, fence |-> 0, journal |-> None,
                   kept |-> [q \in Ops |-> None], rolledBack |-> {}]
        /\ Init
    BY Zenon DEF RotInit
  <1>2. secret[Server] = Old
    BY <1>1, ServerFacts, RotationAssumption DEF Init, Old
  <1>3. Unbegun(o)
    BY <1>1, <1>2 DEF Unbegun, Whole
  <1>4. \A w \in Workers : worker[w].pc = "idle"
    BY <1>1, IdlePc, Zenon
  <1>5. FirstSnapshots
    <2>1. rows[Server] = [NoRows EXCEPT ![1] = [config |-> InitialConfig[Server], secrets |-> None]]
      BY <1>1, ServerFacts, RotationAssumption DEF Init
    <2> QED
      BY <2>1 DEF FirstSnapshots, NoRows
  <1> QED
    BY <1>3, <1>4, <1>5 DEF FirstDrive

\* Only CompleteRollback reports a rotation as rolled back.
LEMMA FirstReport ==
  ASSUME ProcessInv, [RotNext]_rotVars, NEW o \in Ops, FirstAlone(o), ops[o] # None,
         ops[o].status = "ROLLING_BACK", ops'[o].status = "ROLLED_BACK"
  PROVE  \E w \in Workers : worker[w].pc = "complete"
  <1>1. TypeOK /\ ops' # ops /\ "ROLLED_BACK" \notin {"RUNNING", "FAILED", "ROLLING_BACK", "SUCCEEDED"}
        /\ {"RUNNING", "FAILED", "ROLLING_BACK", "SUCCEEDED"} \subseteq Statuses
    BY ProcessInvFacts, ServerFacts, ConstantsAssumption
  <1>2. ASSUME NEW x \in {"RUNNING", "FAILED", "ROLLING_BACK", "SUCCEEDED"}, UpdateOperation(o, x)
        PROVE  FALSE
    BY <1>1, <1>2, StatusWritten
  <1>3. ASSUME NEW ph \in Phases, ops' = [ops EXCEPT ![o].phase = ph] PROVE FALSE
    BY <1>1, <1>3, PhaseWritten
  <1>4. ASSUME NEW w \in Workers, Run(w) PROVE worker[w].pc = "complete"
    <2>1. worker[w].op = o
      <3>1. GoroutineMove(w)
        BY <1>4, ProcessInvFacts, RunMove
      <3>2. worker[w].pc # "idle"
        BY <3>1, Zenon DEF GoroutineMove
      <3> QED
        BY <3>2, FirstFacts
    <2>2. CASE \/ Recover(w) \/ Prepare(w) \/ ReconcileServices(w) \/ Mark(w) \/ Publish(w)
               \/ Confirmed(w) \/ Exit(w)
      <3>1. ops' = ops
        BY <2>2, Zenon DEF Recover, Prepare, ReconcileServices, Mark, Publish, Confirmed, Exit,
           PublishConfigurationSecret, ReleaseConfigurationLeaseOwned, storeVars
      <3> QED
        BY <1>1, <3>1
    <2>3. CASE Rotated(w) \/ Compensate(w) \/ RolledBack(w)
      <3>1. \/ \E ph \in Compensations : SetOperationCompensation(o, ph)
            \/ UNCHANGED storeVars
        BY <2>1, <2>3, Zenon DEF Rotated, Compensate, RolledBack, Compensations
      <3>2. ASSUME NEW ph \in Compensations, SetOperationCompensation(o, ph) PROVE FALSE
        BY <1>3, <3>2, PhaseNames DEF SetOperationCompensation
      <3> QED
        BY <1>1, <3>1, <3>2 DEF storeVars
    <2>4. CASE Good(w) \/ Restore(w)
      <3>1. \/ ops' = [ops EXCEPT ![o].phase = "COMMITTED"]
            \/ ops' = [ops EXCEPT ![o].phase = "STATE_RESTORED"]
            \/ UNCHANGED storeVars
        BY <2>1, <2>4, Zenon DEF Good, Restore, MarkConfigurationGoodOwned,
           RestoreConfigurationStateOwned
      <3> QED
        BY <1>1, <1>3, <3>1, PhaseNames DEF storeVars
    <2>5. CASE Start(w) \/ fail(w) \/ Succeed(w)
      <3>1. \/ \E x \in {"RUNNING", "FAILED", "ROLLING_BACK", "SUCCEEDED"} : UpdateOperation(o, x)
            \/ UNCHANGED storeVars
            \/ worker[w].pc = "complete"
        BY <2>1, <2>5 DEF Start, fail, Succeed, Advance, At
      <3> QED
        BY <1>1, <1>2, <3>1 DEF storeVars
    <2> QED
      BY <1>4, <2>2, <2>3, <2>4, <2>5 DEF Run
  <1>5. CASE QueueAdmit
    <2>1. ASSUME NEW q \in Ops, AdmitConfiguration(Server, q, queue, canonical[Server], None)
          PROVE  ops'[o] = ops[o]
      <3>1. PICK x : ops' = [ops EXCEPT ![q] = x] /\ ops[q] = None
        BY <2>1, Zenon DEF AdmitConfiguration
      <3> QED
        BY <1>1, <3>1 DEF TypeOK
    <2> QED
      BY <1>1, <1>5, <2>1, AdmitCases, Zenon DEF storeVars
  <1>6. ASSUME \A w \in Workers : ~Run(w), ~QueueAdmit PROVE ops' = ops
    <2>1. CASE \/ QueueRead \/ ListActive \/ (\E t \in tails : LateRelease(t)) \/ Expire
               \/ UNCHANGED rotVars
      BY <2>1, Zenon DEF QueueRead, ListActive, LateRelease, Expire, ExpireLease, rotVars, stepVars, storeVars,
         projectVars, ReleaseConfigurationLeaseOwned
    <2>2. CASE \E e \in entries : Resume(e)
      BY <2>2, Zenon DEF Resume, storeVars, AcquireConfigurationLeaseForOperation
    <2>3. CASE (\E c \in calls : Begin(c)) \/ Provision
      BY <2>3, Zenon DEF Begin, Provision, storeVars
    <2>4. CASE (\E w \in Workers : Disconnect(w)) \/ RestartManager \/ RestartProvisioner
      BY <2>4, Zenon DEF Disconnect, RestartManager, RestartProvisioner, storeVars
    <2> QED
      BY <1>6, <2>1, <2>2, <2>3, <2>4 DEF RotNext, RotStep
  <1> QED
    BY <1>1, <1>4, <1>5, <1>6

\* What RolledBackIsRestored asks of one step.
RestoresWhole ==
    \A o \in Ops :
       ( /\ ops[o] # None /\ ops[o].status = "ROLLING_BACK" /\ ops'[o].status = "ROLLED_BACK"
         /\ \A q \in Ops \ {o} : ops[q] = None
         /\ o \notin retried )
       => secret[Server] = dbpw /\ env = dbpw /\ running = dbpw

LEMMA FirstWhole ==
  ASSUME ProcessInv, [RotNext]_rotVars, NEW o \in Ops, FirstAlone(o), FirstDrive(o)
  PROVE  RestoresWhole
  <1> SUFFICES ASSUME NEW q \in Ops, ops[q] # None, ops[q].status = "ROLLING_BACK",
                      ops'[q].status = "ROLLED_BACK"
               PROVE  secret[Server] = dbpw /\ env = dbpw /\ running = dbpw
    BY DEF RestoresWhole
  <1>1. q = o
    BY DEF FirstAlone
  <1>2. PICK w \in Workers : worker[w].pc = "complete"
    BY <1>1, FirstReport
  <1> QED
    BY <1>2 DEF FirstDrive, Steady, Whole

\* When the first rotation of a server is reported as rolled back
\* (CompleteRollback), the stored secret, the roles, the selected files and the
\* containers agree on the password again: whatever commands failed and
\* connections were lost, and however often the Provisioner was restarted, as
\* long as no resumed goroutine took the rotation over.
THEOREM FirstRollbackRestores ==
  ASSUME NEW first \in Ops
  PROVE  RotSpec /\ []FirstAlone(first) => RolledBackIsRestored
  <1>1. RotInit => ProcessInv /\ FirstDrive(first)
    BY InitProcess, InitFirst
  <1>2. /\ ProcessInv /\ FirstDrive(first) /\ [RotNext]_rotVars /\ FirstAlone(first) /\ FirstAlone(first)'
        => (ProcessInv /\ FirstDrive(first))'
    BY ProcessStep, FirstStep
  <1>3. ProcessInv /\ FirstDrive(first) /\ [RotNext]_rotVars /\ FirstAlone(first) => RestoresWhole
    BY FirstWhole
  <1> QED
    BY <1>1, <1>2, <1>3, PTL DEF RotSpec, RolledBackIsRestored, RestoresWhole
=============================================================================
