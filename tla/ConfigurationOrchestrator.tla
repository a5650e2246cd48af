----------------------- MODULE ConfigurationOrchestrator -----------------------
(***************************************************************************)
(* Ordinary configuration updates: the dashboard's request handlers, the   *)
(* goroutines that apply an admitted update, and the scheduler that        *)
(* resumes them after a restart (configuration/orchestrator.go,            *)
(* httpapi/configuration.go, cmd/manager/main.go).                         *)
(*                                                                         *)
(* They share the tables of ConfigurationStore and, within one Manager     *)
(* process, a lock per project and a registry of leases.  A goroutine is a *)
(* straight-line program: the sequence of calls it still has to make.      *)
(* Calls of the operation service are two steps, a status check and an     *)
(* unconditional write.  The Provisioner is what Run uses of it: a call    *)
(* that applies the configuration it is given, or fails.  Projects are not *)
(* deleted here, and but for a deadline the only queries that fail are the *)
(* two a goroutine makes before it has set up its deferred calls.          *)
(***************************************************************************)
EXTENDS ConfigurationStore, Sequences

CONSTANTS
    Handlers,     \* dashboard requests and the goroutine each starts
    Resumers,     \* goroutines started by Resume
    PreSteps,     \* progress writes before the runtime call (7 in Run)
    PostSteps,    \* progress writes after it (3 in Run)
    MaxFaults     \* bound on restarts, missed deadlines and failed reads

Procs == Handlers \cup Resumers

VARIABLES
    lock,       \* the project's one-slot channel is full
    registry,   \* the leases this process believes it holds
    proc,       \* request handlers and goroutines
    ticker,     \* the scheduler
    aged,       \* operations created more than an hour ago
    runtime,    \* the configuration the Provisioner applied last
    faults,
    company     \* history: goroutines that have shared their project with another

orchVars == <<storeVars, lock, registry, proc, ticker, aged, runtime, faults, company>>

Idle == [pc |-> "idle", project |-> None, op |-> None, seen |-> "", expected |-> 1,
         fence |-> 0, snap |-> None, todo |-> <<>>, checked |-> FALSE, creator |-> FALSE]
Resting == [pc |-> "idle", entries |-> {}, project |-> None, op |-> None, seen |-> ""]

Steps(n) == [i \in 1..n |-> "Step"]

\* The deferred calls of Run; Resume's goroutine defers its own on top of them.
Exit(w) ==
    IF w \in Handlers THEN <<"ReleaseLease", "Release">>
    ELSE <<"ReleaseLease", "Release", "ReleaseToken", "Release">>

\* Run, from the point where it has read the canonical configuration.
Program(w, seen) ==
    IF seen \notin Active THEN Exit(w)
    ELSE (IF seen = "QUEUED" THEN <<"Start">> ELSE <<>>)
           \o Steps(PreSteps) \o <<"Reconcile">> \o Steps(PostSteps)
           \o <<"Commit", "Succeed">> \o Exit(w)

FailProgram(w, rollback) ==
    (IF rollback THEN <<"Fail", "BeginRollback", "CompleteRollback">> ELSE <<"Fail">>) \o Exit(w)

Required ==
    [Start |-> "QUEUED", Step |-> "RUNNING", Succeed |-> "RUNNING", Fail |-> "RUNNING",
     BeginRollback |-> "FAILED", CompleteRollback |-> "ROLLING_BACK"]
Result ==
    [Start |-> "RUNNING", Step |-> "RUNNING", Succeed |-> "SUCCEEDED", Fail |-> "FAILED",
     BeginRollback |-> "ROLLING_BACK", CompleteRollback |-> "ROLLED_BACK"]
ServiceCalls == DOMAIN Required

ASSUME OrchestratorAssumption ==
    /\ Handlers \cap Resumers = {}
    /\ PreSteps \in Nat /\ PostSteps \in Nat /\ MaxFaults \in Nat
    /\ \A m \in ServiceCalls : Result[m] \in StatusWrites

OrchInit ==
    /\ Init
    /\ lock = [p \in Projects |-> FALSE]
    /\ registry = [p \in Projects |-> None]
    /\ proc = [w \in Procs |-> Idle]
    /\ ticker = Resting
    /\ aged = {}
    /\ runtime = canonical
    /\ faults = 0
    /\ company = {}

\* At work on p: running an operation or closing an old one.
Busy(w, p) == proc[w].project = p /\ proc[w].pc \in {"expire", "work"}

\* w begins to work on p.
Joins(w, p) ==
    LET others == {v \in Procs \ {w} : Busy(v, p)} IN
    company' = IF others = {} THEN company \ {w} ELSE company \cup others \cup {w}

ActiveOps(p) == {o \in Ops : ops[o] # None /\ ops[o].project = p /\ ops[o].status \in Active}

-----------------------------------------------------------------------------
(* QueuePatch.                                                             *)

\* tryAcquire; a full channel is answered with "busy".
Lock(h, p) ==
    /\ proc[h].pc = "idle"
    /\ ~lock[p]
    /\ lock' = [lock EXCEPT ![p] = TRUE]
    /\ proc' = [proc EXCEPT ![h] = [Idle EXCEPT !.pc = "read", !.project = p]]
    /\ UNCHANGED <<storeVars, registry, ticker, aged, runtime, faults, company>>

\* The canonical aggregate, whose revision admission will expect.
ReadCanonical(h) ==
    /\ proc[h].pc = "read"
    /\ proc' = [proc EXCEPT ![h].pc = "find", ![h].expected = rev[proc[h].project]]
    /\ UNCHANGED <<storeVars, lock, registry, ticker, aged, runtime, faults, company>>

\* An active operation is reused unless it is older than an hour; the lock is
\* then given back, and the handler goes on to run that operation.  The query
\* returns the latest operation: identifiers are random, so among operations
\* of equal creation time it may be any.
FindActiveOperation(h) ==
    LET p == proc[h].project IN
    /\ proc[h].pc = "find"
    /\ \/ /\ ActiveOps(p) = {}
          /\ proc' = [proc EXCEPT ![h].pc = "admit"]
          /\ UNCHANGED <<lock, company>>
       \/ /\ Joins(h, p)
          /\ \E o \in ActiveOps(p) :
               \/ /\ o \in aged
                  /\ proc' = [proc EXCEPT ![h].pc = "expire", ![h].op = o,
                                ![h].todo = IF ops[o].status = "QUEUED" THEN <<"Start", "Fail">>
                                            ELSE <<"Fail">>]
                  /\ lock' = lock
               \/ /\ o \notin aged
                  /\ proc' = [proc EXCEPT ![h].pc = "work", ![h].op = o, ![h].seen = ops[o].status,
                                ![h].todo = <<"Snapshot">>]
                  /\ lock' = [lock EXCEPT ![p] = FALSE]
    /\ UNCHANGED <<storeVars, registry, ticker, aged, runtime, faults>>

\* The stale operation is started, if need be, and failed; errors are ignored.
Expire(h) ==
    LET o == proc[h].op
        m == Head(proc[h].todo)
    IN
    /\ proc[h].pc = "expire"
    /\ IF proc[h].todo = <<>>
         THEN /\ proc' = [proc EXCEPT ![h].pc = "admit", ![h].op = None]
              /\ UNCHANGED storeVars
         ELSE IF ~proc[h].checked
         THEN /\ proc' = IF ops[o].status = Required[m]
                           THEN [proc EXCEPT ![h].checked = TRUE]
                           ELSE [proc EXCEPT ![h].todo = Tail(@)]
              /\ UNCHANGED storeVars
         ELSE /\ UpdateOperation(o, Result[m])
              /\ proc' = [proc EXCEPT ![h].checked = FALSE, ![h].todo = Tail(@)]
    /\ UNCHANGED <<lock, registry, ticker, aged, runtime, faults, company>>

\* Mutant: a refused admission keeps the lock.
AdmitKeepsLock(h) ==
    LET p == proc[h].project IN
    /\ proc[h].pc = "admit"
    /\ \/ \E o \in Ops, c \in Admissible(p) :
            /\ AdmitConfiguration(p, o, proc[h].expected, c, None)
            /\ registry' = [registry EXCEPT ![p] = [owner |-> o, fence |-> lease'[p].fence]]
            /\ proc' = [proc EXCEPT ![h].pc = "work", ![h].op = o, ![h].seen = "QUEUED",
                          ![h].creator = TRUE, ![h].todo = <<"Snapshot">>]
            /\ Joins(h, p)
       \/ /\ proc' = [proc EXCEPT ![h] = Idle]
          /\ company' = company \ {h}
          /\ UNCHANGED <<storeVars, registry>>
    /\ UNCHANGED <<lock, ticker, aged, runtime, faults>>

\* Admission succeeds and registers the lease, or the request is refused (the
\* patch is invalid, no port is free, the lease is held) and gives the lock back.
Admit(h) ==
    LET p == proc[h].project IN
    /\ proc[h].pc = "admit"
    /\ \/ \E o \in Ops, c \in Admissible(p) :
            /\ AdmitConfiguration(p, o, proc[h].expected, c, None)
            /\ registry' = [registry EXCEPT ![p] = [owner |-> o, fence |-> lease'[p].fence]]
            /\ proc' = [proc EXCEPT ![h].pc = "work", ![h].op = o, ![h].seen = "QUEUED",
                          ![h].creator = TRUE, ![h].todo = <<"Snapshot">>]
            /\ Joins(h, p)
            /\ UNCHANGED lock
       \/ /\ lock' = [lock EXCEPT ![p] = FALSE]
          /\ proc' = [proc EXCEPT ![h] = Idle]
          /\ company' = company \ {h}
          /\ UNCHANGED <<storeVars, registry>>
    /\ UNCHANGED <<ticker, aged, runtime, faults>>

-----------------------------------------------------------------------------
(* Run.                                                                    *)

Next1(w) == Head(proc[w].todo)
Working(w) == proc[w].pc = "work" /\ proc[w].todo # <<>>
Advance(w) == proc' = [proc EXCEPT ![w].todo = Tail(@), ![w].checked = FALSE]
Ends(w) == proc' = [proc EXCEPT ![w] = Idle] /\ company' = company \ {w}

\* A goroutine ends with the last of its deferred calls.
Finish(w) == IF Tail(proc[w].todo) = <<>> THEN Ends(w) ELSE Advance(w) /\ UNCHANGED company

\* Mutant: the goroutine applies the last good configuration, not the saved one.
SnapshotLastGood(w) ==
    /\ Working(w) /\ Next1(w) = "Snapshot"
    /\ LET p == proc[w].project IN
       proc' = [proc EXCEPT ![w].snap = rows[p][lastGood[p]].config,
                            ![w].todo = Program(w, proc[w].seen)]
    /\ UNCHANGED <<storeVars, lock, registry, ticker, aged, runtime, faults, company>>

Snapshot(w) ==
    /\ Working(w) /\ Next1(w) = "Snapshot"
    /\ proc' = [proc EXCEPT ![w].snap = canonical[proc[w].project],
                            ![w].todo = Program(w, proc[w].seen)]
    /\ UNCHANGED <<storeVars, lock, registry, ticker, aged, runtime, faults, company>>

\* Mutant: the status the goroutine was handed stands for the row's.
CheckSeen(w) ==
    /\ Working(w) /\ Next1(w) \in ServiceCalls /\ ~proc[w].checked
    /\ proc' = [proc EXCEPT ![w].checked = TRUE]
    /\ UNCHANGED <<storeVars, lock, registry, ticker, aged, runtime, faults, company>>

\* Mutant: a refusal is waited out, as if another driver had to move first.
CheckWaits(w) ==
    /\ Working(w) /\ Next1(w) \in ServiceCalls /\ ~proc[w].checked
    /\ ops[proc[w].op].status = Required[Next1(w)]
    /\ proc' = [proc EXCEPT ![w].checked = TRUE]
    /\ UNCHANGED <<storeVars, lock, registry, ticker, aged, runtime, faults, company>>

\* requireStatus.  A refusal ends Run, except that fail ignores the error of
\* Fail and still tries the rollback.
Check(w) ==
    /\ Working(w) /\ Next1(w) \in ServiceCalls /\ ~proc[w].checked
    /\ IF ops[proc[w].op].status = Required[Next1(w)]
         THEN proc' = [proc EXCEPT ![w].checked = TRUE]
         ELSE proc' = [proc EXCEPT ![w].todo = IF Next1(w) = "Fail" THEN Tail(@) ELSE Exit(w)]
    /\ UNCHANGED <<storeVars, lock, registry, ticker, aged, runtime, faults, company>>

Write(w) ==
    /\ Working(w) /\ Next1(w) \in ServiceCalls /\ proc[w].checked
    /\ UpdateOperation(proc[w].op, Result[Next1(w)])
    /\ Advance(w)
    /\ UNCHANGED <<lock, registry, ticker, aged, runtime, faults, company>>

\* Validation, secret decryption or the verification of the result fails.
Falter(w) ==
    /\ Working(w) /\ Next1(w) = "Step" /\ proc[w].checked
    /\ proc' = [proc EXCEPT ![w].todo = FailProgram(w, FALSE), ![w].checked = FALSE]
    /\ UNCHANGED <<storeVars, lock, registry, ticker, aged, runtime, faults, company>>

Applied(w) == runtime' = [runtime EXCEPT ![proc[w].project] = proc[w].snap]

\* External: the Provisioner applies the snapshot, or fails; a failure it has
\* rolled back leaves the runtime, another may leave it either way.
Reconcile(w) ==
    /\ Working(w) /\ Next1(w) = "Reconcile"
    /\ \/ Applied(w) /\ Advance(w)
       \/ /\ proc' = [proc EXCEPT ![w].todo = FailProgram(w, TRUE)]
          /\ UNCHANGED runtime
       \/ /\ proc' = [proc EXCEPT ![w].todo = FailProgram(w, FALSE)]
          /\ Applied(w) \/ UNCHANGED runtime
    /\ UNCHANGED <<storeVars, lock, registry, ticker, aged, faults, company>>

Commit(w) ==
    /\ Working(w) /\ Next1(w) = "Commit"
    /\ CommitCanonicalConfiguration(proc[w].project)
    /\ Advance(w)
    /\ UNCHANGED <<lock, registry, ticker, aged, runtime, faults, company>>

\* releaseLease gives back whatever lease is registered for the project.
ReleaseLease(w) ==
    LET p == proc[w].project IN
    /\ Working(w) /\ Next1(w) = "ReleaseLease"
    /\ IF registry[p] = None THEN UNCHANGED storeVars
       ELSE ReleaseConfigurationLeaseOwned(p, registry[p].owner, registry[p].fence)
    /\ registry' = [registry EXCEPT ![p] = None]
    /\ Finish(w)
    /\ UNCHANGED <<lock, ticker, aged, runtime, faults>>

releaseLeaseToken(w) ==
    LET p == proc[w].project
        token == [owner |-> proc[w].op, fence |-> proc[w].fence]
    IN
    /\ Working(w) /\ Next1(w) = "ReleaseToken"
    /\ registry' = IF registry[p] = token THEN [registry EXCEPT ![p] = None] ELSE registry
    /\ ReleaseConfigurationLeaseOwned(p, token.owner, token.fence)
    /\ Advance(w)
    /\ UNCHANGED <<lock, ticker, aged, runtime, faults, company>>

\* release drains the channel, whoever filled it; the goroutine ends with it.
Release(w) ==
    /\ Working(w) /\ Next1(w) = "Release"
    /\ lock' = [lock EXCEPT ![proc[w].project] = FALSE]
    /\ Finish(w)
    /\ UNCHANGED <<storeVars, registry, ticker, aged, runtime, faults>>

\* The 45-minute context of a request's goroutine ends: every further call
\* fails, the one that would record the failure included.  The Provisioner may
\* or may not have finished a call that was under way.
Deadline(h) ==
    /\ proc[h].pc = "work" /\ faults < MaxFaults
    /\ Working(h) /\ Next1(h) \notin {"Snapshot", "ReleaseLease", "Release"}
    /\ proc' = [proc EXCEPT ![h].todo = Exit(h), ![h].checked = FALSE]
    /\ \/ UNCHANGED runtime
       \/ Next1(h) = "Reconcile" /\ Applied(h)
    /\ faults' = faults + 1
    /\ UNCHANGED <<storeVars, lock, registry, ticker, aged, company>>

\* The goroutine's query of the project fails: Release gives lock and lease
\* back, and the operation is left as it is.
LookupFails(h) ==
    /\ Working(h) /\ Next1(h) = "Snapshot" /\ faults < MaxFaults
    /\ proc' = [proc EXCEPT ![h].todo = <<"Release", "ReleaseLease">>]
    /\ faults' = faults + 1
    /\ UNCHANGED <<storeVars, lock, registry, ticker, aged, runtime, company>>

\* Run's query of the configuration fails before release and releaseLease are
\* deferred: a request's goroutine ends with the lock and the lease taken, a
\* resumed one still makes the deferred calls of Resume.
ReadFails(w) ==
    /\ Working(w) /\ Next1(w) = "Snapshot" /\ faults < MaxFaults
    /\ IF w \in Handlers THEN Ends(w)
       ELSE /\ proc' = [proc EXCEPT ![w].todo = <<"ReleaseToken", "Release">>]
            /\ UNCHANGED company
    /\ faults' = faults + 1
    /\ UNCHANGED <<storeVars, lock, registry, ticker, aged, runtime>>

-----------------------------------------------------------------------------
(* Resume: at startup and once a minute.                                   *)

ListActive ==
    /\ ticker.pc = "idle"
    /\ ticker' = [ticker EXCEPT !.pc = "list",
                    !.entries = {[op |-> o, project |-> ops[o].project, seen |-> ops[o].status] :
                                   o \in UNION {ActiveOps(p) : p \in Projects}}]
    /\ UNCHANGED <<storeVars, lock, registry, proc, aged, runtime, faults, company>>

\* The entries were read together; by now they may be out of date.
ResumeLock ==
    /\ ticker.pc = "list"
    /\ \/ /\ ticker.entries = {}
          /\ ticker' = Resting
          /\ UNCHANGED lock
       \/ \E e \in ticker.entries :
            LET rest == [ticker EXCEPT !.entries = @ \ {e}] IN
            IF lock[e.project]
              THEN ticker' = rest /\ UNCHANGED lock
              ELSE /\ ticker' = [rest EXCEPT !.pc = "lease", !.project = e.project, !.op = e.op,
                                             !.seen = e.seen]
                   /\ lock' = [lock EXCEPT ![e.project] = TRUE]
    /\ UNCHANGED <<storeVars, registry, proc, aged, runtime, faults, company>>

ResumeLease ==
    LET p == ticker.project
        o == ticker.op
    IN
    /\ ticker.pc = "lease"
    /\ \/ \E r \in Resumers :
            /\ proc[r].pc = "idle"
            /\ AcquireConfigurationLeaseForOperation(p, o)
            /\ registry' = [registry EXCEPT ![p] = [owner |-> o, fence |-> lease'[p].fence]]
            /\ proc' = [proc EXCEPT ![r] = [Idle EXCEPT !.pc = "work", !.project = p, !.op = o,
                                              !.seen = ticker.seen, !.fence = lease'[p].fence,
                                              !.todo = <<"Snapshot">>]]
            /\ Joins(r, p)
            /\ UNCHANGED lock
       \/ /\ ~CanTakeLease(p)
          /\ lock' = [lock EXCEPT ![p] = FALSE]
          /\ UNCHANGED <<storeVars, registry, proc, company>>
    /\ ticker' = [ticker EXCEPT !.pc = "list", !.project = None, !.op = None, !.seen = ""]
    /\ UNCHANGED <<aged, runtime, faults>>

-----------------------------------------------------------------------------
(* Time and faults.                                                        *)

Time(p) ==
    /\ ExpireLease(p)
    /\ UNCHANGED <<lock, registry, proc, ticker, aged, runtime, faults, company>>

\* An hour after its admission.  The goroutine of the admitting request has
\* been without its context for fifteen minutes by then.
Age(o) ==
    /\ ops[o] # None /\ o \notin aged
    /\ ~\E h \in Handlers : proc[h].pc = "work" /\ proc[h].op = o /\ proc[h].creator
    /\ aged' = aged \cup {o}
    /\ UNCHANGED <<storeVars, lock, registry, proc, ticker, runtime, faults, company>>

\* The process ends and another starts: memory is lost, the tables are not,
\* and a call the Provisioner was working on may have taken effect.
Restart ==
    /\ faults < MaxFaults
    /\ faults' = faults + 1
    /\ lock' = [p \in Projects |-> FALSE]
    /\ registry' = [p \in Projects |-> None]
    /\ proc' = [w \in Procs |-> Idle]
    /\ ticker' = Resting
    /\ company' = {}
    /\ \/ UNCHANGED runtime
       \/ \E w \in Procs : Working(w) /\ Next1(w) = "Reconcile" /\ Applied(w)
    /\ UNCHANGED <<storeVars, aged>>

-----------------------------------------------------------------------------

QueuePatch(h) ==
    \/ \E p \in Projects : Lock(h, p)
    \/ ReadCanonical(h) \/ FindActiveOperation(h) \/ Expire(h) \/ Admit(h)

Run(w) ==
    \/ Snapshot(w) \/ Check(w) \/ Write(w) \/ Falter(w) \/ Reconcile(w) \/ Commit(w)
    \/ ReleaseLease(w) \/ Release(w)

Resume == ListActive \/ ResumeLock \/ ResumeLease

OrchNext ==
    \/ \E h \in Handlers : QueuePatch(h) \/ Run(h) \/ Deadline(h) \/ LookupFails(h)
    \/ \E r \in Resumers : Run(r) \/ releaseLeaseToken(r)
    \/ \E w \in Procs : ReadFails(w)
    \/ Resume
    \/ Restart
    \/ \E p \in Projects : Time(p)
    \/ \E o \in Ops : Age(o)

\* Goroutines run, the scheduler's ticker ticks and leases run out.  A request
\* that holds the lock goes on; nobody has to send another one.
Fairness ==
    /\ \A h \in Handlers :
          /\ WF_orchVars(ReadCanonical(h) \/ FindActiveOperation(h) \/ Expire(h) \/ Admit(h))
          /\ WF_orchVars(Run(h))
    /\ \A r \in Resumers : WF_orchVars(Run(r) \/ releaseLeaseToken(r))
    /\ WF_orchVars(Resume)
    /\ \A p \in Projects : WF_orchVars(Time(p))

OrchSpec == OrchInit /\ [][OrchNext]_orchVars
FairSpec == OrchSpec /\ Fairness

-----------------------------------------------------------------------------
(* Properties.                                                             *)

\* w will drain the channel of p before it ends.
Drains(todo) == \E i \in 1..Len(todo) : todo[i] \in {"Snapshot", "Release"}
WillRelease(w, p) ==
    /\ proc[w].project = p
    /\ \/ proc[w].pc \in {"read", "find", "expire", "admit"}
       \/ proc[w].pc = "work" /\ Drains(proc[w].todo)

\* The channel of p is full and nobody is left to drain it.
Orphaned(p) ==
    /\ lock[p]
    /\ ~(ticker.pc = "lease" /\ ticker.project = p)
    /\ ~\E w \in Procs : WillRelease(w, p)

\* However requests, resumed goroutines and the ticker hand the channel on, and
\* although any of them may drain another's, it loses its last owner in one way
\* only: Run's read of the configuration failed in a request's goroutine.
LockHasOwner ==
    [][\A p \in Projects : Orphaned(p)' /\ ~Orphaned(p) =>
          \E h \in Handlers : proc[h].project = p /\ ReadFails(h)]_orchVars

\* "marks the canonical value as applied after the Provisioner has successfully
\* reconciled the runtime" (store/configuration.go:391): what becomes last-good
\* is what runs, over crashes, deadlines and resumption, unless another
\* goroutine was at work on the project in the meantime, which neither the
\* channel nor the lease prevents once an operation is handed over.
CommittedIsApplied ==
    [][\A w \in Procs \ company : Commit(w) =>
          runtime[proc[w].project] = canonical[proc[w].project]]_orchVars

\* An ended operation stays ended although UpdateOperation writes any status
\* over any other, and although requests and the scheduler start goroutines on
\* what they read earlier: only one that had company can write over the end.
EndIsFinal ==
    [][\A o \in Ops :
          /\ ops[o] # None /\ ops[o].status \in {"SUCCEEDED", "ROLLED_BACK"}
          /\ ops'[o].status # ops[o].status
          => \E w \in company : proc[w].op = o]_orchVars

\* Every admitted operation ends, across restarts, missed deadlines and failed
\* reads: the scheduler finds what a goroutine left behind once its lease has
\* run out, unless the project's channel is orphaned.
OperationsEnd ==
    \A o \in Ops :
        []<>(ops[o] = None \/ ops[o].status \notin Active \/ Orphaned(ops[o].project))

\* No project is busy forever: whoever fills the channel, it is drained again,
\* or it was orphaned.
LockIsReturned == \A p \in Projects : []<>(~lock[p] \/ Orphaned(p))

=============================================================================
