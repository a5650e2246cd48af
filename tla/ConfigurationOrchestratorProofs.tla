-------------------- MODULE ConfigurationOrchestratorProofs --------------------
(***************************************************************************)
(* Proofs about the configuration orchestrator, with any requests, resumed *)
(* goroutines, restarts, missed deadlines and failed reads.  Every step it *)
(* takes is a transaction of ConfigurationStore or leaves the tables       *)
(* alone, so the theorems about the store hold of the Manager.  A          *)
(* project's channel loses its last owner only through a failed read.      *)
(* And what a goroutine that was alone at work on its project commits is   *)
(* what runs, and it never opens an ended operation.                       *)
(***************************************************************************)
EXTENDS ConfigurationOrchestrator, ConfigurationStoreProofs, SequenceTheorems

-----------------------------------------------------------------------------
(* The shape of the process's memory.                                      *)

Calls == {"Start", "Step", "Succeed", "Fail", "BeginRollback", "CompleteRollback",
          "Snapshot", "Reconcile", "Commit", "ReleaseLease", "ReleaseToken", "Release"}
Token == [owner : Ops, fence : Fences]
PCs == {"idle", "read", "find", "expire", "admit", "work"}

Worker == [pc : PCs, project : Projects \cup {None}, op : Ops \cup {None},
           seen : Statuses \cup {""}, expected : Revisions, fence : Fences \cup {0},
           snap : Configs \cup {None}, todo : Seq(Calls), checked : BOOLEAN,
           creator : BOOLEAN]

\* A worker's fields are those of a goroutine that has come this far.
WorkerOK(w, r) ==
    /\ r \in Worker
    /\ r.pc # "idle" => r.project \in Projects
    /\ r.pc \in {"expire", "work"} => r.op \in Ops
    /\ r.pc = "expire" => r.todo \in Seq({"Start", "Fail"})
    /\ r.pc = "work" /\ w \in Resumers => r.fence \in Fences

Entry == [op : Ops, project : Projects, seen : Active]
TickerOK ==
    /\ ticker \in [pc : {"idle", "list", "lease"}, entries : SUBSET Entry,
                   project : Projects \cup {None}, op : Ops \cup {None},
                   seen : Active \cup {""}]
    /\ ticker.pc = "lease" => ticker.project \in Projects /\ ticker.op \in Ops

MemoryOK ==
    /\ lock \in [Projects -> BOOLEAN]
    /\ registry \in [Projects -> Token \cup {None}]
    /\ proc \in [Procs -> Worker]
    /\ \A w \in Procs : WorkerOK(w, proc[w])
    /\ TickerOK
    /\ runtime \in [Projects -> Configs \cup {None}]

LEMMA CallTypes ==
  /\ ServiceCalls \subseteq Calls
  /\ \A m \in ServiceCalls : Result[m] \in StatusWrites /\ Result[m] \in Statuses
  BY OrchestratorAssumption, ConstantsAssumption DEF ServiceCalls, Required, Calls

LEMMA StepsType ==
  ASSUME NEW n \in Nat
  PROVE  /\ Steps(n) \in Seq(Calls)
         /\ Len(Steps(n)) = n
         /\ \A i \in 1..n : Steps(n)[i] = "Step"
  BY DEF Steps, Calls

LEMMA ExitType == ASSUME NEW w PROVE Exit(w) \in Seq(Calls)
  <1>1. <<"ReleaseLease", "Release">> \in Seq(Calls)
    BY DEF Calls
  <1>2. <<"ReleaseLease", "Release", "ReleaseToken", "Release">> \in Seq(Calls)
    BY DEF Calls
  <1> QED
    BY <1>1, <1>2 DEF Exit

LEMMA ProgramType == ASSUME NEW w, NEW s PROVE Program(w, s) \in Seq(Calls)
  <1>1. <<"Start">> \in Seq(Calls) /\ <<"Reconcile">> \in Seq(Calls)
          /\ <<>> \in Seq(Calls) /\ <<"Commit", "Succeed">> \in Seq(Calls)
    BY DEF Calls
  <1>2. Steps(PreSteps) \in Seq(Calls) /\ Steps(PostSteps) \in Seq(Calls)
    BY OrchestratorAssumption, StepsType
  <1> QED
    BY <1>1, <1>2, ExitType, ConcatProperties DEF Program

LEMMA FailProgramType == ASSUME NEW w, NEW b \in BOOLEAN PROVE FailProgram(w, b) \in Seq(Calls)
  <1>1. <<"Fail", "BeginRollback", "CompleteRollback">> \in Seq(Calls) /\ <<"Fail">> \in Seq(Calls)
    BY DEF Calls
  <1> QED
    BY <1>1, ExitType, ConcatProperties DEF FailProgram

\* One worker's record changes.
LEMMA OneWorker ==
  ASSUME proc \in [Procs -> Worker], \A v \in Procs : WorkerOK(v, proc[v]),
         NEW w \in Procs, NEW r, WorkerOK(w, r), proc' = [proc EXCEPT ![w] = r]
  PROVE  /\ proc' \in [Procs -> Worker]
         /\ \A v \in Procs : WorkerOK(v, proc'[v])
         /\ proc'[w] = r
         /\ \A v \in Procs : v # w => proc'[v] = proc[v]
  <1>1. r \in Worker
    BY DEF WorkerOK
  <1> QED
    BY <1>1

LEMMA IdleOK == ASSUME NEW w PROVE WorkerOK(w, Idle)
  <1>0. <<>> \in Seq(Calls) /\ 1 \in Revisions
    BY ConstantsAssumption DEF Revisions
  <1>1. Idle \in Worker
    BY <1>0 DEF Idle, Worker, PCs
  <1> QED
    BY <1>1 DEF WorkerOK, Idle

\* The fields a step assigns keep the record a worker's record.
LEMMA Assign ==
  ASSUME NEW r \in Worker
  PROVE  /\ \A v \in PCs : [r EXCEPT !.pc = v] \in Worker
         /\ \A v \in Projects : [r EXCEPT !.project = v] \in Worker
         /\ \A v \in Ops \cup {None} : [r EXCEPT !.op = v] \in Worker
         /\ \A v \in Statuses \cup {""} : [r EXCEPT !.seen = v] \in Worker
         /\ \A v \in Revisions : [r EXCEPT !.expected = v] \in Worker
         /\ \A v \in Fences : [r EXCEPT !.fence = v] \in Worker
         /\ \A v \in Configs : [r EXCEPT !.snap = v] \in Worker
         /\ \A v \in Seq(Calls) : [r EXCEPT !.todo = v] \in Worker
         /\ \A v \in BOOLEAN : [r EXCEPT !.checked = v] \in Worker
         /\ \A v \in BOOLEAN : [r EXCEPT !.creator = v] \in Worker
  BY ZenonT(60) DEF Worker
-----------------------------------------------------------------------------
(* Each step keeps the memory in shape.                                    *)

\* A step of worker w that leaves the ticker, and writes lock, registry and
\* runtime at most at w's project.
LEMMA MemoryStep ==
  ASSUME MemoryOK, NEW w \in Procs, NEW r, WorkerOK(w, r), proc' = [proc EXCEPT ![w] = r],
         lock' \in [Projects -> BOOLEAN], registry' \in [Projects -> Token \cup {None}],
         runtime' \in [Projects -> Configs \cup {None}], ticker' = ticker
  PROVE  MemoryOK'
  <1>1. proc' \in [Procs -> Worker] /\ \A v \in Procs : WorkerOK(v, proc'[v])
    BY OneWorker DEF MemoryOK
  <1>2. TickerOK'
    BY DEF MemoryOK, TickerOK
  <1>3. \A v \in Procs : WorkerOK(v, proc[v])'
    BY <1>1 DEF WorkerOK
  <1> QED
    BY <1>1, <1>2, <1>3 DEF MemoryOK

LEMMA LockMemory ==
  ASSUME MemoryOK, NEW h \in Handlers, NEW p \in Projects, Lock(h, p)
  PROVE  MemoryOK'
  <1> DEFINE r == [Idle EXCEPT !.pc = "read", !.project = p]
  <1>1. Idle \in Worker
    BY IdleOK DEF WorkerOK
  <1>2. r = [[Idle EXCEPT !.pc = "read"] EXCEPT !.project = p]
    BY DEF Idle
  <1>3. r \in Worker
    BY <1>1, <1>2, Assign DEF PCs
  <1>4. r.pc = "read" /\ r.project = p
    BY DEF Idle
  <1>5. WorkerOK(h, r)
    BY <1>3, <1>4 DEF WorkerOK
  <1> QED
    BY <1>5, MemoryStep DEF Lock, MemoryOK, Procs

LEMMA ReadMemory ==
  ASSUME TypeOK, MemoryOK, NEW h \in Handlers, ReadCanonical(h)
  PROVE  MemoryOK'
  <1> DEFINE r == [[proc[h] EXCEPT !.pc = "find"] EXCEPT !.expected = rev[proc[h].project]]
  <1>1. h \in Procs /\ proc[h] \in Worker /\ proc[h].project \in Projects
    BY DEF MemoryOK, WorkerOK, ReadCanonical, Procs
  <1>2. r \in Worker
    BY <1>1, Assign DEF PCs, TypeOK
  <1>3. r.pc = "find" /\ r.project = proc[h].project
    BY <1>1 DEF Worker
  <1>4. WorkerOK(h, r)
    BY <1>1, <1>2, <1>3 DEF WorkerOK
  <1>5. proc' = [proc EXCEPT ![h] = r]
    BY <1>1 DEF ReadCanonical, MemoryOK, Worker
  <1> QED
    BY <1>1, <1>4, <1>5, MemoryStep DEF ReadCanonical, MemoryOK
LEMMA FindMemory ==
  ASSUME TypeOK, MemoryOK, NEW h \in Handlers, FindActiveOperation(h)
  PROVE  MemoryOK'
  <1> DEFINE p == proc[h].project
  <1>1. h \in Procs /\ proc[h] \in Worker /\ p \in Projects /\ h \notin Resumers
    BY OrchestratorAssumption DEF MemoryOK, WorkerOK, FindActiveOperation, Procs
  <1>2. proc \in [Procs -> Worker] /\ lock \in [Projects -> BOOLEAN]
    BY DEF MemoryOK
  <1>3. CASE ActiveOps(p) = {} /\ proc' = [proc EXCEPT ![h].pc = "admit"] /\ lock' = lock
    <2> DEFINE r == [proc[h] EXCEPT !.pc = "admit"]
    <2>0. r \in Worker
      BY <1>1, Assign DEF PCs
    <2>1. r.pc = "admit" /\ r.project = p
      BY <1>1 DEF Worker
    <2>2. WorkerOK(h, r)
      BY <1>1, <2>0, <2>1 DEF WorkerOK
    <2>3. proc' = [proc EXCEPT ![h] = r]
      BY <1>1, <1>2, <1>3
    <2> QED
      BY <1>1, <1>3, <2>2, <2>3, MemoryStep DEF FindActiveOperation, MemoryOK
  <1>4. ASSUME NEW o \in ActiveOps(p), o \in aged, lock' = lock,
               proc' = [proc EXCEPT ![h].pc = "expire", ![h].op = o,
                          ![h].todo = IF ops[o].status = "QUEUED" THEN <<"Start", "Fail">>
                                      ELSE <<"Fail">>]
        PROVE  MemoryOK'
    <2> DEFINE t == IF ops[o].status = "QUEUED" THEN <<"Start", "Fail">> ELSE <<"Fail">>
    <2>0. /\ <<"Start", "Fail">> \in Seq({"Start", "Fail"})
          /\ <<"Fail">> \in Seq({"Start", "Fail"})
          /\ Seq({"Start", "Fail"}) \subseteq Seq(Calls)
      BY DEF Calls
    <2>1. t \in Seq({"Start", "Fail"}) /\ t \in Seq(Calls)
      BY <2>0
    <2>2. o \in Ops
      BY DEF ActiveOps
    <2> HIDE DEF t
    <2> DEFINE r == [[[proc[h] EXCEPT !.pc = "expire"] EXCEPT !.op = o] EXCEPT !.todo = t]
    <2>3. r \in Worker
      BY <1>1, <2>1, <2>2, Assign DEF PCs
    <2>4. r.pc = "expire" /\ r.op = o /\ r.todo = t /\ r.project = p
      BY <1>1 DEF Worker
    <2>5. WorkerOK(h, r)
      BY <1>1, <2>1, <2>2, <2>3, <2>4 DEF WorkerOK
    <2>6. proc' = [proc EXCEPT ![h] = r]
      BY <1>1, <1>2, <1>4 DEF t, Worker
    <2> QED
      BY <1>1, <1>4, <2>5, <2>6, MemoryStep DEF FindActiveOperation, MemoryOK
  <1>5. ASSUME NEW o \in ActiveOps(p), lock' = [lock EXCEPT ![p] = FALSE],
               proc' = [proc EXCEPT ![h].pc = "work", ![h].op = o, ![h].seen = ops[o].status,
                                    ![h].todo = <<"Snapshot">>]
        PROVE  MemoryOK'
    <2>1. <<"Snapshot">> \in Seq(Calls)
      BY DEF Calls
    <2>2. o \in Ops /\ ops[o].status \in Statuses
      BY DEF ActiveOps, Statuses
    <2> DEFINE r == [[[[proc[h] EXCEPT !.pc = "work"] EXCEPT !.op = o]
                         EXCEPT !.seen = ops[o].status] EXCEPT !.todo = <<"Snapshot">>]
    <2>3. r \in Worker
      BY <1>1, <2>1, <2>2, Assign DEF PCs
    <2>4. r.pc = "work" /\ r.op = o /\ r.project = p
      BY <1>1 DEF Worker
    <2>5. WorkerOK(h, r)
      BY <1>1, <2>2, <2>3, <2>4 DEF WorkerOK
    <2>6. proc' = [proc EXCEPT ![h] = r]
      BY <1>1, <1>2, <1>5 DEF Worker
    <2>7. lock' \in [Projects -> BOOLEAN]
      BY <1>1, <1>2, <1>5
    <2> QED
      BY <1>1, <2>5, <2>6, <2>7, MemoryStep DEF FindActiveOperation, MemoryOK
  <1> QED
    BY <1>3, <1>4, <1>5 DEF FindActiveOperation

\* What is left of a plan is a plan.
LEMMA TailOf ==
  ASSUME NEW S, NEW t \in Seq(S), t # <<>>
  PROVE  /\ Tail(t) \in Seq(S)
         /\ Head(t) \in S
         /\ Len(t) > 0 /\ Len(Tail(t)) = Len(t) - 1
         /\ Head(t) = t[1]
         /\ \A i \in 1..Len(Tail(t)) : Tail(t)[i] = t[i + 1]
  OBVIOUS

\* The only writes of a working goroutine's record.
LEMMA WorkAssign ==
  ASSUME NEW w, NEW r, WorkerOK(w, r), r.pc = "work", NEW t \in Seq(Calls), NEW b \in BOOLEAN,
         NEW c \in Configs
  PROVE  /\ WorkerOK(w, [r EXCEPT !.todo = t])
         /\ WorkerOK(w, [r EXCEPT !.checked = b])
         /\ WorkerOK(w, [[r EXCEPT !.todo = t] EXCEPT !.checked = b])
         /\ WorkerOK(w, [[r EXCEPT !.snap = c] EXCEPT !.todo = t])
  <1>1. r \in Worker
    BY DEF WorkerOK
  <1>2. /\ [r EXCEPT !.todo = t] \in Worker
        /\ [r EXCEPT !.checked = b] \in Worker
        /\ [[r EXCEPT !.todo = t] EXCEPT !.checked = b] \in Worker
        /\ [[r EXCEPT !.snap = c] EXCEPT !.todo = t] \in Worker
    BY <1>1, Assign
  <1> QED
    BY <1>1, <1>2 DEF WorkerOK, Worker
LEMMA ExpireMemory ==
  ASSUME MemoryOK, NEW h \in Handlers, Expire(h)
  PROVE  MemoryOK'
  <1> DEFINE x == proc[h]
             a == [[x EXCEPT !.pc = "admit"] EXCEPT !.op = None]
             b == [x EXCEPT !.checked = TRUE]
             c == [x EXCEPT !.todo = Tail(x.todo)]
             d == [[x EXCEPT !.checked = FALSE] EXCEPT !.todo = Tail(x.todo)]
  <1>1. /\ h \in Procs /\ x \in Worker /\ x.project \in Projects /\ x.pc = "expire"
        /\ x.op \in Ops /\ x.todo \in Seq({"Start", "Fail"}) /\ h \notin Resumers
    BY OrchestratorAssumption DEF MemoryOK, WorkerOK, Expire, Procs
  <1>2. proc \in [Procs -> Worker]
    BY DEF MemoryOK
  <1>3. x.todo # <<>> => Tail(x.todo) \in Seq({"Start", "Fail"}) /\ Tail(x.todo) \in Seq(Calls)
    <2>1. Seq({"Start", "Fail"}) \subseteq Seq(Calls)
      BY DEF Calls
    <2> QED
      BY <1>1, <2>1, TailOf
  <1>4. a \in Worker /\ b \in Worker /\ (x.todo # <<>> => c \in Worker /\ d \in Worker)
    BY <1>1, <1>3, Assign DEF PCs
  <1>5. /\ a.pc = "admit" /\ a.project = x.project
        /\ b.pc = "expire" /\ b.project = x.project /\ b.op = x.op /\ b.todo = x.todo
        /\ c.pc = "expire" /\ c.project = x.project /\ c.op = x.op /\ c.todo = Tail(x.todo)
        /\ d.pc = "expire" /\ d.project = x.project /\ d.op = x.op /\ d.todo = Tail(x.todo)
    BY <1>1 DEF Worker
  <1>6. WorkerOK(h, a) /\ WorkerOK(h, b) /\ (x.todo # <<>> => WorkerOK(h, c) /\ WorkerOK(h, d))
    BY <1>1, <1>3, <1>4, <1>5 DEF WorkerOK
  <1>7. \/ proc' = [proc EXCEPT ![h] = a]
        \/ proc' = [proc EXCEPT ![h] = b]
        \/ x.todo # <<>> /\ proc' = [proc EXCEPT ![h] = c]
        \/ x.todo # <<>> /\ proc' = [proc EXCEPT ![h] = d]
    <2>1. \/ proc' = [proc EXCEPT ![h].pc = "admit", ![h].op = None]
          \/ proc' = [proc EXCEPT ![h].checked = TRUE]
          \/ x.todo # <<>> /\ proc' = [proc EXCEPT ![h].todo = Tail(@)]
          \/ x.todo # <<>> /\ proc' = [proc EXCEPT ![h].checked = FALSE, ![h].todo = Tail(@)]
      BY DEF Expire
    <2> QED
      BY <1>1, <1>2, <2>1 DEF Worker
  <1> HIDE DEF a, b, c, d
  <1>8. PICK r : WorkerOK(h, r) /\ proc' = [proc EXCEPT ![h] = r]
    BY <1>6, <1>7
  <1> QED
    BY <1>1, <1>8, MemoryStep DEF Expire, MemoryOK

LEMMA TakenLease ==
  ASSUME TypeOK, NEW p \in Projects, NEW o, TakeLease(p, o)
  PROVE  lease'[p].fence = NextFence(p)
  BY DEF TypeOK, TakeLease

LEMMA AdmitMemory ==
  ASSUME TypeOK, MemoryOK, NEW h \in Handlers, Admit(h)
  PROVE  MemoryOK'
  <1> DEFINE p == proc[h].project
  <1>1. h \in Procs /\ proc[h] \in Worker /\ p \in Projects /\ h \notin Resumers
    BY OrchestratorAssumption DEF MemoryOK, WorkerOK, Admit, Procs
  <1>2. /\ proc \in [Procs -> Worker] /\ lock \in [Projects -> BOOLEAN]
        /\ registry \in [Projects -> Token \cup {None}]
    BY SMTT(20) DEF MemoryOK
  <1>3. ASSUME NEW o \in Ops, NEW c \in Admissible(p),
               AdmitConfiguration(p, o, proc[h].expected, c, None),
               registry' = [registry EXCEPT ![p] = [owner |-> o, fence |-> lease'[p].fence]],
               proc' = [proc EXCEPT ![h].pc = "work", ![h].op = o, ![h].seen = "QUEUED",
                                    ![h].creator = TRUE, ![h].todo = <<"Snapshot">>],
               lock' = lock
        PROVE  MemoryOK'
    <2>1. <<"Snapshot">> \in Seq(Calls)
      BY DEF Calls
    <2> DEFINE r == [[[[[proc[h] EXCEPT !.pc = "work"] EXCEPT !.op = o] EXCEPT !.seen = "QUEUED"]
                        EXCEPT !.creator = TRUE] EXCEPT !.todo = <<"Snapshot">>]
    <2>2. r \in Worker
      BY <1>1, <2>1, Assign DEF PCs, Statuses, Active
    <2>3. r.pc = "work" /\ r.op = o /\ r.project = p
      BY <1>1 DEF Worker
    <2>4. WorkerOK(h, r)
      BY <1>1, <2>2, <2>3 DEF WorkerOK
    <2>5. proc' = [proc EXCEPT ![h] = r]
      BY <1>1, <1>2, <1>3 DEF Worker
    <2>6. lease'[p].fence \in Fences
      BY <1>1, <1>3, TakenLease DEF AdmitConfiguration
    <2>7. registry' \in [Projects -> Token \cup {None}]
      BY <1>1, <1>2, <1>3, <2>6 DEF Token
    <2> QED
      BY <1>1, <1>3, <2>4, <2>5, <2>7, MemoryStep DEF Admit, MemoryOK
  <1>4. CASE /\ lock' = [lock EXCEPT ![p] = FALSE] /\ proc' = [proc EXCEPT ![h] = Idle]
             /\ UNCHANGED <<storeVars, registry>>
    <2>1. lock' \in [Projects -> BOOLEAN]
      BY <1>1, <1>2, <1>4
    <2> QED
      BY <1>1, <1>4, <2>1, IdleOK, MemoryStep DEF Admit, MemoryOK
  <1> QED
    BY <1>3, <1>4 DEF Admit
\* The record after a step of a working goroutine.
Worked(w, r) ==
    \/ r = Idle
    \/ \E t \in Seq(Calls), b \in BOOLEAN, c \in Configs :
         \/ r = [proc[w] EXCEPT !.todo = t]
         \/ r = [proc[w] EXCEPT !.checked = b]
         \/ r = [[proc[w] EXCEPT !.todo = t] EXCEPT !.checked = b]
         \/ r = [[proc[w] EXCEPT !.snap = c] EXCEPT !.todo = t]

LEMMA WorkedMemory ==
  ASSUME MemoryOK, NEW w \in Procs, proc[w].pc = "work", NEW r, Worked(w, r),
         proc' = [proc EXCEPT ![w] = r],
         lock' = lock \/ lock' = [lock EXCEPT ![proc[w].project] = FALSE],
         registry' = registry \/ registry' = [registry EXCEPT ![proc[w].project] = None],
         runtime' = runtime \/ Applied(w), ticker' = ticker
  PROVE  MemoryOK'
  <1>1. WorkerOK(w, proc[w])
    BY DEF MemoryOK
  <1>2. WorkerOK(w, r)
    <2>1. CASE r = Idle
      BY <2>1, IdleOK
    <2>2. ASSUME NEW t \in Seq(Calls), NEW b \in BOOLEAN, NEW c \in Configs,
                 \/ r = [proc[w] EXCEPT !.todo = t]
                 \/ r = [proc[w] EXCEPT !.checked = b]
                 \/ r = [[proc[w] EXCEPT !.todo = t] EXCEPT !.checked = b]
                 \/ r = [[proc[w] EXCEPT !.snap = c] EXCEPT !.todo = t]
          PROVE  WorkerOK(w, r)
      <3>1. /\ WorkerOK(w, [proc[w] EXCEPT !.todo = t])
            /\ WorkerOK(w, [proc[w] EXCEPT !.checked = b])
            /\ WorkerOK(w, [[proc[w] EXCEPT !.todo = t] EXCEPT !.checked = b])
            /\ WorkerOK(w, [[proc[w] EXCEPT !.snap = c] EXCEPT !.todo = t])
        BY <1>1, WorkAssign
      <3> QED
        BY <2>2, <3>1
    <2> QED
      BY <2>1, <2>2 DEF Worked
  <1>3. proc[w].project \in Projects /\ proc[w].snap \in Configs \cup {None}
    BY <1>1 DEF WorkerOK, Worker
  <1>4. /\ lock' \in [Projects -> BOOLEAN]
        /\ registry' \in [Projects -> Token \cup {None}]
        /\ runtime' \in [Projects -> Configs \cup {None}]
    BY <1>3 DEF MemoryOK, Applied
  <1> QED
    BY <1>2, <1>4, MemoryStep

LEMMA RunMemory ==
  ASSUME TypeOK, MemoryOK, NEW w \in Procs,
         \/ Run(w) \/ releaseLeaseToken(w) \/ ReadFails(w)
         \/ w \in Handlers /\ (Deadline(w) \/ LookupFails(w))
  PROVE  MemoryOK'
  <1> DEFINE x == proc[w]
  <1>0. Working(w)
    BY DEF Run, Snapshot, Check, Write, Falter, Reconcile, Commit, ReleaseLease, Release,
           releaseLeaseToken, Deadline, LookupFails, ReadFails
  <1>1. /\ x \in Worker /\ x.pc = "work" /\ x.project \in Projects /\ x.todo \in Seq(Calls)
        /\ x.todo # <<>> /\ proc \in [Procs -> Worker]
    BY <1>0 DEF Working, MemoryOK, WorkerOK, Worker
  <1>2. Tail(x.todo) \in Seq(Calls)
    BY <1>1, TailOf
  <1>3. Advance(w) => proc' = [proc EXCEPT ![w] = [[x EXCEPT !.todo = Tail(x.todo)]
                                                     EXCEPT !.checked = FALSE]]
    BY <1>1 DEF Advance, Worker
  <1>4. Advance(w) => \E r : Worked(w, r) /\ proc' = [proc EXCEPT ![w] = r]
    <2>1. canonical[x.project] \in Configs
      BY <1>1 DEF TypeOK
    <2> QED
      BY <1>2, <1>3, <2>1 DEF Worked
  <1>5. ASSUME NEW t \in Seq(Calls) PROVE
          /\ proc' = [proc EXCEPT ![w].todo = t] =>
                \E r : Worked(w, r) /\ proc' = [proc EXCEPT ![w] = r]
          /\ proc' = [proc EXCEPT ![w].todo = t, ![w].checked = FALSE] =>
                \E r : Worked(w, r) /\ proc' = [proc EXCEPT ![w] = r]
    <2>1. canonical[x.project] \in Configs
      BY <1>1 DEF TypeOK
    <2>2. /\ [proc EXCEPT ![w].todo = t] = [proc EXCEPT ![w] = [x EXCEPT !.todo = t]]
          /\ [proc EXCEPT ![w].todo = t, ![w].checked = FALSE] =
               [proc EXCEPT ![w] = [[x EXCEPT !.todo = t] EXCEPT !.checked = FALSE]]
      BY <1>1 DEF Worker
    <2>3. Worked(w, [x EXCEPT !.todo = t]) /\ Worked(w, [[x EXCEPT !.todo = t] EXCEPT !.checked = FALSE])
      BY <2>1 DEF Worked
    <2> QED
      BY <2>2, <2>3
  <1>6. CASE Snapshot(w)
    <2>1. canonical[x.project] \in Configs /\ Program(w, x.seen) \in Seq(Calls)
      BY <1>1, ProgramType DEF TypeOK
    <2> DEFINE r == [[x EXCEPT !.snap = canonical[x.project]] EXCEPT !.todo = Program(w, x.seen)]
    <2>2. proc' = [proc EXCEPT ![w] = r]
      BY <1>1, <1>6 DEF Snapshot, Worker
    <2>3. Worked(w, r)
      BY <2>1 DEF Worked
    <2> QED
      BY <1>1, <1>6, <2>2, <2>3, WorkedMemory DEF Snapshot
  <1>7. CASE Check(w)
    <2>1. Exit(w) \in Seq(Calls)
      BY ExitType
    <2>2. proc' = [proc EXCEPT ![w].checked = TRUE] =>
            \E r : Worked(w, r) /\ proc' = [proc EXCEPT ![w] = r]
      <3>1. [proc EXCEPT ![w].checked = TRUE] = [proc EXCEPT ![w] = [x EXCEPT !.checked = TRUE]]
        BY <1>1 DEF Worker
      <3>2. canonical[x.project] \in Configs
        BY <1>1 DEF TypeOK
      <3> QED
        BY <1>2, <3>1, <3>2 DEF Worked
    <2>3. PICK r : Worked(w, r) /\ proc' = [proc EXCEPT ![w] = r]
      <3>1. \/ proc' = [proc EXCEPT ![w].checked = TRUE]
            \/ proc' = [proc EXCEPT ![w].todo = Tail(x.todo)]
            \/ proc' = [proc EXCEPT ![w].todo = Exit(w)]
        BY <1>1, <1>7 DEF Check
      <3> QED
        BY <1>2, <1>5, <2>1, <2>2, <3>1
    <2> QED
      BY <1>1, <1>7, <2>3, WorkedMemory DEF Check
  <1>8. CASE Write(w) \/ Commit(w)
    BY <1>1, <1>4, <1>8, WorkedMemory DEF Write, Commit
  <1>9. CASE Falter(w)
    BY <1>1, <1>5, <1>9, FailProgramType, WorkedMemory DEF Falter
  <1>10. CASE Reconcile(w)
    <2>1. PICK r : Worked(w, r) /\ proc' = [proc EXCEPT ![w] = r]
      BY <1>4, <1>5, <1>10, FailProgramType DEF Reconcile
    <2>2. runtime' = runtime \/ Applied(w)
      BY <1>10 DEF Reconcile
    <2> QED
      BY <1>1, <1>10, <2>1, <2>2, WorkedMemory DEF Reconcile
  <1>11. CASE ReleaseLease(w) \/ releaseLeaseToken(w)
    <2>1. PICK r : Worked(w, r) /\ proc' = [proc EXCEPT ![w] = r]
      BY <1>4, <1>11 DEF ReleaseLease, releaseLeaseToken, Finish, Ends, Worked
    <2>2. registry' = registry \/ registry' = [registry EXCEPT ![proc[w].project] = None]
      BY <1>11 DEF ReleaseLease, releaseLeaseToken
    <2> QED
      BY <1>1, <1>11, <2>1, <2>2, WorkedMemory DEF ReleaseLease, releaseLeaseToken
  <1>12. CASE Release(w)
    <2>1. PICK r : Worked(w, r) /\ proc' = [proc EXCEPT ![w] = r]
      BY <1>4, <1>12 DEF Release, Finish, Ends, Worked
    <2> QED
      BY <1>1, <1>12, <2>1, WorkedMemory DEF Release
  <1>13. CASE Deadline(w)
    <2>1. PICK r : Worked(w, r) /\ proc' = [proc EXCEPT ![w] = r]
      BY <1>5, <1>13, ExitType DEF Deadline
    <2> QED
      BY <1>1, <1>13, <2>1, WorkedMemory DEF Deadline
  <1>14. CASE LookupFails(w) \/ ReadFails(w)
    <2>0. <<"Release", "ReleaseLease">> \in Seq(Calls) /\ <<"ReleaseToken", "Release">> \in Seq(Calls)
      BY DEF Calls
    <2>1. PICK r : Worked(w, r) /\ proc' = [proc EXCEPT ![w] = r]
      BY <1>5, <1>14, <2>0 DEF LookupFails, ReadFails, Ends, Worked
    <2> QED
      BY <1>1, <1>14, <2>1, WorkedMemory DEF LookupFails, ReadFails
  <1> QED
    BY <1>6, <1>7, <1>8, <1>9, <1>10, <1>11, <1>12, <1>13, <1>14 DEF Run

LEMMA TickerMemory ==
  ASSUME MemoryOK, TickerOK', proc' = proc, registry' = registry, runtime' = runtime,
         lock' \in [Projects -> BOOLEAN]
  PROVE  MemoryOK'
  BY DEF MemoryOK, WorkerOK

LEMMA RestingOK == ASSUME ticker' = Resting PROVE TickerOK'
  BY DEF TickerOK, Resting

LEMMA ListMemory ==
  ASSUME TypeOK, MemoryOK, ListActive
  PROVE  MemoryOK'
  <1> DEFINE E == {[op |-> o, project |-> ops[o].project, seen |-> ops[o].status] :
                     o \in UNION {ActiveOps(p) : p \in Projects}}
  <1>1. E \subseteq Entry
    BY DEF ActiveOps, Entry
  <1> HIDE DEF E
  <1>2. ticker' = [ticker EXCEPT !.pc = "list", !.entries = E]
    BY DEF ListActive, E
  <1>3. TickerOK'
    BY <1>1, <1>2 DEF MemoryOK, TickerOK
  <1> QED
    BY <1>3, TickerMemory DEF ListActive, MemoryOK

LEMMA ResumeLockMemory ==
  ASSUME MemoryOK, ResumeLock
  PROVE  MemoryOK'
  <1> USE DEF ResumeLock
  <1>1. CASE ticker' = Resting /\ UNCHANGED lock
    BY <1>1, RestingOK, TickerMemory DEF MemoryOK
  <1>2. ASSUME NEW e \in ticker.entries, UNCHANGED lock,
               ticker' = [ticker EXCEPT !.entries = @ \ {e}]
        PROVE  MemoryOK'
    <2>1. TickerOK'
      BY <1>2 DEF MemoryOK, TickerOK
    <2> QED
      BY <1>2, <2>1, TickerMemory DEF MemoryOK
  <1>3. ASSUME NEW e \in ticker.entries, lock' = [lock EXCEPT ![e.project] = TRUE],
               ticker' = [[ticker EXCEPT !.entries = @ \ {e}] EXCEPT
                            !.pc = "lease", !.project = e.project, !.op = e.op, !.seen = e.seen]
        PROVE  MemoryOK'
    <2>1. e.project \in Projects /\ e.op \in Ops /\ e.seen \in Active
      BY DEF MemoryOK, TickerOK, Entry
    <2>2. TickerOK'
      BY <1>3, <2>1 DEF MemoryOK, TickerOK
    <2>3. lock' \in [Projects -> BOOLEAN]
      BY <1>3, <2>1 DEF MemoryOK
    <2> QED
      BY <1>3, <2>2, <2>3, TickerMemory DEF MemoryOK
  <1> QED
    BY <1>1, <1>2, <1>3
LEMMA ResumeLeaseMemory ==
  ASSUME TypeOK, MemoryOK, ResumeLease
  PROVE  MemoryOK'
  <1> DEFINE p == ticker.project
             o == ticker.op
  <1>1. p \in Projects /\ o \in Ops /\ ticker.seen \in Statuses \cup {""}
    BY DEF ResumeLease, MemoryOK, TickerOK, Statuses
  <1>2. TickerOK'
    BY DEF ResumeLease, MemoryOK, TickerOK
  <1>3. ASSUME NEW r \in Resumers, AcquireConfigurationLeaseForOperation(p, o),
               registry' = [registry EXCEPT ![p] = [owner |-> o, fence |-> lease'[p].fence]],
               proc' = [proc EXCEPT ![r] = [Idle EXCEPT !.pc = "work", !.project = p, !.op = o,
                                              !.seen = ticker.seen, !.fence = lease'[p].fence,
                                              !.todo = <<"Snapshot">>]],
               UNCHANGED lock
        PROVE  MemoryOK'
    <2>1. lease'[p].fence \in Fences
      BY <1>1, <1>3, TakenLease DEF AcquireConfigurationLeaseForOperation
    <2>2. <<"Snapshot">> \in Seq(Calls) /\ Idle \in Worker
      BY IdleOK DEF Calls, WorkerOK
    <2> DEFINE f == lease'[p].fence
               x == [[[[[[Idle EXCEPT !.pc = "work"] EXCEPT !.project = p] EXCEPT !.op = o]
                        EXCEPT !.seen = ticker.seen] EXCEPT !.fence = f]
                        EXCEPT !.todo = <<"Snapshot">>]
    <2>3. x \in Worker
      BY <1>1, <2>1, <2>2, Assign DEF PCs
    <2>4. x.pc = "work" /\ x.project = p /\ x.op = o /\ x.fence = f
      BY DEF Idle
    <2>5. WorkerOK(r, x)
      BY <1>1, <2>1, <2>3, <2>4 DEF WorkerOK
    <2>6. proc' = [proc EXCEPT ![r] = x]
      BY <1>3 DEF Idle
    <2>7. registry' \in [Projects -> Token \cup {None}]
      BY <1>1, <1>3, <2>1 DEF Token, MemoryOK
    <2>8. /\ proc' \in [Procs -> Worker] /\ \A v \in Procs : WorkerOK(v, proc'[v])
      BY <2>5, <2>6, OneWorker DEF MemoryOK, Procs
    <2> HIDE DEF x
    <2> QED
      BY <1>2, <1>3, <2>7, <2>8 DEF MemoryOK, ResumeLease, WorkerOK
  <1>4. CASE lock' = [lock EXCEPT ![p] = FALSE] /\ UNCHANGED <<storeVars, registry, proc>>
    <2>1. lock' \in [Projects -> BOOLEAN]
      BY <1>1, <1>4 DEF MemoryOK
    <2> QED
      BY <1>2, <1>4, <2>1, TickerMemory DEF ResumeLease
  <1> QED
    BY <1>3, <1>4 DEF ResumeLease

LEMMA RestartMemory ==
  ASSUME MemoryOK, Restart
  PROVE  MemoryOK'
  <1>1. lock' \in [Projects -> BOOLEAN] /\ registry' \in [Projects -> Token \cup {None}]
    BY DEF Restart
  <1>2. TickerOK'
    BY RestingOK DEF Restart
  <1>3. proc' \in [Procs -> Worker] /\ \A w \in Procs : proc'[w] = Idle
    BY IdleOK DEF Restart, WorkerOK
  <1>4. \A w \in Procs : WorkerOK(w, proc'[w])
    BY <1>3, IdleOK
  <1>5. runtime' \in [Projects -> Configs \cup {None}]
    <2>1. ASSUME NEW w \in Procs, Working(w), Applied(w)
          PROVE  runtime' \in [Projects -> Configs \cup {None}]
      BY <2>1 DEF Working, Applied, MemoryOK, WorkerOK, Worker
    <2> QED
      BY <2>1 DEF Restart, MemoryOK
  <1> QED
    BY <1>1, <1>2, <1>3, <1>4, <1>5 DEF MemoryOK, WorkerOK

LEMMA InitMemory == OrchInit => MemoryOK
  <1> SUFFICES ASSUME OrchInit PROVE MemoryOK
    OBVIOUS
  <1>1. lock \in [Projects -> BOOLEAN] /\ registry \in [Projects -> Token \cup {None}]
    BY DEF OrchInit
  <1>2. TickerOK
    BY DEF OrchInit, TickerOK, Resting
  <1>3. proc \in [Procs -> Worker] /\ \A w \in Procs : WorkerOK(w, proc[w])
    BY IdleOK DEF OrchInit, WorkerOK
  <1>4. runtime \in [Projects -> Configs \cup {None}]
    BY InitType DEF OrchInit, TypeOK
  <1> QED
    BY <1>1, <1>2, <1>3, <1>4 DEF MemoryOK

LEMMA MemoryKept == TypeOK /\ MemoryOK /\ [OrchNext]_orchVars => MemoryOK'
  <1> SUFFICES ASSUME TypeOK, MemoryOK, [OrchNext]_orchVars PROVE MemoryOK'
    OBVIOUS
  <1>0. Handlers \subseteq Procs /\ Resumers \subseteq Procs
    BY DEF Procs
  <1>1. CASE UNCHANGED <<lock, registry, proc, ticker, runtime>>
    BY <1>1 DEF MemoryOK, TickerOK, WorkerOK
  <1>2. ASSUME NEW h \in Handlers, QueuePatch(h) PROVE MemoryOK'
    BY <1>2, LockMemory, ReadMemory, FindMemory, ExpireMemory, AdmitMemory DEF QueuePatch
  <1>3. ASSUME NEW h \in Handlers, Run(h) \/ Deadline(h) \/ LookupFails(h) PROVE MemoryOK'
    BY <1>0, <1>3, RunMemory
  <1>4. ASSUME NEW r \in Resumers, Run(r) \/ releaseLeaseToken(r) PROVE MemoryOK'
    BY <1>0, <1>4, RunMemory
  <1>5. ASSUME NEW w \in Procs, ReadFails(w) PROVE MemoryOK'
    BY <1>5, RunMemory
  <1>6. CASE Resume
    BY <1>6, ListMemory, ResumeLockMemory, ResumeLeaseMemory DEF Resume
  <1>7. CASE Restart
    BY <1>7, RestartMemory
  <1>8. CASE (\E p \in Projects : Time(p)) \/ (\E o \in Ops : Age(o)) \/ UNCHANGED orchVars
    BY <1>1, <1>8 DEF Time, Age, orchVars
  <1> QED
    BY <1>2, <1>3, <1>4, <1>5, <1>6, <1>7, <1>8 DEF OrchNext

-----------------------------------------------------------------------------
(* Refinement: the orchestrator's steps are transactions of the store.     *)

LEMMA StoreStep == TypeOK /\ MemoryOK /\ [OrchNext]_orchVars => [Next]_storeVars
  <1> SUFFICES ASSUME TypeOK, MemoryOK, [OrchNext]_orchVars PROVE Next \/ UNCHANGED storeVars
    OBVIOUS
  <1>1. ASSUME NEW o \in Ops, NEW s \in StatusWrites, UpdateOperation(o, s) PROVE Next
    BY <1>1 DEF Next, OwnedNext
  <1>2. ASSUME NEW p \in Projects, NEW o \in Ops, NEW f \in Fences,
               ReleaseConfigurationLeaseOwned(p, o, f)
        PROVE  Next
    BY <1>2 DEF Next, OwnedNext
  <1>3. ASSUME NEW h \in Handlers, QueuePatch(h) PROVE Next \/ UNCHANGED storeVars
    <2>1. h \in Procs /\ WorkerOK(h, proc[h])
      BY DEF Procs, MemoryOK
    <2>2. CASE Expire(h)
      <3>1. CASE UNCHANGED storeVars
        BY <3>1
      <3>2. CASE proc[h].todo # <<>> /\ UpdateOperation(proc[h].op, Result[Head(proc[h].todo)])
        <4>1. proc[h].op \in Ops /\ proc[h].todo \in Seq({"Start", "Fail"})
          BY <2>1, <2>2 DEF WorkerOK, Expire
        <4>2. Head(proc[h].todo) \in ServiceCalls
          BY <3>2, <4>1, TailOf DEF ServiceCalls, Required
        <4> QED
          BY <1>1, <3>2, <4>1, <4>2, CallTypes
      <3> QED
        BY <2>2, <3>1, <3>2 DEF Expire
    <2>3. CASE Admit(h)
      <3>1. proc[h].project \in Projects /\ proc[h].expected \in Revisions
        BY <2>1, <2>3 DEF WorkerOK, Worker, Admit
      <3>2. ASSUME NEW o \in Ops, NEW c \in Admissible(proc[h].project),
                   AdmitConfiguration(proc[h].project, o, proc[h].expected, c, None)
            PROVE  Next
        BY <3>1, <3>2 DEF Next
      <3> QED
        BY <2>3, <3>2 DEF Admit
    <2> QED
      BY <1>3, <2>2, <2>3 DEF QueuePatch, Lock, ReadCanonical, FindActiveOperation
  <1>4. ASSUME NEW w \in Procs, Run(w) PROVE Next \/ UNCHANGED storeVars
    <2>0. WorkerOK(w, proc[w])
      BY DEF MemoryOK
    <2>1. CASE Write(w)
      <3>1. proc[w].op \in Ops /\ Next1(w) \in ServiceCalls
        BY <2>0, <2>1 DEF WorkerOK, Write, Working
      <3> QED
        BY <1>1, <2>1, <3>1, CallTypes DEF Write
    <2>2. CASE Commit(w)
      <3>1. proc[w].project \in Projects
        BY <2>0, <2>2 DEF WorkerOK, Commit, Working
      <3> QED
        BY <2>2, <3>1 DEF Commit, Next
    <2>3. CASE ReleaseLease(w)
      <3>1. proc[w].project \in Projects
        BY <2>0, <2>3 DEF WorkerOK, ReleaseLease, Working
      <3>2. registry[proc[w].project] # None => registry[proc[w].project] \in Token
        BY <3>1 DEF MemoryOK
      <3> QED
        BY <1>2, <2>3, <3>1, <3>2 DEF ReleaseLease, Token
    <2> QED
      BY <1>4, <2>1, <2>2, <2>3 DEF Run, Snapshot, Check, Falter, Reconcile, Release
  <1>5. ASSUME NEW r \in Resumers, releaseLeaseToken(r) PROVE Next
    <2>1. WorkerOK(r, proc[r]) /\ proc[r].pc = "work"
      BY <1>5 DEF MemoryOK, Procs, releaseLeaseToken, Working
    <2>2. proc[r].project \in Projects /\ proc[r].op \in Ops /\ proc[r].fence \in Fences
      BY <2>1 DEF WorkerOK
    <2> QED
      BY <1>2, <1>5, <2>2 DEF releaseLeaseToken
  <1>6. CASE Resume
    <2>1. CASE ResumeLease
      <3>1. ticker.project \in Projects /\ ticker.op \in Ops
        BY <2>1 DEF MemoryOK, TickerOK, ResumeLease
      <3> QED
        BY <2>1, <3>1 DEF ResumeLease, Next, OwnedNext
    <2> QED
      BY <1>6, <2>1 DEF Resume, ListActive, ResumeLock
  <1>7. ASSUME NEW p \in Projects, Time(p) PROVE Next
    BY <1>7 DEF Time, Next, OwnedNext
  <1>8. CASE (\E h \in Handlers : Deadline(h) \/ LookupFails(h))
             \/ (\E w \in Procs : ReadFails(w)) \/ (\E o \in Ops : Age(o)) \/ Restart \/ UNCHANGED orchVars
    BY <1>8 DEF Deadline, LookupFails, ReadFails, Age, Restart, orchVars
  <1> QED
    BY <1>3, <1>4, <1>5, <1>6, <1>7, <1>8 DEF OrchNext, Procs

OrchInv == Inv /\ MemoryOK

LEMMA OrchInvariance == OrchSpec => []OrchInv
  <1>1. OrchInit => OrchInv
    BY InitInv, InitMemory DEF OrchInit, OrchInv
  <1>2. OrchInv /\ [OrchNext]_orchVars => OrchInv'
    <2> SUFFICES ASSUME OrchInv, [OrchNext]_orchVars PROVE OrchInv'
      OBVIOUS
    <2>1. TypeOK /\ MemoryOK /\ Inv
      BY DEF OrchInv, Inv
    <2>2. [Next]_storeVars /\ MemoryOK'
      BY <2>1, StoreStep, MemoryKept
    <2>3. Inv'
      BY <2>1, <2>2, NextType, NextSafe DEF Inv, Safe, TypeInv
    <2> QED
      BY <2>2, <2>3 DEF OrchInv
  <1> QED
    BY <1>1, <1>2, PTL DEF OrchSpec

\* Whatever the requests, workers and the scheduler do, interrupted anywhere
\* by a restart or a deadline, the tables see only transactions of
\* ConfigurationStore: what holds of the store holds of the Manager.
THEOREM OrchestratorImplementsStore == OrchSpec => Spec
  <1>1. OrchInv /\ [OrchNext]_orchVars => [Next]_storeVars
    BY StoreStep DEF OrchInv, Inv
  <1>2. OrchInit => Init
    BY DEF OrchInit
  <1> QED
    BY <1>1, <1>2, OrchInvariance, PTL DEF OrchSpec, Spec
\* So the Manager keeps what the store keeps: leases bind the commands they
\* were taken for, last-good revisions are never ahead, ports have one owner.
THEOREM ManagerKeepsStoreSafe == OrchSpec => [](LeaseBindsPayload /\ LastGoodNotAhead /\ PortExclusive)
  BY OrchInvariance, PTL DEF OrchInv, Inv, Safe

-----------------------------------------------------------------------------
(* A project's channel has an owner.                                       *)

LEMMA DrainsTail ==
  ASSUME NEW t \in Seq(Calls), t # <<>>, Drains(t), Head(t) \notin {"Snapshot", "Release"}
  PROVE  Tail(t) # <<>> /\ Drains(Tail(t))
  <1> DEFINE u == Tail(t)
  <1>1. /\ u \in Seq(Calls) /\ Len(t) \in Nat /\ Len(u) = Len(t) - 1 /\ Head(t) = t[1]
        /\ \A i \in 1..Len(u) : u[i] = t[i + 1]
    BY TailOf
  <1> HIDE DEF u
  <1>2. PICK i \in 1..Len(t) : t[i] \in {"Snapshot", "Release"}
    BY DEF Drains
  <1>3. i # 1
    BY <1>1, <1>2
  <1>4. i - 1 \in 1..Len(u) /\ u[i - 1] = t[(i - 1) + 1] /\ (i - 1) + 1 = i
    BY <1>1, <1>2, <1>3
  <1>5. Drains(u)
    BY <1>2, <1>4 DEF Drains
  <1>6. u # <<>>
    BY <1>4
  <1> QED
    BY <1>5, <1>6 DEF u

LEMMA DrainsConcat ==
  ASSUME NEW s \in Seq(Calls), NEW t \in Seq(Calls), Drains(t)
  PROVE  Drains(s \o t)
  <1>1. PICK i \in 1..Len(t) : t[i] \in {"Snapshot", "Release"}
    BY DEF Drains
  <1>2. /\ Len(s) \in Nat /\ Len(t) \in Nat /\ Len(s \o t) = Len(s) + Len(t)
        /\ \A j \in 1..(Len(s) + Len(t)) : (s \o t)[j] = IF j <= Len(s) THEN s[j] ELSE t[j - Len(s)]
    BY ConcatProperties, LenProperties
  <1>3. i + Len(s) \in 1..(Len(s) + Len(t)) /\ (s \o t)[i + Len(s)] = t[i]
    BY <1>1, <1>2
  <1> QED
    BY <1>1, <1>2, <1>3 DEF Drains

\* Every program ends with the deferred calls.
LEMMA ProgramsDrain ==
  ASSUME NEW w
  PROVE  /\ Drains(Exit(w))
         /\ \A s : Drains(Program(w, s))
         /\ \A b \in BOOLEAN : Drains(FailProgram(w, b))
  <1>1. Drains(Exit(w)) /\ Exit(w) \in Seq(Calls)
    <2>1. CASE w \in Handlers
      <3>1. Len(Exit(w)) = 2 /\ Exit(w)[2] = "Release"
        BY <2>1 DEF Exit
      <3> QED
        BY <3>1, ExitType DEF Drains
    <2>2. CASE w \notin Handlers
      <3>1. Len(Exit(w)) = 4 /\ Exit(w)[4] = "Release"
        BY <2>2 DEF Exit
      <3> QED
        BY <3>1, ExitType DEF Drains
    <2> QED
      BY <2>1, <2>2
  <1>2. ASSUME NEW s PROVE Drains(Program(w, s))
    <2>1. <<"Start">> \in Seq(Calls) /\ <<"Reconcile">> \in Seq(Calls)
            /\ <<>> \in Seq(Calls) /\ <<"Commit", "Succeed">> \in Seq(Calls)
      BY DEF Calls
    <2>2. Steps(PreSteps) \in Seq(Calls) /\ Steps(PostSteps) \in Seq(Calls)
      BY OrchestratorAssumption, StepsType
    <2>3. PICK u \in Seq(Calls) : Program(w, s) = Exit(w) \/ Program(w, s) = u \o Exit(w)
      BY <2>1, <2>2, ConcatProperties DEF Program
    <2> QED
      BY <1>1, <2>3, DrainsConcat
  <1>3. ASSUME NEW b \in BOOLEAN PROVE Drains(FailProgram(w, b))
    <2>1. <<"Fail", "BeginRollback", "CompleteRollback">> \in Seq(Calls) /\ <<"Fail">> \in Seq(Calls)
      BY DEF Calls
    <2> QED
      BY <1>1, <2>1, DrainsConcat DEF FailProgram
  <1> QED
    BY <1>1, <1>2, <1>3

\* A step of one request or goroutine, other than one that fills the channel,
\* after which it still drains what it had to drain.
LEMMA OwnerStep ==
  ASSUME NEW p, NEW w \in Procs, ~Orphaned(p), ticker' = ticker, lock'[p] => lock[p],
         \A v \in Procs : v # w => proc'[v] = proc[v],
         WillRelease(w, p) /\ lock'[p] => WillRelease(w, p)'
  PROVE  ~Orphaned(p)'
  <1> SUFFICES ASSUME Orphaned(p)' PROVE FALSE
    OBVIOUS
  <1>1. lock'[p] /\ lock[p] /\ ~(ticker.pc = "lease" /\ ticker.project = p)
    BY DEF Orphaned
  <1>2. PICK v \in Procs : WillRelease(v, p)
    BY <1>1 DEF Orphaned
  <1>3. WillRelease(v, p)'
    BY <1>1, <1>2 DEF WillRelease
  <1> QED
    BY <1>3 DEF Orphaned

\* A goroutine that has to drain the channel still has to after its step, or
\* has drained it, or could not read the configuration.
LEMMA RunOwner ==
  ASSUME MemoryOK, NEW w \in Procs,
         \/ Run(w) \/ releaseLeaseToken(w)
         \/ w \in Handlers /\ (Deadline(w) \/ LookupFails(w))
         \/ w \notin Handlers /\ ReadFails(w),
         NEW p, WillRelease(w, p), lock'[p]
  PROVE  WillRelease(w, p)'
  <1> DEFINE x == proc[w]
  <1>0. Working(w)
    BY DEF Run, Snapshot, Check, Write, Falter, Reconcile, Commit, ReleaseLease, Release,
           releaseLeaseToken, Deadline, LookupFails, ReadFails
  <1>1. /\ x \in Worker /\ x.pc = "work" /\ x.project = p /\ p \in Projects /\ x.todo \in Seq(Calls)
        /\ x.todo # <<>> /\ proc \in [Procs -> Worker] /\ Drains(x.todo)
    BY <1>0 DEF Working, MemoryOK, WorkerOK, Worker, WillRelease
  <1>2. Next1(w) \notin {"Snapshot", "Release"} => Tail(x.todo) # <<>> /\ Drains(Tail(x.todo))
    BY <1>1, DrainsTail DEF Next1
  <1>3. ASSUME NEW t, Drains(t),
               \/ proc' = [proc EXCEPT ![w].todo = t]
               \/ proc' = [proc EXCEPT ![w].todo = t, ![w].checked = FALSE]
               \/ \E c : proc' = [proc EXCEPT ![w].snap = c, ![w].todo = t]
        PROVE  WillRelease(w, p)'
    <2>1. proc'[w].pc = "work" /\ proc'[w].project = p /\ proc'[w].todo = t
      <3>1. CASE proc' = [proc EXCEPT ![w].todo = t]
        BY <1>1, <3>1 DEF Worker
      <3>2. CASE proc' = [proc EXCEPT ![w].todo = t, ![w].checked = FALSE]
        BY <1>1, <3>2 DEF Worker
      <3>3. ASSUME NEW c, proc' = [proc EXCEPT ![w].snap = c, ![w].todo = t]
            PROVE  proc'[w].pc = "work" /\ proc'[w].project = p /\ proc'[w].todo = t
        BY <1>1, <3>3 DEF Worker
      <3> QED
        BY <1>3, <3>1, <3>2, <3>3
    <2> QED
      BY <1>3, <2>1 DEF WillRelease, Drains
  <1>4. ASSUME Next1(w) \notin {"Snapshot", "Release"}, Advance(w) PROVE WillRelease(w, p)'
    BY <1>2, <1>3, <1>4 DEF Advance
  <1>5. ASSUME Next1(w) \notin {"Snapshot", "Release"}, Finish(w) PROVE WillRelease(w, p)'
    BY <1>2, <1>4, <1>5 DEF Finish
  <1>6. CASE Snapshot(w)
    BY <1>3, <1>6, ProgramsDrain DEF Snapshot
  <1>7. CASE Check(w)
    <2>1. CASE proc' = [proc EXCEPT ![w].checked = TRUE]
      <3>1. proc'[w].pc = "work" /\ proc'[w].project = p /\ proc'[w].todo = x.todo
        BY <1>1, <2>1 DEF Worker
      <3> QED
        BY <1>1, <3>1 DEF WillRelease, Drains
    <2>2. CASE proc' = [proc EXCEPT ![w].todo = Tail(x.todo)] /\ Next1(w) = "Fail"
      BY <1>2, <1>3, <2>2
    <2>3. CASE proc' = [proc EXCEPT ![w].todo = Exit(w)]
      BY <1>3, <2>3, ProgramsDrain
    <2> QED
      BY <1>1, <1>7, <2>1, <2>2, <2>3 DEF Check
  <1>8. CASE Write(w) \/ Commit(w) \/ releaseLeaseToken(w)
    <2>1. Next1(w) \notin {"Snapshot", "Release"} /\ Advance(w)
      BY <1>8 DEF Write, Commit, releaseLeaseToken, ServiceCalls, Required
    <2> QED
      BY <1>4, <2>1
  <1>9. CASE Falter(w) \/ Reconcile(w)
    <2>1. \A b \in BOOLEAN : Drains(FailProgram(w, b))
      BY ProgramsDrain
    <2>2. \/ \E b \in BOOLEAN : \/ proc' = [proc EXCEPT ![w].todo = FailProgram(w, b)]
                                \/ proc' = [proc EXCEPT ![w].todo = FailProgram(w, b), ![w].checked = FALSE]
          \/ Next1(w) = "Reconcile" /\ Advance(w)
      BY <1>9 DEF Falter, Reconcile
    <2> QED
      BY <1>3, <1>4, <2>1, <2>2
  <1>10. CASE ReleaseLease(w)
    BY <1>5, <1>10 DEF ReleaseLease
  <1>11. CASE Release(w)
    BY <1>1, <1>11 DEF Release, MemoryOK
  <1>12. CASE Deadline(w)
    BY <1>3, <1>12, ProgramsDrain DEF Deadline
  <1>13. CASE LookupFails(w)
    <2>1. Drains(<<"Release", "ReleaseLease">>)
      BY DEF Drains
    <2> QED
      BY <1>3, <1>13, <2>1 DEF LookupFails
  <1>14. CASE w \notin Handlers /\ ReadFails(w)
    <2>1. Drains(<<"ReleaseToken", "Release">>)
      BY DEF Drains
    <2> QED
      BY <1>3, <1>14, <2>1 DEF ReadFails
  <1> QED
    BY <1>6, <1>7, <1>8, <1>9, <1>10, <1>11, <1>12, <1>13, <1>14 DEF Run

\* The same of a request outside its goroutine.
LEMMA RequestOwner ==
  ASSUME MemoryOK, NEW h \in Handlers,
         ReadCanonical(h) \/ FindActiveOperation(h) \/ Expire(h) \/ Admit(h),
         NEW p, WillRelease(h, p), lock'[p]
  PROVE  WillRelease(h, p)'
  <1>1. /\ h \in Procs /\ proc \in [Procs -> Worker] /\ proc[h] \in Worker /\ proc[h].project = p
        /\ p \in Projects /\ lock \in [Projects -> BOOLEAN]
    BY DEF Procs, MemoryOK, WorkerOK, WillRelease, ReadCanonical, FindActiveOperation, Expire, Admit
  <1>2. CASE ReadCanonical(h)
    BY <1>1, <1>2 DEF ReadCanonical, WillRelease, Worker
  <1>3. CASE FindActiveOperation(h)
    <2>1. CASE proc' = [proc EXCEPT ![h].pc = "admit"]
      BY <1>1, <2>1 DEF WillRelease, Worker
    <2>2. CASE lock' = [lock EXCEPT ![p] = FALSE]
      BY <1>1, <2>2
    <2>3. ASSUME NEW o, NEW t, proc' = [proc EXCEPT ![h].pc = "expire", ![h].op = o, ![h].todo = t]
          PROVE  WillRelease(h, p)'
      BY <1>1, <2>3 DEF WillRelease, Worker
    <2>4. CASE ~(proc' = [proc EXCEPT ![h].pc = "admit"])
      <3>1. PICK o \in ActiveOps(p) :
              \/ proc' = [proc EXCEPT ![h].pc = "expire", ![h].op = o,
                            ![h].todo = IF ops[o].status = "QUEUED" THEN <<"Start", "Fail">> ELSE <<"Fail">>]
              \/ lock' = [lock EXCEPT ![p] = FALSE]
        BY <1>1, <1>3, <2>4 DEF FindActiveOperation
      <3> QED
        BY <1>1, <2>2, <2>3, <3>1
    <2> QED
      BY <2>1, <2>4
  <1>4. CASE Expire(h)
    <2>0. proc[h].pc = "expire"
      BY <1>4 DEF Expire
    <2>1. CASE proc' = [proc EXCEPT ![h].pc = "admit", ![h].op = None]
      BY <1>1, <2>1 DEF WillRelease, Worker
    <2>2. CASE proc' = [proc EXCEPT ![h].checked = TRUE]
      BY <1>1, <2>0, <2>2 DEF WillRelease, Worker
    <2>3. CASE proc' = [proc EXCEPT ![h].todo = Tail(@)]
      BY <1>1, <2>0, <2>3 DEF WillRelease, Worker
    <2>4. CASE proc' = [proc EXCEPT ![h].checked = FALSE, ![h].todo = Tail(@)]
      BY <1>1, <2>0, <2>4 DEF WillRelease, Worker
    <2> QED
      BY <1>4, <2>1, <2>2, <2>3, <2>4 DEF Expire
  <1>5. CASE Admit(h)
    <2>1. CASE lock' = [lock EXCEPT ![p] = FALSE]
      BY <1>1, <2>1
    <2>2. ASSUME NEW o, proc' = [proc EXCEPT ![h].pc = "work", ![h].op = o, ![h].seen = "QUEUED",
                                     ![h].creator = TRUE, ![h].todo = <<"Snapshot">>]
          PROVE  WillRelease(h, p)'
      <3>1. proc'[h].pc = "work" /\ proc'[h].project = p /\ proc'[h].todo = <<"Snapshot">>
        BY <1>1, <2>2 DEF Worker
      <3> QED
        BY <3>1 DEF WillRelease, Drains
    <2> QED
      BY <1>1, <1>5, <2>1, <2>2 DEF Admit
  <1> QED
    BY <1>2, <1>3, <1>4, <1>5

\* A step of a request or goroutine changes only its own record.
OnlyMe(w) == proc' = [proc EXCEPT ![w] = proc'[w]]

LEMMA OnlyOne ==
  ASSUME MemoryOK, NEW w \in Procs,
         \/ ReadCanonical(w) \/ FindActiveOperation(w) \/ Expire(w) \/ Admit(w)
         \/ Run(w) \/ releaseLeaseToken(w) \/ Deadline(w) \/ LookupFails(w) \/ ReadFails(w)
  PROVE  OnlyMe(w)
  <1>0. proc \in [Procs -> Worker]
    BY DEF MemoryOK
  <1>1. ASSUME NEW r, proc' = [proc EXCEPT ![w] = r] PROVE OnlyMe(w)
    BY <1>0, <1>1 DEF OnlyMe
  <1>2. CASE ReadCanonical(w)
    BY <1>1, <1>2 DEF ReadCanonical
  <1>3. CASE FindActiveOperation(w)
    BY <1>1, <1>3 DEF FindActiveOperation
  <1>4. CASE Expire(w)
    BY <1>1, <1>4 DEF Expire
  <1>5. CASE Admit(w)
    BY <1>1, <1>5 DEF Admit
  <1>6. CASE Run(w)
    <2>1. CASE Advance(w) \/ Ends(w)
      BY <1>1, <2>1 DEF Advance, Ends
    <2>2. CASE Snapshot(w)
      BY <1>1, <2>2 DEF Snapshot
    <2>3. CASE Check(w)
      BY <1>1, <2>3 DEF Check
    <2>4. CASE Falter(w)
      BY <1>1, <2>4 DEF Falter
    <2>5. CASE Reconcile(w)
      BY <1>1, <2>1, <2>5 DEF Reconcile
    <2> QED
      BY <1>6, <2>1, <2>2, <2>3, <2>4, <2>5 DEF Run, Write, Commit, ReleaseLease, Release, Finish
  <1>7. CASE releaseLeaseToken(w)
    BY <1>1, <1>7 DEF releaseLeaseToken, Advance
  <1>8. CASE Deadline(w) \/ LookupFails(w)
    BY <1>1, <1>8 DEF Deadline, LookupFails
  <1>9. CASE ReadFails(w)
    BY <1>1, <1>9 DEF ReadFails, Ends
  <1> QED
    BY <1>2, <1>3, <1>4, <1>5, <1>6, <1>7, <1>8, <1>9

\* The ticker owns the channel while it asks for the lease, and hands it to the
\* goroutine it starts.
LEMMA TickerOwner ==
  ASSUME MemoryOK, NEW p \in Projects, Resume, ~Orphaned(p)
  PROVE  ~Orphaned(p)'
  <1>0. proc \in [Procs -> Worker] /\ lock \in [Projects -> BOOLEAN] /\ TickerOK
    BY DEF MemoryOK
  <1>1. ASSUME proc' = proc, lock'[p] => lock[p],
               ticker.pc = "lease" /\ ticker.project = p => ~lock'[p]
        PROVE  ~Orphaned(p)'
    BY <1>1 DEF Orphaned, WillRelease
  <1>2. CASE ListActive
    BY <1>1, <1>2 DEF ListActive
  <1>3. CASE ResumeLock
    <2>1. CASE lock' = lock
      BY <1>1, <1>3, <2>1 DEF ResumeLock
    <2>2. ASSUME NEW e \in ticker.entries, lock' = [lock EXCEPT ![e.project] = TRUE],
                 ticker'.pc = "lease" /\ ticker'.project = e.project
          PROVE  ~Orphaned(p)'
      <3>1. CASE p = e.project
        BY <2>2, <3>1 DEF Orphaned
      <3>2. CASE p # e.project
        BY <1>0, <1>1, <1>3, <2>2, <3>2 DEF ResumeLock
      <3> QED
        BY <3>1, <3>2
    <2>3. ASSUME NEW e \in ticker.entries,
                 ticker' = [[ticker EXCEPT !.entries = @ \ {e}] EXCEPT !.pc = "lease", !.project = e.project,
                              !.op = e.op, !.seen = e.seen]
          PROVE  ticker'.pc = "lease" /\ ticker'.project = e.project
      BY <1>0, <2>3 DEF TickerOK
    <2> QED
      BY <1>3, <2>1, <2>2, <2>3 DEF ResumeLock
  <1>4. CASE ResumeLease
    <2>1. CASE lock' = [lock EXCEPT ![ticker.project] = FALSE] /\ proc' = proc
      BY <1>0, <1>1, <2>1
    <2>2. ASSUME NEW r \in Resumers, proc[r].pc = "idle", lock' = lock, NEW f,
                 proc' = [proc EXCEPT ![r] = [Idle EXCEPT !.pc = "work", !.project = ticker.project,
                            !.op = ticker.op, !.seen = ticker.seen, !.fence = f, !.todo = <<"Snapshot">>]]
          PROVE  ~Orphaned(p)'
      <3>0. r \in Procs
        BY DEF Procs
      <3>1. proc'[r].pc = "work" /\ proc'[r].project = ticker.project /\ proc'[r].todo = <<"Snapshot">>
        BY <1>0, <2>2, <3>0 DEF Idle
      <3>2. CASE ticker.project = p
        <4>1. Drains(<<"Snapshot">>)
          BY DEF Drains
        <4>2. Drains(proc'[r].todo)
          BY <3>1, <4>1
        <4>3. WillRelease(r, p)'
          BY <3>1, <3>2, <4>2 DEF WillRelease, Drains
        <4> QED
          BY <3>0, <4>3 DEF Orphaned
      <3>3. CASE ticker.project # p
        <4>1. \A v \in Procs : WillRelease(v, p) => WillRelease(v, p)'
          BY <1>0, <2>2, <3>0 DEF WillRelease
        <4> QED
          BY <2>2, <3>3, <4>1 DEF Orphaned
      <3> QED
        BY <3>2, <3>3
    <2> QED
      BY <1>4, <2>1, <2>2 DEF ResumeLease
  <1> QED
    BY <1>2, <1>3, <1>4 DEF Resume

\* The one step that orphans a channel.
LostRead(p) == \E h \in Handlers : proc[h].project = p /\ ReadFails(h)
OwnerKept == \A p \in Projects : Orphaned(p)' /\ ~Orphaned(p) => LostRead(p)

LEMMA GoroutineOwner ==
  ASSUME MemoryOK, NEW p \in Projects, ~Orphaned(p), NEW w \in Procs,
         \/ Run(w) \/ releaseLeaseToken(w)
         \/ w \in Handlers /\ (Deadline(w) \/ LookupFails(w))
         \/ w \notin Handlers /\ ReadFails(w)
  PROVE  ~Orphaned(p)'
  <1>0. proc \in [Procs -> Worker] /\ lock \in [Projects -> BOOLEAN]
    BY DEF MemoryOK
  <1>1. ticker' = ticker /\ (lock' = lock \/ lock' = [lock EXCEPT ![proc[w].project] = FALSE])
    BY DEF Run, Snapshot, Check, Write, Falter, Reconcile, Commit, ReleaseLease, Release,
       releaseLeaseToken, Deadline, LookupFails, ReadFails
  <1>2. \A v \in Procs : v # w => proc'[v] = proc[v]
    BY <1>0, OnlyOne DEF OnlyMe
  <1>3. WillRelease(w, p) /\ lock'[p] => WillRelease(w, p)'
    BY RunOwner
  <1>4. lock'[p] => lock[p]
    BY <1>0, <1>1
  <1> QED
    BY <1>1, <1>2, <1>3, <1>4, OwnerStep

LEMMA OwnerStays == MemoryOK /\ [OrchNext]_orchVars => OwnerKept
  <1> SUFFICES ASSUME MemoryOK, [OrchNext]_orchVars, NEW p \in Projects, ~Orphaned(p), ~LostRead(p)
               PROVE  ~Orphaned(p)'
    BY DEF OwnerKept
  <1>0. /\ proc \in [Procs -> Worker] /\ lock \in [Projects -> BOOLEAN]
        /\ Handlers \subseteq Procs /\ Resumers \subseteq Procs
    BY DEF MemoryOK, Procs
  <1>1. ASSUME NEW h \in Handlers, QueuePatch(h) PROVE ~Orphaned(p)'
    <2>1. ASSUME NEW q \in Projects, Lock(h, q) PROVE ~Orphaned(p)'
      <3>1. proc'[h].pc = "read" /\ proc'[h].project = q /\ \A v \in Procs : v # h => proc'[v] = proc[v]
        BY <1>0, <2>1 DEF Lock, Idle
      <3>2. CASE p = q
        BY <1>0, <3>1, <3>2 DEF Orphaned, WillRelease
      <3>3. CASE p # q
        <4>1. ~WillRelease(h, p) /\ ticker' = ticker /\ lock'[p] = lock[p]
          BY <1>0, <2>1, <3>3 DEF Lock, WillRelease
        <4> QED
          BY <1>0, <3>1, <4>1, OwnerStep
      <3> QED
        BY <3>2, <3>3
    <2>2. CASE ReadCanonical(h) \/ FindActiveOperation(h) \/ Expire(h) \/ Admit(h)
      <3>1. ticker' = ticker /\ (lock' = lock \/ lock' = [lock EXCEPT ![proc[h].project] = FALSE])
        BY <2>2 DEF ReadCanonical, FindActiveOperation, Expire, Admit
      <3>2. \A v \in Procs : v # h => proc'[v] = proc[v]
        BY <1>0, <2>2, OnlyOne DEF OnlyMe
      <3>3. WillRelease(h, p) /\ lock'[p] => WillRelease(h, p)'
        BY <2>2, RequestOwner
      <3> QED
        BY <1>0, <3>1, <3>2, <3>3, OwnerStep
    <2> QED
      BY <1>1, <2>1, <2>2 DEF QueuePatch
  <1>2. ASSUME NEW h \in Handlers, ReadFails(h) PROVE ~Orphaned(p)'
    <2>1. proc[h].project # p
      BY <1>2 DEF LostRead
    <2>2. ticker' = ticker /\ lock' = lock /\ \A v \in Procs : v # h => proc'[v] = proc[v]
      BY <1>0, <1>2 DEF ReadFails, Ends
    <2> QED
      BY <1>0, <2>1, <2>2, OwnerStep DEF WillRelease
  <1>3. CASE Resume
    BY <1>3, TickerOwner
  <1>4. CASE Restart
    BY <1>4 DEF Restart, Orphaned
  <1>5. CASE UNCHANGED <<lock, proc, ticker>>
    BY <1>5 DEF Orphaned, WillRelease
  <1>6. CASE (\E q \in Projects : Time(q)) \/ (\E o \in Ops : Age(o)) \/ UNCHANGED orchVars
    BY <1>5, <1>6 DEF Time, Age, orchVars
  <1>7. ASSUME NEW h \in Handlers, QueuePatch(h) \/ Run(h) \/ Deadline(h) \/ LookupFails(h)
        PROVE  ~Orphaned(p)'
    BY <1>0, <1>1, <1>7, GoroutineOwner
  <1>8. ASSUME NEW r \in Resumers, Run(r) \/ releaseLeaseToken(r) PROVE ~Orphaned(p)'
    BY <1>0, <1>8, GoroutineOwner
  <1>9. ASSUME NEW w \in Procs, ReadFails(w) PROVE ~Orphaned(p)'
    <2>1. CASE w \in Handlers
      BY <1>2, <1>9, <2>1
    <2>2. CASE w \notin Handlers
      BY <1>9, <2>2, GoroutineOwner
    <2> QED
      BY <2>1, <2>2
  <1>10. CASE OrchNext
    BY <1>3, <1>4, <1>6, <1>7, <1>8, <1>9, <1>10 DEF OrchNext
  <1> QED
    BY <1>6, <1>10

\* LockHasOwner for any number of projects, requests, resumed goroutines and
\* faults: the channel of a project is drained by somebody, unless Run could
\* not read the configuration of a request's operation.
THEOREM ChannelHasOwner == OrchSpec => LockHasOwner
  <1>1. OrchInv /\ [OrchNext]_orchVars => [OwnerKept]_orchVars
    BY OwnerStays DEF OrchInv
  <1>2. OrchSpec => [][OwnerKept]_orchVars
    BY <1>1, OrchInvariance, PTL DEF OrchSpec
  <1> QED
    BY <1>2, PTL DEF LockHasOwner, OwnerKept, LostRead

-----------------------------------------------------------------------------
(* What a goroutine still has to do.                                       *)

HasCommit(t) == \E i \in 1..Len(t) : t[i] = "Commit"

\* The runtime has what the goroutine commits, or is given it first.
AppliesFirst(t, ready) ==
    \A i \in 1..Len(t) : t[i] = "Commit" => ready \/ \E j \in 1..(i - 1) : t[j] = "Reconcile"

\* A call of the Provisioner stands before any commit.
Reconciled(t) ==
    \E j \in 1..Len(t) : t[j] = "Reconcile" /\ \A i \in 1..j : t[i] # "Commit"

LEMMA CommitTail ==
  ASSUME NEW t \in Seq(Calls), t # <<>>, HasCommit(Tail(t))
  PROVE  HasCommit(t)
  <1>1. PICK i \in 1..Len(Tail(t)) : Tail(t)[i] = "Commit"
    BY DEF HasCommit
  <1>2. i + 1 \in 1..Len(t) /\ t[i + 1] = "Commit"
    BY <1>1, TailOf
  <1> QED
    BY <1>2 DEF HasCommit

LEMMA AppliedTail ==
  ASSUME NEW t \in Seq(Calls), t # <<>>, NEW b \in BOOLEAN, AppliesFirst(t, b),
         Head(t) # "Reconcile"
  PROVE  AppliesFirst(Tail(t), b)
  <1> DEFINE u == Tail(t)
  <1>1. /\ Len(t) \in Nat /\ Len(u) = Len(t) - 1 /\ Head(t) = t[1]
        /\ \A i \in 1..Len(u) : u[i] = t[i + 1]
    BY TailOf
  <1> HIDE DEF u
  <1>2. ASSUME NEW i \in 1..Len(u), u[i] = "Commit", ~b PROVE \E j \in 1..(i - 1) : u[j] = "Reconcile"
    <2>1. i + 1 \in 1..Len(t) /\ t[i + 1] = "Commit"
      BY <1>1, <1>2
    <2>2. PICK j \in 1..((i + 1) - 1) : t[j] = "Reconcile"
      BY <1>2, <2>1 DEF AppliesFirst
    <2>3. j # 1
      BY <1>1, <2>2
    <2>4. j - 1 \in 1..(i - 1) /\ j - 1 \in 1..Len(u) /\ u[j - 1] = t[(j - 1) + 1] /\ (j - 1) + 1 = j
      BY <1>1, <2>2, <2>3
    <2> QED
      BY <2>2, <2>4
  <1> QED
    BY <1>2 DEF AppliesFirst, u

LEMMA NoCommitConcat ==
  ASSUME NEW s \in Seq(Calls), NEW t \in Seq(Calls), ~HasCommit(s), ~HasCommit(t)
  PROVE  ~HasCommit(s \o t)
  <1>1. /\ Len(s) \in Nat /\ Len(t) \in Nat /\ Len(s \o t) = Len(s) + Len(t)
        /\ \A j \in 1..(Len(s) + Len(t)) : (s \o t)[j] = IF j <= Len(s) THEN s[j] ELSE t[j - Len(s)]
    BY ConcatProperties, LenProperties
  <1>2. ASSUME NEW i \in 1..(Len(s) + Len(t)) PROVE (s \o t)[i] # "Commit"
    <2>1. CASE i <= Len(s)
      BY <1>1, <2>1 DEF HasCommit
    <2>2. CASE i > Len(s)
      <3>1. i - Len(s) \in 1..Len(t) /\ (s \o t)[i] = t[i - Len(s)]
        BY <1>1, <2>2
      <3> QED
        BY <3>1 DEF HasCommit
    <2> QED
      BY <1>1, <2>1, <2>2
  <1> QED
    BY <1>1, <1>2 DEF HasCommit

LEMMA ReconciledConcat ==
  ASSUME NEW s \in Seq(Calls), NEW t \in Seq(Calls), Reconciled(s)
  PROVE  Reconciled(s \o t)
  <1>1. /\ Len(s) \in Nat /\ Len(t) \in Nat /\ Len(s \o t) = Len(s) + Len(t)
        /\ \A j \in 1..(Len(s) + Len(t)) : (s \o t)[j] = IF j <= Len(s) THEN s[j] ELSE t[j - Len(s)]
    BY ConcatProperties, LenProperties
  <1>2. PICK j \in 1..Len(s) : s[j] = "Reconcile" /\ \A i \in 1..j : s[i] # "Commit"
    BY DEF Reconciled
  <1>3. \A i \in 1..j : (s \o t)[i] = s[i]
    BY <1>1
  <1>4. j \in 1..Len(s \o t) /\ j \in 1..j
    BY <1>1
  <1> QED
    BY <1>2, <1>3, <1>4 DEF Reconciled

LEMMA ReconciledEnd ==
  ASSUME NEW s \in Seq(Calls), ~HasCommit(s)
  PROVE  Reconciled(s \o <<"Reconcile">>)
  <1>1. <<"Reconcile">> \in Seq(Calls) /\ Len(<<"Reconcile">>) = 1 /\ <<"Reconcile">>[1] = "Reconcile"
    BY DEF Calls
  <1> DEFINE t == <<"Reconcile">>
  <1>2. /\ Len(s) \in Nat /\ Len(s \o t) = Len(s) + 1
        /\ \A j \in 1..(Len(s) + 1) : (s \o t)[j] = IF j <= Len(s) THEN s[j] ELSE t[j - Len(s)]
    BY <1>1, ConcatProperties, LenProperties
  <1>3. (s \o t)[Len(s) + 1] = "Reconcile"
    BY <1>1, <1>2
  <1>4. \A i \in 1..(Len(s) + 1) : (s \o t)[i] # "Commit"
    BY <1>2, <1>3 DEF HasCommit
  <1> QED
    BY <1>2, <1>3, <1>4 DEF Reconciled

LEMMA ReconciledApplies ==
  ASSUME NEW t \in Seq(Calls), Reconciled(t), NEW b PROVE AppliesFirst(t, b)
  <1>1. PICK j \in 1..Len(t) : t[j] = "Reconcile" /\ \A i \in 1..j : t[i] # "Commit"
    BY DEF Reconciled
  <1>2. ASSUME NEW i \in 1..Len(t), t[i] = "Commit" PROVE j \in 1..(i - 1)
    BY <1>1, <1>2
  <1> QED
    BY <1>1, <1>2 DEF AppliesFirst

LEMMA NoCommitApplies == ASSUME NEW t, ~HasCommit(t), NEW b PROVE AppliesFirst(t, b)
  BY DEF HasCommit, AppliesFirst

\* The deferred calls and the handling of a failure commit nothing.
LEMMA ExitCommitsNot == ASSUME NEW w PROVE ~HasCommit(Exit(w))
  <1>1. CASE w \in Handlers
    <2>1. Len(Exit(w)) = 2 /\ Exit(w)[1] = "ReleaseLease" /\ Exit(w)[2] = "Release"
      BY <1>1 DEF Exit
    <2> QED
      BY <2>1 DEF HasCommit
  <1>2. CASE w \notin Handlers
    <2>1. /\ Len(Exit(w)) = 4 /\ Exit(w)[1] = "ReleaseLease" /\ Exit(w)[2] = "Release"
          /\ Exit(w)[3] = "ReleaseToken" /\ Exit(w)[4] = "Release"
      BY <1>2 DEF Exit
    <2> QED
      BY <2>1 DEF HasCommit
  <1> QED
    BY <1>1, <1>2

LEMMA FailCommitsNot == ASSUME NEW w, NEW b \in BOOLEAN PROVE ~HasCommit(FailProgram(w, b))
  <1>1. <<"Fail", "BeginRollback", "CompleteRollback">> \in Seq(Calls) /\ <<"Fail">> \in Seq(Calls)
    BY DEF Calls
  <1>2. ~HasCommit(<<"Fail", "BeginRollback", "CompleteRollback">>) /\ ~HasCommit(<<"Fail">>)
    BY DEF HasCommit
  <1> QED
    BY <1>1, <1>2, ExitType, ExitCommitsNot, NoCommitConcat DEF FailProgram

\* Run calls the Provisioner before it commits.
LEMMA ProgramApplies == ASSUME NEW w, NEW s, NEW b PROVE AppliesFirst(Program(w, s), b)
  <1> DEFINE t0 == IF s = "QUEUED" THEN <<"Start">> ELSE <<>>
             t1 == t0 \o Steps(PreSteps)
             t2 == t1 \o <<"Reconcile">>
             t3 == t2 \o Steps(PostSteps)
             t4 == t3 \o <<"Commit", "Succeed">>
             t5 == t4 \o Exit(w)
  <1>0. PreSteps \in Nat /\ PostSteps \in Nat
    BY OrchestratorAssumption
  <1>1. t0 \in Seq(Calls) /\ ~HasCommit(t0)
    <2>1. <<"Start">> \in Seq(Calls) /\ <<>> \in Seq(Calls)
      BY DEF Calls
    <2>2. ~HasCommit(<<"Start">>) /\ ~HasCommit(<<>>)
      BY DEF HasCommit
    <2> QED
      BY <2>1, <2>2
  <1>2. Steps(PreSteps) \in Seq(Calls) /\ ~HasCommit(Steps(PreSteps)) /\ Steps(PostSteps) \in Seq(Calls)
    BY <1>0, StepsType DEF HasCommit
  <1>3. <<"Reconcile">> \in Seq(Calls) /\ <<"Commit", "Succeed">> \in Seq(Calls)
    BY DEF Calls
  <1>4. t1 \in Seq(Calls) /\ ~HasCommit(t1)
    BY <1>1, <1>2, ConcatProperties, NoCommitConcat
  <1>5. t2 \in Seq(Calls) /\ Reconciled(t2)
    BY <1>3, <1>4, ConcatProperties, ReconciledEnd
  <1> HIDE DEF t2
  <1>6. t3 \in Seq(Calls) /\ Reconciled(t3)
    BY <1>2, <1>5, ConcatProperties, ReconciledConcat
  <1> HIDE DEF t3
  <1>7. t4 \in Seq(Calls) /\ Reconciled(t4)
    BY <1>3, <1>6, ConcatProperties, ReconciledConcat
  <1> HIDE DEF t4
  <1>8. t5 \in Seq(Calls) /\ Reconciled(t5)
    BY <1>7, ExitType, ConcatProperties, ReconciledConcat
  <1>9. AppliesFirst(t5, b) /\ AppliesFirst(Exit(w), b)
    BY <1>8, ReconciledApplies, ExitCommitsNot, NoCommitApplies
  <1> QED
    BY <1>9 DEF Program, t4, t3, t2

-----------------------------------------------------------------------------
(* Who has had company.                                                    *)

AtWork(x) == x.pc \in {"expire", "work"}

\* A goroutine's operation is of its project; it has checked the status for
\* the call it is about to write.
Own(x) == AtWork(x) => ops[x.op] # None /\ ops[x.op].project = x.project
CheckOK(x) == x.checked => AtWork(x) /\ x.todo # <<>> /\ Head(x.todo) \in ServiceCalls

\* Nobody wrote the status since it was checked, nor applied or admitted
\* another configuration since the snapshot.
Fresh(x) == x.checked => ops[x.op].status = Required[Head(x.todo)]
Ready(x) ==
    x.pc = "work" /\ HasCommit(x.todo) =>
        /\ x.snap = canonical[x.project]
        /\ AppliesFirst(x.todo, runtime[x.project] = x.snap)
Alone(x) == Fresh(x) /\ Ready(x)

\* Of two at work on one project both have had company.
CompanyOK ==
    \A v, w \in Procs :
        v # w /\ AtWork(proc[v]) /\ AtWork(proc[w]) /\ proc[v].project = proc[w].project => v \in company

OwnOps == \A w \in Procs : Own(proc[w])
TickerOps ==
    /\ \A e \in ticker.entries : ops[e.op] # None /\ ops[e.op].project = e.project
    /\ ticker.pc = "lease" => ops[ticker.op] # None /\ ops[ticker.op].project = ticker.project

History ==
    /\ CompanyOK
    /\ OwnOps
    /\ \A w \in Procs : CheckOK(proc[w])
    /\ \A w \in Procs \ company : Alone(proc[w])

\* Operations stay, and stay with their project.
OpsKept == \A o \in Ops : ops[o] # None => ops'[o] # None /\ ops'[o].project = ops[o].project

LEMMA UpdateKeeps ==
  ASSUME TypeOK, NEW o \in Ops, NEW s \in Statuses, UpdateOperation(o, s)
  PROVE  /\ OpsKept
         /\ \A q \in Ops : q # o => ops'[q] = ops[q]
         /\ canonical' = canonical
  <1>1. ops[o] \in Operation
    BY DEF TypeOK, UpdateOperation
  <1>2. ops' = [ops EXCEPT ![o].status = s] /\ ops \in [Ops -> Operation \cup {None}]
    BY DEF TypeOK, UpdateOperation
  <1>3. ops'[o] = [ops[o] EXCEPT !.status = s] /\ \A q \in Ops : q # o => ops'[q] = ops[q]
    BY <1>2
  <1>4. ops'[o].project = ops[o].project /\ ops'[o].status = s
    BY <1>1, <1>3 DEF Operation
  <1>5. ops'[o] # None
    <2>1. [ops[o] EXCEPT !.status = s] \in Operation
      BY <1>1 DEF Operation
    <2> QED
      BY <1>3, <2>1, ConstantsAssumption
  <1> QED
    BY <1>3, <1>4, <1>5 DEF OpsKept, UpdateOperation, projectVars

LEMMA AdmitKeeps ==
  ASSUME TypeOK, NEW p \in Projects, NEW o \in Ops, NEW e, NEW c, AdmitConfiguration(p, o, e, c, None)
  PROVE  /\ OpsKept
         /\ \A q \in Ops : ops[q] # None => ops'[q] = ops[q]
         /\ ops'[o] # None /\ ops'[o].project = p
         /\ \A q \in Projects : q # p => canonical'[q] = canonical[q]
  <1>1. ops[o] = None /\ ops' = [ops EXCEPT ![o] = [status |-> "QUEUED", project |-> p, phase |-> ""]]
        /\ canonical' = [canonical EXCEPT ![p] = c]
    BY DEF AdmitConfiguration
  <1>2. \A q \in Ops : ops[q] # None => ops'[q] = ops[q]
    BY <1>1 DEF TypeOK
  <1>3. ops'[o] = [status |-> "QUEUED", project |-> p, phase |-> ""] /\ ops'[o] # None
    <2>1. [status |-> "QUEUED", project |-> p, phase |-> ""] \in Operation
      BY ZenonT(30) DEF Operation, Statuses, Active, Phases
    <2> QED
      BY <1>1, <2>1, ConstantsAssumption DEF TypeOK
  <1> QED
    BY <1>1, <1>2, <1>3 DEF OpsKept, TypeOK

-----------------------------------------------------------------------------
(* The kinds of steps.                                                     *)

\* Only w's record changes; nobody else who stays alone is touched.
LEMMA HistoryStep ==
  ASSUME MemoryOK, History, NEW w \in Procs,
         \A v \in Procs : v # w => proc'[v] = proc[v],
         OpsKept, CompanyOK',
         \A v \in Procs : v # w /\ v \notin company' => v \notin company,
         \A v \in Procs : v # w /\ v \notin company' /\ AtWork(proc[v]) =>
             /\ ops'[proc[v].op] = ops[proc[v].op]
             /\ canonical'[proc[v].project] = canonical[proc[v].project]
             /\ runtime'[proc[v].project] = runtime[proc[v].project],
         Own(proc[w])', CheckOK(proc[w])', w \notin company' => Alone(proc[w])'
  PROVE  History'
  <1>1. OwnOps'
    <2> SUFFICES ASSUME NEW v \in Procs PROVE Own(proc[v])'
      BY DEF OwnOps
    <2>1. CASE v # w
      <3>1. AtWork(proc[v]) => proc[v].op \in Ops
        BY DEF MemoryOK, WorkerOK, AtWork
      <3> QED
        BY <2>1, <3>1 DEF History, OwnOps, Own, OpsKept, AtWork
    <2> QED
      BY <2>1
  <1>2. (\A v \in Procs : CheckOK(proc[v]))'
    <2> SUFFICES ASSUME NEW v \in Procs PROVE CheckOK(proc[v])'
      OBVIOUS
    <2>1. CASE v # w
      BY <2>1 DEF History, CheckOK, AtWork
    <2> QED
      BY <2>1
  <1>3. (\A v \in Procs \ company : Alone(proc[v]))'
    <2> SUFFICES ASSUME NEW v \in Procs, v \notin company' PROVE Alone(proc[v])'
      OBVIOUS
    <2>1. CASE v # w
      <3>1. proc'[v] = proc[v] /\ Alone(proc[v]) /\ CheckOK(proc[v])
        BY <2>1 DEF History
      <3>2. CASE AtWork(proc[v])
        BY <2>1, <3>1, <3>2 DEF Alone, Fresh, Ready
      <3>3. CASE ~AtWork(proc[v])
        BY <3>1, <3>3 DEF Alone, Fresh, Ready, CheckOK, AtWork
      <3> QED
        BY <3>2, <3>3
    <2> QED
      BY <2>1
  <1> QED
    BY <1>1, <1>2, <1>3 DEF History

\* A step of a goroutine at work.
LEMMA BusyStep ==
  ASSUME MemoryOK, History, NEW w \in Procs, AtWork(proc[w]),
         \A v \in Procs : v # w => proc'[v] = proc[v],
         OpsKept, canonical' = canonical,
         \A o \in Ops : o # proc[w].op => ops'[o] = ops[o],
         \A q \in Projects : q # proc[w].project => runtime'[q] = runtime[q],
         \/ /\ company' = company /\ AtWork(proc'[w])
            /\ proc'[w].project = proc[w].project /\ proc'[w].op = proc[w].op
         \/ /\ company' = company \/ company' = company \ {w}
            /\ ~AtWork(proc'[w]) /\ ~proc'[w].checked,
         AtWork(proc'[w]) => CheckOK(proc[w])' /\ (w \notin company => Alone(proc[w])')
  PROVE  History'
  <1>1. proc[w].project \in Projects /\ proc[w].op \in Ops /\ Own(proc[w])
    BY DEF MemoryOK, WorkerOK, AtWork, History, OwnOps
  <1>2. CompanyOK'
    <2> SUFFICES ASSUME NEW v \in Procs, NEW u \in Procs, v # u, AtWork(proc'[v]), AtWork(proc'[u]),
                        proc'[v].project = proc'[u].project
                 PROVE  v \in company'
      BY DEF CompanyOK, AtWork
    <2>1. AtWork(proc[v]) /\ AtWork(proc[u]) /\ proc[v].project = proc[u].project
      OBVIOUS
    <2>2. v \in company
      BY <2>1 DEF History, CompanyOK
    <2> QED
      BY <2>2
  <1>3. ASSUME NEW v \in Procs, v # w, v \notin company', AtWork(proc[v])
        PROVE  /\ ops'[proc[v].op] = ops[proc[v].op]
               /\ runtime'[proc[v].project] = runtime[proc[v].project]
    <2>1. proc[v].project \in Projects /\ proc[v].op \in Ops /\ Own(proc[v])
      BY <1>3 DEF MemoryOK, WorkerOK, AtWork, History, OwnOps
    <2>2. proc[v].project # proc[w].project
      BY <1>3 DEF History, CompanyOK
    <2>3. proc[v].op # proc[w].op
      BY <1>1, <1>3, <2>1, <2>2 DEF Own
    <2> QED
      BY <2>1, <2>2, <2>3
  <1>4. Own(proc[w])'
    BY <1>1 DEF Own, OpsKept, AtWork
  <1>5. CheckOK(proc[w])' /\ (w \notin company' => Alone(proc[w])')
    BY DEF CheckOK, Alone, Fresh, Ready, AtWork
  <1> QED
    BY <1>2, <1>3, <1>4, <1>5, HistoryStep

\* A request before it is at work, or one that is refused.
LEMMA QuietStep ==
  ASSUME MemoryOK, History, NEW w \in Procs, ~AtWork(proc[w]), ~AtWork(proc'[w]), ~proc'[w].checked,
         \A v \in Procs : v # w => proc'[v] = proc[v],
         ops' = ops, canonical' = canonical, runtime' = runtime,
         company' = company \/ company' = company \ {w}
  PROVE  History'
  <1>1. OpsKept
    BY DEF OpsKept
  <1>2. CompanyOK'
    BY DEF History, CompanyOK, AtWork
  <1>3. Own(proc[w])' /\ CheckOK(proc[w])' /\ Alone(proc[w])'
    BY DEF Own, CheckOK, Alone, Fresh, Ready, AtWork
  <1> QED
    BY <1>1, <1>2, <1>3, HistoryStep

\* A goroutine begins to work on p.
LEMMA JoinStep ==
  ASSUME MemoryOK, History, NEW w \in Procs, ~AtWork(proc[w]), NEW p \in Projects,
         \A v \in Procs : v # w => proc'[v] = proc[v],
         proc'[w].project = p, Joins(w, p), ~proc'[w].checked, ~HasCommit(proc'[w].todo),
         Own(proc[w])', OpsKept,
         \A o \in Ops : ops[o] # None => ops'[o] = ops[o],
         \A q \in Projects : q # p => canonical'[q] = canonical[q],
         runtime' = runtime
  PROVE  History'
  <1> DEFINE others == {v \in Procs \ {w} : Busy(v, p)}
  <1>1. /\ others = {} => company' = company \ {w}
        /\ others # {} => company' = company \cup others \cup {w}
    BY DEF Joins
  <1>2. \A v \in Procs : v \in others <=> v # w /\ AtWork(proc[v]) /\ proc[v].project = p
    BY DEF Busy, AtWork
  <1> HIDE DEF others
  <1>3. CompanyOK'
    <2> SUFFICES ASSUME NEW v \in Procs, NEW u \in Procs, v # u, AtWork(proc'[v]), AtWork(proc'[u]),
                        proc'[v].project = proc'[u].project
                 PROVE  v \in company'
      BY DEF CompanyOK, AtWork
    <2>1. CASE v = w
      <3>1. u \in others
        BY <1>2, <2>1
      <3> QED
        BY <1>1, <2>1, <3>1
    <2>2. CASE u = w
      <3>1. v \in others
        BY <1>2, <2>2
      <3> QED
        BY <1>1, <3>1
    <2>3. CASE v # w /\ u # w
      <3>1. v \in company
        BY <2>3 DEF History, CompanyOK
      <3> QED
        BY <1>1, <2>3, <3>1
    <2> QED
      BY <2>1, <2>2, <2>3
  <1>4. \A v \in Procs : v # w /\ v \notin company' => v \notin company
    BY <1>1
  <1>5. ASSUME NEW v \in Procs, v # w, v \notin company', AtWork(proc[v])
        PROVE  /\ ops'[proc[v].op] = ops[proc[v].op]
               /\ canonical'[proc[v].project] = canonical[proc[v].project]
    <2>1. proc[v].project \in Projects /\ proc[v].op \in Ops /\ ops[proc[v].op] # None
      BY <1>5 DEF MemoryOK, WorkerOK, AtWork, History, OwnOps, Own
    <2>2. proc[v].project # p
      BY <1>1, <1>2, <1>5
    <2> QED
      BY <2>1, <2>2
  <1>6. CheckOK(proc[w])' /\ Alone(proc[w])'
    BY DEF CheckOK, Alone, Fresh, Ready
  <1> QED
    BY <1>3, <1>4, <1>5, <1>6, HistoryStep

-----------------------------------------------------------------------------
(* Each step keeps the history.                                            *)

LEMMA RunHistory ==
  ASSUME TypeOK, MemoryOK, History, NEW w \in Procs,
         Run(w) \/ releaseLeaseToken(w) \/ Deadline(w) \/ LookupFails(w) \/ ReadFails(w)
  PROVE  History' /\ OpsKept
  <1> DEFINE x == proc[w]
             p == proc[w].project
  <1>0. Working(w)
    BY DEF Run, Snapshot, Check, Write, Falter, Reconcile, Commit, ReleaseLease, Release,
           releaseLeaseToken, Deadline, LookupFails, ReadFails
  <1>1. /\ x \in Worker /\ x.pc = "work" /\ x.project \in Projects /\ x.op \in Ops /\ x.todo \in Seq(Calls)
        /\ x.todo # <<>> /\ proc \in [Procs -> Worker] /\ AtWork(x)
        /\ ops[x.op] # None /\ (w \notin company => Alone(x))
        /\ runtime \in [Projects -> Configs \cup {None}]
    BY <1>0 DEF Working, MemoryOK, WorkerOK, Worker, AtWork, History, OwnOps, Own
  <1>2. \A v \in Procs : v # w => proc'[v] = proc[v]
    BY <1>1, OnlyOne DEF OnlyMe
  <1>3. Next1(w) \notin ServiceCalls => ~x.checked
    BY DEF History, CheckOK, Next1
  <1>4. ops' = ops => OpsKept
    BY DEF OpsKept
  <1>5. ASSUME OpsKept, canonical' = canonical, \A o \in Ops : o # x.op => ops'[o] = ops[o],
               \A q \in Projects : q # p => runtime'[q] = runtime[q], company' = company,
               proc'[w].pc = "work", proc'[w].project = p, proc'[w].op = x.op,
               CheckOK(proc[w])', w \notin company => Alone(proc[w])'
        PROVE  History' /\ OpsKept
    <2>1. AtWork(proc'[w])
      BY <1>5 DEF AtWork
    <2> QED
      BY <1>1, <1>2, <1>5, <2>1, BusyStep
  <1>6. ASSUME NEW t, ~HasCommit(t), OpsKept, canonical' = canonical,
               \A o \in Ops : o # x.op => ops'[o] = ops[o],
               \A q \in Projects : q # p => runtime'[q] = runtime[q], company' = company,
               \/ proc' = [proc EXCEPT ![w].todo = t, ![w].checked = FALSE]
               \/ proc' = [proc EXCEPT ![w].todo = t] /\ ~x.checked
        PROVE  History' /\ OpsKept
    <2>1. /\ proc'[w].pc = "work" /\ proc'[w].project = p /\ proc'[w].op = x.op /\ proc'[w].todo = t
          /\ ~proc'[w].checked
      <3>1. CASE proc' = [proc EXCEPT ![w].todo = t, ![w].checked = FALSE]
        BY <1>1, <3>1 DEF Worker
      <3>2. CASE proc' = [proc EXCEPT ![w].todo = t] /\ ~x.checked
        BY <1>1, <3>2 DEF Worker
      <3> QED
        BY <1>6, <3>1, <3>2
    <2>2. CheckOK(proc[w])' /\ Alone(proc[w])'
      BY <1>6, <2>1 DEF CheckOK, Alone, Fresh, Ready
    <2> QED
      BY <1>5, <1>6, <2>1, <2>2
  <1>7. ASSUME OpsKept, canonical' = canonical, \A o \in Ops : o # x.op => ops'[o] = ops[o],
               \A q \in Projects : q # p => runtime'[q] = runtime[q], company' = company,
               \/ Advance(w)
               \/ proc' = [proc EXCEPT ![w].todo = Tail(@)] /\ ~x.checked,
               \/ runtime' = runtime /\ Next1(w) # "Reconcile"
               \/ runtime'[p] = x.snap
        PROVE  History' /\ OpsKept
    <2>1. /\ proc'[w].pc = "work" /\ proc'[w].project = p /\ proc'[w].op = x.op
          /\ proc'[w].todo = Tail(x.todo) /\ proc'[w].snap = x.snap /\ ~proc'[w].checked
      <3>1. CASE Advance(w)
        BY <1>1, <3>1 DEF Worker, Advance
      <3>2. CASE proc' = [proc EXCEPT ![w].todo = Tail(@)] /\ ~x.checked
        BY <1>1, <3>2 DEF Worker
      <3> QED
        BY <1>7, <3>1, <3>2
    <2>2. CheckOK(proc[w])' /\ Fresh(proc[w])'
      BY <2>1 DEF CheckOK, Fresh
    <2>3. ASSUME w \notin company PROVE Ready(proc[w])'
      <3> SUFFICES ASSUME HasCommit(Tail(x.todo))
                   PROVE  x.snap = canonical[p] /\ AppliesFirst(Tail(x.todo), runtime'[p] = x.snap)
        BY <1>7, <2>1 DEF Ready
      <3>1. x.snap = canonical[p] /\ AppliesFirst(x.todo, runtime[p] = x.snap)
        BY <1>1, <2>3, CommitTail DEF Alone, Ready
      <3>2. CASE runtime' = runtime /\ Next1(w) # "Reconcile"
        <4>1. (runtime[p] = x.snap) \in BOOLEAN
          OBVIOUS
        <4> QED
          BY <1>1, <3>1, <3>2, <4>1, AppliedTail DEF Next1
      <3>3. CASE runtime'[p] = x.snap
        BY <3>1, <3>3 DEF AppliesFirst
      <3> QED
        BY <1>7, <3>1, <3>2, <3>3
    <2> QED
      BY <1>5, <1>7, <2>1, <2>2, <2>3 DEF Alone
  <1>8. ASSUME Finish(w), ops' = ops, canonical' = canonical, runtime' = runtime, Next1(w) # "Reconcile"
        PROVE  History' /\ OpsKept
    <2>1. CASE Advance(w) /\ company' = company
      BY <1>4, <1>7, <1>8, <2>1
    <2>2. CASE Ends(w)
      <3>1. ~AtWork(proc'[w]) /\ ~proc'[w].checked /\ company' = company \ {w}
        BY <1>1, <2>2 DEF Ends, Idle, AtWork
      <3> QED
        BY <1>1, <1>2, <1>4, <1>8, <3>1, BusyStep
    <2> QED
      BY <1>8, <2>1, <2>2 DEF Finish
  <1>9. CASE Snapshot(w)
    <2>1. /\ proc'[w].pc = "work" /\ proc'[w].project = p /\ proc'[w].op = x.op
          /\ proc'[w].todo = Program(w, x.seen) /\ proc'[w].snap = canonical[p] /\ ~proc'[w].checked
      BY <1>1, <1>3, <1>9 DEF Worker, Snapshot, ServiceCalls, Required
    <2>2. canonical' = canonical /\ runtime' = runtime /\ ops' = ops /\ company' = company
      BY <1>9 DEF Snapshot, storeVars
    <2>3. AppliesFirst(Program(w, x.seen), runtime[p] = canonical[p])
      BY ProgramApplies
    <2>4. CheckOK(proc[w])' /\ Alone(proc[w])'
      BY <2>1, <2>2, <2>3 DEF CheckOK, Alone, Fresh, Ready
    <2> QED
      BY <1>4, <1>5, <2>1, <2>2, <2>4
  <1>10. CASE Check(w)
    <2>0. canonical' = canonical /\ runtime' = runtime /\ ops' = ops /\ company' = company /\ ~x.checked
      BY <1>10 DEF Check, storeVars
    <2>1. CASE ops[x.op].status = Required[Next1(w)] /\ proc' = [proc EXCEPT ![w].checked = TRUE]
      <3>1. /\ proc'[w].pc = "work" /\ proc'[w].project = p /\ proc'[w].op = x.op
            /\ proc'[w].todo = x.todo /\ proc'[w].snap = x.snap /\ proc'[w].checked
        BY <1>1, <2>1 DEF Worker
      <3>2. CheckOK(proc[w])'
        BY <1>1, <1>10, <3>1 DEF CheckOK, AtWork, Check, Next1
      <3>3. w \notin company => Alone(proc[w])'
        BY <1>1, <2>0, <2>1, <3>1 DEF Alone, Fresh, Ready, Next1
      <3> QED
        BY <1>4, <1>5, <2>0, <3>1, <3>2, <3>3
    <2>2. CASE proc' = [proc EXCEPT ![w].todo = Tail(@)] /\ Next1(w) = "Fail"
      BY <1>4, <1>7, <2>0, <2>2
    <2>3. CASE proc' = [proc EXCEPT ![w].todo = Exit(w)]
      BY <1>4, <1>6, <2>0, <2>3, ExitCommitsNot
    <2> QED
      BY <1>1, <1>10, <2>1, <2>2, <2>3 DEF Check
  <1>11. CASE Write(w)
    <2>1. Result[Next1(w)] \in Statuses /\ Next1(w) # "Reconcile"
      BY <1>11, CallTypes DEF Write, ServiceCalls, Required
    <2>2. OpsKept /\ canonical' = canonical /\ \A o \in Ops : o # x.op => ops'[o] = ops[o]
      BY <1>1, <1>11, <2>1, UpdateKeeps DEF Write
    <2> QED
      BY <1>7, <1>11, <2>1, <2>2 DEF Write
  <1>12. CASE Falter(w)
    BY <1>4, <1>6, <1>12, FailCommitsNot DEF Falter, storeVars
  <1>13. CASE Reconcile(w)
    <2>0. canonical' = canonical /\ ops' = ops /\ company' = company /\ ~x.checked
      BY <1>3, <1>13 DEF Reconcile, storeVars, ServiceCalls, Required
    <2>1. (runtime' = [runtime EXCEPT ![p] = x.snap] /\ runtime'[p] = x.snap
             /\ \A q \in Projects : q # p => runtime'[q] = runtime[q]) \/ runtime' = runtime
      BY <1>1, <1>13 DEF Reconcile, Applied
    <2>2. CASE Applied(w) /\ Advance(w)
      <3>1. runtime'[p] = x.snap /\ \A q \in Projects : q # p => runtime'[q] = runtime[q]
        BY <1>1, <2>2 DEF Applied
      <3> QED
        BY <1>4, <1>7, <2>0, <2>2, <3>1
    <2>3. ASSUME NEW b \in BOOLEAN, proc' = [proc EXCEPT ![w].todo = FailProgram(w, b)]
          PROVE  History' /\ OpsKept
      BY <1>4, <1>6, <2>0, <2>1, <2>3, FailCommitsNot
    <2> QED
      BY <1>13, <2>2, <2>3 DEF Reconcile
  <1>14. CASE Commit(w)
    BY <1>4, <1>7, <1>14 DEF Commit, CommitCanonicalConfiguration
  <1>15. CASE ReleaseLease(w)
    <2>1. ops' = ops /\ canonical' = canonical
      BY <1>15 DEF ReleaseLease, ReleaseConfigurationLeaseOwned, storeVars, projectVars
    <2> QED
      BY <1>8, <1>15, <2>1 DEF ReleaseLease
  <1>16. CASE Release(w)
    BY <1>8, <1>16 DEF Release, storeVars
  <1>17. CASE releaseLeaseToken(w)
    <2>1. ops' = ops /\ canonical' = canonical
      BY <1>17 DEF releaseLeaseToken, ReleaseConfigurationLeaseOwned, storeVars, projectVars
    <2> QED
      BY <1>4, <1>7, <1>17, <2>1 DEF releaseLeaseToken
  <1>18. CASE Deadline(w)
    <2>1. \A q \in Projects : q # p => runtime'[q] = runtime[q]
      BY <1>1, <1>18 DEF Deadline, Applied
    <2> QED
      BY <1>4, <1>6, <1>18, <2>1, ExitCommitsNot DEF Deadline, storeVars
  <1>19. CASE LookupFails(w)
    <2>1. ~HasCommit(<<"Release", "ReleaseLease">>)
      BY DEF HasCommit
    <2>2. ~x.checked
      BY <1>3, <1>19 DEF LookupFails, ServiceCalls, Required
    <2> QED
      BY <1>4, <1>6, <1>19, <2>1, <2>2 DEF LookupFails, storeVars
  <1>20. CASE ReadFails(w)
    <2>0. ~x.checked /\ ops' = ops /\ canonical' = canonical /\ runtime' = runtime
      BY <1>3, <1>20 DEF ReadFails, ServiceCalls, Required, storeVars
    <2>1. CASE Ends(w)
      <3>1. ~AtWork(proc'[w]) /\ ~proc'[w].checked /\ company' = company \ {w}
        BY <1>1, <2>1 DEF Ends, Idle, AtWork
      <3> QED
        BY <1>1, <1>2, <1>4, <2>0, <3>1, BusyStep
    <2>2. CASE proc' = [proc EXCEPT ![w].todo = <<"ReleaseToken", "Release">>] /\ company' = company
      <3>1. ~HasCommit(<<"ReleaseToken", "Release">>)
        BY DEF HasCommit
      <3> QED
        BY <1>4, <1>6, <2>0, <2>2, <3>1
    <2> QED
      BY <1>20, <2>1, <2>2 DEF ReadFails
  <1> QED
    BY <1>9, <1>10, <1>11, <1>12, <1>13, <1>14, <1>15, <1>16, <1>17, <1>18, <1>19, <1>20 DEF Run

LEMMA RequestHistory ==
  ASSUME TypeOK, MemoryOK, History, NEW h \in Handlers, QueuePatch(h)
  PROVE  History' /\ OpsKept
  <1> DEFINE x == proc[h]
             p == proc[h].project
  <1>1. h \in Procs /\ proc \in [Procs -> Worker] /\ x \in Worker /\ CheckOK(x)
    BY DEF Procs, MemoryOK, History
  <1>2. ops' = ops => OpsKept
    BY DEF OpsKept
  <1>3. x.pc \notin {"expire", "work"} => ~AtWork(x) /\ ~x.checked
    BY <1>1 DEF AtWork, CheckOK
  <1>4. ASSUME NEW q \in Projects, Lock(h, q) PROVE History' /\ OpsKept
    <2>1. ~AtWork(proc'[h]) /\ ~proc'[h].checked /\ \A v \in Procs : v # h => proc'[v] = proc[v]
      BY <1>1, <1>4 DEF Lock, AtWork, Idle
    <2>2. ~AtWork(x)
      BY <1>4 DEF Lock, AtWork
    <2> QED
      BY <1>1, <1>2, <1>4, <2>1, <2>2, QuietStep DEF Lock, storeVars
  <1>5. ReadCanonical(h) \/ FindActiveOperation(h) \/ Expire(h) \/ Admit(h) =>
           /\ \A v \in Procs : v # h => proc'[v] = proc[v]
           /\ p \in Projects
    <2>1. ReadCanonical(h) \/ FindActiveOperation(h) \/ Expire(h) \/ Admit(h) =>
             \A v \in Procs : v # h => proc'[v] = proc[v]
      BY <1>1, OnlyOne DEF OnlyMe
    <2> QED
      BY <1>1, <2>1 DEF MemoryOK, WorkerOK, ReadCanonical, FindActiveOperation, Expire, Admit
  <1>6. CASE ReadCanonical(h)
    <2>1. ~AtWork(x) /\ ~x.checked
      BY <1>3, <1>6 DEF ReadCanonical
    <2>2. ~AtWork(proc'[h]) /\ ~proc'[h].checked
      BY <1>1, <1>6, <2>1 DEF ReadCanonical, AtWork, Worker
    <2> QED
      BY <1>1, <1>2, <1>5, <1>6, <2>1, <2>2, QuietStep DEF ReadCanonical, storeVars
  <1>7. CASE FindActiveOperation(h)
    <2>0. ops' = ops /\ canonical' = canonical /\ runtime' = runtime /\ ~AtWork(x) /\ ~x.checked
      BY <1>3, <1>7 DEF FindActiveOperation, storeVars
    <2>1. CASE proc' = [proc EXCEPT ![h].pc = "admit"] /\ company' = company
      <3>1. ~AtWork(proc'[h]) /\ ~proc'[h].checked
        BY <1>1, <2>0, <2>1 DEF AtWork, Worker
      <3> QED
        BY <1>1, <1>2, <1>5, <1>7, <2>0, <2>1, <3>1, QuietStep
    <2>2. ASSUME Joins(h, p), NEW o \in ActiveOps(p), NEW t, ~HasCommit(t),
                 \/ proc' = [proc EXCEPT ![h].pc = "expire", ![h].op = o, ![h].todo = t]
                 \/ \E s : proc' = [proc EXCEPT ![h].pc = "work", ![h].op = o, ![h].seen = s, ![h].todo = t]
          PROVE  History' /\ OpsKept
      <3>1. /\ AtWork(proc'[h]) /\ proc'[h].project = p /\ proc'[h].op = o /\ proc'[h].todo = t
            /\ ~proc'[h].checked
        <4>1. CASE proc' = [proc EXCEPT ![h].pc = "expire", ![h].op = o, ![h].todo = t]
          BY <1>1, <2>0, <4>1 DEF AtWork, Worker
        <4>2. ASSUME NEW s, proc' = [proc EXCEPT ![h].pc = "work", ![h].op = o, ![h].seen = s, ![h].todo = t]
              PROVE  /\ AtWork(proc'[h]) /\ proc'[h].project = p /\ proc'[h].op = o /\ proc'[h].todo = t
                     /\ ~proc'[h].checked
          BY <1>1, <2>0, <4>2 DEF AtWork, Worker
        <4> QED
          BY <2>2, <4>1, <4>2
      <3>2. Own(proc[h])'
        BY <2>0, <2>2, <3>1 DEF Own, ActiveOps
      <3> QED
        BY <1>1, <1>2, <1>5, <1>7, <2>0, <2>2, <3>1, <3>2, JoinStep
    <2>3. ~HasCommit(<<"Start", "Fail">>) /\ ~HasCommit(<<"Fail">>) /\ ~HasCommit(<<"Snapshot">>)
      BY DEF HasCommit
    <2>4. CASE ~(proc' = [proc EXCEPT ![h].pc = "admit"] /\ company' = company)
      <3>0. Joins(h, p)
        BY <1>7, <2>4 DEF FindActiveOperation
      <3>1. PICK o \in ActiveOps(p) :
              \/ proc' = [proc EXCEPT ![h].pc = "expire", ![h].op = o,
                            ![h].todo = IF ops[o].status = "QUEUED" THEN <<"Start", "Fail">> ELSE <<"Fail">>]
              \/ proc' = [proc EXCEPT ![h].pc = "work", ![h].op = o, ![h].seen = ops[o].status,
                            ![h].todo = <<"Snapshot">>]
        BY <1>7, <2>4 DEF FindActiveOperation
      <3> QED
        BY <2>2, <2>3, <3>0, <3>1
    <2> QED
      BY <2>1, <2>4
  <1>8. CASE Expire(h)
    <2>0. /\ x.pc = "expire" /\ AtWork(x) /\ x.op \in Ops /\ p \in Projects /\ x.todo \in Seq(Calls)
          /\ runtime' = runtime /\ company' = company /\ (x.todo = <<>> => ~x.checked)
      BY <1>1, <1>5, <1>8 DEF Expire, AtWork, MemoryOK, WorkerOK, Worker, CheckOK
    <2>1. ASSUME OpsKept, canonical' = canonical, \A o \in Ops : o # x.op => ops'[o] = ops[o],
                 proc'[h].pc = "expire", proc'[h].project = p, proc'[h].op = x.op,
                 CheckOK(proc[h])', Fresh(proc[h])'
          PROVE  History' /\ OpsKept
      <3>1. AtWork(proc'[h]) /\ Alone(proc[h])'
        BY <2>1 DEF AtWork, Alone, Ready
      <3> QED
        BY <1>1, <1>5, <1>8, <2>0, <2>1, <3>1, BusyStep
    <2>2. CASE proc' = [proc EXCEPT ![h].pc = "admit", ![h].op = None] /\ x.todo = <<>> /\ UNCHANGED storeVars
      <3>1. ~AtWork(proc'[h]) /\ ~proc'[h].checked
        BY <1>1, <2>0, <2>2 DEF AtWork, Worker
      <3>2. ops' = ops /\ canonical' = canonical
        BY <2>2 DEF storeVars
      <3> QED
        BY <1>1, <1>2, <1>5, <1>8, <2>0, <3>1, <3>2, BusyStep
    <2>3. CASE proc' = [proc EXCEPT ![h].checked = TRUE] /\ ops[x.op].status = Required[Head(x.todo)]
               /\ x.todo # <<>> /\ UNCHANGED storeVars
      <3>1. /\ proc'[h].pc = "expire" /\ proc'[h].project = p /\ proc'[h].op = x.op
            /\ proc'[h].todo = x.todo
        BY <1>1, <2>0, <2>3 DEF Worker
      <3>2. Head(x.todo) \in ServiceCalls
        <4>1. x.todo \in Seq({"Start", "Fail"})
          BY <1>1, <2>0 DEF MemoryOK, WorkerOK
        <4> QED
          BY <2>3, <4>1, TailOf DEF ServiceCalls, Required
      <3>3. ops' = ops /\ canonical' = canonical
        BY <2>3 DEF storeVars
      <3>4. CheckOK(proc[h])' /\ Fresh(proc[h])'
        BY <2>3, <3>1, <3>2, <3>3 DEF CheckOK, Fresh, AtWork
      <3> QED
        BY <1>2, <2>1, <3>1, <3>3, <3>4
    <2>4. CASE \/ proc' = [proc EXCEPT ![h].todo = Tail(@)] /\ ~x.checked /\ UNCHANGED storeVars
               \/ /\ proc' = [proc EXCEPT ![h].checked = FALSE, ![h].todo = Tail(@)]
                  /\ x.todo # <<>> /\ UpdateOperation(x.op, Result[Head(x.todo)])
      <3>1. /\ proc'[h].pc = "expire" /\ proc'[h].project = p /\ proc'[h].op = x.op
            /\ ~proc'[h].checked
        <4>1. CASE proc' = [proc EXCEPT ![h].todo = Tail(@)] /\ ~x.checked
          BY <1>1, <2>0, <4>1 DEF Worker
        <4>2. CASE proc' = [proc EXCEPT ![h].checked = FALSE, ![h].todo = Tail(@)]
          BY <1>1, <2>0, <4>2 DEF Worker
        <4> QED
          BY <2>4, <4>1, <4>2
      <3>2. OpsKept /\ canonical' = canonical /\ \A o \in Ops : o # x.op => ops'[o] = ops[o]
        <4>1. CASE UNCHANGED storeVars
          BY <1>2, <4>1 DEF storeVars
        <4>2. CASE x.todo # <<>> /\ UpdateOperation(x.op, Result[Head(x.todo)])
          <5>1. x.todo \in Seq({"Start", "Fail"})
            BY <1>1, <2>0 DEF MemoryOK, WorkerOK
          <5>2. Result[Head(x.todo)] \in Statuses
            BY <4>2, <5>1, TailOf, CallTypes DEF ServiceCalls, Required
          <5> QED
            BY <2>0, <4>2, <5>2, UpdateKeeps
        <4> QED
          BY <2>4, <4>1, <4>2
      <3>3. CheckOK(proc[h])' /\ Fresh(proc[h])'
        BY <3>1 DEF CheckOK, Fresh
      <3> QED
        BY <2>1, <3>1, <3>2, <3>3
    <2> QED
      BY <1>8, <2>2, <2>3, <2>4 DEF Expire
  <1>9. CASE Admit(h)
    <2>0. ~AtWork(x) /\ ~x.checked /\ runtime' = runtime
      BY <1>3, <1>9 DEF Admit
    <2>1. CASE proc' = [proc EXCEPT ![h] = Idle] /\ company' = company \ {h} /\ UNCHANGED storeVars
      <3>1. ~AtWork(proc'[h]) /\ ~proc'[h].checked
        BY <1>1, <2>1 DEF AtWork, Idle
      <3> QED
        BY <1>1, <1>2, <1>5, <1>9, <2>0, <2>1, <3>1, QuietStep DEF storeVars
    <2>2. ASSUME NEW o \in Ops, NEW c, AdmitConfiguration(p, o, x.expected, c, None), Joins(h, p),
                 proc' = [proc EXCEPT ![h].pc = "work", ![h].op = o, ![h].seen = "QUEUED",
                            ![h].creator = TRUE, ![h].todo = <<"Snapshot">>]
          PROVE  History' /\ OpsKept
      <3>1. /\ OpsKept /\ \A q \in Ops : ops[q] # None => ops'[q] = ops[q]
            /\ ops'[o] # None /\ ops'[o].project = p
            /\ \A q \in Projects : q # p => canonical'[q] = canonical[q]
        BY <1>5, <1>9, <2>2, AdmitKeeps
      <3>2. /\ proc'[h].project = p /\ proc'[h].op = o /\ proc'[h].todo = <<"Snapshot">>
            /\ ~proc'[h].checked
        BY <1>1, <2>0, <2>2 DEF Worker
      <3>3. ~HasCommit(<<"Snapshot">>)
        BY DEF HasCommit
      <3>4. Own(proc[h])'
        BY <3>1, <3>2 DEF Own
      <3> QED
        BY <1>1, <1>5, <1>9, <2>0, <2>2, <3>1, <3>2, <3>3, <3>4, JoinStep
    <2> QED
      BY <1>9, <2>1, <2>2 DEF Admit
  <1> QED
    BY <1>4, <1>6, <1>7, <1>8, <1>9 DEF QueuePatch

LEMMA ResumeHistory ==
  ASSUME TypeOK, MemoryOK, History, TickerOps, Resume
  PROVE  History' /\ OpsKept
  <1>1. CASE UNCHANGED <<storeVars, proc, runtime, company>>
    BY <1>1 DEF storeVars, OpsKept, History, CompanyOK, OwnOps, Own, CheckOK, Alone, Fresh, Ready, AtWork
  <1>2. ASSUME NEW r \in Resumers, NEW f, proc[r].pc = "idle", ticker.pc = "lease",
               AcquireConfigurationLeaseForOperation(ticker.project, ticker.op),
               proc' = [proc EXCEPT ![r] = [Idle EXCEPT !.pc = "work", !.project = ticker.project,
                          !.op = ticker.op, !.seen = ticker.seen, !.fence = f, !.todo = <<"Snapshot">>]],
               Joins(r, ticker.project), runtime' = runtime
        PROVE  History' /\ OpsKept
    <2>1. r \in Procs /\ proc \in [Procs -> Worker] /\ ticker.project \in Projects /\ ~AtWork(proc[r])
      BY <1>2 DEF Procs, MemoryOK, TickerOK, AtWork
    <2>2. /\ proc'[r].project = ticker.project /\ proc'[r].op = ticker.op
          /\ proc'[r].todo = <<"Snapshot">> /\ ~proc'[r].checked
          /\ \A v \in Procs : v # r => proc'[v] = proc[v]
      BY <1>2, <2>1 DEF Idle
    <2>3. ops' = ops /\ canonical' = canonical /\ OpsKept
      BY <1>2 DEF AcquireConfigurationLeaseForOperation, projectVars, OpsKept
    <2>4. Own(proc[r])'
      BY <1>2, <2>2, <2>3 DEF Own, TickerOps
    <2>5. ~HasCommit(<<"Snapshot">>)
      BY DEF HasCommit
    <2> QED
      BY <1>2, <2>1, <2>2, <2>3, <2>4, <2>5, JoinStep
  <1>3. CASE ResumeLease
    BY <1>1, <1>2, <1>3 DEF ResumeLease
  <1> QED
    BY <1>1, <1>3 DEF Resume, ListActive, ResumeLock

LEMMA RestartHistory == ASSUME MemoryOK, Restart PROVE History' /\ OpsKept
  <1>1. \A w \in Procs : proc'[w] = Idle
    BY DEF Restart
  <1>2. ops' = ops /\ canonical' = canonical /\ company' = {}
    BY DEF Restart, storeVars
  <1>3. ~AtWork(Idle) /\ ~Idle.checked /\ Idle.pc # "work"
    BY DEF Idle, AtWork
  <1> QED
    BY <1>1, <1>2, <1>3 DEF History, CompanyOK, OwnOps, Own, CheckOK, Alone, Fresh, Ready, AtWork, OpsKept

Histories == History /\ TickerOps

LEMMA HistoryAlone ==
  ASSUME TypeOK, MemoryOK, History, TickerOps, [OrchNext]_orchVars
  PROVE  History' /\ OpsKept
  <1>0. Handlers \subseteq Procs /\ Resumers \subseteq Procs
    BY DEF Procs
  <1>1. CASE UNCHANGED <<storeVars, proc, runtime, company>>
    BY <1>1 DEF storeVars, OpsKept, History, CompanyOK, OwnOps, Own, CheckOK, Alone, Fresh, Ready, AtWork
  <1>2. ASSUME NEW h \in Handlers, QueuePatch(h) PROVE History' /\ OpsKept
    BY <1>2, RequestHistory
  <1>3. ASSUME NEW h \in Handlers, Run(h) \/ Deadline(h) \/ LookupFails(h) PROVE History' /\ OpsKept
    BY <1>0, <1>3, RunHistory
  <1>4. ASSUME NEW r \in Resumers, Run(r) \/ releaseLeaseToken(r) PROVE History' /\ OpsKept
    BY <1>0, <1>4, RunHistory
  <1>5. ASSUME NEW w \in Procs, ReadFails(w) PROVE History' /\ OpsKept
    BY <1>5, RunHistory
  <1>6. CASE Resume
    BY <1>6, ResumeHistory
  <1>7. CASE Restart
    BY <1>7, RestartHistory
  <1>8. CASE (\E p \in Projects : Time(p)) \/ (\E o \in Ops : Age(o)) \/ UNCHANGED orchVars
    <2>1. ops' = ops /\ canonical' = canonical /\ proc' = proc /\ runtime' = runtime /\ company' = company
      BY <1>8 DEF Time, Age, orchVars, storeVars, ExpireLease, projectVars
    <2> QED
      BY <2>1 DEF OpsKept, History, CompanyOK, OwnOps, Own, CheckOK, Alone, Fresh, Ready, AtWork
  <1>9. CASE OrchNext
    BY <1>2, <1>3, <1>4, <1>5, <1>6, <1>7, <1>8, <1>9 DEF OrchNext
  <1> QED
    BY <1>8, <1>9

LEMMA TickerKept ==
  ASSUME MemoryOK, TickerOps, OpsKept, [OrchNext]_orchVars
  PROVE  TickerOps'
  <1>0. Handlers \subseteq Procs /\ Resumers \subseteq Procs
    BY DEF Procs
  <1>1. ASSUME ticker'.entries \subseteq ticker.entries, ticker'.pc = "lease" => ticker' = ticker
        PROVE  TickerOps'
    <2>1. \A e \in ticker.entries : e.op \in Ops
      BY DEF MemoryOK, TickerOK, Entry
    <2>2. ticker.pc = "lease" => ticker.op \in Ops
      BY DEF MemoryOK, TickerOK
    <2> QED
      BY <1>1, <2>1, <2>2 DEF TickerOps, OpsKept
  <1>2. CASE ticker' = ticker
    BY <1>1, <1>2
  <1>3. CASE ticker' = Resting
    BY <1>1, <1>3 DEF Resting
  <1>4. CASE ListActive
    <2>1. ops' = ops /\ ticker'.pc = "list"
      BY <1>4 DEF ListActive, storeVars, MemoryOK, TickerOK
    <2>2. ASSUME NEW e \in ticker'.entries PROVE ops[e.op] # None /\ ops[e.op].project = e.project
      <3>1. PICK o \in UNION {ActiveOps(p) : p \in Projects} :
              e = [op |-> o, project |-> ops[o].project, seen |-> ops[o].status]
        BY <1>4, <2>2 DEF ListActive, MemoryOK, TickerOK
      <3> QED
        BY <3>1 DEF ActiveOps
    <2> QED
      BY <2>1, <2>2 DEF TickerOps
  <1>5. CASE ResumeLock
    <2>0. TickerOK
      BY DEF MemoryOK
    <2>1. ASSUME NEW e \in ticker.entries, ticker' = [ticker EXCEPT !.entries = @ \ {e}] PROVE TickerOps'
      BY <1>1, <1>5, <2>0, <2>1 DEF TickerOK, ResumeLock
    <2>2. ASSUME NEW e \in ticker.entries,
                 ticker' = [[ticker EXCEPT !.entries = @ \ {e}] EXCEPT !.pc = "lease",
                              !.project = e.project, !.op = e.op, !.seen = e.seen]
          PROVE  TickerOps'
      <3>1. /\ ticker'.entries \subseteq ticker.entries /\ ticker'.project = e.project
            /\ ticker'.op = e.op
        BY <2>0, <2>2 DEF TickerOK
      <3>2. ops' = ops
        BY <1>5 DEF ResumeLock, storeVars
      <3> QED
        BY <3>1, <3>2 DEF TickerOps
    <2> QED
      BY <1>3, <1>5, <2>1, <2>2 DEF ResumeLock
  <1>6. CASE ResumeLease
    <2>1. ticker'.entries = ticker.entries /\ ticker'.pc = "list"
      BY <1>6 DEF ResumeLease, MemoryOK, TickerOK
    <2> QED
      BY <1>1, <2>1
  <1>7. CASE Restart
    BY <1>3, <1>7 DEF Restart
  <1>8. ASSUME NEW w \in Procs,
               \/ \E q \in Projects : Lock(w, q)
               \/ ReadCanonical(w) \/ FindActiveOperation(w) \/ Expire(w) \/ Admit(w)
               \/ Run(w) \/ releaseLeaseToken(w) \/ Deadline(w) \/ LookupFails(w) \/ ReadFails(w)
        PROVE  ticker' = ticker
    BY <1>8 DEF Lock, ReadCanonical, FindActiveOperation, Expire, Admit, Run, Snapshot, Check, Write,
       Falter, Reconcile, Commit, ReleaseLease, Release, releaseLeaseToken, Deadline, LookupFails, ReadFails
  <1>9. CASE (\E p \in Projects : Time(p)) \/ (\E o \in Ops : Age(o)) \/ UNCHANGED orchVars
    BY <1>2, <1>9 DEF Time, Age, orchVars
  <1>10. CASE OrchNext
    BY <1>0, <1>2, <1>4, <1>5, <1>6, <1>7, <1>8, <1>9, <1>10 DEF OrchNext, QueuePatch, Resume
  <1> QED
    BY <1>9, <1>10

LEMMA HistoryKept == TypeOK /\ MemoryOK /\ Histories /\ [OrchNext]_orchVars => Histories'
  BY HistoryAlone, TickerKept DEF Histories

LEMMA InitHistories == OrchInit => Histories
  <1> SUFFICES ASSUME OrchInit PROVE Histories
    OBVIOUS
  <1>1. \A w \in Procs : proc[w] = Idle
    BY DEF OrchInit
  <1>2. ~AtWork(Idle) /\ ~Idle.checked /\ Idle.pc # "work"
    BY DEF Idle, AtWork
  <1>3. History
    BY <1>1, <1>2 DEF History, CompanyOK, OwnOps, Own, CheckOK, Alone, Fresh, Ready
  <1>4. TickerOps
    BY DEF OrchInit, TickerOps, Resting
  <1> QED
    BY <1>3, <1>4 DEF Histories

OrchHistory == OrchInv /\ Histories

LEMMA HistoryInvariance == OrchSpec => []OrchHistory
  <1>1. OrchInv /\ Histories /\ [OrchNext]_orchVars => Histories'
    BY HistoryKept DEF OrchInv, Inv
  <1> QED
    BY <1>1, InitHistories, OrchInvariance, PTL DEF OrchSpec, OrchHistory

-----------------------------------------------------------------------------
(* What an undisturbed goroutine does.                                     *)

AppliedCommit ==
    \A w \in Procs \ company : Commit(w) => runtime[proc[w].project] = canonical[proc[w].project]
EndKept ==
    \A o \in Ops :
        /\ ops[o] # None /\ ops[o].status \in {"SUCCEEDED", "ROLLED_BACK"}
        /\ ops'[o].status # ops[o].status
        => \E w \in company : proc[w].op = o

LEMMA CommitStep == OrchHistory => AppliedCommit
  <1> SUFFICES ASSUME OrchHistory, NEW w \in Procs, w \notin company, Commit(w)
               PROVE  runtime[proc[w].project] = canonical[proc[w].project]
    BY DEF AppliedCommit
  <1> DEFINE x == proc[w]
  <1>1. Alone(x) /\ x.pc = "work" /\ x.todo # <<>> /\ x.todo \in Seq(Calls) /\ Head(x.todo) = "Commit"
    BY DEF OrchHistory, OrchInv, Histories, History, Commit, Working, Next1, MemoryOK, Worker
  <1>2. 1 \in 1..Len(x.todo) /\ x.todo[1] = "Commit"
    BY <1>1, TailOf
  <1>3. x.snap = canonical[x.project] /\ AppliesFirst(x.todo, runtime[x.project] = x.snap)
    BY <1>1, <1>2 DEF Alone, Ready, HasCommit
  <1>4. ~\E j \in 1..(1 - 1) : x.todo[j] = "Reconcile"
    OBVIOUS
  <1>5. runtime[x.project] = x.snap
    BY <1>2, <1>3, <1>4 DEF AppliesFirst
  <1> QED
    BY <1>3, <1>5

LEMMA WriteStep ==
  ASSUME TypeOK, MemoryOK, NEW o \in Ops, NEW v \in Ops, NEW s \in Statuses,
         UpdateOperation(v, s), ops[o] # None, ops'[o].status # ops[o].status
  PROVE  v = o
  BY UpdateKeeps

LEMMA EndStep == OrchHistory /\ [OrchNext]_orchVars => EndKept
  <1> SUFFICES ASSUME OrchHistory, [OrchNext]_orchVars, NEW o \in Ops, ops[o] # None,
                      ops[o].status \in {"SUCCEEDED", "ROLLED_BACK"}, ops'[o].status # ops[o].status
               PROVE  \E w \in company : proc[w].op = o
    BY DEF EndKept
  <1>0. /\ TypeOK /\ MemoryOK /\ History /\ ops' # ops
        /\ Handlers \subseteq Procs /\ Resumers \subseteq Procs
    BY DEF OrchHistory, OrchInv, Inv, Histories, Procs
  <1>1. \A m \in ServiceCalls : Required[m] \notin {"SUCCEEDED", "ROLLED_BACK"}
    BY DEF ServiceCalls, Required
  <1>2. ASSUME NEW w \in Procs, proc[w].op \in Ops, proc[w].checked,
               UpdateOperation(proc[w].op, Result[Head(proc[w].todo)])
        PROVE  \E v \in company : proc[v].op = o
    <2>1. Head(proc[w].todo) \in ServiceCalls
      BY <1>0, <1>2 DEF History, CheckOK
    <2>2. proc[w].op = o
      <3>1. Result[Head(proc[w].todo)] \in Statuses
        BY <2>1, CallTypes
      <3> QED
        BY <1>0, <1>2, <3>1, WriteStep
    <2>3. CASE w \notin company
      <3>1. ops[o].status = Required[Head(proc[w].todo)]
        BY <1>0, <1>2, <2>2, <2>3 DEF History, Alone, Fresh
      <3> QED
        BY <1>1, <2>1, <3>1
    <2> QED
      BY <2>2, <2>3
  <1>3. ASSUME NEW h \in Handlers, QueuePatch(h) PROVE \E v \in company : proc[v].op = o
    <2>1. CASE Expire(h)
      <3>1. proc[h].op \in Ops
        BY <1>0, <2>1 DEF MemoryOK, WorkerOK, Expire
      <3>2. proc[h].checked /\ UpdateOperation(proc[h].op, Result[Head(proc[h].todo)])
        BY <1>0, <2>1 DEF Expire, storeVars
      <3> QED
        BY <1>0, <1>2, <3>1, <3>2
    <2>2. CASE Admit(h)
      <3>1. proc[h].project \in Projects
        BY <1>0, <2>2 DEF MemoryOK, WorkerOK, Admit
      <3>2. ASSUME NEW q \in Ops, NEW c, AdmitConfiguration(proc[h].project, q, proc[h].expected, c, None)
            PROVE  FALSE
        BY <1>0, <3>1, <3>2, AdmitKeeps
      <3> QED
        BY <1>0, <2>2, <3>2 DEF Admit, storeVars
    <2> QED
      BY <1>0, <1>3, <2>1, <2>2 DEF QueuePatch, Lock, ReadCanonical, FindActiveOperation, storeVars
  <1>4. ASSUME NEW w \in Procs, Run(w) PROVE \E v \in company : proc[v].op = o
    <2>1. Write(w)
      BY <1>0, <1>4 DEF Run, Snapshot, Check, Falter, Reconcile, Commit, ReleaseLease, Release, storeVars,
         CommitCanonicalConfiguration, ReleaseConfigurationLeaseOwned
    <2>2. proc[w].op \in Ops
      BY <1>0, <2>1 DEF MemoryOK, WorkerOK, Write, Working
    <2> QED
      BY <1>2, <2>1, <2>2 DEF Write, Next1
  <1>5. ASSUME NEW h \in Handlers, Deadline(h) \/ LookupFails(h) PROVE FALSE
    BY <1>0, <1>5 DEF Deadline, LookupFails, storeVars
  <1>6. ASSUME NEW r \in Resumers, releaseLeaseToken(r) PROVE FALSE
    BY <1>0, <1>6 DEF releaseLeaseToken, ReleaseConfigurationLeaseOwned
  <1>7. ASSUME NEW w \in Procs, ReadFails(w) PROVE FALSE
    BY <1>0, <1>7 DEF ReadFails, storeVars
  <1>8. CASE Resume
    BY <1>0, <1>8 DEF Resume, ListActive, ResumeLock, ResumeLease, storeVars,
       AcquireConfigurationLeaseForOperation
  <1>9. CASE Restart \/ (\E p \in Projects : Time(p)) \/ (\E q \in Ops : Age(q)) \/ UNCHANGED orchVars
    BY <1>0, <1>9 DEF Restart, Time, Age, orchVars, storeVars, ExpireLease
  <1>10. CASE OrchNext
    BY <1>0, <1>3, <1>4, <1>5, <1>6, <1>7, <1>8, <1>9, <1>10 DEF OrchNext
  <1> QED
    BY <1>9, <1>10

\* CommittedIsApplied for any number of operations, requests, resumed
\* goroutines and faults, the hour's expiry and the hand-over included.
THEOREM CommitsWhatRuns == OrchSpec => CommittedIsApplied
  <1>1. OrchSpec => [][AppliedCommit]_orchVars
    BY CommitStep, HistoryInvariance, PTL
  <1> QED
    BY <1>1, PTL DEF CommittedIsApplied, AppliedCommit

\* EndIsFinal likewise: the check that precedes each unconditional write is
\* enough as long as nobody else is at work on the project.
THEOREM EndsAreFinal == OrchSpec => EndIsFinal
  <1>1. OrchHistory /\ [OrchNext]_orchVars => [EndKept]_orchVars
    BY EndStep
  <1>2. OrchSpec => [][EndKept]_orchVars
    BY <1>1, HistoryInvariance, PTL DEF OrchSpec
  <1> QED
    BY <1>2, PTL DEF EndIsFinal, EndKept
=============================================================================
