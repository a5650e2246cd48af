--------------------------- MODULE OperationLedger ---------------------------
(***************************************************************************)
(* Operation records: operation/service.go over store/operations.go.       *)
(*                                                                         *)
(* A method of the service reads the row and compares its status           *)
(* (requireStatus), and then writes it in a transaction of its own that    *)
(* asks only for the id (UpdateOperation).  Between the two, any other     *)
(* caller may run; a caller may also stop there (context cancelled,        *)
(* Manager killed).  Every write appends its event in the same             *)
(* transaction.  Step names, progress, error texts and times are left out. *)
(***************************************************************************)
EXTENDS Naturals, Sequences, FiniteSets

CONSTANTS
    Ops,        \* operation identifiers
    Projects,   \* project identifiers
    Procs,      \* goroutines that call the service, each on any operation
    Null,
    MaxEvents   \* bound on the events of one operation

Methods == {"Start", "StartStep", "CompleteStep", "Fail",
            "BeginRollback", "CompleteRollback", "Succeed"}

Active == {"QUEUED", "RUNNING"}
Statuses == Active \cup {"FAILED", "SUCCEEDED", "ROLLING_BACK", "ROLLED_BACK"}
Row == [status : Statuses, project : Projects \cup {Null}]
Call == [op : Ops, method : Methods]

ASSUME LedgerAssumption ==
    /\ MaxEvents \in Nat
    /\ Null \notin Projects
    /\ Null \notin Row \cup Call

VARIABLES
    row,        \* operations: status and project_id (Null is NULL)
    events,     \* operation_events, in sequence order
    live,       \* the projects that exist
    call,       \* a method that has read its row and not written it yet
    contested   \* history: operations whose pending calls have overlapped

ledgerVars == <<row, events, live, call, contested>>

EventTypes == {"OPERATION_QUEUED", "OPERATION_STARTED", "STEP_STARTED", "STEP_COMPLETED",
               "OPERATION_FAILED", "ROLLBACK_STARTED", "ROLLBACK_COMPLETED",
               "OPERATION_SUCCEEDED"}

\* The status a method asks for.
Required ==
    [Start |-> "QUEUED", StartStep |-> "RUNNING", CompleteStep |-> "RUNNING",
     Fail |-> "RUNNING", BeginRollback |-> "FAILED", CompleteRollback |-> "ROLLING_BACK",
     Succeed |-> "RUNNING"]

\* The status it writes.
Result ==
    [Start |-> "RUNNING", StartStep |-> "RUNNING", CompleteStep |-> "RUNNING",
     Fail |-> "FAILED", BeginRollback |-> "ROLLING_BACK", CompleteRollback |-> "ROLLED_BACK",
     Succeed |-> "SUCCEEDED"]

\* The event it appends.
EventOf ==
    [Start |-> "OPERATION_STARTED", StartStep |-> "STEP_STARTED",
     CompleteStep |-> "STEP_COMPLETED", Fail |-> "OPERATION_FAILED",
     BeginRollback |-> "ROLLBACK_STARTED", CompleteRollback |-> "ROLLBACK_COMPLETED",
     Succeed |-> "OPERATION_SUCCEEDED"]

TypeOK ==
    /\ row \in [Ops -> Row \cup {Null}]
    /\ events \in [Ops -> Seq(EventTypes)]
    /\ live \subseteq Projects
    /\ call \in [Procs -> Call \cup {Null}]
    /\ contested \subseteq Ops

Init ==
    /\ row = [o \in Ops |-> Null]
    /\ events = [o \in Ops |-> <<>>]
    /\ live = Projects
    /\ call = [w \in Procs |-> Null]
    /\ contested = {}

\* An operation is contested from when two calls on it are pending at once
\* until none is.
Pending(c, w, o) == c[w] # Null /\ c[w].op = o
Contests(c) ==
    {o \in Ops : \E v, w \in Procs :
        Pending(c, v, o) /\ Pending(c, w, o) /\ (v # w \/ o \in contested)}

-----------------------------------------------------------------------------

\* Create, and admission of a configuration candidate, which inserts the row
\* and its event the same way.
Create(o, p) ==
    /\ row[o] = Null
    /\ p \in live
    /\ row' = [row EXCEPT ![o] = [status |-> "QUEUED", project |-> p]]
    /\ events' = [events EXCEPT ![o] = <<"OPERATION_QUEUED">>]
    /\ UNCHANGED <<live, call, contested>>

\* GetOperation scans project_id into a string: a NULL is an error.
Readable(o) == row[o] # Null /\ row[o].project # Null

\* Mutant: a method proceeds from any status.
RequireNothing(o, m) == Readable(o)
requireStatus(o, m) == Readable(o) /\ row[o].status = Required[m]

Begin(w, o, m) ==
    /\ call[w] = Null
    /\ requireStatus(o, m)
    /\ call' = [call EXCEPT ![w] = [op |-> o, method |-> m]]
    /\ contested' = Contests(call')
    /\ UNCHANGED <<row, events, live>>

\* Mutant: the event is appended outside the transaction and lost.
AppendLost(o, m) == UNCHANGED events
appendOperationEvent(o, m) == events' = [events EXCEPT ![o] = Append(@, EventOf[m])]

UpdateOperation(w) ==
    /\ call[w] # Null
    /\ LET o == call[w].op
           m == call[w].method
       IN  /\ row[o] # Null
           /\ Len(events[o]) < MaxEvents
           /\ row' = [row EXCEPT ![o].status = Result[m]]
           /\ appendOperationEvent(o, m)
    /\ call' = [call EXCEPT ![w] = Null]
    /\ contested' = Contests(call')
    /\ UNCHANGED live

\* The context of the caller ends, or the write fails and is rolled back.
Abandon(w) ==
    /\ call[w] # Null
    /\ call' = [call EXCEPT ![w] = Null]
    /\ contested' = Contests(call')
    /\ UNCHANGED <<row, events, live>>

\* The Manager stops; a restarted one drives the operations again.
Restart ==
    /\ call' = [w \in Procs |-> Null]
    /\ contested' = Contests(call')
    /\ UNCHANGED <<row, events, live>>

\* operations.project_id is ON DELETE SET NULL.
DeleteProject(p) ==
    /\ p \in live
    /\ live' = live \ {p}
    /\ row' = [o \in Ops |->
                 IF row[o] # Null /\ row[o].project = p
                   THEN [row[o] EXCEPT !.project = Null] ELSE row[o]]
    /\ UNCHANGED <<events, call, contested>>

Next ==
    \/ \E o \in Ops, p \in Projects : Create(o, p)
    \/ \E w \in Procs, o \in Ops, m \in Methods : Begin(w, o, m)
    \/ \E w \in Procs : UpdateOperation(w) \/ Abandon(w)
    \/ Restart
    \/ \E p \in Projects : DeleteProject(p)

Spec == Init /\ [][Next]_ledgerVars

-----------------------------------------------------------------------------
(* Properties.                                                             *)

StatusOf(o) == IF row[o] = Null THEN "ABSENT" ELSE row[o].status

\* The unguarded write does harm only while the calls of two drivers overlap:
\* otherwise, whoever drives an operation and hands it on, the row moves along
\* the edges of OperationLifecycle, across crashes, cancelled calls and the
\* deletion of the project, and so it does again once an overlap is over.
Lifecycle == INSTANCE OperationLifecycle WITH status <- [o \in Ops |-> StatusOf(o)]
FollowsLifecycle == Lifecycle!Spec

\* The status the events of an operation add up to.
Replayed(s) ==
    IF s = <<>> THEN "ABSENT"
    ELSE LET last == s[Len(s)] IN
         CASE last = "OPERATION_QUEUED" -> "QUEUED"
           [] last = "OPERATION_FAILED" -> "FAILED"
           [] last = "ROLLBACK_STARTED" -> "ROLLING_BACK"
           [] last = "ROLLBACK_COMPLETED" -> "ROLLED_BACK"
           [] last = "OPERATION_SUCCEEDED" -> "SUCCEEDED"
           [] OTHER -> "RUNNING"

\* A client that follows operation_events ends with the status of the row,
\* however many workers write the operation at once.
EventsTellStatus == \A o \in Ops : Replayed(events[o]) = StatusOf(o)

=============================================================================
