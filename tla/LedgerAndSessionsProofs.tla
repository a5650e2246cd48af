---------------------- MODULE LedgerAndSessionsProofs ----------------------
(***************************************************************************)
(* Proofs about the two parts of the Manager that no other module of the   *)
(* project composes: OperationLedger, for any number of operations,        *)
(* goroutines and projects, and AdminSessions, for any number of tabs and  *)
(* sessions, any limits and any bounds of the clock.                       *)
(***************************************************************************)
EXTENDS OperationLedger, AdminSessions, TLAPS

-----------------------------------------------------------------------------
(* The ledger implements OperationLifecycle, whoever calls it.             *)

\* The strengthening: two calls pending on an operation make it contested, and
\* on any other a call that has been let through is still allowed.
PendingIsCurrent ==
    /\ \A v, w \in Procs, o \in Ops : Pending(call, v, o) /\ Pending(call, w, o) /\ v # w => o \in contested
    /\ \A w \in Procs, o \in Ops \ contested : Pending(call, w, o) => StatusOf(o) = Required[call[w].method]
    /\ \A o \in contested : \E w \in Procs : Pending(call, w, o)
    /\ \A w \in Procs, o \in Ops : Pending(call, w, o) => StatusOf(o) # "ABSENT"

LEMMA CallFacts ==
  ASSUME NEW o \in Ops, NEW m \in Methods
  PROVE  [op |-> o, method |-> m] \in Call /\ [op |-> o, method |-> m] # Null
  BY LedgerAssumption DEF Call

LEMMA RowFacts ==
  ASSUME NEW s \in Statuses, NEW p \in Projects \cup {Null}
  PROVE  [status |-> s, project |-> p] \in Row /\ [status |-> s, project |-> p] # Null
  BY LedgerAssumption DEF Row

LEMMA MethodFacts ==
  ASSUME NEW m \in Methods
  PROVE  /\ Required[m] \in Statuses
         /\ Result[m] \in Statuses
         /\ EventOf[m] \in EventTypes
  BY DEF Methods, Required, Result, EventOf, Statuses, Active, EventTypes

-----------------------------------------------------------------------------
(* Type correctness.                                                         *)

LEMMA InitType == Init => TypeOK
  BY DEF Init, TypeOK

LEMMA NextType == TypeOK /\ [Next]_ledgerVars => TypeOK'
  <1> SUFFICES ASSUME TypeOK, [Next]_ledgerVars PROVE TypeOK'
    OBVIOUS
  <1> USE DEF TypeOK
  <1>1. ASSUME NEW o \in Ops, NEW p \in Projects, Create(o, p) PROVE TypeOK'
    <2>1. [status |-> "QUEUED", project |-> p] \in Row
      BY RowFacts DEF Statuses, Active
    <2>2. <<"OPERATION_QUEUED">> \in Seq(EventTypes)
      BY DEF EventTypes
    <2> QED
      BY <1>1, <2>1, <2>2 DEF Create
  <1>2. ASSUME NEW w \in Procs, NEW o \in Ops, NEW m \in Methods, Begin(w, o, m) PROVE TypeOK'
    BY <1>2, CallFacts DEF Begin, Contests
  <1>3. ASSUME NEW w \in Procs, UpdateOperation(w) PROVE TypeOK'
    <2> DEFINE o == call[w].op
               m == call[w].method
    <2>1. o \in Ops /\ m \in Methods
      BY <1>3 DEF UpdateOperation, Call
    <2>2. row[o] \in Row /\ [row[o] EXCEPT !.status = Result[m]] \in Row
      BY <1>3, <2>1, MethodFacts DEF UpdateOperation, Row
    <2>3. row' \in [Ops -> Row \cup {Null}]
      BY <1>3, <2>1, <2>2 DEF UpdateOperation
    <2>4. events' \in [Ops -> Seq(EventTypes)]
      BY <1>3, <2>1, MethodFacts DEF UpdateOperation, appendOperationEvent
    <2> QED
      BY <1>3, <2>3, <2>4 DEF UpdateOperation, Contests
  <1>4. ASSUME NEW w \in Procs, Abandon(w) PROVE TypeOK'
    BY <1>4 DEF Abandon, Contests
  <1>5. CASE Restart
    BY <1>5 DEF Restart, Contests
  <1>6. ASSUME NEW p \in Projects, DeleteProject(p) PROVE TypeOK'
    <2>1. \A o \in Ops : row[o] # Null => [row[o] EXCEPT !.project = Null] \in Row
      BY DEF Row
    <2> QED
      BY <1>6, <2>1 DEF DeleteProject
  <1>7. CASE UNCHANGED ledgerVars
    BY <1>7 DEF ledgerVars
  <1> QED
    BY <1>1, <1>2, <1>3, <1>4, <1>5, <1>6, <1>7 DEF Next

\* Every method writes a row, an event and a pending call of the declared kinds.
THEOREM LedgerTyped == Spec => []TypeOK
  BY InitType, NextType, PTL DEF Spec

-----------------------------------------------------------------------------
(* What each step does to the statuses.                                      *)

LEMMA CreateStatus ==
  ASSUME TypeOK, NEW o \in Ops, NEW p \in Projects, Create(o, p)
  PROVE  /\ StatusOf(o) = "ABSENT"
         /\ \A x \in Ops : StatusOf(x)' = IF x = o THEN "QUEUED" ELSE StatusOf(x)
  <1>1. [status |-> "QUEUED", project |-> p] # Null
    BY RowFacts DEF Statuses, Active
  <1> QED
    BY <1>1 DEF TypeOK, Create, StatusOf

LEMMA UpdateStatus ==
  ASSUME TypeOK, NEW w \in Procs, UpdateOperation(w)
  PROVE  /\ call[w].op \in Ops /\ call[w].method \in Methods
         /\ \A x \in Ops :
               StatusOf(x)' = IF x = call[w].op THEN Result[call[w].method] ELSE StatusOf(x)
  <1> DEFINE o == call[w].op
             m == call[w].method
             new == [row[o] EXCEPT !.status = Result[m]]
  <1>1. o \in Ops /\ m \in Methods
    BY DEF UpdateOperation, TypeOK, Call
  <1>2. row[o] \in Row /\ row' = [row EXCEPT ![o] = new]
    BY <1>1 DEF UpdateOperation, TypeOK
  <1>3. new \in Row /\ new.status = Result[m]
    BY <1>1, <1>2, MethodFacts DEF Row
  <1>4. new # Null
    BY <1>3, LedgerAssumption
  <1> HIDE DEF new, o, m
  <1>5. \A x \in Ops : row'[x] = IF x = o THEN new ELSE row[x]
    BY <1>1, <1>2 DEF TypeOK
  <1>6. \A x \in Ops : StatusOf(x)' = IF x = o THEN Result[m] ELSE StatusOf(x)
    BY <1>3, <1>4, <1>5 DEF StatusOf
  <1> QED
    BY <1>1, <1>6 DEF o, m

LEMMA DeleteStatus ==
  ASSUME TypeOK, NEW p \in Projects, DeleteProject(p)
  PROVE  \A x \in Ops : StatusOf(x)' = StatusOf(x)
  <1> SUFFICES ASSUME NEW x \in Ops PROVE StatusOf(x)' = StatusOf(x)
    OBVIOUS
  <1>1. CASE row[x] # Null /\ row[x].project = p
    <2>1. row'[x] = [row[x] EXCEPT !.project = Null] /\ row[x] \in Row
      BY <1>1 DEF DeleteProject, TypeOK
    <2>2. row'[x] \in Row /\ row'[x].status = row[x].status
      BY <2>1 DEF Row
    <2>3. row'[x] # Null
      BY <2>2, LedgerAssumption
    <2> QED
      BY <1>1, <2>2, <2>3 DEF StatusOf
  <1>2. CASE ~(row[x] # Null /\ row[x].project = p)
    BY <1>2 DEF DeleteProject, TypeOK, StatusOf
  <1> QED
    BY <1>1, <1>2

LEMMA OtherStatus ==
  ASSUME row' = row
  PROVE  \A x \in Ops : StatusOf(x)' = StatusOf(x)
  BY DEF StatusOf

-----------------------------------------------------------------------------
(* Pending calls.                                                            *)

LEMMA StatusStays ==
  ASSUME TypeOK, [Next]_ledgerVars, NEW x \in Ops, StatusOf(x) # "ABSENT"
  PROVE  StatusOf(x)' # "ABSENT"
  <1>1. ASSUME NEW o \in Ops, NEW p \in Projects, Create(o, p) PROVE StatusOf(x)' # "ABSENT"
    BY <1>1, CreateStatus
  <1>2. ASSUME NEW w \in Procs, UpdateOperation(w) PROVE StatusOf(x)' # "ABSENT"
    <2>1. \A m \in Methods : Result[m] # "ABSENT"
      BY DEF Methods, Result
    <2> QED
      BY <1>2, <2>1, UpdateStatus
  <1>3. ASSUME NEW p \in Projects, DeleteProject(p) PROVE StatusOf(x)' # "ABSENT"
    BY <1>3, DeleteStatus
  <1>4. ASSUME row' = row PROVE StatusOf(x)' # "ABSENT"
    BY <1>4, OtherStatus
  <1> QED
    BY <1>1, <1>2, <1>3, <1>4 DEF Next, Begin, Abandon, Restart, ledgerVars

LEMMA PendingInit == Init => PendingIsCurrent
  BY DEF Init, PendingIsCurrent, Pending

\* A step after which the contested operations are worked out anew, and which
\* leaves the status of an operation that is not contested afterwards but has a
\* call pending.
LEMMA ContestStep ==
  ASSUME TypeOK, PendingIsCurrent, contested' = Contests(call'),
         \A x \in Ops : StatusOf(x) # "ABSENT" => StatusOf(x)' # "ABSENT",
         \A v \in Procs, x \in Ops : Pending(call', v, x) =>
             \/ call'[v] = call[v] /\ (x \notin contested' => StatusOf(x)' = StatusOf(x))
             \/ StatusOf(x)' = Required[call'[v].method] /\ StatusOf(x)' # "ABSENT"
  PROVE  PendingIsCurrent'
  <1>1. ASSUME NEW x \in Ops, x \notin contested', NEW v \in Procs, Pending(call', v, x)
        PROVE  x \notin contested
    BY <1>1 DEF Contests
  <1>2. ASSUME NEW v \in Procs, NEW w \in Procs, NEW x \in Ops, Pending(call', v, x), Pending(call', w, x), v # w
        PROVE  x \in contested'
    BY <1>2 DEF Contests
  <1>3. ASSUME NEW v \in Procs, NEW x \in Ops, x \notin contested', Pending(call', v, x)
        PROVE  StatusOf(x)' = Required[call'[v].method]
    BY <1>1, <1>3 DEF PendingIsCurrent, Pending
  <1>4. ASSUME NEW x \in contested' PROVE \E w \in Procs : Pending(call', w, x)
    BY <1>4 DEF Contests
  <1>5. ASSUME NEW v \in Procs, NEW x \in Ops, Pending(call', v, x) PROVE StatusOf(x)' # "ABSENT"
    BY <1>5 DEF PendingIsCurrent, Pending
  <1> QED
    BY <1>2, <1>3, <1>4, <1>5 DEF PendingIsCurrent, Pending

LEMMA PendingStep ==
  ASSUME TypeOK, PendingIsCurrent, [Next]_ledgerVars
  PROVE  PendingIsCurrent'
  <1>0. \A x \in Ops : StatusOf(x) # "ABSENT" => StatusOf(x)' # "ABSENT"
    BY StatusStays
  <1>1. ASSUME NEW o \in Ops, NEW p \in Projects, Create(o, p) PROVE PendingIsCurrent'
    <2>1. call' = call /\ contested' = contested
      BY <1>1 DEF Create
    <2>2. \A v \in Procs, x \in Ops : Pending(call, v, x) => StatusOf(x)' = StatusOf(x)
      BY <1>1, CreateStatus DEF PendingIsCurrent
    <2> QED
      BY <2>1, <2>2 DEF PendingIsCurrent, Pending
  <1>2. ASSUME NEW w \in Procs, NEW o \in Ops, NEW m \in Methods, Begin(w, o, m) PROVE PendingIsCurrent'
    <2>1. \A x \in Ops : StatusOf(x)' = StatusOf(x)
      BY <1>2, OtherStatus DEF Begin
    <2>2. ASSUME NEW v \in Procs, NEW x \in Ops, Pending(call', v, x), call'[v] # call[v]
          PROVE  StatusOf(x)' = Required[call'[v].method] /\ StatusOf(x)' # "ABSENT"
      <3>1. v = w /\ call'[v] = [op |-> o, method |-> m]
        BY <1>2, <2>2 DEF Begin, TypeOK
      <3>2. StatusOf(o) = Required[m] /\ Required[m] # "ABSENT"
        BY <1>2 DEF Begin, requireStatus, Readable, StatusOf, Methods, Required
      <3> QED
        BY <2>1, <2>2, <3>1, <3>2 DEF Pending
    <2> QED
      BY <1>0, <1>2, <2>1, <2>2, ContestStep DEF Begin
  <1>3. ASSUME NEW w \in Procs, UpdateOperation(w) PROVE PendingIsCurrent'
    <2>1. ASSUME NEW v \in Procs, NEW x \in Ops, Pending(call', v, x)
          PROVE  call'[v] = call[v] /\ (x \notin contested' => StatusOf(x)' = StatusOf(x))
      <3>1. v # w /\ call'[v] = call[v] /\ call[w] # Null /\ call[w].op \in Ops
        BY <1>3, <2>1, UpdateStatus DEF UpdateOperation, TypeOK, Pending
      <3>2. x = call[w].op => x \in contested
        BY <2>1, <3>1 DEF PendingIsCurrent, Pending
      <3>3. x \in contested => x \in contested'
        BY <1>3, <2>1 DEF UpdateOperation, Contests
      <3> QED
        BY <1>3, <3>1, <3>2, <3>3, UpdateStatus
    <2> QED
      BY <1>0, <1>3, <2>1, ContestStep DEF UpdateOperation
  <1>4. ASSUME NEW w \in Procs, Abandon(w) PROVE PendingIsCurrent'
    <2>1. \A v \in Procs, x \in Ops : Pending(call', v, x) => call'[v] = call[v]
      BY <1>4 DEF Abandon, TypeOK, Pending
    <2>2. \A x \in Ops : StatusOf(x)' = StatusOf(x)
      BY <1>4, OtherStatus DEF Abandon
    <2> QED
      BY <1>0, <1>4, <2>1, <2>2, ContestStep DEF Abandon
  <1>5. CASE Restart
    <2>1. \A v \in Procs, x \in Ops : ~Pending(call', v, x)
      BY <1>5 DEF Restart, Pending
    <2> QED
      BY <1>0, <1>5, <2>1, ContestStep DEF Restart
  <1>6. ASSUME call' = call, contested' = contested, \A x \in Ops : StatusOf(x)' = StatusOf(x)
        PROVE  PendingIsCurrent'
    BY <1>6 DEF PendingIsCurrent, Pending
  <1>7. ASSUME NEW p \in Projects, DeleteProject(p) PROVE PendingIsCurrent'
    BY <1>6, <1>7, DeleteStatus DEF DeleteProject
  <1>8. CASE UNCHANGED ledgerVars
    BY <1>6, <1>8, OtherStatus DEF ledgerVars
  <1> QED
    BY <1>1, <1>2, <1>3, <1>4, <1>5, <1>7, <1>8 DEF Next

\* One step of the ledger is one step of the lifecycle, or none.
LEMMA StepSimulation ==
  ASSUME TypeOK, PendingIsCurrent, TypeOK', [Next]_ledgerVars
  PROVE  [Lifecycle!Next]_<<[o \in Ops |-> StatusOf(o)], contested>>
  <1> DEFINE bar == [o \in Ops |-> StatusOf(o)]
  <1>0. contested' \in SUBSET Ops
    BY DEF TypeOK
  <1>1. ASSUME NEW o \in Ops, NEW p \in Projects, Create(o, p) PROVE Lifecycle!Next
    <2>1. bar' = [bar EXCEPT ![o] = "QUEUED"] /\ bar[o] = "ABSENT" /\ contested' = contested
      BY <1>1, CreateStatus DEF Create
    <2>2. o \notin contested
      BY <2>1 DEF PendingIsCurrent
    <2> QED
      BY <2>1, <2>2 DEF Lifecycle!Next, Lifecycle!Advance, Lifecycle!Edges
  <1>2. ASSUME bar' = bar PROVE Lifecycle!Next
    BY <1>0, <1>2 DEF Lifecycle!Next, Lifecycle!Drive
  <1>3. ASSUME NEW w \in Procs, UpdateOperation(w) PROVE Lifecycle!Next
    <2> DEFINE o == call[w].op
               m == call[w].method
    <2>1. o \in Ops /\ m \in Methods /\ bar' = [bar EXCEPT ![o] = Result[m]]
      BY <1>3, UpdateStatus
    <2>2. ASSUME NEW x \in Ops, x # o PROVE x \in contested' <=> x \in contested
      <3>1. \A v \in Procs : Pending(call', v, x) <=> Pending(call, v, x)
        BY <1>3, <2>2 DEF UpdateOperation, TypeOK, Pending
      <3> QED
        BY <1>3, <3>1 DEF UpdateOperation, Contests, PendingIsCurrent
    <2>3. CASE o \in contested
      <3>0. contested \subseteq Ops /\ contested' \subseteq Ops
        BY DEF TypeOK
      <3>1. contested' = contested \/ contested' = contested \ {o}
        <4>1. CASE o \in contested'
          BY <2>2, <2>3, <3>0, <4>1
        <4>2. CASE o \notin contested'
          BY <2>2, <3>0, <4>2
        <4> QED
          BY <4>1, <4>2
      <3>2. \E e \in Lifecycle!Edges : e[2] = Result[m]
        BY <2>1 DEF Methods, Result, Lifecycle!Edges
      <3> HIDE DEF bar, o, m
      <3>3. Lifecycle!Overwrite(o)
        BY <2>1, <2>3, <3>1, <3>2 DEF Lifecycle!Overwrite, bar
      <3> QED
        BY <2>1, <3>3 DEF Lifecycle!Next
    <2>4. CASE o \notin contested
      <3>1. o \notin contested'
        <4>1. \A v \in Procs : Pending(call', v, o) => Pending(call, v, o)
          BY <1>3 DEF UpdateOperation, TypeOK, Pending
        <4> QED
          BY <1>3, <2>1, <2>4, <4>1 DEF UpdateOperation, Contests, PendingIsCurrent
      <3>2. contested' = contested
        <4>1. contested \subseteq Ops /\ contested' \subseteq Ops
          BY DEF TypeOK
        <4> HIDE DEF o
        <4> QED
          BY <2>2, <2>4, <3>1, <4>1
      <3>3. bar[o] = Required[m]
        BY <1>3, <2>1, <2>4 DEF UpdateOperation, PendingIsCurrent, Pending
      <3>4. Required[m] = Result[m] \/ <<Required[m], Result[m]>> \in Lifecycle!Edges
        BY <2>1 DEF Methods, Required, Result, Lifecycle!Edges
      <3>5. CASE Required[m] = Result[m]
        BY <1>2, <2>1, <3>3, <3>5
      <3>6. CASE <<Required[m], Result[m]>> \in Lifecycle!Edges
        <4> DEFINE e == <<Required[m], Result[m]>>
        <4>1. bar[o] = e[1] /\ bar' = [bar EXCEPT ![o] = e[2]] /\ e \in Lifecycle!Edges
          BY <2>1, <3>3, <3>6
        <4> HIDE DEF e, o, bar
        <4>2. Lifecycle!Advance(o)
          BY <2>4, <3>2, <4>1 DEF Lifecycle!Advance, bar
        <4> QED
          BY <2>1, <4>2 DEF Lifecycle!Next, o
      <3> QED
        BY <3>4, <3>5, <3>6
    <2> QED
      BY <2>3, <2>4
  <1>4. ASSUME NEW p \in Projects, DeleteProject(p) PROVE Lifecycle!Next
    BY <1>2, <1>4, DeleteStatus
  <1>5. ASSUME row' = row PROVE Lifecycle!Next
    BY <1>2, <1>5, OtherStatus
  <1> QED
    BY <1>1, <1>3, <1>4, <1>5 DEF Next, Begin, Abandon, Restart, ledgerVars

\* Whoever drives an operation, requireStatus is as good as a compare-and-swap
\* while no two calls on it overlap: the ledger implements OperationLifecycle,
\* for any number of goroutines, each on any operation.
THEOREM LedgerImplementsLifecycle == Spec => FollowsLifecycle
  <1>1. Init => Lifecycle!Init
    BY DEF Init, Lifecycle!Init, Lifecycle!Absent, StatusOf
  <1>2. TypeOK /\ PendingIsCurrent /\ [Next]_ledgerVars => TypeOK' /\ PendingIsCurrent'
    BY NextType, PendingStep
  <1>3. TypeOK /\ TypeOK' /\ PendingIsCurrent /\ [Next]_ledgerVars
           => [Lifecycle!Next]_<<[o \in Ops |-> StatusOf(o)], contested>>
    BY StepSimulation
  <1> QED
    BY <1>1, <1>2, <1>3, InitType, PendingInit, PTL DEF Spec, FollowsLifecycle, Lifecycle!Spec

-----------------------------------------------------------------------------
(* The event log.                                                            *)

LEMMA ReplayedAppend ==
  ASSUME NEW s \in Seq(EventTypes), NEW m \in Methods
  PROVE  Replayed(Append(s, EventOf[m])) = Result[m]
  <1>1. EventOf[m] \in EventTypes
    BY MethodFacts
  <1>2. /\ Append(s, EventOf[m]) # <<>>
        /\ Append(s, EventOf[m])[Len(Append(s, EventOf[m]))] = EventOf[m]
    BY <1>1
  <1> HIDE DEF EventTypes
  <1> QED
    BY <1>2 DEF Replayed, Methods, EventOf, Result

\* Any number of workers may write an operation at once: because a write and
\* its event share a transaction, the log always adds up to the row.
THEOREM LogTellsStatus == Spec => []EventsTellStatus
  <1>1. Init => EventsTellStatus
    BY DEF Init, EventsTellStatus, Replayed, StatusOf
  <1>2. TypeOK /\ EventsTellStatus /\ [Next]_ledgerVars => EventsTellStatus'
    <2> SUFFICES ASSUME TypeOK, EventsTellStatus, [Next]_ledgerVars, NEW x \in Ops
                 PROVE  Replayed(events'[x]) = StatusOf(x)'
      BY DEF EventsTellStatus
    <2>0. ASSUME events'[x] = events[x], StatusOf(x)' = StatusOf(x)
          PROVE  Replayed(events'[x]) = StatusOf(x)'
      BY <2>0 DEF EventsTellStatus
    <2>1. ASSUME NEW o \in Ops, NEW p \in Projects, Create(o, p)
          PROVE  Replayed(events'[x]) = StatusOf(x)'
      <3>1. CASE x = o
        <4>1. events'[x] = <<"OPERATION_QUEUED">>
          BY <2>1, <3>1 DEF Create, TypeOK
        <4>2. Replayed(<<"OPERATION_QUEUED">>) = "QUEUED"
          BY DEF Replayed
        <4> QED
          BY <2>1, <3>1, <4>1, <4>2, CreateStatus
      <3>2. CASE x # o
        <4>1. events'[x] = events[x]
          BY <2>1, <3>2 DEF Create, TypeOK
        <4> QED
          BY <2>0, <2>1, <3>2, <4>1, CreateStatus
      <3> QED
        BY <3>1, <3>2
    <2>2. ASSUME NEW w \in Procs, UpdateOperation(w)
          PROVE  Replayed(events'[x]) = StatusOf(x)'
      <3>1. CASE x = call[w].op
        <4>1. events'[x] = Append(events[x], EventOf[call[w].method])
          BY <2>2, <3>1 DEF UpdateOperation, appendOperationEvent, TypeOK
        <4>2. events[x] \in Seq(EventTypes) /\ call[w].method \in Methods
          BY <2>2, UpdateStatus DEF TypeOK
        <4> QED
          BY <2>2, <3>1, <4>1, <4>2, ReplayedAppend, UpdateStatus
      <3>2. CASE x # call[w].op
        <4>1. events'[x] = events[x]
          BY <2>2, <3>2 DEF UpdateOperation, appendOperationEvent, TypeOK
        <4> QED
          BY <2>0, <2>2, <3>2, <4>1, UpdateStatus
      <3> QED
        BY <3>1, <3>2
    <2>3. ASSUME NEW p \in Projects, DeleteProject(p)
          PROVE  Replayed(events'[x]) = StatusOf(x)'
      <3>1. events' = events
        BY <2>3 DEF DeleteProject
      <3> QED
        BY <2>0, <2>3, <3>1, DeleteStatus
    <2>4. ASSUME row' = row, events' = events
          PROVE  Replayed(events'[x]) = StatusOf(x)'
      BY <2>0, <2>4, OtherStatus
    <2> QED
      BY <2>1, <2>2, <2>3, <2>4 DEF Next, Begin, Abandon, Restart, ledgerVars
  <1> QED
    BY <1>1, <1>2, LedgerTyped, PTL DEF Spec

-----------------------------------------------------------------------------
(* Administrators and their sessions.                                      *)

\* The actions of a tab, for the case distinctions below.
Sends(t) ==
    SendSetup(t) \/ SendLogin(t) \/ SendSession(t) \/ SendChange(t) \/ SendLogout(t)

\* Requests that are past the check of the cookie have one.
Cookied ==
    {"authenticate", "again", "update", "validate", "enter", "validateLogout", "delete", "open", "show"}

\* AuthTypeOK with what makes it inductive: a request that reads the sessions
\* table carries a session token.
TypeInv ==
    /\ AuthTypeOK
    /\ \A t \in Tabs : request[t] # None /\ request[t].step \in Cookied => request[t].token \in Tokens

-----------------------------------------------------------------------------
(* How one request changes.                                                *)

\* A request that only moves on stays a request.
LEMMA GoTyped ==
    ASSUME TypeInv, NEW t \in Tabs, NEW step \in Steps, request[t] # None, Go(t, step),
           step \in Cookied => request[t].token \in Tokens
    PROVE  /\ request' \in [Tabs -> Request \cup {None}]
           /\ \A u \in Tabs : request'[u] # None /\ request'[u].step \in Cookied
                                 => request'[u].token \in Tokens
<1>1. request[t] \in Request
  BY DEF TypeInv, AuthTypeOK
<1>2. /\ [request[t] EXCEPT !.step = step] \in Request
      /\ [request[t] EXCEPT !.step = step].token = request[t].token
      /\ [request[t] EXCEPT !.step = step].step = step
  BY <1>1 DEF Request
<1>3. request' = [request EXCEPT ![t] = [request[t] EXCEPT !.step = step]]
  BY DEF Go, TypeInv, AuthTypeOK
<1> HIDE DEF Request
<1> QED
  BY <1>2, <1>3 DEF TypeInv, AuthTypeOK

\* So does one that is given its answer.
LEMMA ReplyTyped ==
    ASSUME TypeInv, NEW t \in Tabs, NEW step \in Steps, NEW k \in Tokens, NEW c \in 1..MaxCsrf,
           request[t] # None, Reply(t, step, k, c)
    PROVE  /\ request' \in [Tabs -> Request \cup {None}]
           /\ \A u \in Tabs : request'[u] # None /\ request'[u].step \in Cookied
                                 => request'[u].token \in Tokens
<1> DEFINE q == [step |-> step, token |-> k, csrf |-> c,
                 over |-> request[t].over, sent |-> request[t].sent]
<1>1. request[t].over \in SUBSET Tokens /\ request[t].sent \in 0..MaxNow
  BY DEF TypeInv, AuthTypeOK, Request
<1>2. q \in Request /\ q.token = k
  BY <1>1, SessionsAssumption DEF Request
<1>3. request' = [request EXCEPT ![t] = q]
  BY DEF Reply, TypeInv, AuthTypeOK
<1> HIDE DEF q, Request
<1> QED
  BY <1>2, <1>3 DEF TypeInv, AuthTypeOK

\* The check of a session deletes it or moves the request on.
LEMMA AuthenticateTyped ==
    ASSUME TypeInv, NEW t \in Tabs, NEW next \in Steps,
           request[t] # None, request[t].step \in Cookied, Authenticate(t, next)
    PROVE  /\ request' \in [Tabs -> Request \cup {None}]
           /\ \A u \in Tabs : request'[u] # None /\ request'[u].step \in Cookied
                                 => request'[u].token \in Tokens
           /\ session' \in [Tokens -> Record \cup {None}]
           /\ ended' \subseteq Tokens
<1>1. request[t].token \in Tokens
  BY DEF TypeInv
<1>2. "refuse" \in Steps
  BY DEF Steps
<1>3. PICK step \in Steps : Go(t, step)
  BY <1>2 DEF Authenticate
<1>4. /\ session' \in [Tokens -> Record \cup {None}]
      /\ ended' \subseteq Tokens
  BY <1>1 DEF Authenticate, TypeInv, AuthTypeOK
<1> QED
  BY <1>1, <1>3, <1>4, GoTyped

\* Every action keeps the types.
LEMMA TypeNext == TypeInv /\ [AuthNext]_sessionVars => TypeInv'
<1> SUFFICES ASSUME TypeInv, [AuthNext]_sessionVars PROVE TypeInv'
  OBVIOUS
<1> USE SessionsAssumption
<1>1. ASSUME NEW t \in Tabs, Sends(t) PROVE TypeInv'
  <2>1. PICK step \in {"setup", "verify", "authenticate", "validate", "validateLogout"} :
            Send(t, step) /\ (step \notin {"setup", "verify"} => cookie # None)
    BY <1>1 DEF Sends, SendSetup, SendLogin, SendSession, SendChange, SendLogout
  <2>2. [step |-> step, token |-> cookie, csrf |-> held[t], over |-> ended, sent |-> now] \in Request
    BY DEF Request, Steps, TypeInv, AuthTypeOK
  <2>3. step \in Cookied => cookie \in Tokens
    BY <2>1 DEF Cookied, TypeInv, AuthTypeOK
  <2> HIDE DEF Request
  <2> QED
    BY <2>1, <2>2, <2>3 DEF Send, TypeInv, AuthTypeOK
<1>2. ASSUME NEW t \in Tabs, CreateFirstAdmin(t) PROVE TypeInv'
  <2>1. PICK step \in {"welcome", "refuse"} : Go(t, step)
    BY <1>2 DEF CreateFirstAdmin
  <2>2. step \in Steps /\ step \notin Cookied /\ request[t] # None
    BY <1>2 DEF Steps, Cookied, CreateFirstAdmin, At
  <2> QED
    BY <1>2, <2>1, <2>2, GoTyped DEF CreateFirstAdmin, TypeInv, AuthTypeOK
<1>3. ASSUME NEW t \in Tabs, Verify(t) PROVE TypeInv'
  <2>1. PICK step \in {"create", "refuse"} : Go(t, step)
    BY <1>3 DEF Verify
  <2>2. step \in Steps /\ step \notin Cookied /\ request[t] # None
    BY <1>3 DEF Steps, Cookied, Verify, At
  <2> QED
    BY <1>3, <2>1, <2>2, GoTyped DEF Verify, TypeInv, AuthTypeOK
<1>4. ASSUME NEW t \in Tabs, CreateSession(t) PROVE TypeInv'
  <2>1. PICK k \in Tokens \ used :
            /\ session' = [session EXCEPT ![k] =
                             [csrf |-> drawn + 1, seen |-> now, expires |-> now + AbsoluteLimit]]
            /\ used' = used \cup {k}
            /\ Reply(t, "open", k, drawn + 1)
    BY <1>4 DEF CreateSession
  <2>2. request[t] # None /\ drawn + 1 \in 1..MaxCsrf /\ "open" \in Steps
    BY <1>4 DEF CreateSession, At, TypeInv, AuthTypeOK, Steps
  <2>3. [csrf |-> drawn + 1, seen |-> now, expires |-> now + AbsoluteLimit] \in Record
    BY <2>2 DEF Record, TypeInv, AuthTypeOK
  <2> HIDE DEF Record
  <2>4. /\ request' \in [Tabs -> Request \cup {None}]
        /\ \A u \in Tabs : request'[u] # None /\ request'[u].step \in Cookied
                              => request'[u].token \in Tokens
    BY <2>1, <2>2, ReplyTyped
  <2> QED
    BY <1>4, <2>1, <2>2, <2>3, <2>4 DEF CreateSession, TypeInv, AuthTypeOK
<1>5. ASSUME NEW t \in Tabs, ReadSession(t) \/ RefreshCSRF(t) \/ RequireSession(t) PROVE TypeInv'
  <2>1. PICK next \in {"again", "update", "welcome"} : Authenticate(t, next)
    BY <1>5 DEF ReadSession, RefreshCSRF, RequireSession
  <2>2. next \in Steps /\ request[t] # None /\ request[t].step \in Cookied
    BY <1>5 DEF Steps, Cookied, At, ReadSession, RefreshCSRF, RequireSession
  <2> QED
    BY <1>5, <2>1, <2>2, AuthenticateTyped
       DEF TypeInv, AuthTypeOK, ReadSession, RefreshCSRF, RequireSession
<1>6. ASSUME NEW t \in Tabs, UpdateSessionCSRF(t) PROVE TypeInv'
  <2>1. request[t] # None /\ request[t] \in Request /\ request[t].token \in Tokens /\ drawn + 1 \in 1..MaxCsrf
    BY <1>6 DEF UpdateSessionCSRF, At, Cookied, TypeInv, AuthTypeOK
  <2>2. CASE session[request[t].token] = None
    <3>1. Go(t, "refuse") /\ "refuse" \in Steps /\ "refuse" \notin Cookied
      BY <1>6, <2>2 DEF UpdateSessionCSRF, Steps, Cookied
    <3> QED
      BY <1>6, <2>1, <2>2, <3>1, GoTyped DEF UpdateSessionCSRF, TypeInv, AuthTypeOK
  <2>3. CASE session[request[t].token] # None
    <3> DEFINE k == request[t].token
               r == [session[k] EXCEPT !.csrf = drawn + 1]
    <3>1. /\ request' \in [Tabs -> Request \cup {None}]
          /\ \A u \in Tabs : request'[u] # None /\ request'[u].step \in Cookied
                                => request'[u].token \in Tokens
      BY <1>6, <2>1, <2>3, ReplyTyped DEF UpdateSessionCSRF, Steps
    <3>2. r \in Record
      BY <2>1, <2>3 DEF Record, TypeInv, AuthTypeOK
    <3>3. session' = [session EXCEPT ![k] = r]
      BY <1>6, <2>3 DEF UpdateSessionCSRF, TypeInv, AuthTypeOK
    <3> HIDE DEF r, Record
    <3> QED
      BY <1>6, <2>1, <3>1, <3>2, <3>3 DEF UpdateSessionCSRF, TypeInv, AuthTypeOK
  <2> QED
    BY <2>2, <2>3
<1>7. ASSUME NEW t \in Tabs, ProtectAPI(t) \/ Logout(t) PROVE TypeInv'
  <2>1. PICK step \in {"enter", "delete", "refuse"} : Go(t, step)
    BY <1>7 DEF ProtectAPI, Logout, ValidateCSRF
  <2>2. step \in Steps /\ request[t] # None /\ request[t].token \in Tokens
    BY <1>7 DEF Steps, Cookied, At, ProtectAPI, Logout, TypeInv
  <2> QED
    BY <1>7, <2>1, <2>2, GoTyped DEF ProtectAPI, Logout, TypeInv, AuthTypeOK
<1>8. ASSUME NEW t \in Tabs, DeleteSession(t) PROVE TypeInv'
  <2>1. request[t] # None /\ request[t].token \in Tokens
    BY <1>8 DEF DeleteSession, At, Cookied, TypeInv
  <2>2. "clear" \in Steps /\ Go(t, "clear")
    BY <1>8 DEF DeleteSession, Steps
  <2> QED
    BY <1>8, <2>1, <2>2, GoTyped DEF DeleteSession, TypeInv, AuthTypeOK
<1>9. ASSUME NEW t \in Tabs, Answer(t) PROVE TypeInv'
  <2>1. request[t] \in Request /\ request[t].csrf \in 0..MaxCsrf
    BY <1>9 DEF Answer, TypeInv, AuthTypeOK, Request
  <2>2. At(t, "open") => request[t].token \in Tokens
    BY DEF At, Cookied, TypeInv
  <2>3. held' \in [Tabs -> 0..MaxCsrf]
    BY <1>9, <2>1 DEF Answer, TypeInv, AuthTypeOK
  <2>4. cookie' \in Tokens \cup {None}
    BY <1>9, <2>2 DEF Answer, TypeInv, AuthTypeOK
  <2> HIDE DEF Request
  <2> QED
    BY <1>9, <2>3, <2>4 DEF Answer, TypeInv, AuthTypeOK
<1>10. CASE Tick \/ UNCHANGED sessionVars
  BY <1>10 DEF Tick, sessionVars, TypeInv, AuthTypeOK
<1> QED
  BY <1>1, <1>2, <1>3, <1>4, <1>5, <1>6, <1>7, <1>8, <1>9, <1>10 DEF AuthNext, Sends

\* Types hold in every state: the tables, the requests and the browser keep
\* their shapes whatever the handlers interleave.
THEOREM SessionsTyped == AuthSpec => []AuthTypeOK
<1>1. AuthInit => TypeInv
  BY SessionsAssumption DEF AuthInit, TypeInv, AuthTypeOK
<1>2. TypeInv => AuthTypeOK
  BY DEF TypeInv
<1> QED
  BY <1>1, <1>2, TypeNext, PTL DEF AuthSpec

-----------------------------------------------------------------------------
(* The rest of the argument is about what one step does to the requests.   *)

\* What a request that moves on keeps.
LEMMA GoKeeps ==
    ASSUME TypeInv, NEW t \in Tabs, NEW step, request[t] # None, Go(t, step)
    PROVE  /\ \A u \in Tabs \ {t} : request'[u] = request[u]
           /\ request'[t].step = step
           /\ request'[t].token = request[t].token
           /\ request'[t].csrf = request[t].csrf
           /\ request'[t].over = request[t].over
           /\ request'[t].sent = request[t].sent
<1>1. request[t] \in Request
  BY DEF TypeInv, AuthTypeOK
<1>2. request' = [request EXCEPT ![t] = [request[t] EXCEPT !.step = step]]
  BY DEF Go, TypeInv, AuthTypeOK
<1>3. request'[t] = [request[t] EXCEPT !.step = step]
  BY <1>2 DEF TypeInv, AuthTypeOK
<1> QED
  BY <1>1, <1>2, <1>3 DEF Request, TypeInv, AuthTypeOK

LEMMA ReplyKeeps ==
    ASSUME TypeInv, NEW t \in Tabs, NEW step, NEW k, NEW c, Reply(t, step, k, c)
    PROVE  /\ \A u \in Tabs \ {t} : request'[u] = request[u]
           /\ request'[t].step = step
           /\ request'[t].token = k
           /\ request'[t].csrf = c
           /\ request'[t].over = request[t].over
           /\ request'[t].sent = request[t].sent
  BY DEF Reply, TypeInv, AuthTypeOK

\* A request that is given its answer is still there.
LEMMA Replied ==
    ASSUME TypeInv, NEW t \in Tabs, NEW step \in Steps, NEW k \in Tokens, NEW c \in 1..MaxCsrf,
           request[t] # None, Reply(t, step, k, c)
    PROVE  request'[t] # None
<1>1. request[t].over \in SUBSET Tokens /\ request[t].sent \in 0..MaxNow
  BY DEF TypeInv, AuthTypeOK, Request
<1>2. request'[t] = [step |-> step, token |-> k, csrf |-> c,
                     over |-> request[t].over, sent |-> request[t].sent]
  BY DEF Reply, TypeInv, AuthTypeOK
<1> QED
  BY <1>1, <1>2, SessionsAssumption, NoRequestAssumption DEF Request

\* The handlers of a tab that neither draw a session nor end the request.
Moves(t) ==
    \/ CreateFirstAdmin(t) \/ Verify(t) \/ ReadSession(t) \/ RefreshCSRF(t)
    \/ ProtectAPI(t) \/ RequireSession(t) \/ Logout(t) \/ DeleteSession(t)

\* They move the request of the tab on, and take sessions away at most.
LEMMA MovesOnly ==
    ASSUME TypeInv, NEW t \in Tabs, Moves(t)
    PROVE  /\ request[t] # None /\ request[t].step \notin {"open", "show"}
           /\ \E step \in Steps \ {"open", "show"} : Go(t, step)
           /\ UNCHANGED <<now, drawn, cookie, held, used>>
           /\ ended \subseteq ended'
           /\ \A k \in Tokens : session'[k] = session[k] \/ session'[k] = None
           /\ \A k \in ended' \ ended : k = request[t].token /\ session'[k] = None
<1>1. request[t] # None /\ request[t].step \notin {"open", "show"}
  BY DEF Moves, CreateFirstAdmin, Verify, ReadSession, RefreshCSRF, ProtectAPI,
         RequireSession, Logout, DeleteSession, At
<1>2. CASE CreateFirstAdmin(t) \/ Verify(t)
  BY <1>1, <1>2 DEF CreateFirstAdmin, Verify, Steps
<1>3. CASE ProtectAPI(t) \/ Logout(t)
  BY <1>1, <1>3 DEF ProtectAPI, Logout, ValidateCSRF, Steps
<1>4. CASE ReadSession(t) \/ RefreshCSRF(t) \/ RequireSession(t)
  <2>1. PICK next \in {"again", "update", "welcome"} : Authenticate(t, next)
    BY <1>4 DEF ReadSession, RefreshCSRF, RequireSession
  <2>2. request[t].token \in Tokens
    BY <1>1, <1>4 DEF ReadSession, RefreshCSRF, RequireSession, At, TypeInv, Cookied
  <2>3. \E step \in Steps \ {"open", "show"} : Go(t, step)
    BY <2>1 DEF Authenticate, Steps
  <2> QED
    BY <1>1, <1>4, <2>1, <2>2, <2>3
       DEF Authenticate, ReadSession, RefreshCSRF, RequireSession, TypeInv, AuthTypeOK
<1>5. CASE DeleteSession(t)
  <2>1. request[t].token \in Tokens
    BY <1>1, <1>5 DEF DeleteSession, At, TypeInv, Cookied
  <2> QED
    BY <1>1, <1>5, <2>1 DEF DeleteSession, Steps, TypeInv, AuthTypeOK
<1> QED
  BY <1>2, <1>3, <1>4, <1>5 DEF Moves

\* What every step is.
LEMMA StepCases ==
    ASSUME [AuthNext]_sessionVars
    PROVE  \/ \E t \in Tabs : Sends(t) \/ Moves(t) \/ CreateSession(t) \/ UpdateSessionCSRF(t) \/ Answer(t)
           \/ Tick
           \/ UNCHANGED sessionVars
  BY DEF AuthNext, Sends, Moves

-----------------------------------------------------------------------------
(* Setup.                                                                  *)

\* One administrator at most, however many setup forms race: the count and
\* the insertion are one transaction.
THEOREM SingleAdministrator == AuthSpec => []OneAdministrator
<1>1. AuthInit => OneAdministrator
  BY DEF AuthInit, OneAdministrator
<1>2. OneAdministrator /\ [AuthNext]_sessionVars => OneAdministrator'
  <2> SUFFICES ASSUME OneAdministrator, [AuthNext]_sessionVars PROVE OneAdministrator'
    OBVIOUS
  <2>1. CASE \E t \in Tabs : CreateFirstAdmin(t)
    BY <2>1 DEF CreateFirstAdmin, OneAdministrator
  <2>2. CASE UNCHANGED admin
    BY <2>2 DEF OneAdministrator
  <2>3. (\E t \in Tabs : CreateFirstAdmin(t)) \/ UNCHANGED admin
    BY DEF AuthNext, SendSetup, SendLogin, SendSession, SendChange, SendLogout, Send, Verify,
           CreateSession, ReadSession, RefreshCSRF, UpdateSessionCSRF, ProtectAPI,
           RequireSession, Logout, DeleteSession, Answer, Tick, sessionVars
  <2> QED
    BY <2>1, <2>2, <2>3
<1> QED
  BY <1>1, <1>2, PTL DEF AuthSpec

-----------------------------------------------------------------------------
(* Sessions end.                                                           *)

\* Every session token in the system was drawn.
AllDrawn ==
    /\ ended \subseteq used
    /\ \A k \in Tokens : session[k] # None => k \in used
    /\ cookie # None => cookie \in used
    /\ \A t \in Tabs : request[t] # None /\ request[t].token # None => request[t].token \in used

\* A request knows of sessions that are over and of a time that has passed.
SentBefore ==
    \A t \in Tabs : request[t] # None => request[t].over \subseteq ended /\ request[t].sent <= now

\* EndedStaysEnded is inductive with these: a session comes back only if its
\* token is drawn again, and a token that ended was drawn.
EndInv == TypeInv /\ AllDrawn /\ SentBefore /\ EndedStaysEnded

LEMMA EndNext == EndInv /\ [AuthNext]_sessionVars => EndInv'
<1> SUFFICES ASSUME EndInv, [AuthNext]_sessionVars PROVE EndInv'
  OBVIOUS
<1> USE SessionsAssumption
<1>0. TypeInv /\ TypeInv'
  BY TypeNext DEF EndInv
<1>1. ASSUME NEW t \in Tabs, Sends(t) PROVE EndInv'
  <2>1. PICK step : Send(t, step)
    BY <1>1 DEF Sends, SendSetup, SendLogin, SendSession, SendChange, SendLogout
  <2>2. /\ \A u \in Tabs \ {t} : request'[u] = request[u]
        /\ request'[t].token = cookie /\ request'[t].over = ended /\ request'[t].sent = now
    BY <1>0, <2>1 DEF Send, TypeInv, AuthTypeOK
  <2>3. now \in Nat
    BY <1>0 DEF TypeInv, AuthTypeOK
  <2>4. UNCHANGED <<session, now, cookie, used, ended>>
    BY <2>1 DEF Send
  <2> QED
    BY <1>0, <2>2, <2>3, <2>4 DEF EndInv, AllDrawn, SentBefore, EndedStaysEnded
<1>2. ASSUME NEW t \in Tabs, Moves(t) PROVE EndInv'
  <2>1. /\ request[t] # None
        /\ \E step : Go(t, step)
        /\ UNCHANGED <<now, drawn, cookie, held, used>>
        /\ ended \subseteq ended'
        /\ \A k \in Tokens : session'[k] = session[k] \/ session'[k] = None
        /\ \A k \in ended' \ ended : k = request[t].token /\ session'[k] = None
    BY <1>0, <1>2, MovesOnly
  <2>2. /\ \A u \in Tabs \ {t} : request'[u] = request[u]
        /\ request'[t].token = request[t].token
        /\ request'[t].over = request[t].over
        /\ request'[t].sent = request[t].sent
    BY <1>0, <2>1, GoKeeps
  <2>3. ended \subseteq Tokens /\ ended' \subseteq Tokens /\ used \subseteq Tokens
    BY <1>0 DEF TypeInv, AuthTypeOK
  <2>4. AllDrawn'
    BY <2>1, <2>2, <2>3 DEF EndInv, AllDrawn
  <2>5. SentBefore'
    BY <2>1, <2>2 DEF EndInv, SentBefore
  <2>6. EndedStaysEnded'
    BY <2>1, <2>3 DEF EndInv, EndedStaysEnded
  <2> QED
    BY <1>0, <2>4, <2>5, <2>6 DEF EndInv
<1>3. ASSUME NEW t \in Tabs, CreateSession(t) PROVE EndInv'
  <2>1. PICK k \in Tokens \ used :
            /\ \A j \in Tokens \ {k} : session'[j] = session[j]
            /\ used' = used \cup {k}
            /\ Reply(t, "open", k, drawn + 1)
    BY <1>0, <1>3 DEF CreateSession, TypeInv, AuthTypeOK
  <2>2. /\ \A u \in Tabs \ {t} : request'[u] = request[u]
        /\ request'[t].token = k
        /\ request'[t].over = request[t].over
        /\ request'[t].sent = request[t].sent
    BY <1>0, <2>1, ReplyKeeps
  <2>3. request[t] # None /\ UNCHANGED <<now, cookie, ended>>
    BY <1>3 DEF CreateSession, At
  <2>4. ended \subseteq Tokens
    BY <1>0 DEF TypeInv, AuthTypeOK
  <2> QED
    BY <1>0, <2>1, <2>2, <2>3, <2>4 DEF EndInv, AllDrawn, SentBefore, EndedStaysEnded
<1>4. ASSUME NEW t \in Tabs, UpdateSessionCSRF(t) PROVE EndInv'
  <2>1. request[t] # None /\ request[t].token \in Tokens /\ UNCHANGED <<now, cookie, used, ended>>
    BY <1>0, <1>4 DEF UpdateSessionCSRF, At, Cookied, TypeInv
  <2>2. \A k \in Tokens : session[k] = None => session'[k] = None
    BY <1>0, <1>4, <2>1 DEF UpdateSessionCSRF, TypeInv, AuthTypeOK
  <2>3. (\E step : Go(t, step)) \/ Reply(t, "show", request[t].token, drawn + 1)
    BY <1>4 DEF UpdateSessionCSRF
  <2>4. /\ \A u \in Tabs \ {t} : request'[u] = request[u]
        /\ request'[t].token = request[t].token
        /\ request'[t].over = request[t].over
        /\ request'[t].sent = request[t].sent
    BY <1>0, <2>1, <2>3, GoKeeps, ReplyKeeps
  <2>5. ended \subseteq Tokens
    BY <1>0 DEF TypeInv, AuthTypeOK
  <2> QED
    BY <1>0, <2>1, <2>2, <2>4, <2>5 DEF EndInv, AllDrawn, SentBefore, EndedStaysEnded
<1>5. ASSUME NEW t \in Tabs, Answer(t) PROVE EndInv'
  <2>1. /\ \A u \in Tabs \ {t} : request'[u] = request[u]
        /\ request'[t] = None /\ request[t] # None
        /\ UNCHANGED <<session, now, used, ended>>
    BY <1>0, <1>5 DEF Answer, TypeInv, AuthTypeOK
  <2>2. cookie' \in {request[t].token, None, cookie}
    BY <1>5 DEF Answer
  <2> QED
    BY <1>0, <2>1, <2>2 DEF EndInv, AllDrawn, SentBefore, EndedStaysEnded
<1>6. CASE Tick
  <2>1. now \in Nat /\ now' = now + 1 /\ UNCHANGED <<session, cookie, request, used, ended>>
    BY <1>0, <1>6 DEF Tick, TypeInv, AuthTypeOK
  <2>2. \A t \in Tabs : request[t] # None => request[t].sent \in Nat
    BY <1>0 DEF TypeInv, AuthTypeOK, Request
  <2>3. SentBefore'
    BY <2>1, <2>2 DEF EndInv, SentBefore
  <2> QED
    BY <1>0, <2>1, <2>3 DEF EndInv, AllDrawn, EndedStaysEnded
<1>7. CASE UNCHANGED sessionVars
  BY <1>0, <1>7 DEF sessionVars, EndInv, AllDrawn, SentBefore, EndedStaysEnded
<1> QED
  BY <1>1, <1>2, <1>3, <1>4, <1>5, <1>6, <1>7, StepCases

LEMMA EndInvariant == AuthSpec => []EndInv
<1>1. AuthInit => EndInv
  BY SessionsAssumption DEF AuthInit, EndInv, TypeInv, AuthTypeOK, AllDrawn, SentBefore, EndedStaysEnded
<1> QED
  BY <1>1, EndNext, PTL DEF AuthSpec

\* A session that was logged out or found expired never comes back, for any
\* number of tabs: a refresh that passed its check before writes to no row.
THEOREM EndedForGood == AuthSpec => []EndedStaysEnded
<1>1. EndInv => EndedStaysEnded
  BY DEF EndInv
<1> QED
  BY <1>1, EndInvariant, PTL

-----------------------------------------------------------------------------
(* What a change is served on.                                             *)

\* Only RequireSession lets a change through.
LEMMA Entered ==
    ASSUME EndInv, [AuthNext]_sessionVars, NEW t \in Tabs,
           At(t, "enter"), request'[t] # None, request'[t].step = "welcome"
    PROVE  LET k == request[t].token
           IN  /\ k \notin request[t].over
               /\ session[k] # None
               /\ request[t].sent < session[k].expires
               /\ request[t].sent - session[k].seen <= IdleLimit
<1>0. TypeInv
  BY DEF EndInv
<1>1. RequireSession(t)
  <2>1. request'[t] # request[t]
    BY DEF At
  <2>2. ASSUME NEW u \in Tabs, u # t,
               Sends(u) \/ Moves(u) \/ CreateSession(u) \/ UpdateSessionCSRF(u) \/ Answer(u)
        PROVE  request'[t] = request[t]
    <3>1. CASE Sends(u)
      BY <1>0, <2>2, <3>1 DEF Sends, SendSetup, SendLogin, SendSession, SendChange, SendLogout, Send,
                              TypeInv, AuthTypeOK
    <3>2. CASE Moves(u)
      BY <1>0, <2>2, <3>2, MovesOnly, GoKeeps
    <3>3. CASE CreateSession(u) \/ UpdateSessionCSRF(u)
      <4>1. request[u] # None /\ ((\E k, c : Reply(u, "open", k, c)) \/ (\E k, c : Reply(u, "show", k, c))
                \/ Go(u, "refuse"))
        BY <3>3 DEF CreateSession, UpdateSessionCSRF, At
      <4> QED
        BY <1>0, <2>2, <4>1, GoKeeps, ReplyKeeps
    <3>4. CASE Answer(u)
      BY <1>0, <2>2, <3>4 DEF Answer, TypeInv, AuthTypeOK
    <3> QED
      BY <2>2, <3>1, <3>2, <3>3, <3>4
  <2>3. Sends(t) \/ Moves(t) \/ CreateSession(t) \/ UpdateSessionCSRF(t) \/ Answer(t)
    BY <2>1, <2>2, StepCases DEF Tick, sessionVars
  <2> QED
    BY <2>3 DEF At, Sends, SendSetup, SendLogin, SendSession, SendChange, SendLogout, Send, Moves,
         CreateFirstAdmin, Verify, ReadSession, RefreshCSRF, ProtectAPI, Logout,
         DeleteSession, CreateSession, UpdateSessionCSRF, Answer
<1> DEFINE k == request[t].token
<1>2. k \in Tokens /\ request[t] # None
  BY <1>0 DEF TypeInv, At, Cookied
<1>3. session[k] # None /\ ~Expired(session[k])
  <2>1. Authenticate(t, "welcome")
    BY <1>1 DEF RequireSession
  <2>2. ~Go(t, "refuse")
    BY <1>0, <1>2, GoKeeps
  <2> QED
    BY <2>1, <2>2 DEF Authenticate
<1>4. k \notin ended
  BY <1>3 DEF EndInv, EndedStaysEnded
<1>5. /\ request[t].over \subseteq ended /\ request[t].sent <= now
      /\ request[t].sent \in Nat /\ now \in Nat
  BY <1>0, <1>2, SessionsAssumption DEF EndInv, SentBefore, TypeInv, AuthTypeOK, Request
<1>6. session[k].seen \in Nat /\ session[k].expires \in Nat
  BY <1>0, <1>2, <1>3, SessionsAssumption DEF TypeInv, AuthTypeOK, Record
<1>7. now < session[k].expires /\ now - session[k].seen <= IdleLimit
  BY <1>3, <1>5, <1>6, SessionsAssumption DEF Expired
<1> QED
  BY <1>3, <1>4, <1>5, <1>6, <1>7, SessionsAssumption

\* A change is served only on a session that had not ended and whose time had
\* not run out when the request was sent, whatever happened since.
THEOREM ServedLive == AuthSpec => ServedWasLive
<1>1. EndInv /\ [AuthNext]_sessionVars =>
        [\A t \in Tabs : At(t, "enter") /\ request'[t] # None /\ request'[t].step = "welcome" =>
           LET k == request[t].token
           IN  /\ k \notin request[t].over
               /\ session[k] # None
               /\ request[t].sent < session[k].expires
               /\ request[t].sent - session[k].seen <= IdleLimit]_sessionVars
  BY Entered
<1> QED
  BY <1>1, EndInvariant, PTL DEF AuthSpec, ServedWasLive

-----------------------------------------------------------------------------
(* Several tabs.                                                           *)

\* A session that was opened but not yet announced is known to its login alone.
Unannounced ==
    \A t \in Tabs : At(t, "open") =>
        /\ request[t].token # cookie
        /\ session[request[t].token] # None => session[request[t].token].csrf = request[t].csrf
        /\ \A u \in Tabs \ {t} : request[u] # None => request[u].token # request[t].token

\* A tab has the token of the cookie's session, or its answer is on the way.  A
\* tab that has it loses it only to an answer that replaces it.
Holds(t) ==
    \/ /\ held[t] = session[cookie].csrf
       /\ request[t] # None =>
             At(t, "open") \/ (request[t].token = cookie /\ request[t].step # "show")
    \/ At(t, "show") /\ request[t].token = cookie /\ request[t].csrf = session[cookie].csrf

CanAct == cookie # None /\ session[cookie] # None => \E t \in Tabs : Holds(t)

ActInv == EndInv /\ Unannounced /\ CanAct

LEMMA ActNext == ActInv /\ [AuthNext]_sessionVars => ActInv'
<1> SUFFICES ASSUME ActInv, [AuthNext]_sessionVars PROVE ActInv'
  OBVIOUS
<1> USE SessionsAssumption
<1>0. EndInv /\ EndInv' /\ TypeInv /\ TypeInv'
  BY EndNext DEF ActInv, EndInv
<1>00. /\ cookie # None => cookie \in Tokens
       /\ \A t \in Tabs : At(t, "open") => request[t].token \in Tokens /\ request[t].token \in used
  BY <1>0 DEF EndInv, AllDrawn, TypeInv, AuthTypeOK, At, Cookied
<1>1. ASSUME NEW t \in Tabs, Sends(t) PROVE ActInv'
  <2>1. PICK step \in {"setup", "verify", "authenticate", "validate", "validateLogout"} : Send(t, step)
    BY <1>1 DEF Sends, SendSetup, SendLogin, SendSession, SendChange, SendLogout
  <2>2. /\ \A u \in Tabs \ {t} : request'[u] = request[u]
        /\ request[t] = None
        /\ request'[t].token = cookie /\ request'[t].step = step
        /\ UNCHANGED <<session, cookie, held>>
    BY <1>0, <2>1 DEF Send, TypeInv, AuthTypeOK
  <2>3. Unannounced'
    BY <2>2 DEF ActInv, Unannounced, At
  <2>4. CanAct'
    BY <2>2 DEF ActInv, CanAct, Holds, At
  <2> QED
    BY <1>0, <2>3, <2>4 DEF ActInv
<1>2. ASSUME NEW t \in Tabs, Moves(t) PROVE ActInv'
  <2>1. /\ request[t] # None /\ request[t].step \notin {"open", "show"}
        /\ UNCHANGED <<cookie, held>>
        /\ \A k \in Tokens : session'[k] = session[k] \/ session'[k] = None
    BY <1>0, <1>2, MovesOnly
  <2>2. PICK step \in Steps \ {"open", "show"} : Go(t, step)
    BY <1>0, <1>2, MovesOnly
  <2>3. /\ \A u \in Tabs \ {t} : request'[u] = request[u]
        /\ request'[t].step = step
        /\ request'[t].token = request[t].token
    BY <1>0, <2>1, <2>2, GoKeeps
  <2>4. Unannounced'
    BY <1>00, <2>1, <2>3 DEF ActInv, Unannounced, At
  <2>5. CanAct'
    BY <1>00, <2>1, <2>3 DEF ActInv, CanAct, Holds, At
  <2> QED
    BY <1>0, <2>4, <2>5 DEF ActInv
<1>3. ASSUME NEW t \in Tabs, CreateSession(t) PROVE ActInv'
  <2>1. PICK k \in Tokens \ used :
            /\ session' = [session EXCEPT ![k] =
                             [csrf |-> drawn + 1, seen |-> now, expires |-> now + AbsoluteLimit]]
            /\ Reply(t, "open", k, drawn + 1)
    BY <1>3 DEF CreateSession
  <2>2. /\ \A j \in Tokens \ {k} : session'[j] = session[j]
        /\ session'[k].csrf = drawn + 1
    BY <1>0, <2>1 DEF TypeInv, AuthTypeOK
  <2>3. /\ \A u \in Tabs \ {t} : request'[u] = request[u]
        /\ request'[t].step = "open" /\ request'[t].token = k /\ request'[t].csrf = drawn + 1
    BY <1>0, <2>1, ReplyKeeps
  <2>4. request[t] # None /\ request[t].step = "create" /\ UNCHANGED <<cookie, held>>
    BY <1>3 DEF CreateSession, At
  <2>5. /\ cookie # k
        /\ \A u \in Tabs : request[u] # None => request[u].token # k
    BY <1>0 DEF EndInv, AllDrawn
  <2>6. Unannounced'
    BY <1>00, <2>2, <2>3, <2>4, <2>5 DEF ActInv, Unannounced, At
  <2>7. request'[t] # None
    BY <1>0, <1>3, <2>1, <2>4, Replied DEF CreateSession, TypeInv, AuthTypeOK, Steps
  <2>8. CanAct'
    BY <1>00, <2>2, <2>3, <2>4, <2>5, <2>7 DEF ActInv, CanAct, Holds, At
  <2> QED
    BY <1>0, <2>6, <2>8 DEF ActInv
<1>4. ASSUME NEW t \in Tabs, UpdateSessionCSRF(t) PROVE ActInv'
  <2> DEFINE k == request[t].token
  <2>1. request[t] # None /\ request[t].step = "update" /\ k \in Tokens /\ UNCHANGED <<cookie, held>>
    BY <1>0, <1>4 DEF UpdateSessionCSRF, At, Cookied, TypeInv
  <2>2. CASE session[k] = None
    <3>1. UNCHANGED session /\ Go(t, "refuse")
      BY <1>4, <2>2 DEF UpdateSessionCSRF
    <3>2. /\ \A u \in Tabs \ {t} : request'[u] = request[u]
          /\ request'[t].step = "refuse" /\ request'[t].token = k
      BY <1>0, <2>1, <3>1, GoKeeps
    <3>3. Unannounced'
      BY <2>1, <3>1, <3>2 DEF ActInv, Unannounced, At
    <3>4. CanAct'
      BY <2>1, <3>1, <3>2 DEF ActInv, CanAct, Holds, At
    <3> QED
      BY <1>0, <3>3, <3>4 DEF ActInv
  <2>3. CASE session[k] # None
    <3>1. /\ session' = [session EXCEPT ![k].csrf = drawn + 1]
          /\ Reply(t, "show", k, drawn + 1)
      BY <1>4, <2>3 DEF UpdateSessionCSRF
    <3>2. /\ \A u \in Tabs \ {t} : request'[u] = request[u]
          /\ request'[t].step = "show" /\ request'[t].token = k /\ request'[t].csrf = drawn + 1
      BY <1>0, <3>1, ReplyKeeps
    <3>3. \A j \in Tokens \ {k} : session'[j] = session[j]
      BY <1>0, <3>1 DEF TypeInv, AuthTypeOK
    <3>4. session'[k].csrf = drawn + 1
      <4>1. session[k] \in Record
        BY <1>0, <2>1, <2>3 DEF TypeInv, AuthTypeOK
      <4>2. session'[k] = [session[k] EXCEPT !.csrf = drawn + 1]
        BY <1>0, <2>1, <3>1 DEF TypeInv, AuthTypeOK
      <4> QED
        BY <4>1, <4>2 DEF Record
    <3>5. Unannounced'
      <4> SUFFICES ASSUME NEW u \in Tabs, At(u, "open")'
                   PROVE  /\ request'[u].token # cookie'
                          /\ session'[request'[u].token] # None
                                => session'[request'[u].token].csrf = request'[u].csrf
                          /\ \A v \in Tabs \ {u} : request'[v] # None => request'[v].token # request'[u].token
        BY DEF Unannounced
      <4>1. u # t /\ At(u, "open") /\ request'[u] = request[u]
        BY <3>2 DEF At
      <4>2. request[u].token # k /\ request[u].token \in Tokens
        BY <1>00, <2>1, <4>1 DEF ActInv, Unannounced
      <4> QED
        BY <2>1, <3>2, <3>3, <4>1, <4>2 DEF ActInv, Unannounced
    <3>6. request'[t] # None
      BY <1>0, <1>4, <2>1, <3>1, Replied DEF UpdateSessionCSRF, TypeInv, AuthTypeOK, Steps
    <3>7. CanAct'
      <4>1. CASE cookie = k
        BY <2>1, <3>2, <3>4, <3>6, <4>1 DEF CanAct, Holds, At
      <4>2. CASE cookie # k
        BY <1>00, <2>1, <3>2, <3>3, <4>2 DEF ActInv, CanAct, Holds, At
      <4> QED
        BY <4>1, <4>2
    <3> QED
      BY <1>0, <3>5, <3>7 DEF ActInv
  <2> QED
    BY <2>2, <2>3
<1>5. ASSUME NEW t \in Tabs, Answer(t) PROVE ActInv'
  <2>1. /\ \A u \in Tabs \ {t} : request'[u] = request[u] /\ held'[u] = held[u]
        /\ request'[t] = None /\ request[t] # None
        /\ UNCHANGED session
    BY <1>0, <1>5 DEF Answer, TypeInv, AuthTypeOK
  <2>2. CASE At(t, "open")
    <3>1. cookie' = request[t].token /\ held'[t] = request[t].csrf
      BY <1>0, <1>5, <2>2 DEF Answer, At, TypeInv, AuthTypeOK
    <3>2. Unannounced'
      BY <2>1, <2>2, <3>1 DEF ActInv, Unannounced, At
    <3>3. CanAct'
      BY <2>1, <2>2, <3>1 DEF ActInv, Unannounced, CanAct, Holds
    <3> QED
      BY <1>0, <3>2, <3>3 DEF ActInv
  <2>3. CASE At(t, "clear")
    <3>1. cookie' = None
      BY <1>5, <2>3 DEF Answer, At
    <3>2. Unannounced'
      BY <1>00, <2>1, <3>1 DEF ActInv, Unannounced, At
    <3> QED
      BY <1>0, <3>1, <3>2 DEF ActInv, CanAct
  <2>4. CASE ~At(t, "open") /\ ~At(t, "clear")
    <3>1. /\ UNCHANGED cookie
          /\ held'[t] = IF At(t, "show") THEN request[t].csrf ELSE held[t]
      BY <1>0, <1>5, <2>4 DEF Answer, TypeInv, AuthTypeOK
    <3>2. Unannounced'
      BY <2>1, <3>1 DEF ActInv, Unannounced, At
    <3>3. CanAct'
      BY <2>1, <2>4, <3>1 DEF ActInv, CanAct, Holds, At
    <3> QED
      BY <1>0, <3>2, <3>3 DEF ActInv
  <2> QED
    BY <2>2, <2>3, <2>4
<1>6. CASE Tick \/ UNCHANGED sessionVars
  BY <1>0, <1>6 DEF Tick, sessionVars, ActInv, Unannounced, CanAct, Holds, At
<1> QED
  BY <1>1, <1>2, <1>3, <1>4, <1>5, <1>6, StepCases

\* Whatever logins, refreshes and logouts of any number of tabs do, the
\* browser is never left with a live session whose token no tab has.
THEOREM NoLockout == AuthSpec => []SomeTabCanAct
<1>1. AuthInit => ActInv
  BY SessionsAssumption DEF AuthInit, ActInv, EndInv, TypeInv, AuthTypeOK, AllDrawn, SentBefore,
     EndedStaysEnded, Unannounced, CanAct, At
<1>2. ActInv => SomeTabCanAct
  BY DEF ActInv, CanAct, Holds, At, SomeTabCanAct
<1> QED
  BY <1>1, <1>2, ActNext, PTL DEF AuthSpec
=============================================================================
