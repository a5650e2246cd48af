----------------------- MODULE ConfigurationStoreProofs -----------------------
(* What ConfigurationStore guarantees for all projects, operations and ports. *)
EXTENDS ConfigurationStore, TLAPS

-----------------------------------------------------------------------------
(* Type correctness.                                                        *)

USE DEF Revisions, Fences

\* operation_configurations refers to operations: a bound command has its row.
CommandHasOperation == \A o \in Ops : payload[o] # None => ops[o] # None

TypeInv == TypeOK /\ CommandHasOperation

LEMMA InitType == Init => TypeOK
  <1> SUFFICES ASSUME Init PROVE TypeOK
    OBVIOUS
  <1> USE ConstantsAssumption DEF Init, TypeOK, Candidate, Configs, PortFree, NoRows
  <1>1. InitialConfig \in [Projects -> [Kinds -> Ports \cup {None}]] /\ Installed \subseteq Projects
    OBVIOUS
  <1>2. 1 \in 1..MaxRevision
    OBVIOUS
  <1>3. rows \in [Projects -> [1..MaxRevision -> Candidate \cup {None}]]
    BY <1>1, <1>2
  <1> QED
    BY <1>1, <1>2, <1>3

LEMMA AdmitType ==
  ASSUME TypeOK, NEW p \in Projects, NEW o \in Ops, NEW e \in Revisions,
         NEW c \in Configs, NEW m \in Secrets \cup {None},
         AdmitConfiguration(p, o, e, c, m)
  PROVE  TypeOK'
  <1> USE ConstantsAssumption DEF TypeOK, AdmitConfiguration
  <1>1. rows' \in [Projects -> [Revisions -> Candidate \cup {None}]]
    BY DEF Candidate
  <1>2. reserved' \in [Ports -> Reservation \cup {None}]
    BY ZenonT(60) DEF Reservation
  <1>3. lease' \in [Projects -> Lease \cup {None}]
    BY DEF TakeLease, Lease
  <1>4. ops' \in [Ops -> Operation \cup {None}]
    BY DEF Operation, Statuses, Active, Phases
  <1>5. payload' \in [Ops -> Payload \cup {None}]
    BY DEF Payload
  <1> QED
    BY <1>1, <1>2, <1>3, <1>4, <1>5

LEMMA RowFacts ==
  ASSUME TypeOK, NEW p \in Projects, NEW r \in Revisions, rows[p][r] # None
  PROVE  /\ rows[p][r] \in Candidate
         /\ rows[p][r].config \in Configs
         /\ rows[p][r].secrets \in Secrets \cup {None}
  <1>1. rows[p] \in [Revisions -> Candidate \cup {None}]
    BY DEF TypeOK
  <1>2. rows[p][r] \in Candidate
    BY <1>1
  <1> QED
    BY <1>2 DEF Candidate

LEMMA OperationFacts ==
  ASSUME NEW x \in Operation, NEW s \in Statuses, NEW ph \in Phases, NEW q \in Projects \cup {None}
  PROVE  /\ [x EXCEPT !.status = s] \in Operation
         /\ [x EXCEPT !.phase = ph] \in Operation
         /\ [x EXCEPT !.project = q] \in Operation
  BY DEF Operation

LEMMA DropType ==
  ASSUME TypeOK, NEW p \in Projects, NEW R, DropReservations(p, R)
  PROVE  reserved' \in [Ports -> Reservation \cup {None}]
  BY DEF TypeOK, DropReservations

LEMMA ProjectType ==
  ASSUME TypeOK, NEW p \in Projects, NEW c \in Configs, Project(p, c)
  PROVE  /\ canonical' \in [Projects -> Configs]
         /\ alloc' \in [Projects -> [Kinds -> Ports \cup {None}]]
  BY DEF TypeOK, Project, Configs

LEMMA CreateType ==
  ASSUME TypeOK, NEW p \in Projects, NEW s \in Secrets \cup {None}, CreateProject(p, s)
  PROVE  TypeOK'
  <1> USE ConstantsAssumption DEF TypeOK, CreateProject
  <1>1. rows' \in [Projects -> [Revisions -> Candidate \cup {None}]]
    <2>1. 1 \in Revisions /\ [config |-> PortFree, secrets |-> s] \in Candidate
      BY DEF Candidate, Configs, PortFree
    <2> QED
      BY <2>1
  <1> QED
    BY <1>1

LEMMA DeleteType ==
  ASSUME TypeOK, NEW p \in Projects, DeleteProject(p)
  PROVE  TypeOK'
  <1> USE ConstantsAssumption DEF TypeOK, DeleteProject
  <1>1. rows' \in [Projects -> [Revisions -> Candidate \cup {None}]]
    BY DEF NoRows
  <1>2. reserved' \in [Ports -> Reservation \cup {None}]
    BY DEF DropReservations
  <1>3. ops' \in [Ops -> Operation \cup {None}]
    <2>1. \A x \in Ops : ops[x] # None => [ops[x] EXCEPT !.project = None] \in Operation
      BY OperationFacts DEF Statuses, Phases, Active
    <2> QED
      BY <2>1
  <1>4. payload' \in [Ops -> Payload \cup {None}]
    OBVIOUS
  <1>5. PortFree \in Configs /\ PortFree \in [Kinds -> Ports \cup {None}]
    BY DEF PortFree, Configs
  <1>6. 1 \in Revisions
    OBVIOUS
  <1> QED
    BY <1>1, <1>2, <1>3, <1>4, <1>5, <1>6

LEMMA PersistType ==
  ASSUME TypeOK, NEW p \in Projects, NEW c \in Configs, PersistAllocatedConfiguration(p, c)
  PROVE  TypeOK'
  <1>1. rev[p] \in Revisions /\ rows[p][rev[p]] \in Candidate
    BY RowFacts DEF PersistAllocatedConfiguration, TypeOK
  <1>2. [rows[p][rev[p]] EXCEPT !.config = c] \in Candidate
    BY <1>1 DEF Candidate
  <1>3. rows' \in [Projects -> [Revisions -> Candidate \cup {None}]]
    BY <1>1, <1>2 DEF PersistAllocatedConfiguration, TypeOK
  <1> QED
    BY <1>3, ProjectType DEF PersistAllocatedConfiguration, TypeOK

LEMMA AcquireType ==
  ASSUME TypeOK, NEW p \in Projects, NEW o \in Ops, AcquireConfigurationLeaseForOperation(p, o)
  PROVE  TypeOK'
  <1> USE DEF TypeOK, AcquireConfigurationLeaseForOperation
  <1>1. lease' \in [Projects -> Lease \cup {None}]
    BY DEF TakeLease, Lease
  <1>2. payload' \in [Ops -> Payload \cup {None}]
    BY DEF Rebind, Payload
  <1> QED
    BY <1>1, <1>2 DEF projectVars

LEMMA LeaseType ==
  ASSUME TypeOK, NEW p \in Projects, NEW o \in Ops, NEW f \in Fences,
         \/ RenewConfigurationLease(p, o, f)
         \/ ReleaseConfigurationLeaseOwned(p, o, f)
  PROVE  TypeOK'
  <1> USE DEF TypeOK, projectVars
  <1>1. CASE RenewConfigurationLease(p, o, f)
    BY <1>1, ZenonT(60) DEF RenewConfigurationLease, HoldsLease, Lease
  <1>2. CASE ReleaseConfigurationLeaseOwned(p, o, f)
    BY <1>2 DEF ReleaseConfigurationLeaseOwned
  <1> QED
    BY <1>1, <1>2

LEMMA CommitType ==
  ASSUME TypeOK, NEW p \in Projects, CommitCanonicalConfiguration(p)
  PROVE  TypeOK'
  <1>1. reserved' \in [Ports -> Reservation \cup {None}]
    BY DEF TypeOK, CommitCanonicalConfiguration, DropReservations
  <1> QED
    BY <1>1 DEF TypeOK, CommitCanonicalConfiguration

LEMMA RestoreType ==
  ASSUME TypeInv, NEW p \in Projects, NEW o \in Ops, NEW f \in Fences,
         RestoreConfigurationStateOwned(p, o, f)
  PROVE  TypeOK'
  <1> USE DEF TypeInv, TypeOK, RestoreConfigurationStateOwned
  <1>1. rev[p] \in Revisions /\ lastGood[p] \in Revisions
    OBVIOUS
  <1>2. secret' \in [Projects -> Secrets \cup {None}]
    BY <1>1, RowFacts
  <1>3. rows[p][lastGood[p]].config \in Configs
    BY <1>1, RowFacts
  <1>4. reserved' \in [Ports -> Reservation \cup {None}]
    BY DEF DropReservations
  <1>5. ops' \in [Ops -> Operation \cup {None}]
    <2>1. ops[o] # None => [ops[o] EXCEPT !.phase = "STATE_RESTORED"] \in Operation
      BY OperationFacts DEF Phases, Statuses, Active
    <2>2. ops[o] # None
      BY DEF CommandHasOperation, OwnsCandidate
    <2> QED
      BY <2>1, <2>2
  <1>6. rev' \in [Projects -> Revisions]
    BY DEF RestoredRevision
  <1> QED
    BY <1>2, <1>3, <1>4, <1>5, <1>6, ProjectType

LEMMA MarkType ==
  ASSUME TypeInv, NEW p \in Projects, NEW o \in Ops, NEW f \in Fences,
         MarkConfigurationGoodOwned(p, o, f)
  PROVE  TypeOK'
  <1> USE DEF TypeInv, TypeOK, MarkConfigurationGoodOwned
  <1>1. rows[p][rev[p]].config \in Configs
    BY RowFacts
  <1>2. reserved' \in [Ports -> Reservation \cup {None}]
    BY DEF DropReservations
  <1>3. ops' \in [Ops -> Operation \cup {None}]
    <2>1. ops[o] # None => [ops[o] EXCEPT !.phase = "COMMITTED"] \in Operation
      BY OperationFacts DEF Phases, Statuses, Active
    <2>2. ops[o] # None
      BY DEF CommandHasOperation, OwnsCandidate
    <2> QED
      BY <2>1, <2>2
  <1> QED
    BY <1>1, <1>2, <1>3, ProjectType

LEMMA WriteType ==
  ASSUME TypeOK,
         \/ \E p \in Projects, r \in Revisions, s \in Secrets : PublishConfigurationSecret(p, r, s)
         \/ \E o \in Ops, s \in StatusWrites : UpdateOperation(o, s)
         \/ \E o \in Ops, ph \in PhaseWrites : SetOperationCompensation(o, ph)
  PROVE  TypeOK'
  <1> USE ConstantsAssumption DEF TypeOK, projectVars
  <1>1. ASSUME NEW p \in Projects, NEW r \in Revisions, NEW s \in Secrets,
               PublishConfigurationSecret(p, r, s)
        PROVE  TypeOK'
    BY <1>1 DEF PublishConfigurationSecret
  <1>2. ASSUME NEW o \in Ops, NEW s \in StatusWrites, UpdateOperation(o, s) PROVE TypeOK'
    <2>1. [ops[o] EXCEPT !.status = s] \in Operation
      BY <1>2, OperationFacts DEF UpdateOperation, Phases
    <2> QED
      BY <1>2, <2>1 DEF UpdateOperation
  <1>3. ASSUME NEW o \in Ops, NEW ph \in PhaseWrites, SetOperationCompensation(o, ph) PROVE TypeOK'
    <2>1. [ops[o] EXCEPT !.phase = ph] \in Operation
      BY <1>3, OperationFacts DEF SetOperationCompensation, Statuses, Active
    <2> QED
      BY <1>3, <2>1 DEF SetOperationCompensation
  <1> QED
    BY <1>1, <1>2, <1>3

LEMMA AdmissibleType ==
  ASSUME TypeOK, NEW p \in Projects, NEW c \in Admissible(p)
  PROVE  c \in Configs
  BY DEF TypeOK, Admissible

LEMMA OwnedType == TypeInv /\ [OwnedNext]_storeVars => TypeOK'
  <1> SUFFICES ASSUME TypeInv, [OwnedNext]_storeVars PROVE TypeOK'
    OBVIOUS
  <1> TypeOK
    BY DEF TypeInv
  <1>1. CASE UNCHANGED storeVars
    BY <1>1 DEF TypeOK, storeVars
  <1>2. ASSUME NEW p \in Projects, NEW o \in Ops, NEW m \in Secrets \cup {None},
               NEW c \in Admissible(p), AdmitConfiguration(p, o, rev[p], c, m)
        PROVE  TypeOK'
    <2>1. rev[p] \in Revisions
      BY DEF TypeOK
    <2> QED
      BY <1>2, <2>1, AdmissibleType, AdmitType
  <1>3. ASSUME NEW p \in Projects, ExpireLease(p) PROVE TypeOK'
    BY <1>3 DEF ExpireLease, Lease, TypeOK, projectVars
  <1>4. ASSUME NEW p \in Projects, NEW o \in Ops, AcquireConfigurationLeaseForOperation(p, o)
        PROVE  TypeOK'
    BY <1>4, AcquireType
  <1> QED
    BY <1>1, <1>2, <1>3, <1>4, LeaseType, RestoreType, MarkType, WriteType DEF OwnedNext

LEMMA NextType == TypeInv /\ [Next]_storeVars => TypeOK'
  <1> SUFFICES ASSUME TypeInv, [Next]_storeVars PROVE TypeOK'
    OBVIOUS
  <1> TypeOK
    BY DEF TypeInv
  <1>1. CASE [OwnedNext]_storeVars
    BY <1>1, OwnedType
  <1>2. ASSUME NEW p \in Projects, NEW o \in Ops, NEW e \in Revisions,
               NEW m \in Secrets \cup {None}, NEW c \in Admissible(p),
               AdmitConfiguration(p, o, e, c, m)
        PROVE  TypeOK'
    BY <1>2, AdmissibleType, AdmitType
  <1>3. ASSUME NEW p \in Projects, NEW E \in SUBSET Kinds,
               PersistAllocatedConfiguration(p, InstallConfig(p, E))
        PROVE  TypeOK'
    <2>1. InstallConfig(p, E) \in Configs
      BY DEF InstallConfig, Configs, TypeOK
    <2> QED
      BY <1>3, <2>1, PersistType
  <1>4. ASSUME NEW p \in Projects, NEW c \in Configs, TryReservePorts(p, c) PROVE TypeOK'
    BY <1>4 DEF TryReservePorts, Configs, TypeOK, projectVars
  <1>5. ASSUME NEW p \in Projects, NEW k \in Kinds, ReleasePort(p, k) PROVE TypeOK'
    BY <1>5 DEF ReleasePort, TypeOK, projectVars
  <1> QED
    BY <1>1, <1>2, <1>3, <1>4, <1>5, CommitType, CreateType, DeleteType DEF Next

-----------------------------------------------------------------------------
(* The safety invariants, one lemma per transaction.  CommandHasOperation    *)
(* is the strengthening that makes them inductive: restoration and           *)
(* publication write the phase of the operation their command belongs to.    *)

Safe == CommandHasOperation /\ LeaseBindsPayload /\ LastGoodNotAhead /\ PortExclusive

Inv == TypeOK /\ Safe

\* None is a value of no record type.
LEMMA NoneFacts ==
  /\ \A x \in Operation : x # None
  /\ \A x \in Payload : x # None
  /\ \A x \in Lease : x # None
  BY ConstantsAssumption

LEMMA AdmitSafe ==
  ASSUME Inv, NEW p \in Projects, NEW o \in Ops, NEW e \in Revisions,
         NEW c \in Configs, NEW m \in Secrets \cup {None},
         AdmitConfiguration(p, o, e, c, m)
  PROVE  Safe'
  <1> DEFINE next == rev[p] + 1
             cmd == [project |-> p, rev |-> next, fence |-> NextFence(p)]
             row == [status |-> "QUEUED", project |-> p, phase |-> ""]
             new == [owner |-> o, fence |-> NextFence(p), expired |-> FALSE]
  <1>1. /\ next \in Revisions
        /\ NextFence(p) \in Fences
        /\ payload' = [payload EXCEPT ![o] = cmd]
        /\ ops' = [ops EXCEPT ![o] = row]
        /\ lease' = [lease EXCEPT ![p] = new]
        /\ rev' = IF rev[p] = e THEN [rev EXCEPT ![p] = next] ELSE rev
        /\ lastGood' = lastGood
        /\ alloc' = alloc
        /\ ops[o] = None
    BY DEF AdmitConfiguration, TakeLease
  <1>2. cmd \in Payload /\ row \in Operation /\ new \in Lease
    BY <1>1 DEF Payload, Operation, Lease, Statuses, Active, Phases
  <1>3. cmd # None /\ row # None /\ new # None
    BY <1>2, NoneFacts
  <1> HIDE DEF next, row
  <1>4. CommandHasOperation'
    BY <1>1, <1>3 DEF Inv, Safe, TypeOK, CommandHasOperation
  <1>5. LeaseBindsPayload'
    <2> SUFFICES ASSUME NEW q \in Projects, lease'[q] # None
                 PROVE  /\ payload'[lease'[q].owner] # None
                        /\ payload'[lease'[q].owner].project = q
                        /\ payload'[lease'[q].owner].fence = lease'[q].fence
      BY DEF LeaseBindsPayload
    <2>1. CASE q = p
      <3>1. lease'[q] = new /\ payload'[o] = cmd
        BY <1>1, <2>1 DEF Inv, TypeOK
      <3> QED
        BY <3>1, <1>3, <2>1
    <2>2. CASE q # p
      <3>1. lease'[q] = lease[q] /\ lease[q] \in Lease
        BY <1>1, <2>2 DEF Inv, TypeOK
      <3>2. payload[lease[q].owner] # None /\ lease[q].owner \in Ops
        BY <3>1 DEF Inv, Safe, LeaseBindsPayload, Lease
      <3>3. lease[q].owner # o
        BY <3>2, <1>1 DEF Inv, Safe, CommandHasOperation
      <3>4. payload'[lease[q].owner] = payload[lease[q].owner]
        BY <1>1, <3>2, <3>3 DEF Inv, TypeOK
      <3> QED
        BY <3>1, <3>4 DEF Inv, Safe, LeaseBindsPayload
    <2> QED
      BY <2>1, <2>2
  <1>6. LastGoodNotAhead'
    BY <1>1 DEF Inv, Safe, TypeOK, LastGoodNotAhead, next
  <1>7. PortExclusive'
    BY <1>1 DEF Inv, Safe, PortExclusive
  <1> QED
    BY <1>4, <1>5, <1>6, <1>7 DEF Safe

\* What the projection writes stays exclusive.
LEMMA ProjectExclusive ==
  ASSUME TypeOK, PortExclusive, NEW p \in Projects, NEW c \in Configs, Project(p, c)
  PROVE  PortExclusive'
  <1>1. \A k \in Kinds : c[k] # None => \A q \in Projects \ {p}, j \in Kinds : alloc[q][j] # c[k]
    BY DEF Project, CanProject
  <1>2. \A j, k \in Kinds : c[j] = c[k] /\ c[j] # None => j = k
    <2>1. \A j, k \in Kinds : j < k /\ c[k] # None => c[j] # c[k]
      BY DEF Project, CanProject
    <2>2. \A j, k \in Kinds : j < k \/ k < j \/ j = k
      BY ConstantsAssumption
    <2> QED
      BY <2>1, <2>2
  <1>3. \A q \in Projects : alloc'[q] = IF q = p THEN c ELSE alloc[q]
    BY DEF Project, TypeOK
  <1> QED
    BY <1>1, <1>2, <1>3 DEF PortExclusive

LEMMA RestoreSafe ==
  ASSUME Inv, NEW p \in Projects, NEW o \in Ops, NEW f \in Fences,
         RestoreConfigurationStateOwned(p, o, f)
  PROVE  Safe'
  <1> USE DEF Inv, Safe, TypeOK, RestoreConfigurationStateOwned
  <1>1. CommandHasOperation'
    <2>1. ops[o] # None
      BY DEF CommandHasOperation, OwnsCandidate
    <2>2. [ops[o] EXCEPT !.phase = "STATE_RESTORED"] \in Operation
      BY <2>1, OperationFacts DEF Phases, Statuses, Active
    <2> QED
      BY <2>2, NoneFacts DEF CommandHasOperation
  <1>2. LeaseBindsPayload'
    BY DEF LeaseBindsPayload
  <1>3. LastGoodNotAhead'
    BY DEF LastGoodNotAhead, RestoredRevision
  <1>4. PortExclusive'
    BY RowFacts, ProjectExclusive
  <1> QED
    BY <1>1, <1>2, <1>3, <1>4

LEMMA MarkSafe ==
  ASSUME Inv, NEW p \in Projects, NEW o \in Ops, NEW f \in Fences,
         MarkConfigurationGoodOwned(p, o, f)
  PROVE  Safe'
  <1> USE DEF Inv, Safe, TypeOK, MarkConfigurationGoodOwned
  <1>1. CommandHasOperation'
    <2>1. ops[o] # None
      BY DEF CommandHasOperation, OwnsCandidate
    <2>2. [ops[o] EXCEPT !.phase = "COMMITTED"] \in Operation
      BY <2>1, OperationFacts DEF Phases, Statuses, Active
    <2> QED
      BY <2>2, NoneFacts DEF CommandHasOperation
  <1>2. LeaseBindsPayload'
    BY DEF LeaseBindsPayload
  <1>3. LastGoodNotAhead'
    BY DEF LastGoodNotAhead
  <1>4. PortExclusive'
    BY RowFacts, ProjectExclusive
  <1> QED
    BY <1>1, <1>2, <1>3, <1>4

LEMMA LeaseSafe ==
  ASSUME Inv, NEW p \in Projects, NEW o \in Ops, NEW f \in Fences,
         \/ RenewConfigurationLease(p, o, f)
         \/ ReleaseConfigurationLeaseOwned(p, o, f)
  PROVE  Safe'
  <1> USE DEF Inv, Safe, TypeOK, RenewConfigurationLease, ReleaseConfigurationLeaseOwned
  <1>1. payload' = payload
    OBVIOUS
  <1>2. \A q \in Projects : lease'[q] # None =>
           lease[q] # None /\ lease'[q].owner = lease[q].owner /\ lease'[q].fence = lease[q].fence
    <2> SUFFICES ASSUME NEW q \in Projects, lease'[q] # None
                 PROVE  /\ lease[q] # None
                        /\ lease'[q].owner = lease[q].owner
                        /\ lease'[q].fence = lease[q].fence
      OBVIOUS
    <2>1. CASE RenewConfigurationLease(p, o, f)
      <3>1. lease[p] \in Lease
        BY <2>1 DEF HoldsLease
      <3>2. lease'[q] = IF q = p THEN [lease[p] EXCEPT !.expired = FALSE] ELSE lease[q]
        BY <2>1
      <3> QED
        BY <3>1, <3>2, NoneFacts DEF Lease
    <2>2. CASE ReleaseConfigurationLeaseOwned(p, o, f)
      <3>1. lease'[q] = lease[q] \/ lease'[q] = None
        BY <2>2
      <3> QED
        BY <3>1
    <2> QED
      BY <2>1, <2>2
  <1>3. LeaseBindsPayload'
    BY <1>1, <1>2 DEF LeaseBindsPayload
  <1> QED
    BY <1>3 DEF projectVars, CommandHasOperation, LastGoodNotAhead, PortExclusive

LEMMA AcquireSafe ==
  ASSUME Inv, NEW p \in Projects, NEW o \in Ops, AcquireConfigurationLeaseForOperation(p, o)
  PROVE  Safe'
  <1> USE DEF Inv, Safe, TypeOK, AcquireConfigurationLeaseForOperation
  <1> DEFINE new == [owner |-> o, fence |-> NextFence(p), expired |-> FALSE]
             cmd == [payload[o] EXCEPT !.fence = NextFence(p)]
  <1>0. /\ payload[o] \in Payload /\ payload[o].project = p
        /\ cmd \in Payload /\ cmd.project = p /\ cmd.fence = NextFence(p)
        /\ lease' = [lease EXCEPT ![p] = new]
        /\ payload' = [payload EXCEPT ![o] = cmd]
    <2>1. payload[o] \in Payload /\ payload[o].project = p /\ NextFence(p) \in Fences
      OBVIOUS
    <2>2. cmd \in Payload /\ cmd.project = p /\ cmd.fence = NextFence(p)
      BY <2>1 DEF Payload
    <2>3. lease' = [lease EXCEPT ![p] = new]
      BY DEF TakeLease
    <2>4. payload' = [payload EXCEPT ![o] = cmd]
      BY DEF Rebind
    <2> QED
      BY <2>1, <2>2, <2>3, <2>4
  <1> HIDE DEF cmd
  <1>1. LeaseBindsPayload'
    <2> SUFFICES ASSUME NEW q \in Projects, lease'[q] # None
                 PROVE  /\ payload'[lease'[q].owner] # None
                        /\ payload'[lease'[q].owner].project = q
                        /\ payload'[lease'[q].owner].fence = lease'[q].fence
      BY DEF LeaseBindsPayload
    <2>1. CASE q = p
      <3>1. lease'[q] = new /\ payload'[o] = cmd
        BY <1>0, <2>1
      <3> QED
        BY <3>1, <1>0, <2>1, NoneFacts
    <2>2. CASE q # p
      <3>1. lease'[q] = lease[q] /\ lease[q] \in Lease
        BY <1>0, <2>2
      <3>2. /\ lease[q].owner \in Ops
            /\ payload[lease[q].owner] # None
            /\ payload[lease[q].owner].project = q
        BY <3>1 DEF LeaseBindsPayload, Lease
      <3>3. lease[q].owner # o
        BY <3>2, <1>0, <2>2
      <3>4. payload'[lease[q].owner] = payload[lease[q].owner]
        BY <1>0, <3>2, <3>3
      <3> QED
        BY <3>1, <3>4 DEF LeaseBindsPayload
    <2> QED
      BY <2>1, <2>2
  <1>2. CommandHasOperation'
    BY DEF CommandHasOperation, Rebind
  <1> QED
    BY <1>1, <1>2 DEF projectVars, LastGoodNotAhead, PortExclusive

LEMMA ExpireSafe ==
  ASSUME Inv, NEW p \in Projects, ExpireLease(p)
  PROVE  Safe'
  <1> USE DEF Inv, Safe, TypeOK, ExpireLease
  <1>1. LeaseBindsPayload'
    BY DEF LeaseBindsPayload, Lease
  <1> QED
    BY <1>1 DEF projectVars, CommandHasOperation, LastGoodNotAhead, PortExclusive

LEMMA WriteSafe ==
  ASSUME Inv,
         \/ \E p \in Projects, r \in Revisions, s \in Secrets : PublishConfigurationSecret(p, r, s)
         \/ \E o \in Ops, s \in StatusWrites : UpdateOperation(o, s)
         \/ \E o \in Ops, ph \in PhaseWrites : SetOperationCompensation(o, ph)
  PROVE  Safe'
  <1> USE DEF Inv, Safe, TypeOK, PublishConfigurationSecret, UpdateOperation,
              SetOperationCompensation, projectVars
  <1>1. CommandHasOperation'
    <2>1. CASE \E p \in Projects, r \in Revisions, s \in Secrets : PublishConfigurationSecret(p, r, s)
      BY <2>1 DEF CommandHasOperation
    <2>2. ASSUME NEW o \in Ops, NEW s \in StatusWrites, UpdateOperation(o, s)
          PROVE  CommandHasOperation'
      <3>1. [ops[o] EXCEPT !.status = s] \in Operation
        BY <2>2, ConstantsAssumption, OperationFacts DEF Phases
      <3> QED
        BY <2>2, <3>1, NoneFacts DEF CommandHasOperation
    <2>3. ASSUME NEW o \in Ops, NEW ph \in PhaseWrites, SetOperationCompensation(o, ph)
          PROVE  CommandHasOperation'
      <3>1. [ops[o] EXCEPT !.phase = ph] \in Operation
        BY <2>3, ConstantsAssumption, OperationFacts DEF Statuses, Active
      <3> QED
        BY <2>3, <3>1, NoneFacts DEF CommandHasOperation
    <2> QED
      BY <2>1, <2>2, <2>3
  <1> QED
    BY <1>1 DEF LeaseBindsPayload, LastGoodNotAhead, PortExclusive

LEMMA OwnedSafe == Inv /\ [OwnedNext]_storeVars => Safe'
  <1> SUFFICES ASSUME Inv, [OwnedNext]_storeVars PROVE Safe'
    OBVIOUS
  <1>1. CASE UNCHANGED storeVars
    BY <1>1 DEF Inv, Safe, storeVars, CommandHasOperation, LeaseBindsPayload,
                LastGoodNotAhead, PortExclusive
  <1>2. ASSUME NEW p \in Projects, NEW o \in Ops, NEW m \in Secrets \cup {None},
               NEW c \in Admissible(p), AdmitConfiguration(p, o, rev[p], c, m)
        PROVE  Safe'
    <2>1. rev[p] \in Revisions /\ TypeOK
      BY DEF TypeOK, Inv
    <2> QED
      BY <1>2, <2>1, AdmissibleType, AdmitSafe
  <1> QED
    BY <1>1, <1>2, ExpireSafe, AcquireSafe, LeaseSafe, RestoreSafe, MarkSafe, WriteSafe
       DEF OwnedNext

LEMMA CommitSafe ==
  ASSUME Inv, NEW p \in Projects, CommitCanonicalConfiguration(p)
  PROVE  Safe'
  BY DEF Inv, Safe, TypeOK, CommitCanonicalConfiguration, CommandHasOperation,
         LeaseBindsPayload, LastGoodNotAhead, PortExclusive

LEMMA CreateSafe ==
  ASSUME Inv, NEW p \in Projects, NEW s \in Secrets \cup {None}, CreateProject(p, s)
  PROVE  Safe'
  BY DEF Inv, Safe, TypeOK, CreateProject, CommandHasOperation,
         LeaseBindsPayload, LastGoodNotAhead, PortExclusive

\* The cascade removes the command of every lease it leaves standing only for
\* other projects, because a lease's owner is a command of the same project.
LEMMA DeleteSafe ==
  ASSUME Inv, NEW p \in Projects, DeleteProject(p)
  PROVE  Safe'
  <1> USE DEF Inv, Safe, TypeOK, DeleteProject
  <1>1. CommandHasOperation'
    <2>1. \A x \in Ops : ops[x] # None => [ops[x] EXCEPT !.project = None] # None
      BY OperationFacts, NoneFacts DEF Phases, Statuses, Active
    <2> QED
      BY <2>1 DEF CommandHasOperation
  <1>2. LeaseBindsPayload'
    BY DEF LeaseBindsPayload, Lease
  <1>3. LastGoodNotAhead'
    BY DEF LastGoodNotAhead
  <1>4. PortExclusive'
    <2>1. \A q \in Projects : alloc'[q] = IF q = p THEN PortFree ELSE alloc[q]
      OBVIOUS
    <2> QED
      BY <2>1 DEF PortExclusive, PortFree
  <1> QED
    BY <1>1, <1>2, <1>3, <1>4

LEMMA InstallSafe ==
  ASSUME Inv, NEW p \in Projects, NEW c \in Configs,
         \/ TryReservePorts(p, c)
         \/ \E k \in Kinds : ReleasePort(p, k)
         \/ PersistAllocatedConfiguration(p, c)
  PROVE  Safe'
  <1> USE DEF Inv, Safe, projectVars
  <1>1. CASE TryReservePorts(p, c)
    <2>1. \A q \in Projects, k \in Kinds :
             alloc'[q][k] = IF q = p /\ c[k] # None THEN c[k] ELSE alloc[q][k]
      BY <1>1 DEF TryReservePorts, TypeOK
    <2>2. PortExclusive'
      BY <1>1, <2>1 DEF TryReservePorts, PortExclusive
    <2> QED
      BY <1>1, <2>2 DEF TryReservePorts, CommandHasOperation, LeaseBindsPayload, LastGoodNotAhead
  <1>2. CASE \E k \in Kinds : ReleasePort(p, k)
    <2>1. PortExclusive'
      BY <1>2 DEF ReleasePort, PortExclusive, TypeOK
    <2> QED
      BY <1>2, <2>1 DEF ReleasePort, CommandHasOperation, LeaseBindsPayload, LastGoodNotAhead
  <1>3. CASE PersistAllocatedConfiguration(p, c)
    BY <1>3, ProjectExclusive
       DEF PersistAllocatedConfiguration, CommandHasOperation, LeaseBindsPayload, LastGoodNotAhead
  <1> QED
    BY <1>1, <1>2, <1>3

LEMMA NextSafe == Inv /\ [Next]_storeVars => Safe'
  <1> SUFFICES ASSUME Inv, [Next]_storeVars PROVE Safe'
    OBVIOUS
  <1> TypeOK
    BY DEF Inv
  <1>1. CASE [OwnedNext]_storeVars
    BY <1>1, OwnedSafe
  <1>2. ASSUME NEW p \in Projects, NEW o \in Ops, NEW e \in Revisions,
               NEW m \in Secrets \cup {None}, NEW c \in Admissible(p),
               AdmitConfiguration(p, o, e, c, m)
        PROVE  Safe'
    BY <1>2, AdmissibleType, AdmitSafe
  <1>3. ASSUME NEW p \in Projects, NEW E \in SUBSET Kinds,
               PersistAllocatedConfiguration(p, InstallConfig(p, E))
        PROVE  Safe'
    <2>1. InstallConfig(p, E) \in Configs
      BY DEF InstallConfig, Configs, TypeOK
    <2> QED
      BY <1>3, <2>1, InstallSafe
  <1>4. ASSUME NEW p \in Projects, NEW k \in Kinds, ReleasePort(p, k) PROVE Safe'
    <2>1. PortFree \in Configs
      BY DEF PortFree, Configs
    <2> QED
      BY <1>4, <2>1, InstallSafe
  <1> QED
    BY <1>1, <1>2, <1>3, <1>4, CommitSafe, CreateSafe, DeleteSafe, InstallSafe DEF Next

LEMMA InitInv == Init => Inv
  <1>1. Init => PortExclusive
    BY ConstantsAssumption DEF Init, PortExclusive, PortFree, Configs
  <1>2. Init => LastGoodNotAhead
    BY DEF Init, LastGoodNotAhead
  <1> QED
    BY <1>1, <1>2, InitType DEF Inv, Safe, Init, CommandHasOperation, LeaseBindsPayload

LEMMA Invariance == Spec => []Inv
  <1>1. Inv /\ [Next]_storeVars => Inv'
    BY NextType, NextSafe DEF Inv, Safe, TypeInv
  <1> QED
    BY <1>1, InitInv, PTL DEF Spec

\* What FenceRises asks of one step.
FenceKept ==
    \A p \in Projects :
       lease[p] # None /\ lease'[p] # None =>
          \/ lease'[p].fence > lease[p].fence
          \/ lease'[p].fence = lease[p].fence /\ lease'[p].owner = lease[p].owner

\* A transaction that writes one lease and keeps its owner and fence, or
\* takes it, keeps the generations in order.
LEMMA TakenFence ==
  ASSUME TypeOK, NEW p \in Projects, NEW o \in Ops, CanTakeLease(p), TakeLease(p, o)
  PROVE  FenceKept
  <1> SUFFICES ASSUME NEW q \in Projects, lease[q] # None, lease'[q] # None
               PROVE  \/ lease'[q].fence > lease[q].fence
                      \/ lease'[q].fence = lease[q].fence /\ lease'[q].owner = lease[q].owner
    BY DEF FenceKept
  <1>1. CASE q = p
    <2>1. lease'[q].fence = lease[q].fence + 1
      BY <1>1 DEF TakeLease, NextFence, TypeOK
    <2>2. lease[q].fence \in Nat
      BY DEF TypeOK, Lease
    <2> QED
      BY <2>1, <2>2
  <1>2. CASE q # p
    BY <1>2 DEF TakeLease, TypeOK
  <1> QED
    BY <1>1, <1>2

LEMMA FlaggedFence ==
  ASSUME TypeOK, NEW p \in Projects, NEW b \in BOOLEAN, lease[p] # None,
         lease' = [lease EXCEPT ![p].expired = b]
  PROVE  FenceKept
  <1> SUFFICES ASSUME NEW q \in Projects, lease[q] # None
               PROVE  lease'[q].fence = lease[q].fence /\ lease'[q].owner = lease[q].owner
    BY DEF FenceKept
  <1>1. lease[q] \in Lease /\ lease'[q] = IF q = p THEN [lease[p] EXCEPT !.expired = b] ELSE lease[q]
    BY DEF TypeOK
  <1> QED
    BY <1>1 DEF Lease

LEMMA DroppedFence ==
  ASSUME \A p \in Projects : lease'[p] = None \/ lease'[p] = lease[p]
  PROVE  FenceKept
  BY DEF FenceKept

LEMMA FenceStep == Inv /\ [Next]_storeVars => [FenceKept]_storeVars
  <1> SUFFICES ASSUME TypeOK, Next PROVE FenceKept
    BY DEF Inv
  <1>1. ASSUME NEW p \in Projects, NEW o \in Ops, NEW e \in Revisions,
               NEW c, NEW m, AdmitConfiguration(p, o, e, c, m)
        PROVE  FenceKept
    BY <1>1, TakenFence DEF AdmitConfiguration
  <1>2. ASSUME NEW p \in Projects, NEW o \in Ops, AcquireConfigurationLeaseForOperation(p, o)
        PROVE  FenceKept
    BY <1>2, TakenFence DEF AcquireConfigurationLeaseForOperation
  <1>3. ASSUME NEW p \in Projects, NEW o \in Ops, NEW f \in Fences, RenewConfigurationLease(p, o, f)
        PROVE  FenceKept
    BY <1>3, FlaggedFence DEF RenewConfigurationLease, HoldsLease
  <1>4. ASSUME NEW p \in Projects, ExpireLease(p) PROVE FenceKept
    BY <1>4, FlaggedFence DEF ExpireLease
  <1>5. ASSUME NEW p \in Projects, NEW o \in Ops, NEW f \in Fences,
               \/ ReleaseConfigurationLeaseOwned(p, o, f)
               \/ RestoreConfigurationStateOwned(p, o, f)
               \/ MarkConfigurationGoodOwned(p, o, f)
        PROVE  FenceKept
    <2>1. \A q \in Projects : lease'[q] = None \/ lease'[q] = lease[q]
      BY <1>5 DEF ReleaseConfigurationLeaseOwned, RestoreConfigurationStateOwned,
                  MarkConfigurationGoodOwned, TypeOK
    <2> QED
      BY <2>1, DroppedFence
  <1>6. ASSUME NEW p \in Projects, DeleteProject(p) PROVE FenceKept
    <2>1. \A q \in Projects : lease'[q] = None \/ lease'[q] = lease[q]
      BY <1>6 DEF DeleteProject, TypeOK
    <2> QED
      BY <2>1, DroppedFence
  <1>7. ASSUME lease' = lease PROVE FenceKept
    BY <1>7, DroppedFence
  <1>8. \A p \in Projects : rev[p] \in Revisions
    BY DEF TypeOK
  <1> QED
    BY <1>1, <1>2, <1>3, <1>4, <1>5, <1>6, <1>7, <1>8
       DEF Next, OwnedNext, PublishConfigurationSecret, UpdateOperation, SetOperationCompensation,
           CommitCanonicalConfiguration, CreateProject, TryReservePorts, ReleasePort,
           PersistAllocatedConfiguration

\* Every transaction keeps every table within its type.
THEOREM TypeCorrect == Spec => []TypeOK
  BY Invariance, PTL DEF Inv

\* Whatever the callers do and in whatever order, a project's lease belongs to
\* a command of that project that carries the lease's own fence.
THEOREM LeaseBinding == Spec => []LeaseBindsPayload
  BY Invariance, PTL DEF Inv, Safe

\* last_good_revision never runs ahead of config_revision, although the
\* canonical commit asks for neither owner nor fence.
THEOREM LastGoodBounded == Spec => []LastGoodNotAhead
  BY Invariance, PTL DEF Inv, Safe

\* One host port has one owner among all allocations, whether installation,
\* publication or restoration wrote it.
THEOREM PortsExclusive == Spec => []PortExclusive
  BY Invariance, PTL DEF Inv, Safe

\* A lease changes hands only together with a larger fence.
THEOREM FencesRise == Spec => FenceRises
  BY Invariance, FenceStep, PTL DEF Spec, FenceRises, FenceKept

-----------------------------------------------------------------------------
(* The owned publication protocol keeps the configurations of two projects   *)
(* apart.  A port of a canonical configuration is covered by one of two       *)
(* tables: the allocations while the last good revision is current, and the   *)
(* reservations while a candidate is pending.  Admission checks both, so a    *)
(* reservation of one project is never an allocation of another.              *)

Reserves(p, c) == \A n \in PortsOf(c) : reserved[n] # None /\ reserved[n].project = p

GoodIsAllocated ==
    \A p \in Projects :
       /\ rows[p][lastGood[p]] # None => rows[p][lastGood[p]].config = alloc[p]
       /\ rev[p] = lastGood[p] => canonical[p] = alloc[p]

PendingIsReserved ==
    \A p \in Projects : rev[p] # lastGood[p] =>
       /\ rows[p][rev[p]] # None => rows[p][rev[p]].config = canonical[p]
       /\ Reserves(p, canonical[p])

ReservedIsFree ==
    \A n \in Ports, q \in Projects, k \in Kinds :
       reserved[n] # None /\ alloc[q][k] = n => reserved[n].project = q

PortsCovered == GoodIsAllocated /\ PendingIsReserved /\ ReservedIsFree

LEMMA CoveredApart == Inv /\ PortsCovered => PortsNeverCollide
  <1> SUFFICES ASSUME Inv, PortsCovered,
                      NEW p \in Projects, NEW q \in Projects, p # q,
                      NEW j \in Kinds, NEW k \in Kinds,
                      canonical[p][j] = canonical[q][k], canonical[p][j] # None
               PROVE  FALSE
    BY DEF PortsNeverCollide, PortsOf
  <1> DEFINE n == canonical[p][j]
  <1>1. n \in Ports /\ n \in PortsOf(canonical[p]) /\ n \in PortsOf(canonical[q])
    BY DEF Inv, TypeOK, Configs, PortsOf
  <1>2. \A x \in Projects, i \in Kinds : n \in PortsOf(canonical[x]) /\ canonical[x][i] = n =>
           alloc[x][i] = n \/ (reserved[n] # None /\ reserved[n].project = x)
    BY DEF PortsCovered, GoodIsAllocated, PendingIsReserved, Reserves
  <1> QED
    BY <1>1, <1>2 DEF PortsCovered, ReservedIsFree, Inv, Safe, PortExclusive

LEMMA AdmitCovered ==
  ASSUME Inv, PortsCovered, NEW p \in Projects, NEW o \in Ops,
         NEW c \in Configs, NEW m, AdmitConfiguration(p, o, rev[p], c, m)
  PROVE  PortsCovered'
  <1> DEFINE next == rev[p] + 1
             taken == [project |-> p, rev |-> next]
             row == [config |-> c, secrets |-> secret[p]]
  <1>1. /\ next \in Revisions /\ next # lastGood[p] /\ lastGood[p] \in Revisions
        /\ rev' = [rev EXCEPT ![p] = next] /\ lastGood' = lastGood
        /\ rows' = [rows EXCEPT ![p][next] = row]
        /\ canonical' = [canonical EXCEPT ![p] = c] /\ alloc' = alloc
        /\ \A n \in PortsOf(c) : ~Conflicts(p, n)
    <2>1. /\ rev[p] \in Nat /\ lastGood[p] \in Revisions /\ lastGood[p] <= rev[p]
      BY ConstantsAssumption DEF Inv, Safe, TypeOK, LastGoodNotAhead
    <2>2. next # lastGood[p]
      BY <2>1
    <2> QED
      BY <2>1, <2>2 DEF AdmitConfiguration
  <1>2. taken # None /\ taken.project = p
    BY <1>1, ConstantsAssumption DEF Reservation
  <1>3. \A n \in Ports : reserved'[n] = IF n \in PortsOf(c) THEN taken
                                        ELSE IF reserved[n] # None /\ reserved[n].project = p THEN None
                                        ELSE reserved[n]
    BY DEF AdmitConfiguration
  <1>4. PortsOf(c) \subseteq Ports
    BY DEF PortsOf, Configs
  <1>5. /\ rows'[p][next] = row /\ rows'[p][lastGood[p]] = rows[p][lastGood[p]]
        /\ \A q \in Projects \ {p} : rows'[q] = rows[q]
    BY <1>1 DEF Inv, TypeOK
  <1> HIDE DEF next, taken
  <1>6. GoodIsAllocated'
    BY <1>1, <1>5 DEF GoodIsAllocated, PortsCovered, Inv, TypeOK
  <1>7. PendingIsReserved'
    <2> SUFFICES ASSUME NEW q \in Projects, rev'[q] # lastGood'[q]
                 PROVE  /\ rows'[q][rev'[q]] # None => rows'[q][rev'[q]].config = canonical'[q]
                        /\ \A n \in PortsOf(canonical'[q]) :
                              reserved'[n] # None /\ reserved'[n].project = q
      BY DEF PendingIsReserved, Reserves
    <2>1. CASE q = p
      BY <2>1, <1>1, <1>2, <1>3, <1>4, <1>5 DEF Inv, TypeOK
    <2>2. CASE q # p
      <3>1. /\ rev'[q] = rev[q] /\ canonical'[q] = canonical[q] /\ rows'[q] = rows[q]
            /\ rev[q] # lastGood[q]
        BY <2>2, <1>1, <1>5 DEF Inv, TypeOK
      <3>2. ASSUME NEW n \in PortsOf(canonical[q])
            PROVE  reserved'[n] # None /\ reserved'[n].project = q
        <4>1. reserved[n] # None /\ reserved[n].project = q
          BY <3>1 DEF PortsCovered, PendingIsReserved, Reserves
        <4>2. n \in Ports
          BY DEF PortsOf, Inv, TypeOK, Configs
        <4>3. n \notin PortsOf(c)
          BY <4>1, <1>1, <2>2 DEF Conflicts
        <4> QED
          BY <4>1, <4>2, <4>3, <1>3, <2>2
      <3> QED
        BY <3>1, <3>2 DEF PortsCovered, PendingIsReserved
    <2> QED
      BY <2>1, <2>2
  <1>8. ReservedIsFree'
    <2> SUFFICES ASSUME NEW n \in Ports, NEW q \in Projects, NEW k \in Kinds,
                        reserved'[n] # None, alloc[q][k] = n
                 PROVE  reserved'[n].project = q
      BY <1>1 DEF ReservedIsFree
    <2>1. CASE n \in PortsOf(c)
      BY <2>1, <1>1, <1>2, <1>3 DEF Conflicts
    <2>2. CASE n \notin PortsOf(c)
      BY <2>2, <1>3 DEF PortsCovered, ReservedIsFree
    <2> QED
      BY <2>1, <2>2
  <1> QED
    BY <1>6, <1>7, <1>8 DEF PortsCovered

\* Restoration and publication project the good row of p: its ports are the
\* ones p has reserved, or has allocated already.
LEMMA ProjectedCovered ==
  ASSUME Inv, PortsCovered, NEW p \in Projects, NEW c \in Configs,
         Project(p, c), DropReservations(p, {rev[p]}),
         lastGood' \in [Projects -> Revisions], rev' \in [Projects -> Revisions],
         rows' \in [Projects -> [Revisions -> Candidate \cup {None}]],
         lastGood'[p] = rev'[p],
         rows'[p][lastGood'[p]] # None => rows'[p][lastGood'[p]].config = c,
         \A k \in Kinds : c[k] # None => c[k] = alloc[p][k] \/
            (reserved[c[k]] # None /\ reserved[c[k]].project = p),
         \A q \in Projects \ {p} :
            rows'[q] = rows[q] /\ rev'[q] = rev[q] /\ lastGood'[q] = lastGood[q]
  PROVE  PortsCovered'
  <1>1. /\ canonical'[p] = c /\ alloc'[p] = c
        /\ \A q \in Projects \ {p} : canonical'[q] = canonical[q] /\ alloc'[q] = alloc[q]
    BY DEF Project, Inv, TypeOK
  <1>2. \A n \in Ports : \/ reserved'[n] = reserved[n]
                         \/ reserved'[n] = None /\ reserved[n] # None /\ reserved[n].project = p
    BY DEF DropReservations
  <1>3. GoodIsAllocated'
    BY <1>1 DEF GoodIsAllocated, PortsCovered
  <1>4. PendingIsReserved'
    <2> SUFFICES ASSUME NEW q \in Projects, rev'[q] # lastGood'[q]
                 PROVE  /\ rows'[q][rev'[q]] # None => rows'[q][rev'[q]].config = canonical'[q]
                        /\ \A n \in PortsOf(canonical'[q]) :
                              reserved'[n] # None /\ reserved'[n].project = q
      BY DEF PendingIsReserved, Reserves
    <2>1. q # p /\ rows'[q] = rows[q] /\ rev'[q] = rev[q] /\ canonical'[q] = canonical[q]
      BY <1>1
    <2>2. rev[q] # lastGood[q]
      BY <2>1
    <2>3. PortsOf(canonical[q]) \subseteq Ports
      BY DEF PortsOf, Inv, TypeOK, Configs
    <2>4. \A n \in PortsOf(canonical[q]) : reserved[n] # None /\ reserved[n].project = q
      BY <2>2 DEF PortsCovered, PendingIsReserved, Reserves
    <2>5. rows[q][rev[q]] # None => rows[q][rev[q]].config = canonical[q]
      BY <2>2 DEF PortsCovered, PendingIsReserved
    <2> QED
      BY ONLY <2>1, <2>3, <2>4, <2>5, <1>2
  <1>5. ReservedIsFree'
    <2> SUFFICES ASSUME NEW n \in Ports, NEW q \in Projects, NEW k \in Kinds,
                        reserved'[n] # None, alloc'[q][k] = n
                 PROVE  reserved'[n].project = q
      BY DEF ReservedIsFree
    <2>1. reserved'[n] = reserved[n] /\ reserved[n] # None /\ n # None
      BY <1>2, ConstantsAssumption
    <2>2. alloc[q][k] = n => reserved[n].project = q
      BY <2>1 DEF PortsCovered, ReservedIsFree
    <2>3. CASE q # p
      <3>1. alloc[q][k] = n
        BY <2>3, <1>1
      <3> QED
        BY ONLY <2>1, <2>2, <3>1
    <2>4. CASE q = p
      <3>1. c[k] = n /\ c[k] # None
        BY <2>1, <2>4, <1>1
      <3>2. alloc[p][k] = n \/ reserved[n].project = p
        BY <3>1
      <3> QED
        BY ONLY <2>1, <2>2, <2>4, <3>2
    <2> QED
      BY <2>3, <2>4
  <1> QED
    BY <1>3, <1>4, <1>5 DEF PortsCovered

LEMMA RestoreCovered ==
  ASSUME Inv, PortsCovered, NEW p \in Projects, NEW o \in Ops, NEW f \in Fences,
         RestoreConfigurationStateOwned(p, o, f)
  PROVE  PortsCovered'
  <1> DEFINE c == rows[p][lastGood[p]].config
  <1> USE DEF RestoreConfigurationStateOwned, RestoredRevision, Inv, TypeOK
  <1>1. c \in Configs /\ c = alloc[p]
    BY RowFacts DEF PortsCovered, GoodIsAllocated
  <1>2. /\ rows' \in [Projects -> [Revisions -> Candidate \cup {None}]]
        /\ rev' \in [Projects -> Revisions] /\ lastGood' = lastGood
        /\ rev'[p] = lastGood[p]
        /\ rows'[p][lastGood[p]] \in {rows[p][lastGood[p]], None}
        /\ \A q \in Projects \ {p} : rows'[q] = rows[q] /\ rev'[q] = rev[q]
    OBVIOUS
  <1>3. Project(p, c) /\ DropReservations(p, {rev[p]})
    OBVIOUS
  <1>4. Inv
    OBVIOUS
  <1> QED
    BY ONLY <1>1, <1>2, <1>3, <1>4, PortsCovered, ProjectedCovered,
            p \in Projects, lastGood \in [Projects -> Revisions], ZenonT(60)

LEMMA MarkCovered ==
  ASSUME Inv, PortsCovered, NEW p \in Projects, NEW o \in Ops, NEW f \in Fences,
         MarkConfigurationGoodOwned(p, o, f)
  PROVE  PortsCovered'
  <1> DEFINE c == rows[p][rev[p]].config
  <1>0. TypeOK
    BY DEF Inv
  <1>1. /\ Project(p, c) /\ DropReservations(p, {rev[p]})
        /\ rows[p][rev[p]] # None /\ rev' = rev /\ rows' = rows
        /\ lastGood' = [lastGood EXCEPT ![p] = rev[p]]
    BY DEF MarkConfigurationGoodOwned
  <1>2. c \in Configs
    BY <1>0, <1>1, RowFacts DEF TypeOK
  <1>3. ASSUME NEW k \in Kinds, c[k] # None
        PROVE  c[k] = alloc[p][k] \/ (reserved[c[k]] # None /\ reserved[c[k]].project = p)
    <2>1. CASE rev[p] = lastGood[p]
      BY <1>1, <2>1 DEF PortsCovered, GoodIsAllocated
    <2>2. CASE rev[p] # lastGood[p]
      BY <1>1, <1>3, <2>2 DEF PortsCovered, PendingIsReserved, Reserves, PortsOf
    <2> QED
      BY <2>1, <2>2
  <1>4. /\ lastGood' \in [Projects -> Revisions] /\ rev' \in [Projects -> Revisions]
        /\ rows' \in [Projects -> [Revisions -> Candidate \cup {None}]]
        /\ lastGood'[p] = rev'[p]
        /\ \A q \in Projects \ {p} :
              rows'[q] = rows[q] /\ rev'[q] = rev[q] /\ lastGood'[q] = lastGood[q]
        /\ rows'[p][lastGood'[p]] # None => rows'[p][lastGood'[p]].config = c
    BY <1>0, <1>1 DEF TypeOK
  <1> QED
    BY ONLY Inv, PortsCovered, p \in Projects, <1>1, <1>2, <1>3, <1>4, ProjectedCovered, ZenonT(60)

LEMMA OwnedCovered == Inv /\ PortsCovered /\ [OwnedNext]_storeVars => PortsCovered'
  <1> SUFFICES ASSUME Inv, PortsCovered, [OwnedNext]_storeVars PROVE PortsCovered'
    OBVIOUS
  <1>1. ASSUME NEW p \in Projects, NEW o \in Ops, NEW m \in Secrets \cup {None},
               NEW c \in Admissible(p), AdmitConfiguration(p, o, rev[p], c, m)
        PROVE  PortsCovered'
    BY <1>1, AdmissibleType, AdmitCovered DEF Inv
  <1>2. ASSUME /\ rev' = rev /\ lastGood' = lastGood /\ rows' = rows
               /\ canonical' = canonical /\ alloc' = alloc /\ reserved' = reserved
        PROVE  PortsCovered'
    BY <1>2 DEF PortsCovered, GoodIsAllocated, PendingIsReserved, ReservedIsFree, Reserves
  <1> QED
    BY <1>1, <1>2, RestoreCovered, MarkCovered
       DEF OwnedNext, storeVars, projectVars, AcquireConfigurationLeaseForOperation, ExpireLease,
           RenewConfigurationLease, ReleaseConfigurationLeaseOwned, PublishConfigurationSecret,
           UpdateOperation, SetOperationCompensation

LEMMA InitCovered == Init => PortsCovered
  <1> SUFFICES ASSUME Init PROVE PortsCovered
    OBVIOUS
  <1>1. ASSUME NEW p \in Projects
        PROVE  /\ rev[p] = lastGood[p] /\ canonical[p] = alloc[p] /\ lastGood[p] = 1
               /\ rows[p][1] # None => rows[p][1].config = alloc[p]
    <2>1. 1 \in Revisions
      BY ConstantsAssumption
    <2>2. CASE p \in Installed
      <3>1. rows[p] = [NoRows EXCEPT ![1] = [config |-> InitialConfig[p], secrets |-> None]]
        BY <2>2 DEF Init
      <3> QED
        BY <2>1, <2>2, <3>1 DEF Init, NoRows
    <2>3. CASE p \notin Installed
      BY <2>1, <2>3 DEF Init, NoRows
    <2> QED
      BY <2>2, <2>3
  <1>2. \A n \in Ports : reserved[n] = None
    BY DEF Init
  <1> QED
    BY <1>1, <1>2 DEF PortsCovered, GoodIsAllocated, PendingIsReserved, ReservedIsFree

\* Under the owned protocol, in which every step shows the lease it runs under
\* and admission uses the current revision, the configurations of two projects
\* never name the same host port: what the ordinary update's canonical commit
\* breaks (the run that checks PortsNeverCollide on Spec) holds without it.
THEOREM OwnedPortsApart == OwnedSpec => []PortsNeverCollide
  <1>1. Init => Inv /\ PortsCovered
    BY InitInv, InitCovered
  <1>2. Inv /\ PortsCovered /\ [OwnedNext]_storeVars => (Inv /\ PortsCovered)'
    BY OwnedType, OwnedSafe, OwnedCovered DEF Inv, Safe, TypeInv
  <1> QED
    BY <1>1, <1>2, CoveredApart, PTL DEF OwnedSpec
=============================================================================
