-------------------------- MODULE ConfigurationStore --------------------------
(***************************************************************************)
(* The Manager's SQLite store as the configuration code uses it: revisions *)
(* and their immutable candidates, the configuration lease with its fence, *)
(* pending port reservations, promoted port allocations, and the operation *)
(* rows bound to a candidate.                                              *)
(*                                                                         *)
(* One action is one transaction.  Transactions open with BEGIN IMMEDIATE  *)
(* (store/sqlite.go), so they are serialized and an action is atomic.  A   *)
(* transaction that returns an error rolls back and is a stuttering step.  *)
(*                                                                         *)
(* Abstractions.  A configuration is what the store's conflict rules read  *)
(* of it: the host port of each kind, None for a disabled kind.  Project   *)
(* domains are left out: a domain is slug ++ "." ++ host and slugs are     *)
(* unique, so two domains never meet.  The set of encrypted secrets of a   *)
(* project is one value.  A lease does not carry its expiry time but       *)
(* whether that time has passed.                                           *)
(***************************************************************************)
EXTENDS Naturals, FiniteSets

CONSTANTS
    Projects,       \* project identifiers
    Ops,            \* operation identifiers
    Kinds,          \* port kinds (API, STUDIO, ...), in the order they are written
    Ports,          \* host ports of the allocation range
    Secrets,        \* values of a project's secret set
    Installed,      \* the projects installed before the behaviour starts
    InitialConfig,  \* their configuration
    InitialSecret,  \* their secrets
    None,
    MaxRevision,    \* bound on revisions
    MaxFence,       \* bound on lease fences
    StatusWrites,   \* the statuses callers write; the store tells active from terminal
    PhaseWrites     \* the compensation phases callers write

Revisions == 1..MaxRevision
Fences == 1..MaxFence
Configs == [Kinds -> Ports \cup {None}]
PortFree == [k \in Kinds |-> None]

Active == {"QUEUED", "RUNNING"}
Terminal == {"SUCCEEDED", "FAILED", "ROLLED_BACK"}
Statuses == Active \cup Terminal \cup {"ROLLING_BACK"}
Phases == {"", "RUNTIME_COMMITTED", "ROLLBACK_PENDING", "ROLLBACK_CONFIRMED",
           "STATE_RESTORED", "COMMITTED"}

Candidate == [config : Configs, secrets : Secrets \cup {None}]
Lease == [owner : Ops, fence : Fences, expired : BOOLEAN]
Operation == [status : Statuses, project : Projects \cup {None}, phase : Phases]
Payload == [project : Projects, rev : Revisions, fence : Fences]
Reservation == [project : Projects, rev : Revisions]

ASSUME ConstantsAssumption ==
    /\ Kinds \subseteq Nat
    /\ Installed \subseteq Projects
    /\ InitialConfig \in [Projects -> Configs]
    /\ InitialSecret \in [Projects -> Secrets \cup {None}]
    /\ \A p, q \in Installed, j, k \in Kinds :
          /\ InitialConfig[p][j] = InitialConfig[q][k]
          /\ InitialConfig[p][j] # None
          => p = q /\ j = k
    /\ MaxRevision \in Nat \ {0}
    /\ MaxFence \in Nat \ {0}
    /\ StatusWrites \subseteq Statuses
    /\ PhaseWrites \subseteq Phases
    /\ None \notin Projects \cup Ports \cup Secrets \cup Candidate \cup Lease
                   \cup Operation \cup Payload \cup Reservation

VARIABLES
    stage,      \* whether the project's row has been inserted and deleted
    rev,        \* projects.config_revision
    lastGood,   \* projects.last_good_revision
    canonical,  \* project_configuration
    rows,       \* project_configs with project_secret_versions and the snapshot marker
    secret,     \* project_secrets
    reserved,   \* configuration_reservations
    alloc,      \* port_allocations
    lease,      \* project_configuration_leases
    ops,        \* operations
    payload     \* operation_configurations

projectVars == <<stage, rev, lastGood, canonical, rows, secret>>
storeVars == <<stage, rev, lastGood, canonical, rows, secret,
               reserved, alloc, lease, ops, payload>>

TypeOK ==
    /\ stage \in [Projects -> {"unborn", "live", "deleted"}]
    /\ rev \in [Projects -> Revisions]
    /\ lastGood \in [Projects -> Revisions]
    /\ canonical \in [Projects -> Configs]
    /\ rows \in [Projects -> [Revisions -> Candidate \cup {None}]]
    /\ secret \in [Projects -> Secrets \cup {None}]
    /\ reserved \in [Ports -> Reservation \cup {None}]
    /\ alloc \in [Projects -> [Kinds -> Ports \cup {None}]]
    /\ lease \in [Projects -> Lease \cup {None}]
    /\ ops \in [Ops -> Operation \cup {None}]
    /\ payload \in [Ops -> Payload \cup {None}]

Live(p) == stage[p] = "live"
NoRows == [r \in Revisions |-> None]

Init ==
    /\ stage = [p \in Projects |-> IF p \in Installed THEN "live" ELSE "unborn"]
    /\ rev = [p \in Projects |-> 1]
    /\ lastGood = [p \in Projects |-> 1]
    /\ canonical = [p \in Projects |-> IF p \in Installed THEN InitialConfig[p] ELSE PortFree]
    /\ rows = [p \in Projects |->
                 IF p \in Installed
                   THEN [NoRows EXCEPT ![1] = [config |-> InitialConfig[p], secrets |-> None]]
                   ELSE NoRows]
    /\ secret = [p \in Projects |-> IF p \in Installed THEN InitialSecret[p] ELSE None]
    /\ reserved = [n \in Ports |-> None]
    /\ alloc = [p \in Projects |-> IF p \in Installed THEN InitialConfig[p] ELSE PortFree]
    /\ lease = [p \in Projects |-> None]
    /\ ops = [o \in Ops |-> None]
    /\ payload = [o \in Ops |-> None]

-----------------------------------------------------------------------------
(* Ports.                                                                  *)

PortsOf(c) == {c[k] : k \in Kinds} \ {None}

\* The conflict check of admission: another project's reservation or allocation.
Conflicts(p, n) ==
    \/ reserved[n] # None /\ reserved[n].project # p
    \/ \E q \in Projects \ {p}, k \in Kinds : alloc[q][k] = n

\* Mutant: the projection overwrites the rows of other projects' ports.
CanProjectOverOthers(p, c) == \A j, k \in Kinds : c[k] # None /\ j < k => c[j] # c[k]

\* updateCanonicalProjectionTx rewrites port_allocations kind by kind, so an
\* insert meets the rows of later kinds as they were and of earlier ones as
\* they will be; a primary key conflict aborts the transaction.
CanProject(p, c) ==
    \A k \in Kinds : c[k] # None =>
        /\ \A q \in Projects \ {p}, j \in Kinds : alloc[q][j] # c[k]
        /\ \A j \in Kinds : j > k => alloc[p][j] # c[k]
        /\ \A j \in Kinds : j < k => c[j] # c[k]

Project(p, c) ==
    /\ CanProject(p, c)
    /\ canonical' = [canonical EXCEPT ![p] = c]
    /\ alloc' = [alloc EXCEPT ![p] = c]

\* Deletes the reservations of p made for a revision in R.
DropReservations(p, R) ==
    reserved' = [n \in Ports |->
                   IF reserved[n] # None /\ reserved[n].project = p /\ reserved[n].rev \in R
                     THEN None ELSE reserved[n]]

-----------------------------------------------------------------------------
(* Projects and the ports of an installation.                              *)

\* Server-owned ports are not chosen at creation; installation allocates them.
CreateProject(p, s) ==
    /\ stage[p] = "unborn"
    /\ stage' = [stage EXCEPT ![p] = "live"]
    /\ rows' = [rows EXCEPT ![p][1] = [config |-> PortFree, secrets |-> s]]
    /\ secret' = [secret EXCEPT ![p] = s]
    /\ UNCHANGED <<rev, lastGood, canonical, reserved, alloc, lease, ops, payload>>

\* Foreign keys cascade, except operations.project_id, which becomes NULL.
DeleteProject(p) ==
    /\ Live(p)
    /\ stage' = [stage EXCEPT ![p] = "deleted"]
    /\ rev' = [rev EXCEPT ![p] = 1]
    /\ lastGood' = [lastGood EXCEPT ![p] = 1]
    /\ canonical' = [canonical EXCEPT ![p] = PortFree]
    /\ rows' = [rows EXCEPT ![p] = NoRows]
    /\ secret' = [secret EXCEPT ![p] = None]
    /\ DropReservations(p, Revisions)
    /\ alloc' = [alloc EXCEPT ![p] = PortFree]
    /\ lease' = [lease EXCEPT ![p] = None]
    /\ ops' = [o \in Ops |->
                 IF ops[o] # None /\ ops[o].project = p
                   THEN [ops[o] EXCEPT !.project = None] ELSE ops[o]]
    /\ payload' = [o \in Ops |->
                     IF payload[o] # None /\ payload[o].project = p THEN None ELSE payload[o]]

\* claim gives a port to every kind it names and None to the others.
TryReservePorts(p, claim) ==
    /\ Live(p)
    /\ \A k \in Kinds : claim[k] # None =>
          /\ reserved[claim[k]] = None
          /\ \A q \in Projects, j \in Kinds : alloc[q][j] # claim[k]
          /\ alloc[p][k] = None
          /\ \A j \in Kinds \ {k} : claim[j] # claim[k]
    /\ alloc' = [alloc EXCEPT ![p] = [k \in Kinds |-> IF claim[k] # None THEN claim[k] ELSE @[k]]]
    /\ UNCHANGED <<projectVars, reserved, lease, ops, payload>>

ReleasePort(p, k) ==
    /\ alloc' = [alloc EXCEPT ![p][k] = None]
    /\ UNCHANGED <<projectVars, reserved, lease, ops, payload>>

\* Installation calls this with the ports it has just reserved.
PersistAllocatedConfiguration(p, c) ==
    /\ Live(p)
    /\ rows[p][rev[p]] # None
    /\ rows' = [rows EXCEPT ![p][rev[p]].config = c]
    /\ Project(p, c)
    /\ UNCHANGED <<stage, rev, lastGood, secret, reserved, lease, ops, payload>>

-----------------------------------------------------------------------------
(* Leases.                                                                 *)

\* Mutant: a takeover keeps the generation of the lease it replaces.
NextFenceKept(p) == IF lease[p] = None THEN 1 ELSE lease[p].fence

\* Mutant: an expired lease is not taken over.
CanTakeLeaseFree(p) == lease[p] = None

\* INSERT .. ON CONFLICT DO UPDATE .. WHERE expires_at <= now: the first
\* holder, and a holder after a release, gets fence 1.
CanTakeLease(p) == lease[p] # None => lease[p].expired
NextFence(p) == IF lease[p] = None THEN 1 ELSE lease[p].fence + 1
TakeLease(p, o) ==
    lease' = [lease EXCEPT ![p] = [owner |-> o, fence |-> NextFence(p), expired |-> FALSE]]

HoldsLease(p, o, f) == lease[p] # None /\ lease[p].owner = o /\ lease[p].fence = f
OwnsConfigurationLease(p, o, f) == HoldsLease(p, o, f) /\ ~lease[p].expired

\* The clock passes expires_at.
ExpireLease(p) ==
    /\ lease[p] # None /\ ~lease[p].expired
    /\ lease' = [lease EXCEPT ![p].expired = TRUE]
    /\ UNCHANGED <<projectVars, reserved, alloc, ops, payload>>

\* Renewal does not look at the expiry: an expired lease nobody took revives.
RenewConfigurationLease(p, o, f) ==
    /\ HoldsLease(p, o, f)
    /\ lease' = [lease EXCEPT ![p].expired = FALSE]
    /\ UNCHANGED <<projectVars, reserved, alloc, ops, payload>>

ReleaseConfigurationLeaseOwned(p, o, f) ==
    /\ lease' = IF HoldsLease(p, o, f) THEN [lease EXCEPT ![p] = None] ELSE lease
    /\ UNCHANGED <<projectVars, reserved, alloc, ops, payload>>

\* Mutant: the command keeps its old fence.
RebindOldFence(o, f) == payload' = payload
\* The durable command carries the generation it will run under.
Rebind(o, f) == payload' = [payload EXCEPT ![o].fence = f]

AcquireConfigurationLeaseForOperation(p, o) ==
    /\ Live(p)
    /\ CanTakeLease(p)
    /\ payload[o] # None /\ payload[o].project = p
    /\ NextFence(p) \in Fences
    /\ TakeLease(p, o)
    /\ Rebind(o, NextFence(p))
    /\ UNCHANGED <<projectVars, reserved, alloc, ops>>

-----------------------------------------------------------------------------
(* Revisions.                                                              *)

\* The operations bound to revision r of p.
Bound(p, r) == {o \in Ops : payload[o] # None /\ payload[o].project = p /\ payload[o].rev = r}

\* The bound operation the LIMIT 1 query happens to return is not active.
CandidateIsFree(p, r) ==
    \/ rows[p][r] = None
    \/ Bound(p, r) = {}
    \/ \E o \in Bound(p, r) : ops[o].status \in Terminal

\* expected is the revision the caller read before; mutation is None or the
\* secrets after the caller's secret mutations.
AdmitConfiguration(p, o, expected, c, mutation) ==
    LET next == rev[p] + 1 IN
    /\ Live(p)
    /\ ops[o] = None
    /\ \A n \in PortsOf(c) : ~Conflicts(p, n)
    /\ CanTakeLease(p)
    /\ next \in Revisions /\ expected + 1 \in Revisions /\ NextFence(p) \in Fences
    /\ CandidateIsFree(p, next)
    /\ TakeLease(p, o)
    /\ reserved' = [n \in Ports |->
                      IF n \in PortsOf(c) THEN [project |-> p, rev |-> expected + 1]
                      ELSE IF reserved[n] # None /\ reserved[n].project = p THEN None
                      ELSE reserved[n]]
    /\ rev' = IF rev[p] = expected THEN [rev EXCEPT ![p] = next] ELSE rev
    /\ rows' = [rows EXCEPT ![p][next] = [config |-> c, secrets |-> secret[p]]]
    /\ canonical' = [canonical EXCEPT ![p] = c]
    /\ secret' = IF mutation = None THEN secret ELSE [secret EXCEPT ![p] = mutation]
    /\ ops' = [ops EXCEPT ![o] = [status |-> "QUEUED", project |-> p, phase |-> ""]]
    /\ payload' = [payload EXCEPT ![o] = [project |-> p, rev |-> next, fence |-> NextFence(p)]]
    /\ UNCHANGED <<stage, lastGood, alloc>>

\* Neither owner nor fence is asked for, and port_allocations is left alone.
CommitCanonicalConfiguration(p) ==
    /\ Live(p)
    /\ lastGood' = [lastGood EXCEPT ![p] = rev[p]]
    /\ DropReservations(p, Revisions)
    /\ UNCHANGED <<stage, rev, canonical, rows, secret, alloc, lease, ops, payload>>

\* The current revision is o's candidate and o still holds the lease it runs under.
OwnsCandidate(p, o, f) ==
    /\ Live(p)
    /\ HoldsLease(p, o, f)
    /\ payload[o] # None /\ payload[o].project = p
    /\ payload[o].rev = rev[p] /\ payload[o].fence = f

RestoredRevision(p) == lastGood[p]

\* Without a caller-visible effect when another revision is current: then the
\* transaction fails, or finds its own earlier restoration.
RestoreConfigurationStateOwned(p, o, f) ==
    /\ OwnsCandidate(p, o, f)
    /\ rows[p][lastGood[p]] # None /\ rows[p][rev[p]] # None
    /\ secret' = [secret EXCEPT ![p] = rows[p][rev[p]].secrets]
    /\ rev' = [rev EXCEPT ![p] = RestoredRevision(p)]
    /\ Project(p, rows[p][lastGood[p]].config)
    /\ rows' = [rows EXCEPT ![p][rev[p]] = None]
    /\ DropReservations(p, {rev[p]})
    /\ lease' = [lease EXCEPT ![p] = None]
    /\ ops' = [ops EXCEPT ![o].phase = "STATE_RESTORED"]
    /\ UNCHANGED <<stage, lastGood, payload>>

MarkConfigurationGoodOwned(p, o, f) ==
    /\ OwnsCandidate(p, o, f)
    /\ rows[p][rev[p]] # None
    /\ lastGood[p] <= rev[p]
    /\ lastGood' = [lastGood EXCEPT ![p] = rev[p]]
    /\ Project(p, rows[p][rev[p]].config)
    /\ DropReservations(p, {rev[p]})
    /\ ops' = [ops EXCEPT ![o].phase = "COMMITTED"]
    /\ UNCHANGED <<stage, rev, rows, secret, lease, payload>>

PublishConfigurationSecret(p, r, s) ==
    /\ Live(p)
    /\ rev[p] = r
    /\ secret' = [secret EXCEPT ![p] = s]
    /\ UNCHANGED <<stage, rev, lastGood, canonical, rows, reserved, alloc, lease, ops, payload>>

\* Neither write asks for the row's present status or phase.
UpdateOperation(o, s) ==
    /\ ops[o] # None
    /\ ops' = [ops EXCEPT ![o].status = s]
    /\ UNCHANGED <<projectVars, reserved, alloc, lease, payload>>

SetOperationCompensation(o, ph) ==
    /\ ops[o] # None
    /\ ops' = [ops EXCEPT ![o].phase = ph]
    /\ UNCHANGED <<projectVars, reserved, alloc, lease, payload>>

-----------------------------------------------------------------------------
(* The owned publication protocol: every step that publishes or withdraws  *)
(* a candidate shows the operation's lease and fence, and admission uses   *)
(* the revision that is current.                                           *)

PortInUse(n) == reserved[n] # None \/ \E q \in Projects, k \in Kinds : alloc[q][k] = n

\* The ports an update asks for: an allocated kind keeps its port, another
\* takes one that no table mentions.  Which free port the scan meets first,
\* and what the host probe answers, is left open.
CandidateMany(p, c) ==
    \A k \in Kinds : c[k] # None =>
        /\ IF alloc[p][k] # None THEN c[k] = alloc[p][k] ELSE ~PortInUse(c[k])
        /\ \A j \in Kinds \ {k} : c[j] # c[k]

\* An update is admitted with the ports CandidateMany chose, a rotation of the
\* database password with the configuration as it is.
Admissible(p) == {canonical[p]} \cup {c \in Configs : CandidateMany(p, c)}

OwnedNext ==
    \/ \E p \in Projects, o \in Ops, m \in Secrets \cup {None} :
          \E c \in Admissible(p) : AdmitConfiguration(p, o, rev[p], c, m)
    \/ \E p \in Projects, o \in Ops : AcquireConfigurationLeaseForOperation(p, o)
    \/ \E p \in Projects : ExpireLease(p)
    \/ \E p \in Projects, o \in Ops, f \in Fences :
          \/ RenewConfigurationLease(p, o, f)
          \/ ReleaseConfigurationLeaseOwned(p, o, f)
          \/ RestoreConfigurationStateOwned(p, o, f)
          \/ MarkConfigurationGoodOwned(p, o, f)
    \/ \E p \in Projects, r \in Revisions, s \in Secrets : PublishConfigurationSecret(p, r, s)
    \/ \E o \in Ops, s \in StatusWrites : UpdateOperation(o, s)
    \/ \E o \in Ops, ph \in PhaseWrites : SetOperationCompensation(o, ph)

OwnedSpec == Init /\ [][OwnedNext]_storeVars

(* Everything the Manager does to these tables: the owned protocol, the    *)
(* canonical commit of ordinary updates, admissions against a revision     *)
(* that is no longer current, creation, installation and deletion.         *)

InstallConfig(p, E) == [k \in Kinds |-> IF k \in E THEN alloc[p][k] ELSE None]

Next ==
    \/ OwnedNext
    \/ \E p \in Projects, o \in Ops, e \in Revisions, m \in Secrets \cup {None} :
          \E c \in Admissible(p) : AdmitConfiguration(p, o, e, c, m)
    \/ \E p \in Projects : CommitCanonicalConfiguration(p)
    \/ \E p \in Projects, s \in Secrets \cup {None} : CreateProject(p, s)
    \/ \E p \in Projects : DeleteProject(p)
    \/ \E p \in Projects, c \in Configs : TryReservePorts(p, c)
    \/ \E p \in Projects, k \in Kinds : canonical[p][k] = None /\ ReleasePort(p, k)
    \/ \E p \in Projects, E \in SUBSET Kinds : PersistAllocatedConfiguration(p, InstallConfig(p, E))

Spec == Init /\ [][Next]_storeVars

-----------------------------------------------------------------------------
(* Properties.                                                             *)

\* The lease of a project belongs to an operation of that project, and the
\* durable command of that operation carries the lease's fence: a worker
\* started from the command never runs under a superseded generation
\* (AcquireConfigurationLeaseForOperation binds the two in one transaction).
LeaseBindsPayload ==
    \A p \in Projects : lease[p] # None =>
        /\ payload[lease[p].owner] # None
        /\ payload[lease[p].owner].project = p
        /\ payload[lease[p].owner].fence = lease[p].fence

\* No admission, restoration, commit or deletion, in any order and by any
\* caller, leaves last_good_revision ahead of config_revision.
LastGoodNotAhead == \A p \in Projects : lastGood[p] <= rev[p]

\* One host port is allocated to one kind of one project, whichever of the
\* installation and configuration transactions wrote the allocation.
PortExclusive ==
    \A p, q \in Projects, j, k \in Kinds :
        alloc[p][j] = alloc[q][k] /\ alloc[p][j] # None => p = q /\ j = k

\* A lease changes hands only with a larger fence, so the token of the
\* earlier holder is refused from then on.
FenceRises ==
    [][\A p \in Projects :
          lease[p] # None /\ lease'[p] # None =>
             \/ lease'[p].fence > lease[p].fence
             \/ lease'[p].fence = lease[p].fence /\ lease'[p].owner = lease[p].owner]_storeVars

\* The configurations the dashboard shows and the Provisioner is to apply give
\* no host port to two projects, whether a candidate is pending, withdrawn or
\* published ("Host ports are allocated without cross-server collisions",
\* docs/operations/project-configuration.md:76).
PortsNeverCollide ==
    \A p, q \in Projects : p # q => PortsOf(canonical[p]) \cap PortsOf(canonical[q]) = {}

=============================================================================
