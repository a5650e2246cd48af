---------------------------- MODULE ServerRuntime ----------------------------
(***************************************************************************)
(* The Provisioner's side of one server: Reconcile (runtime/reconcile.go)  *)
(* with its rollback, Lifecycle (runtime/backend.go), the project's files  *)
(* (projectfs/root.go), and what they drive: the containers that Docker    *)
(* Compose keeps (compose/runner.go), the database directory mounted into  *)
(* one of them, and the server's site in the Nginx agent.                  *)
(*                                                                         *)
(* A call is one HTTP request of the Manager; each of its commands is a    *)
(* step of its own.  Reconcile holds the project's metadata lock from its  *)
(* first step to its answer.  Lifecycle does not take the lock, except for *)
(* the two file operations of DELETE_DATA.                                 *)
(*                                                                         *)
(* A configuration is the set of services it enables, the settings that    *)
(* affectedServices compares for each service, and the site's route.  A    *)
(* generation of runtime files is the configuration rendered into it.      *)
(***************************************************************************)
EXTENDS Naturals, FiniteSets

CONSTANTS
    Services,    \* Compose services
    Database,    \* the one called db
    Core,        \* the services that START brings up after the database
    Helpers,     \* services affectedServices never lists (auth-templates, imgproxy)
    DependsOn,   \* Compose's depends_on
    Configs,     \* complete canonical configurations
    Callers,     \* the Manager's goroutines
    Keys,        \* idempotency keys
    None,
    MaxFaults    \* bound on commands that fail of themselves and on restarts

Routes == {g.route : g \in Configs} \ {None}
Settings == UNION {{g.set[s] : s \in Services} : g \in Configs}

VARIABLES
    meta,      \* None, or project.json: the published state and the stored outcomes
    tree,      \* the project's directory, see Trees
    pgdata,    \* what volumes/db holds, see DataStates
    current,   \* the generation the runtime pointer selects
    cont,      \* containers, by service
    site,      \* the route the Nginx agent serves, or None
    call,      \* the call each goroutine has at the Provisioner
    holder,    \* the call that holds the metadata lock
    faults,    \* failures so far
    disturbed  \* history: something happened after which the code promises less,
               \* see the actions that set it

files == <<meta, tree, pgdata, current>>
runtime == <<pgdata, current, cont, site>>
rtVars == <<meta, tree, pgdata, current, cont, site, call, holder, faults, disturbed>>

\* The directory is absent, holds project.json alone, is complete, or has
\* lost volumes/db and with it the marker that staging looks for.
Trees == {"absent", "record", "full", "headless"}

\* The database directory is empty, or was initialised in part, or in full.
DataStates == {"empty", "partial", "ready"}

\* What Reconcile and Lifecycle answer.  A failed Reconcile says whether the
\* runtime was changed and whether the rollback undid that.
Answers == {"ok", "unchanged", "undone", "broken", "error"}

Kinds == {"RECONCILE", "START", "STOP", "RESTART", "DELETE_RUNTIME", "DELETE_DATA"}

ApplySteps == {"begin", "stage", "commit", "retire", "down", "wipe", "seed",
               "database", "verify", "dependents", "recreate", "added",
               "health", "proxy", "publish"}
UndoSteps == {"u.clean", "u.wipe", "u.seed", "u.restore", "u.recreate",
              "u.health", "u.proxy", "fail"}
LifeSteps == {"begin", "verify", "services", "down", "proxy", "purge"}

NoConfig == [on |-> {}, set |-> [s \in Services |-> None], route |-> None]
NewMetadata == [published |-> FALSE, cfg |-> NoConfig, keys |-> [k \in Keys |-> None]]

Records ==
    [published : BOOLEAN, cfg : Configs \cup {NoConfig}, keys : [Keys -> Answers \cup {None}]]

Container(g, s) == [set |-> g.set[s], up |-> TRUE]
Containers == {None} \cup [set : Settings, up : BOOLEAN]

Call ==
    [kind : Kinds, cfg : Configs \cup {None}, key : Keys \cup {None},
     at : ApplySteps \cup UndoSteps \cup LifeSteps \cup {"answered"},
     was : Configs \cup {None}, committed : BOOLEAN, proxied : BOOLEAN, stored : BOOLEAN,
     clean : BOOLEAN, answer : Answers \cup {None}]

\* The Compose definition of a helper does not depend on the configuration
\* (render/render.go 170 for the templates; the template has imgproxy's).
ASSUME RuntimeAssumption ==
    /\ Database \in Services /\ Core \subseteq Services \ {Database}
    /\ Helpers \subseteq Services \ {Database}
    /\ DependsOn \in [Services -> SUBSET Services]
    /\ \A g \in Configs : /\ DOMAIN g = {"on", "set", "route"}
                          /\ Database \in g.on /\ g.on \subseteq Services
                          /\ DOMAIN g.set = Services
    /\ \A g, h \in Configs : \A s \in Helpers : g.set[s] = h.set[s]
    /\ MaxFaults \in Nat
    /\ None \notin Callers \cup Configs \cup Records \cup Call \cup [set : Settings, up : BOOLEAN]

\* The metadata a reader gets: UpdateMetadataWithRollback starts from a fresh
\* record when there is no project.json.
Metadata == IF meta = None THEN NewMetadata ELSE meta

\* metadata.EnabledServices; a record that was never published has none.
previousServices == Metadata.cfg.on

affectedServices(before, after) ==
    {s \in Services \ Helpers : before.set[s] # after.set[s] \/ (s \in before.on) # (s \in after.on)}

-----------------------------------------------------------------------------
(***************************************************************************)
(* Docker Compose.  Each operator is the containers after a command ran to *)
(* its end.                                                                *)
(***************************************************************************)
Created(g, S) == [s \in Services |-> IF s \in S THEN Container(g, s) ELSE cont[s]]

\* --remove-orphans
WithoutOrphans(containers, g) ==
    [s \in Services |-> IF s \in g.on THEN containers[s] ELSE None]

\* up -d --remove-orphans
Recreated(g, S) == WithoutOrphans(Created(g, S), g)

WithDependencies(g, S) == S \cup ((UNION {DependsOn[s] : s \in S}) \cap g.on)

Removed(S) == [s \in Services |-> IF s \in S THEN None ELSE cont[s]]

AllUp(up) == [s \in Services |-> IF cont[s] = None THEN None ELSE [cont[s] EXCEPT !.up = up]]

\* health.Inspector.Project reports HEALTHY.
Healthy(S) == \A s \in S : cont[s] # None /\ cont[s].up

\* The pinned image initialises an empty PGDATA once, from the SQL files
\* mounted into it, and never looks at an initialised one again.
Initialised ==
    IF pgdata # "empty" THEN pgdata ELSE IF tree = "full" THEN "ready" ELSE "partial"

-----------------------------------------------------------------------------
(***************************************************************************)
(* Calls.                                                                  *)
(***************************************************************************)
Active(c) == call[c] # None /\ call[c].at # "answered"
At(c, kind, at) == call[c] # None /\ call[c].kind = kind /\ call[c].at = at

NewCall(kind, cfg, key) ==
    [kind |-> kind, cfg |-> cfg, key |-> key, at |-> "begin", was |-> None,
     committed |-> FALSE, proxied |-> FALSE, stored |-> TRUE, clean |-> TRUE,
     answer |-> None]

\* The call goes on with the step "at", or ends when "at" is an answer.
Advance(r, at) ==
    IF at \in Answers THEN [r EXCEPT !.at = "answered", !.answer = at] ELSE [r EXCEPT !.at = at]

Goto(c, at) == call' = [call EXCEPT ![c] = Advance(@, at)]

\* The same, when it is a step of a rollback that failed.
Unclean(c, at) == call' = [call EXCEPT ![c] = [Advance(@, at) EXCEPT !.clean = FALSE]]

Fault == faults < MaxFaults /\ faults' = faults + 1
NoFault == UNCHANGED faults

\* A Compose command leaves "to" behind, or fails with part of it done.
Partly(to) == {[s \in Services |-> IF s \in T THEN to[s] ELSE cont[s]] : T \in SUBSET Services}

Command(c, to, next, failed) ==
    \/ cont' = to /\ Goto(c, next) /\ NoFault
    \/ cont' \in Partly(to) /\ Goto(c, failed) /\ Fault

\* The commands that are given a set of services, and not run for none.
CommandFor(c, S, to, next, failed) ==
    IF S = {} THEN Goto(c, next) /\ UNCHANGED <<cont, faults>> ELSE Command(c, to, next, failed)

-----------------------------------------------------------------------------
(***************************************************************************)
(* Reconcile.                                                              *)
(***************************************************************************)
Rec(c, at) == At(c, "RECONCILE", at)

\* Mutant: a server without containers is taken for one that was never installed.
BootstrapUnstarted == \A s \in Services : cont[s] = None

Bootstrap == ~Metadata.published /\ previousServices = {}
disabled(c) == previousServices \ call[c].cfg.on
added(c) == call[c].cfg.on \ previousServices

\* Mutant: the outcome is looked up without the lock being kept.
BeginUnlocked(c) ==
    /\ Rec(c, "begin") /\ holder = None
    /\ LET stored == Metadata.keys[call[c].key] IN Goto(c, IF stored # None THEN stored ELSE "stage")
    /\ UNCHANGED <<files, cont, site, faults, holder, disturbed>>

\* An outcome stored under the key is answered again, without Docker work.
BeginReconcile(c) ==
    /\ Rec(c, "begin") /\ holder = None
    /\ LET stored == Metadata.keys[call[c].key] IN
         IF stored # None
         THEN Goto(c, stored) /\ UNCHANGED holder
         ELSE Goto(c, "stage") /\ holder' = c
    /\ UNCHANGED <<files, cont, site, faults, disturbed>>

\* Staging completes an absent directory, or one that holds project.json
\* alone, and refuses one that has lost volumes/db.  (Neither an installation
\* nor an ordinary apply sends a fence, so no fence is claimed before.)
StageRuntimeFilesWithRef(c) ==
    /\ Rec(c, "stage")
    /\ \/ tree # "headless" /\ tree' = "full" /\ Goto(c, "commit") /\ NoFault
       \/ tree = "headless" /\ UNCHANGED tree /\ Goto(c, "fail") /\ NoFault
       \/ /\ tree' \in {tree} \cup IF tree = "record" THEN {"headless"} ELSE {}
          /\ Goto(c, "fail") /\ Fault
    /\ UNCHANGED <<meta, runtime, holder, disturbed>>

\* Validate and the pointer switch; a commit that fails may have switched.
CommitPointer(c) ==
    /\ Rec(c, "commit")
    /\ \/ /\ current' = call[c].cfg /\ NoFault
          /\ call' = [call EXCEPT ![c].at = "retire", ![c].was = current, ![c].committed = TRUE]
       \/ /\ Fault /\ current' \in {current, call[c].cfg}
          /\ call' = [call EXCEPT ![c].at = "u.restore", ![c].was = current]
    /\ UNCHANGED <<meta, tree, pgdata, cont, site, holder, disturbed>>

RemoveDisabled(c) ==
    /\ Rec(c, "retire")
    /\ CommandFor(c, disabled(c), Removed(disabled(c)),
                  IF Bootstrap THEN "down" ELSE "recreate", "u.clean")
    /\ UNCHANGED <<files, site, holder, disturbed>>

BootstrapDown(c) ==
    /\ Rec(c, "down") /\ Command(c, Removed(Services), "wipe", "u.clean")
    /\ UNCHANGED <<files, site, holder, disturbed>>

\* ResetInitialDatabase, in two steps: volumes/db is removed, then written
\* again from the embedded template; and the configuration volume is removed.
ResetInitialDatabase(c) ==
    /\ \/ Rec(c, "wipe") /\ Goto(c, "seed")
       \/ Rec(c, "u.wipe") /\ Goto(c, "u.seed")
    /\ tree' = "headless" /\ pgdata' = "empty"
    /\ UNCHANGED <<meta, current, cont, site, holder, faults, disturbed>>

SeedDatabase(c) ==
    /\ Rec(c, "seed")
    /\ \/ tree' = "full" /\ Goto(c, "database") /\ NoFault
       \/ Fault /\ tree' \in {tree, "full"} /\ Goto(c, "u.clean")
    /\ UNCHANGED <<meta, runtime, holder, disturbed>>

\* up -d --wait db: the database can become healthy with a partial bootstrap.
UpDatabase(c, next, failed) ==
    /\ cont' = Created(current, {Database})
    /\ \/ pgdata' = Initialised /\ Goto(c, next) /\ NoFault
       \/ pgdata = "empty" /\ pgdata' = "partial" /\ Goto(c, next) /\ Fault
       \/ pgdata # "empty" /\ UNCHANGED pgdata /\ Goto(c, failed) /\ Fault

BootstrapDatabase(c) ==
    /\ Rec(c, "database") /\ UpDatabase(c, "verify", "u.clean")
    /\ UNCHANGED <<meta, tree, current, site, holder, disturbed>>

\* Mutant: a database that is healthy is taken for one that is complete.
VerifyDatabaseHealthy(c, next, failed) ==
    \/ Healthy({Database}) /\ Goto(c, next) /\ NoFault
    \/ ~Healthy({Database}) /\ Goto(c, failed) /\ NoFault
    \/ Fault /\ Goto(c, failed)

\* VerifyDatabaseBootstrap and SynchronizeDatabaseRolePasswords.
VerifyDatabaseBootstrap(c, next, failed) ==
    \/ Healthy({Database}) /\ pgdata = "ready" /\ Goto(c, next) /\ NoFault
    \/ ~(Healthy({Database}) /\ pgdata = "ready") /\ Goto(c, failed) /\ NoFault
    \/ Fault /\ Goto(c, failed)

BootstrapVerify(c) ==
    /\ Rec(c, "verify") /\ VerifyDatabaseBootstrap(c, "dependents", "u.clean")
    /\ UNCHANGED <<files, cont, site, holder, disturbed>>

BootstrapDependents(c) ==
    LET g == call[c].cfg IN
    /\ Rec(c, "dependents")
    /\ Command(c, Recreated(g, g.on), "health", "u.clean")
    /\ UNCHANGED <<files, site, holder, disturbed>>

RecreateAffected(c) ==
    LET g == call[c].cfg
        affected == affectedServices(Metadata.cfg, g) \cap g.on
    IN
    /\ Rec(c, "recreate")
    /\ CommandFor(c, affected, Recreated(g, affected), "added", "u.clean")
    /\ UNCHANGED <<files, site, holder, disturbed>>

UpAdded(c) ==
    LET g == call[c].cfg IN
    /\ Rec(c, "added")
    /\ CommandFor(c, added(c), Recreated(g, WithDependencies(g, added(c))), "health", "u.clean")
    /\ UNCHANGED <<files, site, holder, disturbed>>

waitHealthy(c) ==
    /\ Rec(c, "health")
    /\ \/ Healthy(call[c].cfg.on) /\ Goto(c, "proxy") /\ NoFault
       \/ ~Healthy(call[c].cfg.on) /\ Goto(c, "u.clean") /\ NoFault
       \/ Fault /\ Goto(c, "u.clean")
    /\ UNCHANGED <<files, cont, site, holder, disturbed>>

\* The site is applied, or removed when there was one.  An agent whose answer
\* is lost has changed the site, and the call does not know.
ApplyProxy(c) ==
    LET route == call[c].cfg.route
        needed == route # None \/ Metadata.cfg.route # None
    IN
    /\ Rec(c, "proxy")
    /\ \/ ~needed /\ Goto(c, "publish") /\ NoFault /\ UNCHANGED <<site, disturbed>>
       \/ /\ needed /\ site' = route /\ NoFault /\ UNCHANGED disturbed
          /\ call' = [call EXCEPT ![c].at = "publish", ![c].proxied = TRUE]
       \/ needed /\ Fault /\ Goto(c, "u.clean") /\ UNCHANGED <<site, disturbed>>
       \/ /\ needed /\ Fault /\ Goto(c, "u.clean")
          /\ site' = route /\ disturbed' = TRUE
    /\ UNCHANGED <<files, cont, holder>>

Publish(c) ==
    /\ Rec(c, "publish")
    /\ \/ /\ meta' = [published |-> TRUE, cfg |-> call[c].cfg,
                      keys |-> [Metadata.keys EXCEPT ![call[c].key] = "ok"]]
          /\ Goto(c, "ok") /\ holder' = None /\ NoFault
       \/ /\ call' = [call EXCEPT ![c].at = "u.clean", ![c].stored = FALSE]
          /\ Fault /\ UNCHANGED <<meta, holder>>
    /\ UNCHANGED <<tree, runtime, disturbed>>

-----------------------------------------------------------------------------
(***************************************************************************)
(* Rollback of a Reconcile.  It runs without the deadline of the request.  *)
(***************************************************************************)

\* A first installation is taken down and its database is discarded; of a
\* later one only the added services are removed.
CleanCandidate(c) ==
    /\ Rec(c, "u.clean")
    /\ LET first == previousServices = {}
           gone == IF first THEN Services ELSE added(c)
           next == IF first THEN "u.wipe" ELSE "u.restore"
       IN \/ cont' = Removed(gone) /\ Goto(c, next) /\ NoFault
          \/ gone # {} /\ cont' \in Partly(Removed(gone)) /\ Unclean(c, next) /\ Fault
    /\ UNCHANGED <<files, site, holder, disturbed>>

ReseedDatabase(c) ==
    /\ Rec(c, "u.seed")
    /\ \/ tree' = "full" /\ Goto(c, "u.restore") /\ NoFault
       \/ tree' \in {tree, "full"} /\ Unclean(c, "u.restore") /\ Fault
    /\ UNCHANGED <<meta, runtime, holder, disturbed>>

RestorePointer(c) ==
    /\ Rec(c, "u.restore")
    /\ \/ /\ current' = call[c].was /\ NoFault
          /\ Goto(c, IF call[c].committed THEN "u.recreate" ELSE "fail")
       \/ UNCHANGED current /\ Unclean(c, "fail") /\ Fault
    /\ UNCHANGED <<meta, tree, pgdata, cont, site, holder, disturbed>>

rollbackServices(c) ==
    (affectedServices(Metadata.cfg, call[c].cfg) \cup disabled(c)) \cap previousServices

RecreatePrevious(c) ==
    /\ Rec(c, "u.recreate")
    /\ LET services == rollbackServices(c)
           to == Recreated(call[c].was, services)
       IN \/ services = {} /\ UNCHANGED cont /\ Goto(c, "u.health") /\ NoFault
          \/ services # {} /\ cont' = to /\ Goto(c, "u.health") /\ NoFault
          \/ services # {} /\ cont' \in Partly(to) /\ Unclean(c, "fail") /\ Fault
    /\ UNCHANGED <<files, site, holder, disturbed>>

PreviousHealthy(c) ==
    /\ Rec(c, "u.health")
    /\ \/ /\ call[c].clean /\ Healthy(rollbackServices(c))
          /\ Goto(c, "u.proxy") /\ NoFault
       \/ /\ ~(call[c].clean /\ Healthy(rollbackServices(c)))
          /\ call' = [call EXCEPT ![c].at = "fail", ![c].clean = FALSE] /\ NoFault
       \/ rollbackServices(c) # {} /\ Unclean(c, "fail") /\ Fault
    /\ UNCHANGED <<files, cont, site, holder, disturbed>>

\* Mutant: the rollback leaves the site of the candidate.
RestoreNoProxy(c) ==
    /\ Rec(c, "u.proxy") /\ Goto(c, "fail")
    /\ UNCHANGED <<files, cont, site, holder, faults, disturbed>>

RestoreProxy(c) ==
    /\ Rec(c, "u.proxy")
    /\ \/ ~call[c].proxied /\ Goto(c, "fail") /\ NoFault /\ UNCHANGED site
       \/ call[c].proxied /\ site' = Metadata.cfg.route /\ Goto(c, "fail") /\ NoFault
       \/ /\ call[c].proxied /\ site' \in {site, Metadata.cfg.route}
          /\ Unclean(c, "fail") /\ Fault
    /\ UNCHANGED <<files, cont, holder, disturbed>>

Outcome(c) ==
    IF ~call[c].committed THEN "unchanged" ELSE IF call[c].clean THEN "undone" ELSE "broken"

\* The outcome is stored under the key, unless project.json cannot be written.
FailReconcile(c) ==
    /\ Rec(c, "fail")
    /\ Goto(c, Outcome(c)) /\ holder' = None
    /\ \/ /\ call[c].stored /\ meta' = [Metadata EXCEPT !.keys[call[c].key] = Outcome(c)]
          /\ tree' = (IF tree = "absent" THEN "record" ELSE tree) /\ NoFault
       \/ ~call[c].stored /\ UNCHANGED <<meta, tree>> /\ NoFault
       \/ call[c].stored /\ UNCHANGED <<meta, tree>> /\ Fault
    /\ disturbed' = (disturbed \/ ~call[c].clean)
    /\ UNCHANGED runtime

Reconcile(c) ==
    \/ BeginReconcile(c) \/ StageRuntimeFilesWithRef(c) \/ CommitPointer(c)
    \/ RemoveDisabled(c) \/ BootstrapDown(c) \/ ResetInitialDatabase(c) \/ SeedDatabase(c)
    \/ BootstrapDatabase(c) \/ BootstrapVerify(c) \/ BootstrapDependents(c)
    \/ RecreateAffected(c) \/ UpAdded(c) \/ waitHealthy(c) \/ ApplyProxy(c) \/ Publish(c)
    \/ CleanCandidate(c) \/ ReseedDatabase(c) \/ RestorePointer(c) \/ RecreatePrevious(c)
    \/ PreviousHealthy(c) \/ RestoreProxy(c) \/ FailReconcile(c)

-----------------------------------------------------------------------------
(***************************************************************************)
(* Lifecycle.                                                              *)
(***************************************************************************)
Life(c, kind, at) == At(c, kind, at) /\ UNCHANGED holder

\* Without a selected generation Compose has no file to work from.
NoRuntime(c) ==
    /\ \E kind \in {"START", "STOP", "RESTART"} : Life(c, kind, "begin")
    /\ current = None /\ Goto(c, "error")
    /\ UNCHANGED <<files, cont, site, faults, disturbed>>

Start(c) ==
    \/ /\ Life(c, "START", "begin") /\ current # None
       /\ UpDatabase(c, "verify", "error")
       /\ UNCHANGED <<meta, tree, current, site, disturbed>>
    \/ /\ Life(c, "START", "verify")
       /\ VerifyDatabaseBootstrap(c, "services", "error")
       /\ UNCHANGED <<files, cont, site, disturbed>>
    \/ /\ Life(c, "START", "services")
       /\ IF current # None /\ Core \subseteq current.on
          THEN Command(c, Created(current, WithDependencies(current, Core)), "ok", "error")
          ELSE Goto(c, "error") /\ UNCHANGED <<cont, faults>>
       /\ UNCHANGED <<files, site, disturbed>>

Stop(c) ==
    /\ Life(c, "STOP", "begin") /\ current # None
    /\ Command(c, AllUp(FALSE), "ok", "error")
    /\ UNCHANGED <<files, site, disturbed>>

\* Compose restarts the containers that exist; the helper is then created.
Restart(c) ==
    \/ /\ Life(c, "RESTART", "begin") /\ current # None
       /\ Command(c, AllUp(TRUE), "services", "error")
       /\ UNCHANGED <<files, site, disturbed>>
    \/ /\ Life(c, "RESTART", "services")
       /\ IF current # None /\ Core \cap Helpers \subseteq current.on
          THEN Command(c, Created(current, WithDependencies(current, Core \cap Helpers)), "ok", "error")
          ELSE Goto(c, "error") /\ UNCHANGED <<cont, faults>>
       /\ UNCHANGED <<files, site, disturbed>>

\* Mutant: the runtime is taken down with its volumes.
DeleteRuntimeAndVolumes(c) ==
    /\ Life(c, "DELETE_RUNTIME", "begin")
    /\ Command(c, Removed(Services), "ok", "error")
    /\ pgdata' = "empty"
    /\ UNCHANGED <<meta, tree, current, site, disturbed>>

\* DownRuntime falls back on the labels of the containers, so it needs no file.
DeleteRuntime(c) ==
    /\ Life(c, "DELETE_RUNTIME", "begin")
    /\ Command(c, Removed(Services), "ok", "error")
    /\ UNCHANGED <<files, site, disturbed>>

\* Reading the metadata and removing the directory each wait for the lock;
\* the containers and the site are removed between them without it.
DeleteData(c) ==
    \/ /\ Life(c, "DELETE_DATA", "begin") /\ holder = None /\ Goto(c, "down")
       /\ UNCHANGED <<files, cont, site, faults, disturbed>>
    \/ /\ Life(c, "DELETE_DATA", "down")
       /\ Command(c, Removed(Services), "proxy", "error")
       /\ UNCHANGED <<files, site, disturbed>>
    \/ /\ Life(c, "DELETE_DATA", "proxy")
       /\ \/ site' = None /\ Goto(c, "purge") /\ NoFault /\ UNCHANGED disturbed
          \/ site' \in {site, None} /\ Goto(c, "error") /\ Fault /\ disturbed' = TRUE
       /\ UNCHANGED <<files, cont>>
    \/ /\ Life(c, "DELETE_DATA", "purge") /\ holder = None
       /\ \/ /\ meta' = None /\ tree' = "absent" /\ pgdata' = "empty" /\ current' = None
             /\ Goto(c, "ok") /\ NoFault /\ UNCHANGED disturbed
          \/ Goto(c, "error") /\ Fault /\ disturbed' = TRUE /\ UNCHANGED files
       /\ UNCHANGED <<cont, site>>

Lifecycle(c) ==
    NoRuntime(c) \/ Start(c) \/ Stop(c) \/ Restart(c) \/ DeleteRuntime(c) \/ DeleteData(c)

\* The Provisioner restarts: its calls end without an answer of theirs.
Crash ==
    /\ Fault /\ \E c \in Callers : Active(c)
    /\ call' = [c \in Callers |-> IF Active(c) THEN Advance(call[c], "error") ELSE call[c]]
    /\ holder' = None /\ disturbed' = TRUE
    /\ UNCHANGED <<files, cont, site>>

Provisioner(c) == Reconcile(c) \/ Lifecycle(c)

Quiet ==
    /\ call = [c \in Callers |-> None] /\ holder = None
    /\ faults = 0 /\ disturbed = FALSE

RuntimeInit ==
    /\ meta = None /\ tree = "absent" /\ pgdata = "empty" /\ current = None
    /\ cont = [s \in Services |-> None] /\ site = None
    /\ Quiet

\* The state a first Reconcile of g leaves behind.
InstalledInit(g) ==
    /\ meta = [NewMetadata EXCEPT !.published = TRUE, !.cfg = g]
    /\ tree = "full" /\ pgdata = "ready" /\ current = g
    /\ cont = [s \in Services |-> IF s \in g.on THEN Container(g, s) ELSE None]
    /\ site = g.route
    /\ Quiet

-----------------------------------------------------------------------------
\* The type of every variable; only a Reconcile on its way holds the lock.
RuntimeTypeOK ==
    /\ meta \in Records \cup {None}
    /\ meta # None => (meta.published <=> meta.cfg # NoConfig)
    /\ tree \in Trees /\ pgdata \in DataStates
    /\ current \in Configs \cup {None}
    /\ cont \in [Services -> Containers]
    /\ site \in Routes \cup {None}
    /\ call \in [Callers -> Call \cup {None}]
    /\ holder # None <=> \E c \in Callers : Active(c) /\ call[c].kind = "RECONCILE" /\ call[c].at # "begin"
    /\ faults \in 0..MaxFaults /\ disturbed \in BOOLEAN
=============================================================================
