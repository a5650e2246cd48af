-------------------------- MODULE ConfigurationApply --------------------------
(***************************************************************************)
(* One setting's way from a client of the Manager to the containers of a   *)
(* server: the section handlers and their merges (httpapi/configuration.go,*)
(* project/configuration_service.go), validation (project/configuration.go)*)
(* and secret actions, the hydration of a reconcile request                *)
(* (configuration/orchestrator.go), rendering (render/), and the           *)
(* Provisioner's plan of which services to recreate (affectedServices and  *)
(* the steps around it in runtime/reconcile.go).                           *)
(*                                                                         *)
(* A configuration is the set of its leaves that have their second value:  *)
(* a switch that is on, a string that was edited.  Several leaves of the   *)
(* code that validation, the renderer and the plan treat alike are one.    *)
(* The image of a service is what its container was created with: the      *)
(* leaves and the secrets its rendered definition, its environment and its *)
(* mounted files carry.                                                    *)
(*                                                                         *)
(* The server is installed, and the Manager does not restart: its recovery *)
(* is ConfigurationOrchestrator, the publication of files ServerRuntime.   *)
(***************************************************************************)
EXTENDS Naturals, FiniteSets

CONSTANTS
    Editors,        \* requests that read the configuration before they queue a patch
    Touched,        \* the leaves clients change in this instance
    Values,         \* values of a secret
    InitialConfig, InitialSecret,
    None,
    MaxEdits,       \* bound on admitted patches
    MaxFaults       \* bound on failed commands and Provisioner stops

-----------------------------------------------------------------------------
(* The aggregate.                                                          *)

General == {"siteUrl", "studioUsername", "studioPasswordSet"}
Services == {"services.gateway", "services.auth", "services.rest", "services.meta",
             "services.studio", "services.realtime", "services.storage",
             "services.imgproxy", "services.functions", "services.supavisor",
             "services.logs", "services.directDb"}
Auth == {"auth.enabled", "auth.jwtExpiry", "auth.mailer", "auth.limits", "auth.smtp",
         "auth.smtpPasswordSet", "auth.oauth", "auth.oauthSecretSet"}
Storage == {"storage.object", "storage.keySet"}
Functions == {"functions.verifyJwt", "functions.valueSet"}
Realtime == {"realtime"}
Database == {"database"}
Pooler == {"pooler"}
Network == {"network.kong", "network.caddy", "network.tls"}

Sections == {General, Services, Auth, Storage, Functions, Realtime, Database, Pooler, Network}
Leaves == UNION Sections

Secrets == {"studio", "smtp", "oauth", "storage", "function"}
FlagOf == [studio |-> "studioPasswordSet", smtp |-> "auth.smtpPasswordSet",
           oauth |-> "auth.oauthSecretSet", storage |-> "storage.keySet",
           function |-> "functions.valueSet"]
SecretsOf(section) == {k \in Secrets : FlagOf[k] \in section}
Actions == {"", "retain", "replace", "remove"}

-----------------------------------------------------------------------------
(* Validation.                                                             *)

ServicesValid(c) ==
    /\ "services.studio" \in c => "services.meta" \in c
    /\ c \cap {"services.auth", "services.rest", "services.studio", "services.realtime",
               "services.storage", "services.functions"} # {} => "services.gateway" \in c
    /\ "services.storage" \in c => "services.rest" \in c
    /\ "services.imgproxy" \in c => "services.storage" \in c
    /\ "network.caddy" \in c => "services.gateway" \in c

\* SMTP and OAuth: an enabled feature has a secret, kept or replaced.
FeatureValid(c, on, k, action) ==
    on \in c => action = "replace" \/ (FlagOf[k] \in c /\ action = "retain")

\* Object storage has its key; local storage none, but may carry its removal.
StorageValid(c, action) ==
    IF "storage.object" \in c
      THEN action = "replace" \/ ("storage.keySet" \in c /\ action # "remove")
      ELSE /\ "storage.keySet" \in c => action = "remove"
           /\ action # "" => action = "remove" /\ "storage.keySet" \in c

ValidateConfiguration(c, act) ==
    /\ ServicesValid(c)
    /\ "services.auth" \in c <=> "auth.enabled" \in c
    /\ FeatureValid(c, "auth.smtp", "smtp", act["smtp"])
    /\ FeatureValid(c, "auth.oauth", "oauth", act["oauth"])
    /\ StorageValid(c, act["storage"])

ASSUME ApplyAssumption ==
    /\ Touched \subseteq Leaves /\ None \notin Values
    /\ InitialConfig \subseteq Leaves
    /\ InitialSecret \in [Secrets -> Values \cup {None}]
    /\ \A k \in Secrets : FlagOf[k] \in InitialConfig => InitialSecret[k] # None
    /\ ValidateConfiguration(InitialConfig,
          [k \in Secrets |-> IF FlagOf[k] \in InitialConfig THEN "retain" ELSE ""])
    /\ MaxEdits \in Nat /\ MaxFaults \in Nat

-----------------------------------------------------------------------------
(* Rendering.                                                              *)

\* selectServices and the helper service of the renderer; "site" is the managed
\* Nginx site, which is not a container but is applied from the same request.
Targets == {"db", "api-gw", "auth", "auth-templates", "rest", "meta", "studio", "realtime",
            "storage", "imgproxy", "functions", "supavisor", "analytics", "vector", "caddy",
            "site"}

CapabilityOf ==
    [s \in Targets \ {"db", "caddy", "site"} |->
       CASE s = "api-gw" -> "services.gateway"
         [] s \in {"auth", "auth-templates"} -> "services.auth"
         [] s = "rest" -> "services.rest"
         [] s = "meta" -> "services.meta"
         [] s = "studio" -> "services.studio"
         [] s = "realtime" -> "services.realtime"
         [] s = "storage" -> "services.storage"
         [] s = "imgproxy" -> "services.imgproxy"
         [] s = "functions" -> "services.functions"
         [] s = "supavisor" -> "services.supavisor"
         [] OTHER -> "services.logs"]

enabledServices(c) ==
    {"db"} \cup {s \in DOMAIN CapabilityOf : CapabilityOf[s] \in c}
           \cup (IF "network.caddy" \in c THEN {"caddy"} ELSE {})

\* routeForProxy: a site is managed unless Caddy terminates TLS.
Enabled(c) == enabledServices(c) \cup (IF "network.caddy" \in c THEN {} ELSE {"site"})

\* The leaves in the definition, the environment or the mounts of a service:
\* the variables of the pinned Compose files and what the renderer injects.
Reads ==
    [s \in Targets |->
       CASE s = "db" -> {"database", "services.directDb", "auth.jwtExpiry"}
         [] s = "api-gw" -> {"studioUsername", "network.kong", "network.caddy"}
         [] s = "auth" -> {"siteUrl", "auth.jwtExpiry", "auth.limits", "auth.smtp", "auth.oauth"}
         [] s = "auth-templates" -> {"auth.mailer"}
         [] s = "rest" -> {"auth.jwtExpiry"}
         [] s = "studio" -> {"siteUrl", "services.logs"}
         [] s = "realtime" -> {"realtime"}
         [] s = "storage" -> {"siteUrl", "storage.object", "services.imgproxy"}
         [] s = "functions" -> {"siteUrl", "functions.verifyJwt"}
         [] s = "supavisor" -> {"pooler"}
         [] s = "caddy" -> {"siteUrl", "studioUsername"}
         [] s = "site" -> {"siteUrl", "studioUsername", "services.studio", "network.tls"}
         [] OTHER -> {}]

Carries ==
    [s \in Targets |->
       CASE s \in {"api-gw", "caddy", "site"} -> {"studio"}
         [] s = "auth" -> {"smtp", "oauth"}
         [] s = "storage" -> {"storage"}
         [] s = "functions" -> {"function"}
         [] OTHER -> {}]

\* A release is what one request renders: a configuration and secret values.
Release == [config : SUBSET Leaves, values : [Secrets -> Values \cup {None}]]

Image(s, release) == [leaves |-> Reads[s] \cap release.config,
                      secrets |-> [k \in Carries[s] |-> release.values[k]]]

\* depends_on of the pinned files, pruned to the rendered services; docker
\* compose up brings up what a service needs, directly or not.
DependsOn ==
    {"auth", "rest", "realtime", "storage", "meta", "supavisor", "analytics"} \X {"db"}
        \cup {"storage"} \X {"rest", "imgproxy"}
        \cup {"api-gw", "caddy"} \X {"studio"}
        \cup {"functions", "caddy"} \X {"api-gw"}
        \cup {"studio", "vector"} \X {"analytics"}

WithDependencies(services, c) ==
    LET step(set) == set \cup {t \in enabledServices(c) : \E s \in set : <<s, t>> \in DependsOn}
    IN  step(step(step(step(services))))

\* Mutant: the storage key is not looked up.
HydrateForgetsStorage(c, stored) ==
    LET needed == [studio |-> {"studioPasswordSet"},
                   smtp |-> {"services.auth", "auth.smtp", "auth.smtpPasswordSet"},
                   oauth |-> {"services.auth", "auth.oauth", "auth.oauthSecretSet"},
                   function |-> {"services.functions", "functions.valueSet"}]
    IN  [k \in Secrets |-> IF k \in DOMAIN needed /\ needed[k] \subseteq c THEN stored[k] ELSE None]

\* hydrate sends the secrets of the features that are on.
hydrate(c, stored) ==
    LET needed == [studio |-> {"studioPasswordSet"},
                   smtp |-> {"services.auth", "auth.smtp", "auth.smtpPasswordSet"},
                   oauth |-> {"services.auth", "auth.oauth", "auth.oauthSecretSet"},
                   storage |-> {"services.storage", "storage.keySet"},
                   function |-> {"services.functions", "functions.valueSet"}]
    IN  [k \in Secrets |-> IF needed[k] \subseteq c THEN stored[k] ELSE None]

\* The renderer's own list of secrets it will not render without.
requireRuntimeSecrets(release) ==
    LET required == [smtp |-> {"auth.smtp", "auth.smtpPasswordSet"},
                     oauth |-> {"auth.oauth", "auth.oauthSecretSet"},
                     storage |-> {"services.storage", "storage.object", "storage.keySet"},
                     function |-> {"services.functions", "functions.valueSet"}]
    IN  \A k \in DOMAIN required :
            required[k] \subseteq release.config => release.values[k] # None

Renders(release) == ServicesValid(release.config) /\ requireRuntimeSecrets(release)

-----------------------------------------------------------------------------
(* The plan.                                                               *)

\* Which services a changed leaf marks.
Marks ==
    {"siteUrl"} \X {"auth", "studio", "api-gw"}
        \cup Auth \X {"auth", "auth-templates"}
        \cup Functions \X {"functions"}
        \cup (Realtime \cup {"services.realtime"}) \X {"realtime"}
        \cup (Storage \cup {"services.storage", "services.imgproxy"}) \X {"storage"}
        \cup (Database \cup {"services.directDb"}) \X {"db"}
        \cup (Pooler \cup {"services.supavisor"}) \X {"supavisor"}
        \cup {"network.kong", "network.caddy", "services.gateway"} \X {"api-gw"}
        \cup {"services.logs"} \X {"analytics", "vector"}
        \cup {<<"services.auth", "auth">>, <<"services.rest", "rest">>,
              <<"services.meta", "meta">>, <<"services.functions", "functions">>,
              <<"services.studio", "studio">>}

\* The result is read off a fixed list of names; auth-templates is not on it.
Ordered == Targets \ {"auth-templates", "caddy", "site"}

Changed(before, after) == (before \ after) \cup (after \ before)

\* Mutant: a changed Auth section is not noticed.
AffectedForgetsAuth(before, after) ==
    {s \in Ordered : \E f \in Changed(before, after) \ Auth : <<f, s>> \in Marks}

affectedServices(before, after) ==
    {s \in Ordered : \E f \in Changed(before, after) : <<f, s>> \in Marks}

-----------------------------------------------------------------------------
VARIABLES
    canonical,   \* project_configuration
    secret,      \* project_secrets: the value of each kind, or None
    draft,       \* what a handler read before it queues, or None
    job,         \* the apply that holds the server's lock, or None
    files,       \* the release the generation pointer names
    applied,     \* the release of the last success; its config is in the metadata
    containers,  \* the image each container (or the site) was made from, or None
    edits, faults,
    suspect      \* history: targets an attempt that was neither finished nor
                 \* rolled back may have changed

managerVars == <<canonical, secret, draft, edits>>
runtimeVars == <<files, applied, containers, suspect>>
applyVars == <<canonical, secret, draft, job, files, applied, containers, edits, faults, suspect>>

Parts == {"smtp", "oauth", "tls"}
Draft == [part : Parts, base : SUBSET Leaves]
Stages == {"queued", "publish", "recreate", "add", "verify", "record"}

Job == [stage : Stages, release : Release, before : Release]

ImageSet(s) == [leaves : SUBSET Reads[s], secrets : [Carries[s] -> Values \cup {None}]]

ASSUME NoneAssumption ==
    None \notin Draft /\ None \notin Job /\ \A s \in Targets : None \notin ImageSet(s)

\* Types: every container was made from leaves and secrets its service reads.
ApplyTypeOK ==
    /\ canonical \subseteq Leaves
    /\ secret \in [Secrets -> Values \cup {None}]
    /\ draft \in [Editors -> Draft \cup {None}]
    /\ job \in Job \cup {None}
    /\ files \in Release /\ applied \in Release
    /\ DOMAIN containers = Targets
    /\ \A s \in Targets : containers[s] \in ImageSet(s) \cup {None}
    /\ suspect \subseteq Targets
    /\ edits \in 0..MaxEdits /\ faults \in 0..MaxFaults

InitialRelease == [config |-> InitialConfig, values |-> hydrate(InitialConfig, InitialSecret)]

ApplyInit ==
    /\ canonical = InitialConfig
    /\ secret = InitialSecret
    /\ draft = [e \in Editors |-> None]
    /\ job = None
    /\ files = InitialRelease
    /\ applied = InitialRelease
    /\ containers = [s \in Targets |->
                       IF s \in Enabled(InitialConfig) THEN Image(s, InitialRelease) ELSE None]
    /\ edits = 0 /\ faults = 0
    /\ suspect = {}

-----------------------------------------------------------------------------
(* Patches.  Requests that are refused change nothing.                     *)

\* What an omitted action of a stored secret becomes.
Retained(c) == [k \in Secrets |-> IF FlagOf[k] \in c THEN "retain" ELSE ""]

\* requireExplicitSecretActionsForPatch: a section that says a secret is set
\* says what to do with it.  The general section is not asked to.
Explicit(section, incoming, act) ==
    \A k \in SecretsOf(section) \ {"studio"} : FlagOf[k] \in incoming => act[k] # ""

\* restoreUntouchedSecretActions.
Completed(section, act) ==
    [k \in Secrets |-> IF k \in SecretsOf(section) /\ (k = "studio" => act[k] # "")
                         THEN act[k] ELSE Retained(canonical)[k]]

\* PreparePatch: the section replaces the stored one; the service switches
\* carry auth.enabled with them.
PreparePatch(section, incoming) ==
    LET c == (canonical \ section) \cup incoming
    IN  IF section = Services
          THEN (c \ {"auth.enabled"})
                 \cup (IF "services.auth" \in c THEN {"auth.enabled"} ELSE {})
          ELSE c

\* Mutant: a retained secret is not looked up.
SecretsRetainUnseen(c, act, value) ==
    /\ secret' = [k \in Secrets |-> CASE act[k] = "replace" -> value
                                     [] act[k] = "remove" -> None
                                     [] OTHER -> secret[k]]
    /\ canonical' = (c \ {FlagOf[k] : k \in {k \in Secrets : act[k] = "remove"}})
                      \cup {FlagOf[k] : k \in {k \in Secrets : act[k] = "replace"}}

\* secretMutations, and the admission that writes them with the configuration.
secretMutations(c, act, value) ==
    /\ \A k \in Secrets : act[k] = "retain" => secret[k] # None
    /\ secret' = [k \in Secrets |-> CASE act[k] = "replace" -> value
                                     [] act[k] = "remove" -> None
                                     [] OTHER -> secret[k]]
    /\ canonical' = (c \ {FlagOf[k] : k \in {k \in Secrets : act[k] = "remove"}})
                      \cup {FlagOf[k] : k \in {k \in Secrets : act[k] = "replace"}}

\* QueuePatch under the server's lock, which the job keeps until it ends.
QueuePatch(section, incoming, act, value) ==
    /\ job = None /\ edits < MaxEdits
    /\ Explicit(section, incoming, act)
    /\ ValidateConfiguration(PreparePatch(section, incoming), Completed(section, act))
    /\ secretMutations(PreparePatch(section, incoming), Completed(section, act), value)
    /\ job' = [stage |-> "queued", release |-> files, before |-> files]
    /\ edits' = edits + 1
    /\ UNCHANGED <<faults, runtimeVars>>

\* What a client sends for a section it was shown as "seen": one leaf changed
\* at most, and any action for the secrets this instance touches.
Incoming(seen, section) ==
    {Changed(seen \cap section, flip) : flip \in {{}} \cup {{f} : f \in Touched \cap section}}

ActionsFor(seen, section) ==
    {act \in [SecretsOf(section) -> Actions] :
        \A k \in SecretsOf(section) : FlagOf[k] \notin Touched => act[k] = Retained(seen)[k]}

patch ==
    \E section \in Sections, value \in Values :
        \E incoming \in Incoming(canonical, section), act \in ActionsFor(canonical, section) :
            QueuePatch(section, incoming, act, value) /\ UNCHANGED draft

\* The handlers of one part of a section read the configuration, with no
\* lock, and queue the whole section they built from it.
SectionOf(part) == IF part = "tls" THEN Network ELSE Auth
Own(part) == CASE part = "smtp" -> {"auth.smtp", "auth.smtpPasswordSet"}
               [] part = "oauth" -> {"auth.oauth", "auth.oauthSecretSet"}
               [] part = "tls" -> {"network.tls"}

ReadForMerge(e, part) ==
    /\ draft[e] = None
    /\ part = "tls" => "network.caddy" \notin canonical
    /\ draft' = [draft EXCEPT ![e] = [part |-> part, base |-> canonical \cap SectionOf(part)]]
    /\ UNCHANGED <<canonical, secret, edits, job, faults, runtimeVars>>

\* Mutant: the merge keeps nothing of the section but its switch.
MergeClearsSection(e) ==
    /\ draft[e] # None
    /\ LET part == draft[e].part
           base == draft[e].base
           section == SectionOf(part)
           owned == SecretsOf(Own(part))
       IN  \E own \in Incoming(base, Own(part)), act \in ActionsFor(base, section), value \in Values :
               /\ part = "tls" => own = Own(part)
               /\ \A k \in owned : act[k] = "" => FlagOf[k] \notin base
               /\ \A k \in SecretsOf(section) \ owned : act[k] = Retained(base)[k]
               /\ QueuePatch(section, (base \cap {"auth.enabled"}) \cup own, act, value)
    /\ draft' = [draft EXCEPT ![e] = None]

\* mergeSMTPAuthPatch, mergeOAuthAuthPatch: an omitted action is completed from
\* the base, and so are those of the secrets the part does not own.
QueueMerged(e) ==
    /\ draft[e] # None
    /\ LET part == draft[e].part
           base == draft[e].base
           section == SectionOf(part)
           owned == SecretsOf(Own(part))
       IN  \E own \in Incoming(base, Own(part)), act \in ActionsFor(base, section), value \in Values :
               /\ part = "tls" => own = Own(part)
               /\ \A k \in owned : act[k] = "" => FlagOf[k] \notin base
               /\ \A k \in SecretsOf(section) \ owned : act[k] = Retained(base)[k]
               /\ QueuePatch(section, (base \ Own(part)) \cup own, act, value)
    /\ draft' = [draft EXCEPT ![e] = None]

\* The patch was refused.
DropDraft(e) ==
    /\ draft[e] # None
    /\ draft' = [draft EXCEPT ![e] = None]
    /\ UNCHANGED <<canonical, secret, edits, job, faults, runtimeVars>>

-----------------------------------------------------------------------------
(* The apply.  What Run does around it is ConfigurationOrchestrator.       *)

Requested == [config |-> canonical, values |-> hydrate(canonical, secret)]

\* Run reads the canonical configuration, hydrates it and calls the Provisioner,
\* which renders.  A render error ends the operation; the configuration stays.
Send ==
    /\ job # None /\ job.stage = "queued"
    /\ job' = IF Renders(Requested)
                THEN [job EXCEPT !.stage = "publish", !.release = Requested]
                ELSE None
    /\ UNCHANGED <<managerVars, faults, runtimeVars>>

\* Staging the files or docker compose config failed: nothing was published.
RefuseCandidate ==
    /\ job # None /\ job.stage = "publish" /\ faults < MaxFaults
    /\ job' = None
    /\ faults' = faults + 1
    /\ UNCHANGED <<managerVars, runtimeVars>>

Previous == enabledServices(applied.config)
Wanted == enabledServices(job.release.config)
Disabled == Previous \ Wanted
Added == Wanted \ Previous
Affected == affectedServices(applied.config, job.release.config)

\* The containers once "part" of them are as the candidate wants them.
Toward(part) ==
    [s \in Targets |-> IF s \notin part THEN containers[s]
                       ELSE IF s \in Enabled(job.release.config) THEN Image(s, job.release)
                       ELSE None]

\* --remove-orphans, when docker compose runs at all.
Orphans == Targets \ (Wanted \cup {"site"})
Up(services) == IF services = {} THEN {} ELSE services \cup Orphans

\* up without --force-recreate: the definition of auth-templates never changes,
\* only the directory behind its mount does.
Refreshed(services) ==
    {s \in services : s = "auth-templates" /\ s \in Wanted => containers[s] = None}

AtStage(stage) == job # None /\ job.stage = stage
Advance(stage) ==
    /\ job' = [job EXCEPT !.stage = stage]
    /\ UNCHANGED <<managerVars, faults, applied, suspect>>

\* The services docker compose can name in the generation it is given.
Nameable(services, release) == services \subseteq enabledServices(release.config)

\* The pointer is switched and the services no longer wanted are removed, by
\* the Compose file of the generation that was current.
Publish ==
    /\ AtStage("publish")
    /\ Nameable(Disabled, job.before)
    /\ files' = job.release
    /\ containers' = Toward(Disabled)
    /\ Advance("recreate")

Recreate ==
    /\ AtStage("recreate")
    /\ containers' = Toward(Up(Affected \cap Wanted))
    /\ Advance("add")
    /\ UNCHANGED files

UpSelected ==
    /\ AtStage("add")
    /\ containers' = Toward(Refreshed(Up(WithDependencies(Added, job.release.config))))
    /\ Advance("verify")
    /\ UNCHANGED files

\* The services are healthy and the managed site is applied or removed.
ApplySite ==
    /\ AtStage("verify")
    /\ containers' = Toward({"site"})
    /\ Advance("record")
    /\ UNCHANGED files

\* The targets an apply that succeeded has certainly brought up to date.
Renewed ==
    LET ran == (Affected \cap Wanted) \cup WithDependencies(Added, job.release.config)
    IN  ran \cup Disabled \cup {"site"} \cup (IF ran = {} THEN {} ELSE Orphans)

\* The metadata are published and the operation succeeds.
Record ==
    /\ AtStage("record")
    /\ applied' = job.release
    /\ suspect' = suspect \ Renewed
    /\ job' = None
    /\ UNCHANGED <<managerVars, faults, files, containers>>

-----------------------------------------------------------------------------
(* Failures.                                                               *)

\* What the step under way may have changed when it fails.
UnderWay ==
    LET named == CASE job.stage = "publish" -> Disabled
                   [] job.stage = "recreate" -> Up(Affected \cap Wanted)
                   [] job.stage = "add" -> Refreshed(Up(WithDependencies(Added, job.release.config)))
                   [] job.stage = "verify" -> {"site"}
                   [] OTHER -> {}
        done == Toward(named)
    IN  {s \in named : done[s] # containers[s]}

rollbackServices == (Affected \cup Disabled) \cap Previous

\* After the rollback: added services are removed, the marked and the disabled
\* ones are made again from the previous generation, and a site that was
\* applied is applied again from the previous configuration, but with the
\* passwords of this request.
RolledBack(mid) ==
    [s \in Targets |->
       CASE s = "site" ->
              IF job.stage # "record" THEN mid[s]
              ELSE IF s \in Enabled(applied.config)
                THEN Image(s, [applied EXCEPT !.values = job.release.values])
                ELSE None
         [] s \in rollbackServices -> Image(s, job.before)
         [] s \in Added -> None
         [] OTHER -> IF rollbackServices # {} /\ s \notin enabledServices(job.before.config)
                       THEN None ELSE mid[s]]

\* Mutant: the pointer stays on the candidate.
RollbackKeepsPointer ==
    /\ job # None /\ job.stage # "queued" /\ faults < MaxFaults
    /\ Nameable(rollbackServices, job.before)
    /\ \E part \in SUBSET UnderWay :
          /\ containers' = RolledBack(Toward(part))
          /\ suspect' = suspect \cup (part \cap {"site"})
    /\ job' = None
    /\ faults' = faults + 1
    /\ UNCHANGED <<managerVars, applied, files>>

Rollback ==
    /\ job # None /\ job.stage # "queued" /\ faults < MaxFaults
    /\ Nameable(rollbackServices, job.before)
    /\ \E part \in SUBSET UnderWay :
          /\ containers' = RolledBack(Toward(part))
          /\ suspect' = suspect \cup (part \cap {"site"})
    /\ files' = job.before
    /\ job' = None
    /\ faults' = faults + 1
    /\ UNCHANGED <<managerVars, applied>>

\* The Provisioner stops, or the rollback fails in turn: the pointer names
\* either generation and what was touched is in between.  A service the
\* current Compose file does not name makes both fail, with no other fault.
Abandon ==
    /\ job # None /\ job.stage # "queued"
    /\ IF job.stage = "publish" /\ ~Nameable(Disabled, job.before)
         THEN UNCHANGED faults
         ELSE faults < MaxFaults /\ faults' = faults + 1
    /\ \E part \in SUBSET UnderWay, again \in SUBSET rollbackServices, gone \in {{}, Added} :
          containers' = [s \in Targets |-> IF s \in again THEN Image(s, job.before)
                                           ELSE IF s \in gone THEN None
                                           ELSE Toward(part)[s]]
    /\ files' \in {job.before, job.release}
    /\ suspect' = suspect \cup Affected \cup Disabled \cup Added \cup {"site"}
    /\ job' = None
    /\ UNCHANGED <<managerVars, applied>>

ApplyNext ==
    \/ patch
    \/ \E e \in Editors, part \in Parts : ReadForMerge(e, part)
    \/ \E e \in Editors : QueueMerged(e) \/ DropDraft(e)
    \/ Send \/ RefuseCandidate \/ Publish \/ Recreate \/ UpSelected \/ ApplySite \/ Record
    \/ Rollback \/ Abandon

ApplySpec == ApplyInit /\ [][ApplyNext]_applyVars

-----------------------------------------------------------------------------
(* Properties.                                                             *)

\* A secret the configuration says is set is stored, whatever sequence of
\* retain, replace and remove, by section or by part, led there.  The flag of
\* the Studio password is taken from the client with no action beside it.
SecretBacked == \A k \in Secrets \ {"studio"} : FlagOf[k] \in canonical => secret[k] # None

\* What the Manager admitted the renderer renders: the secrets hydrate sends
\* are those requireRuntimeSecrets asks for.  The exception is a server whose
\* Auth service is off while SMTP or an OAuth provider is still on.
AdmittedRenders ==
    AtStage("queued") =>
        \/ Renders(Requested)
        \/ "services.auth" \notin canonical /\ canonical \cap {"auth.smtp", "auth.oauth"} # {}

\* The leaves that affectedServices does not carry to a service that reads them.
Unplanned(s) ==
    CASE s = "storage" -> {"siteUrl"}
      [] s = "functions" -> {"siteUrl"}
      [] s = "api-gw" -> {"studioUsername"}
      [] s = "caddy" -> {"siteUrl", "studioUsername"}
      [] s \in {"db", "rest"} -> {"auth.jwtExpiry"}
      [] s = "auth-templates" -> {"auth.mailer"}
      [] s = "studio" -> {"services.logs"}
      [] OTHER -> {}

Agrees(s) ==
    IF s \in Enabled(applied.config)
      THEN /\ containers[s] # None
           /\ Changed(containers[s].leaves, Image(s, applied).leaves) \subseteq Unplanned(s)
           /\ \A k \in Carries[s] \ {"studio"} :
                 containers[s].secrets[k] = None <=> applied.values[k] = None
      ELSE containers[s] = None

\* Between applies the runtime is the one of the last success, after any mix
\* of successes and rollbacks: the enabled services run and no other, and each
\* was made from the applied leaves, the unplanned ones apart, with a secret
\* exactly where the applied release has one.  Only what an interrupted apply
\* touched may differ, until an apply recreates it.
RuntimeConverges == job = None => \A s \in Targets \ suspect : Agrees(s)

\* A failed apply can be tried again: unless one was interrupted, the current
\* generation is the one of the last success, so the services to remove are
\* ones its Compose file names.
Retryable == job = None /\ suspect = {} => files = applied

\* A successful apply leaves every service with the configuration and the
\* secrets that were applied ("A successful apply visibly recreates/restarts the
\* required Supabase service containers").  affectedServices does not see to it.
RuntimeMatches ==
    job = None => \A s \in Enabled(applied.config) \ suspect : containers[s] = Image(s, applied)

\* The handler of one part of a section owns that part alone ("The endpoint owns
\* only SMTP", and so for OAuth and TLS): its patch changes nothing else, if the
\* section is still as the handler read it when the patch is admitted.  Without
\* that condition it is false: the handler reads under no lock, QueuePatch checks
\* no revision, and what another request saved to the section in between is set
\* back with no conflict reported.
PartKeepsTheRest ==
    [][\A e \in Editors :
          LET part == draft[e].part
          IN  /\ draft[e] # None /\ draft'[e] = None /\ job' # job
              /\ draft[e].base = canonical \cap SectionOf(part)
              => Changed(canonical, canonical') \subseteq Own(part)]_applyVars
=============================================================================
