---------------------- MODULE ConfigurationApplyProofs ----------------------
(***************************************************************************)
(* Proofs about ConfigurationApply, for any initial configuration, any     *)
(* leaves clients touch, any number of editors, and any bounds.            *)
(***************************************************************************)
EXTENDS ConfigurationApply, TLAPS

\* A draft holds leaves of the section it was read from.
DraftsFit ==
    \A e \in Editors : draft[e] # None => draft[e].base \subseteq SectionOf(draft[e].part)

TypeInv == ApplyTypeOK /\ DraftsFit

-----------------------------------------------------------------------------
(* The aggregate.                                                          *)

LEMMA BoundFacts ==
    /\ \A n \in 0..MaxEdits : n < MaxEdits => n + 1 \in 0..MaxEdits
    /\ \A n \in 0..MaxFaults : n < MaxFaults => n + 1 \in 0..MaxFaults
    /\ 0 \in 0..MaxEdits /\ 0 \in 0..MaxFaults
<1>1. MaxEdits \in Nat /\ MaxFaults \in Nat
  BY ApplyAssumption, Zenon
<1> QED
  BY <1>1

LEMMA SectionFacts ==
    /\ \A section \in Sections : section \subseteq Leaves
    /\ \A part \in Parts : SectionOf(part) \in Sections /\ Own(part) \subseteq SectionOf(part)
    /\ Network # Services /\ Auth # Services
<1>1. \A section \in Sections : section \subseteq Leaves
  BY Zenon DEF Leaves
<1>2. Auth \in Sections /\ Network \in Sections
  BY Zenon DEF Sections
<1>3. \A part \in Parts : SectionOf(part) \in Sections
  BY <1>2, Zenon DEF SectionOf
<1>4. \A part \in Parts : Own(part) \subseteq SectionOf(part)
  BY DEF Parts, Own, SectionOf, Auth, Network
<1>5. "network.tls" \in Network /\ "auth.smtp" \in Auth
  BY DEF Network, Auth
<1>6. "network.tls" \notin Services /\ "auth.smtp" \notin Services
  BY DEF Services
<1> QED
  BY <1>1, <1>3, <1>4, <1>5, <1>6

LEMMA FlagFacts ==
    /\ \A k \in Secrets : FlagOf[k] \in Leaves
    /\ \A k, l \in Secrets : FlagOf[k] = FlagOf[l] => k = l
    /\ \A k \in Secrets : FlagOf[k] # "auth.enabled"
<1>1. \A k \in Secrets : \E section \in Sections : FlagOf[k] \in section
  <2>1. \A k \in Secrets : FlagOf[k] \in General \cup Auth \cup Storage \cup Functions
    BY DEF Secrets, FlagOf, General, Auth, Storage, Functions
  <2>2. General \in Sections /\ Auth \in Sections /\ Storage \in Sections /\ Functions \in Sections
    BY Zenon DEF Sections
  <2> QED
    BY <2>1, <2>2, Zenon
<1>2. \A k \in Secrets : FlagOf[k] \in Leaves
  BY <1>1, Zenon DEF Leaves
<1>3. \A k, l \in Secrets : FlagOf[k] = FlagOf[l] => k = l
  BY DEF Secrets, FlagOf
<1>4. \A k \in Secrets : FlagOf[k] # "auth.enabled"
  BY DEF Secrets, FlagOf
<1> QED
  BY <1>2, <1>3, <1>4

\* What a client sends for a section stays in the section.
LEMMA IncomingFits ==
    ASSUME NEW seen, NEW section, NEW incoming \in Incoming(seen, section)
    PROVE  incoming \subseteq section
BY DEF Incoming, Changed

LEMMA CarriesSecrets == \A s \in Targets : Carries[s] \subseteq Secrets
BY DEF Carries, Targets, Secrets

\* What a release renders for a service is an image of it.
LEMMA ImageTyped ==
    ASSUME NEW s \in Targets, NEW r \in Release
    PROVE  Image(s, r) \in ImageSet(s) /\ Image(s, r) # None
<1>1. r.config \subseteq Leaves /\ r.values \in [Secrets -> Values \cup {None}]
  BY DEF Release
<1>2. [k \in Carries[s] |-> r.values[k]] \in [Carries[s] -> Values \cup {None}]
  BY <1>1, CarriesSecrets
<1>3. Reads[s] \cap r.config \in SUBSET Reads[s]
  OBVIOUS
<1> QED
  BY <1>2, <1>3, NoneAssumption DEF Image, ImageSet

LEMMA HydrateTyped ==
    ASSUME NEW c, NEW stored \in [Secrets -> Values \cup {None}]
    PROVE  hydrate(c, stored) \in [Secrets -> Values \cup {None}]
BY Zenon DEF hydrate

-----------------------------------------------------------------------------
(* An admitted patch.                                                      *)

\* An admission leaves every flag with its secret, whatever the actions.
LEMMA PatchKeeps ==
    ASSUME TypeInv, SecretBacked,
           NEW section \in Sections, NEW incoming \in SUBSET section,
           NEW act \in [SecretsOf(section) -> Actions], NEW value \in Values,
           QueuePatch(section, incoming, act, value)
    PROVE  /\ canonical' \subseteq Leaves
           /\ secret' \in [Secrets -> Values \cup {None}]
           /\ job' \in Job
           /\ SecretBacked'
<1> DEFINE all == Completed(section, act)
           c == PreparePatch(section, incoming)
<1>1. c \subseteq Leaves
  <2>1. canonical \subseteq Leaves /\ incoming \subseteq Leaves
    BY SectionFacts DEF TypeInv, ApplyTypeOK
  <2>2. section = Services => "auth.enabled" \in Leaves
    <3>1. "auth.enabled" \in Auth
      BY DEF Auth
    <3>2. Auth \subseteq Leaves
      BY Zenon DEF Leaves, Sections
    <3> QED
      BY <3>1, <3>2
  <2> QED
    BY <2>1, <2>2 DEF PreparePatch
<1>2. /\ canonical' = (c \ {FlagOf[k] : k \in {k \in Secrets : all[k] = "remove"}})
                        \cup {FlagOf[k] : k \in {k \in Secrets : all[k] = "replace"}}
      /\ secret' = [k \in Secrets |-> CASE all[k] = "replace" -> value
                                        [] all[k] = "remove" -> None
                                        [] OTHER -> secret[k]]
      /\ \A k \in Secrets : all[k] = "retain" => secret[k] # None
  BY DEF QueuePatch, secretMutations
<1>3. canonical' \subseteq Leaves
  BY <1>1, <1>2, FlagFacts
<1>4. secret' \in [Secrets -> Values \cup {None}]
  <2> HIDE DEF all, c
  <2> QED
    BY <1>2 DEF TypeInv, ApplyTypeOK
<1>5. job' \in Job
  BY DEF QueuePatch, Job, Stages, TypeInv, ApplyTypeOK
<1>6. ASSUME NEW k \in Secrets \ {"studio"}, FlagOf[k] \in canonical' PROVE secret'[k] # None
  <2>1. all[k] = IF k \in SecretsOf(section) THEN act[k] ELSE Retained(canonical)[k]
    BY DEF Completed
  <2>2. all[k] \in Actions
    BY <2>1 DEF Retained, Actions
  <2>3. all[k] # "remove"
    <3>1. ASSUME all[k] = "remove" PROVE FALSE
      <4>1. PICK l \in Secrets : all[l] = "replace" /\ FlagOf[k] = FlagOf[l]
        BY <1>2, <1>6, <3>1
      <4> QED
        BY <3>1, <4>1, FlagFacts
    <3> QED
      BY <3>1
  <2>4. all[k] # ""
    <3>1. ASSUME all[k] = "" PROVE FALSE
      <4>1. \A l \in Secrets : all[l] = "replace" => FlagOf[k] # FlagOf[l]
        BY <3>1, FlagFacts
      <4>2. FlagOf[k] \in c
        BY <1>2, <1>6, <4>1
      <4>3. FlagOf[k] \in incoming \/ FlagOf[k] \in canonical \ section
        BY <4>2, FlagFacts DEF PreparePatch
      <4>4. k \in SecretsOf(section) <=> FlagOf[k] \in section
        BY DEF SecretsOf
      <4>5. CASE FlagOf[k] \in incoming
        BY <3>1, <4>4, <4>5, <2>1 DEF QueuePatch, Explicit
      <4>6. CASE FlagOf[k] \in canonical \ section
        BY <3>1, <4>4, <4>6, <2>1 DEF Retained
      <4> QED
        BY <4>3, <4>5, <4>6
    <3> QED
      BY <3>1
  <2>5. CASE all[k] = "replace"
    <3>1. secret'[k] = value
      BY <1>2, <2>5
    <3> QED
      BY <3>1, ApplyAssumption
  <2>6. CASE all[k] = "retain"
    <3>1. secret'[k] = secret[k]
      BY <1>2, <2>6
    <3> QED
      BY <1>2, <2>6, <3>1
  <2> QED
    BY <2>2, <2>3, <2>4, <2>5, <2>6 DEF Actions
<1> QED
  BY <1>3, <1>4, <1>5, <1>6 DEF SecretBacked

\* The patch of the handler of one part, as QueuePatch sees it.
LEMMA MergedPatch ==
    ASSUME TypeInv, NEW e \in Editors, QueueMerged(e)
    PROVE  /\ draft[e] \in Draft
           /\ \E own \in SUBSET Own(draft[e].part),
                 act \in [SecretsOf(SectionOf(draft[e].part)) -> Actions], value \in Values :
                /\ \A k \in SecretsOf(SectionOf(draft[e].part)) \ SecretsOf(Own(draft[e].part)) :
                      act[k] = Retained(draft[e].base)[k]
                /\ (draft[e].base \ Own(draft[e].part)) \cup own \subseteq SectionOf(draft[e].part)
                /\ QueuePatch(SectionOf(draft[e].part),
                              (draft[e].base \ Own(draft[e].part)) \cup own, act, value)
<1>1. draft[e] \in Draft
  BY DEF QueueMerged, TypeInv, ApplyTypeOK
<1>2. draft[e].part \in Parts
  BY <1>1 DEF Draft
<1> DEFINE part == draft[e].part
           base == draft[e].base
<1>3. PICK own \in Incoming(base, Own(part)), act \in ActionsFor(base, SectionOf(part)),
           value \in Values :
          /\ \A k \in SecretsOf(SectionOf(part)) \ SecretsOf(Own(part)) : act[k] = Retained(base)[k]
          /\ QueuePatch(SectionOf(part), (base \ Own(part)) \cup own, act, value)
  BY Zenon DEF QueueMerged
<1>4. own \subseteq Own(part)
  BY IncomingFits
<1>5. (base \ Own(part)) \cup own \subseteq SectionOf(part)
  BY <1>2, <1>4, SectionFacts DEF QueueMerged, TypeInv, DraftsFit
<1>6. act \in [SecretsOf(SectionOf(part)) -> Actions]
  BY DEF ActionsFor
<1> QED
  BY <1>1, <1>3, <1>4, <1>5, <1>6, Zenon

-----------------------------------------------------------------------------
(* Types, and flags with their secrets.                                    *)

\* The actions that move an apply on, or end it, and leave the Manager's
\* tables and the drafts alone.
ApplyStep ==
    \/ Send \/ RefuseCandidate \/ Publish \/ Recreate \/ UpSelected \/ ApplySite \/ Record
    \/ Rollback \/ Abandon

\* What the candidate's steps make of the containers are images.
LEMMA TowardTyped ==
    ASSUME TypeInv, job \in Job, NEW part
    PROVE  /\ DOMAIN Toward(part) = Targets
           /\ \A s \in Targets : Toward(part)[s] \in ImageSet(s) \cup {None}
<1>1. job.release \in Release
  BY DEF Job
<1>2. \A s \in Targets : Image(s, job.release) \in ImageSet(s)
  BY <1>1, ImageTyped
<1> QED
  BY <1>2 DEF Toward, TypeInv, ApplyTypeOK

LEMMA RolledBackTyped ==
    ASSUME TypeInv, job \in Job, NEW part
    PROVE  /\ DOMAIN RolledBack(Toward(part)) = Targets
           /\ \A s \in Targets : RolledBack(Toward(part))[s] \in ImageSet(s) \cup {None}
<1>1. job.release \in Release /\ job.before \in Release
  BY DEF Job
<1> DEFINE again == [applied EXCEPT !.values = job.release.values]
<1>2. again \in Release
  BY <1>1 DEF Release, TypeInv, ApplyTypeOK
<1>3. \A s \in Targets : Image(s, job.before) \in ImageSet(s) /\ Image(s, again) \in ImageSet(s)
  BY <1>1, <1>2, ImageTyped
<1>4. \A s \in Targets : Toward(part)[s] \in ImageSet(s) \cup {None}
  BY TowardTyped
<1> DEFINE mid == Toward(part)
<1> HIDE DEF mid, again
<1>5. DOMAIN RolledBack(mid) = Targets
  BY DEF RolledBack
<1>6. ASSUME NEW s \in Targets PROVE RolledBack(mid)[s] \in {mid[s], Image(s, again), Image(s, job.before), None}
  BY DEF RolledBack, again
<1> QED
  BY <1>3, <1>4, <1>5, <1>6 DEF mid

LEMMA ApplyStepTyped ==
    ASSUME TypeInv, ApplyStep
    PROVE  /\ job' \in Job \cup {None} /\ files' \in Release /\ applied' \in Release
           /\ DOMAIN containers' = Targets
           /\ \A s \in Targets : containers'[s] \in ImageSet(s) \cup {None}
           /\ suspect' \subseteq Targets /\ faults' \in 0..MaxFaults
           /\ UNCHANGED managerVars
<1>1. job \in Job
  BY DEF ApplyStep, Send, RefuseCandidate, Publish, Recreate, UpSelected, ApplySite, Record,
         Rollback, Abandon, AtStage, TypeInv, ApplyTypeOK
<1>2. job.release \in Release /\ job.before \in Release
  BY <1>1 DEF Job
<1>3. \A stage \in Stages : [job EXCEPT !.stage = stage] \in Job
  BY <1>1 DEF Job
<1>4. files \in Release /\ applied \in Release /\ suspect \subseteq Targets /\ faults \in 0..MaxFaults
  BY DEF TypeInv, ApplyTypeOK
<1>5. /\ DOMAIN containers = Targets
      /\ \A s \in Targets : containers[s] \in ImageSet(s) \cup {None}
  BY DEF TypeInv, ApplyTypeOK
<1>6. CASE Send
  <2>1. Requested \in Release
    BY HydrateTyped DEF Requested, Release, TypeInv, ApplyTypeOK
  <2>2. [job EXCEPT !.stage = "publish", !.release = Requested] \in Job
    BY <1>1, <2>1 DEF Job, Stages
  <2> QED
    BY <1>6, <1>4, <1>5, <2>2 DEF Send, runtimeVars
<1>7. CASE RefuseCandidate
  BY <1>7, <1>4, <1>5, BoundFacts DEF RefuseCandidate, runtimeVars
<1>8. CASE Publish \/ Recreate \/ UpSelected \/ ApplySite
  <2>1. PICK stage, part :
            /\ stage \in Stages /\ Advance(stage)
            /\ containers' = Toward(part) /\ files' \in {files, job.release}
    BY <1>8 DEF Publish, Recreate, UpSelected, ApplySite, Stages
  <2> QED
    BY <2>1, <1>1, <1>2, <1>3, <1>4, TowardTyped DEF Advance
<1>9. CASE Record
  BY <1>9, <1>2, <1>4, <1>5 DEF Record
<1>10. CASE Rollback
  <2>1. PICK part : containers' = RolledBack(Toward(part)) /\ suspect' = suspect \cup (part \cap {"site"})
    BY <1>10 DEF Rollback
  <2>2. "site" \in Targets
    BY DEF Targets
  <2>3. faults' \in 0..MaxFaults
    BY <1>10, <1>4, BoundFacts DEF Rollback
  <2> QED
    BY <1>10, <1>1, <1>2, <1>4, <2>1, <2>2, <2>3, RolledBackTyped DEF Rollback
<1>11. CASE Abandon
  <2>1. PICK part \in SUBSET UnderWay, again \in SUBSET rollbackServices, gone \in {{}, Added} :
            containers' = [s \in Targets |-> IF s \in again THEN Image(s, job.before)
                                             ELSE IF s \in gone THEN None
                                             ELSE Toward(part)[s]]
    BY <1>11, Zenon DEF Abandon
  <2>2. \A s \in Targets : Image(s, job.before) \in ImageSet(s)
    BY <1>2, ImageTyped
  <2>3. /\ DOMAIN containers' = Targets
        /\ \A s \in Targets : containers'[s] \in ImageSet(s) \cup {None}
    BY <2>1, <2>2, <1>1, TowardTyped
  <2>4. faults' \in 0..MaxFaults
    BY <1>11, <1>4, BoundFacts DEF Abandon
  <2>5. suspect' \subseteq Targets
    <3>1. Affected \subseteq Targets
      BY DEF Affected, affectedServices, Ordered
    <3>2. "db" \in Targets /\ "caddy" \in Targets /\ "site" \in Targets
      BY DEF Targets
    <3>3. DOMAIN CapabilityOf \subseteq Targets
      BY DEF CapabilityOf
    <3>4. \A c : enabledServices(c) \subseteq Targets
      BY <3>2, <3>3 DEF enabledServices
    <3>5. Disabled \subseteq Targets /\ Added \subseteq Targets
      BY <3>4 DEF Disabled, Added, Previous, Wanted
    <3> QED
      BY <1>11, <1>4, <3>1, <3>2, <3>5 DEF Abandon
  <2> QED
    BY <1>11, <1>2, <1>4, <2>3, <2>4, <2>5 DEF Abandon
<1> QED
  BY <1>6, <1>7, <1>8, <1>9, <1>10, <1>11 DEF ApplyStep

\* Types and the flags are kept together: what is retained was stored.
LEMMA BaseNext ==
    ASSUME TypeInv, SecretBacked, [ApplyNext]_applyVars
    PROVE  TypeInv' /\ SecretBacked'
<1>1. CASE patch
  <2>1. PICK section \in Sections, value \in Values :
           \E incoming \in Incoming(canonical, section), act \in ActionsFor(canonical, section) :
              QueuePatch(section, incoming, act, value) /\ UNCHANGED draft
    BY <1>1, Zenon DEF patch
  <2>2. PICK incoming \in Incoming(canonical, section), act \in ActionsFor(canonical, section) :
              QueuePatch(section, incoming, act, value) /\ UNCHANGED draft
    BY <2>1, Zenon
  <2>3. incoming \in SUBSET section
    BY IncomingFits
  <2>4. act \in [SecretsOf(section) -> Actions]
    BY DEF ActionsFor
  <2>5. /\ canonical' \subseteq Leaves
        /\ secret' \in [Secrets -> Values \cup {None}]
        /\ job' \in Job
        /\ SecretBacked'
    BY <2>2, <2>3, <2>4, PatchKeeps
  <2>6. edits' \in 0..MaxEdits /\ UNCHANGED <<draft, faults, runtimeVars>>
    BY <2>2, BoundFacts DEF QueuePatch, TypeInv, ApplyTypeOK
  <2> QED
    BY <2>5, <2>6 DEF TypeInv, ApplyTypeOK, DraftsFit, runtimeVars
<1>2. ASSUME NEW e \in Editors, NEW part \in Parts, ReadForMerge(e, part)
      PROVE  TypeInv' /\ SecretBacked'
  <2> DEFINE d == [part |-> part, base |-> canonical \cap SectionOf(part)]
  <2>1. d \in Draft /\ d.base \subseteq SectionOf(d.part)
    BY DEF Draft, TypeInv, ApplyTypeOK
  <2>2. draft' = [draft EXCEPT ![e] = d] /\ UNCHANGED <<canonical, secret, edits, job, faults, runtimeVars>>
    BY <1>2 DEF ReadForMerge
  <2> HIDE DEF d
  <2> QED
    BY <2>1, <2>2 DEF TypeInv, ApplyTypeOK, DraftsFit, runtimeVars, SecretBacked
<1>3. ASSUME NEW e \in Editors, QueueMerged(e) PROVE TypeInv' /\ SecretBacked'
  <2> DEFINE section == SectionOf(draft[e].part)
  <2>1. draft[e].part \in Parts
    BY <1>3, MergedPatch DEF Draft
  <2>2. PICK own \in SUBSET Own(draft[e].part), act \in [SecretsOf(section) -> Actions], value \in Values :
            /\ (draft[e].base \ Own(draft[e].part)) \cup own \subseteq section
            /\ QueuePatch(section, (draft[e].base \ Own(draft[e].part)) \cup own, act, value)
    BY <1>3, MergedPatch
  <2>3. section \in Sections
    BY <2>1, SectionFacts
  <2>4. /\ canonical' \subseteq Leaves
        /\ secret' \in [Secrets -> Values \cup {None}]
        /\ job' \in Job
        /\ SecretBacked'
    BY <2>2, <2>3, PatchKeeps
  <2>5. edits' \in 0..MaxEdits /\ UNCHANGED <<faults, runtimeVars>>
    BY <2>2, BoundFacts DEF QueuePatch, TypeInv, ApplyTypeOK
  <2>6. draft' = [draft EXCEPT ![e] = None]
    BY <1>3 DEF QueueMerged
  <2> QED
    BY <2>4, <2>5, <2>6 DEF TypeInv, ApplyTypeOK, DraftsFit, runtimeVars
<1>4. ASSUME NEW e \in Editors, DropDraft(e) PROVE TypeInv' /\ SecretBacked'
  BY <1>4 DEF DropDraft, TypeInv, ApplyTypeOK, DraftsFit, runtimeVars, SecretBacked
<1>5. CASE ApplyStep
  BY <1>5, ApplyStepTyped DEF TypeInv, ApplyTypeOK, DraftsFit, SecretBacked, managerVars
<1>6. CASE UNCHANGED applyVars
  BY <1>6 DEF applyVars, TypeInv, ApplyTypeOK, DraftsFit, SecretBacked
<1> QED
  BY <1>1, <1>2, <1>3, <1>4, <1>5, <1>6 DEF ApplyNext, ApplyStep

LEMMA BaseInit == ApplyInit => TypeInv /\ SecretBacked
<1> SUFFICES ASSUME ApplyInit PROVE TypeInv /\ SecretBacked
  OBVIOUS
<1>1. InitialRelease \in Release
  BY HydrateTyped, ApplyAssumption DEF InitialRelease, Release
<1>2. \A s \in Targets : containers[s] \in ImageSet(s) \cup {None}
  BY <1>1, ImageTyped DEF ApplyInit
<1>3. /\ InitialConfig \subseteq Leaves
      /\ InitialSecret \in [Secrets -> Values \cup {None}]
      /\ \A k \in Secrets : FlagOf[k] \in InitialConfig => InitialSecret[k] # None
  BY ApplyAssumption, Zenon
<1> QED
  BY <1>1, <1>2, <1>3, BoundFacts DEF ApplyInit, TypeInv, ApplyTypeOK, DraftsFit, SecretBacked

LEMMA BaseAlways == ApplySpec => [](TypeInv /\ SecretBacked)
<1>1. TypeInv /\ SecretBacked /\ [ApplyNext]_applyVars => (TypeInv /\ SecretBacked)'
  BY BaseNext
<1> QED
  BY <1>1, BaseInit, PTL DEF ApplySpec

\* The variables keep their types under every handler, step and failure.
THEOREM TypeCorrect == ApplySpec => []ApplyTypeOK
<1>1. TypeInv /\ SecretBacked => ApplyTypeOK
  BY DEF TypeInv
<1> QED
  BY <1>1, BaseAlways, PTL

\* A flag of the configuration has its secret in the store after any number
\* of patches of sections and parts, with any mix of secret actions, from any
\* number of handlers that work from what they read earlier.
THEOREM FlagsAreBacked == ApplySpec => []SecretBacked
<1>1. TypeInv /\ SecretBacked => SecretBacked
  OBVIOUS
<1> QED
  BY <1>1, BaseAlways, PTL

-----------------------------------------------------------------------------
(* Admission and rendering.                                                *)

\* Validation of the switches does not look at the flags of secrets.
LEMMA ValidDespiteFlags ==
    ASSUME NEW c, NEW d, ServicesValid(c),
           \A f : (f \in c <=> f \in d) \/ \E k \in Secrets : f = FlagOf[k]
    PROVE  ServicesValid(d)
<1>1. \A k \in Secrets : FlagOf[k] \in {"studioPasswordSet", "auth.smtpPasswordSet",
         "auth.oauthSecretSet", "storage.keySet", "functions.valueSet"}
  BY DEF Secrets, FlagOf
<1>2. \A f \in Services \cup {"network.caddy"} : f \in c <=> f \in d
  <2>1. \A f \in Services \cup {"network.caddy"} :
            f \notin {"studioPasswordSet", "auth.smtpPasswordSet", "auth.oauthSecretSet",
                      "storage.keySet", "functions.valueSet"}
    BY DEF Services
  <2> QED
    BY <1>1, <2>1
<1>3. \A f \in {"services.auth", "services.rest", "services.studio", "services.realtime",
               "services.storage", "services.functions", "services.meta", "services.gateway",
               "services.imgproxy", "network.caddy"} : f \in c <=> f \in d
  BY <1>2 DEF Services
<1> QED
  BY <1>3 DEF ServicesValid

\* A configuration that was admitted is valid as it is stored.
LEMMA PatchValid ==
    ASSUME NEW section, NEW incoming, NEW act, NEW value,
           QueuePatch(section, incoming, act, value)
    PROVE  ServicesValid(canonical')
<1> DEFINE c == PreparePatch(section, incoming)
           all == Completed(section, act)
<1>1. ServicesValid(c)
  BY DEF QueuePatch, ValidateConfiguration
<1>2. canonical' = (c \ {FlagOf[k] : k \in {k \in Secrets : all[k] = "remove"}})
                      \cup {FlagOf[k] : k \in {k \in Secrets : all[k] = "replace"}}
  BY DEF QueuePatch, secretMutations
<1> HIDE DEF c, all
<1>3. \A f : (f \in c <=> f \in canonical') \/ \E k \in Secrets : f = FlagOf[k]
  BY <1>2
<1> QED
  BY <1>1, <1>3, ValidDespiteFlags

LEMMA ValidNext ==
    ASSUME TypeInv, ServicesValid(canonical), [ApplyNext]_applyVars
    PROVE  ServicesValid(canonical)'
<1>1. CASE \E section, incoming, act, value : QueuePatch(section, incoming, act, value)
  <2>1. ServicesValid(canonical')
    BY <1>1, PatchValid
  <2> QED
    BY <2>1 DEF ServicesValid
<1>2. CASE UNCHANGED canonical
  BY <1>2 DEF ServicesValid
<1>3. CASE patch
  BY <1>3, <1>1, Zenon DEF patch
<1>4. ASSUME NEW e \in Editors, QueueMerged(e) PROVE ServicesValid(canonical)'
  BY <1>4, <1>1, MergedPatch
<1>5. CASE ApplyStep
  BY <1>5, <1>2, ApplyStepTyped DEF managerVars
<1> QED
  BY <1>2, <1>3, <1>4, <1>5 DEF ApplyNext, ApplyStep, ReadForMerge, DropDraft, applyVars

\* What hydrate sends is what requireRuntimeSecrets asks for.
LEMMA HydratedRenders ==
    ASSUME TypeInv, SecretBacked, ServicesValid(canonical),
           ~("services.auth" \notin canonical /\ canonical \cap {"auth.smtp", "auth.oauth"} # {})
    PROVE  Renders(Requested)
<1> DEFINE v == hydrate(canonical, secret)
<1>1. /\ {"services.auth", "auth.smtp", "auth.smtpPasswordSet"} \subseteq canonical => v["smtp"] = secret["smtp"]
      /\ {"services.auth", "auth.oauth", "auth.oauthSecretSet"} \subseteq canonical => v["oauth"] = secret["oauth"]
      /\ {"services.storage", "storage.keySet"} \subseteq canonical => v["storage"] = secret["storage"]
      /\ {"services.functions", "functions.valueSet"} \subseteq canonical => v["function"] = secret["function"]
  BY DEF hydrate, Secrets
<1>2. /\ "auth.smtpPasswordSet" \in canonical => secret["smtp"] # None
      /\ "auth.oauthSecretSet" \in canonical => secret["oauth"] # None
      /\ "storage.keySet" \in canonical => secret["storage"] # None
      /\ "functions.valueSet" \in canonical => secret["function"] # None
  BY DEF SecretBacked, Secrets, FlagOf
<1> HIDE DEF v
<1>3. /\ {"auth.smtp", "auth.smtpPasswordSet"} \subseteq canonical => v["smtp"] # None
      /\ {"auth.oauth", "auth.oauthSecretSet"} \subseteq canonical => v["oauth"] # None
      /\ {"services.storage", "storage.object", "storage.keySet"} \subseteq canonical => v["storage"] # None
      /\ {"services.functions", "functions.valueSet"} \subseteq canonical => v["function"] # None
  BY <1>1, <1>2
<1>4. requireRuntimeSecrets([config |-> canonical, values |-> v])
  BY <1>3 DEF requireRuntimeSecrets
<1> QED
  BY <1>4 DEF Renders, Requested, v

\* Every configuration the Manager admits renders, for any sequence of
\* patches: the Manager's hydrate and the renderer's requireRuntimeSecrets
\* agree but for SMTP and OAuth on a server whose Auth service is off.
THEOREM AdmittedIsRenderable == ApplySpec => []AdmittedRenders
<1> DEFINE Inv == TypeInv /\ SecretBacked /\ ServicesValid(canonical)
<1>1. ApplyInit => Inv
  <2>1. ServicesValid(InitialConfig)
    BY ApplyAssumption, Zenon DEF ValidateConfiguration
  <2> QED
    BY <2>1, BaseInit DEF ApplyInit
<1>2. Inv /\ [ApplyNext]_applyVars => Inv'
  BY BaseNext, ValidNext
<1>3. Inv => AdmittedRenders
  BY HydratedRenders DEF AdmittedRenders
<1> QED
  BY <1>1, <1>2, <1>3, PTL DEF ApplySpec

-----------------------------------------------------------------------------
(* The generation pointer.                                                 *)

\* The pointer names the generation before the apply until it is published,
\* the candidate from then on, and the generation before is the applied one
\* unless an apply was interrupted.
PointerInv ==
    /\ (job = None /\ suspect = {}) => files = applied
    /\ (job # None /\ job.stage \in {"queued", "publish"}) =>
          (files = job.before /\ (suspect = {} => files = applied))
    /\ (job # None /\ job.stage \notin {"queued", "publish"}) =>
          (files = job.release /\ (suspect = {} => job.before = applied))

LEMMA PointerNext ==
    ASSUME TypeInv, PointerInv, [ApplyNext]_applyVars
    PROVE  PointerInv'
<1>1. ASSUME NEW section, NEW incoming, NEW act, NEW value,
             QueuePatch(section, incoming, act, value)
      PROVE  PointerInv'
  BY <1>1 DEF QueuePatch, PointerInv, runtimeVars
<1>2. CASE UNCHANGED <<job, files, applied, suspect>>
  BY <1>2 DEF PointerInv
<1>3. CASE patch
  BY <1>3, <1>1, Zenon DEF patch
<1>4. ASSUME NEW e \in Editors, QueueMerged(e) PROVE PointerInv'
  BY <1>4, <1>1, MergedPatch
<1>5. CASE ApplyStep
  <2>1. job \in Job
    BY <1>5 DEF ApplyStep, Send, RefuseCandidate, Publish, Recreate, UpSelected, ApplySite, Record,
           Rollback, Abandon, AtStage, TypeInv, ApplyTypeOK
  <2>2. CASE Send
    <3>1. job.stage = "queued" /\ UNCHANGED <<files, applied, suspect>>
      BY <2>2 DEF Send, runtimeVars
    <3>2. job' = None \/ job' = [job EXCEPT !.stage = "publish", !.release = Requested]
      BY <2>2 DEF Send
    <3>3. [job EXCEPT !.stage = "publish", !.release = Requested].before = job.before
      BY <2>1 DEF Job
    <3>4. [job EXCEPT !.stage = "publish", !.release = Requested].stage = "publish"
      BY <2>1 DEF Job
    <3> QED
      BY <2>1, <3>1, <3>2, <3>3, <3>4, NoneAssumption DEF PointerInv
  <2>3. CASE RefuseCandidate \/ Record \/ Rollback
    BY <2>1, <2>3, NoneAssumption DEF RefuseCandidate, Record, Rollback, AtStage, runtimeVars, PointerInv
  <2>4. CASE Abandon
    BY <2>4 DEF Abandon, PointerInv
  <2>5. CASE Publish \/ Recreate \/ UpSelected \/ ApplySite
    <3>1. PICK stage \in {"recreate", "add", "verify", "record"} : Advance(stage)
      BY <2>5 DEF Publish, Recreate, UpSelected, ApplySite
    <3>2. job' \in Job /\ job'.stage = stage /\ job'.before = job.before /\ job'.release = job.release
      BY <2>1, <3>1 DEF Advance, Job, Stages
    <3>3. files' = job.release
      BY <2>1, <2>5, NoneAssumption DEF Publish, Recreate, UpSelected, ApplySite, AtStage, PointerInv
    <3>4. suspect = {} => job.before = applied
      BY <2>1, <2>5, NoneAssumption DEF Publish, Recreate, UpSelected, ApplySite, AtStage, PointerInv
    <3>5. UNCHANGED <<applied, suspect>>
      BY <3>1 DEF Advance
    <3> QED
      BY <3>2, <3>3, <3>4, <3>5, NoneAssumption DEF PointerInv
  <2> QED
    BY <1>5, <2>2, <2>3, <2>4, <2>5 DEF ApplyStep
<1> QED
  BY <1>2, <1>3, <1>4, <1>5
     DEF ApplyNext, ApplyStep, ReadForMerge, DropDraft, applyVars, runtimeVars

\* A failed apply can always be tried again from the generation of the last
\* success, unless one was interrupted, for any number of failures.
THEOREM FailureIsRetryable == ApplySpec => []Retryable
<1>1. ApplyInit => TypeInv /\ SecretBacked /\ PointerInv
  BY BaseInit DEF ApplyInit, PointerInv
<1>2. TypeInv /\ SecretBacked /\ PointerInv /\ [ApplyNext]_applyVars
        => (TypeInv /\ SecretBacked /\ PointerInv)'
  BY BaseNext, PointerNext
<1>3. TypeInv /\ SecretBacked /\ PointerInv => Retryable
  BY DEF PointerInv, Retryable
<1> QED
  BY <1>1, <1>2, <1>3, PTL DEF ApplySpec

-----------------------------------------------------------------------------
(* The handlers of one part.                                               *)

LEMMA MergedKeeps ==
    ASSUME TypeInv, NEW e \in Editors, QueueMerged(e)
    PROVE  Changed(canonical, canonical') \subseteq
              Own(draft[e].part) \cup Changed(canonical \cap SectionOf(draft[e].part), draft[e].base)
<1> DEFINE part == draft[e].part
           base == draft[e].base
           section == SectionOf(part)
<1>1. part \in Parts /\ draft[e] # None
  BY MergedPatch DEF Draft, QueueMerged
<1>2. PICK own \in SUBSET Own(part), act \in [SecretsOf(section) -> Actions], value \in Values :
          /\ \A k \in SecretsOf(section) \ SecretsOf(Own(part)) : act[k] = Retained(base)[k]
          /\ QueuePatch(section, (base \ Own(part)) \cup own, act, value)
  BY MergedPatch
<1>3. section # Services
  BY <1>1, SectionFacts DEF SectionOf, Parts
<1>4. base \subseteq section /\ Own(part) \subseteq section
  BY <1>1, SectionFacts DEF TypeInv, DraftsFit
<1> DEFINE c == (canonical \ section) \cup ((base \ Own(part)) \cup own)
           all == Completed(section, act)
<1>5. canonical' = (c \ {FlagOf[k] : k \in {k \in Secrets : all[k] = "remove"}})
                      \cup {FlagOf[k] : k \in {k \in Secrets : all[k] = "replace"}}
  BY <1>2, <1>3 DEF QueuePatch, secretMutations, PreparePatch
<1>6. ASSUME NEW k \in Secrets, all[k] \in {"remove", "replace"} PROVE FlagOf[k] \in Own(part)
  <2>1. \A d : Retained(d)[k] \in {"retain", ""}
    BY DEF Retained
  <2>2. k \in SecretsOf(section) /\ all[k] = act[k]
    BY <1>6, <2>1 DEF Completed
  <2>3. k \in SecretsOf(Own(part))
    BY <1>2, <1>6, <2>1, <2>2
  <2> QED
    BY <2>3 DEF SecretsOf
<1> HIDE DEF all, section, base, part
<1>7. \A f : f \notin Own(part) => (f \in canonical' <=> f \in c)
  BY <1>5, <1>6
<1>8. \A f : f \notin Own(part) => (f \in c <=> (IF f \in section THEN f \in base ELSE f \in canonical))
  BY <1>4
<1>9. Changed(canonical, canonical') \subseteq Own(part) \cup Changed(canonical \cap section, base)
  BY <1>7, <1>8 DEF Changed
<1> QED
  BY <1>9 DEF section, base, part

\* The SMTP, OAuth and TLS handlers change their own part and nothing else when
\* nobody saved the section since they read it, for any number of them at work.
THEOREM PartsKeepTheRest == ApplySpec => PartKeepsTheRest
<1>1. TypeInv /\ SecretBacked /\ [ApplyNext]_applyVars =>
        [\A e \in Editors :
          LET part == draft[e].part
          IN  /\ draft[e] # None /\ draft'[e] = None /\ job' # job
              /\ draft[e].base = canonical \cap SectionOf(part)
              => Changed(canonical, canonical') \subseteq Own(part)]_applyVars
  <2> SUFFICES ASSUME TypeInv, ApplyNext, NEW e \in Editors,
                      draft[e] # None, draft'[e] = None, job' # job,
                      draft[e].base = canonical \cap SectionOf(draft[e].part)
               PROVE  Changed(canonical, canonical') \subseteq Own(draft[e].part)
    BY Zenon
  <2>1. ~patch
    BY DEF patch
  <2>2. ~ApplyStep
    BY ApplyStepTyped DEF managerVars
  <2>3. \A g \in Editors : ~DropDraft(g) /\ \A part \in Parts : ~ReadForMerge(g, part)
    BY DEF DropDraft, ReadForMerge
  <2>4. PICK g \in Editors : QueueMerged(g)
    BY <2>1, <2>2, <2>3 DEF ApplyNext, ApplyStep
  <2>5. draft' = [draft EXCEPT ![g] = None]
    BY <2>4 DEF QueueMerged
  <2>6. g = e
    BY <2>5 DEF TypeInv, ApplyTypeOK
  <2>7. Changed(canonical, canonical') \subseteq
          Own(draft[e].part) \cup Changed(canonical \cap SectionOf(draft[e].part), draft[e].base)
    BY <2>4, <2>6, MergedKeeps
  <2>8. Changed(canonical \cap SectionOf(draft[e].part), draft[e].base) = {}
    BY DEF Changed
  <2> QED
    BY <2>7, <2>8
<1> QED
  BY <1>1, BaseAlways, PTL DEF ApplySpec, PartKeepsTheRest

-----------------------------------------------------------------------------
(* The runtime and the plan.                                               *)

\* An image that is as good as the release's own: Agrees for any release.
Fits(s, image, release) ==
    IF s \in Enabled(release.config)
      THEN /\ image # None
           /\ Changed(image.leaves, Image(s, release).leaves) \subseteq Unplanned(s)
           /\ \A k \in Carries[s] \ {"studio"} :
                 image.secrets[k] = None <=> release.values[k] = None
      ELSE image = None

\* Two releases that the plan may take for each other at a service.
Alike(s, one, other) ==
    /\ s \in Enabled(one.config) <=> s \in Enabled(other.config)
    /\ s \in Enabled(one.config) =>
          /\ Changed(Reads[s] \cap one.config, Reads[s] \cap other.config) \subseteq Unplanned(s)
          /\ \A k \in Carries[s] \ {"studio"} : one.values[k] = None <=> other.values[k] = None

\* What hydrate looks for before it sends a secret.
Needed == [smtp |-> {"services.auth", "auth.smtp", "auth.smtpPasswordSet"},
           oauth |-> {"services.auth", "auth.oauth", "auth.oauthSecretSet"},
           storage |-> {"services.storage", "storage.keySet"},
           function |-> {"services.functions", "functions.valueSet"}]

\* A release as Run sends it: it has the secrets its leaves ask for, no other.
Hydrated(release) ==
    \A k \in Secrets \ {"studio"} : release.values[k] # None <=> Needed[k] \subseteq release.config

LEMMA FitsAlike ==
    ASSUME NEW s, NEW image, NEW one, NEW other, Fits(s, image, one), Alike(s, one, other)
    PROVE  Fits(s, image, other)
BY DEF Fits, Alike, Image, Changed

LEMMA AlikeSymmetric ==
    ASSUME NEW s, NEW one, NEW other, Alike(s, one, other)
    PROVE  Alike(s, other, one)
BY DEF Alike, Changed

LEMMA AlikeSelf ==
    ASSUME NEW s, NEW one
    PROVE  Alike(s, one, one)
BY DEF Alike, Changed

LEMMA OwnFits ==
    ASSUME NEW s \in Targets, NEW r \in Release, s \in Enabled(r.config)
    PROVE  Fits(s, Image(s, r), r)
<1>1. Image(s, r) # None
  BY ImageTyped
<1> QED
  BY <1>1 DEF Fits, Image, Changed

LEMMA GoneFits ==
    ASSUME NEW s, NEW r, s \notin Enabled(r.config)
    PROVE  Fits(s, None, r)
BY DEF Fits

LEMMA EnabledFacts ==
    ASSUME NEW c
    PROVE  /\ "site" \notin enabledServices(c)
           /\ \A s : s # "site" => (s \in Enabled(c) <=> s \in enabledServices(c))
<1>1. "site" \notin DOMAIN CapabilityOf
  BY DEF CapabilityOf
<1> QED
  BY <1>1 DEF Enabled, enabledServices

\* Every leaf a service reads is carried to it by the plan, or is one of the
\* leaves known not to be.
LEMMA Planned ==
    ASSUME NEW s \in Targets \ {"site"}, NEW f \in Reads[s]
    PROVE  f \in Unplanned(s) \/ (s \in Ordered /\ <<f, s>> \in Marks)
<1>1. CASE s = "db"
  BY <1>1 DEF Reads, Targets, Unplanned, Ordered, Marks, Database
<1>2. CASE s = "api-gw"
  BY <1>2 DEF Reads, Targets, Unplanned, Ordered, Marks
<1>3. CASE s = "auth"
  BY <1>3 DEF Reads, Targets, Unplanned, Ordered, Marks, Auth
<1>4. CASE s \in {"auth-templates", "rest", "caddy", "meta", "imgproxy", "analytics", "vector"}
  BY <1>4 DEF Reads, Targets, Unplanned
<1>5. CASE s = "studio"
  BY <1>5 DEF Reads, Targets, Unplanned, Ordered, Marks
<1>6. CASE s = "realtime"
  BY <1>6 DEF Reads, Targets, Unplanned, Ordered, Marks, Realtime
<1>7. CASE s = "storage"
  BY <1>7 DEF Reads, Targets, Unplanned, Ordered, Marks, Storage
<1>8. CASE s = "functions"
  BY <1>8 DEF Reads, Targets, Unplanned, Ordered, Marks, Functions
<1>9. CASE s = "supavisor"
  BY <1>9 DEF Reads, Targets, Unplanned, Ordered, Marks, Pooler
<1> QED
  BY <1>1, <1>2, <1>3, <1>4, <1>5, <1>6, <1>7, <1>8, <1>9 DEF Targets

\* So is every leaf that decides whether a secret is sent to a service.
LEMMA NeededPlanned ==
    ASSUME NEW s \in Targets, NEW k \in Carries[s] \ {"studio"}, NEW f \in Needed[k]
    PROVE  s \in Ordered /\ <<f, s>> \in Marks /\ k \in Secrets
<1>1. CASE s = "auth"
  BY <1>1 DEF Carries, Targets, Needed, Ordered, Marks, Auth, Secrets
<1>2. CASE s = "storage"
  BY <1>2 DEF Carries, Targets, Needed, Ordered, Marks, Storage, Secrets
<1>3. CASE s = "functions"
  BY <1>3 DEF Carries, Targets, Needed, Ordered, Marks, Functions, Secrets
<1>4. s \in {"auth", "storage", "functions"}
  BY DEF Carries, Targets
<1> QED
  BY <1>1, <1>2, <1>3, <1>4

\* A service that is neither marked, nor added, nor disabled may be left alone.
LEMMA UnmarkedAlike ==
    ASSUME NEW one \in Release, NEW other \in Release, Hydrated(one), Hydrated(other),
           NEW s \in Targets \ {"site"},
           s \notin affectedServices(one.config, other.config),
           s \in enabledServices(one.config) <=> s \in enabledServices(other.config)
    PROVE  Alike(s, one, other)
<1>1. s \in Enabled(one.config) <=> s \in Enabled(other.config)
  BY EnabledFacts
<1>2. ASSUME NEW f, s \in Ordered, <<f, s>> \in Marks
      PROVE  f \in one.config <=> f \in other.config
  BY <1>2 DEF affectedServices, Changed
<1>3. Changed(Reads[s] \cap one.config, Reads[s] \cap other.config) \subseteq Unplanned(s)
  BY <1>2, Planned DEF Changed
<1>4. ASSUME NEW k \in Carries[s] \ {"studio"}
      PROVE  one.values[k] = None <=> other.values[k] = None
  <2>1. k \in Secrets \ {"studio"}
    BY CarriesSecrets
  <2>2. Needed[k] \subseteq one.config <=> Needed[k] \subseteq other.config
    BY <1>2, NeededPlanned
  <2> QED
    BY <2>1, <2>2 DEF Hydrated
<1> QED
  BY <1>1, <1>3, <1>4 DEF Alike

LEMMA RequestedHydrated ==
    ASSUME TypeInv, SecretBacked
    PROVE  Hydrated(Requested)
<1>1. \A k \in Secrets \ {"studio"} :
        hydrate(canonical, secret)[k] = IF Needed[k] \subseteq canonical THEN secret[k] ELSE None
  BY DEF hydrate, Needed, Secrets
<1>2. \A k \in Secrets \ {"studio"} : FlagOf[k] \in Needed[k]
  BY DEF Secrets, FlagOf, Needed
<1> QED
  BY <1>1, <1>2 DEF Hydrated, Requested, SecretBacked

\* The targets that the apply has brought up to date when a stage is reached.
Fresh(stage) ==
    (IF stage \in {"recreate", "add", "verify", "record"} THEN Disabled ELSE {})
      \cup (IF stage \in {"add", "verify", "record"} THEN Up(Affected \cap Wanted) ELSE {})
      \cup (IF stage \in {"verify", "record"}
              THEN Up(WithDependencies(Added, job.release.config)) ELSE {})
      \cup (IF stage = "record" THEN {"site"} ELSE {})

\* Before the candidate is published the runtime is the applied one, and the
\* current generation would make the same runtime.
Quiet ==
    \A s \in Targets \ suspect : Fits(s, containers[s], applied) /\ Alike(s, files, applied)

\* From then on each service fits the applied release or the candidate, the
\* site is still the applied one until it is switched, and the services the
\* steps so far were about fit the candidate.
Underway ==
    /\ \A s \in Targets \ suspect :
          /\ Fits(s, containers[s], applied) \/ Fits(s, containers[s], job.release)
          /\ Alike(s, job.before, applied)
    /\ (job.stage # "record" /\ "site" \notin suspect) => Fits("site", containers["site"], applied)
    /\ \A s \in Fresh(job.stage) \cap Targets : Fits(s, containers[s], job.release)

RunInv ==
    /\ Hydrated(files) /\ Hydrated(applied)
    /\ job # None => Hydrated(job.release) /\ Hydrated(job.before)
    /\ (job = None \/ job.stage \in {"queued", "publish"}) => Quiet
    /\ (job # None /\ job.stage \notin {"queued", "publish"}) => Underway

\* What a step brings up to date fits the candidate.
LEMMA TowardFits ==
    ASSUME TypeInv, job \in Job, NEW part, NEW s \in Targets
    PROVE  /\ s \in part => Fits(s, Toward(part)[s], job.release)
           /\ s \notin part => Toward(part)[s] = containers[s]
<1>1. job.release \in Release
  BY DEF Job
<1> QED
  BY <1>1, OwnFits, GoneFits DEF Toward

\* A target that the plan leaves out and that fits one release fits the other.
LEMMA LeftAlone ==
    ASSUME TypeInv, job \in Job, Hydrated(applied), Hydrated(job.release),
           NEW s \in Targets \ {"site"}, s \notin Added, s \notin Disabled, s \notin Affected
    PROVE  Alike(s, applied, job.release) /\ Alike(s, job.release, applied)
<1>1. job.release \in Release /\ applied \in Release
  BY DEF Job, TypeInv, ApplyTypeOK
<1>2. s \in enabledServices(applied.config) <=> s \in enabledServices(job.release.config)
  BY DEF Added, Disabled, Previous, Wanted
<1> QED
  BY <1>1, <1>2, UnmarkedAlike, AlikeSymmetric DEF Affected

\* So does one that neither release enables.
LEMMA NeverThere ==
    ASSUME NEW s, NEW image, NEW one, NEW other, Fits(s, image, one),
           s \notin Enabled(one.config), s \notin Enabled(other.config)
    PROVE  Fits(s, image, other)
BY DEF Fits

\* Every service fits one of the two releases whenever a command fails.
LEMMA MidFits ==
    ASSUME TypeInv, RunInv, job \in Job, job.stage # "queued", NEW part, NEW s \in Targets \ suspect
    PROVE  /\ Fits(s, Toward(part)[s], applied) \/ Fits(s, Toward(part)[s], job.release)
           /\ (s \notin part /\ (job.stage # "record" \/ s # "site") /\ s = "site")
                 => Fits(s, Toward(part)[s], applied)
<1>1. job # None
  BY NoneAssumption
<1>2. CASE job.stage = "publish"
  BY <1>1, <1>2, TowardFits DEF RunInv, Quiet
<1>3. CASE job.stage # "publish"
  <2>1. Underway
    BY <1>1, <1>3 DEF RunInv
  <2> QED
    BY <2>1, TowardFits DEF Underway
<1> QED
  BY <1>2, <1>3

\* The generation before the apply makes the same runtime as the applied one.
LEMMA BeforeAlike ==
    ASSUME TypeInv, RunInv, PointerInv, job \in Job, job.stage # "queued"
    PROVE  \A s \in Targets \ suspect : Alike(s, job.before, applied)
<1>1. job # None
  BY NoneAssumption
<1> QED
  BY <1>1 DEF RunInv, PointerInv, Quiet, Underway

\* A rollback gives back a runtime that fits what was applied.
LEMMA RolledBackFits ==
    ASSUME TypeInv, RunInv, PointerInv, job \in Job, job.stage # "queued", NEW part,
           NEW s \in Targets \ (suspect \cup (part \cap {"site"}))
    PROVE  Fits(s, RolledBack(Toward(part))[s], applied)
<1> DEFINE mid == Toward(part)
           again == [applied EXCEPT !.values = job.release.values]
<1>1. /\ job.release \in Release /\ job.before \in Release /\ applied \in Release
      /\ Hydrated(applied) /\ Hydrated(job.release)
  BY NoneAssumption DEF Job, TypeInv, ApplyTypeOK, RunInv
<1>2. Alike(s, job.before, applied)
  BY BeforeAlike
<1>3. Fits(s, mid[s], applied) \/ Fits(s, mid[s], job.release)
  BY MidFits
<1>0. "site" \notin rollbackServices /\ "site" \notin Added /\ rollbackServices \cap Added = {}
  BY EnabledFacts DEF rollbackServices, Added, Previous, Wanted
<1>4. CASE s = "site"
  <2>1. CASE job.stage # "record"
    <3>1. RolledBack(mid)[s] = mid[s]
      BY <1>0, <1>4, <2>1 DEF RolledBack
    <3>2. s \notin part
      BY <1>4
    <3> QED
      BY <1>4, <2>1, <3>1, <3>2, MidFits
  <2>2. CASE job.stage = "record" /\ s \in Enabled(applied.config)
    <3>1. RolledBack(mid)[s] = Image(s, again)
      BY <1>0, <1>4, <2>2 DEF RolledBack
    <3>2. again \in Release /\ again.config = applied.config
      BY <1>1 DEF Release
    <3>3. Fits(s, Image(s, again), again)
      BY <2>2, <3>2, OwnFits
    <3>4. Carries[s] \ {"studio"} = {}
      BY <1>4 DEF Carries, Targets
    <3>5. Image(s, again).leaves = Image(s, applied).leaves
      BY <3>2 DEF Image
    <3> HIDE DEF again
    <3> QED
      BY <2>2, <3>1, <3>2, <3>3, <3>4, <3>5 DEF Fits
  <2>3. CASE job.stage = "record" /\ s \notin Enabled(applied.config)
    <3>1. RolledBack(mid)[s] = None
      BY <1>0, <1>4, <2>3 DEF RolledBack
    <3> QED
      BY <2>3, <3>1, GoneFits
  <2> QED
    BY <2>1, <2>2, <2>3
<1>5. CASE s # "site" /\ s \in rollbackServices
  <2>1. RolledBack(mid)[s] = Image(s, job.before)
    BY <1>0, <1>5 DEF RolledBack
  <2>2. s \in Enabled(applied.config)
    BY <1>5, EnabledFacts DEF rollbackServices, Previous
  <2>3. s \in Enabled(job.before.config)
    BY <1>2, <2>2 DEF Alike
  <2> QED
    BY <1>1, <1>2, <2>1, <2>3, OwnFits, FitsAlike
<1>6. CASE s # "site" /\ s \notin rollbackServices /\ s \in Added
  <2>1. RolledBack(mid)[s] = None
    BY <1>6 DEF RolledBack
  <2>2. s \notin Enabled(applied.config)
    BY <1>6, EnabledFacts DEF Added, Previous
  <2> QED
    BY <2>1, <2>2, GoneFits
<1>7. CASE s # "site" /\ s \notin rollbackServices /\ s \notin Added
  <2>1. RolledBack(mid)[s] = IF rollbackServices # {} /\ s \notin enabledServices(job.before.config)
                               THEN None ELSE mid[s]
    BY <1>7 DEF RolledBack
  <2>2. CASE rollbackServices # {} /\ s \notin enabledServices(job.before.config)
    <3>1. s \notin Enabled(applied.config)
      BY <1>2, <1>7, <2>2, EnabledFacts DEF Alike
    <3> QED
      BY <2>1, <2>2, <3>1, GoneFits
  <2>3. CASE s \notin Previous
    <3>1. s \notin Enabled(applied.config) /\ s \notin Enabled(job.release.config)
      BY <1>7, <2>3, EnabledFacts DEF Added, Previous, Wanted
    <3>2. Fits(s, mid[s], applied)
      BY <1>3, <3>1, NeverThere
    <3> QED
      BY <2>1, <2>2, <3>2
  <2>4. CASE s \in Previous
    <3>1. s \notin Disabled /\ s \notin Affected
      BY <1>7, <2>4 DEF rollbackServices
    <3>2. Alike(s, job.release, applied)
      BY <1>1, <1>7, <3>1, LeftAlone
    <3>3. Fits(s, mid[s], applied)
      BY <1>3, <3>2, FitsAlike
    <3> QED
      BY <2>1, <2>2, <3>3
  <2> QED
    BY <2>3, <2>4
<1> QED
  BY <1>4, <1>5, <1>6, <1>7

\* A step of the apply that is under way: the services it is about become
\* fresh, the others keep what they had.
LEMMA AdvanceKeeps ==
    ASSUME TypeInv, RunInv, PointerInv, job \in Job,
           NEW stage \in {"recreate", "add", "verify", "record"}, NEW part,
           job.stage # "queued", stage # job.stage,
           Advance(stage), containers' = Toward(part), files' = job.release,
           job.stage # "publish" \/ stage = "recreate",
           stage # "record" => "site" \notin part,
           job.stage # "record",
           \A s \in Fresh(stage) \cap Targets :
              s \in part \/ (job.stage # "publish" /\ s \in Fresh(job.stage))
                         \/ Fits(s, containers[s], job.release)
    PROVE  RunInv'
<1>1. /\ job' \in Job /\ job' # None /\ job'.stage = stage
      /\ job'.release = job.release /\ job'.before = job.before
  BY NoneAssumption DEF Advance, Job, Stages
<1>2. applied' = applied /\ suspect' = suspect
  BY DEF Advance
<1>3. Hydrated(files)' /\ Hydrated(applied)' /\ Hydrated(job.release)' /\ Hydrated(job.before)'
  BY <1>1, <1>2, NoneAssumption DEF RunInv, Hydrated
<1>4. \A s \in Targets \ suspect :
         /\ Fits(s, containers'[s], applied) \/ Fits(s, containers'[s], job.release)
         /\ Alike(s, job.before, applied)
  BY MidFits, BeforeAlike
<1>5. (stage # "record" /\ "site" \notin suspect) => Fits("site", containers'["site"], applied)
  <2>1. "site" \in Targets
    BY DEF Targets
  <2> QED
    BY <2>1, MidFits
<1>6. Fresh(job.stage)' = Fresh(stage)
  BY <1>1, <1>2 DEF Fresh, Disabled, Affected, Wanted, Added, Previous, Up, Orphans
<1>7. ASSUME NEW s \in Fresh(stage) \cap Targets PROVE Fits(s, containers'[s], job.release)
  <2>1. CASE s \in part
    BY <2>1, TowardFits
  <2>2. CASE s \notin part
    <3>1. containers'[s] = containers[s]
      BY <2>2, TowardFits
    <3>2. Fits(s, containers[s], job.release)
      BY <2>2, NoneAssumption DEF RunInv, Underway
    <3> QED
      BY <3>1, <3>2
  <2> QED
    BY <2>1, <2>2
<1>8. Underway'
  <2>1. \A s \in Targets \ suspect' :
         /\ Fits(s, containers'[s], applied') \/ Fits(s, containers'[s], job'.release)
         /\ Alike(s, job'.before, applied')
    BY <1>1, <1>2, <1>4
  <2>2. (job'.stage # "record" /\ "site" \notin suspect') => Fits("site", containers'["site"], applied')
    BY <1>1, <1>2, <1>5
  <2>3. \A s \in Fresh(job.stage)' \cap Targets : Fits(s, containers'[s], job'.release)
    BY <1>1, <1>6, <1>7
  <2> QED
    BY <2>1, <2>2, <2>3 DEF Underway
<1> QED
  BY <1>1, <1>3, <1>8 DEF RunInv

\* A service that up passes over, the one whose definition never changes,
\* fits the candidate as it is.
LEMMA PassedOver ==
    ASSUME TypeInv, job \in Job, NEW services, NEW s \in services \cap Targets,
           s \notin Refreshed(services)
    PROVE  Fits(s, containers[s], job.release)
<1>1. s = "auth-templates" /\ s \in Wanted /\ containers[s] # None
  BY DEF Refreshed
<1>2. s \in Enabled(job.release.config)
  BY <1>1, EnabledFacts DEF Wanted
<1>3. containers[s].leaves \subseteq Reads[s]
  BY <1>1 DEF TypeInv, ApplyTypeOK, ImageSet
<1>4. Reads[s] = Unplanned(s) /\ Carries[s] = {}
  BY <1>1 DEF Reads, Unplanned, Carries, Targets
<1> QED
  BY <1>1, <1>2, <1>3, <1>4 DEF Fits, Image, Changed

\* What Record takes off the suspects is fresh.
LEMMA RenewedFresh == job \in Job => Renewed \subseteq Fresh("record")
<1> SUFFICES ASSUME job \in Job PROVE Renewed \subseteq Fresh("record")
  OBVIOUS
<1>1. \A services : services \subseteq Up(services) /\ (services # {} => Orphans \subseteq Up(services))
  BY DEF Up
<1> QED
  BY <1>1 DEF Renewed, Fresh

\* The services of a plan that succeeded fit what it applied.
LEMMA RecordedFits ==
    ASSUME TypeInv, RunInv, job \in Job, job.stage = "record", NEW s \in Targets \ (suspect \ Renewed)
    PROVE  Fits(s, containers[s], job.release)
<1>1. job # None /\ Underway /\ Hydrated(applied) /\ Hydrated(job.release)
  BY NoneAssumption DEF RunInv
<1>2. CASE s \in Renewed
  BY <1>1, <1>2, RenewedFresh DEF Underway
<1>3. CASE s \notin Renewed
  <2>1. Fits(s, containers[s], applied) \/ Fits(s, containers[s], job.release)
    BY <1>1, <1>3 DEF Underway
  <2>2. s # "site" /\ s \notin Disabled
    BY <1>3 DEF Renewed
  <2>3. s \notin Added
    <3>1. Added \subseteq WithDependencies(Added, job.release.config)
      BY DEF WithDependencies
    <3> QED
      BY <1>3, <3>1 DEF Renewed
  <2>4. CASE s \in Affected /\ s \notin Wanted
    <3>1. s \notin Enabled(applied.config) /\ s \notin Enabled(job.release.config)
      BY <2>2, <2>4, EnabledFacts DEF Disabled, Previous, Wanted
    <3> QED
      BY <2>1, <3>1, NeverThere
  <2>5. CASE s \notin Affected
    BY <1>1, <2>1, <2>2, <2>3, <2>5, LeftAlone, FitsAlike
  <2>6. s \notin Affected \cap Wanted
    BY <1>3 DEF Renewed
  <2> QED
    BY <2>4, <2>5, <2>6
<1> QED
  BY <1>2, <1>3

LEMMA RunNext ==
    ASSUME TypeInv, SecretBacked, PointerInv, RunInv, [ApplyNext]_applyVars
    PROVE  RunInv'
<1>1. ASSUME NEW section, NEW incoming, NEW act, NEW value,
             QueuePatch(section, incoming, act, value)
      PROVE  RunInv'
  <2>1. /\ job = None /\ job'.stage = "queued" /\ job'.release = files /\ job'.before = files
        /\ UNCHANGED <<files, applied, containers, suspect>>
    BY <1>1 DEF QueuePatch, runtimeVars
  <2>2. Quiet /\ Hydrated(files) /\ Hydrated(applied)
    BY <2>1 DEF RunInv
  <2> QED
    BY <2>1, <2>2 DEF RunInv, Quiet, Hydrated
<1>2. CASE UNCHANGED <<job, files, applied, containers, suspect>>
  <2>1. /\ job' = job /\ files' = files /\ applied' = applied
        /\ containers' = containers /\ suspect' = suspect
    BY <1>2
  <2>2. Fresh(job.stage)' = Fresh(job.stage)
    BY <2>1 DEF Fresh, Disabled, Affected, Wanted, Added, Previous, Up, Orphans
  <2>3. Quiet' <=> Quiet
    BY <2>1 DEF Quiet
  <2>4. Underway' <=> Underway
    BY <2>1, <2>2 DEF Underway
  <2> QED
    BY <2>1, <2>3, <2>4 DEF RunInv, Hydrated
<1>3. CASE patch
  BY <1>3, <1>1, Zenon DEF patch
<1>4. ASSUME NEW e \in Editors, QueueMerged(e) PROVE RunInv'
  BY <1>4, <1>1, MergedPatch
<1>5. CASE ApplyStep
  <2>1. job \in Job /\ job # None /\ Hydrated(job.release) /\ Hydrated(job.before)
    BY <1>5, NoneAssumption DEF ApplyStep, Send, RefuseCandidate, Publish, Recreate, UpSelected,
           ApplySite, Record, Rollback, Abandon, AtStage, TypeInv, ApplyTypeOK, RunInv
  <2>2. Hydrated(files) /\ Hydrated(applied)
    BY DEF RunInv
  <2>3. CASE Send
    <3>1. job.stage = "queued" /\ UNCHANGED <<files, applied, containers, suspect>>
      BY <2>3 DEF Send, runtimeVars
    <3>2. Quiet /\ Quiet'
      BY <2>1, <3>1 DEF RunInv, Quiet
    <3>3. Hydrated(Requested)
      BY RequestedHydrated
    <3>4. job' = None \/ /\ job'.stage = "publish" /\ job'.before = job.before
                         /\ job'.release = Requested
      BY <2>1, <2>3 DEF Send, Job
    <3>5. job' # None => Hydrated(job'.release) /\ Hydrated(job'.before)
      BY <2>1, <3>3, <3>4
    <3>6. job' = None \/ job'.stage \in {"queued", "publish"}
      BY <3>4
    <3>7. Hydrated(files') /\ Hydrated(applied')
      BY <2>2, <3>1
    <3> QED
      BY <3>2, <3>5, <3>6, <3>7 DEF RunInv, Hydrated
  <2>4. CASE RefuseCandidate
    <3>1. job' = None /\ job.stage = "publish" /\ UNCHANGED <<files, applied, containers, suspect>>
      BY <2>4 DEF RefuseCandidate, runtimeVars
    <3>2. Quiet /\ Quiet'
      BY <2>1, <3>1 DEF RunInv, Quiet
    <3> QED
      BY <2>2, <3>1, <3>2 DEF RunInv, Hydrated
  <2>5. CASE Publish
    <3>1. /\ job.stage = "publish" /\ Advance("recreate") /\ files' = job.release
          /\ containers' = Toward(Disabled)
      BY <2>5 DEF Publish, AtStage
    <3>2. "site" \notin Disabled /\ Fresh("recreate") = Disabled
      BY EnabledFacts DEF Disabled, Previous, Fresh
    <3> QED
      BY <2>1, <3>1, <3>2, AdvanceKeeps
  <2>6. CASE Recreate
    <3>1. /\ job.stage = "recreate" /\ Advance("add") /\ UNCHANGED files
          /\ containers' = Toward(Up(Affected \cap Wanted))
      BY <2>6 DEF Recreate, AtStage
    <3>2. files' = job.release
      BY <2>1, <3>1 DEF PointerInv
    <3>3. "site" \notin Up(Affected \cap Wanted)
      BY EnabledFacts DEF Up, Orphans, Wanted
    <3>4. Fresh("add") \subseteq Up(Affected \cap Wanted) \cup Fresh("recreate")
      BY DEF Fresh
    <3> QED
      BY <2>1, <3>1, <3>2, <3>3, <3>4, AdvanceKeeps
  <2>7. CASE UpSelected
    <3> DEFINE services == Up(WithDependencies(Added, job.release.config))
    <3>1. /\ job.stage = "add" /\ Advance("verify") /\ UNCHANGED files
          /\ containers' = Toward(Refreshed(services))
      BY <2>7 DEF UpSelected, AtStage
    <3>2. files' = job.release
      BY <2>1, <3>1 DEF PointerInv
    <3>3. "site" \notin services
      <4>1. "site" \notin WithDependencies(Added, job.release.config)
        BY EnabledFacts DEF WithDependencies, Added, Wanted
      <4> QED
        BY <4>1 DEF Up, Orphans
    <3>4. Fresh("verify") \subseteq services \cup Fresh("add")
      BY DEF Fresh
    <3> HIDE DEF services
    <3>5. "site" \notin Refreshed(services)
      BY <3>3 DEF Refreshed
    <3>6. \A s \in Fresh("verify") \cap Targets :
             s \in Refreshed(services) \/ s \in Fresh("add") \/ Fits(s, containers[s], job.release)
      BY <2>1, <3>4, PassedOver
    <3> QED
      BY <2>1, <3>1, <3>2, <3>5, <3>6, AdvanceKeeps
  <2>8. CASE ApplySite
    <3>1. /\ job.stage = "verify" /\ Advance("record") /\ UNCHANGED files
          /\ containers' = Toward({"site"})
      BY <2>8 DEF ApplySite, AtStage
    <3>2. files' = job.release
      BY <2>1, <3>1 DEF PointerInv
    <3>3. Fresh("record") \subseteq {"site"} \cup Fresh("verify")
      BY DEF Fresh
    <3> QED
      BY <2>1, <3>1, <3>2, <3>3, AdvanceKeeps
  <2>9. CASE Record
    <3>1. /\ job.stage = "record" /\ applied' = job.release /\ suspect' = suspect \ Renewed
          /\ job' = None /\ UNCHANGED <<files, containers>>
      BY <2>9 DEF Record, AtStage
    <3>2. files = job.release
      BY <2>1, <3>1 DEF PointerInv
    <3>3. \A s \in Targets \ suspect' : Fits(s, containers'[s], applied') /\ Alike(s, files', applied')
      BY <2>1, <3>1, <3>2, RecordedFits, AlikeSelf
    <3>4. Quiet'
      BY <3>3 DEF Quiet
    <3> QED
      BY <2>1, <2>2, <3>1, <3>4 DEF RunInv, Hydrated
  <2>10. CASE Rollback
    <3>1. PICK part : /\ containers' = RolledBack(Toward(part))
                      /\ suspect' = suspect \cup (part \cap {"site"})
      BY <2>10 DEF Rollback
    <3>2. job.stage # "queued" /\ files' = job.before /\ job' = None /\ applied' = applied
      BY <2>10 DEF Rollback
    <3>3. \A s \in Targets \ suspect' : Fits(s, containers'[s], applied') /\ Alike(s, files', applied')
      BY <2>1, <3>1, <3>2, RolledBackFits, BeforeAlike
    <3>4. Quiet'
      BY <3>3 DEF Quiet
    <3> QED
      BY <2>1, <2>2, <3>2, <3>4 DEF RunInv, Hydrated
  <2>11. CASE Abandon
    <3>1. PICK part \in SUBSET UnderWay, again \in SUBSET rollbackServices, gone \in {{}, Added} :
            containers' = [s \in Targets |-> IF s \in again THEN Image(s, job.before)
                                             ELSE IF s \in gone THEN None
                                             ELSE Toward(part)[s]]
      BY <2>11, Zenon DEF Abandon
    <3>2. /\ job.stage # "queued" /\ files' \in {job.before, job.release} /\ job' = None
          /\ applied' = applied
          /\ suspect' = suspect \cup Affected \cup Disabled \cup Added \cup {"site"}
      BY <2>11 DEF Abandon
    <3>3. ASSUME NEW s \in Targets \ suspect'
          PROVE  Fits(s, containers'[s], applied') /\ Alike(s, files', applied')
      <4>1. s \notin again /\ s \notin gone
        BY <3>2 DEF rollbackServices
      <4>2. Alike(s, job.release, applied) /\ Alike(s, job.before, applied)
        BY <2>1, <2>2, <3>2, LeftAlone, BeforeAlike
      <4>3. Fits(s, Toward(part)[s], applied) \/ Fits(s, Toward(part)[s], job.release)
        BY <2>1, <3>2, MidFits
      <4>4. Fits(s, Toward(part)[s], applied)
        BY <4>2, <4>3, FitsAlike
      <4>5. containers'[s] = Toward(part)[s]
        BY <3>1, <4>1
      <4> QED
        BY <3>2, <4>2, <4>4, <4>5
    <3>4. Quiet'
      BY <3>3 DEF Quiet
    <3> QED
      BY <2>1, <2>2, <3>2, <3>4 DEF RunInv, Hydrated
  <2> QED
    BY <1>5, <2>3, <2>4, <2>5, <2>6, <2>7, <2>8, <2>9, <2>10, <2>11 DEF ApplyStep
<1> QED
  BY <1>2, <1>3, <1>4, <1>5
     DEF ApplyNext, ApplyStep, ReadForMerge, DropDraft, applyVars, runtimeVars

LEMMA RunInit == ApplyInit => RunInv
<1> SUFFICES ASSUME ApplyInit PROVE RunInv
  OBVIOUS
<1>1. TypeInv /\ SecretBacked
  BY BaseInit
<1>2. files = Requested /\ applied = Requested /\ job = None
  BY DEF ApplyInit, InitialRelease, Requested
<1>3. Hydrated(Requested)
  BY <1>1, RequestedHydrated
<1>4. ASSUME NEW s \in Targets PROVE Fits(s, containers[s], applied)
  <2>1. applied \in Release
    BY <1>1 DEF TypeInv, ApplyTypeOK
  <2>2. containers[s] = IF s \in Enabled(applied.config) THEN Image(s, applied) ELSE None
    BY <1>2 DEF ApplyInit, InitialRelease
  <2> QED
    BY <2>1, <2>2, OwnFits, GoneFits
<1> QED
  BY <1>2, <1>3, <1>4, AlikeSelf DEF RunInv, Quiet

\* The runtime follows the applied configuration, up to the leaves the plan is
\* known to ignore, after any number of applies, failures and rollbacks, for
\* any configuration and any leaves: only what an interrupted apply touched
\* may differ, and only until an apply brings it up to date.
THEOREM RuntimeFollows == ApplySpec => []RuntimeConverges
<1> DEFINE Inv == TypeInv /\ SecretBacked /\ PointerInv /\ RunInv
<1>1. ApplyInit => Inv
  BY BaseInit, RunInit DEF ApplyInit, PointerInv
<1>2. Inv /\ [ApplyNext]_applyVars => Inv'
  BY BaseNext, PointerNext, RunNext
<1>3. Inv => RuntimeConverges
  BY DEF RunInv, Quiet, RuntimeConverges, Agrees, Fits
<1> QED
  BY <1>1, <1>2, <1>3, PTL DEF ApplySpec
=============================================================================
