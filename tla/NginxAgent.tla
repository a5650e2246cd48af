------------------------------ MODULE NginxAgent ------------------------------
(***************************************************************************)
(* The native Nginx proxy agent (apps/nginxproxy): the sites it keeps for  *)
(* the servers (internal/site/store.go), the certificate pairs it stages   *)
(* for them (internal/site/certificate.go), the two commands it runs       *)
(* (internal/site/runner.go), and the Provisioner's client, which gives up *)
(* on an answer while the agent's handler goes on (proxy/client.go).       *)
(*                                                                         *)
(* Every request is a goroutine of net/http and nothing orders them: the   *)
(* agent has no lock.  The Provisioner has one request at a time for a     *)
(* site, until it gives one up.  Nginx runs what it read at its last       *)
(* reload; nginx -t and a reload read every enabled site.                  *)
(*                                                                         *)
(* A route stands for a rendered server block.  Its htpasswd line is       *)
(* determined by the route, the salt left out.  One name of a certificate  *)
(* pair is kept: names do not interact.                                    *)
(***************************************************************************)
EXTENDS Naturals, Sequences, FiniteSets

CONSTANTS
    Slugs,        \* servers with a managed site
    Routes,       \* [studio |-> password or None, managed |-> uses the staged pair]
    Materials,    \* certificate material; a pair matches when both files hold the same
    Handlers,     \* goroutines that serve requests
    None,
    MaxRequests,  \* bound on requests
    MaxFaults     \* bound on failed system calls and commands, lost callers and restarts

ASSUME AgentAssumption ==
    /\ None \notin Routes /\ None \notin Materials
    /\ \A r \in Routes : DOMAIN r = {"studio", "managed"} /\ r.managed \in BOOLEAN
    /\ MaxRequests \in Nat /\ MaxFaults \in Nat

VARIABLES
    site,       \* the three files of a site, by slug
    loaded,     \* the route nginx runs for a slug, or None
    pem, key,   \* what the two files of the certificate pair hold, or None
    request,    \* what each goroutine serves
    asked, faults,
    unsettled,  \* history: slugs whose files changed since nginx last read them,
                \* with nobody at work on them
    half        \* history: a staging overlapped another or left one file behind

agentVars == <<site, loaded, pem, key, request, asked, faults, unsettled, half>>

NoSite == [available |-> None, enabled |-> FALSE, credential |-> None]

SiteFiles == [available : Routes \cup {None}, enabled : BOOLEAN,
              credential : {r.studio : r \in Routes} \cup {None}]

\* A request for a site: "step" counts the three files (1 to 3), nginx -t (4)
\* and the reload (5); "undo" tells restoreAfterFailure from the request
\* proper; "live" is its context; "alone" is history: no other request for
\* the site was served meanwhile.
SiteRequest == [op : {"apply", "remove"}, slug : Slugs, route : Routes \cup {None},
                prev : SiteFiles, step : 1..5, undo : BOOLEAN, live : BOOLEAN,
                alone : BOOLEAN]

\* A request to stage a pair: the check of the two files, then one write each.
StageRequest == [op : {"stage"}, material : Materials, step : {"check", "pem", "key"}]

ASSUME NoRequestAssumption == None \notin SiteRequest /\ None \notin StageRequest

Serves(h, op) == request[h] # None /\ request[h].op = op
Busy(h) == Serves(h, "apply") \/ Serves(h, "remove")
Staging(h) == Serves(h, "stage")

\* A system call or a command that fails of itself.
Fault == faults < MaxFaults /\ faults' = faults + 1
NoFault == UNCHANGED faults

Idle(h) == request' = [request EXCEPT ![h] = None]

-----------------------------------------------------------------------------
(***************************************************************************)
(* Nginx.                                                                  *)
(***************************************************************************)
OnDisk(s) == IF site[s].enabled THEN site[s].available ELSE None

\* nginx -t accepts what is enabled: no link dangles and every certificate
\* that a site names is there with its key.  It does not open htpasswd files.
Acceptable(s) ==
    site[s].enabled => /\ site[s].available # None
                       /\ site[s].available.managed => pem # None /\ pem = key

ConfigValid == \A s \in Slugs : Acceptable(s)

-----------------------------------------------------------------------------
(***************************************************************************)
(* Requests.                                                               *)
(***************************************************************************)
\* The site a request asks for.
Target(q) ==
    IF q.op = "remove" THEN NoSite
    ELSE [available |-> q.route, enabled |-> TRUE, credential |-> q.route.studio]

\* Mutant: restore forgets the htpasswd file.
GoalKeepsCredential(q) ==
    IF q.undo THEN [q.prev EXCEPT !.credential = Target(q).credential] ELSE Target(q)

Goal(q) == IF q.undo THEN q.prev ELSE Target(q)

\* The order in which the files are changed: Remove takes the link away
\* first; Apply and restore write it last.
Order(q) ==
    IF q.op = "remove" /\ ~q.undo THEN <<"enabled", "available", "credential">>
    ELSE <<"credential", "available", "enabled">>

Newcomer(op, s, r) ==
    [op |-> op, slug |-> s, route |-> r, prev |-> site[s], step |-> 1, undo |-> FALSE,
     live |-> TRUE, alone |-> \A h \in Handlers : ~(Busy(h) /\ request[h].slug = s)]

\* The others that serve the site are not alone on it any more.
Joined(h, q) ==
    [g \in Handlers |-> IF g = h THEN q
                        ELSE IF Busy(g) /\ request[g].slug = q.slug
                        THEN [request[g] EXCEPT !.alone = FALSE] ELSE request[g]]

\* ServeHTTP, apply and remove up to snapshot.  What is refused before it
\* (the token, the body, the names, the directories, a file of another kind)
\* changes nothing and is left out.  The reads of snapshot are one step.
\* Reconcile applies sites under the server's metadata lock, so that two live
\* applies of a site do not overlap; the deletion of a server removes its site
\* without the lock.
Begin(h, op, s, r) ==
    /\ request[h] = None /\ asked < MaxRequests
    /\ op = "apply" => \A g \in Handlers : Serves(g, "apply") /\ request[g].slug = s => ~request[g].live
    /\ request' = Joined(h, Newcomer(op, s, r))
    /\ asked' = asked + 1
    /\ UNCHANGED <<site, loaded, pem, key, faults, unsettled, half>>

BeginApply(h) == \E s \in Slugs, r \in Routes : Begin(h, "apply", s, r)
BeginRemove(h) == \E s \in Slugs : Begin(h, "remove", s, None)

\* The request proper failed: restoreAfterFailure starts with the files.
Undo(h) == request' = [request EXCEPT ![h] = [@ EXCEPT !.undo = TRUE, !.step = 1]]

Proceed(h) == request' = [request EXCEPT ![h].step = @ + 1]

\* An error of restore ends the request with the site as it stands.
GiveUp(h) == Idle(h) /\ unsettled' = unsettled \cup {request[h].slug}

\* Mutant: what failed is tried again for ever.
FailedRetries(h) == UNCHANGED <<request, unsettled>>

Failed(h) ==
    IF request[h].undo THEN GiveUp(h) ELSE Undo(h) /\ UNCHANGED unsettled

Change(h) ==
    LET f == Order(request[h])[request[h].step]
    IN  site' = [site EXCEPT ![request[h].slug][f] = Goal(request[h])[f]]

\* A write may fail after its rename, when the directory cannot be synced; a
\* removal that fails has removed nothing.
ChangeUnsynced(h) ==
    LET f == Order(request[h])[request[h].step]
    IN  Goal(request[h])[f] # NoSite[f] /\ Change(h)

\* One file: writeAtomic, removeIfPresent or replaceEnabledLink.
ChangeFile(h) ==
    /\ Busy(h) /\ request[h].step <= 3
    /\ \/ Change(h) /\ Proceed(h) /\ NoFault /\ UNCHANGED unsettled
       \/ Fault /\ Failed(h) /\ (UNCHANGED site \/ ChangeUnsynced(h))
    /\ UNCHANGED <<loaded, pem, key, asked, half>>

\* Mutant: the restored files are validated, nginx is not told of them.
TestEndsRestore(h) ==
    /\ Busy(h) /\ request[h].step = 4
    /\ \/ /\ request[h].live /\ ConfigValid /\ NoFault /\ UNCHANGED unsettled
          /\ IF request[h].undo THEN Idle(h) ELSE Proceed(h)
       \/ ~(request[h].live /\ ConfigValid) /\ Failed(h) /\ NoFault
       \/ Fault /\ Failed(h)
    /\ UNCHANGED <<site, loaded, pem, key, asked, half>>

\* SystemRunner.Test.  exec.CommandContext starts nothing once the context
\* is done, so a request that was given up cannot validate its restore.
Test(h) ==
    /\ Busy(h) /\ request[h].step = 4
    /\ \/ request[h].live /\ ConfigValid /\ Proceed(h) /\ NoFault /\ UNCHANGED unsettled
       \/ ~(request[h].live /\ ConfigValid) /\ Failed(h) /\ NoFault
       \/ Fault /\ Failed(h)
    /\ UNCHANGED <<site, loaded, pem, key, asked, half>>

\* What nginx runs when a reload was carried out: every enabled site.
Loads == loaded' = [s \in Slugs |-> OnDisk(s)]

\* SystemRunner.Reload, and the answer.  A reload of a configuration that is
\* not valid leaves nginx with the old one.  One that fails may have been
\* carried out: systemctl is killed with its context, nginx is not.
Reload(h) ==
    /\ Busy(h) /\ request[h].step = 5
    /\ \/ request[h].live /\ ConfigValid /\ Loads /\ Idle(h) /\ NoFault /\ unsettled' = {}
       \/ ~(request[h].live /\ ConfigValid) /\ Failed(h) /\ NoFault /\ UNCHANGED loaded
       \/ Fault /\ Failed(h) /\ (UNCHANGED loaded \/ (ConfigValid /\ Loads))
    /\ UNCHANGED <<site, pem, key, asked, half>>

\* The Provisioner stops waiting (its 30 seconds, its own caller, a restart):
\* the context of the request is cancelled, its handler goes on.
CallerGone(h) ==
    /\ Busy(h) /\ request[h].live /\ Fault
    /\ request' = [request EXCEPT ![h].live = FALSE]
    /\ UNCHANGED <<site, loaded, pem, key, asked, unsettled, half>>

-----------------------------------------------------------------------------
(***************************************************************************)
(* CertificateStore.Stage.  What it refuses before it looks at the files   *)
(* (names, PEM, a key that is not the certificate's) changes nothing and   *)
(* is left out.  It does not look at its context.                          *)
(***************************************************************************)
BeginStage(h) ==
    /\ request[h] = None /\ asked < MaxRequests
    /\ \E m \in Materials :
          request' = [request EXCEPT ![h] = [op |-> "stage", material |-> m, step |-> "check"]]
    /\ half' = (half \/ \E g \in Handlers : Staging(g))
    /\ asked' = asked + 1
    /\ UNCHANGED <<site, loaded, pem, key, faults, unsettled>>

StageAt(h, step) == Staging(h) /\ request[h].step = step
StageTo(h, step) == request' = [request EXCEPT ![h].step = step]

\* A pair that is there in full or in part ends the request, as a success
\* when it is the same.  The two reads are one step.
CheckPair(h) ==
    /\ StageAt(h, "check")
    /\ IF pem = None /\ key = None THEN StageTo(h, "pem") ELSE Idle(h)
    /\ UNCHANGED <<site, loaded, pem, key, asked, faults, unsettled, half>>

WriteCertificate(h) ==
    /\ StageAt(h, "pem")
    /\ \/ pem' = request[h].material /\ StageTo(h, "key") /\ NoFault /\ UNCHANGED half
       \/ Fault /\ Idle(h) /\ UNCHANGED <<pem, half>>
       \/ Fault /\ Idle(h) /\ pem' = request[h].material /\ half' = TRUE
    /\ UNCHANGED <<site, loaded, key, asked, unsettled>>

\* Mutant: the certificate stays when its key cannot be written.
WriteKeyKeepsCertificate(h) ==
    /\ StageAt(h, "key") /\ Idle(h)
    /\ \/ key' = request[h].material /\ UNCHANGED <<pem, half>> /\ NoFault
       \/ Fault /\ UNCHANGED <<pem, key, half>>
    /\ UNCHANGED <<site, loaded, asked, unsettled>>

\* A key that cannot be written takes the certificate with it.  The key may
\* be in place although its write failed, and the removal may fail as well.
WritePrivateKey(h) ==
    /\ StageAt(h, "key") /\ Idle(h)
    /\ \/ key' = request[h].material /\ UNCHANGED <<pem, half>> /\ NoFault
       \/ Fault /\ pem' = None /\ UNCHANGED <<key, half>>
       \/ /\ Fault /\ half' = TRUE
          /\ \/ key' = request[h].material /\ pem' \in {None, pem}
             \/ UNCHANGED <<key, pem>>
    /\ UNCHANGED <<site, loaded, asked, unsettled>>

-----------------------------------------------------------------------------
\* The agent is stopped (its ten seconds of grace are over) or dies: the
\* handlers are gone, the files and nginx stay.
AgentRestart ==
    /\ Fault
    /\ request' = [h \in Handlers |-> None]
    /\ unsettled' = unsettled \cup {s \in Slugs : \E h \in Handlers : Busy(h) /\ request[h].slug = s}
    /\ half' = (half \/ \E h \in Handlers : StageAt(h, "key"))
    /\ UNCHANGED <<site, loaded, pem, key, asked>>

AgentInit ==
    /\ site = [s \in Slugs |-> NoSite] /\ loaded = [s \in Slugs |-> None]
    /\ pem = None /\ key = None
    /\ request = [h \in Handlers |-> None]
    /\ asked = 0 /\ faults = 0 /\ unsettled = {} /\ half = FALSE

Serve(h) ==
    ChangeFile(h) \/ Test(h) \/ Reload(h)
    \/ CheckPair(h) \/ WriteCertificate(h) \/ WritePrivateKey(h)

AgentNext ==
    \/ \E h \in Handlers : BeginApply(h) \/ BeginRemove(h) \/ BeginStage(h)
                         \/ Serve(h) \/ CallerGone(h)
    \/ AgentRestart

AgentSpec == AgentInit /\ [][AgentNext]_agentVars

\* A goroutine that can go on does.  Callers and failures promise nothing.
FairAgentSpec == AgentSpec /\ \A h \in Handlers : WF_agentVars(Serve(h))

-----------------------------------------------------------------------------
(***************************************************************************)
(* Properties.                                                             *)
(***************************************************************************)
\* The values the variables range over.
AgentTypeOK ==
    /\ site \in [Slugs -> SiteFiles]
    /\ loaded \in [Slugs -> Routes \cup {None}]
    /\ pem \in Materials \cup {None} /\ key \in Materials \cup {None}
    /\ request \in [Handlers -> SiteRequest \cup StageRequest \cup {None}]
    /\ asked \in 0..MaxRequests /\ faults \in 0..MaxFaults
    /\ unsettled \subseteq Slugs /\ half \in BOOLEAN

\* Nobody works on the site, and the last request for it did not end in the
\* middle of its restore.
Settled(s) == s \notin unsettled /\ \A h \in Handlers : Busy(h) => request[h].slug # s

\* Nginx runs for a settled site what its files say, and nginx -t accepts
\* those files, so that neither another site's request nor a restart of
\* nginx finds a broken or a different configuration: every way out of
\* Apply, Remove and restoreAfterFailure keeps files and nginx together
\* (site/store.go:45-134, 230-243), whatever other sites do meanwhile.
SettledIsServed ==
    \A s \in Slugs : Settled(s) => /\ loaded[s] = OnDisk(s)
                                   /\ ~half => Acceptable(s)

\* A request that had the site for itself and ended with a reload left what
\* it answered: the site it asked for, or after a failure the three files
\* and the running route of before (site/store.go:230-267), although the
\* reload it ended with also read the files other requests were writing.
AnswersAreTrue ==
    [][\A h \in Handlers :
          LET q == request[h]
              files == IF q.undo THEN q.prev ELSE Target(q)
          IN  Busy(h) /\ request'[h] = None /\ q.alone /\ q.slug \notin unsettled'
              => /\ site'[q.slug] = files
                 /\ loaded'[q.slug] = IF files.enabled THEN files.available ELSE None]_agentVars

\* Every request is answered, also one whose caller is gone and one that
\* fails again while it restores.
RequestsAnswered == \A h \in Handlers : []<>(request[h] = None)

\* The certificate on disk is the key's, or neither is there: a staging that
\* cannot write the key takes the certificate back (site/certificate.go:86-92).
PairAgrees == (~half /\ \A h \in Handlers : ~Staging(h)) => pem = key

\* A pair that is complete is never changed by a later staging, of the same
\* or of other material, that ran by itself (site/certificate.go:80-85).
StagedPairKept == [][~half' /\ pem # None /\ pem = key => UNCHANGED <<pem, key>>]_agentVars
=============================================================================
