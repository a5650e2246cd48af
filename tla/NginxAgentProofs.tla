-------------------------- MODULE NginxAgentProofs --------------------------
(***************************************************************************)
(* Proofs about NginxAgent, for any sites, routes, certificate material,   *)
(* number of goroutines and bounds.                                        *)
(***************************************************************************)
EXTENDS NginxAgent, TLAPS

Fields == {"available", "enabled", "credential"}

\* AgentTypeOK, and an apply has its route.
TypeInv ==
    /\ AgentTypeOK
    /\ \A h \in Handlers : Serves(h, "apply") => request[h].route \in Routes

-----------------------------------------------------------------------------
(* One request, one file.                                                  *)

LEMMA BoundFacts ==
    /\ \A n \in 0..MaxRequests : n < MaxRequests => n + 1 \in 0..MaxRequests
    /\ \A n \in 0..MaxFaults : n < MaxFaults => n + 1 \in 0..MaxFaults
    /\ 0 \in 0..MaxRequests /\ 0 \in 0..MaxFaults
<1>1. MaxRequests \in Nat /\ MaxFaults \in Nat
  BY AgentAssumption, Zenon
<1> QED
  BY <1>1

LEMMA BusyTyped ==
    ASSUME TypeInv, NEW h \in Handlers
    PROVE  /\ Busy(h) <=> request[h] \in SiteRequest
           /\ Staging(h) <=> request[h] \in StageRequest
           /\ ~(Busy(h) /\ Staging(h))
BY NoRequestAssumption DEF Busy, Staging, Serves, TypeInv, AgentTypeOK, SiteRequest, StageRequest

LEMMA NoSiteTyped == NoSite \in SiteFiles
BY DEF NoSite, SiteFiles

LEMMA TargetTyped ==
    ASSUME TypeInv, NEW h \in Handlers, Busy(h)
    PROVE  Target(request[h]) \in SiteFiles /\ Goal(request[h]) \in SiteFiles
<1>1. request[h] \in SiteRequest
  BY BusyTyped
<1>2. request[h].prev \in SiteFiles
  BY <1>1 DEF SiteRequest
<1>3. Target(request[h]) \in SiteFiles
  <2>1. CASE request[h].op = "remove"
    BY <2>1, NoSiteTyped DEF Target
  <2>2. CASE request[h].op # "remove"
    <3>1. request[h].route \in Routes
      BY <2>2 DEF Busy, Serves, TypeInv
    <3> QED
      BY <2>2, <3>1 DEF Target, SiteFiles
  <2> QED
    BY <2>1, <2>2
<1> QED
  BY <1>2, <1>3 DEF Goal

LEMMA OrderTyped == \A q, i : i \in 1..3 => Order(q)[i] \in Fields
BY DEF Order, Fields

\* What one changed file leaves of a site.
LEMMA ChangedFile ==
    ASSUME NEW old \in SiteFiles, NEW new \in SiteFiles, NEW f \in Fields
    PROVE  /\ [old EXCEPT ![f] = new[f]] \in SiteFiles
           /\ \A g \in Fields : [old EXCEPT ![f] = new[f]][g] = IF g = f THEN new[f] ELSE old[g]
<1>1. CASE f = "available"
  BY <1>1 DEF SiteFiles, Fields
<1>2. CASE f = "enabled"
  BY <1>2 DEF SiteFiles, Fields
<1>3. CASE f = "credential"
  BY <1>3 DEF SiteFiles, Fields
<1> QED
  BY <1>1, <1>2, <1>3 DEF Fields

\* A site whose three files are those of another is the other.
LEMMA SameFiles ==
    ASSUME NEW one \in SiteFiles, NEW other \in SiteFiles, \A f \in Fields : one[f] = other[f]
    PROVE  one = other
BY DEF SiteFiles, Fields

LEMMA ChangeSite ==
    ASSUME TypeInv, NEW h \in Handlers, Busy(h), request[h].step <= 3, Change(h)
    PROVE  /\ site' \in [Slugs -> SiteFiles]
           /\ \A s \in Slugs : s # request[h].slug => site'[s] = site[s]
           /\ \A g \in Fields : site'[request[h].slug][g] =
                 IF g = Order(request[h])[request[h].step] THEN Goal(request[h])[g]
                 ELSE site[request[h].slug][g]
<1> DEFINE s == request[h].slug
           f == Order(request[h])[request[h].step]
           goal == Goal(request[h])
<1>1. s \in Slugs /\ request[h].step \in 1..3
  BY BusyTyped DEF SiteRequest
<1>2. f \in Fields /\ goal \in SiteFiles /\ site[s] \in SiteFiles
  BY <1>1, OrderTyped, TargetTyped DEF TypeInv, AgentTypeOK
<1>3. site' = [site EXCEPT ![s] = [site[s] EXCEPT ![f] = goal[f]]]
  BY DEF Change, TypeInv, AgentTypeOK
<1> HIDE DEF s, f, goal
<1>4. /\ [site[s] EXCEPT ![f] = goal[f]] \in SiteFiles
      /\ \A g \in Fields : [site[s] EXCEPT ![f] = goal[f]][g] = IF g = f THEN goal[f] ELSE site[s][g]
  BY <1>2, ChangedFile
<1>5. site \in [Slugs -> SiteFiles]
  BY DEF TypeInv, AgentTypeOK
<1>6. /\ site' \in [Slugs -> SiteFiles]
      /\ \A t \in Slugs : t # s => site'[t] = site[t]
      /\ site'[s] = [site[s] EXCEPT ![f] = goal[f]]
  BY <1>1, <1>3, <1>4, <1>5
<1> QED
  BY <1>4, <1>6 DEF s, f, goal

\* A request that goes on, or turns to its restore, stays the request it was.
LEMMA ProceedTyped ==
    ASSUME TypeInv, NEW h \in Handlers, Busy(h), request[h].step <= 4, Proceed(h)
    PROVE  /\ request'[h] \in SiteRequest /\ request'[h].step = request[h].step + 1
           /\ request'[h].undo = request[h].undo
           /\ request'[h].op = request[h].op /\ request'[h].slug = request[h].slug
           /\ request'[h].route = request[h].route /\ request'[h].prev = request[h].prev
           /\ request'[h].live = request[h].live /\ request'[h].alone = request[h].alone
           /\ request' = [request EXCEPT ![h] = request'[h]]
<1>1. request[h] \in SiteRequest
  BY BusyTyped
<1>2. request' = [request EXCEPT ![h] = [request[h] EXCEPT !.step = @ + 1]]
  BY DEF Proceed, TypeInv, AgentTypeOK
<1>3. request'[h] = [request[h] EXCEPT !.step = @ + 1]
  BY <1>2 DEF TypeInv, AgentTypeOK
<1>4. request[h].step + 1 \in 1..5
  BY <1>1 DEF SiteRequest
<1> DEFINE q == [request[h] EXCEPT !.step = @ + 1]
<1>5. /\ q \in SiteRequest /\ q.step = request[h].step + 1 /\ q.undo = request[h].undo
      /\ q.op = request[h].op /\ q.slug = request[h].slug
      /\ q.route = request[h].route /\ q.prev = request[h].prev
      /\ q.live = request[h].live /\ q.alone = request[h].alone
  BY <1>1, <1>4 DEF SiteRequest
<1> HIDE DEF q
<1> QED
  BY <1>2, <1>3, <1>5 DEF q

LEMMA UndoTyped ==
    ASSUME TypeInv, NEW h \in Handlers, Busy(h), Undo(h)
    PROVE  /\ request'[h] \in SiteRequest /\ request'[h].step = 1 /\ request'[h].undo = TRUE
           /\ request'[h].op = request[h].op /\ request'[h].slug = request[h].slug
           /\ request'[h].route = request[h].route /\ request'[h].prev = request[h].prev
           /\ request'[h].live = request[h].live /\ request'[h].alone = request[h].alone
           /\ request' = [request EXCEPT ![h] = request'[h]]
<1>1. request[h] \in SiteRequest
  BY BusyTyped
<1>2. request' = [request EXCEPT ![h] = [request[h] EXCEPT !.undo = TRUE, !.step = 1]]
  BY DEF Undo, TypeInv, AgentTypeOK
<1>3. request'[h] = [request[h] EXCEPT !.undo = TRUE, !.step = 1]
  BY <1>2 DEF TypeInv, AgentTypeOK
<1> DEFINE q == [request[h] EXCEPT !.undo = TRUE, !.step = 1]
<1>4. [request[h] EXCEPT !.undo = TRUE] \in SiteRequest
  BY <1>1 DEF SiteRequest
<1>5. q \in SiteRequest
  <2> DEFINE mid == [request[h] EXCEPT !.undo = TRUE]
  <2>1. q = [mid EXCEPT !.step = 1]
    BY <1>1 DEF SiteRequest
  <2>2. mid \in SiteRequest
    BY <1>4
  <2> HIDE DEF mid, q
  <2>3. [mid EXCEPT !.step = 1] \in SiteRequest
    BY <2>2 DEF SiteRequest
  <2> QED
    BY <2>1, <2>3
<1>6. q.step = 1 /\ q.op = request[h].op /\ q.slug = request[h].slug
  BY <1>1 DEF SiteRequest
<1>7. q.route = request[h].route /\ q.prev = request[h].prev
  BY <1>1 DEF SiteRequest
<1>8. q.undo = TRUE
  BY <1>1 DEF SiteRequest
<1>9. q.live = request[h].live /\ q.alone = request[h].alone
  BY <1>1 DEF SiteRequest
<1> HIDE DEF q
<1> QED
  BY <1>2, <1>3, <1>5, <1>6, <1>7, <1>8, <1>9 DEF q

-----------------------------------------------------------------------------
(* The steps of the handlers.                                              *)

\* The request of h is the same one, at some step, and the others stand still.
Moved(h) ==
    /\ request' = [request EXCEPT ![h] = request'[h]]
    /\ request'[h] \in SiteRequest
    /\ request'[h].op = request[h].op /\ request'[h].slug = request[h].slug
    /\ request'[h].route = request[h].route /\ request'[h].prev = request[h].prev
    /\ request'[h].live = request[h].live /\ request'[h].alone = request[h].alone

\* It went one step further, with its file changed if the step was about one.
Onward(h) ==
    /\ Moved(h) /\ unsettled' = unsettled
    /\ request'[h].step = request[h].step + 1 /\ request'[h].undo = request[h].undo
    /\ IF request[h].step <= 3 THEN Change(h) ELSE site' = site

\* It failed and begins to restore; a restore that fails gives up (GiveUp).
Restoring(h) ==
    /\ Moved(h) /\ unsettled' = unsettled
    /\ request'[h].step = 1 /\ request'[h].undo = TRUE

\* It was answered after a reload.
Answered(h) ==
    /\ Idle(h) /\ request[h].step = 5 /\ unsettled' = {}
    /\ site' = site /\ ConfigValid /\ Loads

LEMMA FailedCases ==
    ASSUME TypeInv, NEW h \in Handlers, Busy(h), Failed(h)
    PROVE  Restoring(h) \/ GiveUp(h)
<1>1. CASE request[h].undo
  BY <1>1 DEF Failed
<1>2. CASE ~request[h].undo
  BY <1>2, UndoTyped DEF Failed, Restoring, Moved
<1> QED
  BY <1>1, <1>2

\* What a request for a site does at each of its steps.
LEMMA SiteStep ==
    ASSUME TypeInv, NEW h \in Handlers, ChangeFile(h) \/ Test(h) \/ Reload(h)
    PROVE  /\ Busy(h) /\ UNCHANGED <<pem, key, asked, half>> /\ faults' \in 0..MaxFaults
           /\ site' = site \/ (request[h].step <= 3 /\ Change(h))
           /\ loaded' = loaded \/ (site' = site /\ ConfigValid /\ Loads)
           /\ Onward(h) \/ Restoring(h) \/ GiveUp(h) \/ Answered(h)
<1>1. Busy(h) /\ UNCHANGED <<pem, key, asked, half>>
  BY DEF ChangeFile, Test, Reload
<1>2. request[h].step \in 1..5
  BY <1>1, BusyTyped DEF SiteRequest
<1>3. Fault => faults' \in 0..MaxFaults
  BY BoundFacts DEF Fault, TypeInv, AgentTypeOK
<1>4. NoFault => faults' \in 0..MaxFaults
  BY DEF NoFault, TypeInv, AgentTypeOK
<1>5. Proceed(h) /\ request[h].step <= 4 => Moved(h) /\ request'[h].step = request[h].step + 1
                                            /\ request'[h].undo = request[h].undo
  BY <1>1, ProceedTyped DEF Moved
<1>6. Failed(h) => Restoring(h) \/ GiveUp(h)
  BY <1>1, FailedCases
<1>7. CASE ChangeFile(h)
  <2>1. request[h].step <= 3 /\ loaded' = loaded
    BY <1>7 DEF ChangeFile
  <2>2. CASE Change(h) /\ Proceed(h) /\ NoFault /\ UNCHANGED unsettled
    BY <1>1, <1>2, <1>4, <1>5, <2>1, <2>2 DEF Onward
  <2>3. CASE Fault /\ Failed(h) /\ (UNCHANGED site \/ ChangeUnsynced(h))
    BY <1>1, <1>3, <1>6, <2>1, <2>3 DEF ChangeUnsynced
  <2> QED
    BY <1>7, <2>2, <2>3 DEF ChangeFile
<1>8. CASE Test(h)
  <2>1. request[h].step = 4 /\ loaded' = loaded /\ site' = site
    BY <1>8 DEF Test
  <2>2. CASE Proceed(h) /\ NoFault /\ UNCHANGED unsettled
    BY <1>1, <1>4, <1>5, <2>1, <2>2 DEF Onward
  <2>3. CASE Failed(h) /\ (NoFault \/ Fault)
    BY <1>1, <1>3, <1>4, <1>6, <2>1, <2>3
  <2> QED
    BY <1>8, <2>2, <2>3 DEF Test
<1>9. CASE Reload(h)
  <2>1. request[h].step = 5 /\ site' = site
    BY <1>9 DEF Reload
  <2>2. CASE ConfigValid /\ Loads /\ Idle(h) /\ NoFault /\ unsettled' = {}
    BY <1>1, <1>4, <2>1, <2>2 DEF Answered
  <2>3. CASE Failed(h) /\ NoFault /\ UNCHANGED loaded
    BY <1>1, <1>4, <1>6, <2>1, <2>3
  <2>4. CASE Fault /\ Failed(h) /\ (UNCHANGED loaded \/ (ConfigValid /\ Loads))
    BY <1>1, <1>3, <1>6, <2>1, <2>4
  <2> QED
    BY <1>9, <2>2, <2>3, <2>4 DEF Reload
<1> QED
  BY <1>7, <1>8, <1>9

\* A new request for a site, and what it means to the others.
LEMMA BeginStep ==
    ASSUME TypeInv, NEW h \in Handlers, BeginApply(h) \/ BeginRemove(h)
    PROVE  /\ request[h] = None /\ asked' \in 0..MaxRequests
           /\ UNCHANGED <<site, loaded, pem, key, faults, unsettled, half>>
           /\ request'[h] \in SiteRequest /\ request'[h].step = 1
           /\ request'[h].op = "apply" => request'[h].route \in Routes
           /\ request'[h].alone => \A g \in Handlers : ~(Busy(g) /\ request[g].slug = request'[h].slug)
           /\ DOMAIN request' = Handlers
           /\ \A g \in Handlers \ {h} :
                 \/ request'[g] = request[g] /\ ~(Busy(g) /\ request[g].slug = request'[h].slug)
                 \/ /\ Busy(g) /\ request[g].slug = request'[h].slug
                    /\ request'[g] = [request[g] EXCEPT !.alone = FALSE]
<1>1. PICK op \in {"apply", "remove"}, s \in Slugs, r \in Routes \cup {None} :
          Begin(h, op, s, r) /\ (op = "apply" => r \in Routes)
  BY DEF BeginApply, BeginRemove
<1> DEFINE q == Newcomer(op, s, r)
<1>2. q \in SiteRequest /\ q.slug = s /\ q.step = 1 /\ q.op = op /\ q.route = r
  <2>1. site[s] \in SiteFiles
    BY DEF TypeInv, AgentTypeOK
  <2>2. (\A g \in Handlers : ~(Busy(g) /\ request[g].slug = s)) \in BOOLEAN
    OBVIOUS
  <2> QED
    BY <2>1, <2>2 DEF Newcomer, SiteRequest
<1>3. q.alone => \A g \in Handlers : ~(Busy(g) /\ request[g].slug = s)
  BY DEF Newcomer
<1>4. request' = Joined(h, q) /\ request[h] = None /\ asked < MaxRequests /\ asked' = asked + 1
  BY <1>1 DEF Begin
<1>5. UNCHANGED <<site, loaded, pem, key, faults, unsettled, half>>
  BY <1>1 DEF Begin
<1> HIDE DEF q
<1>6. request'[h] = q /\ DOMAIN request' = Handlers
  BY <1>4 DEF Joined
<1>7. \A g \in Handlers \ {h} :
         \/ request'[g] = request[g] /\ ~(Busy(g) /\ request[g].slug = s)
         \/ /\ Busy(g) /\ request[g].slug = s
            /\ request'[g] = [request[g] EXCEPT !.alone = FALSE]
  BY <1>2, <1>4 DEF Joined
<1>8. asked' \in 0..MaxRequests
  BY <1>4, BoundFacts DEF TypeInv, AgentTypeOK
<1> QED
  BY <1>1, <1>2, <1>3, <1>4, <1>5, <1>6, <1>7, <1>8

\* Being taken off the list of lone requests changes nothing else.
LEMMA NotAlone ==
    ASSUME NEW q \in SiteRequest
    PROVE  /\ [q EXCEPT !.alone = FALSE] \in SiteRequest
           /\ [q EXCEPT !.alone = FALSE].op = q.op /\ [q EXCEPT !.alone = FALSE].slug = q.slug
           /\ [q EXCEPT !.alone = FALSE].route = q.route
           /\ [q EXCEPT !.alone = FALSE].alone = FALSE
BY DEF SiteRequest

LEMMA Hangup ==
    ASSUME TypeInv, NEW h \in Handlers, CallerGone(h)
    PROVE  /\ Busy(h) /\ faults' \in 0..MaxFaults
           /\ UNCHANGED <<site, loaded, pem, key, asked, unsettled, half>>
           /\ request' = [request EXCEPT ![h] = request'[h]]
           /\ request'[h] \in SiteRequest
           /\ request'[h].op = request[h].op /\ request'[h].slug = request[h].slug
           /\ request'[h].route = request[h].route /\ request'[h].prev = request[h].prev
           /\ request'[h].step = request[h].step /\ request'[h].undo = request[h].undo
           /\ request'[h].alone = request[h].alone
<1>1. Busy(h) /\ UNCHANGED <<site, loaded, pem, key, asked, unsettled, half>>
  BY DEF CallerGone
<1>2. request[h] \in SiteRequest
  BY <1>1, BusyTyped
<1> DEFINE q == [request[h] EXCEPT !.live = FALSE]
<1>3. request' = [request EXCEPT ![h] = q] /\ request'[h] = q
  BY DEF CallerGone, TypeInv, AgentTypeOK
<1>4. q \in SiteRequest /\ q.step = request[h].step
  BY <1>2 DEF SiteRequest
<1>5. q.op = request[h].op /\ q.slug = request[h].slug /\ q.route = request[h].route /\ q.prev = request[h].prev
  BY <1>2 DEF SiteRequest
<1>6. q.undo = request[h].undo /\ q.alone = request[h].alone
  BY <1>2 DEF SiteRequest
<1>7. faults' \in 0..MaxFaults
  BY BoundFacts DEF CallerGone, Fault, TypeInv, AgentTypeOK
<1> HIDE DEF q
<1> QED
  BY <1>1, <1>3, <1>4, <1>5, <1>6, <1>7

\* A staging begins, moves on, or ends.
StageMoved(h) ==
    /\ request' = [request EXCEPT ![h] = request'[h]]
    /\ request'[h] \in StageRequest

LEMMA StageStep ==
    ASSUME TypeInv, NEW h \in Handlers,
           BeginStage(h) \/ CheckPair(h) \/ WriteCertificate(h) \/ WritePrivateKey(h)
    PROVE  /\ ~Busy(h)
           /\ UNCHANGED <<site, loaded, unsettled>>
           /\ asked' \in 0..MaxRequests /\ faults' \in 0..MaxFaults
           /\ pem' \in Materials \cup {None} /\ key' \in Materials \cup {None} /\ half' \in BOOLEAN
           /\ half => half'
           /\ StageMoved(h) \/ Idle(h)
<1>1. Fault => faults' \in 0..MaxFaults
  BY BoundFacts DEF Fault, TypeInv, AgentTypeOK
<1>2. /\ NoFault => faults' \in 0..MaxFaults
      /\ pem \in Materials \cup {None} /\ key \in Materials \cup {None} /\ half \in BOOLEAN
      /\ faults \in 0..MaxFaults /\ asked \in 0..MaxRequests
  BY DEF NoFault, TypeInv, AgentTypeOK
<1>3. CASE BeginStage(h)
  <2>1. PICK m \in Materials :
           request' = [request EXCEPT ![h] = [op |-> "stage", material |-> m, step |-> "check"]]
    BY <1>3 DEF BeginStage
  <2>2. [op |-> "stage", material |-> m, step |-> "check"] \in StageRequest
    BY DEF StageRequest
  <2>3. StageMoved(h)
    BY <2>1, <2>2 DEF StageMoved, TypeInv, AgentTypeOK
  <2>4. asked' \in 0..MaxRequests
    BY <1>3, BoundFacts DEF BeginStage, TypeInv, AgentTypeOK
  <2>5. half' \in BOOLEAN /\ (half => half')
    BY <1>3 DEF BeginStage
  <2> QED
    BY <1>2, <1>3, <2>3, <2>4, <2>5 DEF BeginStage, Busy, Serves
<1>4. ASSUME Staging(h) PROVE /\ ~Busy(h) /\ request[h].material \in Materials
                              /\ \A step \in {"pem", "key"} : StageTo(h, step) => StageMoved(h)
  <2>1. request[h] \in StageRequest /\ ~Busy(h)
    BY <1>4, BusyTyped
  <2>2. request[h].material \in Materials
    BY <2>1 DEF StageRequest
  <2>3. ASSUME NEW step \in {"pem", "key"}, StageTo(h, step) PROVE StageMoved(h)
    <3>1. request' = [request EXCEPT ![h] = [request[h] EXCEPT !.step = step]]
      BY <2>3 DEF StageTo, TypeInv, AgentTypeOK
    <3>2. [request[h] EXCEPT !.step = step] \in StageRequest
      BY <2>1 DEF StageRequest
    <3> QED
      BY <3>1, <3>2 DEF StageMoved, TypeInv, AgentTypeOK
  <2> QED
    BY <2>1, <2>2, <2>3
<1>5. CASE CheckPair(h)
  BY <1>2, <1>4, <1>5 DEF CheckPair, StageAt
<1>6. CASE WriteCertificate(h)
  <2>1. Staging(h) /\ UNCHANGED <<site, loaded, key, asked, unsettled>>
    BY <1>6 DEF WriteCertificate, StageAt
  <2>2. /\ pem' \in {pem, request[h].material} /\ (Fault \/ NoFault)
        /\ StageTo(h, "key") \/ Idle(h)
    BY <1>6 DEF WriteCertificate
  <2>3. half' \in BOOLEAN /\ (half => half')
    <3>1. half' = half \/ half' = TRUE
      BY <1>6 DEF WriteCertificate
    <3> QED
      BY <1>2, <3>1, Zenon
  <2> QED
    BY <1>1, <1>2, <1>4, <2>1, <2>2, <2>3
<1>7. CASE WritePrivateKey(h)
  <2>1. Staging(h) /\ Idle(h) /\ UNCHANGED <<site, loaded, asked, unsettled>>
    BY <1>7 DEF WritePrivateKey, StageAt
  <2>2. /\ pem' \in {pem, None} /\ key' \in {key, request[h].material}
        /\ (Fault \/ NoFault)
    BY <1>7 DEF WritePrivateKey
  <2>3. half' \in BOOLEAN /\ (half => half')
    <3>1. half' = half \/ half' = TRUE
      BY <1>7 DEF WritePrivateKey
    <3> QED
      BY <1>2, <3>1, Zenon
  <2> QED
    BY <1>1, <1>2, <1>4, <2>1, <2>2, <2>3
<1> QED
  BY <1>3, <1>5, <1>6, <1>7

\* Every action keeps the types.
LEMMA TypeNext == TypeInv /\ [AgentNext]_agentVars => TypeInv'
<1> SUFFICES ASSUME TypeInv, [AgentNext]_agentVars PROVE TypeInv'
  OBVIOUS
<1>1. ASSUME NEW h \in Handlers, BeginApply(h) \/ BeginRemove(h) PROVE TypeInv'
  <2>1. ASSUME NEW g \in Handlers
        PROVE  /\ request'[g] \in SiteRequest \cup StageRequest \cup {None}
               /\ (request'[g] # None /\ request'[g].op = "apply") => request'[g].route \in Routes
    <3>1. CASE g = h
      BY <1>1, <3>1, BeginStep
    <3>2. CASE g # h /\ request'[g] = request[g]
      BY <3>2 DEF TypeInv, AgentTypeOK, Serves
    <3>3. CASE g # h /\ Busy(g) /\ request'[g] = [request[g] EXCEPT !.alone = FALSE]
      <4>1. request[g] \in SiteRequest
        BY <3>3, BusyTyped
      <4>2. request[g].op = "apply" => request[g].route \in Routes
        BY <3>3 DEF TypeInv, Busy, Serves
      <4> QED
        BY <3>3, <4>1, <4>2, NotAlone
    <3> QED
      BY <1>1, <3>1, <3>2, <3>3, BeginStep
  <2>2. DOMAIN request' = Handlers /\ asked' \in 0..MaxRequests
    BY <1>1, BeginStep
  <2>3. UNCHANGED <<site, loaded, pem, key, faults, unsettled, half>>
    BY <1>1, BeginStep
  <2>4. request' \in [Handlers -> SiteRequest \cup StageRequest \cup {None}]
    <3>1. request' = [g \in Handlers |-> request'[g]]
      BY <1>1 DEF BeginApply, BeginRemove, Begin, Joined
    <3> QED
      BY <2>1, <3>1
  <2> QED
    BY <2>1, <2>2, <2>3, <2>4 DEF TypeInv, AgentTypeOK, Serves
<1>2. ASSUME NEW h \in Handlers, ChangeFile(h) \/ Test(h) \/ Reload(h) PROVE TypeInv'
  <2>1. /\ Busy(h) /\ UNCHANGED <<pem, key, asked, half>> /\ faults' \in 0..MaxFaults
        /\ request[h] \in SiteRequest
    BY <1>2, SiteStep, BusyTyped
  <2>2. site' \in [Slugs -> SiteFiles]
    BY <1>2, <2>1, SiteStep, ChangeSite DEF TypeInv, AgentTypeOK
  <2>3. loaded' \in [Slugs -> Routes \cup {None}]
    <3>1. \A s \in Slugs : OnDisk(s) \in Routes \cup {None}
      BY DEF OnDisk, TypeInv, AgentTypeOK, SiteFiles
    <3> QED
      BY <1>2, <3>1, SiteStep DEF Loads, TypeInv, AgentTypeOK
  <2>4. /\ request' \in [Handlers -> SiteRequest \cup StageRequest \cup {None}]
        /\ unsettled' \subseteq Slugs
        /\ \A g \in Handlers : Serves(g, "apply")' => request'[g].route \in Routes
    <3>1. request[h].slug \in Slugs
      BY <2>1 DEF SiteRequest
    <3>2. Serves(h, "apply") <=> request[h].op = "apply"
      BY <2>1, NoRequestAssumption DEF Serves
    <3>3. CASE Moved(h) /\ unsettled' = unsettled
      BY <3>2, <3>3 DEF Moved, TypeInv, AgentTypeOK, Serves
    <3>4. CASE Idle(h) /\ unsettled' \in {{}, unsettled \cup {request[h].slug}}
      BY <3>1, <3>4 DEF Idle, TypeInv, AgentTypeOK, Serves
    <3> QED
      BY <1>2, <3>3, <3>4, SiteStep DEF Onward, Restoring, GiveUp, Answered
  <2> QED
    BY <2>1, <2>2, <2>3, <2>4 DEF TypeInv, AgentTypeOK
<1>3. ASSUME NEW h \in Handlers,
             BeginStage(h) \/ CheckPair(h) \/ WriteCertificate(h) \/ WritePrivateKey(h)
      PROVE  TypeInv'
  <2>1. /\ request' \in [Handlers -> SiteRequest \cup StageRequest \cup {None}]
        /\ \A g \in Handlers : Serves(g, "apply")' => request'[g].route \in Routes
    <3>1. CASE StageMoved(h)
      <4>1. request'[h].op = "stage"
        BY <3>1 DEF StageMoved, StageRequest
      <4> QED
        BY <3>1, <4>1 DEF StageMoved, TypeInv, AgentTypeOK, Serves
    <3>2. CASE Idle(h)
      BY <3>2 DEF Idle, TypeInv, AgentTypeOK, Serves
    <3> QED
      BY <1>3, <3>1, <3>2, StageStep
  <2>2. /\ UNCHANGED <<site, loaded, unsettled>>
        /\ asked' \in 0..MaxRequests /\ faults' \in 0..MaxFaults
        /\ pem' \in Materials \cup {None} /\ key' \in Materials \cup {None} /\ half' \in BOOLEAN
    BY <1>3, StageStep
  <2> QED
    BY <2>1, <2>2 DEF TypeInv, AgentTypeOK
<1>4. ASSUME NEW h \in Handlers, CallerGone(h) PROVE TypeInv'
  <2>1. /\ Busy(h) /\ request' = [request EXCEPT ![h] = request'[h]]
        /\ request'[h] \in SiteRequest
        /\ request'[h].op = request[h].op /\ request'[h].route = request[h].route
    BY <1>4, Hangup
  <2>2. Serves(h, "apply") <=> request[h].op = "apply"
    BY <2>1 DEF Busy, Serves
  <2>3. /\ request' \in [Handlers -> SiteRequest \cup StageRequest \cup {None}]
        /\ \A g \in Handlers : Serves(g, "apply")' => request'[g].route \in Routes
    BY <2>1, <2>2 DEF TypeInv, AgentTypeOK, Serves
  <2>4. /\ UNCHANGED <<site, loaded, pem, key, asked, unsettled, half>>
        /\ faults' \in 0..MaxFaults
    BY <1>4, Hangup
  <2> QED
    BY <2>3, <2>4 DEF TypeInv, AgentTypeOK
<1>5. CASE AgentRestart
  BY <1>5, BoundFacts DEF AgentRestart, Fault, TypeInv, AgentTypeOK, Serves
<1>6. CASE UNCHANGED agentVars
  BY <1>6 DEF agentVars, TypeInv, AgentTypeOK, Serves
<1> QED
  BY <1>1, <1>2, <1>3, <1>4, <1>5, <1>6 DEF AgentNext, Serve

LEMMA TypeInit == AgentInit => TypeInv
BY NoSiteTyped, BoundFacts DEF AgentInit, TypeInv, AgentTypeOK, Serves

\* The variables of the agent keep their types under every handler and fault.
THEOREM TypeCorrect == AgentSpec => []AgentTypeOK
<1>1. TypeInv => AgentTypeOK
  BY DEF TypeInv
<1> QED
  BY <1>1, TypeInit, TypeNext, PTL DEF AgentSpec

-----------------------------------------------------------------------------
(* The certificate pair.                                                   *)

\* While no staging overlapped another or left a file behind, at most one is
\* at work, and the two files are what its step says.
PairInv ==
    ~half =>
       /\ \A g, h \in Handlers : Staging(g) /\ Staging(h) => g = h
       /\ \A h \in Handlers :
             /\ StageAt(h, "check") => pem = key
             /\ StageAt(h, "pem") => pem = None /\ key = None
             /\ StageAt(h, "key") => pem = request[h].material /\ key = None
       /\ (\A h \in Handlers : ~Staging(h)) => pem = key

\* Requests for sites do not touch stagings.
LEMMA StagersKept ==
    ASSUME TypeInv, TypeInv', PairInv, UNCHANGED <<pem, key, half>>,
           \A g \in Handlers : request'[g] = request[g] \/ (~Staging(g) /\ ~Staging(g)')
    PROVE  PairInv'
<1>1. \A g \in Handlers : Staging(g)' <=> Staging(g)
  BY DEF Staging, Serves
<1>2. \A g \in Handlers, step \in {"check", "pem", "key"} : StageAt(g, step)' <=> StageAt(g, step)
  BY <1>1 DEF StageAt
<1>3. \A g \in Handlers : Staging(g) => request'[g] = request[g]
  OBVIOUS
<1> QED
  BY <1>1, <1>2, <1>3 DEF PairInv, StageAt

LEMMA PairNext ==
    ASSUME TypeInv, TypeInv', PairInv, [AgentNext]_agentVars
    PROVE  /\ PairInv'
           /\ half => half'
           /\ (~half' /\ pem # None /\ pem = key) => UNCHANGED <<pem, key>>
<1>0. half \in BOOLEAN /\ half' \in BOOLEAN
  BY DEF TypeInv, AgentTypeOK
<1>1. ASSUME NEW h \in Handlers, BeginApply(h) \/ BeginRemove(h)
      PROVE  PairInv' /\ UNCHANGED <<pem, key, half>>
  <2>1. UNCHANGED <<pem, key, half>>
    BY <1>1, BeginStep
  <2>2. ASSUME NEW g \in Handlers, request'[g] # request[g]
        PROVE  ~Staging(g) /\ ~Staging(g)'
    <3>1. CASE g = h
      BY <1>1, <3>1, BeginStep, NoRequestAssumption DEF Staging, Serves, SiteRequest
    <3>2. CASE g # h
      <4>1. Busy(g) /\ request'[g] = [request[g] EXCEPT !.alone = FALSE]
        BY <1>1, <2>2, <3>2, BeginStep
      <4>2. request[g] \in SiteRequest
        BY <4>1, BusyTyped
      <4>3. request'[g] \in SiteRequest
        BY <4>1, <4>2, NotAlone
      <4> QED
        BY <4>2, <4>3 DEF Staging, Serves, SiteRequest
    <3> QED
      BY <3>1, <3>2
  <2> QED
    BY <2>1, <2>2, StagersKept
<1>2. ASSUME NEW h \in Handlers, ChangeFile(h) \/ Test(h) \/ Reload(h)
      PROVE  PairInv' /\ UNCHANGED <<pem, key, half>>
  <2>1. Busy(h) /\ UNCHANGED <<pem, key, half>> /\ (Moved(h) \/ Idle(h))
    BY <1>2, SiteStep DEF Onward, Restoring, GiveUp, Answered
  <2>2. \A g \in Handlers \ {h} : request'[g] = request[g]
    BY <2>1 DEF Moved, Idle, TypeInv, AgentTypeOK
  <2>3. ~Staging(h)
    BY <2>1, BusyTyped
  <2>4. ~Staging(h)'
    BY <2>1 DEF Moved, Idle, TypeInv, AgentTypeOK, Staging, Serves, SiteRequest
  <2> QED
    BY <2>1, <2>2, <2>3, <2>4, StagersKept
<1>3. ASSUME NEW h \in Handlers, CallerGone(h)
      PROVE  PairInv' /\ UNCHANGED <<pem, key, half>>
  <2>1. /\ Busy(h) /\ UNCHANGED <<pem, key, half>>
        /\ request' = [request EXCEPT ![h] = request'[h]] /\ request'[h] \in SiteRequest
    BY <1>3, Hangup
  <2>2. \A g \in Handlers \ {h} : request'[g] = request[g]
    BY <2>1 DEF TypeInv, AgentTypeOK
  <2>3. ~Staging(h) /\ ~Staging(h)'
    BY <2>1, BusyTyped DEF Staging, Serves, SiteRequest
  <2> QED
    BY <2>1, <2>2, <2>3, StagersKept
<1>4. ASSUME NEW h \in Handlers, BeginStage(h)
      PROVE  PairInv' /\ UNCHANGED <<pem, key>> /\ (half => half')
  <2>1. UNCHANGED <<pem, key>> /\ request[h] = None
    BY <1>4 DEF BeginStage
  <2>2. PICK m \in Materials :
           request' = [request EXCEPT ![h] = [op |-> "stage", material |-> m, step |-> "check"]]
    BY <1>4 DEF BeginStage
  <2> DEFINE q == [op |-> "stage", material |-> m, step |-> "check"]
  <2>7. q \in StageRequest /\ q # None /\ q.step = "check"
    BY NoRequestAssumption DEF StageRequest
  <2> HIDE DEF q
  <2>3. /\ request'[h] # None /\ request'[h].step = "check"
        /\ \A g \in Handlers \ {h} : request'[g] = request[g]
    BY <2>2, <2>7 DEF q, TypeInv, AgentTypeOK
  <2>4. ~half' => (~half /\ \A g \in Handlers : ~Staging(g))
    BY <1>0, <1>4 DEF BeginStage
  <2>5. ASSUME ~half' PROVE pem' = key' /\ \A g \in Handlers \ {h} : ~Staging(g)'
    BY <2>1, <2>3, <2>4, <2>5 DEF PairInv, Staging, Serves
  <2>6. PairInv'
    BY <2>3, <2>5 DEF PairInv, StageAt, Staging
  <2> QED
    BY <1>4, <2>1, <2>6, StageStep
<1>5. ASSUME NEW h \in Handlers, CheckPair(h) \/ WriteCertificate(h) \/ WritePrivateKey(h)
      PROVE  /\ PairInv' /\ (half => half')
             /\ (~half' /\ pem # None /\ pem = key) => UNCHANGED <<pem, key>>
  <2>1. /\ Staging(h) /\ (half => half')
        /\ \A g \in Handlers \ {h} : request'[g] = request[g]
    BY <1>5, StageStep DEF CheckPair, WriteCertificate, WritePrivateKey, StageAt, StageMoved, Idle,
                           TypeInv, AgentTypeOK
  <2>2. request[h] \in StageRequest
    BY <2>1, BusyTyped
  <2>3. ASSUME ~half'
        PROVE  /\ PairInv'
               /\ (pem # None /\ pem = key) => UNCHANGED <<pem, key>>
    <3>1. ~half /\ \A g \in Handlers \ {h} : ~Staging(g)
      BY <1>0, <2>1, <2>3 DEF PairInv
    <3>2. \A g \in Handlers \ {h} : ~Staging(g)'
      BY <2>1, <3>1 DEF Staging, Serves
    <3>3. CASE CheckPair(h)
      <4>1. pem = key /\ UNCHANGED <<pem, key>>
        BY <3>1, <3>3 DEF CheckPair, PairInv
      <4>2. CASE Idle(h)
        <5>1. ~Staging(h)'
          BY <4>2 DEF Idle, TypeInv, AgentTypeOK, Staging, Serves
        <5> QED
          BY <3>2, <4>1, <5>1 DEF PairInv, StageAt
      <4>3. CASE pem = None /\ key = None /\ StageTo(h, "pem")
        <5>1. request'[h].step = "pem"
          BY <2>2, <4>3 DEF StageTo, TypeInv, AgentTypeOK, StageRequest
        <5>2. Staging(h)'
          BY <2>2, <4>3, StageStep, <3>3, NoRequestAssumption
             DEF StageMoved, StageTo, Staging, Serves, TypeInv, AgentTypeOK, StageRequest
        <5> QED
          BY <3>2, <4>1, <4>3, <5>1, <5>2 DEF PairInv, StageAt
      <4> QED
        BY <3>3, <4>1, <4>2, <4>3 DEF CheckPair
    <3>4. CASE WriteCertificate(h)
      <4>1. pem = None /\ key = None /\ key' = key
        BY <3>1, <3>4 DEF WriteCertificate, PairInv
      <4>2. CASE pem' = request[h].material /\ StageTo(h, "key")
        <5>1. request'[h].step = "key" /\ request'[h].material = request[h].material
          BY <2>2, <4>2 DEF StageTo, TypeInv, AgentTypeOK, StageRequest
        <5>2. Staging(h)'
          BY <2>2, <4>2, StageStep, <3>4, NoRequestAssumption
             DEF StageMoved, StageTo, Staging, Serves, TypeInv, AgentTypeOK, StageRequest
        <5> QED
          BY <3>2, <4>1, <4>2, <5>1, <5>2 DEF PairInv, StageAt
      <4>3. CASE Idle(h) /\ pem' = pem
        <5>1. ~Staging(h)'
          BY <4>3 DEF Idle, TypeInv, AgentTypeOK, Staging, Serves
        <5> QED
          BY <3>2, <4>1, <4>3, <5>1 DEF PairInv, StageAt
      <4> QED
        BY <2>3, <3>4, <4>2, <4>3, <4>1 DEF WriteCertificate
    <3>5. CASE WritePrivateKey(h)
      <4>1. pem = request[h].material /\ key = None /\ Idle(h)
        BY <3>1, <3>5 DEF WritePrivateKey, PairInv
      <4>2. ~Staging(h)'
        BY <4>1 DEF Idle, TypeInv, AgentTypeOK, Staging, Serves
      <4>3. pem' = key'
        BY <2>3, <3>5, <4>1 DEF WritePrivateKey
      <4> QED
        BY <3>2, <4>1, <4>2, <4>3 DEF PairInv, StageAt
    <3> QED
      BY <1>5, <3>3, <3>4, <3>5
  <2>4. half' => PairInv'
    BY DEF PairInv
  <2> QED
    BY <1>0, <2>1, <2>3, <2>4
<1>6. CASE AgentRestart
  <2>1. UNCHANGED <<pem, key>> /\ \A h \in Handlers : request'[h] = None
    BY <1>6 DEF AgentRestart
  <2>2. half => half'
    BY <1>6 DEF AgentRestart
  <2>3. \A h \in Handlers : ~Staging(h)'
    BY <2>1 DEF Staging, Serves
  <2>4. ASSUME ~half' PROVE pem = key
    <3>1. ~half /\ \A h \in Handlers : ~StageAt(h, "key")
      BY <1>0, <1>6, <2>4 DEF AgentRestart
    <3>2. \A h \in Handlers : Staging(h) => StageAt(h, "check") \/ StageAt(h, "pem")
      <4>1. \A h \in Handlers : Staging(h) => request[h].step \in {"check", "pem", "key"}
        BY BusyTyped DEF StageRequest
      <4> QED
        BY <3>1, <4>1 DEF StageAt
    <3> QED
      BY <3>1, <3>2 DEF PairInv
  <2> QED
    BY <2>1, <2>2, <2>3, <2>4 DEF PairInv, StageAt
<1>7. CASE UNCHANGED agentVars
  BY <1>7 DEF agentVars, PairInv, StageAt, Staging, Serves
<1> QED
  BY <1>0, <1>1, <1>2, <1>3, <1>4, <1>5, <1>6, <1>7 DEF AgentNext, Serve

LEMMA PairAlways == AgentSpec => [](TypeInv /\ PairInv)
<1>1. AgentInit => TypeInv /\ PairInv
  BY TypeInit DEF AgentInit, PairInv, StageAt, Staging, Serves
<1>2. TypeInv /\ PairInv /\ [AgentNext]_agentVars => (TypeInv /\ PairInv)'
  BY TypeNext, PairNext
<1> QED
  BY <1>1, <1>2, PTL DEF AgentSpec

\* A certificate is never left with another key, or without one, unless two
\* stagings overlapped or one was cut off between its writes, for any number
\* of stagings of any material.
THEOREM PairsAgree == AgentSpec => []PairAgrees
<1>1. TypeInv /\ PairInv => PairAgrees
  BY DEF PairInv, PairAgrees
<1> QED
  BY <1>1, PairAlways, PTL

\* A complete pair is never changed, under the same proviso.
THEOREM PairsKept == AgentSpec => StagedPairKept
<1>1. (TypeInv /\ PairInv) /\ (TypeInv /\ PairInv)' /\ [AgentNext]_agentVars
        => [~half' /\ pem # None /\ pem = key => UNCHANGED <<pem, key>>]_agentVars
  BY PairNext
<1> QED
  BY <1>1, PairAlways, PTL DEF AgentSpec, StagedPairKept

-----------------------------------------------------------------------------
(* Files and nginx.                                                        *)

\* A site that is not being worked on stays served when its own files, what
\* nginx runs and a complete pair stay.
LEMMA StillServed ==
    ASSUME TypeInv, TypeInv', SettledIsServed, NEW s \in Slugs, Settled(s),
           site'[s] = site[s], loaded'[s] = loaded[s],
           half => half',
           (~half' /\ pem # None /\ pem = key) => UNCHANGED <<pem, key>>
    PROVE  loaded'[s] = OnDisk(s)' /\ (~half' => Acceptable(s)')
<1>1. loaded[s] = OnDisk(s) /\ (~half => Acceptable(s))
  BY DEF SettledIsServed
<1>2. OnDisk(s)' = OnDisk(s)
  BY DEF OnDisk
<1>3. ASSUME ~half' PROVE Acceptable(s)'
  <2>1. ~half /\ Acceptable(s)
    BY <1>1, <1>3
  <2> QED
    BY <1>3, <2>1 DEF Acceptable
<1> QED
  BY <1>1, <1>2, <1>3

\* A reload of a valid configuration serves every site.
LEMMA AllServed ==
    ASSUME TypeInv, ConfigValid, Loads, UNCHANGED <<site, pem, key>>
    PROVE  \A s \in Slugs : loaded'[s] = OnDisk(s)' /\ Acceptable(s)'
<1>1. \A s \in Slugs : OnDisk(s)' = OnDisk(s) /\ (Acceptable(s)' <=> Acceptable(s))
  BY DEF OnDisk, Acceptable
<1> QED
  BY <1>1 DEF Loads, ConfigValid

LEMMA SettledNext ==
    ASSUME TypeInv, TypeInv', PairInv, SettledIsServed, [AgentNext]_agentVars
    PROVE  SettledIsServed'
<1> SUFFICES ASSUME NEW s \in Slugs, Settled(s)'
             PROVE  loaded'[s] = OnDisk(s)' /\ (~half' => Acceptable(s)')
  BY DEF SettledIsServed
<1>0. /\ half => half'
      /\ (~half' /\ pem # None /\ pem = key) => UNCHANGED <<pem, key>>
  BY PairNext
<1>1. ASSUME NEW h \in Handlers, ChangeFile(h) \/ Test(h) \/ Reload(h)
      PROVE  loaded'[s] = OnDisk(s)' /\ (~half' => Acceptable(s)')
  <2>1. /\ Busy(h) /\ UNCHANGED <<pem, key>>
        /\ site' = site \/ (request[h].step <= 3 /\ Change(h))
        /\ loaded' = loaded \/ (site' = site /\ ConfigValid /\ Loads)
        /\ Onward(h) \/ Restoring(h) \/ GiveUp(h) \/ Answered(h)
    BY <1>1, SiteStep
  <2>2. CASE site' = site /\ ConfigValid /\ Loads
    BY <2>1, <2>2, AllServed
  <2>3. CASE loaded' = loaded /\ ~Answered(h)
    <3>1. CASE Moved(h) /\ unsettled' = unsettled
      <4>1. Busy(h)' /\ request'[h].slug = request[h].slug
        BY <3>1, BusyTyped, NoRequestAssumption DEF Moved, Busy, Serves, SiteRequest
      <4>2. request[h].slug # s
        BY <4>1 DEF Settled
      <4>3. \A g \in Handlers \ {h} : request'[g] = request[g]
        BY <3>1 DEF Moved, TypeInv, AgentTypeOK
      <4>4. \A g \in Handlers : Busy(g) => request[g].slug # s
        BY <4>2, <4>3 DEF Settled, Busy, Serves
      <4>5. Settled(s)
        BY <3>1, <4>4 DEF Settled
      <4>6. site'[s] = site[s]
        BY <2>1, <4>2, ChangeSite
      <4> QED
        BY <1>0, <2>3, <4>5, <4>6, StillServed
    <3>2. CASE GiveUp(h)
      <4>1. s # request[h].slug /\ s \notin unsettled
        BY <3>2 DEF GiveUp, Settled
      <4>2. \A g \in Handlers \ {h} : request'[g] = request[g]
        BY <3>2 DEF GiveUp, Idle, TypeInv, AgentTypeOK
      <4>3. \A g \in Handlers : Busy(g) => request[g].slug # s
        BY <4>1, <4>2 DEF Settled, Busy, Serves
      <4>4. Settled(s)
        BY <4>1, <4>3 DEF Settled
      <4>5. site'[s] = site[s]
        BY <2>1, <4>1, ChangeSite
      <4> QED
        BY <1>0, <2>3, <4>4, <4>5, StillServed
    <3> QED
      BY <2>1, <2>3, <3>1, <3>2 DEF Onward, Restoring
  <2> QED
    BY <2>1, <2>2, <2>3 DEF Answered
<1>2. CASE /\ UNCHANGED <<site, loaded>>
           /\ Settled(s)
  BY <1>0, <1>2, StillServed
<1>3. ASSUME NEW h \in Handlers, BeginApply(h) \/ BeginRemove(h)
      PROVE  UNCHANGED <<site, loaded>> /\ Settled(s)
  <2>1. UNCHANGED <<site, loaded, unsettled>>
    BY <1>3, BeginStep
  <2>2. ASSUME NEW g \in Handlers, Busy(g) PROVE request[g].slug # s
    <3>1. request[g] \in SiteRequest /\ g # h
      BY <1>3, <2>2, BusyTyped, BeginStep DEF Busy, Serves
    <3>2. request'[g] \in SiteRequest /\ request'[g].slug = request[g].slug
      BY <1>3, <3>1, BeginStep, NotAlone, ZenonT(60)
    <3>3. Busy(g)'
      BY <3>2, NoRequestAssumption DEF Busy, Serves, SiteRequest
    <3> QED
      BY <3>2, <3>3 DEF Settled
  <2> QED
    BY <2>1, <2>2 DEF Settled
<1>4. ASSUME NEW h \in Handlers,
             BeginStage(h) \/ CheckPair(h) \/ WriteCertificate(h) \/ WritePrivateKey(h)
      PROVE  UNCHANGED <<site, loaded>> /\ Settled(s)
  <2>1. ~Busy(h) /\ UNCHANGED <<site, loaded, unsettled>>
    BY <1>4, StageStep
  <2>2. \A g \in Handlers \ {h} : request'[g] = request[g]
    BY <1>4, StageStep DEF StageMoved, Idle, TypeInv, AgentTypeOK
  <2> QED
    BY <2>1, <2>2 DEF Settled, Busy, Serves
<1>5. ASSUME NEW h \in Handlers, CallerGone(h)
      PROVE  UNCHANGED <<site, loaded>> /\ Settled(s)
  <2>1. /\ UNCHANGED <<site, loaded, unsettled>>
        /\ request'[h] \in SiteRequest /\ request'[h].slug = request[h].slug
        /\ \A g \in Handlers \ {h} : request'[g] = request[g]
    BY <1>5, Hangup DEF TypeInv, AgentTypeOK
  <2>2. Busy(h)'
    BY <2>1, NoRequestAssumption DEF Busy, Serves, SiteRequest
  <2> QED
    BY <2>1, <2>2 DEF Settled, Busy, Serves
<1>6. CASE AgentRestart
  <2>1. UNCHANGED <<site, loaded>> /\ Settled(s)
    BY <1>6 DEF AgentRestart, Settled
  <2> QED
    BY <1>2, <2>1
<1>7. CASE UNCHANGED agentVars
  <2>1. UNCHANGED <<site, loaded>> /\ Settled(s)
    BY <1>7 DEF agentVars, Settled, Busy, Serves
  <2> QED
    BY <1>2, <2>1
<1> QED
  BY <1>1, <1>2, <1>3, <1>4, <1>5, <1>6, <1>7 DEF AgentNext, Serve

\* Nginx runs what the files of a site say, and accepts them, whenever nobody
\* works on the site and its last request did not break off, although the
\* agent serves its requests with no lock: for any sites, routes and handlers.
THEOREM SettledAreServed == AgentSpec => []SettledIsServed
<1>1. AgentInit => SettledIsServed
  BY DEF AgentInit, SettledIsServed, OnDisk, Acceptable, NoSite
<1>2. (TypeInv /\ PairInv) /\ (TypeInv /\ PairInv)' /\ SettledIsServed /\ [AgentNext]_agentVars
        => SettledIsServed'
  BY SettledNext
<1> QED
  BY <1>1, <1>2, PairAlways, PTL DEF AgentSpec

-----------------------------------------------------------------------------
(* Answers.                                                                *)

\* A lone request is the only one for its site, and the files it is past are
\* the ones it is after.
LoneInv ==
    \A h \in Handlers : (Busy(h) /\ request[h].alone) =>
       /\ \A g \in Handlers : (Busy(g) /\ request[g].slug = request[h].slug) => g = h
       /\ \A i \in 1..3 : i < request[h].step =>
             site[request[h].slug][Order(request[h])[i]] = Goal(request[h])[Order(request[h])[i]]

\* What a request is after does not depend on where it is.
LEMMA SameGoal ==
    ASSUME NEW q, NEW r, q.op = r.op, q.undo = r.undo, q.route = r.route, q.prev = r.prev
    PROVE  Goal(q) = Goal(r) /\ Order(q) = Order(r)
BY DEF Goal, Target, Order

\* Handlers whose requests keep their place and their site keep the invariant.
LEMMA LoneKept ==
    ASSUME LoneInv, NEW h \in Handlers, Busy(h)', request'[h].alone,
           Busy(h), request[h].alone,
           request'[h].slug = request[h].slug, request'[h].step = request[h].step,
           Goal(request'[h]) = Goal(request[h]), Order(request'[h]) = Order(request[h]),
           site'[request[h].slug] = site[request[h].slug],
           \A g \in Handlers : (Busy(g)' /\ request'[g].slug = request[h].slug)
                                  => (Busy(g) /\ request[g].slug = request[h].slug)
    PROVE  /\ \A g \in Handlers : (Busy(g)' /\ request'[g].slug = request'[h].slug) => g = h
           /\ \A i \in 1..3 : i < request'[h].step =>
                 site'[request'[h].slug][Order(request'[h])[i]] = Goal(request'[h])[Order(request'[h])[i]]
BY DEF LoneInv

LEMMA LoneNext ==
    ASSUME TypeInv, TypeInv', LoneInv, [AgentNext]_agentVars
    PROVE  LoneInv'
<1> DEFINE Lone(h) ==
      /\ \A g \in Handlers : (Busy(g)' /\ request'[g].slug = request'[h].slug) => g = h
      /\ \A i \in 1..3 : i < request'[h].step =>
            site'[request'[h].slug][Order(request'[h])[i]] = Goal(request'[h])[Order(request'[h])[i]]
<1> SUFFICES ASSUME NEW h \in Handlers, Busy(h)', request'[h].alone PROVE Lone(h)
  BY DEF LoneInv
<1>1. ASSUME NEW a \in Handlers, ChangeFile(a) \/ Test(a) \/ Reload(a) PROVE Lone(h)
  <2>1. /\ Busy(a) /\ (site' = site \/ (request[a].step <= 3 /\ Change(a)))
        /\ Onward(a) \/ Restoring(a) \/ GiveUp(a) \/ Answered(a)
    BY <1>1, SiteStep
  <2>2. request[a] \in SiteRequest /\ (Moved(a) \/ Idle(a))
    BY <2>1, BusyTyped DEF Onward, Restoring, GiveUp, Answered
  <2>3. \A g \in Handlers \ {a} : request'[g] = request[g]
    BY <2>2 DEF Moved, Idle, TypeInv, AgentTypeOK
  <2>4. Idle(a) => ~Busy(a)'
    BY DEF Idle, TypeInv, AgentTypeOK, Busy, Serves
  <2>5. \A g \in Handlers : Busy(g)' => Busy(g) /\ request'[g].slug = request[g].slug
    BY <2>1, <2>2, <2>3, <2>4 DEF Moved, Busy, Serves
  <2>6. CASE h # a
    <3>1. Busy(h) /\ request'[h] = request[h]
      BY <2>3, <2>6 DEF Busy, Serves
    <3>2. request[a].slug # request[h].slug
      BY <2>1, <2>6, <3>1 DEF LoneInv
    <3>3. request[h].slug \in Slugs
      BY <3>1, BusyTyped DEF SiteRequest
    <3>4. site'[request[h].slug] = site[request[h].slug]
      BY <2>1, <3>2, <3>3, ChangeSite
    <3> QED
      BY <2>5, <3>1, <3>4, LoneKept
  <2>7. CASE h = a
    <3>1. Moved(a) /\ request[a].alone
      BY <2>2, <2>4, <2>7 DEF Moved
    <3>2. \A g \in Handlers : (Busy(g)' /\ request'[g].slug = request'[a].slug) => g = a
      BY <2>1, <2>5, <3>1 DEF LoneInv, Moved
    <3>3. CASE Restoring(a)
      BY <2>7, <3>2, <3>3 DEF Restoring
    <3>4. CASE Onward(a)
      <4>1. /\ request'[a].step = request[a].step + 1 /\ request'[a].slug = request[a].slug
            /\ Goal(request'[a]) = Goal(request[a]) /\ Order(request'[a]) = Order(request[a])
        BY <3>4, SameGoal DEF Onward, Moved
      <4>2. request[a].step \in 1..5
        BY <2>2 DEF SiteRequest
      <4>3. \A i \in 1..3 : i < request[a].step =>
               site[request[a].slug][Order(request[a])[i]] = Goal(request[a])[Order(request[a])[i]]
        BY <2>1, <3>1 DEF LoneInv
      <4>4. ASSUME NEW i \in 1..3, i < request[a].step + 1
            PROVE  site'[request[a].slug][Order(request[a])[i]] = Goal(request[a])[Order(request[a])[i]]
        <5>1. CASE request[a].step <= 3
          <6>1. Change(a)
            BY <3>4, <5>1 DEF Onward
          <6>2. Order(request[a])[i] \in Fields
            BY OrderTyped
          <6>3. i = request[a].step \/ i < request[a].step
            BY <4>2, <4>4
          <6> QED
            BY <2>1, <4>3, <5>1, <6>1, <6>2, <6>3, ChangeSite
        <5>2. CASE ~(request[a].step <= 3)
          <6>1. site' = site /\ i < request[a].step
            BY <3>4, <4>2, <5>2 DEF Onward
          <6> QED
            BY <4>3, <6>1
        <5> QED
          BY <5>1, <5>2
      <4> QED
        BY <2>7, <3>2, <4>1, <4>4
    <3>5. CASE GiveUp(a) \/ Answered(a)
      BY <2>4, <2>7, <3>5 DEF GiveUp, Answered
    <3> QED
      BY <2>1, <3>3, <3>4, <3>5
  <2> QED
    BY <2>6, <2>7
<1>2. ASSUME NEW a \in Handlers, BeginApply(a) \/ BeginRemove(a) PROVE Lone(h)
  <2>1. /\ request[a] = None /\ site' = site
        /\ request'[a] \in SiteRequest /\ request'[a].step = 1
        /\ request'[a].alone => \A g \in Handlers : ~(Busy(g) /\ request[g].slug = request'[a].slug)
    BY <1>2, BeginStep
  <2>2. ASSUME NEW g \in Handlers \ {a}
        PROVE  \/ request'[g] = request[g] /\ ~(Busy(g) /\ request[g].slug = request'[a].slug)
               \/ /\ Busy(g) /\ request[g].slug = request'[a].slug
                  /\ request'[g] \in SiteRequest /\ request'[g].slug = request[g].slug
                  /\ request'[g].alone = FALSE
    <3>1. Busy(g) => request[g] \in SiteRequest
      BY BusyTyped
    <3>2. \/ request'[g] = request[g] /\ ~(Busy(g) /\ request[g].slug = request'[a].slug)
          \/ /\ Busy(g) /\ request[g].slug = request'[a].slug
             /\ request'[g] = [request[g] EXCEPT !.alone = FALSE]
      BY <1>2, BeginStep
    <3>3. CASE Busy(g) /\ request[g].slug = request'[a].slug
      BY <3>1, <3>2, <3>3, NotAlone
    <3> QED
      BY <3>2, <3>3
  <2>3. \A g \in Handlers \ {a} : Busy(g)' => Busy(g) /\ request'[g].slug = request[g].slug
    BY <2>2 DEF Busy, Serves
  <2>4. CASE h = a
    BY <2>1, <2>3, <2>4
  <2>5. CASE h # a
    <3>1. request'[h] = request[h] /\ ~(Busy(h) /\ request[h].slug = request'[a].slug)
      BY <2>2, <2>5
    <3>2. Busy(h) /\ request[h].slug # request'[a].slug
      BY <2>3, <2>5, <3>1
    <3> QED
      BY <2>1, <2>3, <3>1, <3>2, LoneKept
  <2> QED
    BY <2>4, <2>5
<1>3. ASSUME NEW a \in Handlers,
             BeginStage(a) \/ CheckPair(a) \/ WriteCertificate(a) \/ WritePrivateKey(a)
      PROVE  Lone(h)
  <2>1. site' = site /\ (StageMoved(a) \/ Idle(a))
    BY <1>3, StageStep
  <2>2. ~Busy(a)' /\ \A g \in Handlers \ {a} : request'[g] = request[g]
    BY <2>1 DEF StageMoved, Idle, TypeInv, AgentTypeOK, Busy, Serves, StageRequest
  <2>3. h # a /\ \A g \in Handlers : Busy(g)' => Busy(g) /\ request'[g] = request[g]
    BY <2>2 DEF Busy, Serves
  <2> QED
    BY <2>1, <2>3, LoneKept
<1>4. ASSUME NEW a \in Handlers, CallerGone(a) PROVE Lone(h)
  <2>1. /\ site' = site /\ Busy(a)
        /\ request'[a].op = request[a].op /\ request'[a].slug = request[a].slug
        /\ request'[a].route = request[a].route /\ request'[a].prev = request[a].prev
        /\ request'[a].step = request[a].step /\ request'[a].undo = request[a].undo
        /\ request'[a].alone = request[a].alone
    BY <1>4, Hangup
  <2>2. \A g \in Handlers \ {a} : request'[g] = request[g]
    BY <1>4, Hangup DEF TypeInv, AgentTypeOK
  <2>3. \A g \in Handlers : Busy(g)' => Busy(g) /\ request'[g].slug = request[g].slug
    BY <2>1, <2>2 DEF Busy, Serves
  <2>4. /\ Goal(request'[h]) = Goal(request[h]) /\ Order(request'[h]) = Order(request[h])
        /\ request'[h].step = request[h].step /\ request'[h].alone = request[h].alone
    BY <2>1, <2>2, SameGoal, ZenonT(60)
  <2> QED
    BY <2>1, <2>3, <2>4, LoneKept
<1>5. CASE AgentRestart
  BY <1>5 DEF AgentRestart, Busy, Serves
<1>6. CASE UNCHANGED agentVars
  <2>1. request' = request /\ site' = site
    BY <1>6 DEF agentVars
  <2>2. \A g \in Handlers : Busy(g)' <=> Busy(g)
    BY <2>1 DEF Busy, Serves
  <2> QED
    BY <2>1, <2>2, LoneKept
<1> QED
  BY <1>1, <1>2, <1>3, <1>4, <1>5, <1>6 DEF AgentNext, Serve

\* A lone request that is past its files has made the site what it is after.
LEMMA LoneDone ==
    ASSUME TypeInv, LoneInv, NEW h \in Handlers, Busy(h), request[h].alone, request[h].step = 5
    PROVE  site[request[h].slug] = Goal(request[h])
<1> DEFINE q == request[h]
<1>1. \A i \in 1..3 : site[q.slug][Order(q)[i]] = Goal(q)[Order(q)[i]]
  BY DEF LoneInv
<1>2. \A f \in Fields : \E i \in 1..3 : Order(q)[i] = f
  <2>1. \A f \in Fields : f = Order(q)[1] \/ f = Order(q)[2] \/ f = Order(q)[3]
    BY DEF Order, Fields
  <2> QED
    BY <2>1
<1>3. site[q.slug] \in SiteFiles /\ Goal(q) \in SiteFiles
  BY TargetTyped, BusyTyped DEF TypeInv, AgentTypeOK, SiteRequest
<1> HIDE DEF q
<1>4. \A f \in Fields : site[q.slug][f] = Goal(q)[f]
  BY <1>1, <1>2
<1>5. site[q.slug] = Goal(q)
  BY <1>3, <1>4, SameFiles
<1> QED
  BY <1>5 DEF q

LEMMA AnswerStep ==
    ASSUME TypeInv, TypeInv', LoneInv, [AgentNext]_agentVars, NEW h \in Handlers,
           Busy(h), request'[h] = None, request[h].alone, request[h].slug \notin unsettled'
    PROVE  /\ site'[request[h].slug] = Goal(request[h])
           /\ loaded'[request[h].slug] =
                 IF Goal(request[h]).enabled THEN Goal(request[h]).available ELSE None
<1>0. request[h] \in SiteRequest /\ request[h] # None
  BY BusyTyped DEF Busy, Serves
<1>1. ASSUME NEW a \in Handlers, ChangeFile(a) \/ Test(a) \/ Reload(a)
      PROVE  a = h /\ Answered(h)
  <2>1. Onward(a) \/ Restoring(a) \/ GiveUp(a) \/ Answered(a)
    BY <1>1, SiteStep
  <2>2. Moved(a) \/ Idle(a)
    BY <2>1 DEF Onward, Restoring, GiveUp, Answered
  <2>3. a = h
    BY <1>0, <2>2 DEF Moved, Idle, TypeInv, AgentTypeOK
  <2>4. ~Moved(h) /\ ~GiveUp(h)
    BY NoRequestAssumption DEF Moved, GiveUp
  <2> QED
    BY <2>1, <2>3, <2>4 DEF Onward, Restoring
<1>2. ASSUME NEW a \in Handlers, BeginApply(a) \/ BeginRemove(a) PROVE FALSE
  <2>1. a # h
    BY <1>0, <1>2, BeginStep
  <2>2. request'[h] = request[h] \/ request'[h] = [request[h] EXCEPT !.alone = FALSE]
    BY <1>2, <2>1, BeginStep
  <2>3. request'[h] \in SiteRequest
    BY <1>0, <2>2, NotAlone
  <2> QED
    BY <2>3, NoRequestAssumption
<1>3. ASSUME NEW a \in Handlers,
             BeginStage(a) \/ CheckPair(a) \/ WriteCertificate(a) \/ WritePrivateKey(a)
      PROVE  FALSE
  BY <1>0, <1>3, StageStep DEF StageMoved, Idle, TypeInv, AgentTypeOK
<1>4. ASSUME NEW a \in Handlers, CallerGone(a) PROVE FALSE
  BY <1>0, <1>4, Hangup, NoRequestAssumption DEF TypeInv, AgentTypeOK
<1>5. ~AgentRestart
  BY <1>0 DEF AgentRestart, SiteRequest
<1>6. ~UNCHANGED agentVars
  BY <1>0 DEF agentVars
<1>7. Answered(h)
  BY <1>1, <1>2, <1>3, <1>4, <1>5, <1>6 DEF AgentNext, Serve
<1>8. site[request[h].slug] = Goal(request[h])
  BY <1>7, LoneDone DEF Answered
<1>9. site' = site /\ loaded'[request[h].slug] = OnDisk(request[h].slug)
  BY <1>0, <1>7 DEF Answered, Loads, SiteRequest
<1> QED
  BY <1>8, <1>9 DEF OnDisk

\* Every answer that follows a reload is true of the files and of nginx, for
\* any number of requests for other sites served meanwhile.
THEOREM AnswersTrue == AgentSpec => AnswersAreTrue
<1> DEFINE Inv == TypeInv /\ LoneInv
<1>1. AgentInit => Inv
  BY TypeInit DEF AgentInit, LoneInv, Busy, Serves
<1>2. Inv /\ [AgentNext]_agentVars => Inv'
  BY TypeNext, LoneNext
<1>3. Inv /\ Inv' /\ [AgentNext]_agentVars =>
        [\A h \in Handlers :
          LET q == request[h]
              files == IF q.undo THEN q.prev ELSE Target(q)
          IN  Busy(h) /\ request'[h] = None /\ q.alone /\ q.slug \notin unsettled'
              => /\ site'[q.slug] = files
                 /\ loaded'[q.slug] = IF files.enabled THEN files.available ELSE None]_agentVars
  <2> SUFFICES ASSUME Inv, Inv', [AgentNext]_agentVars, NEW h \in Handlers,
                      Busy(h), request'[h] = None, request[h].alone, request[h].slug \notin unsettled'
               PROVE  /\ site'[request[h].slug] =
                            IF request[h].undo THEN request[h].prev ELSE Target(request[h])
                      /\ loaded'[request[h].slug] =
                            IF (IF request[h].undo THEN request[h].prev ELSE Target(request[h])).enabled
                              THEN (IF request[h].undo THEN request[h].prev ELSE Target(request[h])).available
                              ELSE None
    OBVIOUS
  <2> QED
    BY AnswerStep DEF Goal
<1> QED
  BY <1>1, <1>2, <1>3, PTL DEF AgentSpec, AnswersAreTrue
=============================================================================
