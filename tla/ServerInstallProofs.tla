------------------------- MODULE ServerInstallProofs -------------------------
(***************************************************************************)
(* What one server keeps through installations, applies, life cycle        *)
(* actions, failures and restarts, for every set of services and           *)
(* configurations and any number of requests and failures.                 *)
(***************************************************************************)
EXTENDS ServerInstall, TLAPS

-----------------------------------------------------------------------------
(* The invariant, whatever runs at the same time.                          *)

Published(m) == m # None /\ m.published

\* metadata.Configuration as Reconcile reads it.
Old(m) == IF m = None THEN NoConfig ELSE m.cfg

\* The call of a Reconcile that holds the metadata lock.
InLock(k) == k # None /\ k.kind = "RECONCILE" /\ k.at \notin {"begin", "answered"}

\* Steps of a first installation; steps after the pointer was switched; steps
\* of a rollback.
FirstSteps == {"down", "wipe", "seed", "database", "verify", "dependents", "u.wipe", "u.seed"}
Onward == {"retire", "down", "wipe", "seed", "database", "verify", "dependents",
           "recreate", "added", "health", "proxy", "publish"}
Backward == {"u.clean", "u.wipe", "u.seed", "u.restore", "u.recreate", "u.health", "u.proxy"}

\* What Reconcile relies on between its steps: nobody else changes project.json,
\* the directory or the pointer.
Sound(k, m, t, cur) ==
    /\ k.at \in {"commit"} \cup (Onward \ {"seed"}) => t = "full"
    /\ k.at \in FirstSteps => ~Published(m)
    /\ k.at \in Onward => cur = k.cfg
    /\ k.at \in Onward \cup Backward /\ Published(m) => k.was \in Configs

\* The call a goroutine has fits the operation it runs.
Fits(o, k) ==
    /\ o = None => k = None
    /\ o # None =>
         /\ o.step \in Ended \cup {"queued", "prepared"} => k = None
         /\ o.step = "inspect" => k # None /\ k.at = "answered"
         /\ o.kind = "INSTALL" /\ o.step \notin {"queued"} \cup Ended => o.cfg \in Configs
    /\ k # None /\ k.kind = "RECONCILE" => k.cfg \in Configs /\ k.key \in Keys

Locked == holder \in Callers \cup {None} /\ \A c \in Callers : InLock(call[c]) <=> holder = c

RtTyped ==
    /\ meta \in Records \cup {None} /\ (meta # None => (meta.published <=> meta.cfg # NoConfig))
    /\ tree \in Trees /\ pgdata \in DataStates /\ current \in Configs \cup {None}
    /\ cont \in [Services -> Containers] /\ site \in Routes \cup {None}
    /\ call \in [Callers -> Call \cup {None}] /\ faults \in 0..MaxFaults /\ disturbed \in BOOLEAN
MgrTyped ==
    /\ project \in Statuses \cup {None} /\ desired \in Configs
    /\ op \in [Callers -> Operation \cup {None}] /\ requests \in 0..MaxRequests

BaseInv ==
    /\ RtTyped /\ MgrTyped /\ Locked
    /\ \A c \in Callers : Fits(op[c], call[c])
    /\ \A c \in Callers : InLock(call[c]) => Sound(call[c], meta, tree, current)
    /\ Published(meta) => tree = "full" /\ current \in Configs

-----------------------------------------------------------------------------
(* The invariant as long as nothing disturbed the server.                  *)

\* The containers belong to the configuration.
Belong(g, ct) == \A s \in Services : ct[s] # None => s \in g.on /\ ct[s].set = g.set[s]
Within(S, ct) == \A s \in Services : ct[s] # None => s \in S
\* Each container is of the old configuration or of the new one.
Mixed(g, h, ct) ==
    \A s \in Services : ct[s] # None =>
        \/ s \in g.on /\ ct[s].set = g.set[s]
        \/ s \in h.on /\ ct[s].set = h.set[s]

Pointer(m) == IF Published(m) THEN m.cfg ELSE None
Data(m) == IF Published(m) THEN "ready" ELSE "empty"

\* The runtime is what project.json publishes.
Rest(m, cur, st, pg, ct) ==
    cur = Pointer(m) /\ st = Old(m).route /\ pg = Data(m) /\ Belong(Old(m), ct)

\* The same in the middle of a Reconcile, step by step.
Reconciling(k, m, cur, st, pg, ct) ==
    /\ k.at \in {"begin", "stage", "commit", "fail", "answered"} \cup Onward \cup Backward
    /\ k.at \in {"begin", "stage", "commit"} => Rest(m, cur, st, pg, ct) /\ ~k.committed
    /\ k.at \in {"begin", "stage", "commit"} \cup Onward => k.clean /\ (k.at # "publish" => ~k.proxied)
    /\ k.at \in Onward => k.committed
    /\ k.at \in Onward \cup Backward => k.was = Pointer(m) /\ (~k.proxied => st = Old(m).route)
    /\ k.at \in {"retire", "down", "wipe", "seed", "database"} => pg = Data(m) /\ Belong(Old(m), ct)
    /\ k.at \in {"verify", "dependents"} => Within({Database}, ct) /\ Belong(k.cfg, ct)
    /\ k.at = "recreate" => Belong(Old(m), ct) /\ Within(k.cfg.on, ct) /\ Published(m)
    /\ k.at = "added" => Published(m)
    /\ k.at \in {"added", "health", "proxy", "publish"} => Belong(k.cfg, ct)
    /\ k.at \in {"dependents", "recreate", "added", "health", "proxy", "publish"} => pg = "ready"
    /\ k.at = "publish" => st = k.cfg.route
    /\ k.at = "u.clean" =>
          /\ k.clean /\ k.committed /\ Mixed(Old(m), k.cfg, ct)
          /\ pg = "ready" \/ (~Published(m) /\ Within({Database}, ct))
    /\ k.at \in {"u.wipe", "u.seed"} /\ k.clean => Within({}, ct)
    /\ k.at \in {"u.wipe", "u.seed", "u.recreate", "u.health", "u.proxy"} => k.committed
    /\ k.at = "u.seed" => pg = "empty"
    /\ k.at \in {"u.restore", "u.recreate"} /\ k.clean =>
          /\ pg = Data(m) /\ Mixed(Old(m), k.cfg, ct) /\ Within(Old(m).on, ct)
          /\ ~k.committed => Belong(Old(m), ct) /\ ~k.proxied
    /\ k.at \in {"u.recreate", "u.health", "u.proxy"} /\ k.clean => cur = Pointer(m)
    /\ k.at \in {"u.health", "u.proxy"} /\ k.clean => pg = Data(m) /\ Belong(Old(m), ct)
    /\ k.at = "u.proxy" => k.clean
    /\ k.at = "fail" /\ k.clean => Rest(m, cur, st, pg, ct)
    /\ k.at = "answered" => Rest(m, cur, st, pg, ct) /\ k.answer # "error"

Where(k, m, cur, st, pg, ct) ==
    /\ k = None => Rest(m, cur, st, pg, ct)
    /\ k # None /\ k.kind = "RECONCILE" => Reconciling(k, m, cur, st, pg, ct)
    /\ k # None /\ k.kind # "RECONCILE" =>
          IF k.kind = "DELETE_DATA" /\ k.at = "purge"
          THEN cur = Pointer(m) /\ st = None /\ pg = Data(m) /\ Belong(Old(m), ct)
          ELSE Rest(m, cur, st, pg, ct)
    /\ k # None /\ k.kind = "DELETE_DATA" /\ k.at \in {"proxy", "purge"} => Within({}, ct)

\* The calls that the steps of an operation make.
Sent(o, k) ==
    o # None =>
        /\ o.step = "call" => o.kind # "INSTALL" /\ k # None /\ k.kind = provisionerAction(o.kind)
        /\ o.step = "reconcile" => k # None /\ k.kind = "RECONCILE"
        /\ o.step = "start" => k # None /\ k.kind = "START"
        /\ o.step = "undo" => k # None /\ k.kind = "DELETE_RUNTIME"
        /\ o.step \in {"prepared", "reconcile", "start", "inspect", "undo"} => o.kind = "INSTALL"
        /\ o.step = "inspect" => k.kind = "START"
        /\ k # None => k.key = o.key

Key(m, n) == IF m = None THEN None ELSE m.keys[n]

\* What an installation or an apply is about to publish, or has published, is
\* the canonical configuration, and its key is new.
Aims(o, k, m, des, n) ==
    o # None =>
        /\ o.kind = "INSTALL" /\ o.step \notin {"queued"} \cup Ended => o.cfg = des
        /\ k # None /\ k.kind = "RECONCILE" => k.cfg = des
        /\ k # None /\ k.kind = "RECONCILE" /\ k.at = "answered" /\ k.answer = "ok" => Old(m) = des
        /\ o.step \in {"start", "inspect"} => Old(m) = des
        /\ o.kind \in {"INSTALL", "APPLY"} /\ o.step = "SUCCEEDED" /\ o.key = n => Old(m) = des
        /\ o.step \in {"queued", "prepared"} \/ (k # None /\ k.kind = "RECONCILE" /\ k.at # "answered")
              => Key(m, o.key) = None

KeysInv ==
    /\ \A c \in Callers : op[c] # None => op[c].key <= requests
    /\ \A c, d \in Callers : op[c] # None /\ op[d] # None /\ op[c].key = op[d].key => c = d
    /\ \A n \in Keys : Key(meta, n) # None => n <= requests
    /\ \A c \in Callers : Sent(op[c], call[c])

Calm ==
    /\ \A c, d \in Callers : Running(c) /\ Running(d) => c = d
    /\ \A c \in Callers : Running(c) => op[c].key = requests
    /\ \A c \in Callers : Aims(op[c], call[c], meta, desired, requests)
    /\ Idle => Rest(meta, current, site, pgdata, cont)
    /\ \A c \in Callers : Running(c) => Where(call[c], meta, current, site, pgdata, cont)

CalmInv == ~disturbed => Calm

-----------------------------------------------------------------------------
(* The constants, and the metadata as Reconcile reads them.                *)

LEMMA ConstantFacts ==
    /\ Database \in Services /\ Core \subseteq Services /\ Database \notin Core
    /\ Helpers \subseteq Services
    /\ DependsOn \in [Services -> SUBSET Services]
    /\ \A g \in Configs : Database \in g.on /\ g.on \subseteq Services
    /\ \A g \in Configs : \A h \in Configs : \A s \in Helpers : g.set[s] = h.set[s]
    /\ MaxFaults \in Nat /\ MaxRequests \in Nat /\ Keys = 1..MaxRequests /\ First \in Configs
    /\ None \notin Callers /\ None \notin Configs /\ None \notin Records /\ None \notin Call
    /\ None \notin [set : Settings, up : BOOLEAN]
    /\ None \notin Operation /\ None \notin Statuses
BY RuntimeAssumption, InstallAssumption

LEMMA NoConfigFacts ==
    /\ NoConfig.on = {} /\ NoConfig.route = None /\ NoConfig \notin Configs
BY ConstantFacts DEF NoConfig

LEMMA RouteTyped ==
    ASSUME NEW g \in Configs \cup {NoConfig}
    PROVE  g.route \in Routes \cup {None}
BY NoConfigFacts DEF Routes

LEMMA ContainerTyped ==
    ASSUME NEW g \in Configs, NEW s \in Services
    PROVE  /\ Container(g, s) \in Containers /\ Container(g, s) # None
           /\ Container(g, s).set = g.set[s] /\ Container(g, s).up = TRUE
<1>1. g.set[s] \in Settings
  BY DEF Settings
<1>2. Container(g, s) \in [set : Settings, up : BOOLEAN]
  BY <1>1 DEF Container
<1> QED
  BY <1>2, ConstantFacts DEF Container, Containers

LEMMA RecordFields ==
    ASSUME NEW m \in Records
    PROVE  /\ m.published \in BOOLEAN /\ m.cfg \in Configs \cup {NoConfig}
           /\ m.keys \in [Keys -> Answers \cup {None}] /\ m # None
BY ConstantFacts DEF Records

LEMMA NewMetadataTyped ==
    /\ NewMetadata \in Records /\ NewMetadata.published = FALSE /\ NewMetadata.cfg = NoConfig
    /\ NewMetadata.keys = [n \in Keys |-> None]
BY DEF NewMetadata, Records

LEMMA MetadataFacts ==
    ASSUME RtTyped
    PROVE  /\ Metadata \in Records /\ Metadata.cfg = Old(meta) /\ (Metadata.published <=> Published(meta))
           /\ \A n \in Keys : Metadata.keys[n] = Key(meta, n)
           /\ previousServices = Old(meta).on
           /\ Published(meta) => /\ Old(meta) \in Configs /\ Old(meta) = meta.cfg
                                 /\ previousServices # {}
           /\ ~Published(meta) => Old(meta) = NoConfig /\ previousServices = {}
           /\ Bootstrap <=> ~Published(meta)
           /\ Old(meta).route \in Routes \cup {None}
<1>1. CASE meta = None
  <2>1. Metadata = NewMetadata /\ Old(meta) = NoConfig /\ ~Published(meta)
    BY <1>1 DEF Metadata, Old, Published
  <2> QED
    BY <1>1, <2>1, NewMetadataTyped, NoConfigFacts DEF Key, previousServices, Bootstrap
<1>2. CASE meta # None
  <2>1. Metadata = meta /\ Old(meta) = meta.cfg /\ (Published(meta) <=> meta.published) /\ meta \in Records
    BY <1>2 DEF Metadata, Old, Published, RtTyped
  <2>2. meta.cfg \in Configs \cup {NoConfig} /\ (meta.published <=> meta.cfg # NoConfig)
    BY <1>2, <2>1, RecordFields DEF RtTyped
  <2>3. CASE meta.published
    BY <1>2, <2>1, <2>2, <2>3, RouteTyped, ConstantFacts DEF Key, previousServices, Bootstrap
  <2>4. CASE ~meta.published
    BY <1>2, <2>1, <2>2, <2>4, NoConfigFacts DEF Key, previousServices, Bootstrap
  <2> QED
    BY <2>3, <2>4
<1> QED
  BY <1>1, <1>2

-----------------------------------------------------------------------------
(* Calls.                                                                  *)

AllSteps == ApplySteps \cup UndoSteps \cup LifeSteps

LEMMA CallFields ==
    ASSUME NEW k \in Call
    PROVE  /\ k.kind \in Kinds /\ k.cfg \in Configs \cup {None} /\ k.key \in Keys \cup {None}
           /\ k.at \in AllSteps \cup {"answered"} /\ k.was \in Configs \cup {None}
           /\ k.committed \in BOOLEAN /\ k.proxied \in BOOLEAN /\ k.stored \in BOOLEAN /\ k.clean \in BOOLEAN
           /\ k.answer \in Answers \cup {None} /\ k # None
BY ConstantFacts DEF Call, AllSteps

\* The parts of a call that none of its steps changes; those that only the
\* steps that say so change.
SameAim(k, l) == l.kind = k.kind /\ l.cfg = k.cfg /\ l.key = k.key
SamePast(k, l) ==
    l.was = k.was /\ l.committed = k.committed /\ l.proxied = k.proxied /\ l.stored = k.stored

LEMMA AdvanceFacts ==
    ASSUME NEW k \in Call, NEW at \in AllSteps \cup Answers
    PROVE  /\ Advance(k, at) \in Call /\ SameAim(k, Advance(k, at)) /\ SamePast(k, Advance(k, at))
           /\ Advance(k, at).clean = k.clean
           /\ at \in Answers => Advance(k, at).at = "answered" /\ Advance(k, at).answer = at
           /\ at \notin Answers => Advance(k, at).at = at
<1>1. CASE at \in Answers
  BY <1>1 DEF Advance, Call, SameAim, SamePast
<1>2. CASE at \notin Answers
  BY <1>2 DEF Advance, Call, SameAim, SamePast, AllSteps
<1> QED
  BY <1>1, <1>2

OnlyCall(c) == call' = [call EXCEPT ![c] = call'[c]]
Moved(k, l, at, clean) ==
    /\ l \in Call /\ SameAim(k, l) /\ SamePast(k, l) /\ l.clean = clean
    /\ at \in Answers => l.at = "answered" /\ l.answer = at
    /\ at \notin Answers => l.at = at

LEMMA GotoFacts ==
    ASSUME RtTyped, NEW c \in Callers, call[c] # None, NEW at \in AllSteps \cup Answers, Goto(c, at)
    PROVE  OnlyCall(c) /\ Moved(call[c], call'[c], at, call[c].clean)
<1>1. call[c] \in Call
  BY DEF RtTyped
<1>2. call' = [call EXCEPT ![c] = Advance(call[c], at)] /\ call'[c] = Advance(call[c], at)
  BY DEF Goto, RtTyped
<1>3. OnlyCall(c)
  BY <1>2 DEF OnlyCall
<1>4. Moved(call[c], Advance(call[c], at), at, call[c].clean)
  BY <1>1, AdvanceFacts DEF Moved
<1> QED
  BY <1>2, <1>3, <1>4

LEMMA UncleanFacts ==
    ASSUME RtTyped, NEW c \in Callers, call[c] # None, NEW at \in AllSteps \cup Answers, Unclean(c, at)
    PROVE  OnlyCall(c) /\ Moved(call[c], call'[c], at, FALSE)
<1> DEFINE l == Advance(call[c], at)
<1>1. call[c] \in Call
  BY DEF RtTyped
<1>2. /\ l \in Call /\ SameAim(call[c], l) /\ SamePast(call[c], l)
      /\ at \in Answers => l.at = "answered" /\ l.answer = at
      /\ at \notin Answers => l.at = at
  BY <1>1, AdvanceFacts
<1>3. call' = [call EXCEPT ![c] = [l EXCEPT !.clean = FALSE]] /\ call'[c] = [l EXCEPT !.clean = FALSE]
  BY DEF Unclean, RtTyped
<1> HIDE DEF l
<1>4. /\ [l EXCEPT !.clean = FALSE] \in Call
      /\ SameAim(l, [l EXCEPT !.clean = FALSE]) /\ SamePast(l, [l EXCEPT !.clean = FALSE])
      /\ [l EXCEPT !.clean = FALSE].clean = FALSE
      /\ [l EXCEPT !.clean = FALSE].at = l.at /\ [l EXCEPT !.clean = FALSE].answer = l.answer
  BY <1>2 DEF Call, SameAim, SamePast
<1> QED
  BY <1>2, <1>3, <1>4 DEF OnlyCall, Moved, SameAim, SamePast

LEMMA FaultTyped ==
    ASSUME RtTyped, Fault \/ NoFault
    PROVE  faults' \in 0..MaxFaults
BY ConstantFacts DEF RtTyped, Fault, NoFault

-----------------------------------------------------------------------------
(* A step of the Provisioner: one call goes on, the Manager does nothing.  *)

Progress(c) ==
    /\ call[c] # None /\ call[c].at # "answered"
    /\ OnlyCall(c) /\ call'[c] \in Call /\ SameAim(call[c], call'[c])

StateTyped ==
    /\ meta \in Records \cup {None} /\ (meta # None => (meta.published <=> meta.cfg # NoConfig))
    /\ tree \in Trees /\ pgdata \in DataStates /\ current \in Configs \cup {None}
    /\ cont \in [Services -> Containers] /\ site \in Routes \cup {None}

Keeps == BaseInv' /\ KeysInv' /\ (CalmInv => CalmInv')

LEMMA ManagerSame ==
    ASSUME UNCHANGED managerVars
    PROVE  project' = project /\ desired' = desired /\ op' = op /\ requests' = requests
BY DEF managerVars

LEMMA CallsOf ==
    ASSUME RtTyped, NEW c \in Callers, OnlyCall(c)
    PROVE  \A d \in Callers : d # c => call'[d] = call[d]
BY DEF OnlyCall, RtTyped

LEMMA Runs ==
    ASSUME BaseInv, NEW c \in Callers, call[c] # None
    PROVE  op[c] # None /\ Running(c) /\ op[c].step \notin Ended \cup {"queued", "prepared"}
<1>1. Fits(op[c], call[c])
  BY DEF BaseInv
<1> QED
  BY <1>1 DEF Fits, Running

LEMMA BaseProgress ==
    ASSUME BaseInv, NEW c \in Callers, Progress(c), UNCHANGED managerVars,
           StateTyped', faults' \in 0..MaxFaults, disturbed' \in BOOLEAN,
           holder' \in Callers \cup {None}, InLock(call'[c]) <=> holder' = c,
           \A d \in Callers : d # c => (holder' = d <=> holder = d),
           InLock(call'[c]) => Sound(call'[c], meta', tree', current'),
           \A d \in Callers : d # c /\ InLock(call[d]) => Sound(call[d], meta', tree', current'),
           Published(meta') => tree' = "full" /\ current' \in Configs
    PROVE  BaseInv'
<1>1. RtTyped /\ MgrTyped /\ Locked
  BY DEF BaseInv
<1>2. project' = project /\ desired' = desired /\ op' = op /\ requests' = requests
  BY ManagerSame
<1>3. \A d \in Callers : d # c => call'[d] = call[d]
  BY <1>1, CallsOf DEF Progress
<1>4. call' \in [Callers -> Call \cup {None}]
  BY <1>1 DEF Progress, OnlyCall, RtTyped
<1>5. RtTyped' /\ MgrTyped'
  BY <1>1, <1>2, <1>4 DEF RtTyped, MgrTyped, StateTyped
<1>6. Locked'
  BY <1>1, <1>3 DEF Locked
<1>7. \A d \in Callers : Fits(op[d], call'[d])
  <2>1. ASSUME NEW d \in Callers, d # c
        PROVE  Fits(op[d], call'[d])
    BY <1>3, <2>1 DEF BaseInv
  <2>2. Fits(op[c], call'[c])
    <3>1. Fits(op[c], call[c]) /\ op[c] # None /\ op[c].step \notin Ended \cup {"queued", "prepared"}
      BY Runs DEF BaseInv, Progress
    <3>2. op[c].step # "inspect"
      BY <3>1 DEF Fits, Progress
    <3> QED
      BY <3>1, <3>2 DEF Fits, Progress, SameAim
  <2> QED
    BY <2>1, <2>2
<1>8. \A d \in Callers : InLock(call'[d]) => Sound(call'[d], meta', tree', current')
  BY <1>3
<1> QED
  BY <1>2, <1>5, <1>6, <1>7, <1>8 DEF BaseInv

LEMMA KeysProgress ==
    ASSUME BaseInv, KeysInv, NEW c \in Callers, Progress(c), UNCHANGED managerVars,
           \A n \in Keys : Key(meta', n) # None => n <= requests
    PROVE  KeysInv'
<1>1. RtTyped /\ op' = op /\ requests' = requests
  BY ManagerSame DEF BaseInv
<1>2. \A d \in Callers : d # c => call'[d] = call[d]
  BY <1>1, CallsOf DEF Progress
<1>3. call'[c] # None
  BY ConstantFacts DEF Progress
<1>4. Sent(op[c], call'[c])
  <2>1. Sent(op[c], call[c])
    BY DEF KeysInv
  <2> QED
    BY <1>3, <2>1 DEF Sent, Progress, SameAim
<1>5. \A d \in Callers : Sent(op[d], call'[d])
  BY <1>2, <1>4 DEF KeysInv
<1> QED
  BY <1>1, <1>5 DEF KeysInv

\* The others have ended, and their keys are older.
LEMMA OthersEnded ==
    ASSUME BaseInv, KeysInv, Calm, NEW c \in Callers, Running(c),
           NEW d \in Callers, d # c
    PROVE  ~Running(d) /\ call[d] = None /\ (op[d] # None => op[d].step \in Ended /\ op[d].key # requests)
<1>1. ~Running(d)
  BY DEF Calm
<1>2. op[d] = None \/ op[d].step \in Ended
  BY <1>1 DEF Running
<1>3. Fits(op[d], call[d])
  BY DEF BaseInv
<1>4. call[d] = None
  BY <1>2, <1>3 DEF Fits
<1>5. op[c] # None /\ op[c].key = requests
  BY DEF Calm, Running
<1> QED
  BY <1>1, <1>2, <1>4, <1>5 DEF KeysInv

LEMMA EndedAims ==
    ASSUME NEW o, NEW m, NEW des, NEW n, o # None => o.step \in Ended /\ o.key # n
    PROVE  Aims(o, None, m, des, n)
BY DEF Aims, Ended

LEMMA CalmProgress ==
    ASSUME BaseInv, KeysInv, Calm, NEW c \in Callers, Progress(c), UNCHANGED managerVars,
           Where(call'[c], meta', current', site', pgdata', cont'),
           Aims(op[c], call'[c], meta', desired, requests)
    PROVE  Calm'
<1>1. RtTyped /\ op' = op /\ requests' = requests /\ desired' = desired
  BY ManagerSame DEF BaseInv
<1>2. \A d \in Callers : d # c => call'[d] = call[d]
  BY <1>1, CallsOf DEF Progress
<1>3. Running(c)
  BY Runs DEF Progress
<1>4. \A d \in Callers : Running(d)' <=> Running(d)
  BY <1>1 DEF Running
<1>5. \A d \in Callers : Aims(op[d], call'[d], meta', desired, requests)
  <2>1. ASSUME NEW d \in Callers, d # c
        PROVE  Aims(op[d], call'[d], meta', desired, requests)
    <3>1. call'[d] = None /\ (op[d] # None => op[d].step \in Ended /\ op[d].key # requests)
      BY <1>2, <1>3, <2>1, OthersEnded
    <3>2. Aims(op[d], None, meta', desired, requests)
      BY <3>1, EndedAims
    <3> QED
      BY <3>1, <3>2
  <2> QED
    BY <2>1
<1>6. ~Idle'
  BY <1>3, <1>4 DEF Idle
<1>7. \A d \in Callers : Running(d) => d = c
  BY <1>3 DEF Calm
<1>8. \A d \in Callers : Running(d) => Where(call'[d], meta', current', site', pgdata', cont')
  BY <1>7
<1> QED
  BY <1>1, <1>4, <1>5, <1>6, <1>8 DEF Calm

\* An aim is missed only by an answer or by a change of the metadata.
LEMMA AimsProgress ==
    ASSUME BaseInv, Calm, NEW c \in Callers, Progress(c), meta' = meta,
           ~(call'[c].kind = "RECONCILE" /\ call'[c].at = "answered" /\ call'[c].answer = "ok")
    PROVE  Aims(op[c], call'[c], meta', desired, requests)
<1>1. Aims(op[c], call[c], meta, desired, requests)
  BY DEF Calm
<1> QED
  BY <1>1 DEF Aims, Progress, SameAim

-----------------------------------------------------------------------------
(* A step of a Reconcile that holds the lock and keeps it.                 *)

LEMMA RecFacts ==
    ASSUME BaseInv, NEW c \in Callers, NEW at, Rec(c, at), at \notin {"begin", "answered"}
    PROVE  /\ RtTyped /\ call[c] # None /\ call[c] \in Call /\ call[c].kind = "RECONCILE" /\ call[c].at = at
           /\ call[c].cfg \in Configs /\ call[c].key \in Keys
           /\ InLock(call[c]) /\ holder = c /\ Sound(call[c], meta, tree, current)
           /\ Published(meta) => tree = "full" /\ current \in Configs
           /\ op[c] # None
<1>1. RtTyped /\ Fits(op[c], call[c]) /\ Locked
  BY DEF BaseInv
<1>2. call[c] # None /\ call[c].kind = "RECONCILE" /\ call[c].at = at
  BY DEF Rec, At
<1>3. InLock(call[c])
  BY <1>2 DEF InLock
<1>4. call[c] \in Call /\ op[c] # None
  BY <1>1, <1>2, Runs DEF RtTyped
<1> QED
  BY <1>1, <1>2, <1>3, <1>4 DEF BaseInv, Fits, Locked

LEMMA GoesOn ==
    ASSUME BaseInv, KeysInv, NEW c \in Callers, UNCHANGED managerVars,
           Progress(c), InLock(call[c]), InLock(call'[c]),
           meta' = meta, holder' = holder, tree' \in Trees, pgdata' \in DataStates,
           current' \in Configs \cup {None}, cont' \in [Services -> Containers],
           site' \in Routes \cup {None}, faults' \in 0..MaxFaults,
           disturbed' \in BOOLEAN, disturbed => disturbed',
           Sound(call'[c], meta, tree', current'),
           Published(meta) => tree' = "full" /\ current' \in Configs,
           ~disturbed' /\ Reconciling(call[c], meta, current, site, pgdata, cont) =>
              Reconciling(call'[c], meta, current', site', pgdata', cont')
    PROVE  Keeps
<1>1. RtTyped /\ Locked /\ holder = c
  BY DEF BaseInv, Locked
<1>2. StateTyped'
  BY <1>1 DEF StateTyped, RtTyped
<1>3. \A d \in Callers : d # c => ~InLock(call[d])
  BY <1>1 DEF Locked
<1>4. BaseInv'
  BY <1>1, <1>2, <1>3, BaseProgress
<1>5. KeysInv'
  BY KeysProgress DEF KeysInv
<1>6. ASSUME Calm, ~disturbed'
      PROVE  Calm'
  <2>1. /\ Running(c) /\ call[c].kind = "RECONCILE" /\ call'[c].kind = "RECONCILE"
        /\ call[c] # None /\ call'[c] # None /\ call'[c].at # "answered"
    BY Runs DEF InLock, Progress, SameAim
  <2>2. Where(call[c], meta, current, site, pgdata, cont)
    BY <1>6, <2>1 DEF Calm
  <2>3. Reconciling(call[c], meta, current, site, pgdata, cont)
    BY <2>1, <2>2 DEF Where
  <2>4. Where(call'[c], meta', current', site', pgdata', cont')
    BY <1>6, <2>1, <2>3 DEF Where
  <2>5. Aims(op[c], call'[c], meta', desired, requests)
    BY <1>6, <2>1, AimsProgress
  <2> QED
    BY <1>6, <2>4, <2>5, CalmProgress
<1> QED
  BY <1>4, <1>5, <1>6 DEF Keeps, CalmInv

LEMMA StageKeeps ==
    ASSUME BaseInv, KeysInv, NEW c \in Callers, UNCHANGED managerVars, StageRuntimeFilesWithRef(c)
    PROVE  Keeps
<1>1. /\ RtTyped /\ call[c] # None /\ call[c] \in Call /\ call[c].kind = "RECONCILE" /\ call[c].at = "stage"
      /\ InLock(call[c]) /\ (Published(meta) => tree = "full" /\ current \in Configs)
  BY RecFacts DEF StageRuntimeFilesWithRef
<1>2. /\ meta' = meta /\ pgdata' = pgdata /\ current' = current /\ cont' = cont /\ site' = site
      /\ holder' = holder /\ disturbed' = disturbed /\ faults' \in 0..MaxFaults
  BY <1>1, FaultTyped DEF StageRuntimeFilesWithRef, runtime
<1>3. /\ tree' \in Trees /\ (tree = "full" => tree' = "full")
      /\ \/ tree' = "full" /\ Goto(c, "commit")
         \/ Goto(c, "fail")
  BY <1>1 DEF StageRuntimeFilesWithRef, RtTyped, Trees
<1>4. ASSUME NEW at \in {"commit", "fail"}, Goto(c, at), at = "commit" => tree' = "full"
      PROVE  Keeps
  <2>1. at \in AllSteps /\ at \notin Answers
    BY DEF AllSteps, ApplySteps, UndoSteps, Answers
  <2>2. OnlyCall(c) /\ Moved(call[c], call'[c], at, call[c].clean)
    BY <1>1, <1>4, <2>1, GotoFacts
  <2>3. Progress(c) /\ InLock(call'[c]) /\ call'[c].at = at
    BY <1>1, <2>1, <2>2, ConstantFacts DEF Progress, Moved, InLock, SameAim
  <2>4. Sound(call'[c], meta, tree', current')
    BY <1>4, <2>3 DEF Sound, Onward, FirstSteps, Backward
  <2>5. Reconciling(call[c], meta, current, site, pgdata, cont) =>
          Reconciling(call'[c], meta, current, site, pgdata, cont)
    BY <1>1, <2>1, <2>2, <2>3 DEF Reconciling, Onward, Backward, Moved, SamePast
  <2> QED
    BY <1>1, <1>2, <1>3, <2>3, <2>4, <2>5, GoesOn DEF RtTyped
<1> QED
  BY <1>3, <1>4

LEMMA CommitKeeps ==
    ASSUME BaseInv, KeysInv, NEW c \in Callers, UNCHANGED managerVars, CommitPointer(c)
    PROVE  Keeps
<1>1. /\ RtTyped /\ call[c] # None /\ call[c] \in Call /\ call[c].kind = "RECONCILE" /\ call[c].at = "commit"
      /\ call[c].cfg \in Configs /\ InLock(call[c]) /\ Sound(call[c], meta, tree, current)
      /\ Published(meta) => tree = "full" /\ current \in Configs
  BY RecFacts DEF CommitPointer
<1>2. /\ meta' = meta /\ tree' = tree /\ pgdata' = pgdata /\ cont' = cont /\ site' = site
      /\ holder' = holder /\ disturbed' = disturbed /\ faults' \in 0..MaxFaults /\ tree = "full"
  BY <1>1, FaultTyped DEF CommitPointer, Sound
<1>3. \/ /\ current' = call[c].cfg
         /\ call' = [call EXCEPT ![c].at = "retire", ![c].was = current, ![c].committed = TRUE]
      \/ /\ current' \in {current, call[c].cfg}
         /\ call' = [call EXCEPT ![c].at = "u.restore", ![c].was = current]
  BY DEF CommitPointer
<1>4. /\ OnlyCall(c) /\ call'[c] \in Call /\ SameAim(call[c], call'[c])
      /\ call'[c].was = current /\ call'[c].proxied = call[c].proxied
      /\ call'[c].clean = call[c].clean
      /\ \/ call'[c].at = "retire" /\ call'[c].committed = TRUE /\ current' = call[c].cfg
         \/ call'[c].at = "u.restore" /\ call'[c].committed = call[c].committed
  <2>1. CASE /\ current' = call[c].cfg
             /\ call' = [call EXCEPT ![c].at = "retire", ![c].was = current, ![c].committed = TRUE]
    <3> DEFINE l == [call[c] EXCEPT !.at = "retire", !.was = current, !.committed = TRUE]
    <3>1. call' = [call EXCEPT ![c] = l] /\ call'[c] = l
      BY <1>1, <2>1 DEF RtTyped
    <3>2. /\ l \in Call /\ SameAim(call[c], l) /\ l.at = "retire" /\ l.was = current /\ l.committed = TRUE
          /\ l.proxied = call[c].proxied /\ l.clean = call[c].clean
      BY <1>1 DEF Call, SameAim, RtTyped, ApplySteps
    <3> HIDE DEF l
    <3> QED
      BY <2>1, <3>1, <3>2 DEF OnlyCall
  <2>2. CASE call' = [call EXCEPT ![c].at = "u.restore", ![c].was = current]
    <3> DEFINE l == [call[c] EXCEPT !.at = "u.restore", !.was = current]
    <3>1. call' = [call EXCEPT ![c] = l] /\ call'[c] = l
      BY <1>1, <2>2 DEF RtTyped
    <3>2. /\ l \in Call /\ SameAim(call[c], l) /\ l.at = "u.restore" /\ l.was = current
          /\ l.committed = call[c].committed /\ l.proxied = call[c].proxied /\ l.clean = call[c].clean
      BY <1>1 DEF Call, SameAim, RtTyped, UndoSteps
    <3> HIDE DEF l
    <3> QED
      BY <3>1, <3>2 DEF OnlyCall
  <2> QED
    BY <1>3, <2>1, <2>2
<1>5. Progress(c) /\ InLock(call'[c]) /\ current' \in Configs \cup {None}
  BY <1>1, <1>3, <1>4, ConstantFacts DEF Progress, InLock, SameAim, RtTyped
<1>6. Published(meta) => current' \in Configs
  BY <1>1, <1>3
<1>7. Sound(call'[c], meta, tree', current')
  BY <1>1, <1>2, <1>4 DEF Sound, Onward, FirstSteps, Backward, SameAim
<1>8. Reconciling(call[c], meta, current, site, pgdata, cont) =>
        Reconciling(call'[c], meta, current', site, pgdata, cont)
  <2> SUFFICES ASSUME Reconciling(call[c], meta, current, site, pgdata, cont)
               PROVE  Reconciling(call'[c], meta, current', site, pgdata, cont)
    OBVIOUS
  <2>1. Rest(meta, current, site, pgdata, cont) /\ ~call[c].committed /\ call[c].clean /\ ~call[c].proxied
    BY <1>1 DEF Reconciling
  <2>2. /\ current = Pointer(meta) /\ site = Old(meta).route /\ pgdata = Data(meta)
        /\ Belong(Old(meta), cont) /\ Mixed(Old(meta), call[c].cfg, cont) /\ Within(Old(meta).on, cont)
    BY <2>1 DEF Rest, Belong, Mixed, Within
  <2>3. CASE call'[c].at = "retire"
    BY <1>4, <2>1, <2>2, <2>3 DEF Reconciling, Onward, Backward
  <2>4. CASE call'[c].at = "u.restore"
    BY <1>4, <2>1, <2>2, <2>4 DEF Reconciling, Onward, Backward, SameAim
  <2> QED
    BY <1>4, <2>3, <2>4
<1> QED
  BY <1>1, <1>2, <1>5, <1>6, <1>7, <1>8, GoesOn DEF RtTyped

-----------------------------------------------------------------------------
(* A step that only moves the call on, or marks its rollback as failed.    *)

Follows(k, l, at, clean) ==
    l \in Call /\ l.at = at /\ SameAim(k, l) /\ SamePast(k, l) /\ l.clean = clean

LockSteps == (ApplySteps \cup UndoSteps) \ {"begin"}

LEMMA LockStepFacts == \A at \in LockSteps : at \in AllSteps /\ at \notin Answers /\ at \notin {"begin", "answered"}
BY DEF LockSteps, AllSteps, ApplySteps, UndoSteps, Answers

LEMMA GoesOnTo ==
    ASSUME BaseInv, KeysInv, NEW c \in Callers, UNCHANGED managerVars,
           InLock(call[c]), NEW at \in LockSteps, NEW clean,
           (Goto(c, at) /\ clean = call[c].clean) \/ (Unclean(c, at) /\ clean = FALSE),
           meta' = meta, holder' = holder, tree' \in Trees, pgdata' \in DataStates,
           current' \in Configs \cup {None}, cont' \in [Services -> Containers],
           site' \in Routes \cup {None}, faults' \in 0..MaxFaults, disturbed' = disturbed,
           Published(meta) => tree' = "full" /\ current' \in Configs,
           ASSUME NEW l, Follows(call[c], l, at, clean)
           PROVE  /\ Sound(l, meta, tree', current')
                  /\ Reconciling(call[c], meta, current, site, pgdata, cont) =>
                        Reconciling(l, meta, current', site', pgdata', cont')
    PROVE  Keeps
<1>1. RtTyped /\ call[c] # None /\ call[c].at # "answered" /\ call[c].kind = "RECONCILE"
  BY DEF BaseInv, InLock
<1>2. at \in AllSteps /\ at \notin Answers /\ at \notin {"begin", "answered"}
  BY LockStepFacts
<1>3. OnlyCall(c) /\ Moved(call[c], call'[c], at, clean)
  BY <1>1, <1>2, GotoFacts, UncleanFacts
<1>4. Follows(call[c], call'[c], at, clean)
  BY <1>2, <1>3 DEF Moved, Follows
<1>5. Progress(c) /\ InLock(call'[c])
  BY <1>1, <1>2, <1>3, <1>4, ConstantFacts DEF Progress, Follows, InLock, SameAim
<1>6. /\ Sound(call'[c], meta, tree', current')
      /\ Reconciling(call[c], meta, current, site, pgdata, cont) =>
            Reconciling(call'[c], meta, current', site', pgdata', cont')
  BY <1>4
<1>7. disturbed \in BOOLEAN
  BY <1>1 DEF RtTyped
<1> QED
  BY <1>5, <1>6, <1>7, GoesOn

\* What a command leaves: what it is to do, or part of it.
LEMMA CommandFacts ==
    ASSUME RtTyped, NEW c \in Callers, NEW to \in [Services -> Containers], NEW next, NEW failed,
           Command(c, to, next, failed)
    PROVE  /\ cont' \in [Services -> Containers] /\ faults' \in 0..MaxFaults
           /\ \/ cont' = to /\ Goto(c, next)
              \/ /\ \A s \in Services : cont'[s] = to[s] \/ cont'[s] = cont[s]
                 /\ Goto(c, failed)
<1>1. faults' \in 0..MaxFaults
  BY FaultTyped DEF Command
<1>2. CASE cont' = to /\ Goto(c, next)
  BY <1>1, <1>2
<1>3. CASE cont' \in Partly(to) /\ Goto(c, failed)
  <2>1. PICK T \in SUBSET Services : cont' = [s \in Services |-> IF s \in T THEN to[s] ELSE cont[s]]
    BY <1>3 DEF Partly
  <2>2. cont' \in [Services -> Containers]
    BY <2>1 DEF RtTyped
  <2> QED
    BY <1>1, <1>3, <2>1, <2>2
<1> QED
  BY <1>2, <1>3 DEF Command

LEMMA CommandForFacts ==
    ASSUME RtTyped, NEW c \in Callers, NEW S, NEW to \in [Services -> Containers], NEW next, NEW failed,
           CommandFor(c, S, to, next, failed)
    PROVE  /\ cont' \in [Services -> Containers] /\ faults' \in 0..MaxFaults
           /\ \/ S = {} /\ cont' = cont /\ Goto(c, next)
              \/ S # {} /\ cont' = to /\ Goto(c, next)
              \/ /\ \A s \in Services : cont'[s] = to[s] \/ cont'[s] = cont[s]
                 /\ Goto(c, failed)
<1>1. CASE S = {}
  BY <1>1 DEF CommandFor, RtTyped
<1>2. CASE S # {}
  BY <1>2, CommandFacts DEF CommandFor
<1> QED
  BY <1>1, <1>2

LEMMA RemovedFacts ==
    ASSUME RtTyped, NEW S
    PROVE  /\ Removed(S) \in [Services -> Containers]
           /\ \A s \in Services : Removed(S)[s] = IF s \in S THEN None ELSE cont[s]
BY DEF Removed, RtTyped, Containers

LEMMA CreatedFacts ==
    ASSUME RtTyped, NEW g \in Configs, NEW S
    PROVE  /\ Created(g, S) \in [Services -> Containers]
           /\ \A s \in Services : Created(g, S)[s] = IF s \in S THEN Container(g, s) ELSE cont[s]
<1>1. \A s \in Services : Container(g, s) \in Containers
  BY ContainerTyped
<1> QED
  BY <1>1 DEF Created, RtTyped

LEMMA RecreatedFacts ==
    ASSUME RtTyped, NEW g \in Configs, NEW S
    PROVE  /\ Recreated(g, S) \in [Services -> Containers]
           /\ \A s \in Services :
                Recreated(g, S)[s] = IF s \notin g.on THEN None ELSE IF s \in S THEN Container(g, s) ELSE cont[s]
<1>1. /\ Created(g, S) \in [Services -> Containers]
      /\ \A s \in Services : Created(g, S)[s] = IF s \in S THEN Container(g, s) ELSE cont[s]
  BY CreatedFacts
<1> QED
  BY <1>1 DEF Recreated, WithoutOrphans, Containers

-----------------------------------------------------------------------------
(* Reconcile, forward.                                                     *)

LEMMA RemoveDisabledKeeps ==
    ASSUME BaseInv, KeysInv, NEW c \in Callers, UNCHANGED managerVars, RemoveDisabled(c)
    PROVE  Keeps
<1>1. /\ RtTyped /\ call[c] # None /\ call[c] \in Call /\ call[c].kind = "RECONCILE" /\ call[c].at = "retire"
      /\ call[c].cfg \in Configs /\ InLock(call[c]) /\ Sound(call[c], meta, tree, current)
      /\ Published(meta) => tree = "full" /\ current \in Configs
  BY RecFacts DEF RemoveDisabled
<1>2. /\ meta' = meta /\ tree' = tree /\ pgdata' = pgdata /\ current' = current /\ site' = site
      /\ holder' = holder /\ disturbed' = disturbed
  BY DEF RemoveDisabled, files
<1>3. /\ disabled(c) = Old(meta).on \ call[c].cfg.on /\ (Bootstrap <=> ~Published(meta))
      /\ ~Published(meta) => Old(meta) = NoConfig
  BY <1>1, MetadataFacts DEF disabled
<1> DEFINE next == IF Bootstrap THEN "down" ELSE "recreate"
<1>4. /\ Removed(disabled(c)) \in [Services -> Containers]
      /\ \A s \in Services : Removed(disabled(c))[s] = IF s \in disabled(c) THEN None ELSE cont[s]
  BY <1>1, RemovedFacts
<1>5. /\ cont' \in [Services -> Containers] /\ faults' \in 0..MaxFaults
      /\ \/ disabled(c) = {} /\ cont' = cont /\ Goto(c, next)
         \/ disabled(c) # {} /\ cont' = Removed(disabled(c)) /\ Goto(c, next)
         \/ /\ \A s \in Services : cont'[s] = Removed(disabled(c))[s] \/ cont'[s] = cont[s]
            /\ Goto(c, "u.clean")
  BY <1>1, <1>4, CommandForFacts DEF RemoveDisabled
<1>6. \A s \in Services : cont'[s] # None => cont'[s] = cont[s]
  BY <1>4, <1>5
<1>7. Reconciling(call[c], meta, current, site, pgdata, cont) =>
        /\ Belong(Old(meta), cont') /\ Mixed(Old(meta), call[c].cfg, cont')
        /\ ~Published(meta) => Within({Database}, cont')
        /\ call[c].clean /\ call[c].committed /\ ~call[c].proxied /\ pgdata = Data(meta)
        /\ call[c].was = Pointer(meta) /\ site = Old(meta).route
  BY <1>1, <1>3, <1>6, NoConfigFacts DEF Reconciling, Onward, Belong, Mixed, Within
<1>8. CASE Goto(c, "u.clean")
  <2>1. ASSUME NEW l, Follows(call[c], l, "u.clean", call[c].clean)
        PROVE  /\ Sound(l, meta, tree', current')
               /\ Reconciling(call[c], meta, current, site, pgdata, cont) =>
                     Reconciling(l, meta, current', site', pgdata', cont')
    <3>1. Sound(l, meta, tree', current')
      BY <1>1, <1>2, <2>1 DEF Sound, Follows, SameAim, SamePast, Onward, FirstSteps, Backward
    <3>2. Reconciling(call[c], meta, current, site, pgdata, cont) =>
            Reconciling(l, meta, current', site', pgdata', cont')
      BY <1>2, <1>7, <2>1 DEF Reconciling, Follows, SameAim, SamePast, Onward, Backward, Data
    <3> QED
      BY <3>1, <3>2
  <2> QED
    BY <1>1, <1>2, <1>5, <1>8, <2>1, GoesOnTo DEF RtTyped, LockSteps, ApplySteps, UndoSteps
<1>9. CASE /\ Goto(c, next)
           /\ \/ disabled(c) = {} /\ cont' = cont
              \/ cont' = Removed(disabled(c))
  <2>1. Reconciling(call[c], meta, current, site, pgdata, cont) => Within(call[c].cfg.on, cont')
    BY <1>3, <1>4, <1>7, <1>9 DEF Within, Belong
  <2>2. next \in {"down", "recreate"} /\ (next = "down" <=> ~Published(meta))
    BY <1>3
  <2> HIDE DEF next
  <2>3. ASSUME NEW l, Follows(call[c], l, next, call[c].clean)
        PROVE  /\ Sound(l, meta, tree', current')
               /\ Reconciling(call[c], meta, current, site, pgdata, cont) =>
                     Reconciling(l, meta, current', site', pgdata', cont')
    <3>1. Sound(l, meta, tree', current')
      BY <1>1, <1>2, <2>2, <2>3 DEF Sound, Follows, SameAim, SamePast, Onward, FirstSteps, Backward
    <3>2. Reconciling(call[c], meta, current, site, pgdata, cont) =>
            Reconciling(l, meta, current', site', pgdata', cont')
      BY <1>2, <1>7, <2>1, <2>2, <2>3 DEF Reconciling, Follows, SameAim, SamePast, Onward, Backward, Data
    <3> QED
      BY <3>1, <3>2
  <2>4. next \in LockSteps
    BY <2>2 DEF LockSteps, ApplySteps, UndoSteps
  <2> QED
    BY <1>1, <1>2, <1>5, <1>9, <2>3, <2>4, GoesOnTo DEF RtTyped
<1> QED
  BY <1>5, <1>8, <1>9

LEMMA BootstrapDownKeeps ==
    ASSUME BaseInv, KeysInv, NEW c \in Callers, UNCHANGED managerVars, BootstrapDown(c)
    PROVE  Keeps
<1>1. /\ RtTyped /\ call[c] # None /\ call[c] \in Call /\ call[c].kind = "RECONCILE" /\ call[c].at = "down"
      /\ call[c].cfg \in Configs /\ InLock(call[c]) /\ Sound(call[c], meta, tree, current)
      /\ Published(meta) => tree = "full" /\ current \in Configs
  BY RecFacts DEF BootstrapDown
<1>2. /\ meta' = meta /\ tree' = tree /\ pgdata' = pgdata /\ current' = current /\ site' = site
      /\ holder' = holder /\ disturbed' = disturbed
  BY DEF BootstrapDown, files
<1>3. /\ Removed(Services) \in [Services -> Containers]
      /\ \A s \in Services : Removed(Services)[s] = None
  BY <1>1, RemovedFacts
<1>4. /\ cont' \in [Services -> Containers] /\ faults' \in 0..MaxFaults
      /\ \/ cont' = Removed(Services) /\ Goto(c, "wipe")
         \/ /\ \A s \in Services : cont'[s] = Removed(Services)[s] \/ cont'[s] = cont[s]
            /\ Goto(c, "u.clean")
  BY <1>1, <1>3, CommandFacts DEF BootstrapDown
<1>5. \A s \in Services : cont'[s] # None => cont'[s] = cont[s]
  BY <1>3, <1>4
<1>6. ~Published(meta) /\ Old(meta) = NoConfig
  BY <1>1, MetadataFacts DEF Sound, FirstSteps
<1>7. Reconciling(call[c], meta, current, site, pgdata, cont) =>
        /\ Belong(Old(meta), cont') /\ Mixed(Old(meta), call[c].cfg, cont') /\ Within({Database}, cont')
        /\ call[c].clean /\ call[c].committed /\ ~call[c].proxied /\ pgdata = Data(meta)
        /\ call[c].was = Pointer(meta) /\ site = Old(meta).route
  BY <1>1, <1>5, <1>6, NoConfigFacts DEF Reconciling, Onward, Belong, Mixed, Within
<1>8. ASSUME NEW at \in {"wipe", "u.clean"}, Goto(c, at)
      PROVE  Keeps
  <2>1. ASSUME NEW l, Follows(call[c], l, at, call[c].clean)
        PROVE  /\ Sound(l, meta, tree', current')
               /\ Reconciling(call[c], meta, current, site, pgdata, cont) =>
                     Reconciling(l, meta, current', site', pgdata', cont')
    <3>1. Sound(l, meta, tree', current')
      BY <1>1, <1>2, <1>6, <2>1 DEF Sound, Follows, SameAim, SamePast, Onward, FirstSteps, Backward
    <3>2. Reconciling(call[c], meta, current, site, pgdata, cont) =>
            Reconciling(l, meta, current', site', pgdata', cont')
      BY <1>2, <1>6, <1>7, <2>1 DEF Reconciling, Follows, SameAim, SamePast, Onward, Backward
    <3> QED
      BY <3>1, <3>2
  <2> QED
    BY <1>1, <1>2, <1>4, <1>8, <2>1, GoesOnTo DEF RtTyped, LockSteps, ApplySteps, UndoSteps
<1> QED
  BY <1>4, <1>8

LEMMA ResetKeeps ==
    ASSUME BaseInv, KeysInv, NEW c \in Callers, UNCHANGED managerVars, ResetInitialDatabase(c)
    PROVE  Keeps
<1>1. PICK at \in {"wipe", "u.wipe"} : Rec(c, at) /\ Goto(c, IF at = "wipe" THEN "seed" ELSE "u.seed")
  BY DEF ResetInitialDatabase
<1>2. /\ RtTyped /\ call[c] # None /\ call[c] \in Call /\ call[c].kind = "RECONCILE" /\ call[c].at = at
      /\ call[c].cfg \in Configs /\ InLock(call[c]) /\ Sound(call[c], meta, tree, current)
  BY <1>1, RecFacts
<1>3. /\ meta' = meta /\ tree' = "headless" /\ pgdata' = "empty" /\ current' = current /\ site' = site
      /\ cont' = cont /\ holder' = holder /\ disturbed' = disturbed /\ faults' = faults
  BY DEF ResetInitialDatabase
<1>4. ~Published(meta)
  BY <1>1, <1>2 DEF Sound, FirstSteps
<1> DEFINE next == IF at = "wipe" THEN "seed" ELSE "u.seed"
<1>5. ASSUME NEW l, Follows(call[c], l, next, call[c].clean)
      PROVE  /\ Sound(l, meta, tree', current')
             /\ Reconciling(call[c], meta, current, site, pgdata, cont) =>
                   Reconciling(l, meta, current', site', pgdata', cont')
  <2>1. Sound(l, meta, tree', current')
    BY <1>2, <1>3, <1>4, <1>5 DEF Sound, Follows, SameAim, SamePast, Onward, FirstSteps, Backward
  <2>2. Reconciling(call[c], meta, current, site, pgdata, cont) =>
          Reconciling(l, meta, current', site', pgdata', cont')
    BY <1>2, <1>3, <1>4, <1>5 DEF Reconciling, Follows, SameAim, SamePast, Onward, Backward, Data
  <2> QED
    BY <2>1, <2>2
<1>6. next \in LockSteps
  BY DEF LockSteps, ApplySteps, UndoSteps
<1> QED
  BY <1>1, <1>2, <1>3, <1>4, <1>5, <1>6, GoesOnTo DEF RtTyped, Trees, DataStates

LEMMA SeedKeeps ==
    ASSUME BaseInv, KeysInv, NEW c \in Callers, UNCHANGED managerVars, SeedDatabase(c)
    PROVE  Keeps
<1>1. /\ RtTyped /\ call[c] # None /\ call[c] \in Call /\ call[c].kind = "RECONCILE" /\ call[c].at = "seed"
      /\ call[c].cfg \in Configs /\ InLock(call[c]) /\ Sound(call[c], meta, tree, current)
  BY RecFacts DEF SeedDatabase
<1>2. /\ meta' = meta /\ pgdata' = pgdata /\ current' = current /\ cont' = cont /\ site' = site
      /\ holder' = holder /\ disturbed' = disturbed /\ faults' \in 0..MaxFaults /\ tree' \in Trees
  BY <1>1, FaultTyped DEF SeedDatabase, runtime, RtTyped, Trees
<1>3. PICK at \in {"database", "u.clean"} : Goto(c, at) /\ (at = "database" => tree' = "full")
  BY DEF SeedDatabase
<1>4. ~Published(meta) /\ Old(meta) = NoConfig
  BY <1>1, MetadataFacts DEF Sound, FirstSteps
<1>5. Reconciling(call[c], meta, current, site, pgdata, cont) =>
        Mixed(Old(meta), call[c].cfg, cont) /\ Within({Database}, cont)
  BY <1>1, <1>4, NoConfigFacts DEF Reconciling, Belong, Mixed, Within
<1>6. ASSUME NEW l, Follows(call[c], l, at, call[c].clean)
      PROVE  /\ Sound(l, meta, tree', current')
             /\ Reconciling(call[c], meta, current, site, pgdata, cont) =>
                   Reconciling(l, meta, current', site', pgdata', cont')
  <2>1. Sound(l, meta, tree', current')
    BY <1>1, <1>2, <1>3, <1>4, <1>6 DEF Sound, Follows, SameAim, SamePast, Onward, FirstSteps, Backward
  <2>2. Reconciling(call[c], meta, current, site, pgdata, cont) =>
          Reconciling(l, meta, current', site', pgdata', cont')
    BY <1>1, <1>2, <1>4, <1>5, <1>6 DEF Reconciling, Follows, SameAim, SamePast, Onward, Backward
  <2> QED
    BY <2>1, <2>2
<1>7. at \in LockSteps
  BY DEF LockSteps, ApplySteps, UndoSteps
<1> QED
  BY <1>1, <1>2, <1>3, <1>4, <1>6, <1>7, GoesOnTo DEF RtTyped

\* Starting the database makes its container, and initialises an empty
\* directory completely or in part.
LEMMA UpDatabaseFacts ==
    ASSUME RtTyped, NEW c \in Callers, current \in Configs, NEW next, NEW failed, UpDatabase(c, next, failed)
    PROVE  /\ cont' \in [Services -> Containers] /\ faults' \in 0..MaxFaults /\ pgdata' \in DataStates
           /\ \A s \in Services : cont'[s] = IF s = Database THEN Container(current, s) ELSE cont[s]
           /\ pgdata # "empty" => pgdata' = pgdata
           /\ Goto(c, next) \/ (Goto(c, failed) /\ pgdata # "empty")
<1>1. faults' \in 0..MaxFaults
  BY FaultTyped DEF UpDatabase
<1>2. cont' = Created(current, {Database})
  BY DEF UpDatabase
<1>3. /\ Created(current, {Database}) \in [Services -> Containers]
      /\ \A s \in Services : Created(current, {Database})[s] = IF s = Database THEN Container(current, s) ELSE cont[s]
  BY CreatedFacts
<1>4. /\ pgdata' \in DataStates /\ (pgdata # "empty" => pgdata' = pgdata)
      /\ Goto(c, next) \/ (Goto(c, failed) /\ pgdata # "empty")
  BY DEF UpDatabase, Initialised, DataStates, RtTyped
<1> QED
  BY <1>1, <1>2, <1>3, <1>4

LEMMA BootstrapDatabaseKeeps ==
    ASSUME BaseInv, KeysInv, NEW c \in Callers, UNCHANGED managerVars, BootstrapDatabase(c)
    PROVE  Keeps
<1>1. /\ RtTyped /\ call[c] # None /\ call[c] \in Call /\ call[c].kind = "RECONCILE" /\ call[c].at = "database"
      /\ call[c].cfg \in Configs /\ InLock(call[c]) /\ Sound(call[c], meta, tree, current)
  BY RecFacts DEF BootstrapDatabase
<1>2. /\ meta' = meta /\ tree' = tree /\ current' = current /\ site' = site
      /\ holder' = holder /\ disturbed' = disturbed
  BY DEF BootstrapDatabase
<1>3. ~Published(meta) /\ Old(meta) = NoConfig /\ current = call[c].cfg /\ tree = "full"
  BY <1>1, MetadataFacts DEF Sound, FirstSteps, Onward
<1>4. /\ cont' \in [Services -> Containers] /\ faults' \in 0..MaxFaults /\ pgdata' \in DataStates
      /\ \A s \in Services : cont'[s] = IF s = Database THEN Container(current, s) ELSE cont[s]
      /\ Goto(c, "verify") \/ (Goto(c, "u.clean") /\ pgdata # "empty")
  BY <1>1, <1>3, UpDatabaseFacts DEF BootstrapDatabase
<1>5. PICK at \in {"verify", "u.clean"} : Goto(c, at) /\ (at = "u.clean" => pgdata # "empty")
  BY <1>4
<1>6. Reconciling(call[c], meta, current, site, pgdata, cont) =>
        pgdata = "empty" /\ Within({Database}, cont') /\ Belong(call[c].cfg, cont')
  <2> SUFFICES ASSUME Reconciling(call[c], meta, current, site, pgdata, cont)
               PROVE  pgdata = "empty" /\ Within({Database}, cont') /\ Belong(call[c].cfg, cont')
    OBVIOUS
  <2>1. pgdata = "empty" /\ \A s \in Services : cont[s] = None
    BY <1>1, <1>3, NoConfigFacts DEF Reconciling, Belong, Data
  <2>2. /\ Database \in call[c].cfg.on /\ Database \in Services
        /\ Container(current, Database).set = call[c].cfg.set[Database]
    BY <1>1, <1>3, ContainerTyped, ConstantFacts
  <2> QED
    BY <1>4, <2>1, <2>2 DEF Within, Belong
<1>7. ASSUME NEW l, Follows(call[c], l, at, call[c].clean)
      PROVE  /\ Sound(l, meta, tree', current')
             /\ Reconciling(call[c], meta, current, site, pgdata, cont) =>
                   Reconciling(l, meta, current', site', pgdata', cont')
  <2>1. Sound(l, meta, tree', current')
    BY <1>1, <1>2, <1>3, <1>7 DEF Sound, Follows, SameAim, SamePast, Onward, FirstSteps, Backward
  <2>2. Reconciling(call[c], meta, current, site, pgdata, cont) =>
          Reconciling(l, meta, current', site', pgdata', cont')
    BY <1>1, <1>2, <1>3, <1>5, <1>6, <1>7 DEF Reconciling, Follows, SameAim, SamePast, Onward, Backward
  <2> QED
    BY <2>1, <2>2
<1>8. at \in LockSteps
  BY DEF LockSteps, ApplySteps, UndoSteps
<1> QED
  BY <1>1, <1>2, <1>3, <1>4, <1>5, <1>7, <1>8, GoesOnTo DEF RtTyped

LEMMA BootstrapVerifyKeeps ==
    ASSUME BaseInv, KeysInv, NEW c \in Callers, UNCHANGED managerVars, BootstrapVerify(c)
    PROVE  Keeps
<1>1. /\ RtTyped /\ call[c] # None /\ call[c] \in Call /\ call[c].kind = "RECONCILE" /\ call[c].at = "verify"
      /\ call[c].cfg \in Configs /\ InLock(call[c]) /\ Sound(call[c], meta, tree, current)
  BY RecFacts DEF BootstrapVerify
<1>2. /\ meta' = meta /\ tree' = tree /\ pgdata' = pgdata /\ current' = current /\ cont' = cont /\ site' = site
      /\ holder' = holder /\ disturbed' = disturbed
  BY DEF BootstrapVerify, files
<1>3. ~Published(meta)
  BY <1>1 DEF Sound, FirstSteps
<1>4. PICK at \in {"dependents", "u.clean"} : Goto(c, at) /\ (at = "dependents" => pgdata = "ready")
  BY DEF BootstrapVerify, VerifyDatabaseBootstrap
<1>5. faults' \in 0..MaxFaults
  BY <1>1, FaultTyped DEF BootstrapVerify, VerifyDatabaseBootstrap
<1>6. Belong(call[c].cfg, cont) => Mixed(Old(meta), call[c].cfg, cont)
  BY DEF Belong, Mixed
<1>7. ASSUME NEW l, Follows(call[c], l, at, call[c].clean)
      PROVE  /\ Sound(l, meta, tree', current')
             /\ Reconciling(call[c], meta, current, site, pgdata, cont) =>
                   Reconciling(l, meta, current', site', pgdata', cont')
  <2>1. Sound(l, meta, tree', current')
    BY <1>1, <1>2, <1>3, <1>7 DEF Sound, Follows, SameAim, SamePast, Onward, FirstSteps, Backward
  <2>2. Reconciling(call[c], meta, current, site, pgdata, cont) =>
          Reconciling(l, meta, current', site', pgdata', cont')
    BY <1>1, <1>2, <1>3, <1>4, <1>6, <1>7 DEF Reconciling, Follows, SameAim, SamePast, Onward, Backward
  <2> QED
    BY <2>1, <2>2
<1>8. at \in LockSteps
  BY DEF LockSteps, ApplySteps, UndoSteps
<1> QED
  BY <1>1, <1>2, <1>3, <1>4, <1>5, <1>7, <1>8, GoesOnTo DEF RtTyped

LEMMA BootstrapDependentsKeeps ==
    ASSUME BaseInv, KeysInv, NEW c \in Callers, UNCHANGED managerVars, BootstrapDependents(c)
    PROVE  Keeps
<1>1. /\ RtTyped /\ call[c] # None /\ call[c] \in Call /\ call[c].kind = "RECONCILE" /\ call[c].at = "dependents"
      /\ call[c].cfg \in Configs /\ InLock(call[c]) /\ Sound(call[c], meta, tree, current)
  BY RecFacts DEF BootstrapDependents
<1>2. /\ meta' = meta /\ tree' = tree /\ pgdata' = pgdata /\ current' = current /\ site' = site
      /\ holder' = holder /\ disturbed' = disturbed
  BY DEF BootstrapDependents, files
<1>3. ~Published(meta)
  BY <1>1 DEF Sound, FirstSteps
<1> DEFINE g == call[c].cfg
           to == Recreated(g, g.on)
<1>4. /\ to \in [Services -> Containers]
      /\ \A s \in Services : to[s] = IF s \notin g.on THEN None ELSE IF s \in g.on THEN Container(g, s) ELSE cont[s]
  BY <1>1, RecreatedFacts
<1>5. Command(c, to, "health", "u.clean")
  BY DEF BootstrapDependents
<1> HIDE DEF to
<1>6. /\ cont' \in [Services -> Containers] /\ faults' \in 0..MaxFaults
      /\ \A s \in Services : cont'[s] = to[s] \/ cont'[s] = cont[s]
      /\ Goto(c, "health") \/ Goto(c, "u.clean")
  BY <1>1, <1>4, <1>5, CommandFacts
<1>7. Belong(g, cont) => Belong(g, cont') /\ Mixed(Old(meta), g, cont')
  <2>1. \A s \in Services : Container(g, s).set = g.set[s]
    BY <1>1, ContainerTyped
  <2> QED
    BY <1>4, <1>6, <2>1 DEF Belong, Mixed
<1>8. PICK at \in {"health", "u.clean"} : Goto(c, at)
  BY <1>6
<1>9. ASSUME NEW l, Follows(call[c], l, at, call[c].clean)
      PROVE  /\ Sound(l, meta, tree', current')
             /\ Reconciling(call[c], meta, current, site, pgdata, cont) =>
                   Reconciling(l, meta, current', site', pgdata', cont')
  <2>1. Sound(l, meta, tree', current')
    BY <1>1, <1>2, <1>3, <1>9 DEF Sound, Follows, SameAim, SamePast, Onward, FirstSteps, Backward
  <2>2. Reconciling(call[c], meta, current, site, pgdata, cont) =>
          Reconciling(l, meta, current', site', pgdata', cont')
    BY <1>1, <1>2, <1>3, <1>7, <1>9 DEF Reconciling, Follows, SameAim, SamePast, Onward, Backward
  <2> QED
    BY <2>1, <2>2
<1>10. at \in LockSteps
  BY DEF LockSteps, ApplySteps, UndoSteps
<1> QED
  BY <1>1, <1>2, <1>3, <1>6, <1>8, <1>9, <1>10, GoesOnTo DEF RtTyped

\* A service that affectedServices does not list is configured alike.
LEMMA Unaffected ==
    ASSUME NEW g \in Configs, NEW h \in Configs, NEW s \in Services, s \notin affectedServices(g, h)
    PROVE  g.set[s] = h.set[s]
BY ConstantFacts DEF affectedServices

LEMMA RecreateAffectedKeeps ==
    ASSUME BaseInv, KeysInv, NEW c \in Callers, UNCHANGED managerVars, RecreateAffected(c)
    PROVE  Keeps
<1>1. /\ RtTyped /\ call[c] # None /\ call[c] \in Call /\ call[c].kind = "RECONCILE" /\ call[c].at = "recreate"
      /\ call[c].cfg \in Configs /\ InLock(call[c]) /\ Sound(call[c], meta, tree, current)
      /\ Published(meta) => tree = "full" /\ current \in Configs
  BY RecFacts DEF RecreateAffected
<1>2. /\ meta' = meta /\ tree' = tree /\ pgdata' = pgdata /\ current' = current /\ site' = site
      /\ holder' = holder /\ disturbed' = disturbed
  BY DEF RecreateAffected, files
<1> DEFINE g == call[c].cfg
           affected == affectedServices(Old(meta), g) \cap g.on
           to == Recreated(g, affected)
<1>3. /\ to \in [Services -> Containers]
      /\ \A s \in Services : to[s] = IF s \notin g.on THEN None ELSE IF s \in affected THEN Container(g, s) ELSE cont[s]
  BY <1>1, RecreatedFacts
<1>4. CommandFor(c, affected, to, "added", "u.clean") /\ (Published(meta) => Old(meta) \in Configs)
  BY <1>1, MetadataFacts DEF RecreateAffected
<1> HIDE DEF to
<1>5. /\ cont' \in [Services -> Containers] /\ faults' \in 0..MaxFaults
      /\ \/ affected = {} /\ cont' = cont /\ Goto(c, "added")
         \/ affected # {} /\ cont' = to /\ Goto(c, "added")
         \/ /\ \A s \in Services : cont'[s] = to[s] \/ cont'[s] = cont[s]
            /\ Goto(c, "u.clean")
  BY <1>1, <1>3, <1>4, CommandForFacts
<1>6. \A s \in Services : Container(g, s).set = g.set[s]
  BY <1>1, ContainerTyped
<1>7. ASSUME Belong(Old(meta), cont), Within(g.on, cont), Published(meta)
      PROVE  /\ Mixed(Old(meta), g, cont')
             /\ cont' = to \/ (affected = {} /\ cont' = cont) => Belong(g, cont')
  <2>1. Mixed(Old(meta), g, cont')
    BY <1>3, <1>5, <1>6, <1>7 DEF Belong, Mixed, Within
  <2>2. \A s \in Services : s \in g.on /\ s \notin affected => Old(meta).set[s] = g.set[s]
    BY <1>1, <1>4, <1>7, Unaffected
  <2>3. CASE affected = {} /\ cont' = cont
    BY <1>7, <2>1, <2>2, <2>3 DEF Belong, Within
  <2>4. CASE cont' = to
    BY <1>3, <1>6, <1>7, <2>1, <2>2, <2>4 DEF Belong, Within
  <2> QED
    BY <2>1, <2>3, <2>4
<1> HIDE DEF affected
<1>8. PICK at \in {"added", "u.clean"} :
        Goto(c, at) /\ (at = "added" => cont' = to \/ (affected = {} /\ cont' = cont))
  BY <1>5
<1>9. ASSUME NEW l, Follows(call[c], l, at, call[c].clean)
      PROVE  /\ Sound(l, meta, tree', current')
             /\ Reconciling(call[c], meta, current, site, pgdata, cont) =>
                   Reconciling(l, meta, current', site', pgdata', cont')
  <2>1. Sound(l, meta, tree', current')
    BY <1>1, <1>2, <1>9 DEF Sound, Follows, SameAim, SamePast, Onward, FirstSteps, Backward
  <2>2. Reconciling(call[c], meta, current, site, pgdata, cont) =>
          Reconciling(l, meta, current', site', pgdata', cont')
    BY <1>1, <1>2, <1>7, <1>8, <1>9 DEF Reconciling, Follows, SameAim, SamePast, Onward, Backward
  <2> QED
    BY <2>1, <2>2
<1>10. at \in LockSteps
  BY DEF LockSteps, ApplySteps, UndoSteps
<1> QED
  BY <1>1, <1>2, <1>5, <1>8, <1>9, <1>10, GoesOnTo DEF RtTyped

LEMMA UpAddedKeeps ==
    ASSUME BaseInv, KeysInv, NEW c \in Callers, UNCHANGED managerVars, UpAdded(c)
    PROVE  Keeps
<1>1. /\ RtTyped /\ call[c] # None /\ call[c] \in Call /\ call[c].kind = "RECONCILE" /\ call[c].at = "added"
      /\ call[c].cfg \in Configs /\ InLock(call[c]) /\ Sound(call[c], meta, tree, current)
      /\ Published(meta) => tree = "full" /\ current \in Configs
  BY RecFacts DEF UpAdded
<1>2. /\ meta' = meta /\ tree' = tree /\ pgdata' = pgdata /\ current' = current /\ site' = site
      /\ holder' = holder /\ disturbed' = disturbed
  BY DEF UpAdded, files
<1> DEFINE g == call[c].cfg
           to == Recreated(g, WithDependencies(g, added(c)))
<1>3. /\ to \in [Services -> Containers]
      /\ \A s \in Services : to[s] = None \/ (s \in g.on /\ to[s] = Container(g, s)) \/ to[s] = cont[s]
  BY <1>1, RecreatedFacts
<1>4. CommandFor(c, added(c), to, "health", "u.clean")
  BY DEF UpAdded
<1> HIDE DEF to
<1>5. /\ cont' \in [Services -> Containers] /\ faults' \in 0..MaxFaults
      /\ \A s \in Services : cont'[s] = to[s] \/ cont'[s] = cont[s]
      /\ Goto(c, "health") \/ Goto(c, "u.clean")
  BY <1>1, <1>3, <1>4, CommandForFacts
<1>6. Belong(g, cont) => Belong(g, cont') /\ Mixed(Old(meta), g, cont')
  <2>1. \A s \in Services : Container(g, s).set = g.set[s]
    BY <1>1, ContainerTyped
  <2> QED
    BY <1>3, <1>5, <2>1 DEF Belong, Mixed
<1>7. PICK at \in {"health", "u.clean"} : Goto(c, at)
  BY <1>5
<1>8. ASSUME NEW l, Follows(call[c], l, at, call[c].clean)
      PROVE  /\ Sound(l, meta, tree', current')
             /\ Reconciling(call[c], meta, current, site, pgdata, cont) =>
                   Reconciling(l, meta, current', site', pgdata', cont')
  <2>1. Sound(l, meta, tree', current')
    BY <1>1, <1>2, <1>8 DEF Sound, Follows, SameAim, SamePast, Onward, FirstSteps, Backward
  <2>2. Reconciling(call[c], meta, current, site, pgdata, cont) =>
          Reconciling(l, meta, current', site', pgdata', cont')
    BY <1>1, <1>2, <1>6, <1>8 DEF Reconciling, Follows, SameAim, SamePast, Onward, Backward
  <2> QED
    BY <2>1, <2>2
<1>9. at \in LockSteps
  BY DEF LockSteps, ApplySteps, UndoSteps
<1> QED
  BY <1>1, <1>2, <1>5, <1>7, <1>8, <1>9, GoesOnTo DEF RtTyped

LEMMA waitHealthyKeeps ==
    ASSUME BaseInv, KeysInv, NEW c \in Callers, UNCHANGED managerVars, waitHealthy(c)
    PROVE  Keeps
<1>1. /\ RtTyped /\ call[c] # None /\ call[c] \in Call /\ call[c].kind = "RECONCILE" /\ call[c].at = "health"
      /\ call[c].cfg \in Configs /\ InLock(call[c]) /\ Sound(call[c], meta, tree, current)
      /\ Published(meta) => tree = "full" /\ current \in Configs
  BY RecFacts DEF waitHealthy
<1>2. /\ meta' = meta /\ tree' = tree /\ pgdata' = pgdata /\ current' = current /\ cont' = cont /\ site' = site
      /\ holder' = holder /\ disturbed' = disturbed
  BY DEF waitHealthy, files
<1>3. PICK at \in {"proxy", "u.clean"} : Goto(c, at)
  BY DEF waitHealthy
<1>4. faults' \in 0..MaxFaults
  BY <1>1, FaultTyped DEF waitHealthy
<1>5. Belong(call[c].cfg, cont) => Mixed(Old(meta), call[c].cfg, cont)
  BY DEF Belong, Mixed
<1>6. ASSUME NEW l, Follows(call[c], l, at, call[c].clean)
      PROVE  /\ Sound(l, meta, tree', current')
             /\ Reconciling(call[c], meta, current, site, pgdata, cont) =>
                   Reconciling(l, meta, current', site', pgdata', cont')
  <2>1. Sound(l, meta, tree', current')
    BY <1>1, <1>2, <1>6 DEF Sound, Follows, SameAim, SamePast, Onward, FirstSteps, Backward
  <2>2. Reconciling(call[c], meta, current, site, pgdata, cont) =>
          Reconciling(l, meta, current', site', pgdata', cont')
    BY <1>1, <1>2, <1>5, <1>6 DEF Reconciling, Follows, SameAim, SamePast, Onward, Backward
  <2> QED
    BY <2>1, <2>2
<1>7. at \in LockSteps
  BY DEF LockSteps, ApplySteps, UndoSteps
<1> QED
  BY <1>1, <1>2, <1>3, <1>4, <1>6, <1>7, GoesOnTo DEF RtTyped

LEMMA ApplyProxyKeeps ==
    ASSUME BaseInv, KeysInv, NEW c \in Callers, UNCHANGED managerVars, ApplyProxy(c)
    PROVE  Keeps
<1>1. /\ RtTyped /\ call[c] # None /\ call[c] \in Call /\ call[c].kind = "RECONCILE" /\ call[c].at = "proxy"
      /\ call[c].cfg \in Configs /\ InLock(call[c]) /\ Sound(call[c], meta, tree, current)
      /\ Published(meta) => tree = "full" /\ current \in Configs
  BY RecFacts DEF ApplyProxy
<1>2. /\ meta' = meta /\ tree' = tree /\ pgdata' = pgdata /\ current' = current /\ cont' = cont
      /\ holder' = holder
  BY DEF ApplyProxy, files
<1> DEFINE route == call[c].cfg.route
<1>3. route \in Routes \cup {None} /\ Metadata.cfg = Old(meta)
  BY <1>1, RouteTyped, MetadataFacts
<1>4. faults' \in 0..MaxFaults
  BY <1>1, FaultTyped DEF ApplyProxy
<1>5. Belong(call[c].cfg, cont) => Mixed(Old(meta), call[c].cfg, cont)
  BY DEF Belong, Mixed
<1>6. ASSUME NEW at \in {"publish", "u.clean"}, Goto(c, at), site' = site, disturbed' = disturbed,
             at = "publish" => route = None /\ Old(meta).route = None
      PROVE  Keeps
  <2>1. ASSUME NEW l, Follows(call[c], l, at, call[c].clean)
        PROVE  /\ Sound(l, meta, tree', current')
               /\ Reconciling(call[c], meta, current, site, pgdata, cont) =>
                     Reconciling(l, meta, current', site', pgdata', cont')
    <3>1. Sound(l, meta, tree', current')
      BY <1>1, <1>2, <2>1 DEF Sound, Follows, SameAim, SamePast, Onward, FirstSteps, Backward
    <3>2. Reconciling(call[c], meta, current, site, pgdata, cont) =>
            Reconciling(l, meta, current', site', pgdata', cont')
      BY <1>1, <1>2, <1>5, <1>6, <2>1 DEF Reconciling, Follows, SameAim, SamePast, Onward, Backward
    <3> QED
      BY <3>1, <3>2
  <2>2. at \in LockSteps
    BY DEF LockSteps, ApplySteps, UndoSteps
  <2> QED
    BY <1>1, <1>2, <1>4, <1>6, <2>1, <2>2, GoesOnTo DEF RtTyped
<1>7. ASSUME site' = route, disturbed' = disturbed,
             call' = [call EXCEPT ![c].at = "publish", ![c].proxied = TRUE]
      PROVE  Keeps
  <2> DEFINE l == [call[c] EXCEPT !.at = "publish", !.proxied = TRUE]
  <2>1. call' = [call EXCEPT ![c] = l] /\ call'[c] = l
    BY <1>1, <1>7 DEF RtTyped
  <2>2. /\ l \in Call /\ SameAim(call[c], l) /\ l.at = "publish" /\ l.proxied = TRUE /\ l.was = call[c].was
        /\ l.committed = call[c].committed /\ l.clean = call[c].clean
    BY <1>1 DEF Call, SameAim, ApplySteps
  <2> HIDE DEF l
  <2>3. Progress(c) /\ InLock(call'[c])
    BY <1>1, <2>1, <2>2, ConstantFacts DEF Progress, OnlyCall, InLock, SameAim
  <2>4. Sound(call'[c], meta, tree', current')
    BY <1>1, <1>2, <2>1, <2>2 DEF Sound, SameAim, Onward, FirstSteps, Backward
  <2>5. Reconciling(call[c], meta, current, site, pgdata, cont) =>
          Reconciling(call'[c], meta, current', site', pgdata', cont')
    BY <1>1, <1>2, <1>7, <2>1, <2>2 DEF Reconciling, SameAim, Onward, Backward
  <2> QED
    BY <1>1, <1>2, <1>3, <1>4, <1>7, <2>3, <2>4, <2>5, GoesOn DEF RtTyped
<1>8. ASSUME Goto(c, "u.clean"), site' = route, disturbed' = TRUE
      PROVE  Keeps
  <2>1. OnlyCall(c) /\ Moved(call[c], call'[c], "u.clean", call[c].clean)
    BY <1>1, <1>8, GotoFacts DEF AllSteps, UndoSteps
  <2>2. call'[c].at = "u.clean" /\ Progress(c)
    BY <1>1, <2>1 DEF Moved, Progress, Answers
  <2>3. InLock(call'[c]) /\ Sound(call'[c], meta, tree', current')
    BY <1>1, <1>2, <2>1, <2>2, ConstantFacts
       DEF InLock, Sound, Moved, SameAim, SamePast, Onward, FirstSteps, Backward
  <2> QED
    BY <1>1, <1>2, <1>3, <1>4, <1>8, <2>2, <2>3, GoesOn DEF RtTyped
<1> QED
  BY <1>3, <1>6, <1>7, <1>8 DEF ApplyProxy

-----------------------------------------------------------------------------
(* Reconcile, backward.                                                    *)

LEMMA CleanKeeps ==
    ASSUME BaseInv, KeysInv, NEW c \in Callers, UNCHANGED managerVars, CleanCandidate(c)
    PROVE  Keeps
<1>1. /\ RtTyped /\ call[c] # None /\ call[c] \in Call /\ call[c].kind = "RECONCILE" /\ call[c].at = "u.clean"
      /\ call[c].cfg \in Configs /\ InLock(call[c]) /\ Sound(call[c], meta, tree, current)
      /\ Published(meta) => tree = "full" /\ current \in Configs
  BY RecFacts DEF CleanCandidate
<1>2. /\ meta' = meta /\ tree' = tree /\ pgdata' = pgdata /\ current' = current /\ site' = site
      /\ holder' = holder /\ disturbed' = disturbed
  BY DEF CleanCandidate, files
<1>3. /\ previousServices = {} <=> ~Published(meta)
      /\ previousServices = Old(meta).on /\ added(c) = call[c].cfg.on \ Old(meta).on
  BY <1>1, MetadataFacts DEF added
<1> DEFINE gone == IF previousServices = {} THEN Services ELSE added(c)
           next == IF previousServices = {} THEN "u.wipe" ELSE "u.restore"
<1>4. /\ Removed(gone) \in [Services -> Containers]
      /\ \A s \in Services : Removed(gone)[s] = IF s \in gone THEN None ELSE cont[s]
  BY <1>1, RemovedFacts
<1>5. \/ cont' = Removed(gone) /\ Goto(c, next) /\ NoFault
      \/ cont' \in Partly(Removed(gone)) /\ Unclean(c, next) /\ Fault
  BY DEF CleanCandidate
<1>6. faults' \in 0..MaxFaults
  BY <1>1, <1>5, FaultTyped
<1>7. cont' \in [Services -> Containers]
  BY <1>1, <1>4, <1>5 DEF Partly, RtTyped
<1>8. next \in {"u.wipe", "u.restore"} /\ (next = "u.wipe" <=> ~Published(meta))
  BY <1>3
<1>9. ASSUME cont' = Removed(gone), Reconciling(call[c], meta, current, site, pgdata, cont)
      PROVE  /\ call[c].committed /\ call[c].was = Pointer(meta) /\ (~call[c].proxied => site = Old(meta).route)
             /\ ~Published(meta) => Within({}, cont')
             /\ Published(meta) => /\ Mixed(Old(meta), call[c].cfg, cont') /\ Within(Old(meta).on, cont')
                                   /\ pgdata = Data(meta)
  <2>1. /\ call[c].committed /\ call[c].was = Pointer(meta) /\ (~call[c].proxied => site = Old(meta).route)
        /\ Mixed(Old(meta), call[c].cfg, cont) /\ (Published(meta) => pgdata = "ready")
    BY <1>1, <1>9 DEF Reconciling, Backward
  <2>2. ~Published(meta) => Within({}, cont')
    BY <1>3, <1>4, <1>9 DEF Within
  <2>3. Published(meta) => Mixed(Old(meta), call[c].cfg, cont') /\ Within(Old(meta).on, cont')
    BY <1>3, <1>4, <1>9, <2>1 DEF Within, Mixed
  <2> QED
    BY <2>1, <2>2, <2>3 DEF Data
<1>10. ASSUME Reconciling(call[c], meta, current, site, pgdata, cont)
       PROVE  /\ call[c].committed /\ call[c].was = Pointer(meta)
              /\ ~call[c].proxied => site = Old(meta).route
  BY <1>1, <1>10 DEF Reconciling, Backward
<1> HIDE DEF next, gone
<1>11. PICK clean : /\ (Goto(c, next) /\ clean = call[c].clean) \/ (Unclean(c, next) /\ clean = FALSE)
                    /\ clean => cont' = Removed(gone)
  BY <1>5
<1>12. ASSUME NEW l, Follows(call[c], l, next, clean)
       PROVE  /\ Sound(l, meta, tree', current')
              /\ Reconciling(call[c], meta, current, site, pgdata, cont) =>
                    Reconciling(l, meta, current', site', pgdata', cont')
  <2>1. Sound(l, meta, tree', current')
    BY <1>1, <1>2, <1>8, <1>12 DEF Sound, Follows, SameAim, SamePast, Onward, FirstSteps, Backward
  <2>2. Reconciling(call[c], meta, current, site, pgdata, cont) =>
          Reconciling(l, meta, current', site', pgdata', cont')
    BY <1>2, <1>8, <1>9, <1>10, <1>11, <1>12 DEF Reconciling, Follows, SameAim, SamePast, Onward, Backward
  <2> QED
    BY <2>1, <2>2
<1>13. next \in LockSteps
  BY <1>8 DEF LockSteps, ApplySteps, UndoSteps
<1> QED
  BY <1>1, <1>2, <1>6, <1>7, <1>11, <1>12, <1>13, GoesOnTo DEF RtTyped

LEMMA ReseedKeeps ==
    ASSUME BaseInv, KeysInv, NEW c \in Callers, UNCHANGED managerVars, ReseedDatabase(c)
    PROVE  Keeps
<1>1. /\ RtTyped /\ call[c] # None /\ call[c] \in Call /\ call[c].kind = "RECONCILE" /\ call[c].at = "u.seed"
      /\ call[c].cfg \in Configs /\ InLock(call[c]) /\ Sound(call[c], meta, tree, current)
  BY RecFacts DEF ReseedDatabase
<1>2. /\ meta' = meta /\ pgdata' = pgdata /\ current' = current /\ cont' = cont /\ site' = site
      /\ holder' = holder /\ disturbed' = disturbed /\ faults' \in 0..MaxFaults /\ tree' \in Trees
  BY <1>1, FaultTyped DEF ReseedDatabase, runtime, RtTyped, Trees
<1>3. ~Published(meta)
  BY <1>1 DEF Sound, FirstSteps
<1>4. PICK clean : (Goto(c, "u.restore") /\ clean = call[c].clean) \/ (Unclean(c, "u.restore") /\ clean = FALSE)
  BY DEF ReseedDatabase
<1>5. ASSUME Reconciling(call[c], meta, current, site, pgdata, cont)
      PROVE  /\ call[c].was = Pointer(meta) /\ (~call[c].proxied => site = Old(meta).route)
             /\ call[c].committed /\ pgdata = Data(meta)
             /\ call[c].clean => Mixed(Old(meta), call[c].cfg, cont) /\ Within(Old(meta).on, cont)
  BY <1>1, <1>3, <1>5 DEF Reconciling, Backward, Mixed, Within, Data
<1>6. ASSUME NEW l, Follows(call[c], l, "u.restore", clean)
      PROVE  /\ Sound(l, meta, tree', current')
             /\ Reconciling(call[c], meta, current, site, pgdata, cont) =>
                   Reconciling(l, meta, current', site', pgdata', cont')
  <2>1. Sound(l, meta, tree', current')
    BY <1>1, <1>2, <1>3, <1>6 DEF Sound, Follows, SameAim, SamePast, Onward, FirstSteps, Backward
  <2>2. Reconciling(call[c], meta, current, site, pgdata, cont) =>
          Reconciling(l, meta, current', site', pgdata', cont')
    BY <1>2, <1>4, <1>5, <1>6 DEF Reconciling, Follows, SameAim, SamePast, Onward, Backward
  <2> QED
    BY <2>1, <2>2
<1>7. "u.restore" \in LockSteps
  BY DEF LockSteps, ApplySteps, UndoSteps
<1> QED
  BY <1>1, <1>2, <1>3, <1>4, <1>6, <1>7, GoesOnTo DEF RtTyped

LEMMA RestorePointerKeeps ==
    ASSUME BaseInv, KeysInv, NEW c \in Callers, UNCHANGED managerVars, RestorePointer(c)
    PROVE  Keeps
<1>1. /\ RtTyped /\ call[c] # None /\ call[c] \in Call /\ call[c].kind = "RECONCILE" /\ call[c].at = "u.restore"
      /\ call[c].cfg \in Configs /\ InLock(call[c]) /\ Sound(call[c], meta, tree, current)
      /\ Published(meta) => tree = "full" /\ current \in Configs
  BY RecFacts DEF RestorePointer
<1>2. /\ meta' = meta /\ tree' = tree /\ pgdata' = pgdata /\ cont' = cont /\ site' = site
      /\ holder' = holder /\ disturbed' = disturbed /\ faults' \in 0..MaxFaults
  BY <1>1, FaultTyped DEF RestorePointer
<1>3. PICK at \in {"u.recreate", "fail"}, clean \in {call[c].clean, FALSE} :
        /\ (Goto(c, at) /\ clean = call[c].clean) \/ (Unclean(c, at) /\ clean = FALSE)
        /\ \/ current' = call[c].was /\ (at = "u.recreate" <=> call[c].committed)
           \/ current' = current /\ ~clean /\ at = "fail"
  BY DEF RestorePointer
<1>4. current' \in Configs \cup {None} /\ (Published(meta) => current' \in Configs)
  <2>1. call[c].was \in Configs \cup {None} /\ (Published(meta) => call[c].was \in Configs)
    BY <1>1, CallFields DEF Sound, Backward
  <2> QED
    BY <1>1, <1>3, <2>1 DEF RtTyped
<1>5. ASSUME NEW l, Follows(call[c], l, at, clean)
      PROVE  /\ Sound(l, meta, tree', current')
             /\ Reconciling(call[c], meta, current, site, pgdata, cont) =>
                   Reconciling(l, meta, current', site', pgdata', cont')
  <2>1. Sound(l, meta, tree', current')
    BY <1>1, <1>2, <1>5 DEF Sound, Follows, SameAim, SamePast, Onward, FirstSteps, Backward
  <2>2. ASSUME Reconciling(call[c], meta, current, site, pgdata, cont)
        PROVE  Reconciling(l, meta, current', site', pgdata', cont')
    <3>1. /\ call[c].was = Pointer(meta) /\ (~call[c].proxied => site = Old(meta).route)
          /\ call[c].clean =>
                /\ pgdata = Data(meta) /\ Mixed(Old(meta), call[c].cfg, cont) /\ Within(Old(meta).on, cont)
                /\ ~call[c].committed => Belong(Old(meta), cont) /\ ~call[c].proxied
      BY <1>1, <2>2 DEF Reconciling, Backward
    <3>2. clean \in BOOLEAN /\ (clean => call[c].clean)
      BY <1>1, <1>3, CallFields
    <3>3. CASE at = "u.recreate"
      BY <1>2, <1>3, <1>5, <3>1, <3>2, <3>3
         DEF Reconciling, Follows, SameAim, SamePast, Onward, Backward
    <3>4. CASE at = "fail"
      <4>1. clean => Rest(meta, current', site', pgdata', cont')
        BY <1>2, <1>3, <3>1, <3>2, <3>4 DEF Rest
      <4> QED
        BY <1>5, <3>4, <4>1 DEF Reconciling, Follows, Onward, Backward
    <3> QED
      BY <3>3, <3>4
  <2> QED
    BY <2>1, <2>2
<1>6. at \in LockSteps
  BY DEF LockSteps, ApplySteps, UndoSteps
<1> QED
  BY <1>1, <1>2, <1>3, <1>4, <1>5, <1>6, GoesOnTo DEF RtTyped

LEMMA RecreatePreviousKeeps ==
    ASSUME BaseInv, KeysInv, NEW c \in Callers, UNCHANGED managerVars, RecreatePrevious(c)
    PROVE  Keeps
<1>1. /\ RtTyped /\ call[c] # None /\ call[c] \in Call /\ call[c].kind = "RECONCILE" /\ call[c].at = "u.recreate"
      /\ call[c].cfg \in Configs /\ InLock(call[c]) /\ Sound(call[c], meta, tree, current)
      /\ Published(meta) => tree = "full" /\ current \in Configs
  BY RecFacts DEF RecreatePrevious
<1>2. /\ meta' = meta /\ tree' = tree /\ pgdata' = pgdata /\ current' = current /\ site' = site
      /\ holder' = holder /\ disturbed' = disturbed
  BY DEF RecreatePrevious, files
<1> DEFINE g == call[c].was
           services == rollbackServices(c)
           to == Recreated(g, services)
<1>3. /\ Metadata.cfg = Old(meta) /\ previousServices = Old(meta).on
      /\ Published(meta) => Old(meta) \in Configs /\ Old(meta) = meta.cfg /\ g \in Configs
      /\ ~Published(meta) => Old(meta) = NoConfig /\ previousServices = {}
  BY <1>1, MetadataFacts DEF Sound, Backward
<1>4. /\ services = (affectedServices(Old(meta), call[c].cfg) \cup disabled(c)) \cap Old(meta).on
      /\ services # {} => Published(meta)
  BY <1>3 DEF rollbackServices
<1>5. services # {} =>
        /\ to \in [Services -> Containers]
        /\ \A s \in Services :
             to[s] = IF s \notin g.on THEN None ELSE IF s \in services THEN Container(g, s) ELSE cont[s]
  BY <1>1, <1>3, <1>4, RecreatedFacts
<1>6. \/ services = {} /\ cont' = cont /\ Goto(c, "u.health") /\ NoFault
      \/ services # {} /\ cont' = to /\ Goto(c, "u.health") /\ NoFault
      \/ services # {} /\ cont' \in Partly(to) /\ Unclean(c, "fail") /\ Fault
  BY DEF RecreatePrevious
<1>7. cont' \in [Services -> Containers] /\ faults' \in 0..MaxFaults
  BY <1>1, <1>5, <1>6, FaultTyped DEF Partly, RtTyped
<1>8. ASSUME Reconciling(call[c], meta, current, site, pgdata, cont), call[c].clean,
             (services = {} /\ cont' = cont) \/ (services # {} /\ cont' = to)
      PROVE  Belong(Old(meta), cont')
  <2>1. Mixed(Old(meta), call[c].cfg, cont) /\ Within(Old(meta).on, cont) /\ g = Pointer(meta)
    BY <1>1, <1>8 DEF Reconciling, Backward
  <2>2. CASE ~Published(meta)
    BY <1>3, <1>4, <1>8, <2>1, <2>2, NoConfigFacts DEF Belong, Within
  <2>3. CASE Published(meta)
    <3>1. g = Old(meta) /\ \A s \in Services : Container(g, s).set = Old(meta).set[s]
      <4>1. g = Old(meta)
        BY <1>3, <2>1, <2>3 DEF Pointer
      <4> QED
        BY <1>3, <2>3, <4>1, ContainerTyped
    <3>2. \A s \in Services : s \in Old(meta).on /\ s \notin services => Old(meta).set[s] = call[c].cfg.set[s]
      BY <1>1, <1>3, <1>4, <2>3, Unaffected
    <3>3. Belong(Old(meta), cont) \/ services # {}
      BY <2>1, <3>2 DEF Belong, Mixed, Within
    <3>4. CASE services # {}
      <4> HIDE DEF services, to, g
      <4>1. \A s \in Services :
              cont'[s] = IF s \notin g.on THEN None ELSE IF s \in services THEN Container(g, s) ELSE cont[s]
        BY <1>5, <1>8, <3>4
      <4> QED
        BY <2>1, <3>1, <3>2, <4>1 DEF Belong, Mixed, Within
    <3> QED
      BY <1>8, <3>3, <3>4
  <2> QED
    BY <2>2, <2>3
<1> HIDE DEF services, to
<1>9. PICK at \in {"u.health", "fail"}, clean \in {call[c].clean, FALSE} :
        /\ (Goto(c, at) /\ clean = call[c].clean) \/ (Unclean(c, at) /\ clean = FALSE)
        /\ \/ /\ at = "u.health" /\ clean = call[c].clean
              /\ (services = {} /\ cont' = cont) \/ (services # {} /\ cont' = to)
           \/ at = "fail" /\ clean = FALSE
  BY <1>6
<1>10. ASSUME NEW l, Follows(call[c], l, at, clean)
       PROVE  /\ Sound(l, meta, tree', current')
              /\ Reconciling(call[c], meta, current, site, pgdata, cont) =>
                    Reconciling(l, meta, current', site', pgdata', cont')
  <2>1. Sound(l, meta, tree', current')
    BY <1>1, <1>2, <1>10 DEF Sound, Follows, SameAim, SamePast, Onward, FirstSteps, Backward
  <2>2. Reconciling(call[c], meta, current, site, pgdata, cont) =>
          Reconciling(l, meta, current', site', pgdata', cont')
    <3>1. CASE at = "u.health"
      <4> SUFFICES ASSUME Reconciling(call[c], meta, current, site, pgdata, cont)
                   PROVE  Reconciling(l, meta, current', site', pgdata', cont')
        OBVIOUS
      <4>1. call[c].clean => Belong(Old(meta), cont')
        BY <1>8, <1>9, <3>1
      <4>2. /\ l.was = call[c].was /\ l.committed = call[c].committed /\ l.proxied = call[c].proxied
            /\ l.cfg = call[c].cfg /\ l.clean = call[c].clean /\ l.at = "u.health"
        BY <1>9, <1>10, <3>1 DEF Follows, SameAim, SamePast
      <4> QED
        BY <1>1, <1>2, <4>1, <4>2 DEF Reconciling, Onward, Backward
    <3>2. CASE at = "fail"
      BY <1>9, <1>10, <3>2 DEF Reconciling, Follows, Onward, Backward
    <3> QED
      BY <3>1, <3>2
  <2> QED
    BY <2>1, <2>2
<1>11. at \in LockSteps
  BY DEF LockSteps, ApplySteps, UndoSteps
<1> QED
  BY <1>1, <1>2, <1>7, <1>9, <1>10, <1>11, GoesOnTo DEF RtTyped

LEMMA PreviousHealthyKeeps ==
    ASSUME BaseInv, KeysInv, NEW c \in Callers, UNCHANGED managerVars, PreviousHealthy(c)
    PROVE  Keeps
<1>1. /\ RtTyped /\ call[c] # None /\ call[c] \in Call /\ call[c].kind = "RECONCILE" /\ call[c].at = "u.health"
      /\ call[c].cfg \in Configs /\ InLock(call[c]) /\ Sound(call[c], meta, tree, current)
      /\ Published(meta) => tree = "full" /\ current \in Configs
  BY RecFacts DEF PreviousHealthy
<1>2. /\ meta' = meta /\ tree' = tree /\ pgdata' = pgdata /\ current' = current /\ cont' = cont /\ site' = site
      /\ holder' = holder /\ disturbed' = disturbed /\ faults' \in 0..MaxFaults
  BY <1>1, FaultTyped DEF PreviousHealthy, files
<1>3. /\ Advance(call[c], "fail") = [call[c] EXCEPT !.at = "fail"]
      /\ [call EXCEPT ![c].at = "fail", ![c].clean = FALSE] =
           [call EXCEPT ![c] = [[call[c] EXCEPT !.at = "fail"] EXCEPT !.clean = FALSE]]
  BY <1>1 DEF Advance, Answers, RtTyped
<1>4. call' = [call EXCEPT ![c].at = "fail", ![c].clean = FALSE] => Unclean(c, "fail")
  BY <1>3 DEF Unclean
<1>5. PICK at \in {"u.proxy", "fail"}, clean \in {call[c].clean, FALSE} :
        /\ (Goto(c, at) /\ clean = call[c].clean) \/ (Unclean(c, at) /\ clean = FALSE)
        /\ (at = "u.proxy" /\ call[c].clean /\ clean = call[c].clean) \/ (at = "fail" /\ clean = FALSE)
  BY <1>4 DEF PreviousHealthy
<1>6. ASSUME NEW l, Follows(call[c], l, at, clean)
      PROVE  /\ Sound(l, meta, tree', current')
             /\ Reconciling(call[c], meta, current, site, pgdata, cont) =>
                   Reconciling(l, meta, current', site', pgdata', cont')
  <2>1. Sound(l, meta, tree', current')
    BY <1>1, <1>2, <1>6 DEF Sound, Follows, SameAim, SamePast, Onward, FirstSteps, Backward
  <2>2. Reconciling(call[c], meta, current, site, pgdata, cont) =>
          Reconciling(l, meta, current', site', pgdata', cont')
    <3>1. CASE at = "u.proxy"
      BY <1>1, <1>2, <1>5, <1>6, <3>1 DEF Reconciling, Follows, SameAim, SamePast, Onward, Backward
    <3>2. CASE at = "fail"
      BY <1>5, <1>6, <3>2 DEF Reconciling, Follows, Onward, Backward
    <3> QED
      BY <3>1, <3>2
  <2> QED
    BY <2>1, <2>2
<1>7. at \in LockSteps
  BY DEF LockSteps, ApplySteps, UndoSteps
<1> QED
  BY <1>1, <1>2, <1>5, <1>6, <1>7, GoesOnTo DEF RtTyped

LEMMA RestoreProxyKeeps ==
    ASSUME BaseInv, KeysInv, NEW c \in Callers, UNCHANGED managerVars, RestoreProxy(c)
    PROVE  Keeps
<1>1. /\ RtTyped /\ call[c] # None /\ call[c] \in Call /\ call[c].kind = "RECONCILE" /\ call[c].at = "u.proxy"
      /\ call[c].cfg \in Configs /\ InLock(call[c]) /\ Sound(call[c], meta, tree, current)
      /\ Published(meta) => tree = "full" /\ current \in Configs
  BY RecFacts DEF RestoreProxy
<1>2. /\ meta' = meta /\ tree' = tree /\ pgdata' = pgdata /\ current' = current /\ cont' = cont
      /\ holder' = holder /\ disturbed' = disturbed /\ faults' \in 0..MaxFaults
  BY <1>1, FaultTyped DEF RestoreProxy, files
<1>3. Metadata.cfg = Old(meta) /\ Old(meta).route \in Routes \cup {None}
  BY <1>1, MetadataFacts
<1>4. PICK clean :
        /\ (Goto(c, "fail") /\ clean = call[c].clean) \/ (Unclean(c, "fail") /\ clean = FALSE)
        /\ clean => \/ ~call[c].proxied /\ site' = site
                    \/ call[c].proxied /\ site' = Old(meta).route
  BY <1>3 DEF RestoreProxy
<1>5. site' \in Routes \cup {None}
  BY <1>1, <1>3 DEF RestoreProxy, RtTyped
<1>6. ASSUME NEW l, Follows(call[c], l, "fail", clean)
      PROVE  /\ Sound(l, meta, tree', current')
             /\ Reconciling(call[c], meta, current, site, pgdata, cont) =>
                   Reconciling(l, meta, current', site', pgdata', cont')
  <2>1. Sound(l, meta, tree', current')
    BY <1>1, <1>2, <1>6 DEF Sound, Follows, SameAim, SamePast, Onward, FirstSteps, Backward
  <2>2. ASSUME Reconciling(call[c], meta, current, site, pgdata, cont)
        PROVE  Reconciling(l, meta, current', site', pgdata', cont')
    <3>1. clean => Rest(meta, current', site', pgdata', cont')
      BY <1>1, <1>2, <1>4, <2>2 DEF Reconciling, Rest, Backward
    <3> QED
      BY <1>6, <3>1 DEF Reconciling, Follows, Onward, Backward
  <2> QED
    BY <2>1, <2>2
<1>7. "fail" \in LockSteps
  BY DEF LockSteps, ApplySteps, UndoSteps
<1> QED
  BY <1>1, <1>2, <1>4, <1>5, <1>6, <1>7, GoesOnTo DEF RtTyped

-----------------------------------------------------------------------------
(* Reconcile, its beginning and its end.                                   *)

LEMMA KeyOf ==
    ASSUME BaseInv, KeysInv, NEW c \in Callers, call[c] # None
    PROVE  op[c] # None /\ call[c].key = op[c].key /\ op[c].key <= requests
<1>1. op[c] # None
  BY Runs
<1>2. Sent(op[c], call[c])
  BY DEF KeysInv
<1> QED
  BY <1>1, <1>2 DEF Sent, KeysInv

LEMMA BeginKeeps ==
    ASSUME BaseInv, KeysInv, NEW c \in Callers, UNCHANGED managerVars, BeginReconcile(c)
    PROVE  Keeps
<1>1. RtTyped /\ Fits(op[c], call[c]) /\ Locked /\ (Published(meta) => tree = "full" /\ current \in Configs)
  BY DEF BaseInv
<1>2. /\ call[c] # None /\ call[c].kind = "RECONCILE" /\ call[c].at = "begin" /\ call[c].key \in Keys
      /\ call[c] \in Call /\ holder = None
  BY <1>1 DEF BeginReconcile, Rec, At, Fits, RtTyped
<1>3. /\ meta' = meta /\ tree' = tree /\ pgdata' = pgdata /\ current' = current /\ cont' = cont /\ site' = site
      /\ faults' = faults /\ disturbed' = disturbed
  BY DEF BeginReconcile, files
<1>4. PICK stored : stored = Metadata.keys[call[c].key]
  OBVIOUS
<1>5. stored = Key(meta, call[c].key) /\ stored \in Answers \cup {None}
  BY <1>1, <1>2, <1>4, MetadataFacts, RecordFields
<1>6. PICK at \in Answers \cup {"stage"} :
        /\ Goto(c, at)
        /\ at \in Answers => holder' = None /\ stored # None
        /\ at \notin Answers => at = "stage" /\ holder' = c
  BY <1>2, <1>4, <1>5 DEF BeginReconcile, Answers
<1>7. OnlyCall(c) /\ Moved(call[c], call'[c], at, call[c].clean)
  BY <1>1, <1>2, <1>6, GotoFacts DEF AllSteps, ApplySteps
<1>8. /\ Progress(c) /\ call'[c] # None
      /\ call'[c].kind = "RECONCILE" /\ call'[c].at = (IF at \in Answers THEN "answered" ELSE "stage")
  BY <1>2, <1>6, <1>7, ConstantFacts DEF Progress, Moved, SameAim
<1>9. /\ holder' \in Callers \cup {None} /\ (InLock(call'[c]) <=> holder' = c)
      /\ \A d \in Callers : d # c => (holder' = d <=> holder = d)
  BY <1>2, <1>6, <1>8, ConstantFacts DEF InLock
<1>10. BaseInv'
  <2>1. StateTyped' /\ faults' \in 0..MaxFaults /\ disturbed' \in BOOLEAN
    BY <1>1, <1>3 DEF StateTyped, RtTyped
  <2>2. InLock(call'[c]) => Sound(call'[c], meta', tree', current')
    BY <1>8 DEF InLock, Sound, Onward, FirstSteps, Backward
  <2>3. \A d \in Callers : d # c /\ InLock(call[d]) => Sound(call[d], meta', tree', current')
    BY <1>3 DEF BaseInv
  <2>4. Published(meta') => tree' = "full" /\ current' \in Configs
    BY <1>1, <1>3
  <2> QED
    BY <1>8, <1>9, <2>1, <2>2, <2>3, <2>4, BaseProgress
<1>11. KeysInv'
  BY <1>3, <1>8, KeysProgress DEF KeysInv
<1>12. ASSUME Calm
       PROVE  Calm'
  <2>1. Running(c) /\ call[c].key = op[c].key /\ op[c] # None
    BY <1>2, Runs, KeyOf
  <2>2. Aims(op[c], call[c], meta, desired, requests) /\ Where(call[c], meta, current, site, pgdata, cont)
    BY <1>12, <2>1 DEF Calm
  <2>3. stored = None
    BY <1>2, <1>5, <2>1, <2>2 DEF Aims
  <2>4. at = "stage" /\ call'[c].at = "stage"
    BY <1>6, <1>8, <2>3
  <2>5. Reconciling(call[c], meta, current, site, pgdata, cont)
    BY <1>2, <2>2 DEF Where
  <2>6. Reconciling(call'[c], meta, current, site, pgdata, cont)
    BY <1>2, <1>7, <2>4, <2>5 DEF Reconciling, Moved, SamePast, Onward, Backward
  <2>7. Where(call'[c], meta', current', site', pgdata', cont')
    BY <1>3, <1>8, <2>6 DEF Where
  <2>8. Aims(op[c], call'[c], meta', desired, requests)
    BY <1>3, <1>8, <1>12, <2>4, AimsProgress
  <2> QED
    BY <1>8, <1>12, <2>7, <2>8, CalmProgress
<1> QED
  BY <1>3, <1>10, <1>11, <1>12 DEF Keeps, CalmInv

\* The lock is given back with the answer.
LEMMA LockEnds ==
    ASSUME BaseInv, KeysInv, NEW c \in Callers, UNCHANGED managerVars,
           InLock(call[c]), Progress(c), call'[c].at = "answered", holder' = None,
           StateTyped', faults' \in 0..MaxFaults, disturbed' \in BOOLEAN, disturbed => disturbed',
           Published(meta') => tree' = "full" /\ current' \in Configs,
           \A n \in Keys : Key(meta', n) # None => n <= requests,
           ~disturbed' /\ Reconciling(call[c], meta, current, site, pgdata, cont) =>
              /\ Rest(meta', current', site', pgdata', cont') /\ call'[c].answer # "error"
              /\ call'[c].answer = "ok" => Old(meta') = call[c].cfg
    PROVE  Keeps
<1>1. RtTyped /\ Locked /\ holder = c
  BY DEF BaseInv, Locked
<1>2. \A d \in Callers : d # c => ~InLock(call[d])
  BY <1>1 DEF Locked
<1>3. ~InLock(call'[c])
  BY DEF InLock
<1>4. \A d \in Callers : d # c => (holder' = d <=> holder = d)
  BY <1>1, ConstantFacts
<1>5. BaseInv'
  BY <1>1, <1>2, <1>3, <1>4, BaseProgress, ConstantFacts
<1>6. KeysInv'
  BY KeysProgress
<1>7. ASSUME Calm, ~disturbed'
      PROVE  Calm'
  <2>1. /\ Running(c) /\ call[c].kind = "RECONCILE" /\ call'[c].kind = "RECONCILE"
        /\ call[c] # None /\ call'[c] # None /\ op[c] # None /\ op[c].step \notin Ended \cup {"queued", "prepared"}
    BY Runs, ConstantFacts DEF InLock, Progress, SameAim
  <2>2. Aims(op[c], call[c], meta, desired, requests) /\ Where(call[c], meta, current, site, pgdata, cont)
    BY <1>7, <2>1 DEF Calm
  <2>3. /\ Rest(meta', current', site', pgdata', cont') /\ call'[c].answer # "error"
        /\ call'[c].answer = "ok" => Old(meta') = call[c].cfg
    BY <1>7, <2>1, <2>2 DEF Where
  <2>4. Where(call'[c], meta', current', site', pgdata', cont')
    BY <2>1, <2>3 DEF Where, Reconciling, Onward, Backward
  <2>5. op[c].step \notin {"start", "inspect"}
    BY <2>1 DEF KeysInv, Sent
  <2>6. Aims(op[c], call'[c], meta', desired, requests)
    BY <2>1, <2>2, <2>3, <2>5 DEF Aims, Progress, SameAim, Ended
  <2> QED
    BY <1>7, <2>4, <2>6, CalmProgress
<1> QED
  BY <1>5, <1>6, <1>7 DEF Keeps, CalmInv

LEMMA PublishKeeps ==
    ASSUME BaseInv, KeysInv, NEW c \in Callers, UNCHANGED managerVars, Publish(c)
    PROVE  Keeps
<1>1. /\ RtTyped /\ call[c] # None /\ call[c] \in Call /\ call[c].kind = "RECONCILE" /\ call[c].at = "publish"
      /\ call[c].cfg \in Configs /\ call[c].key \in Keys /\ InLock(call[c])
      /\ Sound(call[c], meta, tree, current)
      /\ Published(meta) => tree = "full" /\ current \in Configs
  BY RecFacts DEF Publish
<1>2. /\ tree' = tree /\ pgdata' = pgdata /\ current' = current /\ cont' = cont /\ site' = site
      /\ disturbed' = disturbed /\ tree = "full" /\ current = call[c].cfg
  BY <1>1 DEF Publish, runtime, Sound, Onward
<1>3. faults' \in 0..MaxFaults
  BY <1>1, FaultTyped DEF Publish
<1>4. CASE /\ meta' = [published |-> TRUE, cfg |-> call[c].cfg,
                       keys |-> [Metadata.keys EXCEPT ![call[c].key] = "ok"]]
           /\ Goto(c, "ok") /\ holder' = None
  <2>1. /\ Metadata.keys \in [Keys -> Answers \cup {None}]
        /\ \A n \in Keys : Metadata.keys[n] = Key(meta, n)
    BY <1>1, MetadataFacts, RecordFields
  <2>2. meta' \in Records /\ meta'.published = TRUE /\ meta'.cfg = call[c].cfg
    BY <1>1, <1>4, <2>1 DEF Records, Answers
  <2>3. meta' # None /\ Published(meta') /\ Old(meta') = call[c].cfg
    BY <2>2, ConstantFacts DEF Published, Old
  <2>4. \A n \in Keys : meta'.keys[n] = IF n = call[c].key THEN "ok" ELSE Key(meta, n)
    BY <1>1, <1>4, <2>1
  <2>5. \A n \in Keys : Key(meta', n) # None => n <= requests
    BY <1>1, <2>3, <2>4, KeyOf DEF Key, KeysInv
  <2>6. StateTyped' /\ disturbed' \in BOOLEAN
    BY <1>1, <1>2, <2>2, NoConfigFacts DEF StateTyped, RtTyped
  <2>7. OnlyCall(c) /\ Moved(call[c], call'[c], "ok", call[c].clean)
    BY <1>1, <1>4, GotoFacts DEF Answers
  <2>8. Progress(c) /\ call'[c].at = "answered" /\ call'[c].answer = "ok"
    BY <1>1, <2>7 DEF Moved, Progress, Answers
  <2>9. Reconciling(call[c], meta, current, site, pgdata, cont) =>
          Rest(meta', current', site', pgdata', cont')
    BY <1>1, <1>2, <2>2, <2>3 DEF Reconciling, Rest, Pointer, Data
  <2> QED
    BY <1>1, <1>2, <1>3, <1>4, <2>3, <2>5, <2>6, <2>8, <2>9, LockEnds
<1>5. CASE /\ call' = [call EXCEPT ![c].at = "u.clean", ![c].stored = FALSE]
           /\ meta' = meta /\ holder' = holder
  <2> DEFINE l == [call[c] EXCEPT !.at = "u.clean", !.stored = FALSE]
  <2>1. call' = [call EXCEPT ![c] = l] /\ call'[c] = l
    BY <1>1, <1>5 DEF RtTyped
  <2>2. /\ l \in Call /\ SameAim(call[c], l) /\ l.at = "u.clean" /\ l.proxied = call[c].proxied
        /\ l.was = call[c].was /\ l.committed = call[c].committed /\ l.clean = call[c].clean
    BY <1>1 DEF Call, SameAim, UndoSteps
  <2> HIDE DEF l
  <2>3. Progress(c) /\ InLock(call'[c])
    BY <1>1, <2>1, <2>2, ConstantFacts DEF Progress, OnlyCall, InLock, SameAim
  <2>4. Sound(call'[c], meta, tree', current')
    BY <1>1, <1>2, <2>1, <2>2 DEF Sound, SameAim, Onward, FirstSteps, Backward
  <2>5. Belong(call[c].cfg, cont) => Mixed(Old(meta), call[c].cfg, cont)
    BY DEF Belong, Mixed
  <2>6. Reconciling(call[c], meta, current, site, pgdata, cont) =>
          Reconciling(call'[c], meta, current', site', pgdata', cont')
    BY <1>1, <1>2, <2>1, <2>2, <2>5 DEF Reconciling, SameAim, Onward, Backward
  <2> QED
    BY <1>1, <1>2, <1>3, <1>5, <2>3, <2>4, <2>6, GoesOn DEF RtTyped
<1> QED
  BY <1>4, <1>5 DEF Publish

LEMMA FailKeeps ==
    ASSUME BaseInv, KeysInv, NEW c \in Callers, UNCHANGED managerVars, FailReconcile(c)
    PROVE  Keeps
<1>1. /\ RtTyped /\ call[c] # None /\ call[c] \in Call /\ call[c].kind = "RECONCILE" /\ call[c].at = "fail"
      /\ call[c].cfg \in Configs /\ call[c].key \in Keys /\ InLock(call[c])
      /\ Published(meta) => tree = "full" /\ current \in Configs
  BY RecFacts DEF FailReconcile
<1>2. /\ pgdata' = pgdata /\ current' = current /\ cont' = cont /\ site' = site
      /\ holder' = None /\ disturbed' = (disturbed \/ ~call[c].clean)
  BY DEF FailReconcile, runtime
<1>3. faults' \in 0..MaxFaults
  BY <1>1, FaultTyped DEF FailReconcile
<1>4. Outcome(c) \in Answers /\ Outcome(c) \notin {"ok", "error"}
  BY DEF Outcome, Answers
<1>5. OnlyCall(c) /\ Moved(call[c], call'[c], Outcome(c), call[c].clean)
  BY <1>1, <1>4, GotoFacts DEF FailReconcile
<1>6. Progress(c) /\ call'[c].at = "answered" /\ call'[c].answer \notin {"ok", "error"}
  BY <1>1, <1>4, <1>5 DEF Moved, Progress
<1>7. /\ meta' \in Records \cup {None} /\ (meta' # None => (meta'.published <=> meta'.cfg # NoConfig))
      /\ (Published(meta') <=> Published(meta)) /\ Old(meta') = Old(meta) /\ Pointer(meta') = Pointer(meta)
      /\ \A n \in Keys : Key(meta', n) # None => n <= requests
  <2>1. CASE meta' = meta
    BY <1>1, <2>1 DEF RtTyped, KeysInv
  <2>2. CASE meta' = [Metadata EXCEPT !.keys[call[c].key] = Outcome(c)]
    <3>1. /\ Metadata \in Records /\ Metadata.cfg = Old(meta) /\ (Metadata.published <=> Published(meta))
          /\ \A n \in Keys : Metadata.keys[n] = Key(meta, n)
          /\ Published(meta) => Old(meta) \in Configs /\ Old(meta) = meta.cfg
          /\ ~Published(meta) => Old(meta) = NoConfig
      BY <1>1, MetadataFacts
    <3> DEFINE ks == [Metadata.keys EXCEPT ![call[c].key] = Outcome(c)]
    <3>2. /\ ks \in [Keys -> Answers \cup {None}]
          /\ \A n \in Keys : ks[n] = IF n = call[c].key THEN Outcome(c) ELSE Key(meta, n)
      <4>1. Metadata.keys \in [Keys -> Answers \cup {None}]
        BY <3>1, RecordFields
      <4> QED
        BY <1>1, <1>4, <3>1, <4>1
    <3>3. meta' = [Metadata EXCEPT !.keys = ks]
      BY <2>2, <3>1 DEF Records
    <3> HIDE DEF ks
    <3>4. meta' \in Records /\ meta'.keys = ks /\ meta'.cfg = Metadata.cfg /\ meta'.published = Metadata.published
      BY <3>1, <3>2, <3>3 DEF Records
    <3>5. /\ meta' # None /\ (Published(meta') <=> Published(meta)) /\ Old(meta') = Old(meta)
          /\ Pointer(meta') = Pointer(meta)
      BY <3>1, <3>4, RecordFields DEF Published, Old, Pointer
    <3>6. meta'.published <=> meta'.cfg # NoConfig
      BY <3>1, <3>4, NoConfigFacts
    <3>7. \A n \in Keys : Key(meta', n) # None => n <= requests
      BY <1>1, <3>2, <3>4, <3>5, KeyOf DEF Key, KeysInv
    <3> QED
      BY <3>4, <3>5, <3>6, <3>7
  <2> QED
    BY <2>1, <2>2 DEF FailReconcile
<1>8. tree' \in Trees /\ (tree = "full" => tree' = "full")
  BY <1>1 DEF FailReconcile, RtTyped, Trees
<1>9. StateTyped' /\ disturbed' \in BOOLEAN /\ (disturbed => disturbed')
  <2>1. StateTyped'
    BY <1>1, <1>2, <1>7, <1>8 DEF StateTyped, RtTyped
  <2> QED
    BY <1>2, <2>1, Zenon
<1>10. Data(meta') = Data(meta)
  BY <1>7 DEF Data
<1>11. ~disturbed' /\ Reconciling(call[c], meta, current, site, pgdata, cont) =>
         Rest(meta', current', site', pgdata', cont')
  BY <1>1, <1>2, <1>7, <1>10 DEF Reconciling, Rest
<1> QED
  BY <1>1, <1>2, <1>3, <1>6, <1>7, <1>8, <1>9, <1>11, LockEnds

\* Every step of a Reconcile keeps the invariants.
LEMMA ReconcileKeeps ==
    ASSUME BaseInv, KeysInv, NEW c \in Callers, UNCHANGED managerVars, Reconcile(c)
    PROVE  Keeps
BY BeginKeeps, StageKeeps, CommitKeeps, RemoveDisabledKeeps, BootstrapDownKeeps, ResetKeeps, SeedKeeps,
   BootstrapDatabaseKeeps, BootstrapVerifyKeeps, BootstrapDependentsKeeps, RecreateAffectedKeeps,
   UpAddedKeeps, waitHealthyKeeps, ApplyProxyKeeps, PublishKeeps, CleanKeeps, ReseedKeeps,
   RestorePointerKeeps, RecreatePreviousKeeps, PreviousHealthyKeeps, RestoreProxyKeeps, FailKeeps
   DEF Reconcile

-----------------------------------------------------------------------------
(* Lifecycle: steps without the lock.                                      *)

LEMMA LifeStep ==
    ASSUME BaseInv, KeysInv, NEW c \in Callers, UNCHANGED managerVars,
           call[c] # None, call[c].kind # "RECONCILE", call[c].at # "answered",
           NEW at \in AllSteps \cup Answers, Goto(c, at),
           meta' = meta, tree' = tree, current' = current, holder' = holder,
           pgdata' \in DataStates, cont' \in [Services -> Containers],
           site' \in Routes \cup {None}, faults' \in 0..MaxFaults,
           disturbed' \in BOOLEAN, disturbed => disturbed',
           ASSUME NEW l, l # None, l.kind = call[c].kind, at \in Answers => l.at = "answered", at \notin Answers => l.at = at,
                  ~disturbed', Where(call[c], meta, current, site, pgdata, cont)
           PROVE  Where(l, meta, current, site', pgdata', cont')
    PROVE  Keeps
<1>1. RtTyped /\ Locked /\ call[c] \in Call
  BY DEF BaseInv, RtTyped
<1>2. OnlyCall(c) /\ Moved(call[c], call'[c], at, call[c].clean)
  BY <1>1, GotoFacts
<1>3. Progress(c) /\ call'[c] # None /\ call'[c].kind = call[c].kind
  BY <1>2, ConstantFacts DEF Progress, Moved, SameAim
<1>4. ~InLock(call[c]) /\ ~InLock(call'[c]) /\ holder # c
  BY <1>1, <1>3 DEF InLock, Locked
<1>5. StateTyped'
  BY <1>1 DEF StateTyped, RtTyped
<1>6. BaseInv'
  <2>1. \A d \in Callers : d # c /\ InLock(call[d]) => Sound(call[d], meta', tree', current')
    BY DEF BaseInv
  <2>2. Published(meta') => tree' = "full" /\ current' \in Configs
    BY DEF BaseInv
  <2>3. holder' \in Callers \cup {None}
    BY <1>1 DEF Locked
  <2> QED
    BY <1>3, <1>4, <1>5, <2>1, <2>2, <2>3, BaseProgress
<1>7. KeysInv'
  BY <1>3, KeysProgress DEF KeysInv
<1>8. ASSUME Calm, ~disturbed'
      PROVE  Calm'
  <2>1. Running(c)
    BY Runs
  <2>2. Where(call[c], meta, current, site, pgdata, cont)
    BY <1>8, <2>1 DEF Calm
  <2>3. Where(call'[c], meta', current', site', pgdata', cont')
    BY <1>2, <1>3, <1>8, <2>2 DEF Moved
  <2>4. Aims(op[c], call'[c], meta', desired, requests)
    BY <1>3, <1>8, AimsProgress
  <2> QED
    BY <1>3, <1>8, <2>3, <2>4, CalmProgress
<1> QED
  BY <1>6, <1>7, <1>8 DEF Keeps, CalmInv

\* Containers that a command of Lifecycle leaves: those there were, or those
\* of the selected generation.
Suits(cur, ct, ct2) ==
    \A s \in Services :
        \/ ct2[s] = None
        \/ ct[s] # None /\ ct2[s].set = ct[s].set
        \/ cur \in Configs /\ s \in cur.on /\ ct2[s].set = cur.set[s]

LEMMA SuitsRest ==
    ASSUME RtTyped, NEW st, NEW pg, NEW ct, NEW pg2, NEW ct2, Rest(meta, current, st, pg, ct),
           Suits(current, ct, ct2), pg # "empty" => pg2 = pg, pg2 = pg \/ current \in Configs
    PROVE  Rest(meta, current, st, pg2, ct2)
<1>1. current = Pointer(meta) /\ st = Old(meta).route /\ pg = Data(meta) /\ Belong(Old(meta), ct)
  BY DEF Rest
<1>2. current \in Configs => Published(meta) /\ current = Old(meta)
  BY <1>1, MetadataFacts, ConstantFacts DEF Pointer
<1>3. pg2 = Data(meta)
  BY <1>1, <1>2 DEF Data
<1>4. Belong(Old(meta), ct2)
  BY <1>1, <1>2 DEF Belong, Suits
<1> QED
  BY <1>1, <1>3, <1>4 DEF Rest

Purging(k, at) == k.kind = "DELETE_DATA" /\ at \in {"proxy", "purge"}

LEMMA LifeGoesOn ==
    ASSUME BaseInv, KeysInv, NEW c \in Callers, UNCHANGED managerVars,
           call[c] # None, call[c].kind # "RECONCILE", call[c].at # "answered",
           NEW at \in AllSteps \cup Answers, Goto(c, at),
           ~Purging(call[c], call[c].at), ~Purging(call[c], at),
           meta' = meta, tree' = tree, current' = current, holder' = holder,
           site' = site, disturbed' = disturbed,
           pgdata' \in DataStates, cont' \in [Services -> Containers], faults' \in 0..MaxFaults,
           Suits(current, cont, cont'),
           pgdata # "empty" => pgdata' = pgdata, pgdata' = pgdata \/ current \in Configs
    PROVE  Keeps
<1>1. RtTyped
  BY DEF BaseInv
<1>2. ASSUME NEW l, l # None, l.kind = call[c].kind, at \in Answers => l.at = "answered", at \notin Answers => l.at = at,
             Where(call[c], meta, current, site, pgdata, cont)
      PROVE  Where(l, meta, current, site', pgdata', cont')
  <2>1. Rest(meta, current, site, pgdata, cont)
    BY <1>2 DEF Where, Purging
  <2>2. Rest(meta, current, site, pgdata', cont')
    BY <1>1, <2>1, SuitsRest
  <2>3. ~Purging(l, l.at)
    BY <1>2 DEF Purging
  <2> QED
    BY <1>2, <2>2, <2>3 DEF Where, Purging
<1> QED
  BY <1>1, <1>2, LifeStep DEF RtTyped

LEMMA LifeFacts ==
    ASSUME BaseInv, NEW c \in Callers, NEW kind, NEW at, Life(c, kind, at), kind # "RECONCILE", at # "answered"
    PROVE  /\ RtTyped /\ call[c] # None /\ call[c].kind = kind /\ call[c].at = at
           /\ call[c].kind # "RECONCILE" /\ call[c].at # "answered" /\ holder' = holder
BY DEF Life, At, BaseInv

LEMMA SameSuits ==
    ASSUME RtTyped
    PROVE  Suits(current, cont, cont)
BY DEF Suits

\* A command leaves suiting containers whether it fails or not.
LEMMA CommandSuits ==
    ASSUME RtTyped, NEW c \in Callers, NEW to \in [Services -> Containers], Suits(current, cont, to),
           NEW next, NEW failed, Command(c, to, next, failed)
    PROVE  /\ cont' \in [Services -> Containers] /\ faults' \in 0..MaxFaults
           /\ Suits(current, cont, cont')
           /\ Goto(c, next) \/ Goto(c, failed)
<1>1. /\ cont' \in [Services -> Containers] /\ faults' \in 0..MaxFaults
      /\ \/ cont' = to /\ Goto(c, next)
         \/ /\ \A s \in Services : cont'[s] = to[s] \/ cont'[s] = cont[s]
            /\ Goto(c, failed)
  BY CommandFacts
<1>2. Suits(current, cont, cont')
  BY <1>1 DEF Suits
<1> QED
  BY <1>1, <1>2

LEMMA RemovedSuits ==
    ASSUME RtTyped
    PROVE  Removed(Services) \in [Services -> Containers] /\ Suits(current, cont, Removed(Services))
BY RemovedFacts DEF Suits

LEMMA AllUpSuits ==
    ASSUME RtTyped, NEW up \in BOOLEAN
    PROVE  AllUp(up) \in [Services -> Containers] /\ Suits(current, cont, AllUp(up))
<1>1. \A s \in Services : /\ AllUp(up)[s] \in Containers
                          /\ cont[s] # None => AllUp(up)[s].set = cont[s].set
                          /\ cont[s] = None => AllUp(up)[s] = None
  <2> SUFFICES ASSUME NEW s \in Services
               PROVE  /\ AllUp(up)[s] \in Containers
                      /\ cont[s] # None => AllUp(up)[s].set = cont[s].set
                      /\ cont[s] = None => AllUp(up)[s] = None
    OBVIOUS
  <2>1. CASE cont[s] = None
    BY <2>1 DEF AllUp, Containers
  <2>2. CASE cont[s] # None
    <3>1. cont[s] \in [set : Settings, up : BOOLEAN]
      BY <2>2 DEF RtTyped, Containers
    <3>2. AllUp(up)[s] = [cont[s] EXCEPT !.up = up]
      BY <2>2 DEF AllUp
    <3> QED
      BY <2>2, <3>1, <3>2 DEF Containers
  <2> QED
    BY <2>1, <2>2
<1>2. AllUp(up) \in [Services -> Containers]
  BY <1>1 DEF AllUp
<1> QED
  BY <1>1, <1>2 DEF Suits

\* Compose starts no dependency that the configuration leaves out.
LEMMA DependenciesSelected ==
    ASSUME NEW g, NEW S, S \subseteq g.on
    PROVE  WithDependencies(g, S) \subseteq g.on
BY Zenon DEF WithDependencies

LEMMA CreatedSuits ==
    ASSUME RtTyped, current \in Configs, NEW S, S \cap Services \subseteq current.on
    PROVE  Created(current, S) \in [Services -> Containers] /\ Suits(current, cont, Created(current, S))
<1>1. /\ Created(current, S) \in [Services -> Containers]
      /\ \A s \in Services : Created(current, S)[s] = IF s \in S THEN Container(current, s) ELSE cont[s]
  BY CreatedFacts
<1>2. \A s \in Services : Container(current, s).set = current.set[s]
  BY ContainerTyped
<1> QED
  BY <1>1, <1>2 DEF Suits

LEMMA NoRuntimeKeeps ==
    ASSUME BaseInv, KeysInv, NEW c \in Callers, UNCHANGED managerVars, NoRuntime(c)
    PROVE  Keeps
<1>1. PICK kind \in {"START", "STOP", "RESTART"} : Life(c, kind, "begin")
  BY DEF NoRuntime
<1>2. /\ RtTyped /\ call[c] # None /\ call[c].kind = kind /\ call[c].at = "begin"
      /\ call[c].kind # "RECONCILE" /\ call[c].at # "answered" /\ holder' = holder
  BY <1>1, LifeFacts
<1>3. /\ meta' = meta /\ tree' = tree /\ current' = current /\ site' = site /\ disturbed' = disturbed
      /\ pgdata' = pgdata /\ cont' = cont /\ faults' = faults /\ Goto(c, "error")
  BY DEF NoRuntime, files
<1>4. Suits(current, cont, cont')
  BY <1>2, <1>3, SameSuits
<1> QED
  BY <1>2, <1>3, <1>4, LifeGoesOn DEF RtTyped, Purging, Answers

LEMMA StartKeeps ==
    ASSUME BaseInv, KeysInv, NEW c \in Callers, UNCHANGED managerVars, Start(c)
    PROVE  Keeps
<1>1. CASE /\ Life(c, "START", "begin") /\ current # None
           /\ UpDatabase(c, "verify", "error")
           /\ UNCHANGED <<meta, tree, current, site, disturbed>>
  <2>1. /\ RtTyped /\ call[c] # None /\ call[c].kind = "START" /\ call[c].at = "begin"
        /\ call[c].kind # "RECONCILE" /\ call[c].at # "answered" /\ holder' = holder
    BY <1>1, LifeFacts
  <2>2. current \in Configs
    BY <1>1, <2>1 DEF RtTyped
  <2>3. /\ cont' \in [Services -> Containers] /\ faults' \in 0..MaxFaults /\ pgdata' \in DataStates
        /\ \A s \in Services : cont'[s] = IF s = Database THEN Container(current, s) ELSE cont[s]
        /\ pgdata # "empty" => pgdata' = pgdata
        /\ Goto(c, "verify") \/ Goto(c, "error")
    BY <1>1, <2>1, <2>2, UpDatabaseFacts
  <2>4. Suits(current, cont, cont')
    <3>1. Database \in current.on /\ Container(current, Database).set = current.set[Database]
      BY <2>2, ContainerTyped, ConstantFacts
    <3> QED
      BY <2>2, <2>3, <3>1 DEF Suits
  <2>5. PICK at \in {"verify", "error"} : Goto(c, at)
    BY <2>3
  <2>6. at \in AllSteps \cup Answers
    BY DEF AllSteps, LifeSteps, Answers
  <2> QED
    BY <1>1, <2>1, <2>2, <2>3, <2>4, <2>5, <2>6, LifeGoesOn DEF Purging
<1>2. CASE /\ Life(c, "START", "verify")
           /\ VerifyDatabaseBootstrap(c, "services", "error")
           /\ UNCHANGED <<files, cont, site, disturbed>>
  <2>1. /\ RtTyped /\ call[c] # None /\ call[c].kind = "START" /\ call[c].at = "verify"
        /\ call[c].kind # "RECONCILE" /\ call[c].at # "answered" /\ holder' = holder
    BY <1>2, LifeFacts
  <2>2. faults' \in 0..MaxFaults
    BY <1>2, <2>1, FaultTyped DEF VerifyDatabaseBootstrap
  <2>3. PICK at \in {"services", "error"} : Goto(c, at)
    BY <1>2 DEF VerifyDatabaseBootstrap
  <2>4. at \in AllSteps \cup Answers
    BY DEF AllSteps, LifeSteps, Answers
  <2>5. /\ meta' = meta /\ tree' = tree /\ current' = current /\ site' = site /\ disturbed' = disturbed
        /\ pgdata' = pgdata /\ cont' = cont
    BY <1>2 DEF files
  <2>6. Suits(current, cont, cont')
    BY <2>1, <2>5, SameSuits
  <2> QED
    BY <2>1, <2>2, <2>3, <2>4, <2>5, <2>6, LifeGoesOn DEF RtTyped, Purging
<1>3. CASE /\ Life(c, "START", "services")
           /\ IF current # None /\ Core \subseteq current.on
              THEN Command(c, Created(current, WithDependencies(current, Core)), "ok", "error")
              ELSE Goto(c, "error") /\ UNCHANGED <<cont, faults>>
           /\ UNCHANGED <<files, site, disturbed>>
  <2>1. /\ RtTyped /\ call[c] # None /\ call[c].kind = "START" /\ call[c].at = "services"
        /\ call[c].kind # "RECONCILE" /\ call[c].at # "answered" /\ holder' = holder
    BY <1>3, LifeFacts
  <2>2. /\ meta' = meta /\ tree' = tree /\ current' = current /\ site' = site /\ disturbed' = disturbed
        /\ pgdata' = pgdata
    BY <1>3 DEF files
  <2>3. /\ cont' \in [Services -> Containers] /\ faults' \in 0..MaxFaults
        /\ Suits(current, cont, cont') /\ (Goto(c, "ok") \/ Goto(c, "error"))
    <3>1. CASE current # None /\ Core \subseteq current.on
      <4>1. current \in Configs /\ WithDependencies(current, Core) \subseteq current.on
        <5>1. current \in Configs
          BY <2>1, <3>1 DEF RtTyped
        <5>2. WithDependencies(current, Core) \subseteq current.on
          BY <3>1, DependenciesSelected
        <5> QED
          BY <5>1, <5>2
      <4>2. /\ Created(current, WithDependencies(current, Core)) \in [Services -> Containers]
            /\ Suits(current, cont, Created(current, WithDependencies(current, Core)))
        BY <2>1, <4>1, CreatedSuits
      <4> QED
        BY <1>3, <2>1, <3>1, <4>2, CommandSuits
    <3>2. CASE ~(current # None /\ Core \subseteq current.on)
      BY <1>3, <2>1, <3>2, SameSuits DEF RtTyped
    <3> QED
      BY <3>1, <3>2
  <2>4. PICK at \in {"ok", "error"} : Goto(c, at)
    BY <2>3
  <2> QED
    BY <2>1, <2>2, <2>3, <2>4, LifeGoesOn DEF RtTyped, Purging, Answers
<1> QED
  BY <1>1, <1>2, <1>3 DEF Start

LEMMA StopKeeps ==
    ASSUME BaseInv, KeysInv, NEW c \in Callers, UNCHANGED managerVars, Stop(c)
    PROVE  Keeps
<1>1. /\ RtTyped /\ call[c] # None /\ call[c].kind = "STOP" /\ call[c].at = "begin"
      /\ call[c].kind # "RECONCILE" /\ call[c].at # "answered" /\ holder' = holder
  BY LifeFacts DEF Stop
<1>2. /\ meta' = meta /\ tree' = tree /\ current' = current /\ site' = site /\ disturbed' = disturbed
      /\ pgdata' = pgdata
  BY DEF Stop, files
<1>3. /\ cont' \in [Services -> Containers] /\ faults' \in 0..MaxFaults
      /\ Suits(current, cont, cont') /\ (Goto(c, "ok") \/ Goto(c, "error"))
  BY <1>1, AllUpSuits, CommandSuits DEF Stop
<1>4. PICK at \in {"ok", "error"} : Goto(c, at)
  BY <1>3
<1> QED
  BY <1>1, <1>2, <1>3, <1>4, LifeGoesOn DEF RtTyped, Purging, Answers

LEMMA RestartKeeps ==
    ASSUME BaseInv, KeysInv, NEW c \in Callers, UNCHANGED managerVars, Restart(c)
    PROVE  Keeps
<1>1. /\ meta' = meta /\ tree' = tree /\ current' = current /\ site' = site /\ disturbed' = disturbed
      /\ pgdata' = pgdata
  BY DEF Restart, files
<1>2. PICK from \in {"begin", "services"} : Life(c, "RESTART", from)
  BY DEF Restart
<1>3. /\ RtTyped /\ call[c] # None /\ call[c].kind = "RESTART" /\ call[c].at = from
      /\ call[c].kind # "RECONCILE" /\ call[c].at # "answered" /\ holder' = holder
  BY <1>2, LifeFacts
<1>4. /\ cont' \in [Services -> Containers] /\ faults' \in 0..MaxFaults
      /\ Suits(current, cont, cont') /\ (Goto(c, "ok") \/ Goto(c, "services") \/ Goto(c, "error"))
  <2>1. CASE Command(c, AllUp(TRUE), "services", "error")
    BY <1>3, <2>1, AllUpSuits, CommandSuits
  <2>2. CASE IF current # None /\ Core \cap Helpers \subseteq current.on
             THEN Command(c, Created(current, WithDependencies(current, Core \cap Helpers)), "ok", "error")
             ELSE Goto(c, "error") /\ UNCHANGED <<cont, faults>>
    <3>1. CASE current # None /\ Core \cap Helpers \subseteq current.on
      <4>1. current \in Configs /\ WithDependencies(current, Core \cap Helpers) \subseteq current.on
        <5>1. current \in Configs
          BY <1>3, <3>1 DEF RtTyped
        <5>2. WithDependencies(current, Core \cap Helpers) \subseteq current.on
          BY <3>1, DependenciesSelected
        <5> QED
          BY <5>1, <5>2
      <4>2. /\ Created(current, WithDependencies(current, Core \cap Helpers)) \in [Services -> Containers]
            /\ Suits(current, cont, Created(current, WithDependencies(current, Core \cap Helpers)))
        BY <1>3, <4>1, CreatedSuits
      <4> QED
        BY <1>3, <2>2, <3>1, <4>2, CommandSuits
    <3>2. CASE ~(current # None /\ Core \cap Helpers \subseteq current.on)
      BY <1>3, <2>2, <3>2, SameSuits DEF RtTyped
    <3> QED
      BY <3>1, <3>2
  <2> QED
    BY <2>1, <2>2 DEF Restart
<1>5. PICK at \in {"ok", "services", "error"} : Goto(c, at)
  BY <1>4
<1>6. at \in AllSteps \cup Answers
  BY DEF AllSteps, LifeSteps, Answers
<1> QED
  BY <1>1, <1>3, <1>4, <1>5, <1>6, LifeGoesOn DEF RtTyped, Purging

LEMMA DeleteRuntimeKeeps ==
    ASSUME BaseInv, KeysInv, NEW c \in Callers, UNCHANGED managerVars, DeleteRuntime(c)
    PROVE  Keeps
<1>1. /\ RtTyped /\ call[c] # None /\ call[c].kind = "DELETE_RUNTIME" /\ call[c].at = "begin"
      /\ call[c].kind # "RECONCILE" /\ call[c].at # "answered" /\ holder' = holder
  BY LifeFacts DEF DeleteRuntime
<1>2. /\ meta' = meta /\ tree' = tree /\ current' = current /\ site' = site /\ disturbed' = disturbed
      /\ pgdata' = pgdata
  BY DEF DeleteRuntime, files
<1>3. /\ cont' \in [Services -> Containers] /\ faults' \in 0..MaxFaults
      /\ Suits(current, cont, cont') /\ (Goto(c, "ok") \/ Goto(c, "error"))
  BY <1>1, RemovedSuits, CommandSuits DEF DeleteRuntime
<1>4. PICK at \in {"ok", "error"} : Goto(c, at)
  BY <1>3
<1> QED
  BY <1>1, <1>2, <1>3, <1>4, LifeGoesOn DEF RtTyped, Purging, Answers

\* Only a forced deletion of the data calls DELETE_DATA.
LEMMA DataDeletion ==
    ASSUME BaseInv, KeysInv, NEW c \in Callers, call[c] # None, call[c].kind = "DELETE_DATA",
           call[c].at # "answered"
    PROVE  op[c] # None /\ op[c].kind = "FORCE_DATA" /\ op[c].step = "call"
<1>1. op[c] # None /\ op[c].step \notin Ended \cup {"queued", "prepared"} /\ op[c] \in Operation
  BY Runs DEF BaseInv, MgrTyped
<1>2. Fits(op[c], call[c]) /\ Sent(op[c], call[c])
  BY DEF BaseInv, KeysInv
<1>3. op[c].step = "call"
  BY <1>1, <1>2 DEF Fits, Sent, Operation, OpSteps
<1>4. op[c].kind \in OpKinds /\ provisionerAction(op[c].kind) = "DELETE_DATA"
  BY <1>1, <1>2, <1>3 DEF Sent, Operation
<1>5. op[c].kind = "FORCE_DATA"
  BY <1>4 DEF provisionerAction, OpKinds, Actions
<1> QED
  BY <1>1, <1>3, <1>5

LEMMA PurgeKeeps ==
    ASSUME BaseInv, KeysInv, NEW c \in Callers, UNCHANGED managerVars,
           Life(c, "DELETE_DATA", "purge"), holder = None,
           meta' = None, tree' = "absent", pgdata' = "empty", current' = None,
           Goto(c, "ok"), NoFault, UNCHANGED disturbed, UNCHANGED <<cont, site>>
    PROVE  Keeps
<1>1. /\ RtTyped /\ Locked /\ call[c] # None /\ call[c].kind = "DELETE_DATA" /\ call[c].at = "purge"
      /\ holder' = holder
  BY LifeFacts DEF BaseInv
<1>2. OnlyCall(c) /\ Moved(call[c], call'[c], "ok", call[c].clean)
  BY <1>1, GotoFacts DEF Answers
<1>3. /\ Progress(c) /\ call'[c] # None /\ call'[c].kind = "DELETE_DATA" /\ call'[c].at = "answered"
  BY <1>1, <1>2, ConstantFacts DEF Progress, Moved, SameAim, Answers
<1>4. \A d \in Callers : ~InLock(call[d])
  BY <1>1, ConstantFacts DEF Locked
<1>5. ~InLock(call'[c]) /\ holder # c
  BY <1>3, ConstantFacts DEF InLock
<1>6. StateTyped' /\ ~Published(meta') /\ faults' = faults /\ disturbed' = disturbed
  BY <1>1 DEF StateTyped, RtTyped, Published, Trees, DataStates, NoFault
<1>7. faults \in 0..MaxFaults /\ disturbed \in BOOLEAN
  BY <1>1 DEF RtTyped
<1>8. BaseInv'
  BY <1>1, <1>3, <1>4, <1>5, <1>6, <1>7, BaseProgress
<1>9. KeysInv'
  BY <1>3, KeysProgress DEF Key
<1>10. ASSUME Calm
       PROVE  Calm'
  <2>1. Running(c)
    BY <1>1, Runs
  <2>2. Where(call[c], meta, current, site, pgdata, cont)
    BY <1>10, <2>1 DEF Calm
  <2>3. site = None /\ Within({}, cont)
    BY <1>1, <2>2 DEF Where
  <2>4. Rest(meta', current', site', pgdata', cont')
    <3>1. \A s \in Services : cont[s] = None
      BY <2>3 DEF Within
    <3>2. Belong(Old(meta'), cont')
      BY <3>1 DEF Belong
    <3>3. Old(meta') = NoConfig /\ Pointer(meta') = None /\ Data(meta') = "empty"
      BY DEF Old, Pointer, Data, Published
    <3> QED
      BY <2>3, <3>2, <3>3, NoConfigFacts DEF Rest
  <2>5. Where(call'[c], meta', current', site', pgdata', cont')
    BY <1>3, <2>4 DEF Where
  <2>6. op[c].kind = "FORCE_DATA" /\ op[c].step = "call"
    BY <1>1, DataDeletion
  <2>7. Aims(op[c], call'[c], meta', desired, requests)
    BY <1>3, <2>6 DEF Aims
  <2> QED
    BY <1>3, <1>10, <2>5, <2>7, CalmProgress
<1> QED
  BY <1>6, <1>8, <1>9, <1>10 DEF Keeps, CalmInv

LEMMA DeleteDataKeeps ==
    ASSUME BaseInv, KeysInv, NEW c \in Callers, UNCHANGED managerVars, DeleteData(c)
    PROVE  Keeps
<1>1. CASE /\ Life(c, "DELETE_DATA", "begin") /\ holder = None /\ Goto(c, "down")
           /\ UNCHANGED <<files, cont, site, faults, disturbed>>
  <2>1. /\ RtTyped /\ call[c] # None /\ call[c].kind = "DELETE_DATA" /\ call[c].at = "begin"
        /\ call[c].kind # "RECONCILE" /\ call[c].at # "answered" /\ holder' = holder
    BY <1>1, LifeFacts
  <2>2. /\ meta' = meta /\ tree' = tree /\ current' = current /\ site' = site /\ disturbed' = disturbed
        /\ pgdata' = pgdata /\ cont' = cont /\ faults' = faults
    BY <1>1 DEF files
  <2>3. Suits(current, cont, cont')
    BY <2>1, <2>2, SameSuits
  <2>4. "down" \in AllSteps \cup Answers
    BY DEF AllSteps, LifeSteps
  <2> QED
    BY <1>1, <2>1, <2>2, <2>3, <2>4, LifeGoesOn DEF RtTyped, Purging
<1>2. CASE /\ Life(c, "DELETE_DATA", "down")
           /\ Command(c, Removed(Services), "proxy", "error")
           /\ UNCHANGED <<files, site, disturbed>>
  <2>1. /\ RtTyped /\ call[c] # None /\ call[c].kind = "DELETE_DATA" /\ call[c].at = "down"
        /\ call[c].kind # "RECONCILE" /\ call[c].at # "answered" /\ holder' = holder
    BY <1>2, LifeFacts
  <2>2. /\ meta' = meta /\ tree' = tree /\ current' = current /\ site' = site /\ disturbed' = disturbed
        /\ pgdata' = pgdata
    BY <1>2 DEF files
  <2>3. /\ cont' \in [Services -> Containers] /\ faults' \in 0..MaxFaults /\ Suits(current, cont, cont')
    BY <1>2, <2>1, RemovedSuits, CommandSuits
  <2>4. CASE Goto(c, "error")
    BY <2>1, <2>2, <2>3, <2>4, LifeGoesOn DEF RtTyped, Purging, Answers
  <2>5. CASE cont' = Removed(Services) /\ Goto(c, "proxy")
    <3>1. Within({}, cont')
      BY <2>1, <2>5, RemovedFacts DEF Within
    <3>2. ASSUME NEW l, l # None, l.kind = call[c].kind, "proxy" \notin Answers => l.at = "proxy",
                 Where(call[c], meta, current, site, pgdata, cont)
          PROVE  Where(l, meta, current, site', pgdata', cont')
      <4>1. Rest(meta, current, site, pgdata, cont) /\ l.at = "proxy"
        BY <2>1, <3>2 DEF Where, Answers
      <4>2. Rest(meta, current, site', pgdata', cont')
        BY <2>1, <2>2, <2>3, <4>1, SuitsRest
      <4> QED
        BY <2>1, <3>1, <3>2, <4>1, <4>2 DEF Where
    <3>3. "proxy" \in AllSteps \cup Answers
      BY DEF AllSteps, LifeSteps
    <3> QED
      BY <2>1, <2>2, <2>3, <2>5, <3>2, <3>3, LifeStep DEF RtTyped
  <2> QED
    BY <1>2, <2>4, <2>5 DEF Command
<1>3. CASE /\ Life(c, "DELETE_DATA", "proxy")
           /\ \/ site' = None /\ Goto(c, "purge") /\ NoFault /\ UNCHANGED disturbed
              \/ site' \in {site, None} /\ Goto(c, "error") /\ Fault /\ disturbed' = TRUE
           /\ UNCHANGED <<files, cont>>
  <2>1. /\ RtTyped /\ call[c] # None /\ call[c].kind = "DELETE_DATA" /\ call[c].at = "proxy"
        /\ call[c].kind # "RECONCILE" /\ call[c].at # "answered" /\ holder' = holder
    BY <1>3, LifeFacts
  <2>2. /\ meta' = meta /\ tree' = tree /\ current' = current /\ pgdata' = pgdata /\ cont' = cont
        /\ faults' \in 0..MaxFaults /\ site' \in Routes \cup {None}
    BY <1>3, <2>1, FaultTyped DEF files, RtTyped
  <2>3. CASE site' = None /\ Goto(c, "purge") /\ UNCHANGED disturbed
    <3>1. ASSUME NEW l, l # None, l.kind = call[c].kind, "purge" \notin Answers => l.at = "purge",
                 Where(call[c], meta, current, site, pgdata, cont)
          PROVE  Where(l, meta, current, site', pgdata', cont')
      <4>1. Rest(meta, current, site, pgdata, cont) /\ Within({}, cont) /\ l.at = "purge"
        BY <2>1, <3>1 DEF Where, Answers
      <4> QED
        BY <2>1, <2>2, <2>3, <3>1, <4>1 DEF Where, Rest
    <3>2. "purge" \in AllSteps \cup Answers
      BY DEF AllSteps, LifeSteps
    <3> QED
      BY <2>1, <2>2, <2>3, <3>1, <3>2, LifeStep DEF RtTyped
  <2>4. CASE Goto(c, "error") /\ disturbed' = TRUE
    BY <2>1, <2>2, <2>4, LifeStep DEF RtTyped, Answers
  <2> QED
    BY <1>3, <2>3, <2>4
<1>4. CASE /\ Life(c, "DELETE_DATA", "purge") /\ holder = None
           /\ \/ /\ meta' = None /\ tree' = "absent" /\ pgdata' = "empty" /\ current' = None
                 /\ Goto(c, "ok") /\ NoFault /\ UNCHANGED disturbed
              \/ Goto(c, "error") /\ Fault /\ disturbed' = TRUE /\ UNCHANGED files
           /\ UNCHANGED <<cont, site>>
  <2>1. CASE Goto(c, "error") /\ Fault /\ disturbed' = TRUE /\ UNCHANGED files
    <3>1. /\ RtTyped /\ call[c] # None /\ call[c].kind = "DELETE_DATA" /\ call[c].at = "purge"
          /\ call[c].kind # "RECONCILE" /\ call[c].at # "answered" /\ holder' = holder
      BY <1>4, LifeFacts
    <3>2. /\ meta' = meta /\ tree' = tree /\ current' = current /\ pgdata' = pgdata /\ cont' = cont
          /\ site' = site /\ faults' \in 0..MaxFaults
      BY <1>4, <2>1, <3>1, FaultTyped DEF files
    <3> QED
      BY <2>1, <3>1, <3>2, LifeStep DEF RtTyped, Answers
  <2> QED
    BY <1>4, <2>1, PurgeKeeps
<1> QED
  BY <1>1, <1>2, <1>3, <1>4 DEF DeleteData

\* Every step of Lifecycle keeps the invariants.
LEMMA LifecycleKeeps ==
    ASSUME BaseInv, KeysInv, NEW c \in Callers, UNCHANGED managerVars, Lifecycle(c)
    PROVE  Keeps
BY NoRuntimeKeeps, StartKeeps, StopKeeps, RestartKeeps, DeleteRuntimeKeeps, DeleteDataKeeps DEF Lifecycle

\* A restart ends every call; nothing is promised about the runtime after it,
\* but the files and the lock are in order.
LEMMA CrashKeeps ==
    ASSUME BaseInv, KeysInv, UNCHANGED managerVars, Crash
    PROVE  Keeps
<1>1. RtTyped /\ MgrTyped
  BY DEF BaseInv
<1>2. /\ meta' = meta /\ tree' = tree /\ pgdata' = pgdata /\ current' = current /\ cont' = cont
      /\ site' = site /\ holder' = None /\ disturbed' = TRUE /\ faults' \in 0..MaxFaults
  BY <1>1, FaultTyped DEF Crash, files
<1>3. project' = project /\ desired' = desired /\ op' = op /\ requests' = requests
  BY ManagerSame
<1>4. \A c \in Callers : call'[c] = IF Active(c) THEN Advance(call[c], "error") ELSE call[c]
  BY DEF Crash
<1>5. ASSUME NEW c \in Callers
      PROVE  /\ call'[c] \in Call \cup {None} /\ (call'[c] = None <=> call[c] = None)
             /\ call[c] # None => SameAim(call[c], call'[c]) /\ call'[c].at = "answered"
             /\ ~InLock(call'[c])
  <2>1. CASE Active(c)
    <3>1. call[c] \in Call /\ call[c] # None
      BY <1>1, <2>1 DEF Active, RtTyped
    <3>2. Advance(call[c], "error") \in Call /\ SameAim(call[c], Advance(call[c], "error"))
          /\ Advance(call[c], "error").at = "answered"
      BY <3>1, AdvanceFacts DEF Answers
    <3> QED
      BY <1>4, <2>1, <3>1, <3>2, ConstantFacts DEF InLock
  <2>2. CASE ~Active(c)
    BY <1>1, <1>4, <2>2 DEF Active, InLock, RtTyped, SameAim
  <2> QED
    BY <2>1, <2>2
<1>6. call' \in [Callers -> Call \cup {None}]
  <2>1. call' = [c \in Callers |-> IF Active(c) THEN Advance(call[c], "error") ELSE call[c]]
    BY DEF Crash
  <2> QED
    BY <1>4, <1>5, <2>1
<1>7. RtTyped' /\ MgrTyped'
  BY <1>1, <1>2, <1>3, <1>6 DEF RtTyped, MgrTyped
<1>8. Locked'
  BY <1>2, <1>5, ConstantFacts DEF Locked
<1>9. \A c \in Callers : Fits(op[c], call'[c])
  BY <1>5 DEF BaseInv, Fits, SameAim
<1>10. \A c \in Callers : Sent(op[c], call'[c])
  BY <1>5 DEF KeysInv, Sent, SameAim
<1>11. BaseInv'
  <2>1. \A c \in Callers : InLock(call'[c]) => Sound(call'[c], meta', tree', current')
    BY <1>5
  <2>2. Published(meta') => tree' = "full" /\ current' \in Configs
    BY <1>2 DEF BaseInv
  <2> QED
    BY <1>3, <1>7, <1>8, <1>9, <2>1, <2>2 DEF BaseInv
<1>12. KeysInv'
  BY <1>2, <1>3, <1>10 DEF KeysInv
<1> QED
  BY <1>2, <1>11, <1>12 DEF Keeps, CalmInv

-----------------------------------------------------------------------------
(* The Manager: a goroutine takes a step, between two calls.               *)

LEMMA NewCallFacts ==
    ASSUME NEW kind \in Kinds, NEW cfg \in Configs \cup {None}, NEW key \in Keys
    PROVE  LET k == NewCall(kind, cfg, key) IN
           /\ k \in Call /\ k # None /\ k.kind = kind /\ k.cfg = cfg /\ k.key = key /\ k.at = "begin"
           /\ ~k.committed /\ ~k.proxied /\ k.clean
<1>1. NewCall(kind, cfg, key) \in Call
  BY DEF NewCall, Call, ApplySteps
<1> QED
  BY <1>1, ConstantFacts DEF NewCall

OnlyOp(c) == op' = [op EXCEPT ![c] = op'[c]]

LEMMA StepFacts ==
    ASSUME MgrTyped, NEW c \in Callers, op[c] # None, NEW step \in OpSteps, Step(c, step)
    PROVE  /\ OnlyOp(c) /\ op'[c] \in Operation /\ op'[c].step = step /\ op'[c] # None
           /\ op'[c].kind = op[c].kind /\ op'[c].key = op[c].key /\ op'[c].cfg = op[c].cfg
<1> DEFINE o == [op[c] EXCEPT !.step = step]
<1>1. op[c] \in Operation
  BY DEF MgrTyped
<1>2. op' = [op EXCEPT ![c] = o] /\ op'[c] = o
  BY DEF Step, MgrTyped
<1>3. o \in Operation /\ o.step = step /\ o.kind = op[c].kind /\ o.key = op[c].key /\ o.cfg = op[c].cfg
  BY <1>1 DEF Operation
<1> HIDE DEF o
<1> QED
  BY <1>2, <1>3, ConstantFacts DEF OnlyOp

\* The call that the goroutine has afterwards: none, the answered one, or one
\* that has not begun.
NextCall(k, k2, key) ==
    \/ k2 = None
    \/ k2 = k
    \/ \E kind \in Kinds, cfg \in Configs \cup {None} : k2 = NewCall(kind, cfg, key)

LEMMA ManagerKeepsBase ==
    ASSUME BaseInv, KeysInv, NEW c \in Callers, op[c] # None,
           call[c] = None \/ call[c].at = "answered",
           OnlyOp(c), OnlyCall(c), op'[c] \in Operation, op'[c].key = op[c].key,
           NextCall(call[c], call'[c], op[c].key),
           meta' = meta, tree' = tree, pgdata' = pgdata, current' = current, cont' = cont, site' = site,
           holder' = holder, disturbed' = disturbed, requests' = requests,
           faults' \in 0..MaxFaults, project' \in Statuses \cup {None}, desired' \in Configs,
           Fits(op'[c], call'[c]), Sent(op'[c], call'[c])
    PROVE  BaseInv' /\ KeysInv'
<1>1. RtTyped /\ MgrTyped /\ Locked
  BY DEF BaseInv
<1>2. op[c] \in Operation /\ op[c].key \in Keys /\ op'[c] # None
  BY <1>1, ConstantFacts DEF MgrTyped, Operation
<1>3. (\A d \in Callers : d # c => call'[d] = call[d] /\ op'[d] = op[d])
      /\ op' \in [Callers -> Operation \cup {None}]
  BY <1>1, CallsOf DEF OnlyOp, MgrTyped
<1>4. call'[c] \in Call \cup {None} /\ ~InLock(call'[c]) /\ ~InLock(call[c])
  <2>1. CASE call'[c] = None \/ call'[c] = call[c]
    BY <1>1, <2>1 DEF InLock, RtTyped
  <2>2. CASE \E kind \in Kinds, cfg \in Configs \cup {None} : call'[c] = NewCall(kind, cfg, op[c].key)
    BY <1>2, <2>2, NewCallFacts DEF InLock
  <2> QED
    BY <2>1, <2>2 DEF NextCall
<1>5. call' \in [Callers -> Call \cup {None}]
  BY <1>1, <1>4 DEF OnlyCall, RtTyped
<1>6. RtTyped' /\ MgrTyped'
  <2>1. RtTyped'
    BY <1>1, <1>5 DEF RtTyped
  <2>2. MgrTyped'
    BY <1>1, <1>3 DEF MgrTyped
  <2> QED
    BY <2>1, <2>2
<1>7. Locked'
  BY <1>1, <1>3, <1>4 DEF Locked
<1>8. (\A d \in Callers : Fits(op'[d], call'[d])) /\ (\A d \in Callers : Sent(op'[d], call'[d]))
  BY <1>3 DEF BaseInv, KeysInv
<1>9. BaseInv'
  <2>1. \A d \in Callers : InLock(call'[d]) => Sound(call'[d], meta', tree', current')
    BY <1>3, <1>4 DEF BaseInv
  <2>2. Published(meta') => tree' = "full" /\ current' \in Configs
    BY DEF BaseInv
  <2> QED
    BY <1>6, <1>7, <1>8, <2>1, <2>2 DEF BaseInv
<1>10. KeysInv'
  <2>1. \A d \in Callers : op'[d] # None => op[d] # None /\ op'[d].key = op[d].key
    BY <1>3
  <2>2. \A d \in Callers : op'[d] # None => op'[d].key <= requests'
    BY <2>1 DEF KeysInv
  <2>3. \A d, e \in Callers : op'[d] # None /\ op'[e] # None /\ op'[d].key = op'[e].key => d = e
    BY <2>1 DEF KeysInv
  <2>4. \A n \in Keys : Key(meta', n) # None => n <= requests'
    BY DEF KeysInv
  <2> QED
    BY <1>8, <2>2, <2>3, <2>4 DEF KeysInv
<1> QED
  BY <1>9, <1>10

LEMMA ManagerStep ==
    ASSUME BaseInv, KeysInv, NEW c \in Callers, Running(c),
           call[c] = None \/ call[c].at = "answered",
           OnlyOp(c), OnlyCall(c), op'[c] \in Operation, op'[c].key = op[c].key,
           NextCall(call[c], call'[c], op[c].key),
           meta' = meta, tree' = tree, pgdata' = pgdata, current' = current, cont' = cont, site' = site,
           holder' = holder, disturbed' = disturbed, requests' = requests,
           faults' \in 0..MaxFaults, project' \in Statuses \cup {None}, desired' \in Configs,
           Fits(op'[c], call'[c]), Sent(op'[c], call'[c]),
           Calm => Aims(op'[c], call'[c], meta, desired', requests)
    PROVE  Keeps
<1>1. RtTyped /\ MgrTyped /\ op[c] # None
  BY DEF BaseInv, Running
<1>2. BaseInv' /\ KeysInv'
  BY <1>1, ManagerKeepsBase
<1>3. ASSUME Calm
      PROVE  Calm'
  <2>1. Where(call[c], meta, current, site, pgdata, cont)
    BY <1>3 DEF Calm
  <2>2. Rest(meta, current, site, pgdata, cont)
    BY <2>1 DEF Where, Reconciling
  <2>3. Where(call'[c], meta, current, site, pgdata, cont)
    <3>1. CASE call'[c] = None \/ call'[c] = call[c]
      BY <2>1, <2>2, <3>1 DEF Where
    <3>2. CASE \E kind \in Kinds, cfg \in Configs \cup {None} : call'[c] = NewCall(kind, cfg, op[c].key)
      <4>1. op[c].key \in Keys
        BY <1>1 DEF MgrTyped, Operation
      <4>2. call'[c].at = "begin" /\ ~call'[c].committed /\ ~call'[c].proxied /\ call'[c].clean /\ call'[c] # None
        BY <3>2, <4>1, NewCallFacts
      <4> HIDE DEF NewCall
      <4> QED
        BY <2>2, <4>2 DEF Where, Reconciling, Onward, Backward
    <3> QED
      BY <3>1, <3>2 DEF NextCall
  <2>4. \A d \in Callers : d # c => call'[d] = call[d] /\ op'[d] = op[d]
    BY <1>1, CallsOf DEF OnlyOp, MgrTyped
  <2>5. \A d \in Callers : d # c => ~Running(d)'
    BY <1>3, <2>4 DEF Calm, Running
  <2>6. \A d \in Callers : Aims(op'[d], call'[d], meta, desired', requests)
    <3>1. ASSUME NEW d \in Callers, d # c
          PROVE  Aims(op'[d], call'[d], meta, desired', requests)
      <4>1. call'[d] = None /\ (op'[d] # None => op'[d].step \in Ended /\ op'[d].key # requests)
        BY <1>3, <2>4, <3>1, OthersEnded
      <4>2. Aims(op'[d], None, meta, desired', requests)
        BY <4>1, EndedAims
      <4> QED
        BY <4>1, <4>2
    <3> QED
      BY <1>3, <3>1
  <2>7. op'[c].key = requests
    BY <1>3 DEF Calm
  <2>8. Rest(meta', current', site', pgdata', cont')
    BY <2>2
  <2>9. \A d \in Callers : Running(d)' => d = c
    BY <2>5
  <2>10. \A d \in Callers : Running(d)' => Where(call'[d], meta', current', site', pgdata', cont')
    BY <2>3, <2>9
  <2>11. \A d \in Callers : Running(d)' => op'[d].key = requests'
    BY <2>7, <2>9
  <2> QED
    BY <2>6, <2>8, <2>9, <2>10, <2>11 DEF Calm
<1> QED
  BY <1>2, <1>3 DEF Keeps, CalmInv

LEMMA RunsIn ==
    ASSUME BaseInv, KeysInv, NEW c \in Callers, op[c] # None, op[c].step \notin Ended
    PROVE  /\ RtTyped /\ MgrTyped /\ Running(c) /\ op[c] \in Operation /\ op[c].key \in Keys
           /\ Fits(op[c], call[c]) /\ Sent(op[c], call[c])
           /\ op[c].step \in {"queued", "prepared"} => call[c] = None
BY DEF BaseInv, KeysInv, MgrTyped, Operation, Running, Fits

LEMMA SendFacts ==
    ASSUME RtTyped, MgrTyped, NEW c \in Callers, op[c] # None, NEW kind \in Kinds,
           NEW cfg \in Configs \cup {None}, NEW step \in OpSteps, Send(c, kind, cfg, step)
    PROVE  /\ OnlyOp(c) /\ op'[c] \in Operation /\ op'[c].step = step /\ op'[c] # None
           /\ op'[c].kind = op[c].kind /\ op'[c].key = op[c].key /\ op'[c].cfg = op[c].cfg
           /\ OnlyCall(c) /\ NextCall(call[c], call'[c], op[c].key)
           /\ call'[c] # None /\ call'[c].kind = kind /\ call'[c].cfg = cfg /\ call'[c].key = op[c].key
           /\ call'[c].at = "begin"
           /\ meta' = meta /\ tree' = tree /\ pgdata' = pgdata /\ current' = current /\ cont' = cont
           /\ site' = site /\ holder' = holder /\ disturbed' = disturbed
<1>1. op[c].key \in Keys
  BY DEF MgrTyped, Operation
<1> DEFINE k == NewCall(kind, cfg, op[c].key)
<1>2. k # None /\ k.kind = kind /\ k.cfg = cfg /\ k.key = op[c].key /\ k.at = "begin"
  BY <1>1, NewCallFacts
<1>3. call' = [call EXCEPT ![c] = k] /\ call'[c] = k
  BY DEF Send, RtTyped
<1>4. NextCall(call[c], k, op[c].key)
  BY DEF NextCall
<1> HIDE DEF k
<1>5. /\ OnlyOp(c) /\ op'[c] \in Operation /\ op'[c].step = step /\ op'[c] # None
      /\ op'[c].kind = op[c].kind /\ op'[c].key = op[c].key /\ op'[c].cfg = op[c].cfg
  BY StepFacts DEF Send
<1>6. /\ meta' = meta /\ tree' = tree /\ pgdata' = pgdata /\ current' = current /\ cont' = cont
      /\ site' = site /\ holder' = holder /\ disturbed' = disturbed
  BY DEF Send, runtime
<1> QED
  BY <1>2, <1>3, <1>4, <1>5, <1>6 DEF OnlyCall

LEMMA EndFacts ==
    ASSUME RtTyped, MgrTyped, NEW c \in Callers, op[c] # None, NEW step \in OpSteps, End(c, step)
    PROVE  /\ OnlyOp(c) /\ op'[c] \in Operation /\ op'[c].step = step /\ op'[c] # None
           /\ op'[c].kind = op[c].kind /\ op'[c].key = op[c].key /\ op'[c].cfg = op[c].cfg
           /\ OnlyCall(c) /\ NextCall(call[c], call'[c], op[c].key) /\ call'[c] = None
           /\ meta' = meta /\ tree' = tree /\ pgdata' = pgdata /\ current' = current /\ cont' = cont
           /\ site' = site /\ holder' = holder /\ disturbed' = disturbed
<1>1. /\ OnlyOp(c) /\ op'[c] \in Operation /\ op'[c].step = step /\ op'[c] # None
      /\ op'[c].kind = op[c].kind /\ op'[c].key = op[c].key /\ op'[c].cfg = op[c].cfg
  BY StepFacts DEF End
<1>2. OnlyCall(c) /\ call'[c] = None
  BY DEF End, OnlyCall, RtTyped
<1>3. /\ meta' = meta /\ tree' = tree /\ pgdata' = pgdata /\ current' = current /\ cont' = cont
      /\ site' = site /\ holder' = holder /\ disturbed' = disturbed
  BY DEF End, runtime
<1> QED
  BY <1>1, <1>2, <1>3 DEF NextCall

LEMMA StatusTyped ==
    ASSUME MgrTyped, NEW s \in Statuses, Status(s)
    PROVE  project' \in Statuses \cup {None}
BY DEF Status, MgrTyped

\* Every failure of an installation leads to the same rollback.
LEMMA UndoKeeps ==
    ASSUME BaseInv, KeysInv, NEW c \in Callers, op[c] # None, op[c].kind = "INSTALL",
           op[c].step \notin {"queued"} \cup Ended, call[c] = None \/ call[c].at = "answered",
           Send(c, "DELETE_RUNTIME", None, "undo"),
           UNCHANGED <<project, desired, requests>>, faults' \in 0..MaxFaults
    PROVE  Keeps
<1>1. /\ RtTyped /\ MgrTyped /\ Running(c) /\ op[c] \in Operation /\ op[c].key \in Keys
      /\ Fits(op[c], call[c]) /\ Sent(op[c], call[c])
  BY RunsIn
<1>2. "DELETE_RUNTIME" \in Kinds /\ "undo" \in OpSteps /\ "undo" \notin Ended
  BY DEF Kinds, OpSteps, Ended
<1>3. /\ OnlyOp(c) /\ op'[c] \in Operation /\ op'[c].step = "undo" /\ op'[c] # None
      /\ op'[c].kind = op[c].kind /\ op'[c].key = op[c].key /\ op'[c].cfg = op[c].cfg
      /\ OnlyCall(c) /\ NextCall(call[c], call'[c], op[c].key)
      /\ call'[c] # None /\ call'[c].kind = "DELETE_RUNTIME" /\ call'[c].key = op[c].key
      /\ meta' = meta /\ tree' = tree /\ pgdata' = pgdata /\ current' = current /\ cont' = cont
      /\ site' = site /\ holder' = holder /\ disturbed' = disturbed
  BY <1>1, <1>2, SendFacts
<1>4. Fits(op'[c], call'[c]) /\ Sent(op'[c], call'[c])
  BY <1>1, <1>2, <1>3 DEF Fits, Sent
<1>5. Calm => Aims(op'[c], call'[c], meta, desired', requests)
  <2> SUFFICES ASSUME Calm PROVE Aims(op'[c], call'[c], meta, desired', requests)
    OBVIOUS
  <2>1. Aims(op[c], call[c], meta, desired, requests)
    BY DEF Calm
  <2>2. op[c].cfg = desired
    BY <2>1 DEF Aims
  <2> QED
    BY <1>2, <1>3, <2>2 DEF Aims
<1>6. project' \in Statuses \cup {None} /\ desired' \in Configs /\ requests' = requests
  BY <1>1 DEF MgrTyped
<1> QED
  BY <1>1, <1>3, <1>4, <1>5, <1>6, ManagerStep

LEMMA InstallBeginKeeps ==
    ASSUME BaseInv, KeysInv, NEW c \in Callers, InstallBegin(c)
    PROVE  Keeps
<1>1. op[c] # None /\ op[c].kind = "INSTALL" /\ op[c].step = "queued"
  BY DEF InstallBegin, Doing
<1>2. /\ RtTyped /\ MgrTyped /\ Running(c) /\ op[c] \in Operation /\ op[c].key \in Keys
      /\ Fits(op[c], call[c]) /\ Sent(op[c], call[c]) /\ call[c] = None
  BY <1>1, RunsIn DEF Ended
<1>3. /\ meta' = meta /\ tree' = tree /\ pgdata' = pgdata /\ current' = current /\ cont' = cont
      /\ site' = site /\ holder' = holder /\ disturbed' = disturbed /\ call' = call /\ faults' = faults
      /\ desired' = desired /\ requests' = requests
  BY DEF InstallBegin, rtVars
<1>4. OnlyCall(c) /\ NextCall(call[c], call'[c], op[c].key)
  BY <1>2, <1>3 DEF OnlyCall, NextCall, RtTyped
<1>5. desired \in Configs /\ faults \in 0..MaxFaults
  BY <1>2 DEF MgrTyped, RtTyped
<1>6. CASE project = None /\ Step(c, "FAILED") /\ UNCHANGED project
  <2>1. "FAILED" \in OpSteps /\ "FAILED" \in Ended
    BY DEF OpSteps, Ended
  <2>2. /\ OnlyOp(c) /\ op'[c] \in Operation /\ op'[c].step = "FAILED" /\ op'[c] # None
        /\ op'[c].kind = op[c].kind /\ op'[c].key = op[c].key
    BY <1>1, <1>2, <1>6, <2>1, StepFacts
  <2>3. Fits(op'[c], call'[c]) /\ Sent(op'[c], call'[c]) /\ Aims(op'[c], call'[c], meta, desired', requests)
    BY <1>2, <1>3, <2>1, <2>2 DEF Fits, Sent, Aims
  <2> QED
    BY <1>2, <1>3, <1>4, <1>5, <1>6, <2>2, <2>3, ManagerStep
<1>7. CASE /\ op' = [op EXCEPT ![c].step = "prepared", ![c].cfg = desired]
           /\ Status("INSTALLING")
  <2> DEFINE o == [op[c] EXCEPT !.step = "prepared", !.cfg = desired]
  <2>1. op' = [op EXCEPT ![c] = o] /\ op'[c] = o
    BY <1>2, <1>7 DEF MgrTyped
  <2>2. /\ o \in Operation /\ o.step = "prepared" /\ o.cfg = desired /\ o.key = op[c].key /\ o.kind = "INSTALL"
    BY <1>1, <1>2, <1>5 DEF Operation, OpSteps
  <2> HIDE DEF o
  <2>3. OnlyOp(c) /\ op'[c] # None
    BY <2>1, <2>2, ConstantFacts DEF OnlyOp
  <2>4. project' \in Statuses \cup {None}
    BY <1>2, <1>7, StatusTyped DEF Statuses
  <2>5. Fits(op'[c], call'[c]) /\ Sent(op'[c], call'[c])
    BY <1>2, <1>3, <1>5, <2>1, <2>2, <2>3 DEF Fits, Sent
  <2>6. Calm => Aims(op'[c], call'[c], meta, desired', requests)
    <3> SUFFICES ASSUME Calm PROVE Aims(op'[c], call'[c], meta, desired', requests)
      OBVIOUS
    <3>1. Aims(op[c], call[c], meta, desired, requests)
      BY DEF Calm
    <3>2. Key(meta, op[c].key) = None
      BY <1>1, <3>1 DEF Aims
    <3> QED
      BY <1>2, <1>3, <2>1, <2>2, <3>2 DEF Aims
  <2> QED
    BY <1>2, <1>3, <1>4, <1>5, <2>1, <2>2, <2>3, <2>4, <2>5, <2>6, ManagerStep
<1> QED
  BY <1>6, <1>7 DEF InstallBegin

LEMMA InstallPrepareKeeps ==
    ASSUME BaseInv, KeysInv, NEW c \in Callers, InstallPrepare(c)
    PROVE  Keeps
<1>1. op[c] # None /\ op[c].kind = "INSTALL" /\ op[c].step = "prepared" /\ op[c].step \notin {"queued"} \cup Ended
  BY DEF InstallPrepare, Doing, Ended
<1>2. /\ RtTyped /\ MgrTyped /\ Running(c) /\ op[c] \in Operation /\ op[c].key \in Keys
      /\ Fits(op[c], call[c]) /\ Sent(op[c], call[c]) /\ call[c] = None
  BY <1>1, RunsIn
<1>3. op[c].cfg \in Configs
  BY <1>1, <1>2 DEF Fits
<1>4. CASE /\ project # None /\ desired' = op[c].cfg
           /\ Send(c, "RECONCILE", op[c].cfg, "reconcile") /\ UNCHANGED <<faults, project, requests>>
  <2>1. "RECONCILE" \in Kinds /\ "reconcile" \in OpSteps /\ "reconcile" \notin Ended
    BY DEF Kinds, OpSteps, Ended
  <2>2. /\ OnlyOp(c) /\ op'[c] \in Operation /\ op'[c].step = "reconcile" /\ op'[c] # None
        /\ op'[c].kind = op[c].kind /\ op'[c].key = op[c].key /\ op'[c].cfg = op[c].cfg
        /\ OnlyCall(c) /\ NextCall(call[c], call'[c], op[c].key)
        /\ call'[c] # None /\ call'[c].kind = "RECONCILE" /\ call'[c].cfg = op[c].cfg
        /\ call'[c].key = op[c].key /\ call'[c].at = "begin"
        /\ meta' = meta /\ tree' = tree /\ pgdata' = pgdata /\ current' = current /\ cont' = cont
        /\ site' = site /\ holder' = holder /\ disturbed' = disturbed
    BY <1>1, <1>2, <1>3, <1>4, <2>1, SendFacts
  <2>3. Fits(op'[c], call'[c]) /\ Sent(op'[c], call'[c])
    BY <1>1, <1>2, <1>3, <2>1, <2>2 DEF Fits, Sent
  <2>4. Calm => Aims(op'[c], call'[c], meta, desired', requests)
    <3> SUFFICES ASSUME Calm PROVE Aims(op'[c], call'[c], meta, desired', requests)
      OBVIOUS
    <3>1. Aims(op[c], call[c], meta, desired, requests)
      BY DEF Calm
    <3>2. Key(meta, op[c].key) = None
      BY <1>1, <3>1 DEF Aims
    <3> QED
      BY <1>1, <1>4, <2>1, <2>2, <3>2 DEF Aims
  <2>5. project' \in Statuses \cup {None} /\ desired' \in Configs /\ requests' = requests /\ faults' \in 0..MaxFaults
    BY <1>2, <1>3, <1>4 DEF MgrTyped, RtTyped
  <2> QED
    BY <1>2, <2>2, <2>3, <2>4, <2>5, ManagerStep
<1>5. CASE project = None /\ InstallRollback(c)
  BY <1>1, <1>2, <1>5, UndoKeeps DEF InstallRollback, RtTyped
<1>6. CASE Fault /\ Send(c, "DELETE_RUNTIME", None, "undo") /\ UNCHANGED <<project, desired, requests>>
  BY <1>1, <1>2, <1>6, FaultTyped, UndoKeeps
<1> QED
  BY <1>4, <1>5, <1>6 DEF InstallPrepare

LEMMA InstallReconciledKeeps ==
    ASSUME BaseInv, KeysInv, NEW c \in Callers, InstallReconciled(c)
    PROVE  Keeps
<1>1. /\ op[c] # None /\ op[c].kind = "INSTALL" /\ op[c].step = "reconcile"
      /\ op[c].step \notin {"queued"} \cup Ended /\ call[c] # None /\ call[c].at = "answered"
  BY DEF InstallReconciled, Doing, Ended, Answered
<1>2. /\ RtTyped /\ MgrTyped /\ Running(c) /\ op[c] \in Operation /\ op[c].key \in Keys
      /\ Fits(op[c], call[c]) /\ Sent(op[c], call[c])
  BY <1>1, RunsIn
<1>3. CASE /\ call[c].answer = "ok" /\ Send(c, "START", None, "start")
           /\ UNCHANGED <<faults, project, desired, requests>>
  <2>1. "START" \in Kinds /\ "start" \in OpSteps /\ "start" \notin Ended
    BY DEF Kinds, OpSteps, Ended
  <2>2. /\ OnlyOp(c) /\ op'[c] \in Operation /\ op'[c].step = "start" /\ op'[c] # None
        /\ op'[c].kind = op[c].kind /\ op'[c].key = op[c].key /\ op'[c].cfg = op[c].cfg
        /\ OnlyCall(c) /\ NextCall(call[c], call'[c], op[c].key)
        /\ call'[c] # None /\ call'[c].kind = "START" /\ call'[c].key = op[c].key
        /\ meta' = meta /\ tree' = tree /\ pgdata' = pgdata /\ current' = current /\ cont' = cont
        /\ site' = site /\ holder' = holder /\ disturbed' = disturbed
    BY <1>1, <1>2, <1>3, <2>1, SendFacts
  <2>3. Fits(op'[c], call'[c]) /\ Sent(op'[c], call'[c])
    BY <1>1, <1>2, <2>1, <2>2 DEF Fits, Sent
  <2>4. Calm => Aims(op'[c], call'[c], meta, desired', requests)
    <3> SUFFICES ASSUME Calm PROVE Aims(op'[c], call'[c], meta, desired', requests)
      OBVIOUS
    <3>1. Aims(op[c], call[c], meta, desired, requests)
      BY DEF Calm
    <3>2. op[c].cfg = desired /\ Old(meta) = desired
      BY <1>1, <1>2, <1>3, <3>1 DEF Aims, Sent
    <3> QED
      BY <1>1, <1>3, <2>1, <2>2, <3>2 DEF Aims
  <2>5. project' \in Statuses \cup {None} /\ desired' \in Configs /\ requests' = requests /\ faults' \in 0..MaxFaults
    BY <1>2, <1>3 DEF MgrTyped, RtTyped
  <2> QED
    BY <1>1, <1>2, <2>2, <2>3, <2>4, <2>5, ManagerStep
<1>4. CASE InstallRollback(c)
  BY <1>1, <1>2, <1>4, UndoKeeps DEF InstallRollback, RtTyped
<1> QED
  BY <1>3, <1>4 DEF InstallReconciled

LEMMA InstallStartedKeeps ==
    ASSUME BaseInv, KeysInv, NEW c \in Callers, InstallStarted(c)
    PROVE  Keeps
<1>1. /\ op[c] # None /\ op[c].kind = "INSTALL" /\ op[c].step = "start"
      /\ op[c].step \notin {"queued"} \cup Ended /\ call[c] # None /\ call[c].at = "answered"
  BY DEF InstallStarted, Doing, Ended, Answered
<1>2. /\ RtTyped /\ MgrTyped /\ Running(c) /\ op[c] \in Operation /\ op[c].key \in Keys
      /\ Fits(op[c], call[c]) /\ Sent(op[c], call[c])
  BY <1>1, RunsIn
<1>3. CASE Step(c, "inspect") /\ UNCHANGED <<rtVars, project, desired, requests>>
  <2>1. "inspect" \in OpSteps /\ "inspect" \notin Ended
    BY DEF OpSteps, Ended
  <2>2. /\ OnlyOp(c) /\ op'[c] \in Operation /\ op'[c].step = "inspect" /\ op'[c] # None
        /\ op'[c].kind = op[c].kind /\ op'[c].key = op[c].key /\ op'[c].cfg = op[c].cfg
    BY <1>1, <1>2, <1>3, <2>1, StepFacts
  <2>3. /\ meta' = meta /\ tree' = tree /\ pgdata' = pgdata /\ current' = current /\ cont' = cont
        /\ site' = site /\ holder' = holder /\ disturbed' = disturbed /\ call' = call /\ faults' = faults
    BY <1>3 DEF rtVars
  <2>4. OnlyCall(c) /\ NextCall(call[c], call'[c], op[c].key)
    BY <1>2, <2>3 DEF OnlyCall, NextCall, RtTyped
  <2>5. Fits(op'[c], call'[c]) /\ Sent(op'[c], call'[c])
    BY <1>1, <1>2, <2>1, <2>2, <2>3 DEF Fits, Sent
  <2>6. Calm => Aims(op'[c], call'[c], meta, desired', requests)
    <3> SUFFICES ASSUME Calm PROVE Aims(op'[c], call'[c], meta, desired', requests)
      OBVIOUS
    <3>1. Aims(op[c], call[c], meta, desired, requests)
      BY DEF Calm
    <3>2. op[c].cfg = desired /\ Old(meta) = desired /\ call[c].kind = "START"
      BY <1>1, <1>2, <3>1 DEF Aims, Sent
    <3> QED
      BY <1>1, <1>3, <2>1, <2>2, <2>3, <3>2 DEF Aims
  <2>7. project' \in Statuses \cup {None} /\ desired' \in Configs /\ requests' = requests /\ faults' \in 0..MaxFaults
    BY <1>2, <1>3, <2>3 DEF MgrTyped, RtTyped
  <2> QED
    BY <1>1, <1>2, <2>2, <2>3, <2>4, <2>5, <2>6, <2>7, ManagerStep
<1>4. CASE InstallRollback(c)
  BY <1>1, <1>2, <1>4, UndoKeeps DEF InstallRollback, RtTyped
<1> QED
  BY <1>3, <1>4 DEF InstallStarted

\* A goroutine ends: what it has published is what it was to publish.
LEMMA EndKeeps ==
    ASSUME BaseInv, KeysInv, NEW c \in Callers, Running(c), NEW step \in Ended, End(c, step),
           call[c] = None \/ call[c].at = "answered",
           faults' \in 0..MaxFaults, project' \in Statuses \cup {None}, desired' = desired, requests' = requests,
           Calm /\ op[c].kind \in {"INSTALL", "APPLY"} /\ step = "SUCCEEDED" => Old(meta) = desired
    PROVE  Keeps
<1>1. op[c] # None /\ op[c].step \notin Ended
  BY DEF Running
<1>2. RtTyped /\ MgrTyped
  BY <1>1, RunsIn
<1>3. step \in OpSteps
  BY DEF OpSteps
<1>4. /\ OnlyOp(c) /\ op'[c] \in Operation /\ op'[c].step = step /\ op'[c] # None
      /\ op'[c].kind = op[c].kind /\ op'[c].key = op[c].key
      /\ OnlyCall(c) /\ NextCall(call[c], call'[c], op[c].key) /\ call'[c] = None
      /\ meta' = meta /\ tree' = tree /\ pgdata' = pgdata /\ current' = current /\ cont' = cont
      /\ site' = site /\ holder' = holder /\ disturbed' = disturbed
  BY <1>1, <1>2, <1>3, EndFacts
<1>5. Fits(op'[c], call'[c]) /\ Sent(op'[c], call'[c])
  BY <1>4 DEF Fits, Sent, Ended
<1>6. Calm => Aims(op'[c], call'[c], meta, desired', requests)
  BY <1>4 DEF Aims, Ended
<1>7. desired \in Configs
  BY <1>2 DEF MgrTyped
<1> QED
  BY <1>2, <1>4, <1>5, <1>6, <1>7, ManagerStep

LEMMA InstallInspectedKeeps ==
    ASSUME BaseInv, KeysInv, NEW c \in Callers, InstallInspected(c)
    PROVE  Keeps
<1>1. /\ op[c] # None /\ op[c].kind = "INSTALL" /\ op[c].step = "inspect"
      /\ op[c].step \notin {"queued"} \cup Ended
  BY DEF InstallInspected, Doing, Ended
<1>2. /\ RtTyped /\ MgrTyped /\ Running(c) /\ op[c] \in Operation /\ op[c].key \in Keys
      /\ Fits(op[c], call[c]) /\ Sent(op[c], call[c])
  BY <1>1, RunsIn
<1>3. call[c] # None /\ call[c].at = "answered"
  BY <1>1, <1>2 DEF Fits
<1>4. CASE Status("RUNNING") /\ End(c, "SUCCEEDED") /\ UNCHANGED <<faults, desired, requests>>
  <2>1. Calm => Old(meta) = desired
    <3> SUFFICES ASSUME Calm PROVE Old(meta) = desired
      OBVIOUS
    <3>1. Aims(op[c], call[c], meta, desired, requests)
      BY DEF Calm
    <3> QED
      BY <1>1, <3>1 DEF Aims
  <2>2. project' \in Statuses \cup {None} /\ faults' \in 0..MaxFaults
    BY <1>2, <1>4, StatusTyped DEF Statuses, RtTyped
  <2> QED
    BY <1>2, <1>3, <1>4, <2>1, <2>2, EndKeeps DEF Ended
<1>5. CASE InstallRollback(c)
  BY <1>1, <1>2, <1>3, <1>5, UndoKeeps DEF InstallRollback, RtTyped
<1>6. CASE Fault /\ Send(c, "DELETE_RUNTIME", None, "undo") /\ UNCHANGED <<project, desired, requests>>
  BY <1>1, <1>2, <1>3, <1>6, FaultTyped, UndoKeeps
<1> QED
  BY <1>4, <1>5, <1>6 DEF InstallInspected

LEMMA InstallRolledBackKeeps ==
    ASSUME BaseInv, KeysInv, NEW c \in Callers, InstallRolledBack(c)
    PROVE  Keeps
<1>1. op[c] # None /\ op[c].step = "undo" /\ op[c].step \notin Ended /\ call[c].at = "answered"
  BY DEF InstallRolledBack, Doing, Ended, Answered
<1>2. RtTyped /\ MgrTyped /\ Running(c)
  BY <1>1, RunsIn
<1>3. PICK step \in {"ROLLED_BACK", "FAILED"} : End(c, step)
  BY DEF InstallRolledBack
<1>4. project' \in Statuses \cup {None} /\ faults' \in 0..MaxFaults /\ desired' = desired /\ requests' = requests
  BY <1>2, StatusTyped DEF InstallRolledBack, Statuses, RtTyped
<1> QED
  BY <1>1, <1>2, <1>3, <1>4, EndKeeps DEF Ended

LEMMA ActionTyped == \A kind \in OpKinds \ {"INSTALL"} :
    /\ provisionerAction(kind) \in Kinds
    /\ provisionerAction(kind) = "RECONCILE" <=> kind = "APPLY"
<1>1. ASSUME NEW kind \in OpKinds, kind # "INSTALL"
      PROVE  /\ provisionerAction(kind) \in Kinds
             /\ provisionerAction(kind) = "RECONCILE" <=> kind = "APPLY"
  <2>1. kind \in {"APPLY", "FORCE_RUNTIME", "FORCE_DATA", "START", "STOP", "RESTART", "DELETE_RUNTIME"}
    BY <1>1 DEF OpKinds, Actions
  <2>2. CASE kind = "APPLY"
    BY <2>2 DEF provisionerAction, Kinds
  <2>3. CASE kind = "FORCE_RUNTIME"
    BY <2>3 DEF provisionerAction, Kinds
  <2>4. CASE kind = "FORCE_DATA"
    BY <2>4 DEF provisionerAction, Kinds
  <2>5. CASE kind \in {"START", "STOP", "RESTART", "DELETE_RUNTIME"}
    BY <2>5 DEF provisionerAction, Kinds
  <2> QED
    BY <2>1, <2>2, <2>3, <2>4, <2>5
<1> QED
  BY <1>1

\* A goroutine outside of install.Orchestrator makes its call.
LEMMA CallKeeps ==
    ASSUME BaseInv, KeysInv, NEW c \in Callers, Running(c), op[c].kind # "INSTALL",
           op[c].step \in {"queued", "call"}, call[c] = None \/ call[c].at = "answered",
           Send(c, provisionerAction(op[c].kind), IF op[c].kind = "APPLY" THEN desired ELSE None, "call"),
           UNCHANGED <<faults, project, desired, requests>>,
           Calm /\ op[c].kind = "APPLY" => op[c].step = "queued"
    PROVE  Keeps
<1>1. op[c] # None /\ op[c].step \notin Ended
  BY DEF Running
<1>2. /\ RtTyped /\ MgrTyped /\ Running(c) /\ op[c] \in Operation /\ op[c].key \in Keys
      /\ Fits(op[c], call[c]) /\ Sent(op[c], call[c])
  BY <1>1, RunsIn
<1> DEFINE kind == provisionerAction(op[c].kind)
           cfg == IF op[c].kind = "APPLY" THEN desired ELSE None
<1>3. kind \in Kinds /\ (kind = "RECONCILE" <=> op[c].kind = "APPLY")
  BY <1>2, ActionTyped DEF Operation
<1>4. desired \in Configs /\ cfg \in Configs \cup {None} /\ "call" \in OpSteps /\ "call" \notin Ended
  BY <1>2 DEF MgrTyped, OpSteps, Ended
<1>5. Send(c, kind, cfg, "call") /\ (op[c].kind = "APPLY" => cfg = desired)
  OBVIOUS
<1> HIDE DEF cfg
<1>6. /\ OnlyOp(c) /\ op'[c] \in Operation /\ op'[c].step = "call" /\ op'[c] # None
      /\ op'[c].kind = op[c].kind /\ op'[c].key = op[c].key /\ op'[c].cfg = op[c].cfg
      /\ OnlyCall(c) /\ NextCall(call[c], call'[c], op[c].key)
      /\ call'[c] # None /\ call'[c].kind = kind /\ call'[c].cfg = cfg /\ call'[c].key = op[c].key
      /\ call'[c].at = "begin"
      /\ meta' = meta /\ tree' = tree /\ pgdata' = pgdata /\ current' = current /\ cont' = cont
      /\ site' = site /\ holder' = holder /\ disturbed' = disturbed
  BY <1>1, <1>2, <1>3, <1>4, <1>5, SendFacts
<1>7. Sent(op'[c], call'[c])
  BY <1>6 DEF Sent
<1> HIDE DEF kind
<1>8. Fits(op'[c], call'[c])
  BY <1>2, <1>3, <1>4, <1>5, <1>6 DEF Fits
<1>9. Calm => Aims(op'[c], call'[c], meta, desired', requests)
  <2> SUFFICES ASSUME Calm PROVE Aims(op'[c], call'[c], meta, desired', requests)
    OBVIOUS
  <2>1. Aims(op[c], call[c], meta, desired, requests)
    BY DEF Calm
  <2>2. op[c].kind = "APPLY" => Key(meta, op[c].key) = None
    BY <1>1, <2>1 DEF Aims
  <2> QED
    BY <1>3, <1>4, <1>5, <1>6, <2>2 DEF Aims
<1>10. project' \in Statuses \cup {None} /\ desired' \in Configs /\ requests' = requests /\ faults' \in 0..MaxFaults
  BY <1>2 DEF MgrTyped, RtTyped
<1> QED
  BY <1>2, <1>6, <1>7, <1>8, <1>9, <1>10, ManagerStep

LEMMA CallProvisionerKeeps ==
    ASSUME BaseInv, KeysInv, NEW c \in Callers, CallProvisioner(c)
    PROVE  Keeps
<1>1. Running(c) /\ op[c] # None /\ op[c].step \notin Ended /\ op[c].step = "queued" /\ op[c].kind # "INSTALL"
  BY DEF CallProvisioner, Running
<1>2. RtTyped /\ MgrTyped /\ call[c] = None
  BY <1>1, RunsIn
<1>3. project' = project /\ desired' = desired /\ requests' = requests
  BY DEF CallProvisioner
<1>4. CASE Step(c, "FAILED") /\ UNCHANGED rtVars
  <2>1. "FAILED" \in OpSteps /\ "FAILED" \in Ended
    BY DEF OpSteps, Ended
  <2>2. /\ OnlyOp(c) /\ op'[c] \in Operation /\ op'[c].step = "FAILED" /\ op'[c] # None
        /\ op'[c].kind = op[c].kind /\ op'[c].key = op[c].key
    BY <1>1, <1>2, <1>4, <2>1, StepFacts
  <2>3. /\ meta' = meta /\ tree' = tree /\ pgdata' = pgdata /\ current' = current /\ cont' = cont
        /\ site' = site /\ holder' = holder /\ disturbed' = disturbed /\ call' = call /\ faults' = faults
    BY <1>4 DEF rtVars
  <2>4. OnlyCall(c) /\ NextCall(call[c], call'[c], op[c].key)
    BY <1>2, <2>3 DEF OnlyCall, NextCall, RtTyped
  <2>5. Fits(op'[c], call'[c]) /\ Sent(op'[c], call'[c]) /\ Aims(op'[c], call'[c], meta, desired', requests)
    BY <1>2, <2>1, <2>2, <2>3 DEF Fits, Sent, Aims
  <2>6. project' \in Statuses \cup {None} /\ desired' \in Configs /\ faults' \in 0..MaxFaults
    BY <1>2, <1>3, <2>3 DEF MgrTyped, RtTyped
  <2> QED
    BY <1>1, <1>2, <1>3, <2>2, <2>3, <2>4, <2>5, <2>6, ManagerStep
<1>5. CASE Send(c, provisionerAction(op[c].kind), IF op[c].kind = "APPLY" THEN desired ELSE None, "call") /\ NoFault
  BY <1>1, <1>2, <1>3, <1>5, CallKeeps DEF NoFault
<1> QED
  BY <1>4, <1>5 DEF CallProvisioner

LEMMA CallFailedKeeps ==
    ASSUME BaseInv, KeysInv, NEW c \in Callers, CallFailed(c)
    PROVE  Keeps
<1>1. Running(c) /\ op[c] # None /\ op[c].step \notin Ended /\ call[c].at = "answered"
  BY DEF CallFailed, Running, Answered
<1>2. RtTyped /\ MgrTyped
  BY <1>1, RunsIn
<1>3. /\ End(c, "FAILED") /\ project' \in Statuses \cup {None} /\ faults' \in 0..MaxFaults
      /\ desired' = desired /\ requests' = requests
  BY <1>2 DEF CallFailed, MgrTyped, RtTyped
<1> QED
  BY <1>1, <1>3, EndKeeps DEF Ended

\* As long as nothing disturbed the server, no Reconcile is answered with an
\* error of its transport, and no apply is made again.
LEMMA CallAgainKeeps ==
    ASSUME BaseInv, KeysInv, NEW c \in Callers, CallAgain(c)
    PROVE  Keeps
<1>1. /\ op[c] # None /\ op[c].kind = "APPLY" /\ op[c].step = "call" /\ op[c].step \notin Ended
      /\ call[c] # None /\ call[c].at = "answered" /\ call[c].answer = "error"
  BY DEF CallAgain, Doing, Answered, Ended
<1>2. Running(c) /\ Sent(op[c], call[c])
  BY <1>1, RunsIn
<1>3. provisionerAction("APPLY") = "RECONCILE"
  BY DEF provisionerAction
<1>4. ~Calm
  <2> SUFFICES ASSUME Calm PROVE FALSE
    OBVIOUS
  <2>1. Where(call[c], meta, current, site, pgdata, cont) /\ call[c].kind = "RECONCILE"
    BY <1>1, <1>2, <1>3 DEF Calm, Sent
  <2> QED
    BY <1>1, <2>1 DEF Where, Reconciling
<1>5. /\ Send(c, provisionerAction(op[c].kind), IF op[c].kind = "APPLY" THEN desired ELSE None, "call")
      /\ UNCHANGED <<faults, project, desired, requests>>
  BY <1>1, <1>3 DEF CallAgain
<1> QED
  BY <1>1, <1>2, <1>4, <1>5, CallKeeps

LEMMA CallSucceededKeeps ==
    ASSUME BaseInv, KeysInv, NEW c \in Callers, CallSucceeded(c)
    PROVE  Keeps
<1>1. /\ Running(c) /\ op[c] # None /\ op[c].step \notin Ended /\ op[c].step = "call"
      /\ call[c] # None /\ call[c].at = "answered" /\ call[c].answer = "ok"
  BY DEF CallSucceeded, Running, Answered
<1>2. RtTyped /\ MgrTyped /\ Sent(op[c], call[c])
  BY <1>1, RunsIn
<1>3. PICK step \in {"SUCCEEDED", "FAILED"} : End(c, step)
  BY DEF CallSucceeded
<1>4. faults' \in 0..MaxFaults
  BY <1>2, FaultTyped DEF CallSucceeded
<1>5. project' \in Statuses \cup {None}
  BY <1>2, StatusTyped DEF CallSucceeded, Statuses, MgrTyped
<1>6. desired' = desired /\ requests' = requests
  BY DEF CallSucceeded
<1>7. ASSUME Calm, op[c].kind \in {"INSTALL", "APPLY"}
      PROVE  Old(meta) = desired
  <2>1. Aims(op[c], call[c], meta, desired, requests)
    BY <1>7 DEF Calm
  <2>2. call[c].kind = provisionerAction("APPLY")
    BY <1>1, <1>2, <1>7 DEF Sent
  <2>3. call[c].kind = "RECONCILE"
    BY <2>2 DEF provisionerAction
  <2> QED
    BY <1>1, <2>1, <2>3 DEF Aims
<1> QED
  BY <1>1, <1>3, <1>4, <1>5, <1>6, <1>7, EndKeeps DEF Ended

LEMMA ManagerKeeps ==
    ASSUME BaseInv, KeysInv, NEW c \in Callers, Manager(c)
    PROVE  Keeps
BY InstallBeginKeeps, InstallPrepareKeeps, InstallReconciledKeeps, InstallStartedKeeps,
   InstallInspectedKeeps, InstallRolledBackKeeps, CallProvisionerKeeps, CallFailedKeeps,
   CallAgainKeeps, CallSucceededKeeps DEF Manager, Install

\* A request finds a goroutine without a call, and takes a key of its own.
LEMMA AskKeeps ==
    ASSUME BaseInv, KeysInv, NEW c \in Callers, NEW kind \in OpKinds, NEW cfg \in Configs \cup {None},
           Ask(c, kind, cfg)
    PROVE  Keeps
<1>1. RtTyped /\ MgrTyped /\ Locked
  BY DEF BaseInv
<1>2. /\ meta' = meta /\ tree' = tree /\ pgdata' = pgdata /\ current' = current /\ cont' = cont
      /\ site' = site /\ holder' = holder /\ call' = call /\ faults' = faults /\ project' = project
      /\ ~Running(c) /\ requests' = requests + 1 /\ disturbed' = (disturbed \/ ~Idle)
  BY DEF Ask, runtime
<1>3. requests \in 0..MaxRequests /\ requests + 1 \in Keys /\ requests' \in 0..MaxRequests
  BY <1>1, <1>2, ConstantFacts DEF Ask, MgrTyped
<1>4. desired' \in Configs
  BY <1>1 DEF Ask, MgrTyped
<1> DEFINE o == [kind |-> kind, step |-> "queued", key |-> requests + 1, cfg |-> None]
<1>5. /\ o \in Operation /\ o.kind = kind /\ o.step = "queued" /\ o.key = requests + 1
      /\ op' = [op EXCEPT ![c] = o] /\ op'[c] = o
  BY <1>1, <1>3 DEF Ask, Operation, OpSteps, MgrTyped
<1> HIDE DEF o
<1>6. o # None /\ o.step \notin Ended
  BY <1>5, ConstantFacts DEF Ended
<1>7. (\A d \in Callers : d # c => op'[d] = op[d]) /\ op' \in [Callers -> Operation \cup {None}]
  BY <1>1, <1>5 DEF MgrTyped
<1>8. call[c] = None
  <2>1. Fits(op[c], call[c]) /\ (op[c] = None \/ op[c].step \in Ended)
    BY <1>2 DEF BaseInv, Running
  <2> QED
    BY <2>1 DEF Fits
<1>9. (\A d \in Callers : Fits(op'[d], call[d])) /\ (\A d \in Callers : Sent(op'[d], call[d]))
  <2>1. Fits(o, None) /\ Sent(o, None)
    BY <1>5, <1>6 DEF Fits, Sent
  <2> QED
    BY <1>5, <1>7, <1>8, <2>1 DEF BaseInv, KeysInv
<1>10. disturbed' \in BOOLEAN
  BY <1>2, Zenon
<1>11. RtTyped'
  BY <1>1, <1>2, <1>10 DEF RtTyped
<1>12. MgrTyped'
  BY <1>1, <1>2, <1>3, <1>4, <1>7 DEF MgrTyped
<1>13. BaseInv'
  <2>1. Locked'
    BY <1>1, <1>2 DEF Locked
  <2>2. \A d \in Callers : InLock(call'[d]) => Sound(call'[d], meta', tree', current')
    BY <1>2 DEF BaseInv
  <2>3. Published(meta') => tree' = "full" /\ current' \in Configs
    BY <1>2 DEF BaseInv
  <2> QED
    BY <1>2, <1>9, <1>11, <1>12, <2>1, <2>2, <2>3 DEF BaseInv
<1>14. \A d \in Callers : op[d] # None => op[d].key <= requests /\ op[d].key # requests + 1
  <2>1. \A d \in Callers : op[d] # None => op[d].key <= requests /\ op[d].key \in Nat
    BY <1>1, ConstantFacts DEF KeysInv, MgrTyped, Operation
  <2> QED
    BY <1>3, <2>1
<1>15. \A n \in Keys : Key(meta, n) # None => n <= requests /\ n # requests + 1
  BY <1>3, ConstantFacts DEF KeysInv
<1>16. KeysInv'
  <2>1. \A d \in Callers : op'[d] # None => op'[d].key <= requests'
    <3>1. ASSUME NEW d \in Callers, d # c, op'[d] # None PROVE op'[d].key <= requests'
      <4>1. op[d].key \in Nat /\ op[d].key <= requests
        BY <1>1, <1>7, <1>14, <3>1, ConstantFacts DEF MgrTyped, Operation
      <4> QED
        BY <1>2, <1>3, <1>7, <3>1, <4>1
    <3>2. op'[c].key <= requests'
      BY <1>2, <1>3, <1>5
    <3> QED
      BY <3>1, <3>2
  <2>2. \A d, e \in Callers : op'[d] # None /\ op'[e] # None /\ op'[d].key = op'[e].key => d = e
    BY <1>5, <1>7, <1>14 DEF KeysInv
  <2>3. \A n \in Keys : Key(meta', n) # None => n <= requests'
    BY <1>2, <1>3, <1>15, ConstantFacts
  <2> QED
    BY <1>2, <1>9, <2>1, <2>2, <2>3 DEF KeysInv
<1>17. ASSUME Calm, Idle
       PROVE  Calm'
  <2>1. \A d \in Callers : d # c => ~Running(d)'
    BY <1>7, <1>17 DEF Idle, Running
  <2>2. \A d \in Callers : Running(d)' => d = c
    BY <2>1
  <2>3. Rest(meta', current', site', pgdata', cont')
    BY <1>2, <1>17 DEF Calm
  <2>4. Where(call'[c], meta', current', site', pgdata', cont')
    BY <1>2, <1>8, <2>3 DEF Where
  <2>5. Aims(o, None, meta, desired', requests + 1)
    BY <1>3, <1>5, <1>6, <1>15 DEF Aims, Ended
  <2>6. \A d \in Callers : Aims(op'[d], call'[d], meta', desired', requests')
    <3>1. ASSUME NEW d \in Callers, d # c
          PROVE  Aims(op'[d], call'[d], meta', desired', requests')
      <4>1. op'[d] = op[d] /\ ~Running(d) /\ Fits(op[d], call[d])
        BY <1>7, <1>17, <3>1 DEF Idle, BaseInv
      <4>2. op[d] = None \/ op[d].step \in Ended
        BY <4>1 DEF Running
      <4>3. call[d] = None /\ (op[d] # None => op[d].step \in Ended /\ op[d].key # requests + 1)
        BY <1>14, <4>1, <4>2 DEF Fits
      <4>4. Aims(op[d], None, meta, desired', requests + 1)
        BY <4>3, EndedAims
      <4> QED
        BY <1>2, <4>1, <4>3, <4>4
    <3> QED
      BY <1>2, <1>5, <1>8, <2>5, <3>1
  <2>7. op'[c].key = requests'
    BY <1>2, <1>5
  <2> QED
    BY <2>2, <2>3, <2>4, <2>6, <2>7 DEF Calm
<1> QED
  BY <1>2, <1>13, <1>16, <1>17 DEF Keeps, CalmInv

-----------------------------------------------------------------------------
(* The invariants hold in every behaviour.                                 *)

InstallInv == BaseInv /\ KeysInv /\ CalmInv

LEMMA InstallInitInv ==
    ASSUME InstallInit
    PROVE  InstallInv
<1>1. /\ desired = First /\ op = [c \in Callers |-> None] /\ requests = 0
      /\ call = [c \in Callers |-> None] /\ holder = None /\ faults = 0 /\ disturbed = FALSE
      /\ project \in Statuses
  BY DEF InstallInit, RuntimeInit, InstalledInit, Quiet, Statuses
<1>2. /\ meta \in Records \cup {None} /\ (meta # None => (meta.published <=> meta.cfg # NoConfig))
      /\ tree \in Trees /\ pgdata \in DataStates /\ current \in Configs \cup {None}
      /\ cont \in [Services -> Containers] /\ site \in Routes \cup {None}
      /\ (Published(meta) => tree = "full" /\ current \in Configs)
      /\ (\A n \in Keys : Key(meta, n) = None) /\ Rest(meta, current, site, pgdata, cont)
  <2>1. CASE RuntimeInit
    <3>1. /\ meta = None /\ tree = "absent" /\ pgdata = "empty" /\ current = None
          /\ cont = [s \in Services |-> None] /\ site = None
      BY <2>1 DEF RuntimeInit
    <3>2. ~Published(meta) /\ Old(meta) = NoConfig /\ \A n \in Keys : Key(meta, n) = None
      BY <3>1 DEF Published, Old, Key
    <3>3. Rest(meta, current, site, pgdata, cont)
      BY <3>1, <3>2, NoConfigFacts DEF Rest, Pointer, Data, Belong
    <3> QED
      BY <3>1, <3>2, <3>3 DEF Trees, DataStates, Containers
  <2>2. CASE InstalledInit(First)
    <3>1. /\ meta = [NewMetadata EXCEPT !.published = TRUE, !.cfg = First]
          /\ tree = "full" /\ pgdata = "ready" /\ current = First
          /\ cont = [s \in Services |-> IF s \in First.on THEN Container(First, s) ELSE None]
          /\ site = First.route
      BY <2>2 DEF InstalledInit
    <3>2. /\ meta \in Records /\ meta.published = TRUE /\ meta.cfg = First
          /\ meta.keys = [n \in Keys |-> None]
      BY <3>1, NewMetadataTyped, ConstantFacts DEF Records
    <3>3. First \in Configs /\ First # NoConfig /\ meta # None
      BY <3>2, ConstantFacts, NoConfigFacts
    <3>4. Published(meta) /\ Old(meta) = First /\ \A n \in Keys : Key(meta, n) = None
      BY <3>2, <3>3 DEF Published, Old, Key
    <3>5. /\ cont \in [Services -> Containers]
          /\ \A s \in Services : cont[s] # None => s \in First.on /\ cont[s].set = First.set[s]
      <4>1. \A s \in Services : Container(First, s) \in Containers /\ Container(First, s).set = First.set[s]
        BY <3>3, ContainerTyped
      <4> QED
        BY <3>1, <4>1 DEF Containers
    <3>6. Rest(meta, current, site, pgdata, cont)
      BY <3>1, <3>2, <3>4, <3>5 DEF Rest, Pointer, Data, Belong
    <3>7. site \in Routes \cup {None}
      BY <3>1, <3>3, RouteTyped
    <3> QED
      BY <3>1, <3>2, <3>3, <3>4, <3>5, <3>6, <3>7 DEF Trees, DataStates
  <2> QED
    BY <2>1, <2>2 DEF InstallInit
<1>3. RtTyped
  <2>1. call \in [Callers -> Call \cup {None}]
    BY <1>1
  <2>2. faults \in 0..MaxFaults
    BY <1>1, ConstantFacts
  <2>3. disturbed \in BOOLEAN
    BY <1>1, Zenon
  <2> QED
    BY <1>2, <2>1, <2>2, <2>3 DEF RtTyped
<1>4. MgrTyped
  BY <1>1, ConstantFacts DEF MgrTyped
<1>5. \A c \in Callers : op[c] = None /\ call[c] = None /\ ~InLock(call[c]) /\ holder # c
  BY <1>1, ConstantFacts DEF InLock
<1>6. Locked
  BY <1>1, <1>5 DEF Locked
<1>7. BaseInv
  BY <1>2, <1>3, <1>4, <1>5, <1>6 DEF BaseInv, Fits
<1>8. KeysInv
  BY <1>2, <1>5 DEF KeysInv, Sent
<1>9. Calm
  BY <1>2, <1>5 DEF Calm, Running, Aims
<1> QED
  BY <1>7, <1>8, <1>9 DEF InstallInv, CalmInv

LEMMA InstallStepInv ==
    ASSUME InstallInv, [InstallNext]_installVars
    PROVE  InstallInv'
<1>1. BaseInv /\ KeysInv /\ CalmInv
  BY DEF InstallInv
<1>2. CASE UNCHANGED installVars
  <2>1. /\ meta' = meta /\ tree' = tree /\ pgdata' = pgdata /\ current' = current /\ cont' = cont
        /\ site' = site /\ call' = call /\ holder' = holder /\ faults' = faults /\ disturbed' = disturbed
        /\ project' = project /\ desired' = desired /\ op' = op /\ requests' = requests
    BY <1>2 DEF installVars, rtVars, managerVars
  <2>2. BaseInv'
    BY <1>1, <2>1 DEF BaseInv, RtTyped, MgrTyped, Locked
  <2>3. KeysInv'
    BY <1>1, <2>1 DEF KeysInv
  <2>4. CalmInv'
    BY <1>1, <2>1 DEF CalmInv, Calm, Idle, Running
  <2> QED
    BY <2>2, <2>3, <2>4 DEF InstallInv
<1>3. CASE InstallNext
  <2>1. ASSUME NEW c \in Callers, NEW kind \in OpKinds, NEW cfg \in Configs \cup {None}, Ask(c, kind, cfg)
        PROVE  Keeps
    BY <1>1, <2>1, AskKeeps
  <2>2. ASSUME NEW c \in Callers, Manager(c)
        PROVE  Keeps
    BY <1>1, <2>2, ManagerKeeps
  <2>3. ASSUME NEW c \in Callers, Provisioner(c), UNCHANGED managerVars
        PROVE  Keeps
    BY <1>1, <2>3, ReconcileKeeps, LifecycleKeeps DEF Provisioner
  <2>4. Keeps => InstallInv'
    BY <1>1 DEF Keeps, InstallInv
  <2>5. CASE Crash /\ UNCHANGED managerVars
    BY <1>1, <2>4, <2>5, CrashKeeps
  <2>6. CASE \E c \in Callers, kind \in OpKinds, cfg \in Configs \cup {None} : Ask(c, kind, cfg)
    BY <2>1, <2>4, <2>6
  <2>7. CASE \E c \in Callers : Manager(c)
    BY <2>2, <2>4, <2>7
  <2>8. CASE \E c \in Callers : Provisioner(c) /\ UNCHANGED managerVars
    BY <2>3, <2>4, <2>8
  <2> QED
    BY <1>2, <1>3, <2>5, <2>6, <2>7, <2>8 DEF InstallNext
<1> QED
  BY <1>2, <1>3

LEMMA InstallInvHolds == InstallSpec => []InstallInv
BY InstallInitInv, InstallStepInv, PTL DEF InstallSpec

\* Every variable of a server keeps its type, the metadata lock is held by
\* exactly the Reconcile that is on its way, and a goroutine that ended has no
\* call left at the Provisioner (runtime/reconcile.go, install/orchestrator.go).
THEOREM InstallTyped == InstallSpec => []InstallTypeOK
<1>1. InstallInv => InstallTypeOK
  <2> SUFFICES ASSUME InstallInv PROVE InstallTypeOK
    OBVIOUS
  <2>1. RtTyped /\ MgrTyped /\ Locked /\ \A c \in Callers : Fits(op[c], call[c])
    BY DEF InstallInv, BaseInv
  <2>2. holder # None <=> \E c \in Callers : Active(c) /\ call[c].kind = "RECONCILE" /\ call[c].at # "begin"
    BY <2>1, ConstantFacts DEF Locked, InLock, Active
  <2>3. RuntimeTypeOK
    BY <2>1, <2>2 DEF RtTyped, RuntimeTypeOK
  <2>4. \A c \in Callers : ~Running(c) => call[c] = None
    BY <2>1 DEF Fits, Running
  <2> QED
    BY <2>1, <2>3, <2>4 DEF MgrTyped, InstallTypeOK
<1> QED
  BY <1>1, InstallInvHolds, PTL

\* Whatever runs at once, fails or is interrupted, a server that project.json
\* publishes has its complete directory (projectfs/root.go 136 and 276).
THEOREM PublishedStaysWhole == InstallSpec => []PublishedIsWhole
<1>1. InstallInv => PublishedIsWhole
  BY DEF InstallInv, BaseInv, PublishedIsWhole, Published
<1> QED
  BY <1>1, InstallInvHolds, PTL

\* Between the requests of an administrator who waits for each to end, the
\* pointer, the containers, the site and the database are what project.json
\* publishes, after a rollback (reconcile.go 105 to 187) as after a success,
\* and what an installation or an apply has published is canonical.
THEOREM RuntimeStaysAgreed == InstallSpec => []RuntimeAgrees
<1>1. ASSUME InstallInv, Idle, ~disturbed
      PROVE  /\ IF Metadata.published
                THEN /\ current = meta.cfg /\ site = meta.cfg.route
                     /\ \A s \in Services : cont[s] # None => s \in meta.cfg.on /\ cont[s].set = meta.cfg.set[s]
                ELSE /\ current = None /\ site = None /\ pgdata = "empty"
                     /\ \A s \in Services : cont[s] = None
             /\ \A c \in Callers :
                   op[c] # None /\ op[c].kind \in {"INSTALL", "APPLY"} /\ op[c].step = "SUCCEEDED" /\ op[c].key = requests
                   => Metadata.cfg = desired
  <2>1. RtTyped /\ Calm
    BY <1>1 DEF InstallInv, CalmInv, BaseInv
  <2>2. Rest(meta, current, site, pgdata, cont)
    BY <1>1, <2>1 DEF Calm
  <2>3. /\ Metadata.cfg = Old(meta) /\ (Metadata.published <=> Published(meta))
        /\ Published(meta) => Old(meta) = meta.cfg
        /\ ~Published(meta) => Old(meta) = NoConfig
    BY <2>1, MetadataFacts
  <2>4. CASE Published(meta)
    BY <2>1, <2>2, <2>3, <2>4 DEF Rest, Pointer, Belong, Calm, Aims
  <2>5. CASE ~Published(meta)
    <3>1. \A s \in Services : cont[s] = None
      BY <2>2, <2>3, <2>5, NoConfigFacts DEF Rest, Belong
    <3> QED
      BY <2>1, <2>2, <2>3, <2>5, <3>1, NoConfigFacts DEF Rest, Pointer, Data, Calm, Aims
  <2> QED
    BY <2>4, <2>5
<1>2. InstallInv => RuntimeAgrees
  BY <1>1 DEF RuntimeAgrees
<1> QED
  BY <1>2, InstallInvHolds, PTL

\* A container other than the database's has a database that is complete.
LEMMA RestReady ==
    ASSUME RtTyped, Within(Old(meta).on, cont), pgdata = Data(meta), NEW s \in Services, cont[s] # None
    PROVE  pgdata = "ready"
<1>1. Published(meta)
  BY MetadataFacts, NoConfigFacts DEF Within
<1> QED
  BY <1>1 DEF Data

LEMMA WhereReady ==
    ASSUME RtTyped, NEW k, Where(k, meta, current, site, pgdata, cont), k # None => k.clean,
           NEW s \in Services \ {Database}, cont[s] # None
    PROVE  pgdata = "ready"
<1>1. CASE Rest(meta, current, site, pgdata, cont)
  <2>1. Within(Old(meta).on, cont) /\ pgdata = Data(meta)
    BY <1>1 DEF Rest, Belong, Within
  <2> QED
    BY <2>1, RestReady
<1>2. CASE k # None /\ k.kind = "RECONCILE"
  <2>1. Reconciling(k, meta, current, site, pgdata, cont) /\ k.clean
    BY <1>2 DEF Where
  <2>2. CASE k.at \in {"begin", "stage", "commit", "fail", "answered"}
    BY <1>1, <2>1, <2>2 DEF Reconciling
  <2>3. CASE k.at \in {"retire", "down", "wipe", "seed", "database"}
    <3>1. pgdata = Data(meta) /\ Belong(Old(meta), cont)
      BY <2>1, <2>3 DEF Reconciling
    <3>2. Within(Old(meta).on, cont)
      BY <3>1 DEF Belong, Within
    <3> QED
      BY <3>1, <3>2, RestReady
  <2>4. CASE k.at = "verify"
    BY <2>1, <2>4 DEF Reconciling, Within
  <2>5. CASE k.at \in {"dependents", "recreate", "added", "health", "proxy", "publish"}
    BY <2>1, <2>5 DEF Reconciling
  <2>6. CASE k.at = "u.clean"
    BY <2>1, <2>6 DEF Reconciling, Within
  <2>7. CASE k.at \in {"u.wipe", "u.seed"}
    BY <2>1, <2>7 DEF Reconciling, Within
  <2>8. CASE k.at \in {"u.restore", "u.recreate"}
    <3>1. pgdata = Data(meta) /\ Within(Old(meta).on, cont)
      BY <2>1, <2>8 DEF Reconciling
    <3> QED
      BY <3>1, RestReady
  <2>9. CASE k.at \in {"u.health", "u.proxy"}
    <3>1. pgdata = Data(meta) /\ Belong(Old(meta), cont)
      BY <2>1, <2>9 DEF Reconciling
    <3>2. Within(Old(meta).on, cont)
      BY <3>1 DEF Belong, Within
    <3> QED
      BY <3>1, <3>2, RestReady
  <2>10. k.at \in {"begin", "stage", "commit", "fail", "answered"} \cup Onward \cup Backward
    BY <2>1 DEF Reconciling
  <2> QED
    BY <2>2, <2>3, <2>4, <2>5, <2>6, <2>7, <2>8, <2>9, <2>10 DEF Onward, Backward
<1>3. CASE k = None
  BY <1>1, <1>3 DEF Where
<1>4. CASE k # None /\ k.kind # "RECONCILE"
  <2>1. CASE k.kind = "DELETE_DATA" /\ k.at = "purge"
    BY <1>4, <2>1 DEF Where, Within
  <2>2. CASE ~(k.kind = "DELETE_DATA" /\ k.at = "purge")
    BY <1>1, <1>4, <2>2 DEF Where
  <2> QED
    BY <2>1, <2>2
<1> QED
  BY <1>2, <1>3, <1>4

\* No service but the database runs as long as the database is not complete
\* (compose/runner.go 63; reconcile.go 206 to 232): not in the middle of an
\* installation, an apply, a start or a rollback whose steps succeed.
THEOREM BootstrapStaysFirst == InstallSpec => []BootstrapFirst
<1>1. ASSUME InstallInv, ~disturbed, \A c \in Callers : call[c] # None => call[c].clean,
             NEW s \in Services \ {Database}, Healthy({s})
      PROVE  pgdata = "ready"
  <2>1. RtTyped /\ Calm
    BY <1>1 DEF InstallInv, CalmInv, BaseInv
  <2>2. cont[s] # None
    BY <1>1 DEF Healthy
  <2>3. CASE Idle
    <3>1. Where(None, meta, current, site, pgdata, cont)
      BY <2>1, <2>3 DEF Calm, Where
    <3> QED
      BY <2>1, <2>2, <3>1, WhereReady
  <2>4. CASE ~Idle
    <3>1. PICK c \in Callers : Running(c)
      BY <2>4 DEF Idle
    <3>2. Where(call[c], meta, current, site, pgdata, cont)
      BY <2>1, <3>1 DEF Calm
    <3> QED
      BY <1>1, <2>1, <2>2, <3>2, WhereReady
  <2> QED
    BY <2>3, <2>4
<1>2. InstallInv => BootstrapFirst
  BY <1>1 DEF BootstrapFirst
<1> QED
  BY <1>2, InstallInvHolds, PTL

-----------------------------------------------------------------------------
(* The database of a published server.                                     *)

LEMMA UpDatabaseKeepsData ==
    ASSUME NEW c \in Callers, NEW next, NEW failed, UpDatabase(c, next, failed), pgdata = "ready"
    PROVE  pgdata' = "ready"
BY DEF UpDatabase, Initialised

LEMMA ReconcileKeepsData ==
    ASSUME BaseInv, NEW c \in Callers, Reconcile(c), Published(meta), pgdata = "ready"
    PROVE  pgdata' = "ready"
<1>1. CASE ResetInitialDatabase(c)
  <2>1. PICK at \in {"wipe", "u.wipe"} : Rec(c, at)
    BY <1>1 DEF ResetInitialDatabase
  <2>2. call[c].at = at /\ Sound(call[c], meta, tree, current)
    BY <2>1, RecFacts
  <2> QED
    BY <2>2 DEF Sound, FirstSteps
<1>2. CASE BootstrapDatabase(c)
  BY <1>2, UpDatabaseKeepsData DEF BootstrapDatabase
<1>3. CASE \/ BeginReconcile(c) \/ RemoveDisabled(c) \/ BootstrapDown(c) \/ BootstrapVerify(c)
           \/ BootstrapDependents(c) \/ RecreateAffected(c) \/ UpAdded(c) \/ waitHealthy(c) \/ ApplyProxy(c)
  BY <1>3 DEF BeginReconcile, RemoveDisabled, BootstrapDown, BootstrapVerify, BootstrapDependents,
              RecreateAffected, UpAdded, waitHealthy, ApplyProxy, files
<1>4. CASE \/ CleanCandidate(c) \/ RecreatePrevious(c) \/ PreviousHealthy(c) \/ RestoreProxy(c)
  BY <1>4 DEF CleanCandidate, RecreatePrevious, PreviousHealthy, RestoreProxy, files
<1>5. CASE \/ StageRuntimeFilesWithRef(c) \/ SeedDatabase(c) \/ ReseedDatabase(c) \/ Publish(c) \/ FailReconcile(c)
  BY <1>5 DEF StageRuntimeFilesWithRef, SeedDatabase, ReseedDatabase, Publish, FailReconcile, runtime
<1>6. CASE CommitPointer(c) \/ RestorePointer(c)
  BY <1>6 DEF CommitPointer, RestorePointer
<1> QED
  BY <1>1, <1>2, <1>3, <1>4, <1>5, <1>6 DEF Reconcile

LEMMA LifecycleKeepsData ==
    ASSUME NEW c \in Callers, Lifecycle(c), pgdata = "ready"
    PROVE  pgdata' = "ready" \/ meta' = None
<1>1. CASE NoRuntime(c) \/ Stop(c) \/ Restart(c) \/ DeleteRuntime(c)
  BY <1>1 DEF NoRuntime, Stop, Restart, DeleteRuntime, files
<1>2. CASE Start(c)
  BY <1>2, UpDatabaseKeepsData DEF Start, files
<1>3. CASE DeleteData(c)
  BY <1>3 DEF DeleteData, files
<1> QED
  BY <1>1, <1>2, <1>3 DEF Lifecycle

\* Once a server was published, its database survives every reconcile,
\* rollback, life cycle action and restart, whatever else runs at the same
\* time: only DELETE_DATA discards it, with the metadata (reconcile.go 114 and
\* 206, backend.go Lifecycle).
THEOREM DatabaseStaysKept == InstallSpec => DatabaseKept
<1>1. ASSUME BaseInv, [InstallNext]_installVars, Published(meta), pgdata = "ready"
      PROVE  pgdata' = "ready" \/ meta' = None
  <2>1. CASE UNCHANGED installVars
    BY <1>1, <2>1 DEF installVars, rtVars
  <2>2. CASE \E c \in Callers, kind \in OpKinds, cfg \in Configs \cup {None} : Ask(c, kind, cfg)
    BY <1>1, <2>2 DEF Ask, runtime
  <2>3. CASE \E c \in Callers : Manager(c)
    <3>1. PICK c \in Callers : Manager(c)
      BY <2>3
    <3>2. CASE Install(c)
      BY <1>1, <3>2 DEF Install, InstallBegin, InstallPrepare, InstallReconciled, InstallStarted,
                        InstallInspected, InstallRolledBack, InstallRollback, Send, End, runtime, rtVars
    <3>3. CASE CallProvisioner(c) \/ CallFailed(c) \/ CallAgain(c) \/ CallSucceeded(c)
      BY <1>1, <3>3 DEF CallProvisioner, CallFailed, CallAgain, CallSucceeded, Send, End, runtime, rtVars
    <3> QED
      BY <3>1, <3>2, <3>3 DEF Manager
  <2>4. CASE \E c \in Callers : Provisioner(c) /\ UNCHANGED managerVars
    BY <1>1, <2>4, ReconcileKeepsData, LifecycleKeepsData DEF Provisioner
  <2>5. CASE Crash
    BY <1>1, <2>5 DEF Crash, files
  <2> QED
    BY <1>1, <2>1, <2>2, <2>3, <2>4, <2>5 DEF InstallNext
<1>2. InstallInv /\ [InstallNext]_installVars =>
        [meta # None /\ meta.published /\ pgdata = "ready" => pgdata' = "ready" \/ meta' = None]_installVars
  BY <1>1 DEF InstallInv, Published
<1> QED
  BY <1>2, InstallInvHolds, PTL DEF InstallSpec, DatabaseKept
=============================================================================
