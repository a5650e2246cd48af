----------------------- MODULE FunctionReleasesProofs -----------------------
(***************************************************************************)
(* Proofs about FunctionReleases, for any uploads, any number of places    *)
(* for goroutines, any directories that are consistent at first and any    *)
(* bounds on requests and failures.                                        *)
(***************************************************************************)
EXTENDS FunctionReleases, TLAPS

-----------------------------------------------------------------------------
(* Release directories: what each file operation makes of them.            *)

LEMMA NoneFacts ==
    /\ None \notin Archives /\ None \notin Operation /\ None \notin Goroutine
    /\ None \notin Call /\ None \notin Published /\ Foreign \notin Archives
    /\ MaxRequests \in Nat /\ MaxFaults \in Nat
    /\ StartFiles \subseteq FileStates /\ \A f \in StartFiles : Consistent(f)
BY FunctionAssumption

LEMMA FileFields ==
    ASSUME NEW f \in FileStates
    PROVE  /\ f.releases \subseteq Archives
           /\ f.live \in Archives \cup {None, Foreign} /\ f.active \in ShaOrNone
           /\ f.current \in ShaOrNone /\ f.previous \in ShaOrNone
BY DEF FileStates, ShaOrNone

LEMMA SetFiles ==
    ASSUME NEW f \in FileStates
    PROVE  /\ \A x \in SUBSET Archives :
                 /\ [f EXCEPT !.releases = x] \in FileStates /\ [f EXCEPT !.releases = x].releases = x
                 /\ [f EXCEPT !.releases = x].live = f.live /\ [f EXCEPT !.releases = x].active = f.active
                 /\ [f EXCEPT !.releases = x].current = f.current
                 /\ [f EXCEPT !.releases = x].previous = f.previous
           /\ \A x \in Archives \cup {None, Foreign} :
                 /\ [f EXCEPT !.live = x] \in FileStates /\ [f EXCEPT !.live = x].live = x
                 /\ [f EXCEPT !.live = x].releases = f.releases /\ [f EXCEPT !.live = x].active = f.active
                 /\ [f EXCEPT !.live = x].current = f.current
                 /\ [f EXCEPT !.live = x].previous = f.previous
           /\ \A x \in ShaOrNone : [f EXCEPT !.active = x] \in FileStates
BY DEF FileStates, ShaOrNone

LEMMA SwitchedFacts ==
    ASSUME NEW f \in FileStates, NEW sha \in Archives
    PROVE  /\ Switched(f, sha) \in FileStates
           /\ Switched(f, sha).releases = f.releases
           /\ Switched(f, sha).live = sha /\ Switched(f, sha).active = sha
           /\ Switched(f, sha).current = f.current /\ Switched(f, sha).previous = f.previous
BY DEF FileStates, Switched

LEMMA StateFacts ==
    ASSUME NEW f \in FileStates, NEW cur \in ShaOrNone, NEW prev \in ShaOrNone
    PROVE  LET g == writeManagedFunctionState(f, cur, prev) IN
           /\ g \in FileStates /\ g.releases = f.releases /\ g.live = f.live /\ g.active = f.active
           /\ g.current = cur /\ g.previous = prev
BY DEF FileStates, ShaOrNone, writeManagedFunctionState

LEMMA StagedFacts ==
    ASSUME NEW f \in FileStates, NEW sha \in Archives
    PROVE  LET g == Staged(f, sha) IN
           /\ g \in FileStates /\ g.releases = f.releases \cup {sha} /\ g.live = f.live
           /\ g.active = f.active /\ g.current = f.current /\ g.previous = f.previous
BY DEF FileStates, Staged

\* What a switch leaves behind is typed, whether it fails or is cut off.
LEMMA CutsTyped ==
    ASSUME NEW f \in FileStates, NEW sha \in Archives
    PROVE  SwitchFailed(f, sha) \subseteq FileStates /\ SwitchCut(f, sha) \subseteq FileStates
<1>1. Switched(f, sha) \in FileStates
  BY SwitchedFacts
<1>2. [f EXCEPT !.active = sha] \in FileStates
  BY SetFiles DEF ShaOrNone
<1>3. [f EXCEPT !.live = None] \in FileStates /\ [f EXCEPT !.live = sha] \in FileStates
  BY SetFiles
<1> QED
  BY <1>1, <1>2, <1>3 DEF SwitchFailed, SwitchCut

LEMMA UnprunedFacts ==
    ASSUME NEW f \in FileStates, NEW sha \in Archives
    PROVE  LET g == Unpruned(f, sha) IN
           /\ g \in FileStates /\ g.releases = f.releases \cup {sha}
           /\ g.live = sha /\ g.active = sha /\ g.current = sha /\ g.previous = f.current
<1> DEFINE s == Staged(f, sha)
           t == Switched(s, sha)
<1>1. s \in FileStates /\ s.releases = f.releases \cup {sha}
  BY StagedFacts
<1>2. t \in FileStates /\ t.releases = s.releases /\ t.live = sha /\ t.active = sha
  BY <1>1, SwitchedFacts
<1>3. f.current \in ShaOrNone /\ sha \in ShaOrNone
  BY FileFields DEF ShaOrNone
<1> HIDE DEF s, t
<1>4. LET g == writeManagedFunctionState(t, sha, f.current) IN
      /\ g \in FileStates /\ g.releases = t.releases /\ g.live = t.live /\ g.active = t.active
      /\ g.current = sha /\ g.previous = f.current
  BY <1>2, <1>3, StateFacts
<1> QED
  BY <1>1, <1>2, <1>4 DEF Unpruned, s, t

LEMMA ActivateNew ==
    ASSUME NEW f \in FileStates, NEW sha \in Archives, sha \notin f.releases
    PROVE  LET g == ActivateFunctionRelease(f, sha) IN
           /\ g \in FileStates /\ g.releases = (f.releases \cup {sha}) \cap {sha, f.current}
           /\ g.live = sha /\ g.active = sha /\ g.current = sha /\ g.previous = f.current
<1> DEFINE u == Unpruned(f, sha)
           x == u.releases \cap {u.current, u.previous}
<1>1. /\ u \in FileStates /\ u.releases = f.releases \cup {sha}
      /\ u.live = sha /\ u.active = sha /\ u.current = sha /\ u.previous = f.current
  BY UnprunedFacts
<1>2. ActivateFunctionRelease(f, sha) = [u EXCEPT !.releases = x]
  BY DEF ActivateFunctionRelease, pruneFunctionReleases
<1>3. x \in SUBSET Archives
  BY <1>1, FileFields
<1>4. x = (f.releases \cup {sha}) \cap {sha, f.current}
  BY <1>1
<1> HIDE DEF u, x
<1> QED
  BY <1>1, <1>2, <1>3, <1>4, SetFiles

\* A deployment makes its archive current and live; it is the current release
\* already, or the current release becomes the previous one.
LEMMA ActivateFacts ==
    ASSUME NEW f \in FileStates, NEW sha \in Archives, CanActivate(f, sha), Agrees(f)
    PROVE  LET g == ActivateFunctionRelease(f, sha) IN
           /\ g \in FileStates /\ g.current = sha /\ sha \in g.releases
           /\ Agrees(g)
           /\ f.current = sha => g.previous = f.previous /\ g.releases = f.releases
           /\ f.current # sha => g.previous = f.current /\ Retained(g)
<1>1. CASE sha \in f.releases
  <2>1. f.current = sha
    BY <1>1 DEF CanActivate
  <2>2. ActivateFunctionRelease(f, sha) = Switched(f, sha)
    BY <1>1 DEF ActivateFunctionRelease
  <2> QED
    BY <1>1, <2>1, <2>2, SwitchedFacts DEF Agrees
<1>2. CASE sha \notin f.releases
  <2>1. f.current # sha
    BY <1>2, NoneFacts DEF Agrees
  <2>2. f.current # None => f.current \in f.releases
    BY DEF Agrees
  <2> QED
    BY <1>2, <2>1, <2>2, ActivateNew DEF Agrees, Retained
<1> QED
  BY <1>1, <1>2

LEMMA UnprunedConsistent ==
    ASSUME NEW f \in FileStates, NEW sha \in Archives, Agrees(f)
    PROVE  Consistent(Unpruned(f, sha))
<1>1. f.current # None => f.current \in f.releases
  BY DEF Agrees
<1> QED
  BY <1>1, UnprunedFacts DEF Consistent, Agrees, Retained

LEMMA RollbackFacts ==
    ASSUME NEW f \in FileStates, CanRollback(f)
    PROVE  LET g == RollbackFunctionRelease(f) IN
           /\ g \in FileStates /\ g.releases = f.releases
           /\ g.live = f.previous /\ g.active = f.previous
           /\ g.current = f.previous /\ g.previous = f.current
           /\ f.previous \in Archives /\ f.previous \in f.releases
<1> DEFINE t == Switched(f, f.previous)
<1>1. /\ f.previous \in Archives /\ f.previous \in f.releases
      /\ f.current \in ShaOrNone /\ f.previous \in ShaOrNone
  BY FileFields DEF CanRollback, CanSwitch
<1>2. t \in FileStates /\ t.releases = f.releases /\ t.live = f.previous /\ t.active = f.previous
  BY <1>1, SwitchedFacts
<1> HIDE DEF t
<1>3. LET g == writeManagedFunctionState(t, f.previous, f.current) IN
      /\ g \in FileStates /\ g.releases = t.releases /\ g.live = t.live /\ g.active = t.active
      /\ g.current = f.previous /\ g.previous = f.current
  BY <1>1, <1>2, StateFacts
<1> QED
  BY <1>1, <1>2, <1>3 DEF RollbackFunctionRelease, t

LEMMA RollbackConsistent ==
    ASSUME NEW f \in FileStates, CanRollback(f), Agrees(f)
    PROVE  Consistent(RollbackFunctionRelease(f))
<1>1. f.current \in f.releases
  BY DEF Agrees, CanRollback
<1> QED
  BY <1>1, RollbackFacts DEF Consistent, Agrees, Retained

LEMMA RestoreFacts ==
    ASSUME NEW f \in FileStates, NEW act \in Published, CanRestore(f, act)
    PROVE  LET g == RestoreFunctionRelease(f, act) IN
           /\ g \in FileStates /\ g.releases = f.releases
           /\ g.live = act.previous /\ g.active = act.previous
           /\ g.current = act.previous /\ g.previous = act.current
           /\ act.previous \in Archives /\ act.previous \in f.releases
           /\ Agrees(g)
<1> DEFINE t == Switched(f, act.previous)
<1>1. /\ act.previous \in Archives /\ act.previous \in f.releases
      /\ act.current \in ShaOrNone /\ act.previous \in ShaOrNone
  BY FileFields DEF CanRestore, CanSwitch, Published
<1>2. t \in FileStates /\ t.releases = f.releases /\ t.live = act.previous /\ t.active = act.previous
  BY <1>1, SwitchedFacts
<1> HIDE DEF t
<1>3. LET g == writeManagedFunctionState(t, act.previous, act.current) IN
      /\ g \in FileStates /\ g.releases = t.releases /\ g.live = t.live /\ g.active = t.active
      /\ g.current = act.previous /\ g.previous = act.current
  BY <1>1, <1>2, StateFacts
<1> QED
  BY <1>1, <1>2, <1>3 DEF RestoreFunctionRelease, t, Agrees

LEMMA NoFilesFacts ==
    NoFiles \in FileStates /\ Consistent(NoFiles) /\ NoFiles.current = None /\ NoFiles.previous = None
BY NoneFacts DEF NoFiles, FileStates, Consistent, Agrees, Retained

LEMMA DeleteFailedTyped ==
    ASSUME NEW f \in FileStates
    PROVE  DeleteFailed(f) \subseteq FileStates
<1>1. /\ SUBSET f.releases \subseteq SUBSET Archives /\ {f.active, None} \subseteq Archives \cup {None}
      /\ {f.current, None} \subseteq Archives \cup {None} /\ {f.previous, None} \subseteq Archives \cup {None}
  BY FileFields DEF ShaOrNone
<1>2. SUFFICES ASSUME NEW g \in [releases : SUBSET f.releases, live : {None}, active : {f.active, None},
                                 current : {f.current, None}, previous : {f.previous, None}]
               PROVE  g \in FileStates
  BY DEF DeleteFailed
<1> QED
  BY <1>1 DEF FileStates

\* A call has what its next file operation needs.
Needs(c) ==
    /\ c \in Call
    /\ c.kind = "DEPLOY" => c.sha \in Archives
    /\ c.at \in {"restart", "restore", "again"} => c.act \in Published

\* What a file operation that is broken off leaves behind is typed.
LEMMA BrokenTyped ==
    ASSUME files \in FileStates, NEW w \in Workers, Needs(call[w])
    PROVE  Broken(w, SwitchFailed) \subseteq FileStates /\ Broken(w, SwitchCut) \subseteq FileStates
<1> DEFINE c == call[w]
<1>1. CASE c.at = "restore" /\ CanRestore(files, c.act)
  <2>1. c.act.previous \in Archives
    BY <1>1, FileFields DEF CanRestore, CanSwitch
  <2>2. /\ SwitchFailed(files, c.act.previous) \subseteq FileStates
        /\ SwitchCut(files, c.act.previous) \subseteq FileStates
    BY <2>1, CutsTyped
  <2> QED
    BY <1>1, <2>2 DEF Broken
<1>2. CASE c.at = "files" /\ ~Allowed(w)
  <2>1. c.at # "restore"
    BY <1>2
  <2>2. Broken(w, SwitchFailed) = {files} /\ Broken(w, SwitchCut) = {files}
    BY <1>2, <2>1, Zenon DEF Broken
  <2> QED
    BY <2>2
<1>3. CASE c.at = "files" /\ Allowed(w) /\ c.kind = "DEPLOY"
  <2> DEFINE s == Staged(files, c.sha)
  <2>1. c.sha \in Archives
    BY <1>3 DEF Needs
  <2>2. s \in FileStates /\ Unpruned(files, c.sha) \in FileStates
    BY <2>1, StagedFacts, UnprunedFacts
  <2>3. SwitchFailed(s, c.sha) \subseteq FileStates /\ SwitchCut(s, c.sha) \subseteq FileStates
    BY <2>1, <2>2, CutsTyped
  <2> HIDE DEF s
  <2>4. /\ Broken(w, SwitchFailed) \subseteq {files, s} \cup SwitchFailed(s, c.sha) \cup {Unpruned(files, c.sha)}
        /\ Broken(w, SwitchCut) \subseteq {files, s} \cup SwitchCut(s, c.sha) \cup {Unpruned(files, c.sha)}
    BY <1>3 DEF Broken, s
  <2> QED
    BY <2>2, <2>3, <2>4
<1>4. CASE c.at = "files" /\ Allowed(w) /\ c.kind = "ROLLBACK"
  <2>1. CanRollback(files)
    BY <1>4 DEF Allowed
  <2>2. files.previous \in Archives /\ RollbackFunctionRelease(files) \in FileStates
    BY <2>1, RollbackFacts
  <2>3. SwitchFailed(files, files.previous) \subseteq FileStates /\ SwitchCut(files, files.previous) \subseteq FileStates
    BY <2>2, CutsTyped
  <2>4. /\ Broken(w, SwitchFailed) = SwitchFailed(files, files.previous) \cup {RollbackFunctionRelease(files)}
        /\ Broken(w, SwitchCut) = SwitchCut(files, files.previous) \cup {RollbackFunctionRelease(files)}
    BY <1>4 DEF Broken
  <2> QED
    BY <2>2, <2>3, <2>4
<1>5. CASE c.at = "files" /\ Allowed(w) /\ c.kind = "DELETE"
  BY <1>5, DeleteFailedTyped DEF Broken
<1>6. CASE c.at \notin {"files", "restore"} \/ (c.at = "restore" /\ ~CanRestore(files, c.act))
  BY <1>6 DEF Broken
<1>7. c.kind \in {"DEPLOY", "ROLLBACK", "DELETE"}
  BY DEF Needs, Call, Kinds
<1> QED
  BY <1>1, <1>2, <1>3, <1>4, <1>5, <1>6, <1>7

-----------------------------------------------------------------------------
(* Calls at the Provisioner, and how a call's step changes them.           *)

\* The call is the same one, further on.
Keeps(c, d) == d.op = c.op /\ d.kind = c.kind /\ d.sha = c.sha /\ d.alive = c.alive

LEMMA CallMoves ==
    ASSUME NEW c \in Call, NEW at \in {"files", "restart", "restore", "again", "answered"}
    PROVE  LET d == [c EXCEPT !.at = at] IN
           d \in Call /\ Keeps(c, d) /\ d.at = at /\ d.act = c.act
<1> DEFINE d == [c EXCEPT !.at = at]
<1>1. d \in Call
  BY DEF Call
<1>2. d.op = c.op /\ d.kind = c.kind /\ d.sha = c.sha /\ d.alive = c.alive /\ d.at = at /\ d.act = c.act
  BY DEF Call
<1> QED
  BY <1>1, <1>2 DEF Keeps

LEMMA CallRestarts ==
    ASSUME NEW c \in Call, NEW act \in Published
    PROVE  LET d == [c EXCEPT !.at = "restart", !.act = act] IN
           d \in Call /\ Keeps(c, d) /\ d.at = "restart" /\ d.act = act
<1> DEFINE d == [c EXCEPT !.at = "restart", !.act = act]
<1>1. d \in Call
  BY DEF Call
<1>2. /\ d.op = c.op /\ d.kind = c.kind /\ d.sha = c.sha /\ d.alive = c.alive
      /\ d.at = "restart" /\ d.act = act
  BY DEF Call
<1> QED
  BY <1>1, <1>2 DEF Keeps

LEMMA CallAnswers ==
    ASSUME NEW c \in Call, NEW answer \in {"ok", "rolledback", "error"}
    PROVE  LET d == [c EXCEPT !.at = "answered", !.answer = answer] IN
           d \in Call /\ Keeps(c, d) /\ d.at = "answered" /\ d.answer = answer
<1> DEFINE d == [c EXCEPT !.at = "answered", !.answer = answer]
<1>1. d \in Call
  BY DEF Call
<1>2. /\ d.op = c.op /\ d.kind = c.kind /\ d.sha = c.sha /\ d.alive = c.alive
      /\ d.at = "answered" /\ d.answer = answer
  BY DEF Call
<1> QED
  BY <1>1, <1>2 DEF Keeps

LEMMA CallDies ==
    ASSUME NEW c \in Call
    PROVE  LET d == [c EXCEPT !.alive = FALSE] IN
           /\ d \in Call /\ d.alive = FALSE /\ d.op = c.op /\ d.kind = c.kind /\ d.sha = c.sha
           /\ d.at = c.at /\ d.act = c.act /\ d.answer = c.answer
BY DEF Call

-----------------------------------------------------------------------------
(* The inductive invariant, whoever drives what.                           *)

\* An operation that was queued is never forgotten; a deployment has an
\* archive to publish.
OpsRecorded ==
    \A i \in 1..MaxRequests :
        /\ i > requests => op[i] = None
        /\ op[i] # None /\ op[i].kind = "DEPLOY" => op[i].sha \in Archives

\* A call is its operation's, and a goroutine has one only while it waits for
\* it; what the Provisioner is about to restore was published by the call.
Matched(w) ==
    /\ work[w] # None => op[work[w].op] # None
    /\ call[w] # None =>
         /\ op[call[w].op] # None
         /\ call[w].kind = op[call[w].op].kind /\ call[w].sha = op[call[w].op].sha
         /\ work[w] # None => work[w].at = "wait" /\ work[w].op = call[w].op
         /\ call[w].at \in {"restart", "restore", "again"} => call[w].act # None
         /\ call[w].at \in {"restore", "again"} => call[w].kind = "DEPLOY"
    /\ On(w, {"wait"}) <=> (call[w] # None /\ call[w].alive)

\* A live directory that changed since the container started is about to be
\* loaded.
RestartPending ==
    ~torn /\ loaded # Unknown /\ loaded # files.live =>
        \E w \in Workers : call[w] # None /\ call[w].at \in {"restart", "again"}

FnInv ==
    /\ FnTypeOK /\ OpsRecorded /\ \A w \in Workers : Matched(w)
    /\ RestartPending
    /\ ~torn => Agrees(files)

\* What a step of one place leaves alone: the other goroutines, the other
\* calls, and what the operations are.
OnlyWork(w) == work' = [work EXCEPT ![w] = work'[w]]
OnlyCall(w) == call' = [call EXCEPT ![w] = call'[w]]
SameOp(o, p) ==
    /\ p # None /\ p.kind = o.kind /\ p.sha = o.sha
    /\ p.current = o.current /\ p.previous = o.previous
OpsKept ==
    /\ op' \in [1..MaxRequests -> {None} \cup Operation]
    /\ \A i \in 1..MaxRequests : op[i] # None => SameOp(op[i], op'[i])

LEMMA TypeFacts ==
    ASSUME FnTypeOK
    PROVE  /\ \A w \in Workers : work[w] # None => work[w] \in Goroutine
           /\ \A w \in Workers : call[w] # None => call[w] \in Call
           /\ \A i \in 1..MaxRequests : op[i] # None => op[i] \in Operation
           /\ DOMAIN op = 1..MaxRequests
BY DEF FnTypeOK

LEMMA MatchedKept ==
    ASSUME FnTypeOK, \A v \in Workers : Matched(v), NEW w \in Workers,
           OnlyWork(w), OnlyCall(w), OpsKept, Matched(w)'
    PROVE  \A v \in Workers : Matched(v)'
<1> SUFFICES ASSUME NEW v \in Workers, v # w
             PROVE  Matched(v)'
  OBVIOUS
<1>1. work'[v] = work[v] /\ call'[v] = call[v]
  BY DEF OnlyWork, OnlyCall, FnTypeOK
<1>2. Matched(v)
  OBVIOUS
<1>3. work[v] # None => work[v].op \in 1..MaxRequests
  BY TypeFacts DEF Goroutine
<1>4. call[v] # None => call[v].op \in 1..MaxRequests
  BY TypeFacts DEF Call
<1>5. work[v] # None => op'[work[v].op] # None
  BY <1>2, <1>3 DEF OpsKept, SameOp, Matched
<1>6. call[v] # None => /\ op'[call[v].op] # None
                        /\ op'[call[v].op].kind = op[call[v].op].kind
                        /\ op'[call[v].op].sha = op[call[v].op].sha
  BY <1>2, <1>4 DEF OpsKept, SameOp, Matched
<1> QED
  BY <1>1, <1>2, <1>5, <1>6 DEF Matched, On

\* The place's own goroutine and call are enough for the types.
LEMMA PlacesTyped ==
    ASSUME FnTypeOK, NEW w \in Workers, OnlyWork(w), OnlyCall(w),
           work'[w] \in {None} \cup Goroutine, call'[w] \in {None} \cup Call
    PROVE  work' \in [Workers -> {None} \cup Goroutine] /\ call' \in [Workers -> {None} \cup Call]
BY DEF FnTypeOK, OnlyWork, OnlyCall

LEMMA SameOps ==
    ASSUME FnTypeOK, op' = op
    PROVE  OpsKept
<1>1. \A i \in 1..MaxRequests : op[i] # None => SameOp(op[i], op'[i])
  BY DEF SameOp
<1> QED
  BY <1>1 DEF OpsKept, FnTypeOK

LEMMA CountFaults ==
    ASSUME FnTypeOK, Fault \/ NoFault
    PROVE  faults' \in 0..MaxFaults
<1>1. MaxFaults \in Nat /\ faults \in 0..MaxFaults
  BY NoneFacts DEF FnTypeOK
<1> QED
  BY <1>1 DEF Fault, NoFault

LEMMA CallNeeds ==
    ASSUME FnInv, NEW w \in Workers, call[w] # None
    PROVE  /\ Needs(call[w]) /\ call[w].op \in 1..MaxRequests
           /\ call[w].alive \in BOOLEAN /\ call[w].kind \in Kinds
<1>1. call[w] \in Call /\ Matched(w) /\ OpsRecorded
  BY TypeFacts DEF FnInv
<1>2. call[w].op \in 1..MaxRequests /\ call[w].act \in {None} \cup Published
  BY <1>1 DEF Call
<1>3. call[w].alive \in BOOLEAN
  BY <1>1 DEF Call
<1>4. call[w].kind \in Kinds
  BY <1>1 DEF Call
<1>5. call[w].kind = "DEPLOY" => call[w].sha \in Archives
  BY <1>1, <1>2 DEF Matched, OpsRecorded
<1> QED
  BY <1>1, <1>2, <1>3, <1>4, <1>5 DEF Needs, Matched

-----------------------------------------------------------------------------
(* The Provisioner's steps.                                                *)

LEMMA GotoStep ==
    ASSUME FnTypeOK, NEW w \in Workers, call[w] # None,
           NEW at \in {"files", "restart", "restore", "again", "answered"}, Goto(w, at)
    PROVE  /\ OnlyCall(w) /\ call'[w] \in Call /\ Keeps(call[w], call'[w])
           /\ call'[w].at = at /\ call'[w].act = call[w].act
<1>1. call[w] \in Call
  BY TypeFacts
<1> DEFINE d == [call[w] EXCEPT !.at = at]
<1>2. d \in Call /\ Keeps(call[w], d) /\ d.at = at /\ d.act = call[w].act
  BY <1>1, CallMoves
<1>3. call' = [call EXCEPT ![w] = d]
  BY DEF Goto
<1> HIDE DEF d
<1>4. call'[w] = d
  BY <1>3 DEF FnTypeOK
<1> QED
  BY <1>2, <1>3, <1>4 DEF OnlyCall

LEMMA AnswerStep ==
    ASSUME FnTypeOK, NEW w \in Workers, call[w] # None,
           NEW answer \in {"ok", "rolledback", "error"}, Answer(w, answer)
    PROVE  /\ OnlyCall(w)
           /\ call[w].alive => /\ call'[w] \in Call /\ Keeps(call[w], call'[w])
                               /\ call'[w].at = "answered" /\ call'[w].answer = answer
           /\ ~call[w].alive => call'[w] = None
<1>1. call[w] \in Call
  BY TypeFacts
<1> DEFINE d == [call[w] EXCEPT !.at = "answered", !.answer = answer]
           e == IF call[w].alive THEN d ELSE None
<1>2. d \in Call /\ Keeps(call[w], d) /\ d.at = "answered" /\ d.answer = answer
  BY <1>1, CallAnswers
<1>3. call' = [call EXCEPT ![w] = e]
  BY DEF Answer
<1> HIDE DEF d
<1>4. call'[w] = e
  BY <1>3 DEF FnTypeOK
<1> QED
  BY <1>2, <1>3, <1>4 DEF OnlyCall

\* Going on, with what it needs, or answering: all that a step of a call does.
Progresses(w) ==
    /\ OnlyCall(w)
    /\ \/ /\ call'[w] \in Call /\ Keeps(call[w], call'[w])
          /\ call'[w].at \in {"restart", "restore", "again"} => call'[w].act # None
          /\ call'[w].at \in {"restore", "again"} => call[w].kind = "DEPLOY"
       \/ call'[w] = None /\ ~call[w].alive

LEMMA AnswerProgresses ==
    ASSUME FnInv, NEW w \in Workers, call[w] # None,
           NEW answer \in {"ok", "rolledback", "error"}, Answer(w, answer)
    PROVE  Progresses(w)
<1>1. FnTypeOK /\ call[w].alive \in BOOLEAN
  BY CallNeeds DEF FnInv
<1> QED
  BY <1>1, AnswerStep DEF Progresses

\* A call that progresses still matches its operation and its goroutine.
LEMMA ProgressMatches ==
    ASSUME FnInv, NEW w \in Workers, call[w] # None, Progresses(w), UNCHANGED managed,
           files' \in FileStates, loaded' \in Archives \cup {None, Foreign, Unknown},
           torn' \in BOOLEAN, Fault \/ NoFault
    PROVE  FnTypeOK' /\ OpsRecorded' /\ \A v \in Workers : Matched(v)'
<1>1. op' = op /\ work' = work /\ spool' = spool /\ requests' = requests /\ shared' = shared
  BY DEF managed
<1>2. FnTypeOK /\ OpsRecorded /\ Matched(w) /\ \A v \in Workers : Matched(v)
  BY DEF FnInv
<1>3. OnlyWork(w) /\ OnlyCall(w) /\ OpsKept
  BY <1>1, <1>2, SameOps DEF OnlyWork, Progresses, FnTypeOK
<1>4. call'[w] \in {None} \cup Call /\ work'[w] \in {None} \cup Goroutine
  BY <1>1, <1>2 DEF Progresses, FnTypeOK
<1>5. work' \in [Workers -> {None} \cup Goroutine] /\ call' \in [Workers -> {None} \cup Call]
  BY <1>2, <1>3, <1>4, PlacesTyped
<1>6. Matched(w)'
  <2>1. CASE call'[w] = None /\ ~call[w].alive
    BY <1>1, <1>2, <2>1 DEF Matched, On
  <2>2. CASE /\ call'[w] \in Call /\ Keeps(call[w], call'[w])
             /\ call'[w].at \in {"restart", "restore", "again"} => call'[w].act # None
             /\ call'[w].at \in {"restore", "again"} => call[w].kind = "DEPLOY"
    <3>1. call'[w] # None
      BY <2>2, NoneFacts
    <3> QED
      BY <1>1, <1>2, <2>2, <3>1 DEF Matched, On, Keeps
  <2> QED
    BY <2>1, <2>2 DEF Progresses
<1>7. \A v \in Workers : Matched(v)'
  BY <1>2, <1>3, <1>6, MatchedKept
<1>8. faults' \in 0..MaxFaults
  BY <1>2, CountFaults
<1>9. \A v \in Workers : On(v, {"wait"})' <=> (call'[v] # None /\ call'[v].alive)
  BY <1>7 DEF Matched
<1>10. OpsRecorded'
  BY <1>1, <1>2 DEF OpsRecorded
<1> QED
  BY <1>1, <1>2, <1>5, <1>7, <1>8, <1>9, <1>10 DEF FnTypeOK

\* What the file operations leave, as the directories and as the history.
LEMMA ReplaceStep ==
    ASSUME NEW f \in FileStates, ~torn => Agrees(f), Replace(f), torn \in BOOLEAN
    PROVE  /\ files' = f /\ torn' \in BOOLEAN /\ (~torn' => Agrees(files'))
           /\ (~torn' => ~torn \/ Consistent(f))
<1>1. torn' \in BOOLEAN
  BY Zenon DEF Replace
<1>2. ~torn' => ~torn \/ Consistent(f)
  BY DEF Replace
<1>3. files' = f
  BY DEF Replace
<1>4. ~torn' => Agrees(f)
  BY <1>2, Zenon DEF Consistent
<1> QED
  BY <1>1, <1>2, <1>3, <1>4

LEMMA BreakStep ==
    ASSUME NEW F, F \subseteq FileStates, Break(F), torn \in BOOLEAN
    PROVE  files' \in FileStates /\ torn' \in BOOLEAN /\ (~torn' => ~torn /\ files' = files)
<1>1. torn' \in BOOLEAN
  BY Zenon DEF Break
<1> QED
  BY <1>1 DEF Break

LEMMA ResultFacts ==
    ASSUME files \in FileStates, NEW w \in Workers, Needs(call[w]), Allowed(w)
    PROVE  Result(w) \in FileStates /\ (Agrees(files) => Agrees(Result(w)))
<1> DEFINE c == call[w]
           after == Result(w)
<1>1. CASE c.kind = "DEPLOY"
  <2>1. CanActivate(files, c.sha) /\ after = ActivateFunctionRelease(files, c.sha) /\ c.sha \in Archives
    BY <1>1 DEF Allowed, Result, Needs
  <2>2. after \in FileStates
    <3>1. CASE c.sha \in files.releases
      BY <2>1, <3>1, SwitchedFacts DEF ActivateFunctionRelease
    <3>2. CASE c.sha \notin files.releases
      BY <2>1, <3>2, ActivateNew
    <3> QED
      BY <3>1, <3>2
  <2>3. Agrees(files) => Agrees(after)
    BY <2>1, ActivateFacts
  <2> QED
    BY <2>2, <2>3
<1>2. CASE c.kind = "ROLLBACK"
  <2>1. CanRollback(files) /\ after = RollbackFunctionRelease(files)
    BY <1>2 DEF Allowed, Result
  <2> QED
    BY <2>1, RollbackFacts, RollbackConsistent DEF Consistent
<1>3. CASE c.kind = "DELETE"
  <2>1. after = NoFiles
    BY <1>3 DEF Result
  <2> QED
    BY <2>1, NoFilesFacts DEF Consistent
<1>4. c.kind \in {"DEPLOY", "ROLLBACK", "DELETE"}
  BY DEF Needs, Call, Kinds
<1> QED
  BY <1>1, <1>2, <1>3, <1>4

\* Deploy, Rollback and Delete go on to the restart with what they published,
\* or answer with an error and leave what they found, unless it is torn.
LEMMA FileOperationStep ==
    ASSUME FnInv, NEW w \in Workers, FileOperation(w)
    PROVE  /\ call[w] # None /\ call[w].at = "files" /\ Progresses(w)
           /\ files' \in FileStates /\ torn' \in BOOLEAN /\ (~torn' => Agrees(files'))
           /\ \/ call'[w] # None /\ call'[w].at = "restart"
              \/ ~torn' => ~torn /\ files' = files
<1> DEFINE c == call[w]
           after == Result(w)
           act == [current |-> after.current, previous |-> after.previous]
<1>1. c # None /\ c.at = "files"
  BY DEF FileOperation, At
<1>2. /\ c \in Call /\ Needs(c) /\ files \in FileStates /\ FnTypeOK /\ torn \in BOOLEAN
      /\ ~torn => Agrees(files)
  BY <1>1, CallNeeds, TypeFacts DEF FnInv, FnTypeOK
<1>3. \/ /\ Allowed(w) /\ call' = [call EXCEPT ![w].at = "restart", ![w].act = act]
         /\ \/ Replace(after)
            \/ c.kind = "DEPLOY" /\ Replace(Unpruned(files, c.sha))
      \/ Answer(w, "error") /\ UNCHANGED <<files, torn>>
      \/ Answer(w, "error") /\ Break(Broken(w, SwitchFailed))
  BY DEF FileOperation
<1>4. CASE /\ Allowed(w) /\ call' = [call EXCEPT ![w].at = "restart", ![w].act = act]
           /\ \/ Replace(after)
              \/ c.kind = "DEPLOY" /\ Replace(Unpruned(files, c.sha))
  <2>1. after \in FileStates /\ (~torn => Agrees(after))
    BY <1>2, <1>4, ResultFacts
  <2>2. act \in Published
    BY <2>1, FileFields DEF Published
  <2> DEFINE d == [c EXCEPT !.at = "restart", !.act = act]
  <2>3. d \in Call /\ Keeps(c, d) /\ d.at = "restart" /\ d.act = act
    BY <1>2, <2>2, CallRestarts
  <2>4. call' = [call EXCEPT ![w] = d]
    BY <1>4
  <2> HIDE DEF d
  <2>5. call'[w] = d /\ OnlyCall(w)
    BY <1>2, <2>4 DEF FnTypeOK, OnlyCall
  <2>6. Progresses(w) /\ call'[w] # None /\ call'[w].at = "restart"
    BY <2>2, <2>3, <2>5, NoneFacts DEF Progresses
  <2>7. files' \in FileStates /\ torn' \in BOOLEAN /\ (~torn' => Agrees(files'))
    <3>1. CASE Replace(after)
      BY <1>2, <2>1, <3>1, ReplaceStep
    <3>2. CASE c.kind = "DEPLOY" /\ Replace(Unpruned(files, c.sha))
      <4>1. Unpruned(files, c.sha) \in FileStates
        BY <1>2, <3>2, UnprunedFacts DEF Needs
      <4>2. ~torn => Agrees(Unpruned(files, c.sha))
        BY <1>2, <3>2, UnprunedConsistent DEF Needs, Consistent
      <4> QED
        BY <1>2, <3>2, <4>1, <4>2, ReplaceStep
    <3> QED
      BY <1>4, <3>1, <3>2
  <2> QED
    BY <1>1, <2>6, <2>7
<1>5. CASE Answer(w, "error") /\ UNCHANGED <<files, torn>>
  BY <1>1, <1>2, <1>5, AnswerProgresses
<1>6. CASE Answer(w, "error") /\ Break(Broken(w, SwitchFailed))
  <2>1. Broken(w, SwitchFailed) \subseteq FileStates
    BY <1>2, BrokenTyped
  <2>2. files' \in FileStates /\ torn' \in BOOLEAN /\ (~torn' => ~torn /\ files' = files)
    BY <1>2, <1>6, <2>1, BreakStep
  <2> QED
    BY <1>1, <1>2, <1>6, <2>2, AnswerProgresses
<1> QED
  BY <1>3, <1>4, <1>5, <1>6

\* What the file operations share: a step of a call whose directories agree,
\* and whose change is loaded or is about to be, keeps the invariant.
LEMMA FileStepKeeps ==
    ASSUME FnInv, NEW w \in Workers, call[w] # None, Progresses(w),
           call[w].at \notin {"restart", "again"},
           files' \in FileStates, torn' \in BOOLEAN, ~torn' => Agrees(files'),
           \/ call'[w] # None /\ call'[w].at \in {"restart", "again"}
           \/ ~torn' => ~torn /\ files' = files,
           UNCHANGED <<loaded, managed>>, Fault \/ NoFault
    PROVE  FnInv'
<1>1. loaded' = loaded /\ UNCHANGED managed
  BY Zenon
<1>2. loaded' \in Archives \cup {None, Foreign, Unknown}
  BY <1>1 DEF FnInv, FnTypeOK
<1>3. FnTypeOK' /\ OpsRecorded' /\ \A v \in Workers : Matched(v)'
  BY <1>1, <1>2, ProgressMatches
<1>4. RestartPending'
  <2>1. CASE call'[w] # None /\ call'[w].at \in {"restart", "again"}
    BY <2>1 DEF RestartPending
  <2>2. CASE ~torn' => ~torn /\ files' = files
    <3>1. SUFFICES ASSUME ~torn', loaded' # Unknown, loaded' # files'.live
                   PROVE  \E v \in Workers : call'[v] # None /\ call'[v].at \in {"restart", "again"}
      BY DEF RestartPending
    <3>2. PICK v \in Workers : call[v] # None /\ call[v].at \in {"restart", "again"}
      BY <1>1, <2>2, <3>1 DEF FnInv, RestartPending
    <3>3. call'[v] = call[v]
      BY <3>2 DEF Progresses, OnlyCall, FnInv, FnTypeOK
    <3> QED
      BY <3>2, <3>3
  <2> QED
    BY <2>1, <2>2
<1> QED
  BY <1>3, <1>4 DEF FnInv

LEMMA FileOperationKeeps ==
    ASSUME FnInv, NEW w \in Workers, FileOperation(w)
    PROVE  FnInv'
<1>1. UNCHANGED <<loaded, managed>> /\ (Fault \/ NoFault)
  BY DEF FileOperation
<1>2. /\ call[w] # None /\ call[w].at = "files" /\ Progresses(w)
      /\ files' \in FileStates /\ torn' \in BOOLEAN /\ (~torn' => Agrees(files'))
      /\ \/ call'[w] # None /\ call'[w].at = "restart"
         \/ ~torn' => ~torn /\ files' = files
  BY FileOperationStep
<1> QED
  BY <1>1, <1>2, FileStepKeeps

LEMMA RestoreKeeps ==
    ASSUME FnInv, NEW w \in Workers, Restore(w)
    PROVE  FnInv'
<1> DEFINE c == call[w]
           after == RestoreFunctionRelease(files, c.act)
<1>1. c # None /\ c.at = "restore" /\ UNCHANGED <<loaded, managed>> /\ (Fault \/ NoFault)
  BY DEF Restore, At
<1>2. /\ c \in Call /\ Needs(c) /\ files \in FileStates /\ FnTypeOK /\ torn \in BOOLEAN
      /\ ~torn => Agrees(files)
  BY <1>1, CallNeeds, TypeFacts DEF FnInv, FnTypeOK
<1>3. \/ CanRestore(files, c.act) /\ Replace(after) /\ Goto(w, "again")
      \/ Answer(w, "error") /\ UNCHANGED <<files, torn>>
      \/ Answer(w, "error") /\ Break(Broken(w, SwitchFailed))
  BY DEF Restore
<1>4. CASE CanRestore(files, c.act) /\ Replace(after) /\ Goto(w, "again")
  <2>1. after \in FileStates /\ Agrees(after)
    BY <1>1, <1>2, <1>4, RestoreFacts DEF Needs
  <2>2. files' \in FileStates /\ torn' \in BOOLEAN /\ (~torn' => Agrees(files'))
    BY <1>2, <1>4, <2>1, ReplaceStep
  <2>3. /\ OnlyCall(w) /\ call'[w] \in Call /\ Keeps(c, call'[w])
        /\ call'[w].at = "again" /\ call'[w].act = c.act
    BY <1>1, <1>2, <1>4, GotoStep
  <2>4. c.act # None /\ c.kind = "DEPLOY"
    BY <1>1 DEF FnInv, Matched
  <2>5. Progresses(w) /\ call'[w] # None
    BY <2>3, <2>4, NoneFacts DEF Progresses
  <2> QED
    BY <1>1, <2>2, <2>3, <2>5, FileStepKeeps
<1>5. CASE Answer(w, "error") /\ UNCHANGED <<files, torn>>
  <2>1. Progresses(w)
    BY <1>1, <1>5, AnswerProgresses
  <2> QED
    BY <1>1, <1>2, <1>5, <2>1, FileStepKeeps
<1>6. CASE Answer(w, "error") /\ Break(Broken(w, SwitchFailed))
  <2>1. Broken(w, SwitchFailed) \subseteq FileStates
    BY <1>2, BrokenTyped
  <2>2. files' \in FileStates /\ torn' \in BOOLEAN /\ (~torn' => ~torn /\ files' = files)
    BY <1>2, <1>6, <2>1, BreakStep
  <2>3. Progresses(w)
    BY <1>1, <1>6, AnswerProgresses
  <2> QED
    BY <1>1, <1>2, <2>2, <2>3, FileStepKeeps
<1> QED
  BY <1>3, <1>4, <1>5, <1>6

\* The container loads what is live, or nobody knows what it loaded.
LEMMA LoadKeeps ==
    ASSUME FnInv, NEW w \in Workers, call[w] # None, Progresses(w),
           RestartOk(w) \/ RestartFails(w), UNCHANGED <<files, torn, managed>>
    PROVE  FnInv'
<1>1. files' = files /\ torn' = torn /\ UNCHANGED managed
  BY Zenon
<1>2. /\ loaded' \in {files.live, Unknown} /\ (Fault \/ NoFault)
      /\ files \in FileStates /\ torn \in BOOLEAN /\ (~torn => Agrees(files))
  BY DEF RestartOk, RestartFails, FnInv, FnTypeOK
<1>3. loaded' \in Archives \cup {None, Foreign, Unknown}
  BY <1>2, FileFields
<1>4. FnTypeOK' /\ OpsRecorded' /\ \A v \in Workers : Matched(v)'
  BY <1>1, <1>2, <1>3, ProgressMatches
<1>5. RestartPending'
  BY <1>1, <1>2 DEF RestartPending
<1> QED
  BY <1>1, <1>2, <1>4, <1>5 DEF FnInv

LEMMA RestartKeeps ==
    ASSUME FnInv, NEW w \in Workers, Restart(w)
    PROVE  FnInv'
<1>1. call[w] # None /\ call[w].at = "restart" /\ UNCHANGED <<files, torn, managed>>
  BY DEF Restart, At
<1>2. \/ RestartOk(w) /\ Answer(w, "ok")
      \/ RestartFails(w) /\ Answer(w, "error")
      \/ RestartFails(w) /\ call[w].kind = "DEPLOY" /\ Goto(w, "restore")
  BY DEF Restart
<1>3. ASSUME Goto(w, "restore"), call[w].kind = "DEPLOY"
      PROVE  Progresses(w)
  <2>1. /\ OnlyCall(w) /\ call'[w] \in Call /\ Keeps(call[w], call'[w])
        /\ call'[w].act = call[w].act
    BY <1>1, <1>3, GotoStep DEF FnInv
  <2>2. call[w].act # None
    BY <1>1 DEF FnInv, Matched
  <2> QED
    BY <1>3, <2>1, <2>2 DEF Progresses
<1>4. Progresses(w)
  BY <1>1, <1>2, <1>3, AnswerProgresses
<1> QED
  BY <1>1, <1>2, <1>4, LoadKeeps

LEMMA RestartAgainKeeps ==
    ASSUME FnInv, NEW w \in Workers, RestartAgain(w)
    PROVE  FnInv'
<1>1. call[w] # None /\ UNCHANGED <<files, torn, managed>>
  BY DEF RestartAgain, At
<1>2. \/ RestartOk(w) /\ Answer(w, "rolledback")
      \/ RestartFails(w) /\ Answer(w, "error")
  BY DEF RestartAgain
<1>3. Progresses(w)
  BY <1>1, <1>2, AnswerProgresses
<1> QED
  BY <1>1, <1>2, <1>3, LoadKeeps

\* A restart, of the Manager or of the Provisioner, may end any call; the
\* calls that go on are the ones there were.
LEMMA CutCallsMatch ==
    ASSUME FnInv, UNCHANGED <<op, spool, requests, shared>>,
           work' \in [Workers -> {None} \cup Goroutine], call' \in [Workers -> {None} \cup Call],
           NEW w \in Workers, work'[w] \in {work[w], None},
           \/ call'[w] = None \/ call'[w] = call[w]
           \/ call[w] # None /\ Keeps(call[w], call'[w]) /\ call'[w].at = "answered"
           \/ /\ call[w] # None /\ call'[w].op = call[w].op /\ call'[w].kind = call[w].kind
              /\ call'[w].sha = call[w].sha /\ call'[w].at = call[w].at /\ call'[w].act = call[w].act,
           On(w, {"wait"})' <=> (call'[w] # None /\ call'[w].alive)
    PROVE  Matched(w)'
<1>1. Matched(w) /\ op' = op
  BY DEF FnInv
<1>2. CASE call'[w] = None
  BY <1>1, <1>2 DEF Matched
<1>3. CASE call'[w] # None
  BY <1>1, <1>3 DEF Matched, Keeps
<1> QED
  BY <1>2, <1>3

LEMMA ProvisionerRestartKeeps ==
    ASSUME FnInv, ProvisionerRestart
    PROVE  FnInv'
<1>1. /\ FnTypeOK /\ files \in FileStates /\ torn \in BOOLEAN /\ (~torn => Agrees(files))
      /\ UNCHANGED managed /\ Fault
  BY Zenon DEF FnInv, FnTypeOK, ProvisionerRestart
<1>2. op' = op /\ spool' = spool /\ work' = work /\ requests' = requests /\ shared' = shared
  BY <1>1 DEF managed
<1>3. files' \in FileStates /\ torn' \in BOOLEAN /\ (~torn' => ~torn /\ files' = files)
  <2>1. PICK w \in Workers : Active(w) /\ Break(Broken(w, SwitchCut))
    BY Zenon DEF ProvisionerRestart
  <2>2. Broken(w, SwitchCut) \subseteq FileStates
    BY <1>1, <2>1, CallNeeds, BrokenTyped DEF Active
  <2> QED
    BY <1>1, <2>1, <2>2, BreakStep
<1>4. \A w \in Workers :
        \/ call'[w] = call[w] /\ (call[w] = None \/ call[w].at = "answered")
        \/ call[w] # None /\ call[w].alive /\ call'[w] \in Call /\ Keeps(call[w], call'[w])
             /\ call'[w].at = "answered" /\ call'[w].answer = "error"
        \/ call[w] # None /\ ~call[w].alive /\ call'[w] = None
  <2> TAKE w \in Workers
  <2>1. call'[w] = CASE ~Active(w) -> call[w]
                     [] Active(w) /\ call[w].alive -> [call[w] EXCEPT !.at = "answered", !.answer = "error"]
                     [] OTHER -> None
    BY Zenon DEF ProvisionerRestart
  <2>2. CASE ~Active(w)
    BY <2>1, <2>2 DEF Active
  <2>3. CASE Active(w) /\ ~call[w].alive
    BY <2>1, <2>3 DEF Active
  <2>4. CASE Active(w) /\ call[w].alive
    <3> DEFINE d == [call[w] EXCEPT !.at = "answered", !.answer = "error"]
    <3>1. call[w] # None /\ call[w] \in Call
      BY <1>1, <2>4, TypeFacts DEF Active
    <3>2. d \in Call /\ Keeps(call[w], d) /\ d.at = "answered" /\ d.answer = "error"
      BY <3>1, CallAnswers
    <3>3. call'[w] = d
      BY <2>1, <2>4 DEF Active
    <3> HIDE DEF d
    <3> QED
      BY <2>4, <3>1, <3>2, <3>3
  <2> QED
    BY <2>2, <2>3, <2>4
<1>5. call' \in [Workers -> {None} \cup Call]
  <2>1. \A w \in Workers : call'[w] \in {None} \cup Call
    BY <1>1, <1>4, TypeFacts
  <2>2. DOMAIN call' = Workers /\ call' = [w \in Workers |-> call'[w]]
    BY DEF ProvisionerRestart
  <2> QED
    BY <2>1, <2>2
<1>6. \A w \in Workers : On(w, {"wait"})' <=> (call'[w] # None /\ call'[w].alive)
  <2> TAKE w \in Workers
  <2>1. On(w, {"wait"}) <=> (call[w] # None /\ call[w].alive)
    BY <1>1 DEF FnTypeOK
  <2>2. On(w, {"wait"})' <=> On(w, {"wait"})
    BY <1>2 DEF On
  <2> QED
    BY <1>4, <2>1, <2>2, NoneFacts DEF Keeps
<1>7. \A w \in Workers : Matched(w)'
  BY <1>1, <1>2, <1>4, <1>5, <1>6, CutCallsMatch DEF FnTypeOK
<1>8. loaded' \in {loaded, Unknown}
  BY DEF ProvisionerRestart
<1>9. FnTypeOK'
  BY <1>1, <1>2, <1>3, <1>5, <1>6, <1>8, CountFaults DEF FnTypeOK
<1>10. RestartPending'
  <2>1. SUFFICES ASSUME ~torn', loaded' # Unknown, loaded' # files'.live
                 PROVE  FALSE
    BY DEF RestartPending
  <2>2. loaded' = loaded
    BY <1>8, <2>1
  <2>3. PICK v \in Workers : call[v] # None /\ call[v].at \in {"restart", "again"}
    BY <1>3, <2>1, <2>2 DEF FnInv, RestartPending
  <2>4. \E w \in Workers : Active(w) /\ call[w].at # "files"
    BY <2>3 DEF Active
  <2> QED
    BY <2>1, <2>4 DEF ProvisionerRestart
<1>11. OpsRecorded'
  BY <1>2 DEF FnInv, OpsRecorded
<1> QED
  BY <1>1, <1>3, <1>7, <1>9, <1>10, <1>11 DEF FnInv

LEMMA ManagerRestartCalls ==
    ASSUME FnInv, ManagerRestart
    PROVE  /\ work' = [w \in Workers |-> None] /\ call' \in [Workers -> {None} \cup Call]
           /\ \A w \in Workers :
                IF Active(w)
                THEN /\ call'[w] \in Call /\ call'[w].op = call[w].op /\ call'[w].kind = call[w].kind
                     /\ call'[w].sha = call[w].sha /\ call'[w].at = call[w].at
                     /\ call'[w].act = call[w].act /\ call'[w].alive = FALSE
                ELSE call'[w] = None
<1>1. work' = [w \in Workers |-> None]
  BY DEF ManagerRestart
<1>2. call' = [w \in Workers |-> IF Active(w) THEN [call[w] EXCEPT !.alive = FALSE] ELSE None]
  BY DEF ManagerRestart
<1>3. \A w \in Workers : Active(w) => call[w] \in Call
  BY TypeFacts DEF Active, FnInv
<1>4. \A w \in Workers :
        IF Active(w)
        THEN /\ call'[w] \in Call /\ call'[w].op = call[w].op /\ call'[w].kind = call[w].kind
             /\ call'[w].sha = call[w].sha /\ call'[w].at = call[w].at
             /\ call'[w].act = call[w].act /\ call'[w].alive = FALSE
        ELSE call'[w] = None
  <2> TAKE w \in Workers
  <2>1. CASE Active(w)
    <3> DEFINE d == [call[w] EXCEPT !.alive = FALSE]
    <3>1. /\ d \in Call /\ d.alive = FALSE /\ d.op = call[w].op /\ d.kind = call[w].kind
          /\ d.sha = call[w].sha /\ d.at = call[w].at /\ d.act = call[w].act
      BY <1>3, <2>1, CallDies
    <3>2. call'[w] = d
      BY <1>2, <2>1
    <3> HIDE DEF d
    <3> QED
      BY <2>1, <3>1, <3>2
  <2>2. CASE ~Active(w)
    BY <1>2, <2>2
  <2> QED
    BY <2>1, <2>2
<1>5. call' \in [Workers -> {None} \cup Call]
  <2>1. \A w \in Workers : call'[w] \in {None} \cup Call
    BY <1>4
  <2> QED
    BY <1>2, <2>1
<1> QED
  BY <1>1, <1>4, <1>5

LEMMA ManagerRestartKeeps ==
    ASSUME FnInv, ManagerRestart
    PROVE  FnInv'
<1>1. /\ FnTypeOK /\ files \in FileStates /\ torn \in BOOLEAN /\ (~torn => Agrees(files))
      /\ UNCHANGED <<provisioned, op, spool, requests, shared>> /\ Fault
  BY Zenon DEF FnInv, FnTypeOK, ManagerRestart
<1>2. /\ op' = op /\ spool' = spool /\ requests' = requests /\ shared' = shared
      /\ files' = files /\ loaded' = loaded /\ torn' = torn
  BY <1>1 DEF provisioned
<1>3. /\ work' = [w \in Workers |-> None] /\ call' \in [Workers -> {None} \cup Call]
      /\ \A w \in Workers :
           IF Active(w)
           THEN /\ call'[w] \in Call /\ call'[w].op = call[w].op /\ call'[w].kind = call[w].kind
                /\ call'[w].sha = call[w].sha /\ call'[w].at = call[w].at
                /\ call'[w].act = call[w].act /\ call'[w].alive = FALSE
           ELSE call'[w] = None
  BY ManagerRestartCalls
<1>4. work' \in [Workers -> {None} \cup Goroutine] /\ \A w \in Workers : work'[w] = None
  BY <1>3
<1>5. \A w \in Workers : On(w, {"wait"})' <=> (call'[w] # None /\ call'[w].alive)
  BY <1>3, <1>4 DEF On
<1>6. ASSUME NEW w \in Workers
      PROVE  Matched(w)'
  <2>1. \/ call'[w] = None
        \/ /\ call[w] # None /\ call'[w].op = call[w].op /\ call'[w].kind = call[w].kind
           /\ call'[w].sha = call[w].sha /\ call'[w].at = call[w].at /\ call'[w].act = call[w].act
    BY <1>3 DEF Active
  <2> QED
    BY <1>2, <1>3, <1>4, <1>5, <2>1, CutCallsMatch
<1>7. FnTypeOK'
  BY <1>1, <1>2, <1>3, <1>4, <1>5, CountFaults DEF FnTypeOK
<1>8. RestartPending'
  <2>1. SUFFICES ASSUME ~torn', loaded' # Unknown, loaded' # files'.live
                 PROVE  \E v \in Workers : call'[v] # None /\ call'[v].at \in {"restart", "again"}
    BY DEF RestartPending
  <2>2. PICK v \in Workers : call[v] # None /\ call[v].at \in {"restart", "again"}
    BY <1>2, <2>1 DEF FnInv, RestartPending
  <2>3. Active(v)
    BY <2>2 DEF Active
  <2> QED
    BY <1>3, <2>2, <2>3, NoneFacts
<1>9. OpsRecorded'
  BY <1>2 DEF FnInv, OpsRecorded
<1> QED
  BY <1>1, <1>2, <1>6, <1>7, <1>8, <1>9 DEF FnInv

-----------------------------------------------------------------------------
(* The Manager's goroutines.                                               *)

LEMMA GoroutineMoves ==
    ASSUME NEW r \in Goroutine, NEW at \in Changes \cup {"call", "wait", "end"}
    PROVE  IF at = "end" THEN Moved(r, at) = None
           ELSE /\ Moved(r, at) \in Goroutine /\ Moved(r, at).at = at /\ Moved(r, at).checked = FALSE
                /\ Moved(r, at).op = r.op /\ Moved(r, at).rolled = r.rolled
<1>1. CASE at = "end"
  BY <1>1 DEF Moved
<1>2. CASE at # "end"
  <2> DEFINE d == [r EXCEPT !.at = at, !.checked = FALSE]
  <2>1. d \in Goroutine
    BY <1>2 DEF Goroutine
  <2>2. d.at = at /\ d.checked = FALSE /\ d.op = r.op /\ d.rolled = r.rolled
    BY DEF Goroutine
  <2>3. Moved(r, at) = d
    BY <1>2 DEF Moved
  <2> QED
    BY <1>2, <2>1, <2>2, <2>3
<1> QED
  BY <1>1, <1>2

LEMMA GoroutineChecks ==
    ASSUME NEW r \in Goroutine
    PROVE  LET d == [r EXCEPT !.checked = TRUE] IN
           d \in Goroutine /\ d.at = r.at /\ d.checked = TRUE /\ d.op = r.op /\ d.rolled = r.rolled
BY DEF Goroutine

LEMMA GoroutineCalls ==
    ASSUME NEW r \in Goroutine, NEW at \in {"fail", "wait"}
    PROVE  LET d == [r EXCEPT !.at = at] IN
           d \in Goroutine /\ d.at = at /\ d.checked = r.checked /\ d.op = r.op /\ d.rolled = r.rolled
BY DEF Goroutine, Changes

LEMMA GoroutineReturns ==
    ASSUME NEW r \in Goroutine, NEW at \in {"complete", "fail"}, NEW rolled \in BOOLEAN
    PROVE  LET d == [r EXCEPT !.at = at, !.rolled = rolled] IN
           d \in Goroutine /\ d.at = at /\ d.checked = r.checked /\ d.op = r.op /\ d.rolled = rolled
<1> DEFINE d == [r EXCEPT !.at = at, !.rolled = rolled]
<1>1. d \in Goroutine
  BY DEF Goroutine, Changes
<1>2. d.at = at /\ d.checked = r.checked /\ d.op = r.op /\ d.rolled = rolled
  BY DEF Goroutine
<1> QED
  BY <1>1, <1>2

LEMMA NextTyped ==
    \A r \in Goroutine :
        /\ r.at \in Changes => Refused(r.at) \in Changes \cup {"call", "end"}
        /\ r.at \in Changes => Done(r) \in Changes \cup {"call", "end"}
        /\ Makes(r.at) \in Statuses
<1> SUFFICES ASSUME NEW r \in Goroutine
             PROVE  /\ r.at \in Changes => Refused(r.at) \in Changes \cup {"call", "end"}
                    /\ r.at \in Changes => Done(r) \in Changes \cup {"call", "end"}
                    /\ Makes(r.at) \in Statuses
  OBVIOUS
<1>1. Refused(r.at) \in Changes \cup {"call", "end"}
  BY DEF Refused, Changes
<1>2. Done(r) \in Changes \cup {"call", "end"}
  BY DEF Done, Changes
<1>3. Makes(r.at) \in Statuses
  BY DEF Makes, Statuses
<1> QED
  BY <1>1, <1>2, <1>3

LEMMA OpMoves ==
    ASSUME NEW o \in Operation
    PROVE  /\ \A s \in Statuses : LET p == [o EXCEPT !.status = s] IN
                p \in Operation /\ SameOp(o, p) /\ p.status = s /\ p.again = o.again
           /\ \A b \in BOOLEAN : LET p == [o EXCEPT !.again = b] IN
                p \in Operation /\ SameOp(o, p) /\ p.status = o.status /\ p.again = b
<1>1. ASSUME NEW s \in Statuses
      PROVE  LET p == [o EXCEPT !.status = s] IN
             p \in Operation /\ SameOp(o, p) /\ p.status = s /\ p.again = o.again
  <2> DEFINE p == [o EXCEPT !.status = s]
  <2>1. p \in Operation
    BY DEF Operation
  <2>2. /\ p.kind = o.kind /\ p.sha = o.sha /\ p.current = o.current /\ p.previous = o.previous
        /\ p.status = s /\ p.again = o.again
    BY DEF Operation
  <2> HIDE DEF p
  <2> QED
    BY <2>1, <2>2, NoneFacts DEF SameOp, p
<1>2. ASSUME NEW b \in BOOLEAN
      PROVE  LET p == [o EXCEPT !.again = b] IN
             p \in Operation /\ SameOp(o, p) /\ p.status = o.status /\ p.again = b
  <2> DEFINE p == [o EXCEPT !.again = b]
  <2>1. p \in Operation
    BY DEF Operation
  <2>2. /\ p.kind = o.kind /\ p.sha = o.sha /\ p.current = o.current /\ p.previous = o.previous
        /\ p.status = o.status /\ p.again = b
    BY DEF Operation
  <2> HIDE DEF p
  <2> QED
    BY <2>1, <2>2, NoneFacts DEF SameOp, p
<1> QED
  BY <1>1, <1>2

\* Only a waiting goroutine has a call.
LEMMA WorkFacts ==
    ASSUME FnInv, NEW w \in Workers, work[w] # None
    PROVE  /\ work[w] \in Goroutine /\ work[w].op \in 1..MaxRequests
           /\ work[w].checked \in BOOLEAN /\ work[w].rolled \in BOOLEAN
           /\ op[work[w].op] # None /\ op[work[w].op] \in Operation
           /\ work[w].at # "wait" => call[w] = None
           /\ work[w].at = "wait" => call[w] # None /\ call[w].alive /\ call[w].op = work[w].op
<1>1. work[w] \in Goroutine /\ Matched(w)
  BY TypeFacts DEF FnInv
<1>2. work[w].op \in 1..MaxRequests
  BY <1>1 DEF Goroutine
<1>3. work[w].checked \in BOOLEAN /\ work[w].rolled \in BOOLEAN
  BY <1>1, Zenon DEF Goroutine
<1>4. op[work[w].op] # None
  BY <1>1 DEF Matched
<1>5. op[work[w].op] \in Operation
  BY <1>2, <1>4, TypeFacts DEF FnInv
<1>6. work[w].at # "wait" => call[w] = None
  BY <1>1 DEF Matched
<1>7. work[w].at = "wait" => call[w] # None /\ call[w].alive /\ call[w].op = work[w].op
  BY <1>1 DEF Matched, On
<1> QED
  BY <1>1, <1>2, <1>3, <1>4, <1>5, <1>6, <1>7

LEMMA PlaceKeeps ==
    ASSUME FnInv, NEW w \in Workers, OnlyWork(w), OnlyCall(w), OpsKept, Matched(w)',
           work'[w] \in {None} \cup Goroutine, call'[w] \in {None} \cup Call,
           OpsRecorded', requests' \in 0..MaxRequests, spool' \subseteq 1..MaxRequests,
           shared' \in BOOLEAN, UNCHANGED <<provisioned, faults>>,
           call[w] # None => call[w].at = "answered"
    PROVE  FnInv'
<1>1. files' = files /\ loaded' = loaded /\ torn' = torn /\ faults' = faults
  BY DEF provisioned
<1>2. FnTypeOK /\ \A v \in Workers : Matched(v)
  BY DEF FnInv
<1>3. work' \in [Workers -> {None} \cup Goroutine] /\ call' \in [Workers -> {None} \cup Call]
  BY <1>2, PlacesTyped
<1>4. \A v \in Workers : Matched(v)'
  BY <1>2, MatchedKept
<1>5. \A v \in Workers : On(v, {"wait"})' <=> (call'[v] # None /\ call'[v].alive)
  BY <1>4 DEF Matched
<1>6. op' \in [1..MaxRequests -> {None} \cup Operation]
  BY DEF OpsKept
<1>7. FnTypeOK'
  BY <1>1, <1>2, <1>3, <1>5, <1>6 DEF FnTypeOK
<1>8. RestartPending'
  <2>1. SUFFICES ASSUME ~torn', loaded' # Unknown, loaded' # files'.live
                 PROVE  \E v \in Workers : call'[v] # None /\ call'[v].at \in {"restart", "again"}
    BY DEF RestartPending
  <2>2. PICK v \in Workers : call[v] # None /\ call[v].at \in {"restart", "again"}
    BY <1>1, <2>1 DEF FnInv, RestartPending
  <2>3. call'[v] = call[v]
    BY <1>2, <2>2 DEF OnlyCall, FnTypeOK
  <2> QED
    BY <2>2, <2>3
<1> QED
  BY <1>1, <1>4, <1>7, <1>8 DEF FnInv

\* A step of a goroutine, which changes at most its own operation.
LEMMA RunKeeps ==
    ASSUME FnInv, NEW w \in Workers, OnlyWork(w), OnlyCall(w), OpsKept, Matched(w)',
           \A i \in 1..MaxRequests : op[i] = None => op'[i] = None,
           work'[w] \in {None} \cup Goroutine, call'[w] \in {None} \cup Call,
           spool' \subseteq spool, UNCHANGED <<provisioned, requests, faults, shared>>,
           call[w] # None => call[w].at = "answered"
    PROVE  FnInv'
<1>1. FnTypeOK /\ requests' = requests /\ shared' = shared /\ UNCHANGED <<provisioned, faults>>
  BY DEF FnInv
<1>2. requests' \in 0..MaxRequests /\ shared' \in BOOLEAN /\ spool' \subseteq 1..MaxRequests
  BY <1>1 DEF FnTypeOK
<1>3. OpsRecorded'
  BY <1>1 DEF FnInv, OpsRecorded, OpsKept, SameOp
<1> QED
  BY <1>1, <1>2, <1>3, PlaceKeeps

LEMMA requireStatusStep ==
    ASSUME FnInv, NEW w \in Workers, requireStatus(w)
    PROVE  LET r == work[w] IN
           /\ r # None /\ r.at \in Changes /\ ~r.checked
           /\ OnlyWork(w) /\ UNCHANGED <<provisioned, call, op, spool, requests, faults, shared>>
           /\ \/ /\ op[r.op].status = Requires(r.at) /\ work'[w] \in Goroutine
                 /\ work'[w].at = r.at /\ work'[w].checked = TRUE
                 /\ work'[w].op = r.op /\ work'[w].rolled = r.rolled
              \/ /\ op[r.op].status # Requires(r.at) /\ Refused(r.at) = "end" /\ work'[w] = None
              \/ /\ op[r.op].status # Requires(r.at) /\ Refused(r.at) \in Changes \cup {"call"}
                 /\ work'[w] \in Goroutine /\ work'[w].at = Refused(r.at) /\ work'[w].checked = FALSE
                 /\ work'[w].op = r.op /\ work'[w].rolled = r.rolled
<1> DEFINE r == work[w]
<1>1. /\ r # None /\ r.at \in Changes /\ ~r.checked
      /\ UNCHANGED <<provisioned, call, op, spool, requests, faults, shared>>
  BY DEF requireStatus, On
<1>2. r \in Goroutine /\ work \in [Workers -> {None} \cup Goroutine]
  BY <1>1, WorkFacts DEF FnInv, FnTypeOK
<1> DEFINE c == [r EXCEPT !.checked = TRUE]
           m == Moved(r, Refused(r.at))
           d == IF op[r.op].status = Requires(r.at) THEN c ELSE m
<1>3. c \in Goroutine /\ c.at = r.at /\ c.checked = TRUE /\ c.op = r.op /\ c.rolled = r.rolled
  BY <1>2, GoroutineChecks
<1>4. Refused(r.at) \in Changes \cup {"call", "end"}
  BY <1>1, <1>2, NextTyped
<1>5. IF Refused(r.at) = "end" THEN m = None
      ELSE m \in Goroutine /\ m.at = Refused(r.at) /\ m.checked = FALSE /\ m.op = r.op /\ m.rolled = r.rolled
  BY <1>2, <1>4, GoroutineMoves
<1>6. work' = [work EXCEPT ![w] = d]
  BY DEF requireStatus
<1>7. work'[w] = d /\ OnlyWork(w)
  BY <1>2, <1>6 DEF OnlyWork
<1> HIDE DEF c, m
<1> QED
  BY <1>1, <1>3, <1>4, <1>5, <1>7

LEMMA requireStatusKeeps ==
    ASSUME FnInv, NEW w \in Workers, requireStatus(w)
    PROVE  FnInv'
<1> DEFINE r == work[w]
<1>1. /\ r # None /\ r.at \in Changes
      /\ OnlyWork(w) /\ UNCHANGED <<provisioned, call, op, spool, requests, faults, shared>>
      /\ \/ work'[w] = None
         \/ work'[w] \in Goroutine /\ work'[w].at \in Changes \cup {"call"} /\ work'[w].op = r.op
  BY requireStatusStep
<1>2. call[w] = None /\ op[r.op] # None /\ FnTypeOK
  BY <1>1, WorkFacts DEF FnInv, Changes
<1>3. call' = call /\ op' = op /\ spool' = spool /\ UNCHANGED <<provisioned, requests, faults, shared>>
  BY <1>1
<1>4. OnlyCall(w) /\ call'[w] = None
  BY <1>2, <1>3 DEF OnlyCall, FnTypeOK
<1>5. OpsKept
  BY <1>2, <1>3, SameOps
<1>6. Matched(w)'
  <2>1. work'[w] # None => work'[w].at # "wait" /\ op'[work'[w].op] # None
    BY <1>1, <1>2, <1>3 DEF Changes
  <2> QED
    BY <1>4, <2>1 DEF Matched, On
<1> QED
  BY <1>1, <1>2, <1>3, <1>4, <1>5, <1>6, RunKeeps

LEMMA updateStep ==
    ASSUME FnInv, NEW w \in Workers, update(w)
    PROVE  LET r == work[w] IN
           /\ r # None /\ r.at \in Changes /\ r.checked
           /\ OnlyWork(w) /\ UNCHANGED <<provisioned, call, spool, requests, faults, shared>>
           /\ OpsKept /\ op'[r.op].status = Makes(r.at) /\ op'[r.op].again = op[r.op].again
           /\ \A i \in 1..MaxRequests : i # r.op => op'[i] = op[i]
           /\ \/ Done(r) = "end" /\ work'[w] = None
              \/ /\ Done(r) \in Changes \cup {"call"}
                 /\ work'[w] \in Goroutine /\ work'[w].at = Done(r) /\ work'[w].checked = FALSE
                 /\ work'[w].op = r.op /\ work'[w].rolled = r.rolled
<1> DEFINE r == work[w]
           o == op[r.op]
<1>1. /\ r # None /\ r.at \in Changes /\ r.checked
      /\ UNCHANGED <<provisioned, call, spool, requests, faults, shared>>
  BY DEF update, On
<1>2. /\ r \in Goroutine /\ work \in [Workers -> {None} \cup Goroutine] /\ r.op \in 1..MaxRequests
      /\ o \in Operation /\ op \in [1..MaxRequests -> {None} \cup Operation] /\ FnTypeOK
  BY <1>1, WorkFacts DEF FnInv, FnTypeOK
<1> DEFINE m == Moved(r, Done(r))
           p == [o EXCEPT !.status = Makes(r.at)]
<1>3. Done(r) \in Changes \cup {"call", "end"} /\ Makes(r.at) \in Statuses
  BY <1>1, <1>2, NextTyped
<1>4. p \in Operation /\ SameOp(o, p) /\ p.status = Makes(r.at) /\ p.again = o.again
  BY <1>2, <1>3, OpMoves
<1>5. IF Done(r) = "end" THEN m = None
      ELSE m \in Goroutine /\ m.at = Done(r) /\ m.checked = FALSE /\ m.op = r.op /\ m.rolled = r.rolled
  BY <1>2, <1>3, GoroutineMoves
<1>6. work' = [work EXCEPT ![w] = m] /\ op' = [op EXCEPT ![r.op] = p]
  BY DEF update
<1> HIDE DEF m, p
<1>7. work'[w] = m /\ OnlyWork(w)
  BY <1>2, <1>6 DEF OnlyWork
<1>8. /\ op'[r.op] = p /\ \A i \in 1..MaxRequests : i # r.op => op'[i] = op[i]
      /\ op' \in [1..MaxRequests -> {None} \cup Operation]
  BY <1>2, <1>4, <1>6
<1>9. \A i \in 1..MaxRequests : op[i] # None => SameOp(op[i], op'[i])
  BY <1>4, <1>8 DEF SameOp
<1> QED
  BY <1>1, <1>3, <1>4, <1>5, <1>7, <1>8, <1>9 DEF OpsKept

LEMMA updateKeeps ==
    ASSUME FnInv, NEW w \in Workers, update(w)
    PROVE  FnInv'
<1> DEFINE r == work[w]
<1>1. /\ r # None /\ r.at \in Changes
      /\ OnlyWork(w) /\ UNCHANGED <<provisioned, call, spool, requests, faults, shared>>
      /\ OpsKept /\ \A i \in 1..MaxRequests : i # r.op => op'[i] = op[i]
      /\ \/ work'[w] = None
         \/ work'[w] \in Goroutine /\ work'[w].at \in Changes \cup {"call"} /\ work'[w].op = r.op
  BY updateStep
<1>2. call[w] = None /\ op[r.op] # None /\ FnTypeOK /\ r.op \in 1..MaxRequests
  BY <1>1, WorkFacts DEF FnInv, Changes
<1>3. call' = call /\ spool' = spool /\ UNCHANGED <<provisioned, requests, faults, shared>>
  BY <1>1
<1>4. OnlyCall(w) /\ call'[w] = None
  BY <1>2, <1>3 DEF OnlyCall, FnTypeOK
<1>5. Matched(w)'
  <2>1. work'[w] # None => work'[w].at # "wait" /\ op'[work'[w].op] # None
    BY <1>1, <1>2 DEF Changes, OpsKept, SameOp
  <2> QED
    BY <1>4, <2>1 DEF Matched, On
<1>6. \A i \in 1..MaxRequests : op[i] = None => op'[i] = None
  BY <1>1, <1>2
<1> QED
  BY <1>1, <1>2, <1>3, <1>4, <1>5, <1>6, RunKeeps

LEMMA CallProvisionerStep ==
    ASSUME FnInv, NEW w \in Workers, CallProvisioner(w)
    PROVE  LET r == work[w]
               o == op[r.op]
           IN
           /\ r # None /\ r.at = "call" /\ call[w] = None
           /\ OnlyWork(w) /\ OnlyCall(w) /\ UNCHANGED <<provisioned, op, spool, requests, faults, shared>>
           /\ work'[w] \in Goroutine /\ work'[w].op = r.op /\ work'[w].rolled = r.rolled
           /\ work'[w].checked = r.checked
           /\ \/ /\ o.kind = "DEPLOY" /\ r.op \notin spool
                 /\ work'[w].at = "fail" /\ call'[w] = None
              \/ /\ ~(o.kind = "DEPLOY" /\ r.op \notin spool)
                 /\ work'[w].at = "wait" /\ call'[w] \in Call /\ call'[w].op = r.op
                 /\ call'[w].kind = o.kind /\ call'[w].sha = o.sha /\ call'[w].at = "files"
                 /\ call'[w].alive = TRUE
<1> DEFINE r == work[w]
           o == op[r.op]
<1>1. /\ r # None /\ r.at = "call" /\ UNCHANGED <<provisioned, op, spool, requests, faults, shared>>
  BY DEF CallProvisioner, On
<1>2. /\ r \in Goroutine /\ r.op \in 1..MaxRequests /\ o \in Operation /\ call[w] = None
      /\ work \in [Workers -> {None} \cup Goroutine] /\ call \in [Workers -> {None} \cup Call]
  BY <1>1, WorkFacts DEF FnInv, FnTypeOK
<1>3. \A at \in {"fail", "wait"} : LET d == [r EXCEPT !.at = at] IN
        d \in Goroutine /\ d.at = at /\ d.checked = r.checked /\ d.op = r.op /\ d.rolled = r.rolled
  BY <1>2, GoroutineCalls
<1>4. CASE o.kind = "DEPLOY" /\ r.op \notin spool
  <2> DEFINE d == [r EXCEPT !.at = "fail"]
  <2>1. work' = [work EXCEPT ![w] = d] /\ call' = call
    BY <1>4 DEF CallProvisioner
  <2>2. d \in Goroutine /\ d.at = "fail" /\ d.checked = r.checked /\ d.op = r.op /\ d.rolled = r.rolled
    BY <1>3
  <2> HIDE DEF d
  <2>3. work'[w] = d /\ OnlyWork(w) /\ OnlyCall(w) /\ call'[w] = None
    BY <1>2, <2>1 DEF OnlyWork, OnlyCall
  <2> QED
    BY <1>1, <1>2, <1>4, <2>2, <2>3
<1>5. CASE ~(o.kind = "DEPLOY" /\ r.op \notin spool)
  <2> DEFINE d == [r EXCEPT !.at = "wait"]
             c == [op |-> r.op, kind |-> o.kind, sha |-> o.sha,
                   at |-> "files", alive |-> TRUE, act |-> None, answer |-> None]
  <2>1. work' = [work EXCEPT ![w] = d] /\ call' = [call EXCEPT ![w] = c]
    BY <1>5 DEF CallProvisioner
  <2>2. d \in Goroutine /\ d.at = "wait" /\ d.checked = r.checked /\ d.op = r.op /\ d.rolled = r.rolled
    BY <1>3
  <2>3. o.kind \in Kinds /\ o.sha \in ShaOrNone
    BY <1>2 DEF Operation
  <2>4. c \in Call
    BY <1>2, <2>3 DEF Call
  <2>5. /\ c.op = r.op /\ c.kind = o.kind /\ c.sha = o.sha /\ c.at = "files" /\ c.alive = TRUE
    OBVIOUS
  <2> HIDE DEF d, c
  <2>6. work'[w] = d /\ OnlyWork(w) /\ OnlyCall(w) /\ call'[w] = c
    BY <1>2, <2>1 DEF OnlyWork, OnlyCall
  <2> QED
    BY <1>1, <1>2, <1>5, <2>2, <2>4, <2>5, <2>6
<1> QED
  BY <1>4, <1>5

LEMMA CallProvisionerKeeps ==
    ASSUME FnInv, NEW w \in Workers, CallProvisioner(w)
    PROVE  FnInv'
<1> DEFINE r == work[w]
           o == op[r.op]
<1>1. /\ r # None /\ r.at = "call" /\ call[w] = None
      /\ OnlyWork(w) /\ OnlyCall(w) /\ UNCHANGED <<provisioned, op, spool, requests, faults, shared>>
      /\ work'[w] \in Goroutine /\ work'[w].op = r.op
      /\ \/ work'[w].at = "fail" /\ call'[w] = None
         \/ /\ work'[w].at = "wait" /\ call'[w] \in Call /\ call'[w].op = r.op
            /\ call'[w].kind = o.kind /\ call'[w].sha = o.sha /\ call'[w].at = "files"
            /\ call'[w].alive = TRUE
  BY CallProvisionerStep
<1>2. o # None /\ FnTypeOK /\ op' = op /\ spool' = spool /\ UNCHANGED <<provisioned, requests, faults, shared>>
  BY <1>1, WorkFacts DEF FnInv
<1>3. OpsKept
  BY <1>2, SameOps
<1>4. Matched(w)'
  BY <1>1, <1>2, NoneFacts DEF Matched, On
<1> QED
  BY <1>1, <1>2, <1>3, <1>4, RunKeeps

LEMMA CallReturnedStep ==
    ASSUME FnInv, NEW w \in Workers, CallReturned(w)
    PROVE  LET r == work[w] IN
           /\ r # None /\ r.at = "wait" /\ call[w] # None /\ call[w].at = "answered"
           /\ OnlyWork(w) /\ OnlyCall(w) /\ call'[w] = None /\ spool' = spool \ {r.op}
           /\ UNCHANGED <<provisioned, op, requests, faults, shared>>
           /\ work'[w] \in Goroutine /\ work'[w].op = r.op /\ work'[w].checked = r.checked
           /\ work'[w].at = (IF call[w].answer = "ok" THEN "complete" ELSE "fail")
           /\ work'[w].rolled = (call[w].answer = "rolledback")
<1> DEFINE r == work[w]
           at == IF call[w].answer = "ok" THEN "complete" ELSE "fail"
           rolled == call[w].answer = "rolledback"
           d == [r EXCEPT !.at = at, !.rolled = rolled]
<1>1. /\ r # None /\ r.at = "wait" /\ call[w] # None /\ call[w].at = "answered"
      /\ spool' = spool \ {r.op} /\ UNCHANGED <<provisioned, op, requests, faults, shared>>
  BY DEF CallReturned, On, At
<1>2. /\ r \in Goroutine
      /\ work \in [Workers -> {None} \cup Goroutine] /\ call \in [Workers -> {None} \cup Call]
  BY <1>1, WorkFacts DEF FnInv, FnTypeOK
<1>3. at \in {"complete", "fail"} /\ rolled \in BOOLEAN
  OBVIOUS
<1>4. work' = [work EXCEPT ![w] = d] /\ call' = [call EXCEPT ![w] = None]
  BY DEF CallReturned
<1> HIDE DEF at, rolled
<1>5. d \in Goroutine /\ d.at = at /\ d.checked = r.checked /\ d.op = r.op /\ d.rolled = rolled
  <2>1. \A x \in {"complete", "fail"}, b \in BOOLEAN :
          LET e == [r EXCEPT !.at = x, !.rolled = b] IN
          e \in Goroutine /\ e.at = x /\ e.checked = r.checked /\ e.op = r.op /\ e.rolled = b
    BY <1>2, GoroutineReturns
  <2> QED
    BY <1>3, <2>1, Zenon
<1> HIDE DEF d
<1>6. work'[w] = d /\ OnlyWork(w) /\ OnlyCall(w) /\ call'[w] = None
  BY <1>2, <1>4 DEF OnlyWork, OnlyCall
<1> QED
  BY <1>1, <1>5, <1>6 DEF at, rolled

LEMMA CallReturnedKeeps ==
    ASSUME FnInv, NEW w \in Workers, CallReturned(w)
    PROVE  FnInv'
<1> DEFINE r == work[w]
<1>1. /\ r # None /\ call[w].at = "answered"
      /\ OnlyWork(w) /\ OnlyCall(w) /\ call'[w] = None /\ spool' = spool \ {r.op}
      /\ UNCHANGED <<provisioned, op, requests, faults, shared>>
      /\ work'[w] \in Goroutine /\ work'[w].op = r.op
      /\ work'[w].at = (IF call[w].answer = "ok" THEN "complete" ELSE "fail")
  BY CallReturnedStep
<1>2. op[r.op] # None /\ FnTypeOK /\ op' = op /\ UNCHANGED <<provisioned, requests, faults, shared>>
  BY <1>1, WorkFacts DEF FnInv
<1>3. OpsKept
  BY <1>2, SameOps
<1>4. Matched(w)'
  BY <1>1, <1>2 DEF Matched, On
<1>5. spool' \subseteq spool
  BY <1>1
<1> QED
  BY <1>1, <1>2, <1>3, <1>4, <1>5, RunKeeps

-----------------------------------------------------------------------------
(* Requests and the scheduler.                                             *)

LEMMA DriveStep ==
    ASSUME FnTypeOK, NEW w \in Workers, NEW i \in 1..MaxRequests, NEW seen, NEW sched \in BOOLEAN,
           Drive(w, i, seen, sched)
    PROVE  /\ OnlyWork(w) /\ work'[w] \in Goroutine /\ work'[w].op = i
           /\ work'[w].at = (IF seen = "QUEUED" THEN "start" ELSE "step")
           /\ work'[w].checked = FALSE /\ work'[w].rolled = FALSE
           /\ shared' \in BOOLEAN /\ shared' = (shared \/ Driven(i))
<1> DEFINE d == [op |-> i, at |-> IF seen = "QUEUED" THEN "start" ELSE "step",
                 checked |-> FALSE, rolled |-> FALSE, sched |-> sched]
<1>1. d \in Goroutine
  BY DEF Goroutine, Changes
<1>2. /\ d.op = i /\ d.at = (IF seen = "QUEUED" THEN "start" ELSE "step")
      /\ d.checked = FALSE /\ d.rolled = FALSE
  OBVIOUS
<1>3. work' = [work EXCEPT ![w] = d]
  BY DEF Drive
<1> HIDE DEF d
<1>4. work'[w] = d /\ OnlyWork(w)
  BY <1>3 DEF OnlyWork, FnTypeOK
<1>5. shared' \in BOOLEAN /\ shared' = (shared \/ Driven(i))
  BY Zenon DEF Drive
<1> QED
  BY <1>1, <1>2, <1>4, <1>5

\* What becomes of one operation; the others stay as they are.
OnlyOp(i) == \A j \in 1..MaxRequests : j # i => op'[j] = op[j]

LEMMA AgainStep ==
    ASSUME FnTypeOK, NEW i \in 1..MaxRequests, op[i] # None, NEW b \in BOOLEAN,
           op' = [op EXCEPT ![i].again = b]
    PROVE  /\ OpsKept /\ OnlyOp(i) /\ op'[i].status = op[i].status /\ op'[i].again = b
           /\ SameOp(op[i], op'[i])
<1> DEFINE p == [op[i] EXCEPT !.again = b]
<1>1. p \in Operation /\ SameOp(op[i], p) /\ p.status = op[i].status /\ p.again = b
  BY TypeFacts, OpMoves
<1>2. op' = [op EXCEPT ![i] = p] /\ op \in [1..MaxRequests -> {None} \cup Operation]
  BY DEF FnTypeOK
<1> HIDE DEF p
<1>3. /\ op'[i] = p /\ \A j \in 1..MaxRequests : j # i => op'[j] = op[j]
      /\ op' \in [1..MaxRequests -> {None} \cup Operation]
  BY <1>1, <1>2
<1>4. \A j \in 1..MaxRequests : op[j] # None => SameOp(op[j], op'[j])
  BY <1>1, <1>3 DEF SameOp
<1> QED
  BY <1>1, <1>3, <1>4 DEF OpsKept, OnlyOp

\* A request queues an operation, drives the newest active one once more, or
\* is refused.
LEMMA QueueStep ==
    ASSUME FnInv, NEW w \in Workers, NEW kind \in Kinds, NEW sha \in ShaOrNone, Queue(w, kind, sha)
    PROVE  /\ work[w] = None /\ call[w] = None /\ UNCHANGED <<provisioned, call, faults>>
           /\ requests + 1 \in 1..MaxRequests /\ requests' = requests + 1
           /\ \/ LET i == requests + 1 IN
                 /\ ActiveOps = {} /\ op[i] = None
                 /\ op' \in [1..MaxRequests -> {None} \cup Operation] /\ OnlyOp(i)
                 /\ op'[i] \in Operation /\ op'[i].kind = kind /\ op'[i].sha = sha
                 /\ kind = "DEPLOY" => sha \in Archives
                 /\ op'[i].status = "QUEUED" /\ op'[i].again = FALSE
                 /\ op'[i].current = files.current /\ op'[i].previous = files.previous
                 /\ spool' = (IF kind = "DEPLOY" THEN spool \cup {i} ELSE spool)
                 /\ OnlyWork(w) /\ work'[w] \in Goroutine /\ work'[w].op = i /\ work'[w].at = "start"
                 /\ work'[w].checked = FALSE /\ work'[w].rolled = FALSE
                 /\ shared' \in BOOLEAN /\ shared' = (shared \/ Driven(i))
              \/ /\ spool' = spool
                 /\ \E i \in ActiveOps :
                      /\ i \in 1..MaxRequests /\ \A j \in ActiveOps : j <= i
                      /\ OpsKept /\ OnlyOp(i) /\ op'[i].status = op[i].status /\ op'[i].again = TRUE
                      /\ OnlyWork(w) /\ work'[w] \in Goroutine /\ work'[w].op = i
                      /\ work'[w].at = (IF op[i].status = "QUEUED" THEN "start" ELSE "step")
                      /\ work'[w].checked = FALSE /\ work'[w].rolled = FALSE
                      /\ shared' \in BOOLEAN /\ shared' = (shared \/ Driven(i))
              \/ op' = op /\ work' = work /\ shared' = shared /\ spool' = spool
<1>1. /\ work[w] = None /\ call[w] = None /\ UNCHANGED <<provisioned, call, faults>>
      /\ requests < MaxRequests /\ requests' = requests + 1 /\ (kind = "DEPLOY" <=> sha # None)
  BY DEF Queue, NextFree, Free
<1>2. FnTypeOK /\ OpsRecorded /\ requests \in 0..MaxRequests /\ MaxRequests \in Nat
  BY NoneFacts DEF FnInv, FnTypeOK
<1>3. requests + 1 \in 1..MaxRequests /\ requests + 1 > requests
  BY <1>1, <1>2
<1>4. op[requests + 1] = None
  BY <1>2, <1>3 DEF OpsRecorded
<1>5. kind = "DEPLOY" => sha \in Archives
  BY <1>1 DEF ShaOrNone
<1>6. CASE ActiveOps = {}
  <2> DEFINE i == requests + 1
             o == [kind |-> kind, sha |-> sha, status |-> "QUEUED", again |-> FALSE,
                   current |-> files.current, previous |-> files.previous]
  <2>1. op' = [op EXCEPT ![i] = o] /\ spool' = (IF kind = "DEPLOY" THEN spool \cup {i} ELSE spool)
    BY <1>6 DEF Queue
  <2>2. Drive(w, i, "QUEUED", FALSE)
    BY <1>6 DEF Queue
  <2>3. files.current \in ShaOrNone /\ files.previous \in ShaOrNone
    BY <1>2, FileFields DEF FnTypeOK
  <2>4. o \in Operation
    BY <2>3 DEF Operation, Statuses
  <2>5. /\ o.kind = kind /\ o.sha = sha /\ o.status = "QUEUED" /\ o.again = FALSE
        /\ o.current = files.current /\ o.previous = files.previous
    OBVIOUS
  <2>6. op \in [1..MaxRequests -> {None} \cup Operation]
    BY <1>2 DEF FnTypeOK
  <2> HIDE DEF o
  <2>7. /\ op'[i] = o /\ OnlyOp(i) /\ op' \in [1..MaxRequests -> {None} \cup Operation]
    BY <1>3, <2>1, <2>4, <2>6 DEF OnlyOp
  <2>8. /\ OnlyWork(w) /\ work'[w] \in Goroutine /\ work'[w].op = i /\ work'[w].at = "start"
        /\ work'[w].checked = FALSE /\ work'[w].rolled = FALSE
        /\ shared' \in BOOLEAN /\ shared' = (shared \/ Driven(i))
    BY <1>2, <1>3, <2>2, DriveStep
  <2> QED
    BY <1>1, <1>3, <1>4, <1>5, <1>6, <2>1, <2>4, <2>5, <2>7, <2>8
<1>7. CASE ActiveOps # {}
  <2>1. spool' = spool
    BY <1>7 DEF Queue
  <2>2. PICK i \in ActiveOps :
          /\ \A j \in ActiveOps : j <= i
          /\ IF op[i].kind = kind
             THEN Drive(w, i, op[i].status, FALSE) /\ op' = [op EXCEPT ![i].again = TRUE]
             ELSE UNCHANGED <<op, work, shared>>
    BY <1>7 DEF Queue
  <2>3. i \in 1..MaxRequests /\ op[i] # None
    BY <1>2, TypeFacts DEF ActiveOps
  <2>4. CASE op[i].kind = kind
    <3>1. /\ OnlyWork(w) /\ work'[w] \in Goroutine /\ work'[w].op = i
          /\ work'[w].at = (IF op[i].status = "QUEUED" THEN "start" ELSE "step")
          /\ work'[w].checked = FALSE /\ work'[w].rolled = FALSE
          /\ shared' \in BOOLEAN /\ shared' = (shared \/ Driven(i))
      BY <1>2, <2>2, <2>3, <2>4, DriveStep
    <3>2. OpsKept /\ OnlyOp(i) /\ op'[i].status = op[i].status /\ op'[i].again = TRUE
      BY <1>2, <2>2, <2>3, <2>4, AgainStep
    <3> QED
      BY <1>1, <1>3, <2>1, <2>2, <2>3, <3>1, <3>2
  <2>5. CASE op[i].kind # kind
    BY <1>1, <1>3, <2>1, <2>2, <2>5
  <2> QED
    BY <2>4, <2>5
<1> QED
  BY <1>6, <1>7

LEMMA NewPlace ==
    ASSUME FnInv, NEW w \in Workers, call[w] = None, call' = call,
           NEW i \in 1..MaxRequests, op'[i] # None,
           work'[w] \in Goroutine, work'[w].op = i, work'[w].at \in {"start", "step"}
    PROVE  Matched(w)' /\ OnlyCall(w) /\ call'[w] \in {None} \cup Call
<1>1. OnlyCall(w) /\ call'[w] = None
  BY DEF OnlyCall, FnInv, FnTypeOK
<1> QED
  BY <1>1 DEF Matched, On

LEMMA QueueKeeps ==
    ASSUME FnInv, NEW w \in Workers, NEW kind \in Kinds, NEW sha \in ShaOrNone, Queue(w, kind, sha)
    PROVE  FnInv'
<1> DEFINE n == requests + 1
<1>1. /\ work[w] = None /\ call[w] = None /\ UNCHANGED <<provisioned, call, faults>>
      /\ n \in 1..MaxRequests /\ requests' = n
  BY QueueStep
<1>2. FnTypeOK /\ OpsRecorded /\ requests \in 0..MaxRequests /\ MaxRequests \in Nat
  BY NoneFacts DEF FnInv, FnTypeOK
<1>3. requests' \in 0..MaxRequests /\ n > requests
  BY <1>1, <1>2
<1>4. CASE /\ op' \in [1..MaxRequests -> {None} \cup Operation] /\ OnlyOp(n)
           /\ op[n] = None /\ op'[n] \in Operation /\ op'[n].kind = kind /\ op'[n].sha = sha
           /\ kind = "DEPLOY" => sha \in Archives
           /\ spool' = (IF kind = "DEPLOY" THEN spool \cup {n} ELSE spool)
           /\ OnlyWork(w) /\ work'[w] \in Goroutine /\ work'[w].op = n /\ work'[w].at = "start"
           /\ shared' \in BOOLEAN
  <2>1. \A i \in 1..MaxRequests : op[i] # None => op'[i] = op[i]
    BY <1>4 DEF OnlyOp
  <2>2. OpsKept
    BY <1>4, <2>1 DEF OpsKept, SameOp
  <2>3. OpsRecorded'
    BY <1>1, <1>2, <1>3, <1>4, <2>1 DEF OpsRecorded, OnlyOp
  <2>4. Matched(w)' /\ OnlyCall(w) /\ call'[w] \in {None} \cup Call
    BY <1>1, <1>4, NoneFacts, NewPlace
  <2>5. spool' \subseteq 1..MaxRequests
    BY <1>1, <1>2, <1>4 DEF FnTypeOK
  <2> QED
    BY <1>1, <1>3, <1>4, <2>2, <2>3, <2>4, <2>5, PlaceKeeps
<1>5. ASSUME OpsKept, \A i \in 1..MaxRequests : op[i] = None => op'[i] = None
      PROVE  OpsRecorded'
  BY <1>1, <1>2, <1>3, <1>5 DEF OpsRecorded, OpsKept, SameOp
<1>6. ASSUME NEW i \in 1..MaxRequests, op[i] # None, spool' = spool, OpsKept, OnlyOp(i),
             OnlyWork(w), work'[w] \in Goroutine, work'[w].op = i,
             work'[w].at \in {"start", "step"}, shared' \in BOOLEAN
      PROVE  FnInv'
  <2>1. op'[i] # None /\ spool' \subseteq 1..MaxRequests
    BY <1>2, <1>6 DEF OpsKept, SameOp, FnTypeOK
  <2>2. Matched(w)' /\ OnlyCall(w) /\ call'[w] \in {None} \cup Call
    BY <1>1, <1>6, <2>1, NewPlace
  <2>3. OpsRecorded'
    BY <1>5, <1>6 DEF OnlyOp
  <2> QED
    BY <1>1, <1>3, <1>6, <2>1, <2>2, <2>3, PlaceKeeps
<1>7. CASE \E i \in ActiveOps :
             /\ i \in 1..MaxRequests /\ OpsKept /\ OnlyOp(i)
             /\ OnlyWork(w) /\ work'[w] \in Goroutine /\ work'[w].op = i
             /\ work'[w].at = (IF op[i].status = "QUEUED" THEN "start" ELSE "step")
             /\ shared' \in BOOLEAN /\ spool' = spool
  BY <1>6, <1>7 DEF ActiveOps
<1>8. CASE op' = op /\ work' = work /\ shared' = shared /\ spool' = spool
  <2>1. OpsKept /\ OnlyWork(w) /\ OnlyCall(w) /\ Matched(w)
    BY <1>1, <1>2, <1>8, SameOps DEF OnlyWork, OnlyCall, FnTypeOK, FnInv
  <2>2. Matched(w)'
    BY <1>1, <1>8, <2>1 DEF Matched, On
  <2>3. OpsRecorded'
    BY <1>5, <1>8, <2>1
  <2>4. /\ spool' \subseteq 1..MaxRequests /\ shared' \in BOOLEAN
        /\ work'[w] \in {None} \cup Goroutine /\ call'[w] \in {None} \cup Call
    BY <1>1, <1>2, <1>8 DEF FnTypeOK
  <2> QED
    BY <1>1, <1>3, <2>1, <2>2, <2>3, <2>4, PlaceKeeps
<1> QED
  BY <1>4, <1>7, <1>8, QueueStep

LEMMA ResumeStep ==
    ASSUME FnInv, NEW w \in Workers, Resume(w)
    PROVE  /\ work[w] = None /\ call[w] = None
           /\ UNCHANGED <<provisioned, call, spool, requests, faults>>
           /\ \E i \in ListActiveOperations :
                /\ i \in 1..MaxRequests /\ op[i] # None /\ OpsKept /\ OnlyOp(i)
                /\ op'[i].status = op[i].status
                /\ op'[i].again = (op[i].again \/ ~(op[i].status = "QUEUED" /\ ~Driven(i)))
                /\ OnlyWork(w) /\ work'[w] \in Goroutine /\ work'[w].op = i
                /\ work'[w].at = (IF op[i].status = "QUEUED" THEN "start" ELSE "step")
                /\ work'[w].checked = FALSE /\ work'[w].rolled = FALSE
                /\ shared' \in BOOLEAN /\ shared' = (shared \/ Driven(i))
<1>1. /\ work[w] = None /\ call[w] = None
      /\ UNCHANGED <<provisioned, call, spool, requests, faults>>
  BY DEF Resume, NextFree, Free
<1>2. FnTypeOK
  BY DEF FnInv
<1>3. PICK i \in ListActiveOperations :
        /\ Drive(w, i, op[i].status, TRUE)
        /\ op' = [op EXCEPT ![i].again = @ \/ ~(op[i].status = "QUEUED" /\ ~Driven(i))]
  BY Zenon DEF Resume
<1>4. i \in 1..MaxRequests /\ op[i] # None
  BY <1>2, TypeFacts DEF ListActiveOperations
<1> DEFINE b == op[i].again \/ ~(op[i].status = "QUEUED" /\ ~Driven(i))
<1>5. b \in BOOLEAN
  BY Zenon
<1>6. op' = [op EXCEPT ![i].again = b]
  BY <1>2, <1>3, <1>4 DEF FnTypeOK
<1> HIDE DEF b
<1>7. /\ OpsKept /\ OnlyOp(i) /\ op'[i].status = op[i].status /\ op'[i].again = b
  <2>1. \A x \in BOOLEAN : op' = [op EXCEPT ![i].again = x] =>
          OpsKept /\ OnlyOp(i) /\ op'[i].status = op[i].status /\ op'[i].again = x
    BY <1>2, <1>4, AgainStep
  <2> QED
    BY <1>5, <1>6, <2>1, Zenon
<1>8. /\ OnlyWork(w) /\ work'[w] \in Goroutine /\ work'[w].op = i
      /\ work'[w].at = (IF op[i].status = "QUEUED" THEN "start" ELSE "step")
      /\ work'[w].checked = FALSE /\ work'[w].rolled = FALSE
      /\ shared' \in BOOLEAN /\ shared' = (shared \/ Driven(i))
  BY <1>2, <1>3, <1>4, DriveStep
<1> QED
  BY <1>1, <1>4, <1>7, <1>8, Zenon DEF b

LEMMA ResumeKeeps ==
    ASSUME FnInv, NEW w \in Workers, Resume(w)
    PROVE  FnInv'
<1>1. /\ work[w] = None /\ call[w] = None
      /\ UNCHANGED <<provisioned, call, spool, requests, faults>>
  BY ResumeStep
<1>2. PICK i \in 1..MaxRequests :
        /\ op[i] # None /\ OpsKept /\ OnlyOp(i) /\ shared' \in BOOLEAN
        /\ OnlyWork(w) /\ work'[w] \in Goroutine /\ work'[w].op = i
        /\ work'[w].at = (IF op[i].status = "QUEUED" THEN "start" ELSE "step")
  BY ResumeStep
<1>3. FnTypeOK /\ requests' = requests /\ spool' = spool
  BY <1>1 DEF FnInv
<1>4. op'[i] # None /\ spool' \subseteq 1..MaxRequests /\ requests' \in 0..MaxRequests
  BY <1>2, <1>3 DEF OpsKept, SameOp, FnTypeOK
<1>5. work'[w].at \in {"start", "step"}
  BY <1>2
<1>6. Matched(w)' /\ OnlyCall(w) /\ call'[w] \in {None} \cup Call
  BY <1>1, <1>2, <1>4, <1>5, NewPlace
<1>7. \A j \in 1..MaxRequests : op[j] = None => op'[j] = None
  BY <1>2 DEF OnlyOp
<1>8. OpsRecorded'
  BY <1>2, <1>3, <1>7 DEF FnInv, OpsRecorded, OpsKept, SameOp
<1> QED
  BY <1>1, <1>2, <1>4, <1>6, <1>8, PlaceKeeps

-----------------------------------------------------------------------------
(* What holds whoever drives what.                                         *)

LEMMA FnInitInv == FnInit => FnInv
<1> SUFFICES ASSUME FnInit
             PROVE  FnInv
  OBVIOUS
<1>1. files \in FileStates /\ loaded = files.live /\ Consistent(files)
  BY NoneFacts DEF FnInit
<1>2. /\ op = [i \in 1..MaxRequests |-> None] /\ spool = {} /\ requests = 0 /\ faults = 0
      /\ work = [w \in Workers |-> None] /\ call = [w \in Workers |-> None]
      /\ torn = FALSE /\ shared = FALSE
  BY DEF FnInit
<1>3. loaded \in Archives \cup {None, Foreign, Unknown}
  BY <1>1, FileFields
<1>4. requests \in 0..MaxRequests /\ faults \in 0..MaxFaults
  BY <1>2, NoneFacts
<1>5. \A w \in Workers : Matched(w)
  BY <1>2 DEF Matched, On
<1>6. FnTypeOK
  BY <1>1, <1>2, <1>3, <1>4 DEF FnTypeOK, On
<1>7. OpsRecorded
  BY <1>2 DEF OpsRecorded
<1> QED
  BY <1>1, <1>5, <1>6, <1>7 DEF FnInv, RestartPending, Consistent

LEMMA FnStutters == FnInv /\ UNCHANGED fnVars => FnInv'
<1> SUFFICES ASSUME FnInv, UNCHANGED fnVars
             PROVE  FnInv'
  OBVIOUS
<1>1. /\ files' = files /\ loaded' = loaded /\ op' = op /\ spool' = spool /\ work' = work /\ call' = call
      /\ requests' = requests /\ faults' = faults /\ torn' = torn /\ shared' = shared
  BY DEF fnVars
<1> QED
  BY <1>1 DEF FnInv, FnTypeOK, OpsRecorded, Matched, RestartPending, On

LEMMA FnInvKept == FnInv /\ [FnNext]_fnVars => FnInv'
<1> SUFFICES ASSUME FnInv, [FnNext]_fnVars
             PROVE  FnInv'
  OBVIOUS
<1>1. ASSUME NEW w \in Workers, NEW kind \in Kinds, NEW sha \in Archives \cup {None}, Queue(w, kind, sha)
      PROVE  FnInv'
  BY <1>1, QueueKeeps DEF ShaOrNone
<1>2. ASSUME NEW w \in Workers, Resume(w)
      PROVE  FnInv'
  BY <1>2, ResumeKeeps
<1>3. ASSUME NEW w \in Workers, Run(w)
      PROVE  FnInv'
  BY <1>3, requireStatusKeeps, updateKeeps, CallProvisionerKeeps, CallReturnedKeeps DEF Run
<1>4. ASSUME NEW w \in Workers, Provisioner(w)
      PROVE  FnInv'
  BY <1>4, FileOperationKeeps, RestartKeeps, RestoreKeeps, RestartAgainKeeps DEF Provisioner
<1>5. CASE ProvisionerRestart
  BY <1>5, ProvisionerRestartKeeps
<1>6. CASE ManagerRestart
  BY <1>6, ManagerRestartKeeps
<1>7. CASE UNCHANGED fnVars
  BY <1>7, FnStutters
<1> QED
  BY <1>1, <1>2, <1>3, <1>4, <1>5, <1>6, <1>7, Zenon DEF FnNext

LEMMA FnInvHolds == FnSpec => []FnInv
<1>1. FnInit => FnInv
  BY FnInitInv
<1>2. FnInv /\ [FnNext]_fnVars => FnInv'
  BY FnInvKept
<1> QED
  BY <1>1, <1>2, PTL DEF FnSpec

\* The type of every variable of the Manager's functions.Service and of the
\* Provisioner's FunctionService; a call is alive exactly while a goroutine
\* of the Manager waits for it.
THEOREM FunctionsTyped == FnSpec => []FnTypeOK
<1>1. FnInv => FnTypeOK
  BY DEF FnInv
<1> QED
  BY <1>1, FnInvHolds, PTL

\* Whatever fails, is cut off or is driven twice: when nothing is under way
\* and no file operation was broken off, the functions container runs the
\* directory that is live (runtime/functions.go: Deploy, Rollback, Delete).
THEOREM FunctionsLoadLive == FnSpec => []LiveIsLoaded
<1>1. FnInv => LiveIsLoaded
  BY DEF FnInv, RestartPending, LiveIsLoaded, Idle, Free
<1> QED
  BY <1>1, FnInvHolds, PTL

\* Somebody is about to complete the rollback of the operation.
Undoing(i) == \E w \in Workers : On(w, {"undone"}) /\ work[w].op = i

LEMMA LeftBefore ==
    ASSUME FnInv, NEW w \in Workers, OnlyWork(w), NEW i \in 1..MaxRequests,
           op[i] # None, op[i].status = "ROLLING_BACK", ~Undoing(i)',
           ~(On(w, {"undone"}) /\ work[w].op = i)
    PROVE  RollbackLeft
<1>1. FnTypeOK /\ DOMAIN op = 1..MaxRequests
  BY TypeFacts DEF FnInv
<1>2. ASSUME NEW v \in Workers, On(v, {"undone"}), work[v].op = i
      PROVE  FALSE
  <2>1. v # w
    BY <1>2
  <2>2. work'[v] = work[v]
    BY <1>1, <2>1 DEF OnlyWork, FnTypeOK
  <2> QED
    BY <1>2, <2>2 DEF Undoing, On
<1> QED
  BY <1>1, <1>2 DEF RollbackLeft

\* An operation enters ROLLING_BACK by the step that leaves its writer about
\* to complete it, and that goroutine goes on only once the status is another.
LEMMA RollbackOwned ==
    ASSUME FnInv, FnNext, ~ManagerRestart, NEW i \in 1..MaxRequests,
           op'[i] # None, op'[i].status = "ROLLING_BACK", ~Undoing(i)'
    PROVE  RollbackLeft
<1>1. FnTypeOK /\ DOMAIN op = 1..MaxRequests
  BY TypeFacts DEF FnInv
<1>2. ASSUME work' = work, op' = op
      PROVE  RollbackLeft
  BY <1>1, <1>2 DEF Undoing, RollbackLeft, On
<1>3. ASSUME NEW w \in Workers, NEW kind \in Kinds, NEW sha \in Archives \cup {None}, Queue(w, kind, sha)
      PROVE  RollbackLeft
  <2>1. ~On(w, {"undone"})
    BY <1>3, QueueStep DEF On, ShaOrNone
  <2>2. CASE op' = op /\ work' = work
    BY <1>2, <2>2
  <2>3. CASE \E j \in 1..MaxRequests : OnlyWork(w) /\ OnlyOp(j) /\ op'[j].status = "QUEUED"
    BY <2>1, <2>3, LeftBefore DEF OnlyOp
  <2>4. CASE \E j \in ActiveOps : /\ j \in 1..MaxRequests /\ OnlyWork(w) /\ OnlyOp(j)
                                  /\ op'[j].status = op[j].status
    BY <2>1, <2>4, LeftBefore DEF OnlyOp, ActiveOps
  <2> QED
    BY <1>3, <2>2, <2>3, <2>4, QueueStep DEF ShaOrNone
<1>4. ASSUME NEW w \in Workers, Resume(w)
      PROVE  RollbackLeft
  <2>1. ~On(w, {"undone"})
    BY <1>4, ResumeStep DEF On
  <2>2. PICK j \in 1..MaxRequests : OnlyWork(w) /\ OnlyOp(j) /\ op'[j].status = op[j].status /\ op[j] # None
    BY <1>4, ResumeStep
  <2> QED
    BY <2>1, <2>2, LeftBefore DEF OnlyOp
<1>5. ASSUME NEW w \in Workers, requireStatus(w)
      PROVE  RollbackLeft
  <2> DEFINE r == work[w]
  <2>1. /\ r # None /\ OnlyWork(w) /\ op' = op
        /\ \/ work'[w] \in Goroutine /\ work'[w].at = r.at /\ work'[w].op = r.op
           \/ op[r.op].status # Requires(r.at)
    BY <1>5, requireStatusStep
  <2>2. ASSUME r.at = "undone", r.op = i
        PROVE  FALSE
    <3>1. Requires(r.at) = "ROLLING_BACK"
      BY <2>2 DEF Requires
    <3> QED
      BY <2>1, <2>2, <3>1, NoneFacts DEF Undoing, On
  <2> QED
    BY <2>1, <2>2, LeftBefore DEF On
<1>6. ASSUME NEW w \in Workers, update(w)
      PROVE  RollbackLeft
  <2> DEFINE r == work[w]
  <2>1. /\ r # None /\ r.at \in Changes /\ OnlyWork(w) /\ op'[r.op].status = Makes(r.at)
        /\ \A j \in 1..MaxRequests : j # r.op => op'[j] = op[j]
        /\ \/ Done(r) = "end"
           \/ work'[w] \in Goroutine /\ work'[w].at = Done(r) /\ work'[w].op = r.op
    BY <1>6, updateStep
  <2>2. r.op # i
    <3>1. SUFFICES ASSUME r.op = i
                   PROVE  FALSE
      OBVIOUS
    <3>2. Makes(r.at) = "ROLLING_BACK"
      BY <2>1, <3>1
    <3>3. r.at = "undo"
      BY <2>1, <3>2 DEF Makes, Changes
    <3>4. Done(r) = "undone"
      BY <3>3 DEF Done
    <3> QED
      BY <2>1, <3>1, <3>4, NoneFacts DEF Undoing, On
  <2> QED
    BY <2>1, <2>2, LeftBefore
<1>7. ASSUME NEW w \in Workers, CallProvisioner(w) \/ CallReturned(w)
      PROVE  RollbackLeft
  <2>1. work[w].at \in {"call", "wait"} /\ OnlyWork(w) /\ op' = op
    BY <1>7, CallProvisionerStep, CallReturnedStep
  <2> QED
    BY <2>1, LeftBefore DEF On
<1>8. ASSUME NEW w \in Workers, Provisioner(w)
      PROVE  RollbackLeft
  <2>1. UNCHANGED managed
    BY <1>8 DEF Provisioner, FileOperation, Restart, Restore, RestartAgain
  <2> QED
    BY <1>2, <2>1 DEF managed
<1>9. CASE ProvisionerRestart
  BY <1>2, <1>9 DEF ProvisionerRestart, managed
<1>10. CASE UNCHANGED fnVars
  BY <1>2, <1>10 DEF fnVars
<1> QED
  BY <1>3, <1>4, <1>5, <1>6, <1>7, <1>8, <1>9, <1>10, Zenon DEF FnNext, Run

\* However many goroutines drive an operation: only a restart of the Manager
\* leaves one in ROLLING_BACK with nobody to complete it, a status that
\* refuses the project every other operation (functions/service.go 165).
THEOREM RollbackIsCompleted == FnSpec => RollbackCompleted
<1>1. FnInv /\ [FnNext]_fnVars => [RollbackLeft' => RollbackLeft \/ ManagerRestart]_fnVars
  <2> SUFFICES ASSUME FnInv, FnNext, RollbackLeft', ~ManagerRestart
               PROVE  RollbackLeft
    BY Zenon
  <2>1. FnInv'
    BY FnInvKept
  <2>2. DOMAIN op' = 1..MaxRequests
    BY <2>1 DEF FnInv, FnTypeOK
  <2>3. PICK i \in 1..MaxRequests : op'[i] # None /\ op'[i].status = "ROLLING_BACK" /\ ~Undoing(i)'
    BY <2>2 DEF RollbackLeft, Undoing
  <2> QED
    BY <2>3, RollbackOwned
<1> QED
  BY <1>1, FnInvHolds, PTL DEF FnSpec, RollbackCompleted

-----------------------------------------------------------------------------
(* As long as no operation has had two drivers at once.                    *)

Drives(w, i) == (work[w] # None /\ work[w].op = i) \/ (Active(w) /\ call[w].op = i)
Exclusive == \A v, w \in Workers, i \in 1..MaxRequests : Drives(v, i) /\ Drives(w, i) => v = w

Last(i) == op[i] # None /\ \A j \in 1..MaxRequests : op[j] # None => j <= i

\* The releases as the operation found them; as any number of runs of a
\* deployment may leave them; as a run that succeeded leaves them.
Fresh(o, f) == f.current = o.current /\ f.previous = o.previous
DeployLeft(o, f) ==
    \/ Fresh(o, f)
    \/ /\ o.sha \in f.releases
       /\ \/ f.current = o.sha /\ f.previous = o.current
          \/ f.current = o.current /\ f.previous = o.sha
          \/ f.current = o.previous /\ f.previous = o.sha /\ o.current = o.sha
Effect(o, f) ==
    /\ o.kind = "DEPLOY" => f.current = o.sha /\ o.sha \in f.releases
    /\ o.kind = "ROLLBACK" /\ ~o.again => f.current = o.previous
    /\ o.kind = "DELETE" => f = NoFiles

\* What is true of the releases when a run of the operation failed.
Harmless(o) == o.again \/ torn \/ loaded = Unknown \/ RolledTo(o)

\* An operation in ROLLING_BACK that is taken up again finds no archive.
Stuck(i) == op[i].status = "ROLLING_BACK" /\ op[i].kind = "DEPLOY" /\ i \notin spool

\* Only the last operation is open, and its status is true of the releases.
OpTells(i) == op[i] # None =>
    /\ op[i].status \in {"QUEUED", "RUNNING"} => Last(i)
    /\ op[i].status \in {"QUEUED", "RUNNING"} /\ op[i].kind = "DEPLOY" => DeployLeft(op[i], files)
    /\ op[i].status = "QUEUED" => Fresh(op[i], files)
    /\ op[i].status = "ROLLING_BACK" => Stuck(i)
    /\ Last(i) => /\ op[i].status = "SUCCEEDED" => Effect(op[i], files)
                  /\ op[i].status \in {"ROLLING_BACK", "ROLLED_BACK"} => RolledTo(op[i])
                  /\ op[i].status = "FAILED" => Harmless(op[i])

\* Nobody but its driver writes an operation's status, so it is what the
\* driver's next change requires, except that of an operation that is stuck.
StatusAwaited(w) == work[w] # None =>
    LET r == work[w]
        status == op[r.op].status
    IN
    /\ r.checked => status = Requires(r.at)
    /\ r.at = "start" => status = "QUEUED"
    /\ r.at \in {"step", "call", "fail"} => status = "RUNNING" \/ (Stuck(r.op) /\ op[r.op].again /\ ~r.rolled)
    /\ r.at \in {"wait", "complete", "succeed"} => status = "RUNNING"
    /\ r.at = "undo" => status = "FAILED"
    /\ r.at = "undone" => status = "ROLLING_BACK"
    /\ r.at \in {"start", "step", "call", "wait"} => ~r.rolled
    /\ r.at \in {"fail", "undo"} /\ r.rolled => op[r.op].kind = "DEPLOY" /\ r.op \notin spool
    /\ r.at \in {"undo", "undone"} => op[r.op].kind = "DEPLOY" /\ r.op \notin spool

\* What the goroutine is about to record is true of the releases.
WorkTells(w) == work[w] # None =>
    LET r == work[w]
        o == op[r.op]
    IN
    /\ r.at \in {"start", "step", "call"} => o.again \/ Fresh(o, files)
    /\ r.at \in {"complete", "succeed"} => Effect(o, files)
    /\ r.at = "fail" => Harmless(o) /\ (r.rolled => RolledTo(o))
    /\ r.at = "undo" /\ Last(r.op) => RolledTo(o)

\* So is what the Provisioner is about to answer.
CallTells(w) == call[w] # None =>
    LET k == call[w]
        o == op[k.op]
    IN
    /\ IF k.at = "answered" THEN k.alive ELSE o.status = "RUNNING"
    /\ k.at = "files" => o.again \/ Fresh(o, files)
    /\ k.at \in {"restart", "restore"} =>
          Effect(o, files) /\ files.current = k.act.current /\ files.previous = k.act.previous
    /\ k.at \in {"restore", "again"} => loaded = Unknown
    /\ k.at = "again" => RolledTo(o)
    /\ k.at = "answered" =>
          /\ IF k.answer = "ok" THEN Effect(o, files) ELSE Harmless(o)
          /\ k.answer = "rolledback" => k.kind = "DEPLOY" /\ RolledTo(o)

Sole ==
    /\ Exclusive /\ \A i \in 1..MaxRequests : OpTells(i)
    /\ \A w \in Workers : StatusAwaited(w) /\ WorkTells(w) /\ CallTells(w)
    /\ ~torn => Retained(files)

LastExists == (\E i \in 1..MaxRequests : op[i] # None) => \E i \in 1..MaxRequests : Last(i)

LEMMA OpFields ==
    ASSUME NEW o \in Operation
    PROVE  /\ o.kind \in Kinds /\ o.status \in Statuses
           /\ o.sha \in ShaOrNone /\ o.current \in ShaOrNone /\ o.previous \in ShaOrNone
BY DEF Operation

LEMMA ExclusiveKept ==
    ASSUME Exclusive, \A v \in Workers, i \in 1..MaxRequests : Drives(v, i)' => Drives(v, i)
    PROVE  Exclusive'
BY DEF Exclusive

LEMMA LastKept ==
    ASSUME \A i \in 1..MaxRequests : op'[i] = None <=> op[i] = None
    PROVE  \A i \in 1..MaxRequests : Last(i)' <=> Last(i)
BY DEF Last

\* Every call is driven: whoever made it waits for it, or the Provisioner has
\* not answered yet.
LEMMA CallsDriven ==
    ASSUME FnInv, NEW w \in Workers, call[w] # None, CallTells(w)
    PROVE  call[w].op \in 1..MaxRequests /\ op[call[w].op] # None /\ Drives(w, call[w].op)
<1>1. call[w].op \in 1..MaxRequests /\ Matched(w)
  BY CallNeeds DEF FnInv
<1>2. CASE call[w].at = "answered"
  BY <1>1, <1>2 DEF CallTells, Matched, On, Drives
<1>3. CASE call[w].at # "answered"
  BY <1>1, <1>3 DEF Matched, Drives, Active
<1> QED
  BY <1>1, <1>2, <1>3 DEF Matched

-----------------------------------------------------------------------------
(* The Provisioner's steps, when nobody else drives the operation.         *)

\* The operation of a call under way is the last one, and is running; the
\* other goroutines are about operations that are over.
LEMMA Alone ==
    ASSUME FnInv, Sole, NEW w \in Workers, Active(w)
    PROVE  LET i == call[w].op IN
           /\ i \in 1..MaxRequests /\ op[i] \in Operation /\ op[i].status = "RUNNING" /\ Last(i)
           /\ \A v \in Workers : v # w => call[v] = None /\ (work[v] # None => ~Last(work[v].op))
           /\ work[w] # None => work[w].at = "wait" /\ work[w].op = i
<1> DEFINE i == call[w].op
<1>1. call[w] # None /\ call[w].at # "answered" /\ CallTells(w) /\ Matched(w)
  BY DEF Active, Sole, FnInv
<1>2. i \in 1..MaxRequests /\ op[i] # None /\ Drives(w, i)
  BY <1>1, CallsDriven
<1>3. op[i].status = "RUNNING"
  BY <1>1 DEF CallTells
<1>4. Last(i)
  BY <1>2, <1>3 DEF Sole, OpTells
<1>5. ASSUME NEW j \in 1..MaxRequests, Last(j)
      PROVE  j = i
  BY <1>2, <1>4, <1>5, NoneFacts DEF Last
<1>6. ASSUME NEW v \in Workers, v # w
      PROVE  call[v] = None /\ (work[v] # None => ~Last(work[v].op))
  <2>1. ~Drives(v, i)
    BY <1>2, <1>6 DEF Sole, Exclusive
  <2>2. work[v] # None => ~Last(work[v].op)
    BY <1>5, <2>1, WorkFacts DEF Drives
  <2>3. call[v] = None
    <3>1. SUFFICES ASSUME call[v] # None
                   PROVE  FALSE
      OBVIOUS
    <3>2. CallTells(v) /\ Matched(v)
      BY DEF Sole, FnInv
    <3>3. call[v].op \in 1..MaxRequests /\ op[call[v].op] # None /\ Drives(v, call[v].op)
      BY <3>1, <3>2, CallsDriven
    <3>4. op[call[v].op].status = "RUNNING"
      <4>1. CASE call[v].at = "answered"
        <5>1. work[v] # None /\ work[v].at = "wait" /\ work[v].op = call[v].op
          BY <3>1, <3>2, <4>1 DEF CallTells, Matched, On
        <5> QED
          BY <5>1 DEF Sole, StatusAwaited
      <4>2. CASE call[v].at # "answered"
        BY <3>1, <3>2, <4>2 DEF CallTells
      <4> QED
        BY <4>1, <4>2
    <3>5. Last(call[v].op)
      BY <3>3, <3>4 DEF Sole, OpTells
    <3> QED
      BY <1>5, <2>1, <3>3, <3>5
  <2> QED
    BY <2>2, <2>3
<1> QED
  BY <1>1, <1>2, <1>3, <1>4, <1>6, TypeFacts DEF FnInv, Matched

\* So a step of that call has to keep only what is said of it and of its
\* operation.
LEMMA ProvisionerSole ==
    ASSUME FnInv, FnInv', Sole, NEW w \in Workers, Active(w), UNCHANGED managed, OnlyCall(w),
           NEW i, i = call[w].op, call'[w] # None => call'[w].op = i,
           CallTells(w)', op[i].kind = "DEPLOY" => DeployLeft(op[i], files)', ~torn' => Retained(files')
    PROVE  Sole'
<1>1. /\ i \in 1..MaxRequests /\ op[i] \in Operation /\ op[i].status = "RUNNING" /\ Last(i)
      /\ \A v \in Workers : v # w => call[v] = None /\ (work[v] # None => ~Last(work[v].op))
      /\ work[w] # None => work[w].at = "wait" /\ work[w].op = i
  BY Alone
<1>2. op' = op /\ work' = work /\ spool' = spool
  BY DEF managed
<1>3. \A v \in Workers : v # w => call'[v] = call[v]
  BY DEF OnlyCall, FnInv, FnTypeOK
<1>4. \A j \in 1..MaxRequests : Last(j)' <=> Last(j)
  BY <1>2, LastKept
<1>5. ASSUME NEW v \in Workers
      PROVE  StatusAwaited(v)'
  <2>1. StatusAwaited(v)
    BY DEF Sole
  <2> QED
    BY <1>2, <2>1 DEF StatusAwaited, Stuck
<1>6. ASSUME NEW v \in Workers
      PROVE  WorkTells(v)'
  <2>1. SUFFICES ASSUME work[v] # None
                 PROVE  WorkTells(v)'
    BY <1>2 DEF WorkTells
  <2>2. CASE v = w
    BY <1>1, <1>2, <2>1, <2>2 DEF WorkTells
  <2>3. CASE v # w
    <3>1. PICK j \in 1..MaxRequests : j = work[v].op /\ ~Last(j) /\ op[j] # None
      BY <1>1, <2>1, <2>3, WorkFacts
    <3>2. op[j].status \notin {"QUEUED", "RUNNING"}
      BY <3>1 DEF Sole, OpTells
    <3>3. StatusAwaited(v)
      BY DEF Sole
    <3>4. /\ work[v].at \notin {"start", "wait", "complete", "succeed"}
          /\ work[v].at \in {"step", "call", "fail"} => op[j].again /\ ~work[v].rolled
      BY <2>1, <3>1, <3>2, <3>3 DEF StatusAwaited
    <3>5. ~Last(j)'
      BY <1>4, <3>1
    <3> QED
      BY <1>2, <3>1, <3>4, <3>5 DEF WorkTells, Harmless
  <2> QED
    BY <2>2, <2>3
<1>7. ASSUME NEW v \in Workers
      PROVE  CallTells(v)'
  BY <1>1, <1>3 DEF CallTells
<1>8. ASSUME NEW j \in 1..MaxRequests
      PROVE  OpTells(j)'
  <2>1. OpTells(j)
    BY DEF Sole
  <2>2. CASE j = i
    BY <1>1, <1>2, <1>4, <2>2 DEF OpTells
  <2>3. CASE j # i
    <3>1. ~Last(j)
      BY <1>1, <2>3, NoneFacts DEF Last
    <3>2. ~Last(j)'
      BY <1>4, <3>1
    <3> QED
      BY <1>2, <2>1, <3>1, <3>2 DEF OpTells, Stuck
  <2> QED
    BY <2>2, <2>3
<1>9. Exclusive'
  <2>1. ASSUME NEW v \in Workers, NEW j \in 1..MaxRequests, Drives(v, j)'
        PROVE  Drives(v, j)
    BY <1>2, <1>3, <2>1 DEF Drives, Active
  <2> QED
    BY <2>1, ExclusiveKept DEF Sole
<1> QED
  BY <1>5, <1>6, <1>7, <1>8, <1>9 DEF Sole

\* What a file operation publishes is the operation's effect, and one of the
\* ways in which a deployment may leave the releases.
LEMMA ActivateTells ==
    ASSUME NEW f \in FileStates, NEW o \in Operation, o.sha \in Archives, CanActivate(f, o.sha),
           DeployLeft(o, f), NEW g, g = ActivateFunctionRelease(f, o.sha)
    PROVE  /\ g \in FileStates /\ g.current = o.sha /\ o.sha \in g.releases /\ DeployLeft(o, g)
           /\ Consistent(f) => Retained(g)
           /\ o.sha \notin f.releases => g.previous = f.current
<1>1. CASE o.sha \in f.releases
  <2>1. f.current = o.sha /\ g = Switched(f, o.sha)
    BY <1>1 DEF CanActivate, ActivateFunctionRelease
  <2>2. /\ g \in FileStates /\ g.releases = f.releases /\ g.current = f.current
        /\ g.previous = f.previous
    BY <2>1, SwitchedFacts
  <2>3. DeployLeft(o, g)
    BY <2>2 DEF DeployLeft, Fresh
  <2> QED
    BY <1>1, <2>1, <2>2, <2>3 DEF Consistent, Retained
<1>2. CASE o.sha \notin f.releases
  <2>1. /\ g \in FileStates /\ g.releases = (f.releases \cup {o.sha}) \cap {o.sha, f.current}
        /\ g.current = o.sha /\ g.previous = f.current
    BY <1>2, ActivateNew
  <2>2. f.current = o.current
    BY <1>2 DEF DeployLeft, Fresh
  <2>3. DeployLeft(o, g)
    BY <2>1, <2>2 DEF DeployLeft
  <2> QED
    BY <2>1, <2>3 DEF Consistent, Agrees, Retained
<1> QED
  BY <1>1, <1>2

LEMMA UnprunedTells ==
    ASSUME NEW f \in FileStates, NEW o \in Operation, o.sha \in Archives, o.sha \notin f.releases,
           DeployLeft(o, f), NEW g, g = Unpruned(f, o.sha)
    PROVE  /\ g \in FileStates /\ g.current = o.sha /\ g.previous = f.current
           /\ o.sha \in g.releases /\ DeployLeft(o, g) /\ (Consistent(f) => Retained(g))
<1>1. /\ g \in FileStates /\ g.releases = f.releases \cup {o.sha}
      /\ g.current = o.sha /\ g.previous = f.current
  BY UnprunedFacts
<1>2. f.current = o.current
  BY DEF DeployLeft, Fresh
<1>3. DeployLeft(o, g)
  BY <1>1, <1>2 DEF DeployLeft
<1> QED
  BY <1>1, <1>3 DEF Consistent, Agrees, Retained

\* A deployment's file operation that is broken off changes less.
LEMMA DeployBroken ==
    ASSUME files \in FileStates, NEW w \in Workers, Needs(call[w]),
           NEW o \in Operation, o.sha \in Archives, o.sha = call[w].sha, call[w].kind = "DEPLOY",
           DeployLeft(o, files),
           NEW g, g \in Broken(w, SwitchFailed) \/ g \in Broken(w, SwitchCut)
    PROVE  DeployLeft(o, g)
<1> DEFINE c == call[w]
           s == Staged(files, c.sha)
<1>1. ASSUME NEW f \in FileStates, NEW sha \in Archives, DeployLeft(o, f),
             g \in SwitchFailed(f, sha) \/ g \in SwitchCut(f, sha)
      PROVE  DeployLeft(o, g)
  <2>1. /\ Switched(f, sha).releases = f.releases
        /\ Switched(f, sha).current = f.current /\ Switched(f, sha).previous = f.previous
    BY SwitchedFacts
  <2>2. g.releases = f.releases /\ g.current = f.current /\ g.previous = f.previous
    BY <1>1, <2>1 DEF SwitchFailed, SwitchCut, FileStates
  <2> QED
    BY <1>1, <2>2 DEF DeployLeft, Fresh
<1>2. CASE c.at = "restore" /\ CanRestore(files, c.act)
  <2>1. c.act.previous \in Archives
    BY <1>2, FileFields DEF CanRestore, CanSwitch
  <2>2. g \in SwitchFailed(files, c.act.previous) \/ g \in SwitchCut(files, c.act.previous)
    BY <1>2 DEF Broken
  <2> QED
    BY <1>1, <2>1, <2>2
<1>3. CASE c.at = "files" /\ Allowed(w)
  <2>1. s \in FileStates /\ s.releases = files.releases \cup {c.sha}
        /\ s.current = files.current /\ s.previous = files.previous
    BY StagedFacts
  <2>2. DeployLeft(o, s)
    BY <2>1 DEF DeployLeft, Fresh
  <2> HIDE DEF s
  <2>3. \/ g = files \/ g = s
        \/ g \in SwitchFailed(s, c.sha) \/ g \in SwitchCut(s, c.sha)
        \/ c.sha \notin files.releases /\ g = Unpruned(files, c.sha)
    BY <1>3 DEF Broken, s
  <2>4. CASE c.sha \notin files.releases /\ g = Unpruned(files, c.sha)
    BY <2>4, UnprunedTells
  <2> QED
    BY <1>1, <2>1, <2>2, <2>3, <2>4
<1>4. CASE (c.at = "files" /\ ~Allowed(w)) \/ c.at \notin {"files", "restore"}
            \/ (c.at = "restore" /\ ~CanRestore(files, c.act))
  <2>1. Broken(w, SwitchFailed) = {files} /\ Broken(w, SwitchCut) = {files}
    BY <1>4 DEF Broken
  <2> QED
    BY <2>1
<1> QED
  BY <1>2, <1>3, <1>4

\* The facts that the steps of a call start from.
LEMMA CallSole ==
    ASSUME FnInv, Sole, NEW w \in Workers, Active(w)
    PROVE  \E i \in 1..MaxRequests, o \in Operation :
             /\ i = call[w].op /\ o = op[i] /\ o.kind = call[w].kind /\ o.sha = call[w].sha
             /\ o.kind = "DEPLOY" => o.sha \in Archives /\ DeployLeft(o, files)
             /\ call[w] \in Call /\ Needs(call[w]) /\ files \in FileStates /\ torn \in BOOLEAN
             /\ ~torn => Consistent(files)
             /\ CallTells(w)
<1>1. call[w] # None /\ Matched(w) /\ CallTells(w)
  BY DEF Active, FnInv, Sole
<1>2. PICK i \in 1..MaxRequests : i = call[w].op /\ op[i] \in Operation /\ op[i].status = "RUNNING"
  BY Alone
<1>3. PICK o \in Operation : o = op[i] /\ o # None /\ o.kind = call[w].kind /\ o.sha = call[w].sha
  BY <1>1, <1>2 DEF Matched
<1>4. call[w] \in Call /\ Needs(call[w])
  BY <1>1, CallNeeds, TypeFacts DEF FnInv
<1>5. o.kind = "DEPLOY" => o.sha \in Archives
  BY <1>3, <1>4 DEF Needs
<1>6. o.kind = "DEPLOY" => DeployLeft(o, files)
  BY <1>2, <1>3 DEF Sole, OpTells
<1>7. files \in FileStates /\ torn \in BOOLEAN
  BY DEF FnInv, FnTypeOK
<1>8. ~torn => Consistent(files)
  BY DEF FnInv, Sole, Consistent
<1> QED
  BY <1>1, <1>2, <1>3, <1>4, <1>5, <1>6, <1>7, <1>8

\* An error leaves the operation running, and the releases no worse than the
\* history says.
LEMMA ErrorSole ==
    ASSUME FnInv, FnInv', Sole, NEW w \in Workers, Active(w), UNCHANGED managed, OnlyCall(w),
           \/ call'[w] = None
           \/ /\ call'[w] \in Call /\ Keeps(call[w], call'[w]) /\ call'[w].alive
              /\ call'[w].at = "answered" /\ call'[w].answer = "error",
           \/ files' = files /\ torn' = torn
           \/ Break(Broken(w, SwitchFailed)) \/ Break(Broken(w, SwitchCut)),
           loaded' = Unknown \/ call[w].at = "files"
    PROVE  Sole'
<1>1. PICK i \in 1..MaxRequests, o \in Operation :
        /\ i = call[w].op /\ o = op[i] /\ o.kind = call[w].kind /\ o.sha = call[w].sha
        /\ o.kind = "DEPLOY" => o.sha \in Archives /\ DeployLeft(o, files)
        /\ call[w] \in Call /\ Needs(call[w]) /\ files \in FileStates /\ torn \in BOOLEAN
        /\ ~torn => Consistent(files)
        /\ CallTells(w)
  BY CallSole
<1>2. op' = op /\ call[w] # None
  BY DEF managed, Active
<1>3. (files' = files /\ torn' = torn) \/ (torn' = (torn \/ files' # files))
  BY DEF Break
<1>4. ~torn' => ~torn /\ files' = files
  BY <1>1, <1>3
<1>5. ~torn' => Retained(files')
  BY <1>1, <1>4 DEF Consistent
<1>6. o.kind = "DEPLOY" => DeployLeft(o, files')
  <2>1. \/ files' = files
        \/ files' \in Broken(w, SwitchFailed) \/ files' \in Broken(w, SwitchCut)
    BY DEF Break
  <2> QED
    BY <1>1, <2>1, DeployBroken
<1>7. Harmless(o)'
  <2>1. CASE loaded' = Unknown
    BY <2>1 DEF Harmless
  <2>2. CASE call[w].at = "files"
    <3>1. o.again \/ Fresh(o, files)
      BY <1>1, <1>2, <2>2 DEF CallTells
    <3>2. torn' \/ files' = files
      BY <1>1, <1>3
    <3> QED
      BY <3>1, <3>2 DEF Harmless, RolledTo, Fresh
  <2> QED
    BY <2>1, <2>2
<1>8. CallTells(w)'
  <2>1. CASE call'[w] = None
    BY <2>1 DEF CallTells
  <2>2. CASE /\ call'[w] \in Call /\ Keeps(call[w], call'[w]) /\ call'[w].alive
             /\ call'[w].at = "answered" /\ call'[w].answer = "error"
    <3>1. call'[w].op = i /\ op'[i] = o
      BY <1>1, <1>2, <2>2 DEF Keeps
    <3> QED
      BY <1>7, <2>2, <3>1 DEF CallTells
  <2> QED
    BY <2>1, <2>2
<1>9. op'[i] = o /\ (op[i].kind = "DEPLOY" => DeployLeft(op[i], files)')
  BY <1>1, <1>2, <1>6
<1>10. call'[w] # None => call'[w].op = i
  BY <1>1 DEF Keeps
<1> QED
  BY <1>1, <1>5, <1>8, <1>9, <1>10, ProvisionerSole

LEMMA AnswerErrorSole ==
    ASSUME FnInv, FnInv', Sole, NEW w \in Workers, Active(w), UNCHANGED managed,
           Answer(w, "error"),
           (files' = files /\ torn' = torn) \/ Break(Broken(w, SwitchFailed)),
           loaded' = Unknown \/ call[w].at = "files"
    PROVE  Sole'
<1>1. FnTypeOK /\ call[w] # None
  BY DEF FnInv, Active
<1>2. /\ OnlyCall(w)
      /\ call[w].alive => /\ call'[w] \in Call /\ Keeps(call[w], call'[w])
                          /\ call'[w].at = "answered" /\ call'[w].answer = "error"
      /\ ~call[w].alive => call'[w] = None
  BY <1>1, AnswerStep
<1>3. \/ call'[w] = None
      \/ /\ call'[w] \in Call /\ Keeps(call[w], call'[w]) /\ call'[w].alive
         /\ call'[w].at = "answered" /\ call'[w].answer = "error"
  <2>1. CASE call[w].alive
    BY <1>2, <2>1 DEF Keeps
  <2>2. CASE ~call[w].alive
    BY <1>2, <2>2
  <2> QED
    BY <2>1, <2>2
<1> QED
  BY <1>2, <1>3, ErrorSole

\* Deploy, Rollback and Delete that go on to the restart remember what they
\* published.
LEMMA FileOperationGoesOn ==
    ASSUME FnInv, NEW w \in Workers, FileOperation(w)
    PROVE  \/ /\ Allowed(w) /\ Result(w) \in FileStates
              /\ OnlyCall(w) /\ call'[w] \in Call /\ Keeps(call[w], call'[w]) /\ call'[w].at = "restart"
              /\ call'[w].act.current = Result(w).current /\ call'[w].act.previous = Result(w).previous
              /\ \/ Replace(Result(w))
                 \/ /\ call[w].kind = "DEPLOY" /\ call[w].sha \notin files.releases
                    /\ Replace(Unpruned(files, call[w].sha))
           \/ Answer(w, "error") /\ files' = files /\ torn' = torn
           \/ Answer(w, "error") /\ Break(Broken(w, SwitchFailed))
<1> DEFINE c == call[w]
           after == Result(w)
           act == [current |-> after.current, previous |-> after.previous]
<1>1. c # None /\ c \in Call /\ Needs(c) /\ files \in FileStates /\ FnTypeOK
  BY CallNeeds, TypeFacts DEF FileOperation, At, FnInv, FnTypeOK
<1>2. \/ /\ Allowed(w) /\ call' = [call EXCEPT ![w].at = "restart", ![w].act = act]
         /\ \/ Replace(after)
            \/ c.kind = "DEPLOY" /\ c.sha \notin files.releases /\ Replace(Unpruned(files, c.sha))
      \/ Answer(w, "error") /\ files' = files /\ torn' = torn
      \/ Answer(w, "error") /\ Break(Broken(w, SwitchFailed))
  BY DEF FileOperation
<1>3. ASSUME Allowed(w), call' = [call EXCEPT ![w].at = "restart", ![w].act = act]
      PROVE  /\ after \in FileStates
             /\ OnlyCall(w) /\ call'[w] \in Call /\ Keeps(call[w], call'[w]) /\ call'[w].at = "restart"
             /\ call'[w].act.current = after.current /\ call'[w].act.previous = after.previous
  <2>1. after \in FileStates
    BY <1>1, <1>3, ResultFacts
  <2>2. act \in Published /\ act.current = after.current /\ act.previous = after.previous
    BY <2>1, FileFields DEF Published
  <2> DEFINE d == [c EXCEPT !.at = "restart", !.act = act]
  <2>3. d \in Call /\ Keeps(c, d) /\ d.at = "restart" /\ d.act = act
    BY <1>1, <2>2, CallRestarts
  <2>4. call' = [call EXCEPT ![w] = d]
    BY <1>3
  <2> HIDE DEF d, act
  <2>5. call'[w] = d /\ OnlyCall(w)
    BY <1>1, <2>4 DEF FnTypeOK, OnlyCall
  <2> QED
    BY <2>1, <2>2, <2>3, <2>5
<1> QED
  BY <1>2, <1>3

LEMMA FileOperationSole ==
    ASSUME FnInv, Sole, NEW w \in Workers, FileOperation(w)
    PROVE  Sole'
<1>1. Active(w) /\ call[w].at = "files" /\ UNCHANGED managed /\ loaded' = loaded /\ call[w] # None
  BY DEF FileOperation, At, Active
<1>2. FnInv'
  BY FileOperationKeeps
<1>3. CASE Answer(w, "error") /\ files' = files /\ torn' = torn
  BY <1>1, <1>2, <1>3, AnswerErrorSole
<1>4. CASE Answer(w, "error") /\ Break(Broken(w, SwitchFailed))
  BY <1>1, <1>2, <1>4, AnswerErrorSole
<1>5. CASE /\ Allowed(w) /\ Result(w) \in FileStates
           /\ OnlyCall(w) /\ call'[w] \in Call /\ Keeps(call[w], call'[w]) /\ call'[w].at = "restart"
           /\ call'[w].act.current = Result(w).current /\ call'[w].act.previous = Result(w).previous
           /\ \/ Replace(Result(w))
              \/ /\ call[w].kind = "DEPLOY" /\ call[w].sha \notin files.releases
                 /\ Replace(Unpruned(files, call[w].sha))
  <2>1. PICK i \in 1..MaxRequests, o \in Operation :
          /\ i = call[w].op /\ o = op[i] /\ o.kind = call[w].kind /\ o.sha = call[w].sha
          /\ o.kind = "DEPLOY" => o.sha \in Archives /\ DeployLeft(o, files)
          /\ call[w] \in Call /\ Needs(call[w]) /\ files \in FileStates /\ torn \in BOOLEAN
          /\ ~torn => Consistent(files)
          /\ CallTells(w)
    BY <1>1, CallSole
  <2>2. op' = op
    BY <1>1 DEF managed
  <2>3. o.again \/ Fresh(o, files)
    BY <1>1, <2>1 DEF CallTells
  <2>4. PICK g \in FileStates :
          /\ Replace(g) /\ g.current = Result(w).current /\ g.previous = Result(w).previous
          /\ Effect(o, g) /\ (o.kind = "DEPLOY" => DeployLeft(o, g))
          /\ Consistent(files) => Retained(g)
    <3>1. CASE call[w].kind = "DEPLOY"
      <4>1. CanActivate(files, o.sha) /\ Result(w) = ActivateFunctionRelease(files, o.sha)
        BY <1>5, <2>1, <3>1 DEF Allowed, Result
      <4>2. PICK a : a = Result(w)
        OBVIOUS
      <4>3. /\ a \in FileStates /\ a.current = o.sha /\ o.sha \in a.releases /\ DeployLeft(o, a)
            /\ Consistent(files) => Retained(a)
            /\ o.sha \notin files.releases => a.previous = files.current
        BY <2>1, <3>1, <4>1, <4>2, ActivateTells
      <4>4. CASE Replace(Result(w))
        BY <2>1, <3>1, <4>2, <4>3, <4>4 DEF Effect
      <4>5. CASE call[w].sha \notin files.releases /\ Replace(Unpruned(files, call[w].sha))
        <5>1. PICK u : u = Unpruned(files, o.sha)
          OBVIOUS
        <5>2. /\ u \in FileStates /\ u.current = o.sha /\ u.previous = files.current
              /\ o.sha \in u.releases /\ DeployLeft(o, u) /\ (Consistent(files) => Retained(u))
          BY <2>1, <3>1, <4>5, <5>1, UnprunedTells
        <5> QED
          BY <2>1, <3>1, <4>2, <4>3, <4>5, <5>1, <5>2 DEF Effect
      <4> QED
        BY <1>5, <4>4, <4>5
    <3>2. CASE call[w].kind = "ROLLBACK"
      <4>1. CanRollback(files) /\ Result(w) = RollbackFunctionRelease(files) /\ Replace(Result(w))
        BY <1>5, <3>2 DEF Allowed, Result
      <4>2. Result(w).current = files.previous
        BY <2>1, <4>1, RollbackFacts
      <4>3. Consistent(files) => Retained(Result(w))
        BY <2>1, <4>1, RollbackConsistent DEF Consistent
      <4>4. Effect(o, Result(w))
        BY <2>1, <2>3, <3>2, <4>2 DEF Effect, Fresh
      <4> QED
        BY <1>5, <2>1, <3>2, <4>1, <4>3, <4>4
    <3>3. CASE call[w].kind = "DELETE"
      <4>1. Result(w) = NoFiles /\ Replace(Result(w))
        BY <1>5, <3>3 DEF Result
      <4>2. Effect(o, Result(w)) /\ Retained(Result(w))
        BY <2>1, <3>3, <4>1, NoFilesFacts DEF Effect, Consistent
      <4> QED
        BY <1>5, <2>1, <3>3, <4>1, <4>2
    <3>4. call[w].kind \in {"DEPLOY", "ROLLBACK", "DELETE"}
      BY <2>1 DEF Call, Kinds
    <3> QED
      BY <3>1, <3>2, <3>3, <3>4
  <2>5. files' = g
    BY <2>4 DEF Replace
  <2>6. ~torn' => Retained(files')
    <3>1. ~torn' => ~torn \/ Consistent(g)
      BY <2>4 DEF Replace
    <3> QED
      BY <2>1, <2>4, <2>5, <3>1 DEF Consistent
  <2>7. call'[w].op = i /\ op'[i] = o
    BY <1>5, <2>1, <2>2 DEF Keeps
  <2>8. CallTells(w)'
    <3>1. op'[i].status = "RUNNING"
      BY <1>1, <2>1, <2>2 DEF CallTells
    <3>2. files'.current = call'[w].act.current /\ files'.previous = call'[w].act.previous
      BY <1>5, <2>4, <2>5
    <3> QED
      BY <1>5, <2>4, <2>5, <2>7, <3>1, <3>2 DEF CallTells
  <2> QED
    BY <1>1, <1>2, <1>5, <2>1, <2>4, <2>5, <2>6, <2>7, <2>8, ProvisionerSole
<1> QED
  BY <1>3, <1>4, <1>5, FileOperationGoesOn

\* A call that goes on or answers without touching the directories.
LEMMA SameFilesSole ==
    ASSUME FnInv, FnInv', Sole, NEW w \in Workers, Active(w), UNCHANGED managed,
           files' = files, torn' = torn, OnlyCall(w),
           call'[w] # None => call'[w].op = call[w].op, CallTells(w)'
    PROVE  Sole'
<1>1. PICK i \in 1..MaxRequests, o \in Operation :
        /\ i = call[w].op /\ o = op[i]
        /\ o.kind = "DEPLOY" => DeployLeft(o, files)
        /\ ~torn => Consistent(files)
  BY CallSole
<1>2. op' = op
  BY DEF managed
<1>3. op[i].kind = "DEPLOY" => DeployLeft(op[i], files)'
  BY <1>1, <1>2
<1>4. ~torn' => Retained(files')
  BY <1>1 DEF Consistent
<1>5. call'[w] # None => call'[w].op = i
  BY <1>1
<1> QED
  BY <1>1, <1>3, <1>4, <1>5, ProvisionerSole

LEMMA RestartSole ==
    ASSUME FnInv, Sole, NEW w \in Workers, Restart(w)
    PROVE  Sole'
<1>1. /\ Active(w) /\ call[w] # None /\ call[w].at = "restart" /\ UNCHANGED managed
      /\ files' = files /\ torn' = torn /\ FnTypeOK
  BY DEF Restart, At, Active, FnInv
<1>2. FnInv'
  BY RestartKeeps
<1>3. \/ RestartOk(w) /\ Answer(w, "ok")
      \/ RestartFails(w) /\ Answer(w, "error")
      \/ RestartFails(w) /\ call[w].kind = "DEPLOY" /\ Goto(w, "restore")
  BY DEF Restart
<1>4. PICK i \in 1..MaxRequests, o \in Operation :
        i = call[w].op /\ o = op[i] /\ o.kind = call[w].kind /\ CallTells(w)
  BY <1>1, CallSole
<1>5. /\ op' = op /\ o.status = "RUNNING" /\ Effect(o, files)
      /\ files.current = call[w].act.current /\ files.previous = call[w].act.previous
  BY <1>1, <1>4 DEF managed, CallTells
<1>6. CASE RestartOk(w) /\ Answer(w, "ok")
  <2>1. /\ call[w].alive /\ OnlyCall(w) /\ call'[w] \in Call /\ Keeps(call[w], call'[w])
        /\ call'[w].at = "answered" /\ call'[w].answer = "ok"
    BY <1>1, <1>6, AnswerStep DEF RestartOk
  <2>2. call'[w].op = i /\ op'[i] = o /\ call'[w].alive
    BY <1>4, <1>5, <2>1 DEF Keeps
  <2>3. CallTells(w)'
    BY <1>1, <1>5, <2>1, <2>2 DEF CallTells
  <2> QED
    BY <1>1, <1>2, <1>4, <2>1, <2>2, <2>3, SameFilesSole
<1>7. CASE RestartFails(w) /\ Answer(w, "error")
  BY <1>1, <1>2, <1>7, AnswerErrorSole DEF RestartFails
<1>8. CASE RestartFails(w) /\ call[w].kind = "DEPLOY" /\ Goto(w, "restore")
  <2>1. /\ OnlyCall(w) /\ call'[w] \in Call /\ Keeps(call[w], call'[w])
        /\ call'[w].at = "restore" /\ call'[w].act = call[w].act
    BY <1>1, <1>8, GotoStep
  <2>2. call'[w].op = i /\ op'[i] = o /\ loaded' = Unknown
    BY <1>4, <1>5, <1>8, <2>1 DEF Keeps, RestartFails
  <2>3. CallTells(w)'
    BY <1>1, <1>5, <2>1, <2>2 DEF CallTells
  <2> QED
    BY <1>1, <1>2, <1>4, <2>1, <2>2, <2>3, SameFilesSole
<1> QED
  BY <1>3, <1>6, <1>7, <1>8

LEMMA RestartAgainSole ==
    ASSUME FnInv, Sole, NEW w \in Workers, RestartAgain(w)
    PROVE  Sole'
<1>1. /\ Active(w) /\ call[w] # None /\ call[w].at = "again" /\ UNCHANGED managed
      /\ files' = files /\ torn' = torn /\ FnTypeOK
  BY DEF RestartAgain, At, Active, FnInv
<1>2. FnInv'
  BY RestartAgainKeeps
<1>3. \/ RestartOk(w) /\ Answer(w, "rolledback")
      \/ RestartFails(w) /\ Answer(w, "error")
  BY DEF RestartAgain
<1>4. PICK i \in 1..MaxRequests, o \in Operation :
        i = call[w].op /\ o = op[i] /\ o.kind = call[w].kind /\ CallTells(w)
  BY <1>1, CallSole
<1>5. op' = op /\ RolledTo(o) /\ call[w].kind = "DEPLOY"
  BY <1>1, <1>4 DEF managed, CallTells, FnInv, Matched
<1>6. CASE RestartOk(w) /\ Answer(w, "rolledback")
  <2>1. /\ call[w].alive /\ OnlyCall(w) /\ call'[w] \in Call /\ Keeps(call[w], call'[w])
        /\ call'[w].at = "answered" /\ call'[w].answer = "rolledback"
    BY <1>1, <1>6, AnswerStep DEF RestartOk
  <2>2. call'[w].op = i /\ op'[i] = o /\ call'[w].alive /\ call'[w].kind = "DEPLOY"
    BY <1>4, <1>5, <2>1 DEF Keeps
  <2>3. RolledTo(o)' /\ Harmless(o)'
    BY <1>1, <1>5 DEF RolledTo, Harmless
  <2>4. CallTells(w)'
    BY <2>1, <2>2, <2>3 DEF CallTells
  <2> QED
    BY <1>1, <1>2, <1>4, <2>1, <2>2, <2>4, SameFilesSole
<1>7. CASE RestartFails(w) /\ Answer(w, "error")
  BY <1>1, <1>2, <1>7, AnswerErrorSole DEF RestartFails
<1> QED
  BY <1>3, <1>6, <1>7

\* Restoring swaps the two releases back, whatever runs of the deployment
\* there were before.
LEMMA RestoreTells ==
    ASSUME NEW f \in FileStates, NEW act \in Published, CanRestore(f, act),
           NEW o \in Operation, o.kind = "DEPLOY", Effect(o, f), DeployLeft(o, f),
           f.current = act.current, f.previous = act.previous,
           NEW g, g = RestoreFunctionRelease(f, act)
    PROVE  /\ g \in FileStates /\ DeployLeft(o, g) /\ Retained(g)
           /\ g.current = o.current \/ (o.sha = o.current /\ g.current = o.previous)
<1>1. /\ g \in FileStates /\ g.releases = f.releases
      /\ g.current = f.previous /\ g.previous = f.current
  BY RestoreFacts
<1>2. f.current = o.sha /\ o.sha \in f.releases
  BY DEF Effect
<1>3. DeployLeft(o, g)
  BY <1>1, <1>2 DEF DeployLeft, Fresh
<1>4. Retained(g)
  BY <1>1, <1>2 DEF Retained
<1>5. g.current = o.current \/ (o.sha = o.current /\ g.current = o.previous)
  BY <1>1, <1>2 DEF DeployLeft, Fresh
<1> QED
  BY <1>1, <1>3, <1>4, <1>5

LEMMA RestoreSole ==
    ASSUME FnInv, Sole, NEW w \in Workers, Restore(w)
    PROVE  Sole'
<1>1. /\ Active(w) /\ call[w] # None /\ call[w].at = "restore" /\ UNCHANGED managed
      /\ loaded' = loaded /\ FnTypeOK
  BY DEF Restore, At, Active, FnInv
<1>2. FnInv'
  BY RestoreKeeps
<1>3. \/ /\ CanRestore(files, call[w].act) /\ Goto(w, "again")
         /\ Replace(RestoreFunctionRelease(files, call[w].act))
      \/ Answer(w, "error") /\ files' = files /\ torn' = torn
      \/ Answer(w, "error") /\ Break(Broken(w, SwitchFailed))
  BY DEF Restore
<1>4. PICK i \in 1..MaxRequests, o \in Operation :
        /\ i = call[w].op /\ o = op[i] /\ o.kind = call[w].kind
        /\ o.kind = "DEPLOY" => DeployLeft(o, files)
        /\ Needs(call[w]) /\ files \in FileStates /\ CallTells(w)
  BY <1>1, CallSole
<1>5. /\ op' = op /\ o.status = "RUNNING" /\ Effect(o, files) /\ loaded = Unknown
      /\ files.current = call[w].act.current /\ files.previous = call[w].act.previous
  BY <1>1, <1>4 DEF managed, CallTells
<1>6. o.kind = "DEPLOY" /\ call[w].act \in Published
  BY <1>1, <1>4 DEF FnInv, Matched, Needs
<1>7. CASE /\ CanRestore(files, call[w].act) /\ Goto(w, "again")
           /\ Replace(RestoreFunctionRelease(files, call[w].act))
  <2>1. PICK g : g = RestoreFunctionRelease(files, call[w].act)
    OBVIOUS
  <2>2. /\ DeployLeft(o, g) /\ Retained(g)
        /\ g.current = o.current \/ (o.sha = o.current /\ g.current = o.previous)
    BY <1>4, <1>5, <1>6, <1>7, <2>1, RestoreTells
  <2>3. files' = g
    BY <1>7, <2>1 DEF Replace
  <2>4. /\ OnlyCall(w) /\ call'[w] \in Call /\ Keeps(call[w], call'[w]) /\ call'[w].at = "again"
    BY <1>1, <1>7, GotoStep
  <2>5. call'[w].op = i /\ op'[i] = o
    BY <1>4, <1>5, <2>4 DEF Keeps
  <2>6. RolledTo(o)'
    BY <1>6, <2>2, <2>3 DEF RolledTo
  <2>7. CallTells(w)'
    BY <1>1, <1>5, <2>4, <2>5, <2>6 DEF CallTells
  <2>8. op[i].kind = "DEPLOY" => DeployLeft(op[i], files)'
    BY <2>2, <2>3, <2>5
  <2> QED
    BY <1>1, <1>2, <1>4, <2>2, <2>3, <2>4, <2>5, <2>7, <2>8, ProvisionerSole
<1>8. CASE Answer(w, "error") /\ ((files' = files /\ torn' = torn) \/ Break(Broken(w, SwitchFailed)))
  BY <1>1, <1>2, <1>5, <1>8, AnswerErrorSole
<1> QED
  BY <1>3, <1>7, <1>8

LEMMA ProvisionerRestartSole ==
    ASSUME FnInv, Sole, ProvisionerRestart
    PROVE  Sole'
<1>1. FnInv' /\ UNCHANGED managed
  BY ProvisionerRestartKeeps DEF ProvisionerRestart
<1>2. PICK w \in Workers : Active(w) /\ Break(Broken(w, SwitchCut))
  BY Zenon DEF ProvisionerRestart
<1>3. call[w] # None /\ call[w] \in Call /\ \A v \in Workers : v # w => call[v] = None
  BY <1>2, Alone, CallNeeds DEF Active, Needs
<1>4. \A v \in Workers :
        call'[v] = CASE ~Active(v) -> call[v]
                     [] Active(v) /\ call[v].alive -> [call[v] EXCEPT !.at = "answered", !.answer = "error"]
                     [] OTHER -> None
  BY Zenon DEF ProvisionerRestart
<1>5. \A v \in Workers : v # w => call'[v] = call[v]
  BY <1>3, <1>4 DEF Active
<1>6. OnlyCall(w)
  <2>1. call \in [Workers -> {None} \cup Call] /\ call' \in [Workers -> {None} \cup Call]
    BY <1>1 DEF FnInv, FnTypeOK
  <2> QED
    BY <1>5, <2>1 DEF OnlyCall
<1>7. \/ call'[w] = None
      \/ /\ call'[w] \in Call /\ Keeps(call[w], call'[w]) /\ call'[w].alive
         /\ call'[w].at = "answered" /\ call'[w].answer = "error"
  <2>1. CASE call[w].alive
    <3> DEFINE d == [call[w] EXCEPT !.at = "answered", !.answer = "error"]
    <3>1. d \in Call /\ Keeps(call[w], d) /\ d.at = "answered" /\ d.answer = "error"
      BY <1>3, CallAnswers
    <3>2. call'[w] = d
      BY <1>2, <1>4, <2>1
    <3> HIDE DEF d
    <3> QED
      BY <2>1, <3>1, <3>2 DEF Keeps
  <2>2. CASE ~call[w].alive
    BY <1>2, <1>4, <2>2
  <2> QED
    BY <2>1, <2>2
<1>8. loaded' = Unknown \/ call[w].at = "files"
  BY <1>2 DEF ProvisionerRestart
<1> QED
  BY <1>1, <1>2, <1>6, <1>7, <1>8, ErrorSole

LEMMA ManagerRestartSole ==
    ASSUME FnInv, Sole, ManagerRestart
    PROVE  Sole'
<1>1. op' = op /\ spool' = spool /\ files' = files /\ loaded' = loaded /\ torn' = torn
  BY DEF ManagerRestart, provisioned
<1>2. /\ work' = [w \in Workers |-> None]
      /\ \A w \in Workers :
           IF Active(w)
           THEN /\ call'[w] \in Call /\ call'[w].op = call[w].op /\ call'[w].kind = call[w].kind
                /\ call'[w].sha = call[w].sha /\ call'[w].at = call[w].at
                /\ call'[w].act = call[w].act /\ call'[w].alive = FALSE
           ELSE call'[w] = None
  BY ManagerRestartCalls
<1>3. \A w \in Workers : work'[w] = None
  BY <1>2
<1>4. ASSUME NEW w \in Workers
      PROVE  CallTells(w)' /\ StatusAwaited(w)' /\ WorkTells(w)'
  <2>1. StatusAwaited(w)' /\ WorkTells(w)'
    BY <1>3 DEF StatusAwaited, WorkTells
  <2>2. CASE ~Active(w)
    BY <1>2, <2>1, <2>2 DEF CallTells
  <2>3. CASE Active(w)
    <3>1. CallTells(w) /\ call[w] # None /\ call[w].at # "answered"
      BY <2>3 DEF Sole, Active
    <3>2. PICK i, o : i = call[w].op /\ o = op[i]
      OBVIOUS
    <3>3. RolledTo(o)' <=> RolledTo(o)
      BY <1>1 DEF RolledTo
    <3> QED
      BY <1>1, <1>2, <2>1, <2>3, <3>1, <3>2, <3>3 DEF CallTells
  <2> QED
    BY <2>2, <2>3
<1>5. ASSUME NEW i \in 1..MaxRequests
      PROVE  OpTells(i)'
  <2>1. OpTells(i) /\ (Last(i)' <=> Last(i))
    BY <1>1, LastKept DEF Sole
  <2> QED
    BY <1>1, <2>1 DEF OpTells, Stuck, Harmless, RolledTo
<1>6. Exclusive'
  <2>1. ASSUME NEW v \in Workers, NEW j \in 1..MaxRequests, Drives(v, j)'
        PROVE  Drives(v, j)
    BY <1>2, <1>3, <2>1 DEF Drives, Active
  <2> QED
    BY <2>1, ExclusiveKept DEF Sole
<1> QED
  BY <1>1, <1>4, <1>5, <1>6 DEF Sole

-----------------------------------------------------------------------------
(* The Manager's steps, when nobody else drives the operation.             *)

\* A step of one place, about one operation, is no news for the others.
LEMMA OthersSole ==
    ASSUME FnInv, Sole, NEW w \in Workers, OnlyWork(w), OnlyCall(w), UNCHANGED provisioned,
           NEW i \in 1..MaxRequests, OnlyOp(i),
           \A j \in 1..MaxRequests : j # i => (j \in spool' <=> j \in spool),
           \A v \in Workers : v # w => ~Drives(v, i),
           \A j \in 1..MaxRequests : j # i /\ Last(j)' => Last(j),
           \A j \in 1..MaxRequests :
              j # i /\ op[j] # None /\ op[j].status \in {"QUEUED", "RUNNING"} => Last(j)'
    PROVE  /\ \A j \in 1..MaxRequests : j # i => OpTells(j)'
           /\ \A v \in Workers : v # w => StatusAwaited(v)' /\ WorkTells(v)' /\ CallTells(v)'
<1>1. files' = files /\ loaded' = loaded /\ torn' = torn
  BY DEF provisioned
<1>2. \A o : (RolledTo(o)' <=> RolledTo(o)) /\ (Harmless(o)' <=> Harmless(o))
  BY <1>1 DEF RolledTo, Harmless
<1>3. ASSUME NEW j \in 1..MaxRequests, j # i
      PROVE  op'[j] = op[j] /\ OpTells(j)' /\ (Stuck(j)' <=> Stuck(j))
  <2>1. op'[j] = op[j] /\ OpTells(j) /\ (Stuck(j)' <=> Stuck(j))
    BY <1>3 DEF OnlyOp, Sole, Stuck
  <2>2. OpTells(j)'
    BY <1>1, <1>2, <1>3, <2>1 DEF OpTells
  <2> QED
    BY <2>1, <2>2
<1>4. ASSUME NEW v \in Workers, v # w
      PROVE  StatusAwaited(v)' /\ WorkTells(v)' /\ CallTells(v)'
  <2>1. /\ work'[v] = work[v] /\ call'[v] = call[v] /\ ~Drives(v, i)
        /\ StatusAwaited(v) /\ WorkTells(v) /\ CallTells(v)
    BY <1>4 DEF OnlyWork, OnlyCall, FnInv, FnTypeOK, Sole
  <2>2. ASSUME work[v] # None
        PROVE  StatusAwaited(v)' /\ WorkTells(v)'
    <3>1. PICK j \in 1..MaxRequests : j = work[v].op /\ j # i
      BY <2>1, <2>2, WorkFacts DEF Drives
    <3>2. op'[j] = op[j] /\ (Stuck(j)' <=> Stuck(j)) /\ (j \in spool' <=> j \in spool) /\ (Last(j)' => Last(j))
      BY <1>3, <3>1
    <3>3. StatusAwaited(v)'
      BY <2>1, <2>2, <3>1, <3>2 DEF StatusAwaited
    <3>4. WorkTells(v)'
      BY <1>1, <1>2, <2>1, <2>2, <3>1, <3>2 DEF WorkTells
    <3> QED
      BY <3>3, <3>4
  <2>3. ASSUME work[v] = None
        PROVE  StatusAwaited(v)' /\ WorkTells(v)'
    BY <2>1, <2>3 DEF StatusAwaited, WorkTells
  <2>4. StatusAwaited(v)' /\ WorkTells(v)'
    BY <2>2, <2>3
  <2>5. CallTells(v)'
    <3>1. CASE call[v] = None
      BY <2>1, <3>1 DEF CallTells
    <3>2. CASE call[v] # None
      <4>1. PICK j \in 1..MaxRequests : j = call[v].op /\ j # i
        BY <2>1, <3>2, CallsDriven
      <4>2. op'[j] = op[j]
        BY <1>3, <4>1
      <4> QED
        BY <1>1, <1>2, <2>1, <3>2, <4>1, <4>2 DEF CallTells
    <3> QED
      BY <3>1, <3>2
  <2> QED
    BY <2>4, <2>5
<1> QED
  BY <1>3, <1>4

LEMMA RunSole ==
    ASSUME FnInv, Sole, NEW w \in Workers, OnlyWork(w), OnlyCall(w), UNCHANGED provisioned,
           NEW i \in 1..MaxRequests, Drives(w, i), OnlyOp(i), op[i] # None, op'[i] # None,
           \A j \in 1..MaxRequests : j # i => (j \in spool' <=> j \in spool),
           work'[w] # None => work'[w].op = i, call'[w] # None => call'[w].op = i,
           OpTells(i)', StatusAwaited(w)', WorkTells(w)', CallTells(w)'
    PROVE  Sole'
<1>1. \A j \in 1..MaxRequests : op'[j] = None <=> op[j] = None
  BY DEF OnlyOp
<1>2. \A j \in 1..MaxRequests : Last(j)' <=> Last(j)
  BY <1>1, LastKept
<1>3. \A v \in Workers : v # w => ~Drives(v, i)
  BY DEF Sole, Exclusive
<1>4. \A j \in 1..MaxRequests :
        j # i /\ op[j] # None /\ op[j].status \in {"QUEUED", "RUNNING"} => Last(j)'
  BY <1>2 DEF Sole, OpTells
<1>5. /\ \A j \in 1..MaxRequests : j # i => OpTells(j)'
      /\ \A v \in Workers : v # w => StatusAwaited(v)' /\ WorkTells(v)' /\ CallTells(v)'
  BY <1>2, <1>3, <1>4, OthersSole
<1>6. Exclusive'
  <2>1. ASSUME NEW v \in Workers, NEW j \in 1..MaxRequests, Drives(v, j)'
        PROVE  Drives(v, j)
    <3>1. CASE v = w
      BY <2>1, <3>1 DEF Drives, Active
    <3>2. CASE v # w
      <4>1. work'[v] = work[v] /\ call'[v] = call[v]
        BY <3>2 DEF OnlyWork, OnlyCall, FnInv, FnTypeOK
      <4> QED
        BY <2>1, <4>1 DEF Drives, Active
    <3> QED
      BY <3>1, <3>2
  <2> QED
    BY <2>1, ExclusiveKept DEF Sole
<1>7. ~torn' => Retained(files')
  BY DEF Sole, provisioned
<1>8. \A j \in 1..MaxRequests : OpTells(j)'
  BY <1>5
<1>9. \A v \in Workers : StatusAwaited(v)' /\ WorkTells(v)' /\ CallTells(v)'
  BY <1>5
<1> QED
  BY <1>6, <1>7, <1>8, <1>9 DEF Sole

\* The facts that the steps of a goroutine start from.
LEMMA WorkSole ==
    ASSUME FnInv, Sole, NEW w \in Workers, work[w] # None
    PROVE  \E i \in 1..MaxRequests, o \in Operation :
             /\ i = work[w].op /\ o = op[i] /\ o # None /\ Drives(w, i)
             /\ work[w] \in Goroutine
             /\ OpTells(i) /\ StatusAwaited(w) /\ WorkTells(w) /\ CallTells(w)
             /\ work[w].at # "wait" => call[w] = None
<1>1. PICK i \in 1..MaxRequests, o \in Operation : i = work[w].op /\ o = op[i] /\ o # None
  BY WorkFacts
<1>2. work[w] \in Goroutine /\ (work[w].at # "wait" => call[w] = None)
  BY WorkFacts
<1>3. Drives(w, i)
  BY <1>1 DEF Drives
<1> QED
  BY <1>1, <1>2, <1>3 DEF Sole

\* Nothing changes but the goroutine.
LEMMA GoesOnSole ==
    ASSUME FnInv, Sole, NEW w \in Workers, OnlyWork(w), OnlyCall(w), UNCHANGED <<provisioned, op, spool>>,
           work[w] # None, NEW i, i = work[w].op,
           work'[w] # None => work'[w].op = i, call'[w] # None => call'[w].op = i,
           StatusAwaited(w)', WorkTells(w)', CallTells(w)'
    PROVE  Sole'
<1>1. i \in 1..MaxRequests /\ op[i] # None /\ Drives(w, i) /\ OpTells(i)
  BY WorkSole
<1>2. op' = op /\ spool' = spool /\ UNCHANGED provisioned
  OBVIOUS
<1>3. files' = files /\ loaded' = loaded /\ torn' = torn
  BY <1>2 DEF provisioned
<1>4. \A j \in 1..MaxRequests : Last(j)' <=> Last(j)
  BY <1>2, LastKept
<1>5. OpTells(i)'
  BY <1>1, <1>2, <1>3, <1>4 DEF OpTells, Stuck, Harmless, RolledTo
<1>6. OnlyOp(i) /\ op'[i] # None
  BY <1>1, <1>2 DEF OnlyOp
<1> QED
  BY <1>1, <1>2, <1>5, <1>6, RunSole

LEMMA requireStatusSole ==
    ASSUME FnInv, Sole, NEW w \in Workers, requireStatus(w)
    PROVE  Sole'
<1> DEFINE r == work[w]
<1>1. /\ r # None /\ r.at \in Changes /\ ~r.checked
      /\ OnlyWork(w) /\ UNCHANGED <<provisioned, call, op, spool, requests, faults, shared>>
      /\ \/ /\ op[r.op].status = Requires(r.at) /\ work'[w] \in Goroutine
            /\ work'[w].at = r.at /\ work'[w].checked = TRUE
            /\ work'[w].op = r.op /\ work'[w].rolled = r.rolled
         \/ /\ op[r.op].status # Requires(r.at) /\ Refused(r.at) = "end" /\ work'[w] = None
         \/ /\ op[r.op].status # Requires(r.at) /\ Refused(r.at) \in Changes \cup {"call"}
            /\ work'[w] \in Goroutine /\ work'[w].at = Refused(r.at) /\ work'[w].checked = FALSE
            /\ work'[w].op = r.op /\ work'[w].rolled = r.rolled
  BY requireStatusStep
<1>2. PICK i \in 1..MaxRequests, o \in Operation :
        /\ i = r.op /\ o = op[i] /\ StatusAwaited(w) /\ WorkTells(w)
        /\ work[w].at # "wait" => call[w] = None
  BY <1>1, WorkSole
<1>3. /\ op' = op /\ spool' = spool /\ call' = call /\ files' = files /\ loaded' = loaded /\ torn' = torn
      /\ UNCHANGED <<provisioned, op, spool>>
  BY <1>1 DEF provisioned
<1>4. call[w] = None /\ call'[w] = None /\ OnlyCall(w)
  BY <1>1, <1>2, <1>3 DEF Changes, OnlyCall, FnInv, FnTypeOK
<1>5. CallTells(w)'
  BY <1>4 DEF CallTells
<1>6. /\ (RolledTo(o)' <=> RolledTo(o)) /\ (Harmless(o)' <=> Harmless(o))
      /\ (Stuck(i)' <=> Stuck(i)) /\ (Last(i)' <=> Last(i))
  <2>1. Last(i)' <=> Last(i)
    BY <1>3, LastKept
  <2> QED
    BY <1>3, <2>1 DEF RolledTo, Harmless, Stuck
<1>7. StatusAwaited(w)' /\ WorkTells(w)'
  <2>1. CASE /\ o.status = Requires(r.at) /\ work'[w] \in Goroutine
             /\ work'[w].at = r.at /\ work'[w].checked = TRUE
             /\ work'[w].op = r.op /\ work'[w].rolled = r.rolled
    <3>1. StatusAwaited(w)'
      BY <1>1, <1>2, <1>3, <1>6, <2>1 DEF StatusAwaited
    <3>2. WorkTells(w)'
      BY <1>1, <1>2, <1>3, <1>6, <2>1 DEF WorkTells
    <3> QED
      BY <3>1, <3>2
  <2>2. CASE work'[w] = None
    BY <2>2 DEF StatusAwaited, WorkTells
  <2>3. CASE /\ o.status # Requires(r.at) /\ Refused(r.at) \in Changes \cup {"call"}
             /\ work'[w] \in Goroutine /\ work'[w].at = Refused(r.at) /\ work'[w].checked = FALSE
             /\ work'[w].op = r.op /\ work'[w].rolled = r.rolled
    <3>1. r.at = "step" \/ r.at = "complete"
      BY <2>3 DEF Refused, Changes
    <3>2. Requires(r.at) = "RUNNING"
      BY <3>1 DEF Requires
    <3>3. r.at # "complete" /\ o.again /\ Stuck(i) /\ ~r.rolled
      BY <1>1, <1>2, <2>3, <3>1, <3>2 DEF StatusAwaited
    <3>4. work'[w].at = "call"
      BY <2>3, <3>1, <3>3 DEF Refused
    <3>5. StatusAwaited(w)'
      BY <1>2, <1>3, <1>6, <2>3, <3>3, <3>4 DEF StatusAwaited
    <3>6. WorkTells(w)'
      BY <1>2, <1>3, <2>3, <3>3, <3>4 DEF WorkTells
    <3> QED
      BY <3>5, <3>6
  <2> QED
    BY <1>1, <1>2, <2>1, <2>2, <2>3
<1>8. (work'[w] # None => work'[w].op = i) /\ (call'[w] # None => call'[w].op = i)
  BY <1>1, <1>2, <1>4
<1> QED
  BY <1>1, <1>2, <1>3, <1>4, <1>5, <1>7, <1>8, GoesOnSole

\* The status that a goroutine writes is the one that was true when it
\* looked, one change later.
LEMMA updateSole ==
    ASSUME FnInv, Sole, NEW w \in Workers, update(w)
    PROVE  Sole'
<1> DEFINE r == work[w]
<1>1. /\ r # None /\ r.at \in Changes /\ r.checked
      /\ OnlyWork(w) /\ UNCHANGED <<provisioned, call, spool, requests, faults, shared>>
      /\ OpsKept /\ op'[r.op].status = Makes(r.at) /\ op'[r.op].again = op[r.op].again
      /\ \A j \in 1..MaxRequests : j # r.op => op'[j] = op[j]
      /\ \/ Done(r) = "end" /\ work'[w] = None
         \/ /\ work'[w] \in Goroutine /\ work'[w].at = Done(r) /\ work'[w].checked = FALSE
            /\ work'[w].op = r.op /\ work'[w].rolled = r.rolled
  BY updateStep
<1>2. PICK i \in 1..MaxRequests, o \in Operation :
        /\ i = r.op /\ o = op[i] /\ o # None /\ Drives(w, i) /\ OpTells(i) /\ StatusAwaited(w) /\ WorkTells(w)
        /\ work[w].at # "wait" => call[w] = None
  BY <1>1, WorkSole
<1>3. /\ spool' = spool /\ call' = call /\ files' = files /\ loaded' = loaded /\ torn' = torn
      /\ UNCHANGED provisioned
  BY <1>1 DEF provisioned
<1>4. call[w] = None /\ call'[w] = None /\ OnlyCall(w)
  BY <1>1, <1>2, <1>3 DEF Changes, OnlyCall, FnInv, FnTypeOK
<1>5. CallTells(w)'
  BY <1>4 DEF CallTells
<1>6. PICK p : /\ p = op'[i] /\ p # None /\ p.status = Makes(r.at) /\ p.again = o.again
               /\ p.kind = o.kind /\ p.sha = o.sha /\ p.current = o.current /\ p.previous = o.previous
  BY <1>1, <1>2 DEF OpsKept, SameOp
<1>7. /\ RolledTo(p)' <=> RolledTo(o)
      /\ Harmless(p)' <=> Harmless(o)
      /\ Fresh(p, files) <=> Fresh(o, files)
      /\ DeployLeft(p, files) <=> DeployLeft(o, files)
      /\ Effect(p, files) <=> Effect(o, files)
  <2>1. RolledTo(p)' <=> RolledTo(o)
    BY <1>3, <1>6 DEF RolledTo
  <2>2. Fresh(p, files) <=> Fresh(o, files)
    BY <1>6 DEF Fresh
  <2>3. DeployLeft(p, files) <=> DeployLeft(o, files)
    BY <1>6, <2>2 DEF DeployLeft
  <2>4. Effect(p, files) <=> Effect(o, files)
    BY <1>6 DEF Effect
  <2>5. Harmless(p)' <=> Harmless(o)
    BY <1>3, <1>6, <2>1 DEF Harmless
  <2> QED
    BY <2>1, <2>2, <2>3, <2>4, <2>5
<1>8. OnlyOp(i) /\ \A j \in 1..MaxRequests : op'[j] = None <=> op[j] = None
  BY <1>1, <1>2, <1>6 DEF OnlyOp
<1>9. Last(i)' <=> Last(i)
  BY <1>8, LastKept
<1>10. o.status = Requires(r.at)
  BY <1>1, <1>2 DEF StatusAwaited
<1>11. r.at \in {"start", "step", "complete", "succeed", "fail", "undo", "undone"}
  BY <1>1 DEF Changes
<1>12. OpTells(i)' /\ StatusAwaited(w)' /\ WorkTells(w)'
  <2>1. CASE r.at \in {"start", "step", "complete"}
    <3>1. p.status = "RUNNING" /\ o.status \in {"QUEUED", "RUNNING"}
      BY <1>6, <1>10, <2>1 DEF Makes, Requires
    <3>2. Done(r) = (IF r.at = "start" THEN "step" ELSE IF r.at = "step" THEN "call" ELSE "succeed")
      BY <2>1 DEF Done
    <3>3. OpTells(i)'
      BY <1>2, <1>3, <1>6, <1>7, <1>9, <3>1 DEF OpTells
    <3>4. /\ work'[w] \in Goroutine /\ work'[w].at = Done(r) /\ work'[w].checked = FALSE
          /\ work'[w].op = i /\ work'[w].rolled = r.rolled
      BY <1>1, <1>2, <2>1, <3>2
    <3>5. r.at \in {"start", "step"} => ~r.rolled
      BY <1>1, <1>2 DEF StatusAwaited
    <3>6. StatusAwaited(w)'
      BY <1>6, <2>1, <3>1, <3>2, <3>4, <3>5 DEF StatusAwaited
    <3>7. WorkTells(w)'
      BY <1>1, <1>2, <1>3, <1>6, <1>7, <2>1, <3>2, <3>4 DEF WorkTells
    <3> QED
      BY <3>3, <3>6, <3>7
  <2>2. CASE r.at = "succeed"
    <3>1. p.status = "SUCCEEDED" /\ Done(r) = "end"
      BY <1>6, <2>2 DEF Makes, Done
    <3>2. work'[w] = None
      BY <1>1, <3>1, NoneFacts DEF Goroutine, Changes
    <3>3. Effect(o, files)
      BY <1>1, <1>2, <2>2 DEF WorkTells
    <3>4. OpTells(i)'
      BY <1>3, <1>6, <1>7, <3>1, <3>3 DEF OpTells
    <3> QED
      BY <3>2, <3>4 DEF StatusAwaited, WorkTells
  <2>3. CASE r.at = "fail"
    <3>1. p.status = "FAILED" /\ o.status = "RUNNING" /\ Done(r) = (IF r.rolled THEN "undo" ELSE "end")
      BY <1>6, <1>10, <2>3 DEF Makes, Done, Requires
    <3>2. Harmless(o) /\ (r.rolled => RolledTo(o))
      BY <1>1, <1>2, <2>3 DEF WorkTells
    <3>3. OpTells(i)'
      BY <1>3, <1>6, <1>7, <3>1, <3>2 DEF OpTells
    <3>4. CASE ~r.rolled
      <4>1. work'[w] = None
        BY <1>1, <3>1, <3>4, NoneFacts DEF Goroutine, Changes
      <4> QED
        BY <3>3, <4>1 DEF StatusAwaited, WorkTells
    <3>5. CASE r.rolled
      <4>1. /\ work'[w] \in Goroutine /\ work'[w].at = "undo" /\ work'[w].checked = FALSE
            /\ work'[w].op = i /\ work'[w].rolled = r.rolled
        BY <1>1, <1>2, <3>1, <3>5
      <4>2. o.kind = "DEPLOY" /\ i \notin spool
        BY <1>1, <1>2, <2>3, <3>5 DEF StatusAwaited
      <4>3. StatusAwaited(w)'
        BY <1>3, <1>6, <3>1, <4>1, <4>2 DEF StatusAwaited
      <4>4. WorkTells(w)'
        BY <1>6, <1>7, <3>2, <3>5, <4>1 DEF WorkTells
      <4> QED
        BY <3>3, <4>3, <4>4
    <3> QED
      BY <3>4, <3>5
  <2>4. CASE r.at = "undo"
    <3>1. p.status = "ROLLING_BACK" /\ Done(r) = "undone"
      BY <1>6, <2>4 DEF Makes, Done
    <3>2. o.kind = "DEPLOY" /\ i \notin spool /\ (Last(i) => RolledTo(o))
      BY <1>1, <1>2, <2>4 DEF StatusAwaited, WorkTells
    <3>3. Stuck(i)'
      BY <1>3, <1>6, <3>1, <3>2 DEF Stuck
    <3>4. OpTells(i)'
      BY <1>3, <1>6, <1>7, <1>9, <3>1, <3>2, <3>3 DEF OpTells
    <3>5. /\ work'[w] \in Goroutine /\ work'[w].at = "undone" /\ work'[w].checked = FALSE
          /\ work'[w].op = i /\ work'[w].rolled = r.rolled
      BY <1>1, <1>2, <3>1
    <3>6. StatusAwaited(w)'
      BY <1>3, <1>6, <3>1, <3>2, <3>5 DEF StatusAwaited
    <3>7. WorkTells(w)'
      BY <3>5 DEF WorkTells
    <3> QED
      BY <3>4, <3>6, <3>7
  <2>5. CASE r.at = "undone"
    <3>1. p.status = "ROLLED_BACK" /\ o.status = "ROLLING_BACK" /\ Done(r) = "end"
      BY <1>6, <1>10, <2>5 DEF Makes, Done, Requires
    <3>2. work'[w] = None
      BY <1>1, <3>1, NoneFacts DEF Goroutine, Changes
    <3>3. Last(i) => RolledTo(o)
      BY <1>2, <3>1 DEF OpTells
    <3>4. OpTells(i)'
      BY <1>3, <1>6, <1>7, <1>9, <3>1, <3>3 DEF OpTells
    <3> QED
      BY <3>2, <3>4 DEF StatusAwaited, WorkTells
  <2> QED
    BY <1>11, <2>1, <2>2, <2>3, <2>4, <2>5
<1>13. (work'[w] # None => work'[w].op = i) /\ (call'[w] # None => call'[w].op = i)
  BY <1>1, <1>2, <1>4
<1> QED
  BY <1>1, <1>2, <1>3, <1>4, <1>5, <1>6, <1>8, <1>12, <1>13, RunSole

LEMMA CallProvisionerSole ==
    ASSUME FnInv, Sole, NEW w \in Workers, CallProvisioner(w)
    PROVE  Sole'
<1> DEFINE r == work[w]
<1>1. /\ r # None /\ r.at = "call" /\ call[w] = None
      /\ OnlyWork(w) /\ OnlyCall(w) /\ UNCHANGED <<provisioned, op, spool, requests, faults, shared>>
      /\ work'[w] \in Goroutine /\ work'[w].op = r.op /\ work'[w].rolled = r.rolled
      /\ work'[w].checked = r.checked
      /\ \/ /\ op[r.op].kind = "DEPLOY" /\ r.op \notin spool
            /\ work'[w].at = "fail" /\ call'[w] = None
         \/ /\ ~(op[r.op].kind = "DEPLOY" /\ r.op \notin spool)
            /\ work'[w].at = "wait" /\ call'[w] \in Call /\ call'[w].op = r.op
            /\ call'[w].kind = op[r.op].kind /\ call'[w].sha = op[r.op].sha /\ call'[w].at = "files"
            /\ call'[w].alive = TRUE
  BY CallProvisionerStep
<1>2. PICK i \in 1..MaxRequests, o \in Operation :
        i = r.op /\ o = op[i] /\ o # None /\ StatusAwaited(w) /\ WorkTells(w)
  BY <1>1, WorkSole
<1>3. /\ op' = op /\ spool' = spool /\ files' = files /\ loaded' = loaded /\ torn' = torn
      /\ UNCHANGED <<provisioned, op, spool>>
  BY <1>1 DEF provisioned
<1>4. /\ o.again \/ Fresh(o, files)
      /\ ~r.rolled
      /\ o.status = "RUNNING" \/ (Stuck(i) /\ o.again)
  BY <1>1, <1>2 DEF StatusAwaited, WorkTells
<1>5. r.checked => o.status = "RUNNING"
  <2>1. Requires("call") = "RUNNING"
    BY DEF Requires
  <2> QED
    BY <1>1, <1>2, <2>1 DEF StatusAwaited
<1>6. Requires("fail") = "RUNNING" /\ Requires("wait") = "RUNNING"
  BY DEF Requires
<1>7. CASE work'[w].at = "fail" /\ call'[w] = None
  <2>1. Harmless(o)'
    BY <1>3, <1>4 DEF Harmless, RolledTo, Fresh
  <2>2. Stuck(i)' <=> Stuck(i)
    BY <1>3 DEF Stuck
  <2>3. StatusAwaited(w)'
    BY <1>1, <1>2, <1>3, <1>4, <1>5, <1>6, <1>7, <2>2 DEF StatusAwaited
  <2>4. WorkTells(w)'
    BY <1>1, <1>2, <1>3, <1>4, <1>7, <2>1 DEF WorkTells
  <2>5. CallTells(w)'
    BY <1>7 DEF CallTells
  <2> QED
    BY <1>1, <1>2, <1>3, <1>7, <2>3, <2>4, <2>5, GoesOnSole
<1>8. CASE /\ ~(o.kind = "DEPLOY" /\ i \notin spool)
           /\ work'[w].at = "wait" /\ call'[w] \in Call /\ call'[w].op = i /\ call'[w].at = "files"
  <2>1. o.status = "RUNNING"
    BY <1>2, <1>4, <1>8 DEF Stuck
  <2>2. StatusAwaited(w)'
    BY <1>1, <1>2, <1>3, <1>4, <1>6, <1>8, <2>1 DEF StatusAwaited
  <2>3. WorkTells(w)'
    BY <1>8 DEF WorkTells
  <2>4. CallTells(w)'
    BY <1>2, <1>3, <1>4, <1>8, <2>1 DEF CallTells
  <2> QED
    BY <1>1, <1>2, <1>3, <1>8, <2>2, <2>3, <2>4, GoesOnSole
<1> QED
  BY <1>1, <1>2, <1>7, <1>8

LEMMA CallReturnedSole ==
    ASSUME FnInv, Sole, NEW w \in Workers, CallReturned(w)
    PROVE  Sole'
<1> DEFINE r == work[w]
<1>1. /\ r # None /\ r.at = "wait" /\ call[w] # None /\ call[w].at = "answered"
      /\ OnlyWork(w) /\ OnlyCall(w) /\ call'[w] = None /\ spool' = spool \ {r.op}
      /\ UNCHANGED <<provisioned, op, requests, faults, shared>>
      /\ work'[w] \in Goroutine /\ work'[w].op = r.op /\ work'[w].checked = r.checked
      /\ work'[w].at = (IF call[w].answer = "ok" THEN "complete" ELSE "fail")
      /\ work'[w].rolled = (call[w].answer = "rolledback")
  BY CallReturnedStep
<1>2. PICK i \in 1..MaxRequests, o \in Operation :
        /\ i = r.op /\ o = op[i] /\ o # None /\ Drives(w, i)
        /\ OpTells(i) /\ StatusAwaited(w) /\ CallTells(w)
  BY <1>1, WorkSole
<1>3. /\ op' = op /\ files' = files /\ loaded' = loaded /\ torn' = torn /\ UNCHANGED provisioned
  BY <1>1 DEF provisioned
<1>4. call[w].op = i /\ call[w].kind = o.kind
  BY <1>1, <1>2 DEF FnInv, Matched
<1>5. /\ o.status = "RUNNING"
      /\ IF call[w].answer = "ok" THEN Effect(o, files) ELSE Harmless(o)
      /\ call[w].answer = "rolledback" => o.kind = "DEPLOY" /\ RolledTo(o)
  BY <1>1, <1>2, <1>4 DEF StatusAwaited, CallTells
<1>6. Requires("complete") = "RUNNING" /\ Requires("fail") = "RUNNING"
  BY DEF Requires
<1>7. i \notin spool'
  BY <1>1, <1>2
<1>8. StatusAwaited(w)'
  BY <1>1, <1>2, <1>3, <1>5, <1>6, <1>7 DEF StatusAwaited
<1>9. (RolledTo(o)' <=> RolledTo(o)) /\ (Harmless(o)' <=> Harmless(o))
  BY <1>3 DEF RolledTo, Harmless
<1>10. WorkTells(w)'
  BY <1>1, <1>2, <1>3, <1>5, <1>9 DEF WorkTells
<1>11. CallTells(w)'
  BY <1>1 DEF CallTells
<1>12. OpTells(i)'
  <2>1. Last(i)' <=> Last(i)
    BY <1>3, LastKept
  <2> QED
    BY <1>2, <1>3, <1>5, <2>1 DEF OpTells
<1>13. OnlyOp(i) /\ op'[i] # None /\ \A j \in 1..MaxRequests : j # i => (j \in spool' <=> j \in spool)
  BY <1>1, <1>2, <1>3 DEF OnlyOp
<1> QED
  BY <1>1, <1>2, <1>3, <1>8, <1>10, <1>11, <1>12, <1>13, RunSole

\* A goroutine that takes up an operation that nobody drives.
LEMMA TakenUpSole ==
    ASSUME FnInv, Sole, NEW w \in Workers, work[w] = None, call[w] = None, call' = call,
           UNCHANGED provisioned, NEW i \in 1..MaxRequests, ~Driven(i), OnlyWork(w),
           work'[w] \in Goroutine, work'[w].op = i, OnlyOp(i), op'[i] # None,
           \A j \in 1..MaxRequests : j # i => (j \in spool' <=> j \in spool),
           \A j \in 1..MaxRequests : j # i /\ Last(j)' => Last(j),
           \A j \in 1..MaxRequests :
              j # i /\ op[j] # None /\ op[j].status \in {"QUEUED", "RUNNING"} => Last(j)',
           OpTells(i)', StatusAwaited(w)', WorkTells(w)'
    PROVE  Sole'
<1>1. OnlyCall(w) /\ call'[w] = None
  BY DEF OnlyCall, FnInv, FnTypeOK
<1>2. \A v \in Workers : ~Drives(v, i)
  BY DEF Driven, Drives
<1>3. /\ \A j \in 1..MaxRequests : j # i => OpTells(j)'
      /\ \A v \in Workers : v # w => StatusAwaited(v)' /\ WorkTells(v)' /\ CallTells(v)'
  BY <1>1, <1>2, OthersSole
<1>4. CallTells(w)'
  BY <1>1 DEF CallTells
<1>5. Exclusive'
  <2>1. ASSUME NEW v \in Workers, NEW j \in 1..MaxRequests, v # w
        PROVE  Drives(v, j)' <=> Drives(v, j)
    <3>1. work'[v] = work[v] /\ call'[v] = call[v]
      BY <2>1 DEF OnlyWork, FnInv, FnTypeOK
    <3> QED
      BY <3>1 DEF Drives, Active
  <2>2. \A j \in 1..MaxRequests : Drives(w, j)' => j = i
    BY <1>1 DEF Drives, Active
  <2> QED
    BY <1>2, <2>1, <2>2 DEF Sole, Exclusive
<1>6. ~torn' => Retained(files')
  BY DEF Sole, provisioned
<1>7. \A j \in 1..MaxRequests : OpTells(j)'
  BY <1>3
<1>8. \A v \in Workers : StatusAwaited(v)' /\ WorkTells(v)' /\ CallTells(v)'
  BY <1>3, <1>4
<1> QED
  BY <1>5, <1>6, <1>7, <1>8 DEF Sole

\* One that was there: queued and untouched, or one more run.
LEMMA AgainSole ==
    ASSUME FnInv, Sole, NEW w \in Workers, work[w] = None, call[w] = None, call' = call,
           UNCHANGED provisioned, spool' = spool, NEW i \in 1..MaxRequests, op[i] # None, ~Driven(i),
           op[i].status \in {"QUEUED", "RUNNING", "ROLLING_BACK"},
           OnlyWork(w), work'[w] \in Goroutine, work'[w].op = i,
           work'[w].at = (IF op[i].status = "QUEUED" THEN "start" ELSE "step"),
           work'[w].checked = FALSE, work'[w].rolled = FALSE,
           OpsKept, OnlyOp(i), op'[i].status = op[i].status,
           op'[i].again \/ (op[i].status = "QUEUED" /\ op'[i].again = op[i].again)
    PROVE  Sole'
<1>1. files' = files /\ loaded' = loaded /\ torn' = torn
  BY DEF provisioned
<1>2. PICK o : o = op[i]
  OBVIOUS
<1>3. PICK p : /\ p = op'[i] /\ p # None /\ p.status = o.status /\ (p.again \/ (o.status = "QUEUED" /\ p.again = o.again))
               /\ p.kind = o.kind /\ p.sha = o.sha /\ p.current = o.current /\ p.previous = o.previous
  BY <1>2 DEF OpsKept, SameOp
<1>4. \A j \in 1..MaxRequests : op'[j] = None <=> op[j] = None
  BY <1>3 DEF OnlyOp
<1>5. \A j \in 1..MaxRequests : Last(j)' <=> Last(j)
  BY <1>4, LastKept
<1>6. OpTells(i)
  BY DEF Sole
<1>7. /\ Fresh(p, files) <=> Fresh(o, files)
      /\ DeployLeft(p, files) <=> DeployLeft(o, files)
      /\ Stuck(i)' <=> Stuck(i)
      /\ RolledTo(p)' <=> RolledTo(o)
  <2>1. Fresh(p, files) <=> Fresh(o, files)
    BY <1>3 DEF Fresh
  <2>2. DeployLeft(p, files) <=> DeployLeft(o, files)
    BY <1>3, <2>1 DEF DeployLeft
  <2>3. Stuck(i)' <=> Stuck(i)
    BY <1>2, <1>3 DEF Stuck
  <2>4. RolledTo(p)' <=> RolledTo(o)
    BY <1>1, <1>3 DEF RolledTo
  <2> QED
    BY <2>1, <2>2, <2>3, <2>4
<1>8. OpTells(i)'
  BY <1>1, <1>2, <1>3, <1>5, <1>6, <1>7 DEF OpTells
<1>9. StatusAwaited(w)'
  <2>1. o.status = "ROLLING_BACK" => Stuck(i)
    BY <1>2, <1>6 DEF OpTells
  <2> QED
    BY <1>2, <1>3, <1>7, <2>1 DEF StatusAwaited
<1>10. WorkTells(w)'
  <2>1. o.status = "QUEUED" => Fresh(o, files)
    BY <1>2, <1>6 DEF OpTells
  <2>2. p.again \/ Fresh(p, files)
    BY <1>3, <1>7, <2>1
  <2> QED
    BY <1>1, <1>3, <2>2 DEF WorkTells
<1>11. \A j \in 1..MaxRequests :
         j # i /\ op[j] # None /\ op[j].status \in {"QUEUED", "RUNNING"} => Last(j)'
  BY <1>5 DEF Sole, OpTells
<1> QED
  BY <1>3, <1>5, <1>8, <1>9, <1>10, <1>11, TakenUpSole

LEMMA ResumeSole ==
    ASSUME FnInv, Sole, NEW w \in Workers, Resume(w), ~shared'
    PROVE  Sole'
<1>1. /\ work[w] = None /\ call[w] = None
      /\ UNCHANGED <<provisioned, call, spool, requests, faults>>
  BY ResumeStep
<1>2. PICK i \in ListActiveOperations :
        /\ i \in 1..MaxRequests /\ op[i] # None /\ OpsKept /\ OnlyOp(i)
        /\ op'[i].status = op[i].status
        /\ op'[i].again = (op[i].again \/ ~(op[i].status = "QUEUED" /\ ~Driven(i)))
        /\ OnlyWork(w) /\ work'[w] \in Goroutine /\ work'[w].op = i
        /\ work'[w].at = (IF op[i].status = "QUEUED" THEN "start" ELSE "step")
        /\ work'[w].checked = FALSE /\ work'[w].rolled = FALSE
        /\ shared' = (shared \/ Driven(i))
  BY ResumeStep
<1>3. ~Driven(i) /\ op[i].status \in {"QUEUED", "RUNNING"}
  BY <1>2 DEF ListActiveOperations
<1>4. op'[i].again \/ (op[i].status = "QUEUED" /\ op'[i].again = op[i].again)
  <2>1. op[i] \in Operation
    BY <1>2, TypeFacts DEF FnInv
  <2>2. op[i].again \in BOOLEAN
    BY <2>1, Zenon DEF Operation
  <2>3. CASE op[i].status # "QUEUED"
    BY <1>2, <2>3
  <2>4. CASE op[i].status = "QUEUED"
    <3>1. op'[i].again = (op[i].again \/ FALSE)
      BY <1>2, <1>3, <2>4
    <3> QED
      BY <2>2, <2>4, <3>1
  <2> QED
    BY <2>3, <2>4
<1>5. call' = call /\ spool' = spool /\ UNCHANGED provisioned
  BY <1>1
<1> QED
  BY <1>1, <1>2, <1>3, <1>4, <1>5, AgainSole

LEMMA QueueSole ==
    ASSUME FnInv, Sole, NEW w \in Workers, NEW kind \in Kinds, NEW sha \in ShaOrNone,
           Queue(w, kind, sha), ~shared'
    PROVE  Sole'
<1>1. /\ work[w] = None /\ call[w] = None /\ call' = call /\ UNCHANGED provisioned
      /\ requests + 1 \in 1..MaxRequests
  BY QueueStep
<1>2. files' = files /\ loaded' = loaded /\ torn' = torn
  BY <1>1 DEF provisioned
<1>3. PICK i \in 1..MaxRequests : i = requests + 1
  BY <1>1
<1>4. CASE /\ ActiveOps = {} /\ op[i] = None
           /\ OnlyOp(i) /\ op'[i] \in Operation /\ op'[i].status = "QUEUED"
           /\ op'[i].current = files.current /\ op'[i].previous = files.previous
           /\ spool' = (IF kind = "DEPLOY" THEN spool \cup {i} ELSE spool)
           /\ OnlyWork(w) /\ work'[w] \in Goroutine /\ work'[w].op = i /\ work'[w].at = "start"
           /\ work'[w].checked = FALSE /\ work'[w].rolled = FALSE
           /\ shared' = (shared \/ Driven(i))
  <2>1. op'[i] # None /\ ~Driven(i)
    BY <1>4, NoneFacts
  <2>2. Fresh(op'[i], files')
    BY <1>2, <1>4 DEF Fresh
  <2>3. \A j \in 1..MaxRequests : op[j] # None => j < i
    <3>1. requests \in Nat
      BY NoneFacts DEF FnInv, FnTypeOK
    <3>2. \A j \in 1..MaxRequests : j > requests => op[j] = None
      BY DEF FnInv, OpsRecorded
    <3> QED
      BY <1>3, <1>4, <3>1, <3>2, NoneFacts
  <2>4. Last(i)'
    BY <2>1, <2>3, NoneFacts, <1>4 DEF Last, OnlyOp
  <2>5. \A j \in 1..MaxRequests : j # i => ~Last(j)'
    BY <2>1, <2>3, NoneFacts, <1>4 DEF Last, OnlyOp
  <2>6. \A j \in 1..MaxRequests : op[j] # None => op[j].status \notin {"QUEUED", "RUNNING"}
    <3>1. DOMAIN op = 1..MaxRequests
      BY TypeFacts DEF FnInv
    <3> QED
      BY <1>4, <3>1 DEF ActiveOps, ActiveStatus
  <2>7. OpTells(i)'
    BY <1>4, <2>2, <2>4 DEF OpTells, DeployLeft
  <2>8. StatusAwaited(w)'
    BY <1>4 DEF StatusAwaited
  <2>9. WorkTells(w)'
    BY <1>4, <2>2 DEF WorkTells
  <2>10. \A j \in 1..MaxRequests : j # i => (j \in spool' <=> j \in spool)
    BY <1>4
  <2> QED
    BY <1>1, <1>4, <2>1, <2>5, <2>6, <2>7, <2>8, <2>9, <2>10, TakenUpSole
<1>5. CASE /\ spool' = spool
           /\ \E j \in ActiveOps :
                /\ j \in 1..MaxRequests
                /\ OpsKept /\ OnlyOp(j) /\ op'[j].status = op[j].status /\ op'[j].again = TRUE
                /\ OnlyWork(w) /\ work'[w] \in Goroutine /\ work'[w].op = j
                /\ work'[w].at = (IF op[j].status = "QUEUED" THEN "start" ELSE "step")
                /\ work'[w].checked = FALSE /\ work'[w].rolled = FALSE
                /\ shared' = (shared \/ Driven(j))
  <2>1. PICK j \in 1..MaxRequests :
          /\ j \in ActiveOps
          /\ OpsKept /\ OnlyOp(j) /\ op'[j].status = op[j].status /\ op'[j].again = TRUE
          /\ OnlyWork(w) /\ work'[w] \in Goroutine /\ work'[w].op = j
          /\ work'[w].at = (IF op[j].status = "QUEUED" THEN "start" ELSE "step")
          /\ work'[w].checked = FALSE /\ work'[w].rolled = FALSE
          /\ shared' = (shared \/ Driven(j))
    BY <1>5
  <2>2. ~Driven(j) /\ op[j] # None /\ op[j].status \in {"QUEUED", "RUNNING", "ROLLING_BACK"}
    BY <2>1 DEF ActiveOps, ActiveStatus
  <2> QED
    BY <1>1, <1>5, <2>1, <2>2, AgainSole
<1>6. CASE op' = op /\ work' = work /\ shared' = shared /\ spool' = spool
  <2>1. \A j \in 1..MaxRequests : Last(j)' <=> Last(j)
    BY <1>6, LastKept
  <2>2. \A o : (RolledTo(o)' <=> RolledTo(o)) /\ (Harmless(o)' <=> Harmless(o))
    BY <1>2 DEF RolledTo, Harmless
  <2>3. \A j \in 1..MaxRequests : OpTells(j)'
    BY <1>2, <1>6, <2>1, <2>2 DEF Sole, OpTells, Stuck
  <2>4. ASSUME NEW v \in Workers
        PROVE  StatusAwaited(v)' /\ WorkTells(v)' /\ CallTells(v)'
    <3>1. StatusAwaited(v) /\ WorkTells(v) /\ CallTells(v)
      BY DEF Sole
    <3>2. StatusAwaited(v)'
      BY <1>6, <3>1 DEF StatusAwaited, Stuck
    <3>3. WorkTells(v)'
      <4>1. work[v] # None => work[v].op \in 1..MaxRequests
        BY WorkFacts
      <4> QED
        BY <1>2, <1>6, <2>1, <2>2, <3>1, <4>1 DEF WorkTells
    <3>4. CallTells(v)'
      BY <1>1, <1>2, <1>6, <2>2, <3>1 DEF CallTells
    <3> QED
      BY <3>2, <3>3, <3>4
  <2>5. Exclusive'
    BY <1>1, <1>6 DEF Sole, Exclusive, Drives, Active
  <2> QED
    BY <1>2, <2>3, <2>4, <2>5 DEF Sole
<1>7. \/ /\ ActiveOps = {} /\ op[i] = None
         /\ OnlyOp(i) /\ op'[i] \in Operation /\ op'[i].status = "QUEUED"
         /\ op'[i].current = files.current /\ op'[i].previous = files.previous
         /\ spool' = (IF kind = "DEPLOY" THEN spool \cup {i} ELSE spool)
         /\ OnlyWork(w) /\ work'[w] \in Goroutine /\ work'[w].op = i /\ work'[w].at = "start"
         /\ work'[w].checked = FALSE /\ work'[w].rolled = FALSE
         /\ shared' = (shared \/ Driven(i))
      \/ /\ spool' = spool
         /\ \E j \in ActiveOps :
              /\ j \in 1..MaxRequests
              /\ OpsKept /\ OnlyOp(j) /\ op'[j].status = op[j].status /\ op'[j].again = TRUE
              /\ OnlyWork(w) /\ work'[w] \in Goroutine /\ work'[w].op = j
              /\ work'[w].at = (IF op[j].status = "QUEUED" THEN "start" ELSE "step")
              /\ work'[w].checked = FALSE /\ work'[w].rolled = FALSE
              /\ shared' = (shared \/ Driven(j))
      \/ op' = op /\ work' = work /\ shared' = shared /\ spool' = spool
  BY <1>3, QueueStep
<1> QED
  BY <1>4, <1>5, <1>6, <1>7

-----------------------------------------------------------------------------
(* What holds as long as no operation has had two drivers at once.         *)

SoleInv == FnInv /\ LastExists /\ (~shared => Sole)

LEMMA SoleInitInv == FnInit => SoleInv
<1> SUFFICES ASSUME FnInit
             PROVE  SoleInv
  OBVIOUS
<1>1. FnInv
  BY FnInitInv
<1>2. /\ op = [i \in 1..MaxRequests |-> None]
      /\ work = [w \in Workers |-> None] /\ call = [w \in Workers |-> None] /\ Consistent(files)
  BY NoneFacts DEF FnInit
<1>3. \A i \in 1..MaxRequests : op[i] = None
  BY <1>2
<1>4. \A w \in Workers : work[w] = None /\ call[w] = None
  BY <1>2
<1>5. LastExists /\ \A i \in 1..MaxRequests : OpTells(i)
  BY <1>3 DEF LastExists, OpTells
<1>6. \A w \in Workers : StatusAwaited(w) /\ WorkTells(w) /\ CallTells(w)
  BY <1>4 DEF StatusAwaited, WorkTells, CallTells
<1>7. Exclusive
  BY <1>4 DEF Exclusive, Drives, Active
<1> QED
  BY <1>1, <1>2, <1>5, <1>6, <1>7 DEF SoleInv, Sole, Consistent

\* The newest operation stays the newest until a request queues another.
LEMMA LastExistsKept ==
    ASSUME FnInv, LastExists, FnNext
    PROVE  LastExists'
<1>1. ASSUME \A i \in 1..MaxRequests : op'[i] = None <=> op[i] = None
      PROVE  LastExists'
  <2>1. \A i \in 1..MaxRequests : Last(i)' <=> Last(i)
    BY <1>1, LastKept
  <2> QED
    BY <1>1, <2>1 DEF LastExists
<1>2. ASSUME NEW i \in 1..MaxRequests, op[i] # None, OnlyOp(i), OpsKept
      PROVE  LastExists'
  BY <1>1, <1>2 DEF OnlyOp, OpsKept, SameOp
<1>3. ASSUME op' = op
      PROVE  LastExists'
  BY <1>1, <1>3
<1>4. ASSUME NEW w \in Workers, NEW kind \in Kinds, NEW sha \in Archives \cup {None}, Queue(w, kind, sha)
      PROVE  LastExists'
  <2>1. PICK n \in 1..MaxRequests : n = requests + 1
    BY <1>4, QueueStep DEF ShaOrNone
  <2>2. CASE OnlyOp(n) /\ op'[n] \in Operation
    <3>1. \A j \in 1..MaxRequests : j > requests => op[j] = None
      BY DEF FnInv, OpsRecorded
    <3>2. requests \in Nat
      BY NoneFacts DEF FnInv, FnTypeOK
    <3>3. \A j \in 1..MaxRequests : op'[j] # None => j <= n
      BY <2>1, <2>2, <3>1, <3>2, NoneFacts DEF OnlyOp
    <3>4. Last(n)'
      BY <2>2, <3>3, NoneFacts DEF Last
    <3> QED
      BY <3>4 DEF LastExists
  <2>3. CASE \E i \in ActiveOps : i \in 1..MaxRequests /\ OpsKept /\ OnlyOp(i)
    BY <1>2, <2>3 DEF ActiveOps
  <2>4. CASE op' = op
    BY <1>3, <2>4
  <2> QED
    BY <1>4, <2>1, <2>2, <2>3, <2>4, QueueStep DEF ShaOrNone
<1>5. ASSUME NEW w \in Workers, Resume(w)
      PROVE  LastExists'
  BY <1>2, <1>5, ResumeStep
<1>6. ASSUME NEW w \in Workers, update(w)
      PROVE  LastExists'
  <2>1. work[w] # None /\ OpsKept /\ \A i \in 1..MaxRequests : i # work[w].op => op'[i] = op[i]
    BY <1>6, updateStep
  <2>2. work[w].op \in 1..MaxRequests /\ op[work[w].op] # None
    BY <2>1, WorkFacts
  <2> QED
    BY <1>2, <2>1, <2>2 DEF OnlyOp
<1>7. ASSUME NEW w \in Workers, requireStatus(w) \/ CallProvisioner(w) \/ CallReturned(w)
      PROVE  LastExists'
  BY <1>3, <1>7 DEF requireStatus, CallProvisioner, CallReturned
<1>8. ASSUME NEW w \in Workers, Provisioner(w)
      PROVE  LastExists'
  BY <1>3, <1>8 DEF Provisioner, FileOperation, Restart, Restore, RestartAgain, managed
<1>9. CASE ProvisionerRestart
  BY <1>3, <1>9 DEF ProvisionerRestart, managed
<1>10. CASE ManagerRestart
  BY <1>3, <1>10 DEF ManagerRestart
<1>11. CASE UNCHANGED fnVars
  BY <1>3, <1>11 DEF fnVars
<1> QED
  BY <1>4, <1>5, <1>6, <1>7, <1>8, <1>9, <1>10, <1>11, Zenon DEF FnNext, Run

\* Nothing takes back that an operation had two drivers.
LEMMA SharedStays ==
    ASSUME FnInv, FnNext, ~shared'
    PROVE  ~shared
<1>1. ASSUME NEW w \in Workers, NEW kind \in Kinds, NEW sha \in Archives \cup {None}, Queue(w, kind, sha)
      PROVE  ~shared
  BY <1>1, QueueStep DEF ShaOrNone
<1>2. ASSUME NEW w \in Workers, Resume(w)
      PROVE  ~shared
  BY <1>2, ResumeStep
<1>3. ASSUME NEW w \in Workers, Run(w)
      PROVE  ~shared
  BY <1>3 DEF Run, requireStatus, update, CallProvisioner, CallReturned
<1>4. ASSUME NEW w \in Workers, Provisioner(w)
      PROVE  ~shared
  BY <1>4 DEF Provisioner, FileOperation, Restart, Restore, RestartAgain, managed
<1>5. CASE ProvisionerRestart
  BY <1>5 DEF ProvisionerRestart, managed
<1>6. CASE ManagerRestart
  BY <1>6 DEF ManagerRestart
<1>7. CASE UNCHANGED fnVars
  BY <1>7 DEF fnVars
<1> QED
  BY <1>1, <1>2, <1>3, <1>4, <1>5, <1>6, <1>7, Zenon DEF FnNext

LEMMA SoleStutters ==
    ASSUME FnInv, Sole, UNCHANGED fnVars
    PROVE  Sole'
<1>1. /\ files' = files /\ loaded' = loaded /\ op' = op /\ spool' = spool /\ work' = work /\ call' = call
      /\ torn' = torn
  BY DEF fnVars
<1>2. Exclusive' /\ (~torn => Retained(files))'
  BY <1>1 DEF Sole, Exclusive, Drives, Active
<1>3. \A i \in 1..MaxRequests : OpTells(i)'
  BY <1>1 DEF Sole, OpTells, Last, Stuck, Harmless, RolledTo
<1>4. \A w \in Workers : StatusAwaited(w)' /\ WorkTells(w)'
  BY <1>1 DEF Sole, StatusAwaited, WorkTells, Last, Stuck, Harmless, RolledTo
<1>5. \A w \in Workers : CallTells(w)'
  BY <1>1 DEF Sole, CallTells, Harmless, RolledTo
<1> QED
  BY <1>2, <1>3, <1>4, <1>5 DEF Sole

LEMMA SoleKept ==
    ASSUME FnInv, Sole, FnNext, ~shared'
    PROVE  Sole'
<1>1. ASSUME NEW w \in Workers, NEW kind \in Kinds, NEW sha \in Archives \cup {None}, Queue(w, kind, sha)
      PROVE  Sole'
  BY <1>1, QueueSole DEF ShaOrNone
<1>2. ASSUME NEW w \in Workers, Resume(w)
      PROVE  Sole'
  BY <1>2, ResumeSole
<1>3. ASSUME NEW w \in Workers, Run(w)
      PROVE  Sole'
  BY <1>3, requireStatusSole, updateSole, CallProvisionerSole, CallReturnedSole DEF Run
<1>4. ASSUME NEW w \in Workers, Provisioner(w)
      PROVE  Sole'
  BY <1>4, FileOperationSole, RestartSole, RestoreSole, RestartAgainSole DEF Provisioner
<1>5. CASE ProvisionerRestart
  BY <1>5, ProvisionerRestartSole
<1>6. CASE ManagerRestart
  BY <1>6, ManagerRestartSole
<1>7. CASE UNCHANGED fnVars
  BY <1>7, SoleStutters
<1> QED
  BY <1>1, <1>2, <1>3, <1>4, <1>5, <1>6, <1>7, Zenon DEF FnNext

LEMMA SoleInvKept == SoleInv /\ [FnNext]_fnVars => SoleInv'
<1> SUFFICES ASSUME SoleInv, [FnNext]_fnVars
             PROVE  SoleInv'
  OBVIOUS
<1>1. FnInv /\ LastExists /\ (~shared => Sole)
  BY DEF SoleInv
<1>2. FnInv'
  BY <1>1, FnInvKept
<1>3. CASE FnNext
  <2>1. LastExists'
    BY <1>1, <1>3, LastExistsKept
  <2>2. ~shared' => Sole'
    BY <1>1, <1>3, SharedStays, SoleKept
  <2> QED
    BY <1>2, <2>1, <2>2 DEF SoleInv
<1>4. CASE UNCHANGED fnVars
  <2>1. op' = op /\ shared' = shared
    BY <1>4 DEF fnVars
  <2>2. LastExists'
    BY <1>1, <2>1 DEF LastExists, Last
  <2>3. ~shared' => Sole'
    BY <1>1, <1>4, <2>1, SoleStutters
  <2> QED
    BY <1>2, <2>2, <2>3 DEF SoleInv
<1> QED
  BY <1>3, <1>4

LEMMA SoleInvHolds == FnSpec => []SoleInv
<1>1. FnInit => SoleInv
  BY SoleInitInv
<1>2. SoleInv /\ [FnNext]_fnVars => SoleInv'
  BY SoleInvKept
<1> QED
  BY <1>1, <1>2, PTL DEF FnSpec

\* As long as no file operation was broken off, the live directory is the
\* release that state.json calls current, which pruneFunctionReleases keeps;
\* and the previous one is kept too, for RollbackFunctionRelease, unless the
\* scheduler and a request drove one operation at once
\* (projectfs/functions.go: ActivateFunctionRelease, RestoreFunctionRelease).
THEOREM FunctionReleasesConsistent == FnSpec => []ReleasesConsistent
<1>1. SoleInv => ReleasesConsistent
  BY DEF SoleInv, FnInv, Sole, ReleasesConsistent
<1> QED
  BY <1>1, SoleInvHolds, PTL

\* The newest operation is the one that StatusTellsRelease looks at.
LEMMA LastOpIsLast ==
    ASSUME FnTypeOK, NEW i \in 1..MaxRequests, Last(i)
    PROVE  LastOp = i
<1>1. DOMAIN op = 1..MaxRequests
  BY TypeFacts
<1>2. \A j \in 1..MaxRequests : Last(j) => j = i
  BY NoneFacts DEF Last
<1>3. LastOp = CHOOSE j \in 1..MaxRequests : Last(j)
  BY <1>1, Zenon DEF LastOp, Last
<1> QED
  BY <1>2, <1>3

\* What the Manager records of an operation is what became of the releases:
\* after any number of failures and restarts of either process, as long as no
\* two goroutines drove one operation at once (functions/service.go: Run).
THEOREM FunctionStatusTells == FnSpec => []StatusTellsRelease
<1>1. SoleInv => StatusTellsRelease
  <2> SUFFICES ASSUME SoleInv, Idle, ~torn, loaded # Unknown, ~shared, \E i \in DOMAIN op : op[i] # None
               PROVE  LET o == op[LastOp] IN
                      CASE o.status = "SUCCEEDED" /\ o.kind = "DEPLOY" -> files.current = o.sha
                        [] o.status = "SUCCEEDED" /\ o.kind = "ROLLBACK" /\ ~o.again -> files.current = o.previous
                        [] o.status = "SUCCEEDED" /\ o.kind = "DELETE" -> files = NoFiles
                        [] o.status = "ROLLED_BACK" -> RolledTo(o)
                        [] o.status = "FAILED" /\ ~o.again -> RolledTo(o)
                        [] OTHER -> TRUE
    BY Zenon DEF StatusTellsRelease
  <2>1. FnInv /\ FnTypeOK /\ Sole /\ DOMAIN op = 1..MaxRequests
    BY TypeFacts DEF SoleInv, FnInv
  <2>2. PICK i \in 1..MaxRequests : Last(i)
    BY <2>1 DEF SoleInv, LastExists
  <2>3. LastOp = i
    BY <2>1, <2>2, LastOpIsLast
  <2>4. PICK o \in Operation : o = op[i]
    BY <2>1, <2>2, TypeFacts DEF Last
  <2>5. OpTells(i) /\ op[i] # None
    BY <2>1, <2>2 DEF Sole, Last
  <2>6. /\ o.status = "SUCCEEDED" => Effect(o, files)
        /\ o.status = "ROLLED_BACK" => RolledTo(o)
        /\ o.status = "FAILED" /\ ~o.again => RolledTo(o)
    BY <2>2, <2>4, <2>5 DEF OpTells, Harmless
  <2>7. CASE o.status = "SUCCEEDED" /\ o.kind = "DEPLOY"
    <3>1. files.current = o.sha
      BY <2>6, <2>7 DEF Effect
    <3> QED
      BY <2>3, <2>4, <2>7, <3>1
  <2>8. CASE o.status = "SUCCEEDED" /\ o.kind = "ROLLBACK" /\ ~o.again
    <3>1. files.current = o.previous
      BY <2>6, <2>8 DEF Effect
    <3> QED
      BY <2>3, <2>4, <2>8, <3>1
  <2>9. CASE o.status = "SUCCEEDED" /\ o.kind = "DELETE"
    <3>1. files = NoFiles
      BY <2>6, <2>9 DEF Effect
    <3> QED
      BY <2>3, <2>4, <2>9, <3>1
  <2>10. CASE o.status = "ROLLED_BACK"
    BY <2>3, <2>4, <2>6, <2>10
  <2>11. CASE o.status = "FAILED" /\ ~o.again
    BY <2>3, <2>4, <2>6, <2>11
  <2>12. CASE /\ ~(o.status = "SUCCEEDED" /\ o.kind = "DEPLOY")
              /\ ~(o.status = "SUCCEEDED" /\ o.kind = "ROLLBACK" /\ ~o.again)
              /\ ~(o.status = "SUCCEEDED" /\ o.kind = "DELETE")
              /\ o.status # "ROLLED_BACK" /\ ~(o.status = "FAILED" /\ ~o.again)
    BY <2>3, <2>4, <2>12
  <2> QED
    BY <2>7, <2>8, <2>9, <2>10, <2>11, <2>12
<1> QED
  BY <1>1, SoleInvHolds, PTL
=============================================================================
