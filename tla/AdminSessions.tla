----------------------------- MODULE AdminSessions -----------------------------
(***************************************************************************)
(* The administrator's account and sessions: first setup, login, the check *)
(* of every request, the synchronizer token and logout                     *)
(* (manager/internal/auth, store/auth.go, httpapi/auth_handlers.go and     *)
(* auth_middleware.go), used by the tabs of one browser, which share the   *)
(* cookie and each keep the last token they were sent (web/src/api).       *)
(*                                                                         *)
(* A handler makes several store calls; each is atomic, since the store    *)
(* has one connection, and requests of other tabs come in between.  The    *)
(* answer is a step of its own: answers may overtake each other.           *)
(***************************************************************************)
EXTENDS Naturals, FiniteSets

CONSTANTS
    Tabs,
    Tokens,          \* session tokens, drawn at random: a fresh one each time
    None,
    IdleLimit,       \* 12 hours, in ticks
    AbsoluteLimit,   \* 7 days, in ticks
    MaxNow,          \* bound on the clock
    MaxCsrf          \* bound on the synchronizer tokens drawn

ASSUME SessionsAssumption ==
    /\ None \notin Tokens /\ None \notin Tabs
    /\ IdleLimit \in Nat /\ AbsoluteLimit \in Nat /\ MaxNow \in Nat /\ MaxCsrf \in Nat

VARIABLES
    admin,     \* the admins table: the setups that inserted a row
    session,   \* the sessions table, by token
    now,
    drawn,     \* how many synchronizer tokens were drawn
    cookie,    \* the browser's session cookie
    held,      \* the token each tab keeps in memory, 0 if none
    request,   \* the request of each tab, or None
    used,      \* session tokens drawn so far
    ended      \* history: sessions that were logged out or seen expired

sessionVars == <<admin, session, now, drawn, cookie, held, request, used, ended>>

Record == [csrf : 1..MaxCsrf, seen : 0..MaxNow, expires : Nat]

\* A request: where it stands, the cookie and token it was sent with, what it
\* will answer, and, for the properties, what was over when it was sent.
Steps == {"setup", "verify", "create", "authenticate", "again", "update",
          "validate", "enter", "validateLogout", "delete", "welcome", "open", "show", "clear", "refuse"}
Request == [step : Steps, token : Tokens \cup {None}, csrf : 0..MaxCsrf,
            over : SUBSET Tokens, sent : 0..MaxNow]

ASSUME NoRequestAssumption == None \notin Request

\* Types.
AuthTypeOK ==
    /\ admin \subseteq Tabs
    /\ session \in [Tokens -> Record \cup {None}]
    /\ now \in 0..MaxNow /\ drawn \in 0..MaxCsrf
    /\ cookie \in Tokens \cup {None}
    /\ held \in [Tabs -> 0..MaxCsrf]
    /\ request \in [Tabs -> Request \cup {None}]
    /\ used \subseteq Tokens /\ ended \subseteq Tokens

AuthInit ==
    /\ admin = {}
    /\ session = [k \in Tokens |-> None]
    /\ now = 0 /\ drawn = 0
    /\ cookie = None
    /\ held = [t \in Tabs |-> 0]
    /\ request = [t \in Tabs |-> None]
    /\ used = {} /\ ended = {}

-----------------------------------------------------------------------------
(* A tab sends a request.                                                  *)

Send(t, step) ==
    /\ request[t] = None
    /\ request' = [request EXCEPT ![t] =
                     [step |-> step, token |-> cookie, csrf |-> held[t], over |-> ended, sent |-> now]]
    /\ UNCHANGED <<admin, session, now, drawn, cookie, held, used, ended>>

\* The dashboard shows the setup form while there is no administrator, which
\* another tab may change before the form is sent; requests that need the
\* cookie are refused at once without it.
SendSetup(t) == admin = {} /\ Send(t, "setup")
SendLogin(t) == Send(t, "verify")
SendSession(t) == cookie # None /\ Send(t, "authenticate")
SendChange(t) == cookie # None /\ Send(t, "validate")
SendLogout(t) == cookie # None /\ Send(t, "validateLogout")

At(t, step) == request[t] # None /\ request[t].step = step
Go(t, step) == request' = [request EXCEPT ![t].step = step]

\* The answer will carry a session token and a synchronizer token.
Reply(t, step, k, csrf) ==
    request' = [request EXCEPT ![t] = [step |-> step, token |-> k, csrf |-> csrf,
                                       over |-> @.over, sent |-> @.sent]]

-----------------------------------------------------------------------------
(* The handlers.                                                           *)

\* The transaction at the end of Bootstrap.
CreateFirstAdmin(t) ==
    /\ At(t, "setup")
    /\ IF admin = {} THEN admin' = {t} /\ Go(t, "welcome")
                     ELSE UNCHANGED admin /\ Go(t, "refuse")
    /\ UNCHANGED <<session, now, drawn, cookie, held, used, ended>>

\* Login: the password is right or it is not.
Verify(t) ==
    /\ At(t, "verify")
    /\ \/ admin # {} /\ Go(t, "create")
       \/ Go(t, "refuse")
    /\ UNCHANGED <<admin, session, now, drawn, cookie, held, used, ended>>

\* The rest of Login.  The handler then authenticates the new token, which
\* nobody else knows yet.
CreateSession(t) ==
    /\ At(t, "create") /\ drawn < MaxCsrf
    /\ \E k \in Tokens \ used :
          /\ session' = [session EXCEPT ![k] =
                           [csrf |-> drawn + 1, seen |-> now, expires |-> now + AbsoluteLimit]]
          /\ used' = used \cup {k}
          /\ Reply(t, "open", k, drawn + 1)
    /\ drawn' = drawn + 1
    /\ UNCHANGED <<admin, now, cookie, held, ended>>

Expired(record) == now >= record.expires \/ now - record.seen > IdleLimit

\* Mutant: an expired session passes.
AuthenticateAnyAge(t, next) ==
    LET k == request[t].token
    IN  /\ IF session[k] = None THEN Go(t, "refuse") ELSE Go(t, next)
        /\ UNCHANGED <<session, ended>>

\* Authenticate deletes a session it finds expired.  last_seen_at is written
\* at the login only.
Authenticate(t, next) ==
    LET k == request[t].token
    IN  IF session[k] = None
          THEN Go(t, "refuse") /\ UNCHANGED <<session, ended>>
        ELSE IF Expired(session[k])
          THEN /\ session' = [session EXCEPT ![k] = None]
               /\ ended' = ended \cup {k}
               /\ Go(t, "refuse")
        ELSE Go(t, next) /\ UNCHANGED <<session, ended>>

\* GET /api/session authenticates, and again in RefreshCSRF, which then writes
\* a new token.
ReadSession(t) ==
    /\ At(t, "authenticate") /\ Authenticate(t, "again")
    /\ UNCHANGED <<admin, now, drawn, cookie, held, used>>

RefreshCSRF(t) ==
    /\ At(t, "again") /\ Authenticate(t, "update")
    /\ UNCHANGED <<admin, now, drawn, cookie, held, used>>

\* Mutant: the row is written whether or not it is there.
UpsertSessionCSRF(t) ==
    /\ At(t, "update") /\ drawn < MaxCsrf
    /\ session' = [session EXCEPT ![request[t].token] =
                     [csrf |-> drawn + 1, seen |-> now, expires |-> now + AbsoluteLimit]]
    /\ Reply(t, "show", request[t].token, drawn + 1)
    /\ drawn' = drawn + 1
    /\ UNCHANGED <<admin, now, cookie, held, used, ended>>

\* Mutant: the answer carries the token the request came with.
UpdateAnswersOld(t) ==
    /\ At(t, "update") /\ drawn < MaxCsrf
    /\ IF session[request[t].token] = None
         THEN Go(t, "refuse") /\ UNCHANGED session
         ELSE /\ session' = [session EXCEPT ![request[t].token].csrf = drawn + 1]
              /\ Go(t, "show")
    /\ drawn' = drawn + 1
    /\ UNCHANGED <<admin, now, cookie, held, used, ended>>

UpdateSessionCSRF(t) ==
    /\ At(t, "update") /\ drawn < MaxCsrf
    /\ IF session[request[t].token] = None
         THEN Go(t, "refuse") /\ UNCHANGED session
         ELSE /\ session' = [session EXCEPT ![request[t].token].csrf = drawn + 1]
              /\ Reply(t, "show", request[t].token, drawn + 1)
    /\ drawn' = drawn + 1
    /\ UNCHANGED <<admin, now, cookie, held, used, ended>>

\* ValidateCSRF looks at the token of the row, not at its age.
ValidateCSRF(t, next) ==
    LET record == session[request[t].token]
    IN  IF record # None /\ record.csrf = request[t].csrf THEN Go(t, next) ELSE Go(t, "refuse")

\* ProtectAPI around a request that changes something; the handler is called
\* with the identity Authenticate returned.
ProtectAPI(t) ==
    /\ At(t, "validate") /\ ValidateCSRF(t, "enter")
    /\ UNCHANGED <<admin, session, now, drawn, cookie, held, used, ended>>

RequireSession(t) ==
    /\ At(t, "enter") /\ Authenticate(t, "welcome")
    /\ UNCHANGED <<admin, now, drawn, cookie, held, used>>

Logout(t) ==
    /\ At(t, "validateLogout") /\ ValidateCSRF(t, "delete")
    /\ UNCHANGED <<admin, session, now, drawn, cookie, held, used, ended>>

DeleteSession(t) ==
    /\ At(t, "delete")
    /\ session' = [session EXCEPT ![request[t].token] = None]
    /\ ended' = ended \cup {request[t].token}
    /\ Go(t, "clear")
    /\ UNCHANGED <<admin, now, drawn, cookie, held, used>>

\* The answer arrives.  A login sets the cookie and the tab's token, the answer
\* to GET /api/session the token alone, a logout clears both.
Answer(t) ==
    /\ request[t] # None /\ request[t].step \in {"welcome", "open", "show", "clear", "refuse"}
    /\ cookie' = CASE At(t, "open") -> request[t].token
                   [] At(t, "clear") -> None
                   [] OTHER -> cookie
    /\ held' = [held EXCEPT ![t] = CASE At(t, "open") \/ At(t, "show") -> request[t].csrf
                                     [] At(t, "clear") -> 0
                                     [] OTHER -> held[t]]
    /\ request' = [request EXCEPT ![t] = None]
    /\ UNCHANGED <<admin, session, now, drawn, used, ended>>

Tick ==
    /\ now < MaxNow
    /\ now' = now + 1
    /\ UNCHANGED <<admin, session, drawn, cookie, held, request, used, ended>>

AuthNext ==
    \/ \E t \in Tabs :
          \/ SendSetup(t) \/ SendLogin(t) \/ SendSession(t) \/ SendChange(t) \/ SendLogout(t)
          \/ CreateFirstAdmin(t) \/ Verify(t) \/ CreateSession(t)
          \/ ReadSession(t) \/ RefreshCSRF(t) \/ UpdateSessionCSRF(t)
          \/ ProtectAPI(t) \/ RequireSession(t) \/ Logout(t) \/ DeleteSession(t)
          \/ Answer(t)
    \/ Tick

AuthSpec == AuthInit /\ [][AuthNext]_sessionVars

-----------------------------------------------------------------------------
(* Properties.                                                             *)

\* However many setup forms are sent at once, one administrator is created, and
\* nobody else is told so (CreateFirstAdmin counts inside the transaction).
OneAdministrator == \A s, t \in admin : s = t

\* A session that was logged out or found expired does not come back, whatever
\* a request that was under way at that moment writes (UpdateSessionCSRF).
EndedStaysEnded == \A k \in ended : session[k] = None

\* A change is let through only on a session that had not ended, and whose time
\* had not run out, when the request was sent (ProtectAPI, RequireSession).
ServedWasLive ==
    [][\A t \in Tabs : At(t, "enter") /\ request'[t] # None /\ request'[t].step = "welcome" =>
          LET k == request[t].token
          IN  /\ k \notin request[t].over
              /\ session[k] # None
              /\ request[t].sent < session[k].expires
              /\ request[t].sent - session[k].seen <= IdleLimit]_sessionVars

\* Refreshes and logins of several tabs never leave the browser with a live
\* session that none of its tabs can use: once every answer has arrived, some
\* tab holds the token of the cookie's session.
SomeTabCanAct ==
    (\A t \in Tabs : request[t] = None) /\ cookie # None
        => session[cookie] = None \/ \E t \in Tabs : held[t] = session[cookie].csrf
=============================================================================
