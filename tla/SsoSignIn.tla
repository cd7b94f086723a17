------------------------------ MODULE SsoSignIn ------------------------------
(***************************************************************************)
(* Signing in through the identity provider (IdP), staying signed in and   *)
(* being signed out: authentication_use_cases.py, routers/auth.py,         *)
(* backchannel_logout_use_cases.py and their repositories.                 *)
(*                                                                         *)
(* A sign-in is a round trip: /login or /renew writes a login transaction  *)
(* and sends the browser to the IdP; /callback consumes the transaction,   *)
(* writes a refresh session and gives the browser an access token.  The    *)
(* token is believed without the database until it expires; the session    *)
(* row is what ends when a person logs out or is stopped at the IdP.       *)
(*                                                                         *)
(* Callbacks run on a thread pool, and every repository call commits, so a *)
(* callback is split at its commits.  There is no clock: whatever may be   *)
(* past its time may be treated as expired.                                *)
(***************************************************************************)
EXTENDS Naturals, FiniteSets, SequencesExt

CONSTANTS
    Person,           \* identities at the IdP, each the account of one user
    Known,            \* the persons that signed in before, and have an account
    Browser,
    Trip,             \* values of state, used in order; bounds the round trips
    SessionId,        \* ids of refresh sessions, used in order
    Thread,           \* callbacks handled at the same time
    Login,            \* logins at the IdP: records [person, sid]
    Notice,           \* logout tokens (jti): records [jti, person, sid]
    NoOne, NoSid,     \* claims that are not there
    StateCapacity,    \* LOGIN_STATE_COOKIE_CAPACITY
    MaxCrashes        \* bound on restarts of the server

ASSUME SignInAssumption ==
    /\ Trip \subseteq Nat /\ SessionId \subseteq Nat
    /\ \A l \in Login : l.person \in Person
    /\ NoOne \notin Person /\ Known \subseteq Person
    /\ StateCapacity \in Nat \ {0} /\ MaxCrashes \in Nat

VARIABLES
    trip,      \* login_transactions, with the IdP's answer to each
    cookie,    \* sso_login_state of each browser: the states it remembers
    session,   \* refresh_sessions
    token,     \* the access token of each browser
    linked,    \* federated_identities: the persons that have an account
    handler,   \* callbacks under way
    recorded,  \* backchannel_logout_deliveries
    ending,    \* notices recorded whose sessions are still to be ended
    crashes

tripVars    == <<trip, cookie>>
noticeVars  == <<recorded, ending>>
signInVars  == <<tripVars, session, token, linked, handler, noticeVars, crashes>>

NoLogin == [person |-> NoOne, sid |-> NoSid]
NoToken == [age |-> "none", person |-> NoOne, session |-> 0]
NoRow   == [state |-> "unused", person |-> NoOne, sid |-> NoSid, born |-> 0, heard |-> {}]
Unused  == [state |-> "unused", purpose |-> "login", continued |-> NoToken, answer |-> NoLogin]
Idle    == [pc |-> "idle", browser |-> NoOne, trip |-> 0, purpose |-> "login",
            continued |-> NoToken, login |-> NoLogin, found |-> FALSE]

Live(s) == session[s].state = "live"

SignInTypeOK ==
    /\ \A t \in Trip : trip[t].state \in {"unused", "open", "gone"}
    /\ \A b \in Browser : /\ cookie[b] \in Seq(Trip) /\ Len(cookie[b]) <= StateCapacity
                          /\ token[b].age \in {"none", "fresh", "old", "expired"}
    /\ \A s \in SessionId : session[s].state \in {"unused", "live", "ended"}
    /\ linked \subseteq Person
    /\ \A r \in Thread : handler[r].pc \in {"idle", "read", "redeemed", "resolved"}
    /\ ending \subseteq recorded /\ recorded \subseteq Notice
    /\ crashes \in 0..MaxCrashes

SignInInit ==
    /\ trip = [t \in Trip |-> Unused]
    /\ cookie = [b \in Browser |-> <<>>]
    /\ session = [s \in SessionId |-> NoRow]
    /\ token = [b \in Browser |-> NoToken]
    /\ linked = Known
    /\ handler = [r \in Thread |-> Idle]
    /\ recorded = {} /\ ending = {}
    /\ crashes = 0

------------------------------------------------------------------------------
(***************************************************************************)
(* Starting a round trip                                                   *)
(***************************************************************************)

UnusedTrips == {t \in Trip : trip[t].state = "unused"}
UnusedIds   == {s \in SessionId : session[s].state = "unused"}

\* The next value of a generator that never repeats itself.
Fresh(S) == CHOOSE x \in S : \A y \in S : x <= y

Gone == [Unused EXCEPT !.state = "gone"]

\* _remember_binding: the new state first, the oldest fall off.
Remember(states, t) ==
    <<t>> \o SubSeq(states, 1, IF Len(states) < StateCapacity THEN Len(states) ELSE StateCapacity - 1)

\* _start and _to_idp: abandoned transactions are swept, the new one is added.
Start(b, purpose, continued) ==
    /\ UnusedTrips # {}
    /\ LET t == Fresh(UnusedTrips) IN
       /\ \E expired \in SUBSET {x \in Trip : trip[x].state = "open"} :
             trip' = [x \in Trip |->
                         IF x = t THEN [Unused EXCEPT !.state = "open", !.purpose = purpose,
                                                      !.continued = continued]
                         ELSE IF x \in expired THEN Gone ELSE trip[x]]
       /\ cookie' = [cookie EXCEPT ![b] = Remember(@, t)]
    /\ UNCHANGED <<session, token, linked, handler, noticeVars, crashes>>

StartLogin(b) == Start(b, "login", NoToken)

\* start_renewal: who signed in, and under which session, is read off the token
\* the browser still has, expired or not.
StartRenewal(b) == Start(b, "renew", [token[b] EXCEPT !.age = "none"])

\* External: the IdP signs somebody in and sends the browser back with a code.
IdpAnswers(t, l) ==
    /\ trip[t].state = "open" /\ trip[t].answer = NoLogin
    /\ trip' = [trip EXCEPT ![t].answer = l]
    /\ UNCHANGED <<cookie, session, token, linked, handler, noticeVars, crashes>>

\* login_required: decline_renewal, or decline_silent_login (which leaves the
\* cookie as it is).
Decline(b, t) ==
    /\ trip[t].state = "open" /\ trip[t].answer = NoLogin
    /\ Contains(cookie[b], t)
    /\ trip' = [trip EXCEPT ![t] = Gone]
    /\ cookie' = IF trip[t].purpose = "renew" THEN [cookie EXCEPT ![b] = <<>>] ELSE cookie
    /\ UNCHANGED <<session, token, linked, handler, noticeVars, crashes>>

------------------------------------------------------------------------------
(***************************************************************************)
(* The callback                                                            *)
(***************************************************************************)

\* Up to the SELECT of consume: the browser remembers the state and the
\* transaction is there.  Otherwise the callback changes nothing.
ReadTransaction(r, b, t) ==
    /\ handler[r].pc = "idle"
    /\ Contains(cookie[b], t)
    /\ trip[t].state = "open" /\ trip[t].answer # NoLogin
    /\ handler' = [handler EXCEPT ![r] =
                     [pc |-> "read", browser |-> b, trip |-> t, purpose |-> trip[t].purpose,
                      continued |-> trip[t].continued, login |-> trip[t].answer, found |-> FALSE]]
    /\ UNCHANGED <<tripVars, session, token, linked, noticeVars, crashes>>

\* Mutant: the outcome of the DELETE is not looked at.
WonTheRowAlways(t) == TRUE

\* The DELETE of consume took the row: nobody else had.
WonTheRow(t) == trip[t].state = "open"

\* What the browser is left with by an answer without a sign-in: a renewal
\* takes its state cookie away, a login does not.
CookieAfterFailure(h) ==
    IF h.purpose = "renew" THEN [cookie EXCEPT ![h.browser] = <<>>] ELSE cookie

ConsumeTransaction(r) ==
    LET h == handler[r] IN
    /\ h.pc = "read"
    /\ trip' = [trip EXCEPT ![h.trip] = Gone]
    /\ IF WonTheRow(h.trip)
       THEN handler' = [handler EXCEPT ![r].pc = "redeemed"] /\ UNCHANGED cookie
       ELSE handler' = [handler EXCEPT ![r] = Idle] /\ cookie' = CookieAfterFailure(h)
    /\ UNCHANGED <<session, token, linked, noticeVars, crashes>>

\* The transaction has expired, the code is refused, the policy denies.
RejectCallback(r) ==
    LET h == handler[r] IN
    /\ h.pc = "redeemed"
    /\ handler' = [handler EXCEPT ![r] = Idle]
    /\ cookie' = CookieAfterFailure(h)
    /\ UNCHANGED <<trip, session, token, linked, noticeVars, crashes>>

\* Mutant: whoever comes back continues the sign-in.
MayContinueAnyone(h) == h.login.person \in linked

\* complete_renewal: the person is known here, and is the one who was signed in.
MayContinue(h) ==
    /\ h.login.person \in linked
    /\ h.continued.person \in {NoOne, h.login.person}

\* _resolve_user for a login (a new person gets an account), or the checks of a
\* renewal and its look at the session to be continued.
ResolveUser(r) ==
    LET h == handler[r]
        p == h.login.person
        s == h.continued.session
    IN  /\ h.pc = "redeemed"
        /\ h.purpose = "renew" => MayContinue(h)
        /\ linked' = linked \cup {p}
        /\ handler' = [handler EXCEPT ![r].pc = "resolved",
                         ![r].found = s \in SessionId /\ Live(s) /\ session[s].person = p]
        /\ UNCHANGED <<tripVars, session, token, noticeVars, crashes>>

\* Mutant: the row is written back whether it is still there or not.
ExtendsAnyway(h) == h.found

\* extend: the UPDATE finds the row.
Extends(h) == h.found /\ Live(h.continued.session)

\* The notices dealt with so far.
Heard == recorded \ ending

\* _continue_sign_in or _new_sign_in, and the response with the token.  A login
\* sweeps expired rows first.
WriteSession(r) ==
    LET h == handler[r] IN
    /\ h.pc = "resolved"
    /\ Extends(h) \/ UnusedIds # {}
    /\ LET s   == IF Extends(h) THEN h.continued.session ELSE Fresh(UnusedIds)
           row == [state |-> "live", person |-> h.login.person, sid |-> h.login.sid,
                   born |-> IF Extends(h) THEN session[s].born ELSE h.trip,
                   heard |-> IF Extends(h) THEN session[s].heard ELSE Heard]
       IN  /\ \E expired \in IF h.purpose = "login" THEN SUBSET {x \in SessionId : Live(x)} ELSE {{}} :
                 session' = [x \in SessionId |->
                                IF x = s THEN row
                                ELSE IF x \in expired THEN [NoRow EXCEPT !.state = "ended"]
                                ELSE session[x]]
           /\ token' = [token EXCEPT ![h.browser] =
                           [age |-> "fresh", person |-> h.login.person, session |-> s]]
    /\ cookie' = [cookie EXCEPT ![h.browser] = <<>>]
    /\ handler' = [handler EXCEPT ![r] = Idle]
    /\ UNCHANGED <<trip, linked, noticeVars, crashes>>

Callback(r) ==
    \/ \E b \in Browser, t \in Trip : ReadTransaction(r, b, t)
    \/ ConsumeTransaction(r)
    \/ RejectCallback(r)
    \/ ResolveUser(r)
    \/ WriteSession(r)

------------------------------------------------------------------------------
(***************************************************************************)
(* Tokens, logout and notices from the IdP                                 *)
(***************************************************************************)

WithoutRows(S) == [s \in SessionId |-> IF s \in S THEN [NoRow EXCEPT !.state = "ended"] ELSE session[s]]

Valid(b) == token[b].age \in {"fresh", "old"}

\* An access token grows old, expires, and is in the end not readable any more
\* (its cookie goes with it).
TokenAges(b) ==
    /\ token[b].age # "none"
    /\ token' = [token EXCEPT ![b] = CASE @.age = "fresh" -> [@ EXCEPT !.age = "old"]
                                       [] @.age = "old"   -> [@ EXCEPT !.age = "expired"]
                                       [] OTHER           -> NoToken]
    /\ UNCHANGED <<tripVars, session, linked, handler, noticeVars, crashes>>

\* Mutant: a valid token is enough to get the next one.
MayReissueAnyToken(b) == Valid(b)

\* reissue_access: the token is valid and its session is still there.
MayReissue(b) == Valid(b) /\ Live(token[b].session)

\* Saving one's settings gives a new token for the same session.
Reissue(b) ==
    /\ MayReissue(b)
    /\ token' = [token EXCEPT ![b].age = "fresh"]
    /\ UNCHANGED <<tripVars, session, linked, handler, noticeVars, crashes>>

\* revoke: this sign-in only; an expired token will do.
Logout(b) ==
    LET s == token[b].session IN
    /\ token[b].age # "none"
    /\ session' = WithoutRows(IF Live(s) /\ session[s].person = token[b].person THEN {s} ELSE {})
    /\ token' = [token EXCEPT ![b] = NoToken]
    /\ UNCHANGED <<tripVars, linked, handler, noticeVars, crashes>>

\* Mutant: a redelivered notice is dealt with like a new one.
FirstDeliveryAlways(n) == TRUE

\* record: the unique jti decides which delivery is the first.
FirstDelivery(n) == n \notin recorded

\* A delivery of the logout token; it may come again, at any time, and is then
\* answered without ending anything.
RecordNotice(n) ==
    /\ FirstDelivery(n)
    /\ recorded' = recorded \cup {n}
    /\ ending' = ending \cup {n}
    /\ UNCHANGED <<tripVars, session, token, linked, handler, crashes>>

\* delete_for_identity and delete_for_idp_session.
EndedBy(n) ==
    {s \in SessionId : /\ Live(s)
                       /\ session[s].person \in linked
                       /\ n.person \in {NoOne, session[s].person}
                       /\ n.sid \in {NoSid, session[s].sid}}

EndSessions(n) ==
    /\ n \in ending
    /\ session' = WithoutRows(EndedBy(n))
    /\ ending' = ending \ {n}
    /\ UNCHANGED <<tripVars, token, linked, handler, recorded, crashes>>

\* The server is restarted: requests under way are lost, the tables stay.
CrashSignIn ==
    /\ crashes < MaxCrashes
    /\ crashes' = crashes + 1
    /\ handler' = [r \in Thread |-> Idle]
    /\ ending' = {}
    /\ UNCHANGED <<tripVars, session, token, linked, recorded>>

BrowserStep ==
    \E b \in Browser :
        \/ StartLogin(b) \/ StartRenewal(b)
        \/ \E t \in Trip : Decline(b, t)
        \/ TokenAges(b) \/ Reissue(b) \/ Logout(b)

SignInStep ==
    \/ BrowserStep
    \/ \E r \in Thread : Callback(r)
    \/ \E n \in Notice : RecordNotice(n) \/ EndSessions(n)

SignInNext ==
    \/ SignInStep
    \/ \E t \in Trip, l \in Login : IdpAnswers(t, l)
    \/ CrashSignIn

SignInSpec == SignInInit /\ [][SignInNext]_signInVars

------------------------------------------------------------------------------
(***************************************************************************)
(* Properties.                                                             *)
(***************************************************************************)

\* consume: a round trip signs in once, also when its callback arrives twice at
\* the same moment.
OneSignInPerTrip ==
    \A s, x \in SessionId : Live(s) /\ Live(x) /\ s # x => session[s].born # session[x].born

\* A session that was ended (logout, notice, expiry) never comes back under its
\* id, whatever renewal was already on its way.
EndedStaysEnded ==
    [][\A s \in SessionId : session[s].state = "ended" => session'[s].state = "ended"]_signInVars

\* "Continuing is not signing in again": a renewal begun with one person's
\* token never leaves the browser with another person's.
RenewalKeepsThePerson ==
    [][\A r \in Thread :
          LET h == handler[r] IN
          (h.purpose = "renew" /\ h.continued.person # NoOne /\ h.pc = "resolved"
              /\ token'[h.browser] # token[h.browser] /\ handler'[r] = Idle)
          => token'[h.browser].person = h.continued.person]_signInVars

\* A notice that was dealt with (or lost in a crash) does not end a session
\* that began after it when the IdP sends it again.
RedeliveryEndsNothingNew ==
    [][\A n \in Notice :
          EndSessions(n) => \A s \in EndedBy(n) : n \notin session[s].heard]_signInVars
==============================================================================
