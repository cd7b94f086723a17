------------------------------ MODULE SsoProofs ------------------------------
(***************************************************************************)
(* Proofs about sign-in beside reconciliation, for every number of people, *)
(* browsers, threads, round trips and notices: what the tables hold, that  *)
(* a round trip signs in once, that an ended session stays ended, that a   *)
(* renewal keeps the person, and that a notice sent again ends nothing new.*)
(***************************************************************************)
EXTENDS SsoReconciliation, TLAPS, SequenceTheorems, WellFoundedInduction

------------------------------------------------------------------------------
(* The inductive invariant.                                                 *)

TokenRow   == [age : {"none", "fresh", "old", "expired"}, person : Person \cup {NoOne},
               session : SessionId \cup {0}]
TripRow    == [state : {"unused", "open", "gone"}, purpose : {"login", "renew"},
               continued : TokenRow, answer : Login \cup {NoLogin}]
SessionRow == [state : {"unused", "live", "ended"}, person : Person \cup {NoOne},
               sid : {l.sid : l \in Login} \cup {NoSid}, born : Trip \cup {0},
               heard : SUBSET Notice]
HandlerRow == [pc : {"idle", "read", "redeemed", "resolved"}, browser : Browser \cup {NoOne},
               trip : Trip \cup {0}, purpose : {"login", "renew"}, continued : TokenRow,
               login : Login \cup {NoLogin}, found : BOOLEAN]

\* The rows of the tables, what browsers hold and what callbacks remember.
TripRows    == /\ trip \in [Trip -> TripRow]
               /\ cookie \in [Browser -> Seq(Trip)]
               /\ \A b \in Browser : Len(cookie[b]) <= StateCapacity
SessionRows == /\ session \in [SessionId -> SessionRow]
               /\ linked \subseteq Person
TokenRows   == /\ token \in [Browser -> TokenRow]
               /\ \A b \in Browser : token[b].age # "none" => token[b].session \in SessionId
HandlerRows ==
    /\ handler \in [Thread -> HandlerRow]
    /\ \A r \in Thread : handler[r].pc # "idle" =>
          /\ handler[r].browser \in Browser
          /\ handler[r].trip \in Trip
          /\ handler[r].login \in Login
          /\ handler[r].pc = "resolved" /\ handler[r].found
                => handler[r].continued.session \in SessionId
NoticeRows  == /\ ending \subseteq recorded /\ recorded \subseteq Notice
               /\ crashes \in 0..MaxCrashes
WorkRows    == /\ roster \in [Person -> {"allowed", "blocked", "unknown"}]
               /\ work \in [Person -> {"nothing", "end", "endAndUnlink", "unlink"}]
               /\ \A p \in Person : work[p] # "nothing" => p \in linked

\* A callback between the DELETE of its transaction and its last commit.
Holds(r) == handler[r].pc \in {"redeemed", "resolved"}

\* A round trip is spent by at most one callback or session, and its row is
\* gone by then: this is what makes OneSignInPerTrip inductive.
TripsSpentOnce ==
    /\ \A r \in Thread : Holds(r) => trip[handler[r].trip].state = "gone"
    /\ \A q, r \in Thread : Holds(q) /\ Holds(r) /\ q # r => handler[q].trip # handler[r].trip
    /\ \A s \in SessionId : Live(s) => session[s].born \in Trip /\ trip[session[s].born].state = "gone"
    /\ \A s \in SessionId, r \in Thread : Live(s) /\ Holds(r) => session[s].born # handler[r].trip
    /\ OneSignInPerTrip

\* A renewal that passed its checks is the renewal of the person who came back.
RenewalsMatch ==
    \A r \in Thread :
        handler[r].pc = "resolved" /\ handler[r].purpose = "renew" /\ handler[r].continued.person # NoOne
        => handler[r].login.person = handler[r].continued.person

\* What a session counts as heard was recorded and is not about to be dealt with.
HeardInTime == \A s \in SessionId : session[s].heard \subseteq recorded \ ending

SignInInv ==
    /\ TripRows /\ SessionRows /\ TokenRows /\ HandlerRows /\ NoticeRows /\ WorkRows
    /\ TripsSpentOnce /\ RenewalsMatch /\ HeardInTime

------------------------------------------------------------------------------
(* The operators.                                                           *)

\* The generators find an unused value while there is one.
LEMMA FreshInSet ==
    ASSUME NEW S \in SUBSET Nat, S # {}
    PROVE  Fresh(S) \in S
<1> DEFINE R == {ss \in Nat \X Nat : ss[1] < ss[2]}
<1>1. IsWellFoundedOn(R, Nat)
  BY NatLessThanWellFounded DEF OpToRel
<1> HIDE DEF R
<1>2. PICK x \in S : \A y \in S : <<y, x>> \notin R
  BY <1>1, WFMin
<1>3. ASSUME NEW y \in S PROVE x <= y
  <2>1. x \in Nat /\ y \in Nat /\ <<y, x>> \notin R
    BY <1>2
  <2> QED
    BY <2>1 DEF R
<1> QED
  BY <1>3 DEF Fresh

\* The cookie stays within its capacity.
LEMMA RememberKeepsCapacity ==
    ASSUME NEW states \in Seq(Trip), Len(states) <= StateCapacity, NEW t \in Trip
    PROVE  /\ Remember(states, t) \in Seq(Trip)
           /\ Len(Remember(states, t)) <= StateCapacity
<1> DEFINE n == IF Len(states) < StateCapacity THEN Len(states) ELSE StateCapacity - 1
<1>1. Len(states) \in Nat /\ StateCapacity \in Nat \ {0}
  BY LenProperties, SignInAssumption
<1>2. n \in Nat /\ n <= Len(states) /\ n < StateCapacity
  BY <1>1
<1> HIDE DEF n
<1>3. SubSeq(states, 1, n) \in Seq(Trip) /\ Len(SubSeq(states, 1, n)) = n
  <2>1. \A i \in 1..n : states[i] \in Trip
    BY <1>1, <1>2, ElementOfSeq
  <2>2. /\ SubSeq(states, 1, n) \in Seq(Trip)
        /\ Len(SubSeq(states, 1, n)) = IF 1 <= n THEN n - 1 + 1 ELSE 0
    BY <1>2, <2>1, SubSeqProperties
  <2> QED
    BY <1>2, <2>2
<1>4. <<t>> \in Seq(Trip) /\ Len(<<t>>) = 1
  OBVIOUS
<1>5. /\ <<t>> \o SubSeq(states, 1, n) \in Seq(Trip)
      /\ Len(<<t>> \o SubSeq(states, 1, n)) = 1 + n
  BY <1>3, <1>4, ConcatProperties
<1> QED
  BY <1>1, <1>2, <1>5 DEF Remember, n

\* The constant rows have the types of rows.
LEMMA ConstantRows ==
    /\ NoToken \in TokenRow /\ NoLogin \notin Login
    /\ Unused \in TripRow /\ Gone \in TripRow
    /\ NoRow \in SessionRow /\ [NoRow EXCEPT !.state = "ended"] \in SessionRow
    /\ Idle \in HandlerRow
<1>1. NoToken \in TokenRow
  BY DEF NoToken, TokenRow
<1>2. NoLogin \notin Login
  BY SignInAssumption DEF NoLogin
<1>3. Unused \in TripRow /\ Gone \in TripRow
  BY <1>1 DEF Unused, Gone, TripRow
<1>4. NoRow \in SessionRow /\ [NoRow EXCEPT !.state = "ended"] \in SessionRow
  BY DEF NoRow, SessionRow
<1>5. Idle \in HandlerRow
  BY <1>1 DEF Idle, HandlerRow
<1> QED
  BY <1>1, <1>2, <1>3, <1>4, <1>5

\* What the ended rows look like.
LEMMA WithoutRowsRows ==
    ASSUME SessionRows, NEW S
    PROVE  /\ WithoutRows(S) \in [SessionId -> SessionRow]
           /\ \A s \in SessionId : WithoutRows(S)[s].state = "live" =>
                 WithoutRows(S)[s] = session[s]
           /\ \A s \in SessionId : WithoutRows(S)[s].heard \subseteq session[s].heard
<1>1. [NoRow EXCEPT !.state = "ended"].state = "ended" /\ [NoRow EXCEPT !.state = "ended"].heard = {}
  BY DEF NoRow
<1> DEFINE row == [NoRow EXCEPT !.state = "ended"]
<1> HIDE DEF row
<1>2. row \in SessionRow /\ row.state = "ended" /\ row.heard = {}
  BY <1>1, ConstantRows DEF row
<1>3. WithoutRows(S) = [s \in SessionId |-> IF s \in S THEN row ELSE session[s]]
  BY DEF WithoutRows, row
<1> QED
  BY <1>2, <1>3 DEF SessionRows

------------------------------------------------------------------------------
(* Round trips, seen from what depends on them.                             *)

\* Transactions come and go, but a row that is gone never returns.
LEMMA GoneStaysGone ==
    ASSUME TripsSpentOnce, HandlerRows, UNCHANGED <<session, handler>>,
           \A t \in Trip : trip[t].state = "gone" => trip'[t].state = "gone"
    PROVE  TripsSpentOnce'
<1>1. \A r \in Thread : Holds(r) => handler[r].trip \in Trip
  BY DEF HandlerRows, Holds
<1> QED
  BY <1>1 DEF TripsSpentOnce, Holds, Live, OneSignInPerTrip

\* Ending sessions spends no round trip.
LEMMA EndingSpendsNothing ==
    ASSUME TripsSpentOnce, SessionRows, UNCHANGED <<trip, handler>>,
           NEW S, session' = WithoutRows(S)
    PROVE  TripsSpentOnce'
<1>1. \A s \in SessionId : Live(s)' => Live(s) /\ session'[s] = session[s]
  BY WithoutRowsRows DEF Live
<1> QED
  BY <1>1 DEF TripsSpentOnce, Holds, OneSignInPerTrip

------------------------------------------------------------------------------
(* One lemma for each action.                                               *)

LEMMA StartKeeps ==
    ASSUME SignInInv, UNCHANGED <<roster, work>>, NEW b \in Browser,
           NEW purpose \in {"login", "renew"}, NEW continued \in TokenRow,
           Start(b, purpose, continued)
    PROVE  SignInInv'
<1> DEFINE t == Fresh(UnusedTrips)
           row == [Unused EXCEPT !.state = "open", !.purpose = purpose, !.continued = continued]
<1>1. t \in Trip /\ trip[t].state = "unused"
  BY FreshInSet, SignInAssumption DEF Start, UnusedTrips
<1>2. row \in TripRow /\ Gone \in TripRow /\ Gone.state = "gone"
  <2>1. row \in TripRow
    BY ConstantRows DEF TripRow
  <2> QED
    BY <2>1, ConstantRows DEF Gone, Unused
<1> HIDE DEF t, row
<1>3. PICK expired : trip' = [x \in Trip |-> IF x = t THEN row
                                             ELSE IF x \in expired THEN Gone ELSE trip[x]]
  BY DEF Start, t, row
<1>4. /\ cookie' = [cookie EXCEPT ![b] = Remember(@, t)]
      /\ UNCHANGED <<session, token, linked, handler, noticeVars, crashes>>
  BY DEF Start, t
<1>5. TripRows'
  <2>1. trip' \in [Trip -> TripRow]
    BY <1>2, <1>3 DEF SignInInv, TripRows
  <2>2. Remember(cookie[b], t) \in Seq(Trip) /\ Len(Remember(cookie[b], t)) <= StateCapacity
    BY <1>1, RememberKeepsCapacity DEF SignInInv, TripRows
  <2> QED
    BY <1>4, <2>1, <2>2 DEF SignInInv, TripRows
<1>6. TripsSpentOnce'
  <2>1. \A x \in Trip : trip[x].state = "gone" => trip'[x].state = "gone"
    BY <1>1, <1>2, <1>3
  <2> QED
    BY <1>4, <2>1, GoneStaysGone DEF SignInInv
<1> QED
  BY <1>4, <1>5, <1>6 DEF SignInInv, SessionRows, TokenRows, HandlerRows, NoticeRows, WorkRows,
     RenewalsMatch, HeardInTime, noticeVars

LEMMA IdpAnswersKeeps ==
    ASSUME SignInInv, UNCHANGED <<roster, work>>, NEW t \in Trip, NEW l \in Login, IdpAnswers(t, l)
    PROVE  SignInInv'
<1>1. TripRows'
  BY DEF SignInInv, TripRows, IdpAnswers, TripRow
<1>2. TripsSpentOnce'
  <2>1. \A x \in Trip : trip[x].state = "gone" => trip'[x].state = "gone"
    BY DEF SignInInv, TripRows, IdpAnswers, TripRow
  <2> QED
    BY <2>1, GoneStaysGone DEF SignInInv, IdpAnswers
<1> QED
  BY <1>1, <1>2 DEF SignInInv, SessionRows, TokenRows, HandlerRows, NoticeRows, WorkRows,
     RenewalsMatch, HeardInTime, noticeVars, IdpAnswers

\* A cookie that is taken away is within its capacity.
LEMMA EmptyCookie ==
    ASSUME cookie \in [Browser -> Seq(Trip)], NEW b,
           \A x \in Browser : Len(cookie[x]) <= StateCapacity
    PROVE  /\ [cookie EXCEPT ![b] = <<>>] \in [Browser -> Seq(Trip)]
           /\ \A x \in Browser : Len([cookie EXCEPT ![b] = <<>>][x]) <= StateCapacity
<1>1. <<>> \in Seq(Trip) /\ Len(<<>>) = 0 /\ 0 <= StateCapacity
  BY EmptySeq, SignInAssumption
<1> QED
  BY <1>1

LEMMA DeclineKeeps ==
    ASSUME SignInInv, UNCHANGED <<roster, work>>, NEW b \in Browser, NEW t \in Trip, Decline(b, t)
    PROVE  SignInInv'
<1>1. TripRows'
  <2>1. trip' \in [Trip -> TripRow]
    BY ConstantRows DEF SignInInv, TripRows, Decline
  <2> QED
    BY <2>1, EmptyCookie DEF SignInInv, TripRows, Decline
<1>2. TripsSpentOnce'
  <2>1. Gone.state = "gone"
    BY DEF Gone, Unused
  <2>2. \A x \in Trip : trip[x].state = "gone" => trip'[x].state = "gone"
    BY <2>1 DEF SignInInv, TripRows, Decline
  <2> QED
    BY <2>2, GoneStaysGone DEF SignInInv, Decline
<1> QED
  BY <1>1, <1>2 DEF SignInInv, SessionRows, TokenRows, HandlerRows, NoticeRows, WorkRows,
     RenewalsMatch, HeardInTime, noticeVars, Decline

LEMMA ReadTransactionKeeps ==
    ASSUME SignInInv, UNCHANGED <<roster, work>>, NEW r \in Thread, NEW b \in Browser,
           NEW t \in Trip, ReadTransaction(r, b, t)
    PROVE  SignInInv'
<1> DEFINE h == [pc |-> "read", browser |-> b, trip |-> t, purpose |-> trip[t].purpose,
                 continued |-> trip[t].continued, login |-> trip[t].answer, found |-> FALSE]
<1>1. trip[t] \in TripRow /\ trip[t].answer # NoLogin
  BY DEF SignInInv, TripRows, ReadTransaction
<1>2. /\ h \in HandlerRow /\ h.login \in Login /\ h.pc = "read"
      /\ h.browser \in Browser /\ h.trip \in Trip
  BY <1>1 DEF TripRow, HandlerRow
<1> HIDE DEF h
<1>3. handler' = [handler EXCEPT ![r] = h] /\ UNCHANGED <<trip, session>>
  BY DEF ReadTransaction, h, tripVars
<1>4. HandlerRows'
  BY <1>2, <1>3 DEF SignInInv, HandlerRows
<1>5. \A q \in Thread : Holds(q)' => Holds(q) /\ handler'[q] = handler[q]
  BY <1>2, <1>3 DEF SignInInv, HandlerRows, Holds
<1>6. TripsSpentOnce'
  BY <1>3, <1>5 DEF SignInInv, TripsSpentOnce, Live, OneSignInPerTrip
<1>7. RenewalsMatch'
  BY <1>2, <1>3 DEF SignInInv, HandlerRows, RenewalsMatch
<1> QED
  BY <1>4, <1>6, <1>7 DEF SignInInv, TripRows, SessionRows, TokenRows, NoticeRows, WorkRows,
     HeardInTime, tripVars, noticeVars, ReadTransaction

\* A callback that is over leaves nothing behind.
LEMMA IdleKeeps ==
    ASSUME HandlerRows, TripsSpentOnce, RenewalsMatch, UNCHANGED session,
           \A t \in Trip : trip[t].state = "gone" => trip'[t].state = "gone",
           NEW r \in Thread, handler' = [handler EXCEPT ![r] = Idle]
    PROVE  HandlerRows' /\ TripsSpentOnce' /\ RenewalsMatch'
<1>1. Idle \in HandlerRow /\ Idle.pc = "idle"
  BY ConstantRows DEF Idle
<1>2. HandlerRows'
  BY <1>1 DEF HandlerRows
<1>3. \A q \in Thread : Holds(q)' => Holds(q) /\ handler'[q] = handler[q] /\ handler[q].trip \in Trip
  BY <1>1 DEF HandlerRows, Holds
<1>4. TripsSpentOnce'
  BY <1>3 DEF TripsSpentOnce, Live, OneSignInPerTrip
<1>5. RenewalsMatch'
  BY <1>1 DEF HandlerRows, RenewalsMatch
<1> QED
  BY <1>2, <1>4, <1>5

LEMMA ConsumeTransactionKeeps ==
    ASSUME SignInInv, UNCHANGED <<roster, work>>, NEW r \in Thread, ConsumeTransaction(r)
    PROVE  SignInInv'
<1> DEFINE h == handler[r]
<1>1. /\ h.pc = "read" /\ h \in HandlerRow /\ h.trip \in Trip
      /\ trip' = [trip EXCEPT ![h.trip] = Gone]
      /\ UNCHANGED <<session, token, linked, noticeVars, crashes>>
  BY DEF ConsumeTransaction, SignInInv, HandlerRows
<1>2. Gone \in TripRow /\ Gone.state = "gone"
  BY ConstantRows DEF Gone, Unused
<1>3. /\ trip' \in [Trip -> TripRow]
      /\ trip'[h.trip].state = "gone"
      /\ \A t \in Trip : trip[t].state = "gone" => trip'[t].state = "gone"
  BY <1>1, <1>2 DEF SignInInv, TripRows
<1>4. CASE WonTheRow(h.trip)
  <2>1. handler' = [handler EXCEPT ![r].pc = "redeemed"] /\ UNCHANGED cookie
    BY <1>4 DEF ConsumeTransaction
  <2>2. /\ handler' \in [Thread -> HandlerRow]
        /\ handler'[r].pc = "redeemed" /\ handler'[r].trip = h.trip
        /\ handler'[r].browser = h.browser /\ handler'[r].login = h.login
        /\ \A q \in Thread : q # r => handler'[q] = handler[q]
    BY <2>1 DEF SignInInv, HandlerRows, HandlerRow
  <2>3. HandlerRows'
    BY <1>1, <2>2 DEF SignInInv, HandlerRows
  <2>4. \A q \in Thread : Holds(q)' => q = r \/ (Holds(q) /\ handler'[q] = handler[q])
    BY <2>2 DEF Holds
  <2>5. \A q \in Thread : Holds(q) => handler[q].trip # h.trip /\ handler[q].trip \in Trip
    BY <1>1, <1>4 DEF SignInInv, HandlerRows, TripsSpentOnce, WonTheRow, Holds
  <2>6. \A s \in SessionId : Live(s) => session[s].born # h.trip
    BY <1>4 DEF SignInInv, TripsSpentOnce, WonTheRow
  <2>7. TripsSpentOnce'
    BY <1>1, <1>3, <2>2, <2>4, <2>5, <2>6 DEF SignInInv, TripsSpentOnce, Live, OneSignInPerTrip
  <2>8. RenewalsMatch'
    BY <2>2 DEF SignInInv, RenewalsMatch
  <2> QED
    BY <1>1, <1>3, <2>1, <2>3, <2>7, <2>8 DEF SignInInv, TripRows, SessionRows, TokenRows,
       NoticeRows, WorkRows, HeardInTime, noticeVars
<1>5. CASE ~WonTheRow(h.trip)
  <2>1. handler' = [handler EXCEPT ![r] = Idle] /\ cookie' = CookieAfterFailure(h)
    BY <1>5 DEF ConsumeTransaction
  <2>2. HandlerRows' /\ TripsSpentOnce' /\ RenewalsMatch'
    BY <1>1, <1>3, <2>1, IdleKeeps DEF SignInInv
  <2>3. TripRows'
    BY <1>3, <2>1, EmptyCookie DEF SignInInv, TripRows, CookieAfterFailure
  <2> QED
    BY <1>1, <2>2, <2>3 DEF SignInInv, SessionRows, TokenRows, NoticeRows, WorkRows,
       HeardInTime, noticeVars
<1> QED
  BY <1>4, <1>5

LEMMA RejectCallbackKeeps ==
    ASSUME SignInInv, UNCHANGED <<roster, work>>, NEW r \in Thread, RejectCallback(r)
    PROVE  SignInInv'
<1>1. /\ handler' = [handler EXCEPT ![r] = Idle]
      /\ cookie' = CookieAfterFailure(handler[r])
      /\ UNCHANGED <<trip, session, token, linked, noticeVars, crashes>>
  BY DEF RejectCallback
<1>2. HandlerRows' /\ TripsSpentOnce' /\ RenewalsMatch'
  BY <1>1, IdleKeeps DEF SignInInv
<1>3. TripRows'
  BY <1>1, EmptyCookie DEF SignInInv, TripRows, CookieAfterFailure
<1> QED
  BY <1>1, <1>2, <1>3 DEF SignInInv, SessionRows, TokenRows, NoticeRows, WorkRows,
     HeardInTime, noticeVars

LEMMA ResolveUserKeeps ==
    ASSUME SignInInv, UNCHANGED <<roster, work>>, NEW r \in Thread, ResolveUser(r)
    PROVE  SignInInv'
<1> DEFINE h == handler[r]
           p == h.login.person
           s == h.continued.session
           found == s \in SessionId /\ Live(s) /\ session[s].person = p
<1>1. /\ h.pc = "redeemed" /\ h \in HandlerRow /\ h.login \in Login /\ p \in Person
      /\ h.purpose = "renew" => MayContinue(h)
      /\ linked' = linked \cup {p}
      /\ handler' = [handler EXCEPT ![r].pc = "resolved", ![r].found = found]
      /\ UNCHANGED <<tripVars, session, token, noticeVars, crashes>>
  BY SignInAssumption DEF ResolveUser, SignInInv, HandlerRows
<1>2. found \in BOOLEAN /\ (found => s \in SessionId)
  OBVIOUS
<1> HIDE DEF found
<1>3. /\ handler' \in [Thread -> HandlerRow]
      /\ handler'[r] = [h EXCEPT !.pc = "resolved", !.found = found]
      /\ \A q \in Thread : q # r => handler'[q] = handler[q]
  BY <1>1, <1>2 DEF SignInInv, HandlerRows, HandlerRow
<1>4. /\ handler'[r].pc = "resolved" /\ handler'[r].found = found
      /\ handler'[r].trip = h.trip /\ handler'[r].browser = h.browser
      /\ handler'[r].login = h.login /\ handler'[r].continued = h.continued
      /\ handler'[r].purpose = h.purpose
  BY <1>1, <1>3 DEF HandlerRow
<1>5. HandlerRows'
  BY <1>1, <1>2, <1>3, <1>4 DEF SignInInv, HandlerRows
<1>6. \A q \in Thread : (Holds(q)' => Holds(q)) /\ handler'[q].trip = handler[q].trip
  BY <1>1, <1>3, <1>4 DEF Holds
<1>7. TripsSpentOnce'
  <2>1. UNCHANGED <<trip, session>> /\ TripsSpentOnce
    BY <1>1 DEF tripVars, SignInInv
  <2>2. OneSignInPerTrip'
    BY <2>1 DEF TripsSpentOnce, OneSignInPerTrip, Live
  <2>3. \A x \in SessionId : Live(x)' = Live(x)
    BY <2>1 DEF Live
  <2> QED
    BY <1>6, <2>1, <2>2, <2>3 DEF TripsSpentOnce
<1>8. RenewalsMatch'
  BY <1>1, <1>3, <1>4 DEF SignInInv, RenewalsMatch, MayContinue
<1> QED
  BY <1>1, <1>5, <1>7, <1>8 DEF SignInInv, TripRows, SessionRows, TokenRows, NoticeRows,
     WorkRows, HeardInTime, tripVars, noticeVars

LEMMA WriteSessionKeeps ==
    ASSUME SignInInv, UNCHANGED <<roster, work>>, NEW r \in Thread, WriteSession(r)
    PROVE  SignInInv'
<1> DEFINE h   == handler[r]
           s   == IF Extends(h) THEN h.continued.session ELSE Fresh(UnusedIds)
           row == [state |-> "live", person |-> h.login.person, sid |-> h.login.sid,
                   born |-> IF Extends(h) THEN session[s].born ELSE h.trip,
                   heard |-> IF Extends(h) THEN session[s].heard ELSE Heard]
           out == [NoRow EXCEPT !.state = "ended"]
           tok == [age |-> "fresh", person |-> h.login.person, session |-> s]
<1>1. /\ h.pc = "resolved" /\ h \in HandlerRow /\ h.login \in Login /\ h.login.person \in Person
      /\ h.trip \in Trip /\ h.browser \in Browser
      /\ h.found => h.continued.session \in SessionId
  BY SignInAssumption DEF WriteSession, SignInInv, HandlerRows
<1>2. /\ s \in SessionId
      /\ Extends(h) => Live(s)
      /\ ~Extends(h) => session[s].state = "unused"
  <2>1. CASE Extends(h)
    BY <1>1, <2>1 DEF Extends
  <2>2. CASE ~Extends(h)
    <3>1. UnusedIds # {} /\ UnusedIds \in SUBSET Nat
      BY <2>2, SignInAssumption DEF WriteSession, UnusedIds
    <3>2. Fresh(UnusedIds) \in UnusedIds
      BY <3>1, FreshInSet
    <3> QED
      BY <2>2, <3>2 DEF UnusedIds
  <2> QED
    BY <2>1, <2>2
<1>3. PICK expired : session' = [x \in SessionId |-> IF x = s THEN row
                                    ELSE IF x \in expired THEN out ELSE session[x]]
  BY DEF WriteSession
<1>4. /\ token' = [token EXCEPT ![h.browser] = tok]
      /\ cookie' = [cookie EXCEPT ![h.browser] = <<>>]
      /\ handler' = [handler EXCEPT ![r] = Idle]
      /\ UNCHANGED <<trip, linked, noticeVars, crashes>>
  BY DEF WriteSession
<1>5. out \in SessionRow /\ out.state = "ended" /\ out.heard = {}
  BY ConstantRows DEF NoRow
<1>6. session[s] \in SessionRow /\ Heard \subseteq Notice
  BY <1>2 DEF SignInInv, SessionRows, NoticeRows, Heard
<1>7. row \in SessionRow
  <2>1. /\ h.login.sid \in {l.sid : l \in Login}
        /\ session[s].born \in Trip \cup {0} /\ session[s].heard \in SUBSET Notice
    BY <1>1, <1>6 DEF SessionRow
  <2> QED
    BY <1>1, <1>6, <2>1 DEF SessionRow
<1>8. tok \in TokenRow /\ tok.session \in SessionId
  BY <1>1, <1>2 DEF TokenRow
<1>9. /\ row.state = "live"
      /\ row.born = IF Extends(h) THEN session[s].born ELSE h.trip
      /\ row.heard = IF Extends(h) THEN session[s].heard ELSE Heard
  OBVIOUS
<1> HIDE DEF s, row, out, tok
<1>10. SessionRows'
  BY <1>3, <1>4, <1>5, <1>7 DEF SignInInv, SessionRows
<1>11. TokenRows'
  BY <1>1, <1>4, <1>8 DEF SignInInv, TokenRows
<1>12. TripRows'
  BY <1>4, EmptyCookie DEF SignInInv, TripRows
<1>13. HandlerRows' /\ RenewalsMatch'
  <2>1. Idle \in HandlerRow /\ Idle.pc = "idle"
    BY ConstantRows DEF Idle
  <2> QED
    BY <1>4, <2>1 DEF SignInInv, HandlerRows, RenewalsMatch
<1>14. HeardInTime'
  BY <1>2, <1>3, <1>4, <1>5, <1>9 DEF SignInInv, HeardInTime, Heard, noticeVars
<1>15. TripsSpentOnce'
  <2>1. \A q \in Thread : Holds(q)' => q # r /\ Holds(q) /\ handler'[q] = handler[q]
    BY <1>4 DEF SignInInv, HandlerRows, Holds, Idle
  <2>2. \A x \in SessionId : Live(x)' /\ x # s => Live(x) /\ session'[x] = session[x]
    BY <1>3, <1>5 DEF Live
  <2>3. Holds(r)
    BY <1>1 DEF Holds
  <2>4. session'[s].born = IF Extends(h) THEN session[s].born ELSE h.trip
    BY <1>2, <1>3, <1>9
  <2>5. session'[s].born \in Trip /\ trip[session'[s].born].state = "gone"
    BY <1>1, <1>2, <2>3, <2>4 DEF SignInInv, TripsSpentOnce
  <2>6. \A x \in SessionId : Live(x) /\ x # s => session[x].born # session'[s].born
    BY <1>2, <2>3, <2>4 DEF SignInInv, TripsSpentOnce, OneSignInPerTrip
  <2>7. \A q \in Thread : Holds(q) /\ q # r => session'[s].born # handler[q].trip
    BY <1>2, <2>3, <2>4 DEF SignInInv, TripsSpentOnce
  <2>8. OneSignInPerTrip'
    BY <2>2, <2>6 DEF SignInInv, TripsSpentOnce, OneSignInPerTrip
  <2> QED
    BY <1>4, <2>1, <2>2, <2>5, <2>7, <2>8 DEF SignInInv, TripsSpentOnce
<1> QED
  BY <1>4, <1>10, <1>11, <1>12, <1>13, <1>14, <1>15 DEF SignInInv, NoticeRows, WorkRows, noticeVars

\* Tokens age, are given anew and are dropped without touching a table.
LEMMA TokenStepKeeps ==
    ASSUME SignInInv, UNCHANGED <<roster, work>>, NEW b \in Browser, TokenAges(b) \/ Reissue(b)
    PROVE  SignInInv'
<1>1. TokenRows'
  <2>1. NoToken \in TokenRow /\ NoToken.age = "none"
    BY ConstantRows DEF NoToken
  <2>2. token \in [Browser -> TokenRow] /\ token[b].session \in SessionId
    BY DEF SignInInv, TokenRows, TokenAges, Reissue, MayReissue, Valid
  <2>3. \A age \in {"fresh", "old", "expired"} :
           /\ [token[b] EXCEPT !.age = age] \in TokenRow
           /\ [token[b] EXCEPT !.age = age].session \in SessionId
    BY <2>2 DEF TokenRow
  <2>4. \E row \in TokenRow : /\ row.age # "none" => row.session \in SessionId
                              /\ token' = [token EXCEPT ![b] = row]
    <3>1. CASE TokenAges(b)
      BY <2>1, <2>3, <3>1 DEF TokenAges
    <3>2. CASE Reissue(b)
      BY <2>3, <3>2 DEF Reissue
    <3> QED
      BY <3>1, <3>2
  <2> QED
    BY <2>4 DEF SignInInv, TokenRows
<1> QED
  BY <1>1 DEF SignInInv, TripRows, SessionRows, HandlerRows, NoticeRows, WorkRows, TripsSpentOnce,
     RenewalsMatch, HeardInTime, OneSignInPerTrip, Holds, Live, tripVars, noticeVars,
     TokenAges, Reissue

LEMMA LogoutKeeps ==
    ASSUME SignInInv, UNCHANGED <<roster, work>>, NEW b \in Browser, Logout(b)
    PROVE  SignInInv'
<1>1. PICK S : session' = WithoutRows(S)
  BY DEF Logout
<1>2. /\ token' = [token EXCEPT ![b] = NoToken]
      /\ UNCHANGED <<trip, cookie, linked, handler, recorded, ending, crashes>>
  BY DEF Logout, tripVars, noticeVars
<1>3. TokenRows'
  <2>1. NoToken \in TokenRow /\ NoToken.age = "none"
    BY ConstantRows DEF NoToken
  <2> QED
    BY <1>2, <2>1 DEF SignInInv, TokenRows
<1>4. SessionRows' /\ HeardInTime'
  BY <1>1, <1>2, WithoutRowsRows DEF SignInInv, SessionRows, HeardInTime
<1>5. TripsSpentOnce'
  BY <1>1, <1>2, EndingSpendsNothing DEF SignInInv
<1> QED
  BY <1>2, <1>3, <1>4, <1>5 DEF SignInInv, TripRows, HandlerRows, NoticeRows, WorkRows,
     RenewalsMatch

LEMMA RecordNoticeKeeps ==
    ASSUME SignInInv, UNCHANGED <<roster, work>>, NEW n \in Notice, RecordNotice(n)
    PROVE  SignInInv'
<1>1. NoticeRows'
  BY DEF SignInInv, NoticeRows, RecordNotice
<1>2. HeardInTime'
  BY DEF SignInInv, HeardInTime, RecordNotice, FirstDelivery
<1> QED
  BY <1>1, <1>2 DEF SignInInv, TripRows, SessionRows, TokenRows, HandlerRows, WorkRows,
     TripsSpentOnce, RenewalsMatch, OneSignInPerTrip, Holds, Live, tripVars, RecordNotice

LEMMA EndSessionsKeeps ==
    ASSUME SignInInv, UNCHANGED <<roster, work>>, NEW n \in Notice, EndSessions(n)
    PROVE  SignInInv'
<1>1. /\ session' = WithoutRows(EndedBy(n)) /\ ending' = ending \ {n}
      /\ UNCHANGED <<trip, cookie, token, linked, handler, recorded, crashes>>
  BY DEF EndSessions, tripVars
<1>2. SessionRows' /\ HeardInTime'
  BY <1>1, WithoutRowsRows DEF SignInInv, SessionRows, HeardInTime
<1>3. TripsSpentOnce'
  BY <1>1, EndingSpendsNothing DEF SignInInv
<1> QED
  BY <1>1, <1>2, <1>3 DEF SignInInv, TripRows, TokenRows, HandlerRows, NoticeRows, WorkRows,
     RenewalsMatch

\* A restart forgets the callbacks; what they had spent stays spent.
LEMMA CrashKeeps ==
    ASSUME SignInInv, Crash
    PROVE  SignInInv'
<1>1. /\ crashes < MaxCrashes /\ crashes' = crashes + 1
      /\ handler' = [r \in Thread |-> Idle] /\ ending' = {}
      /\ work' = NothingToDo
      /\ UNCHANGED <<trip, cookie, session, token, linked, recorded, roster>>
  BY DEF Crash, CrashSignIn, tripVars
<1>2. Idle \in HandlerRow /\ Idle.pc = "idle"
  BY ConstantRows DEF Idle
<1>3. HandlerRows' /\ RenewalsMatch' /\ \A r \in Thread : ~Holds(r)'
  BY <1>1, <1>2 DEF HandlerRows, RenewalsMatch, Holds
<1>4. TripsSpentOnce'
  BY <1>1, <1>3 DEF SignInInv, TripsSpentOnce, OneSignInPerTrip, Live
<1>5. NoticeRows'
  BY <1>1, SignInAssumption DEF SignInInv, NoticeRows
<1>6. WorkRows'
  BY <1>1 DEF SignInInv, WorkRows, NothingToDo
<1> QED
  BY <1>1, <1>3, <1>4, <1>5, <1>6 DEF SignInInv, TripRows, SessionRows, TokenRows, HeardInTime

LEMMA RoundKeeps ==
    ASSUME SignInInv,
           \/ FetchRoster
           \/ \E p \in Person : \/ EndSessionsOf(p) \/ Unlink(p)
                                \/ \E state \in Fate[p] : RosterChanges(p, state)
    PROVE  SignInInv'
<1>1. CASE FetchRoster
  <2>1. \A p \in Person : /\ ToDo(p) \in {"nothing", "end", "endAndUnlink", "unlink"}
                          /\ ToDo(p) # "nothing" => p \in linked
    BY DEF ToDo, Verdict
  <2>2. WorkRows'
    BY <1>1, <2>1 DEF SignInInv, WorkRows, FetchRoster, signInVars
  <2> QED
    BY <1>1, <2>2 DEF SignInInv, TripRows, SessionRows, TokenRows, HandlerRows, NoticeRows,
       TripsSpentOnce, RenewalsMatch, HeardInTime, OneSignInPerTrip, Holds, Live, tripVars,
       noticeVars, signInVars, FetchRoster
<1>2. ASSUME NEW p \in Person, EndSessionsOf(p) PROVE SignInInv'
  <2>1. PICK S : session' = WithoutRows(S)
    BY <1>2 DEF EndSessionsOf
  <2>2. UNCHANGED <<trip, cookie, token, linked, handler, recorded, ending, crashes, roster>>
    BY <1>2 DEF EndSessionsOf, tripVars, noticeVars
  <2>3. SessionRows' /\ HeardInTime'
    BY <2>1, <2>2, WithoutRowsRows DEF SignInInv, SessionRows, HeardInTime
  <2>4. TripsSpentOnce'
    BY <2>1, <2>2, EndingSpendsNothing DEF SignInInv
  <2>5. WorkRows'
    BY <1>2, <2>2 DEF SignInInv, WorkRows, EndSessionsOf
  <2> QED
    BY <2>2, <2>3, <2>4, <2>5 DEF SignInInv, TripRows, TokenRows, HandlerRows, NoticeRows,
       RenewalsMatch
<1>3. ASSUME NEW p \in Person, Unlink(p) PROVE SignInInv'
  <2>1. WorkRows' /\ SessionRows'
    BY <1>3 DEF SignInInv, WorkRows, SessionRows, Unlink
  <2> QED
    BY <1>3, <2>1 DEF SignInInv, TripRows, TokenRows, HandlerRows, NoticeRows, TripsSpentOnce,
       RenewalsMatch, HeardInTime, OneSignInPerTrip, Holds, Live, tripVars, noticeVars, Unlink
<1>4. ASSUME NEW p \in Person, NEW state \in Fate[p], RosterChanges(p, state) PROVE SignInInv'
  <2>1. state \in {"allowed", "blocked", "unknown"}
    BY FateAssumption
  <2>2. WorkRows'
    BY <1>4, <2>1 DEF SignInInv, WorkRows, RosterChanges, signInVars
  <2> QED
    BY <1>4, <2>2 DEF SignInInv, TripRows, SessionRows, TokenRows, HandlerRows, NoticeRows,
       TripsSpentOnce, RenewalsMatch, HeardInTime, OneSignInPerTrip, Holds, Live, tripVars,
       noticeVars, signInVars, RosterChanges
<1> QED
  BY <1>1, <1>2, <1>3, <1>4

------------------------------------------------------------------------------
(* The invariant is inductive.                                              *)

LEMMA SignInInvAtFirst == ReconcileInit => SignInInv
<1> SUFFICES ASSUME ReconcileInit PROVE SignInInv
  OBVIOUS
<1>1. /\ trip = [t \in Trip |-> Unused] /\ cookie = [b \in Browser |-> <<>>]
      /\ session = [s \in SessionId |-> NoRow] /\ token = [b \in Browser |-> NoToken]
      /\ linked = Known /\ handler = [r \in Thread |-> Idle]
      /\ recorded = {} /\ ending = {} /\ crashes = 0
      /\ roster = [p \in Person |-> "allowed"] /\ work = NothingToDo
  BY DEF ReconcileInit, SignInInit
<1>2. /\ NoToken.age = "none" /\ Idle.pc = "idle" /\ NoRow.state = "unused" /\ NoRow.heard = {}
      /\ <<>> \in Seq(Trip) /\ Len(<<>>) = 0
  BY DEF NoToken, Idle, NoRow
<1>3. TripRows
  BY <1>1, <1>2, ConstantRows, SignInAssumption DEF TripRows
<1>4. SessionRows /\ TokenRows /\ HandlerRows
  BY <1>1, <1>2, ConstantRows, SignInAssumption DEF SessionRows, TokenRows, HandlerRows
<1>5. NoticeRows
  BY <1>1, SignInAssumption DEF NoticeRows
<1>6. WorkRows
  BY <1>1 DEF WorkRows, NothingToDo
<1>7. TripsSpentOnce /\ RenewalsMatch /\ HeardInTime
  BY <1>1, <1>2 DEF TripsSpentOnce, RenewalsMatch, HeardInTime, OneSignInPerTrip, Holds, Live
<1> QED
  BY <1>3, <1>4, <1>5, <1>6, <1>7 DEF SignInInv

LEMMA SignInInvKept == SignInInv /\ [ReconcileNext]_reconcileVars => SignInInv'
<1> SUFFICES ASSUME SignInInv, [ReconcileNext]_reconcileVars PROVE SignInInv'
  OBVIOUS
<1>1. CASE UNCHANGED reconcileVars
  BY <1>1 DEF SignInInv, TripRows, SessionRows, TokenRows, HandlerRows, NoticeRows, WorkRows,
     TripsSpentOnce, RenewalsMatch, HeardInTime, OneSignInPerTrip, Holds, Live, tripVars,
     noticeVars, signInVars, reconcileVars
<1>2. ASSUME BrowserStep, UNCHANGED <<roster, work>> PROVE SignInInv'
  <2>1. PICK b \in Browser : \/ StartLogin(b) \/ StartRenewal(b)
                             \/ \E t \in Trip : Decline(b, t)
                             \/ TokenAges(b) \/ Reissue(b) \/ Logout(b)
    BY <1>2 DEF BrowserStep
  <2>2. NoToken \in TokenRow /\ [token[b] EXCEPT !.age = "none"] \in TokenRow
    BY ConstantRows DEF SignInInv, TokenRows, TokenRow
  <2> QED
    BY <1>2, <2>1, <2>2, StartKeeps, DeclineKeeps, TokenStepKeeps, LogoutKeeps
       DEF StartLogin, StartRenewal
<1>3. ASSUME NEW r \in Thread, Callback(r), UNCHANGED <<roster, work>> PROVE SignInInv'
  BY <1>3, ReadTransactionKeeps, ConsumeTransactionKeeps, RejectCallbackKeeps, ResolveUserKeeps,
     WriteSessionKeeps DEF Callback
<1>4. ASSUME NEW n \in Notice, RecordNotice(n) \/ EndSessions(n), UNCHANGED <<roster, work>>
      PROVE  SignInInv'
  BY <1>4, RecordNoticeKeeps, EndSessionsKeeps
<1>5. ASSUME NEW t \in Trip, NEW l \in Login, IdpAnswers(t, l), UNCHANGED <<roster, work>>
      PROVE  SignInInv'
  BY <1>5, IdpAnswersKeeps
<1> QED
  BY <1>1, <1>2, <1>3, <1>4, <1>5, RoundKeeps, CrashKeeps DEF ReconcileNext, SignInStep

LEMMA SignInInvariant == ReconcileSpec => []SignInInv
BY SignInInvAtFirst, SignInInvKept, PTL DEF ReconcileSpec

------------------------------------------------------------------------------
(* The theorems.                                                            *)

\* The tables, cookies, tokens and callbacks keep their shape, a cookie never
\* outgrows its capacity, and a round only works on people with an account.
THEOREM SignInRowsKeepTheirShape == ReconcileSpec => []ReconcileTypeOK
<1>1. SignInInv => ReconcileTypeOK
  BY DEF SignInInv, TripRows, SessionRows, TokenRows, HandlerRows, NoticeRows, WorkRows,
     TripRow, SessionRow, TokenRow, HandlerRow, ReconcileTypeOK, SignInTypeOK
<1> QED
  BY <1>1, SignInInvariant, PTL

\* consume: no two sessions come of one round trip, whichever callbacks arrive
\* together and whatever is swept, declined or lost in a crash between them.
THEOREM RoundTripsSignInOnce == ReconcileSpec => []OneSignInPerTrip
<1>1. SignInInv => OneSignInPerTrip
  BY DEF SignInInv, TripsSpentOnce
<1> QED
  BY <1>1, SignInInvariant, PTL

\* extend: no write of a callback under way brings back the row of a session
\* that a logout, a notice, a round or a sweep has deleted.
THEOREM EndedSessionsStayEnded == ReconcileSpec => EndedStaysEnded
<1> DEFINE Stays == \A s \in SessionId : session[s].state = "ended" => session'[s].state = "ended"
<1>1. ASSUME SignInInv, [ReconcileNext]_reconcileVars PROVE Stays
  <2>1. CASE UNCHANGED session
    BY <2>1
  <2>2. ASSUME NEW S, session' = WithoutRows(S) PROVE Stays
    BY <2>2 DEF WithoutRows, NoRow
  <2>3. ASSUME NEW r \in Thread, WriteSession(r) PROVE Stays
    <3> DEFINE h == handler[r]
               s == IF Extends(h) THEN h.continued.session ELSE Fresh(UnusedIds)
               row == [state |-> "live", person |-> h.login.person, sid |-> h.login.sid,
                       born |-> IF Extends(h) THEN session[s].born ELSE h.trip,
                       heard |-> IF Extends(h) THEN session[s].heard ELSE Heard]
    <3>1. PICK expired :
             session' = [x \in SessionId |-> IF x = s THEN row
                            ELSE IF x \in expired THEN [NoRow EXCEPT !.state = "ended"]
                            ELSE session[x]]
      BY <2>3 DEF WriteSession
    <3>2. session[s].state # "ended"
      <4>1. CASE Extends(h)
        BY <4>1 DEF Extends, Live
      <4>2. CASE ~Extends(h)
        <5>1. UnusedIds # {} /\ UnusedIds \in SUBSET Nat
          BY <2>3, <4>2, SignInAssumption DEF WriteSession, UnusedIds
        <5>2. Fresh(UnusedIds) \in UnusedIds
          BY <5>1, FreshInSet
        <5> QED
          BY <4>2, <5>2 DEF UnusedIds
      <4> QED
        BY <4>1, <4>2
    <3> HIDE DEF s, row
    <3> QED
      BY <3>1, <3>2 DEF NoRow
  <2>4. \/ UNCHANGED session
        \/ \E S : session' = WithoutRows(S)
        \/ \E r \in Thread : WriteSession(r)
    <3>1. CASE UNCHANGED reconcileVars
      BY <3>1 DEF reconcileVars, signInVars
    <3>2. CASE BrowserStep
      BY <3>2 DEF BrowserStep, StartLogin, StartRenewal, Start, Decline, TokenAges, Reissue, Logout
    <3>3. ASSUME NEW r \in Thread, Callback(r) PROVE UNCHANGED session \/ WriteSession(r)
      BY <3>3 DEF Callback, ReadTransaction, ConsumeTransaction, RejectCallback, ResolveUser
    <3>4. ASSUME NEW n \in Notice, RecordNotice(n) \/ EndSessions(n)
          PROVE  UNCHANGED session \/ \E S : session' = WithoutRows(S)
      BY <3>4 DEF RecordNotice, EndSessions
    <3>5. CASE \E t \in Trip, l \in Login : IdpAnswers(t, l)
      BY <3>5 DEF IdpAnswers
    <3>6. CASE \/ FetchRoster \/ Crash
               \/ \E p \in Person : \/ EndSessionsOf(p) \/ Unlink(p)
                                    \/ \E state \in Fate[p] : RosterChanges(p, state)
      BY <3>6 DEF FetchRoster, Crash, CrashSignIn, EndSessionsOf, Unlink, RosterChanges, signInVars
    <3>7. \/ UNCHANGED reconcileVars \/ BrowserStep
          \/ \E r \in Thread : Callback(r)
          \/ \E n \in Notice : RecordNotice(n) \/ EndSessions(n)
          \/ \E t \in Trip, l \in Login : IdpAnswers(t, l)
          \/ FetchRoster \/ Crash
          \/ \E p \in Person : \/ EndSessionsOf(p) \/ Unlink(p)
                               \/ \E state \in Fate[p] : RosterChanges(p, state)
      BY <1>1, Zenon DEF ReconcileNext, SignInStep
    <3> QED
      BY <3>1, <3>2, <3>3, <3>4, <3>5, <3>6, <3>7
  <2> QED
    BY <2>1, <2>2, <2>3, <2>4
<1>2. SignInInv /\ [ReconcileNext]_reconcileVars => [Stays]_signInVars
  BY <1>1
<1> QED
  BY <1>2, SignInInvariant, PTL DEF ReconcileSpec, EndedStaysEnded

\* complete_renewal: whoever answers at the IdP, and whatever happens to the
\* account between the checks and the last commit, the token that ends a
\* renewal is of the person it was begun for.
THEOREM RenewalsKeepThePerson == ReconcileSpec => RenewalKeepsThePerson
<1> DEFINE Keeps(r) ==
             LET h == handler[r] IN
             (h.purpose = "renew" /\ h.continued.person # NoOne /\ h.pc = "resolved"
                 /\ token'[h.browser] # token[h.browser] /\ handler'[r] = Idle)
             => token'[h.browser].person = h.continued.person
<1>1. ASSUME SignInInv, [ReconcileNext]_reconcileVars, NEW r \in Thread PROVE Keeps(r)
  <2>1. Idle.pc = "idle"
    BY DEF Idle
  <2>2. SUFFICES ASSUME handler[r].purpose = "renew", handler[r].continued.person # NoOne,
                        handler[r].pc = "resolved", token' # token, handler'[r] = Idle
                 PROVE  token'[handler[r].browser].person = handler[r].continued.person
    OBVIOUS
  <2>3. handler' # handler
    BY <2>1, <2>2
  <2>4. PICK q \in Thread : WriteSession(q)
    <3>1. ~UNCHANGED reconcileVars
      BY <2>3 DEF reconcileVars, signInVars
    <3>2. ~BrowserStep
      BY <2>3 DEF BrowserStep, StartLogin, StartRenewal, Start, Decline, TokenAges, Reissue, Logout
    <3>3. ASSUME NEW q \in Thread, Callback(q) PROVE WriteSession(q)
      BY <2>2, <3>3 DEF Callback, ReadTransaction, ConsumeTransaction, RejectCallback, ResolveUser
    <3>4. ASSUME NEW n \in Notice PROVE ~RecordNotice(n) /\ ~EndSessions(n)
      BY <2>3 DEF RecordNotice, EndSessions
    <3>5. ~\E t \in Trip, l \in Login : IdpAnswers(t, l)
      BY <2>3 DEF IdpAnswers
    <3>6. ~(\/ FetchRoster \/ Crash
            \/ \E p \in Person : \/ EndSessionsOf(p) \/ Unlink(p)
                                 \/ \E state \in Fate[p] : RosterChanges(p, state))
      BY <2>2 DEF FetchRoster, Crash, CrashSignIn, EndSessionsOf, Unlink, RosterChanges, signInVars
    <3>7. \/ UNCHANGED reconcileVars \/ BrowserStep
          \/ \E q \in Thread : Callback(q)
          \/ \E n \in Notice : RecordNotice(n) \/ EndSessions(n)
          \/ \E t \in Trip, l \in Login : IdpAnswers(t, l)
          \/ FetchRoster \/ Crash
          \/ \E p \in Person : \/ EndSessionsOf(p) \/ Unlink(p)
                               \/ \E state \in Fate[p] : RosterChanges(p, state)
      BY <1>1, Zenon DEF ReconcileNext, SignInStep
    <3> QED
      BY <3>1, <3>2, <3>3, <3>4, <3>5, <3>6, <3>7
  <2>5. q = r
    <3>1. handler' = [handler EXCEPT ![q] = Idle]
      BY <2>4 DEF WriteSession
    <3> QED
      BY <1>1, <2>1, <2>2, <3>1 DEF SignInInv, HandlerRows
  <2>6. handler[r].browser \in Browser /\ token \in [Browser -> TokenRow]
    BY <1>1, <2>2 DEF SignInInv, HandlerRows, TokenRows
  <2>7. token'[handler[r].browser].person = handler[r].login.person
    <3> DEFINE s == IF Extends(handler[r]) THEN handler[r].continued.session ELSE Fresh(UnusedIds)
    <3>1. token' = [token EXCEPT ![handler[r].browser] =
                       [age |-> "fresh", person |-> handler[r].login.person, session |-> s]]
      BY <2>4, <2>5 DEF WriteSession
    <3> QED
      BY <2>6, <3>1
  <2> QED
    BY <1>1, <2>2, <2>7 DEF SignInInv, RenewalsMatch
<1>2. SignInInv /\ [ReconcileNext]_reconcileVars => [\A r \in Thread : Keeps(r)]_signInVars
  BY <1>1
<1> QED
  BY <1>2, SignInInvariant, PTL DEF ReconcileSpec, RenewalKeepsThePerson

\* record: a notice is dealt with once, so a session that began after that is
\* not ended by its second delivery.
THEOREM RedeliveriesEndNothingNew == ReconcileSpec => RedeliveryEndsNothingNew
<1> DEFINE Spares == \A n \in Notice : EndSessions(n) => \A s \in EndedBy(n) : n \notin session[s].heard
<1>1. SignInInv => [Spares]_signInVars
  BY DEF SignInInv, HeardInTime, EndSessions, EndedBy
<1> QED
  BY <1>1, SignInInvariant, PTL DEF RedeliveryEndsNothingNew
==============================================================================
