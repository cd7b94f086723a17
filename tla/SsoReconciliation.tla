-------------------------- MODULE SsoReconciliation --------------------------
(***************************************************************************)
(* The hourly look at the IdP's list of people, beside sign-in:            *)
(* reconcile_federated_users.py, presentation/api/reconciliation.py and    *)
(* the worker thread of interval_worker.py.  It is what stops a person     *)
(* whose logout notice never came or was lost.                             *)
(*                                                                         *)
(* A round asks for everybody at once and then works through the answers,  *)
(* one commit at a time, while sign-ins go on.                             *)
(***************************************************************************)
EXTENDS SsoSignIn

CONSTANT Fate   \* for each person, what the IdP's operators may decide

ASSUME FateAssumption == Fate \in [Person -> SUBSET {"allowed", "blocked", "unknown"}]

VARIABLES
    roster,   \* external: what the IdP says of each person
    work      \* what the round still has to do for each person

reconcileVars == <<signInVars, roster, work>>

NothingToDo == [p \in Person |-> "nothing"]

ReconcileTypeOK ==
    /\ SignInTypeOK
    /\ roster \in [Person -> {"allowed", "blocked", "unknown"}]
    /\ work \in [Person -> {"nothing", "end", "endAndUnlink", "unlink"}]
    /\ \A p \in Person : work[p] # "nothing" => p \in linked

ReconcileInit ==
    /\ SignInInit
    /\ roster = [p \in Person |-> "allowed"]
    /\ work = NothingToDo

------------------------------------------------------------------------------

\* _everyone_is_unknown: this looks like a mistake of configuration.
HeldBack == Cardinality(linked) >= 2 /\ \A p \in linked : roster[p] = "unknown"

\* ends_sessions and drops_the_link.
Verdict(p) ==
    CASE roster[p] = "blocked" -> "end"
      [] roster[p] = "unknown" -> "endAndUnlink"
      [] OTHER                 -> "nothing"

\* Mutant: everybody the IdP knows of is worked on, linked or not.
ToDoForAll(p) == Verdict(p)

\* The people list_for_issuer finds are worked on.
ToDo(p) == IF p \in linked THEN Verdict(p) ELSE "nothing"

\* execute, up to the answers.  A round that fails (the IdP cannot be reached,
\* the answer is broken) is skipped and changes nothing.
FetchRoster ==
    /\ work = NothingToDo
    /\ ~HeldBack
    /\ work' = [p \in Person |-> ToDo(p)]
    /\ UNCHANGED <<signInVars, roster>>

\* _apply, first commit: the person's sessions, found through the link.
EndSessionsOf(p) ==
    /\ work[p] \in {"end", "endAndUnlink"}
    /\ session' = WithoutRows({s \in SessionId : Live(s) /\ session[s].person = p /\ p \in linked})
    /\ work' = [work EXCEPT ![p] = IF @ = "end" THEN "nothing" ELSE "unlink"]
    /\ UNCHANGED <<tripVars, token, linked, handler, noticeVars, crashes, roster>>

\* _apply, second commit.
Unlink(p) ==
    /\ work[p] = "unlink"
    /\ linked' = linked \ {p}
    /\ work' = [work EXCEPT ![p] = "nothing"]
    /\ UNCHANGED <<tripVars, session, token, handler, noticeVars, crashes, roster>>

\* External: an operator of the IdP stops, admits or removes a person.
RosterChanges(p, state) ==
    /\ roster[p] # "unknown"
    /\ roster' = [roster EXCEPT ![p] = state]
    /\ UNCHANGED <<signInVars, work>>

\* A restart loses the round as well.
Crash == CrashSignIn /\ work' = NothingToDo /\ UNCHANGED roster

\* The IdP answers for people it lets in.
ReconcileNext ==
    \/ SignInStep /\ UNCHANGED <<roster, work>>
    \/ \E t \in Trip, l \in Login :
          roster[l.person] = "allowed" /\ IdpAnswers(t, l) /\ UNCHANGED <<roster, work>>
    \/ FetchRoster
    \/ \E p \in Person :
          \/ EndSessionsOf(p) \/ Unlink(p)
          \/ \E state \in Fate[p] : RosterChanges(p, state)
    \/ Crash

(***************************************************************************)
(* run_once swallows every failure and _run comes back after the interval, *)
(* so rounds keep being made, and the IdP is taken to answer in the end;   *)
(* time passes for tokens.  Nothing is assumed of browsers, callbacks,     *)
(* notices or the IdP's operators.                                         *)
(***************************************************************************)
Rounds ==
    /\ WF_reconcileVars(FetchRoster)
    /\ \A p \in Person : WF_reconcileVars(EndSessionsOf(p)) /\ WF_reconcileVars(Unlink(p))

Time == \A b \in Browser : WF_reconcileVars(TokenAges(b) /\ UNCHANGED <<roster, work>>)

ReconcileSpec == ReconcileInit /\ [][ReconcileNext]_reconcileVars /\ Rounds /\ Time

------------------------------------------------------------------------------
(***************************************************************************)
(* Properties.                                                             *)
(***************************************************************************)

NoAccess(p) == \A b \in Browser : Valid(b) => token[b].person # p

NoSession(p) == \A s \in SessionId : Live(s) => session[s].person # p

\* A person the IdP blocks for good is signed out for good, also without any
\* notice, also when callbacks were under way, and however often the person
\* saves the settings to get a new token.
BlockedLosesAccess ==
    \A p \in Person : <>[](roster[p] = "blocked") => <>[](NoAccess(p) /\ NoSession(p))

\* reissue_access: a person who is stopped does not stay in by saving the
\* settings again and again.  Here for a person removed from the IdP, while
\* others remain (else rounds are held back).
RemovedLosesAccess ==
    \A p \in Person :
        (<>[](roster[p] = "unknown") /\ []<>(\E q \in linked : roster[q] # "unknown"))
        => <>[]NoAccess(p)
==============================================================================
