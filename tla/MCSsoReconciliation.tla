------------------------ MODULE MCSsoReconciliation --------------------------
\* Sign-in and reconciliation for TLC: two people, one of them with a notice.
EXTENDS SsoReconciliation

CONSTANTS ann, bob

MCLogin  == {[person |-> ann, sid |-> 1], [person |-> bob, sid |-> 2]}
MCNotice == {[jti |-> 1, person |-> ann, sid |-> NoSid]}
\* ann is stopped and let in again, bob may be removed.
MCFate   == (ann :> {"allowed", "blocked"}) @@ (bob :> {"unknown"})
\* Anything, so that rounds are held back as well.
MCAnyFate == (ann :> {"allowed", "blocked", "unknown"}) @@ (bob :> {"allowed", "unknown"})
==============================================================================
