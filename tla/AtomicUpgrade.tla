---------------------------- MODULE AtomicUpgrade -----------------------------
(***************************************************************************)
(* What starting a release promises about the database, with no statement, *)
(* transaction or crash in sight: the database is always one that some      *)
(* release left behind complete, or one from before Alembic as it was      *)
(* found; and a server only ever runs on the schema of its own release.    *)
(***************************************************************************)
EXTENDS Naturals

CONSTANT Release

VARIABLES
    release,   \* the installed release
    version,   \* the release whose schema the database has, 0 for none
    kind,      \* "empty", "legacy" and fit to be adopted, "odd" and not, "managed"
    serving

atomicVars == <<release, version, kind, serving>>

AtomicInit ==
    /\ release \in Release
    /\ version = 0
    /\ kind \in {"empty", "legacy", "odd"}
    /\ serving = FALSE

\* All of the revisions at once, or the seeding of a database that has them.
Upgrade ==
    /\ kind # "odd"
    /\ version <= release
    /\ version' = release /\ kind' = "managed"
    /\ UNCHANGED <<release, serving>>

Revert ==
    /\ kind = "managed"
    /\ version' \in {r \in Release \cup {0} : r < version}
    /\ UNCHANGED <<release, kind, serving>>

Reset ==
    /\ version' = 0 /\ kind' = "empty"
    /\ UNCHANGED <<release, serving>>

Run ==
    /\ kind = "managed" /\ version = release
    /\ serving' = TRUE
    /\ UNCHANGED <<release, version, kind>>

Halt ==
    /\ serving' = FALSE
    /\ release' \in Release
    /\ UNCHANGED <<version, kind>>

AtomicNext == ((Upgrade \/ Revert \/ Reset) /\ ~serving) \/ Run \/ Halt

AtomicSpec == AtomicInit /\ [][AtomicNext]_atomicVars
==============================================================================
