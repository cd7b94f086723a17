----------------------------- MODULE ProjectTree -----------------------------
(***************************************************************************)
(* The tree of projects as domain/services/project_tree.py walks it.       *)
(*                                                                         *)
(* A tree is a function par from project ids to parents and the set known  *)
(* of the projects that were loaded (find_all loads only what the user can *)
(* see).  A parent outside known ends the walk, as in the code.  The code's *)
(* while loops are stated by what they compute: the smallest set that      *)
(* holds the start and is closed under the step.                           *)
(***************************************************************************)
EXTENDS Naturals, FiniteSets

\* S holds the known parent of each of its members.
ClosedUpwards(par, known, S) ==
    \A x \in S : par[x] \in known => par[x] \in S

\* ancestors_or_self: the project and its chain of known parents; empty for
\* a project that was not loaded (and for "no project").
AncestorsOrSelf(par, known, p) ==
    LET closed == {S \in SUBSET known : p \in S /\ ClosedUpwards(par, known, S)}
    IN  {q \in known : p \in known /\ \A S \in closed : q \in S}

\* root_of: the top of the chain; a project that was not loaded is its own.
RootOf(par, known, p) ==
    IF p \in known
    THEN CHOOSE q \in AncestorsOrSelf(par, known, p) : par[q] \notin known
    ELSE p

\* subtree_ids: the project and everything under it.
SubtreeIds(par, known, p) ==
    {q \in known : p \in AncestorsOrSelf(par, known, q)}

\* Mutant: only the project itself is refused, not its descendants.
WouldCycleSelfOnly(par, known, p, newParent) == p = newParent

\* would_cycle: p may go neither under itself nor under a descendant.
WouldCycle(par, known, p, newParent) ==
    p \in AncestorsOrSelf(par, known, newParent)

\* milestone_reachable: a milestone without a project serves every task, one
\* of a project serves the tasks of that project and of its descendants.
MilestoneReachable(par, known, noProject, milestoneProject, taskProject) ==
    \/ milestoneProject = noProject
    \/ milestoneProject \in AncestorsOrSelf(par, known, taskProject)

(***************************************************************************)
(* No cycle, said without walking: no nonempty set of known projects in    *)
(* which every member's parent is again a member.                          *)
(***************************************************************************)
NoParentCycle(par, known) ==
    \A S \in SUBSET known : (\A x \in S : par[x] \in S) => S = {}
==============================================================================
