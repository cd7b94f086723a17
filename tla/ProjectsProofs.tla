--------------------------- MODULE ProjectsProofs ----------------------------
(***************************************************************************)
(* Proofs about Projects, for every set of projects and users.  The first  *)
(* part is about the tree operators alone; the second shows that IInv is   *)
(* inductive, and the theorems read the invariants off it; the third is    *)
(* about what a move does to the trees and to who sees and manages what,   *)
(* and proves the action properties.  Its lemmas are about any tree, so    *)
(* that they serve for the state before a step and for the one after it.   *)
(***************************************************************************)
EXTENDS Projects, TLAPS

------------------------------------------------------------------------------
(* The tree operators.                                                      *)

\* A loaded project heads its own chain.
LEMMA AncestorsHoldSelf ==
    ASSUME NEW par, NEW known, NEW p \in known
    PROVE  p \in AncestorsOrSelf(par, known, p)
BY DEF AncestorsOrSelf

\* The chain does not stop at a project whose parent was loaded.
LEMMA AncestorsClosed ==
    ASSUME NEW par, NEW known, NEW p \in known
    PROVE  ClosedUpwards(par, known, AncestorsOrSelf(par, known, p))
BY DEF AncestorsOrSelf, ClosedUpwards

\* The chain is the least set that holds the start and is closed upwards.
LEMMA AncestorsLeast ==
    ASSUME NEW par, NEW known, NEW p \in known, NEW S \in SUBSET known,
           p \in S, ClosedUpwards(par, known, S)
    PROVE  AncestorsOrSelf(par, known, p) \subseteq S
BY DEF AncestorsOrSelf

\* Every ancestor of p other than p is an ancestor of its parent.
LEMMA AncestorsStep ==
    ASSUME NEW par, NEW known, NEW p \in known, par[p] \in known
    PROVE  AncestorsOrSelf(par, known, p)
               \subseteq {p} \cup AncestorsOrSelf(par, known, par[p])
<1> DEFINE S == {p} \cup AncestorsOrSelf(par, known, par[p])
<1>1. S \in SUBSET known
  BY DEF AncestorsOrSelf
<1>2. ClosedUpwards(par, known, S)
  BY AncestorsHoldSelf, AncestorsClosed DEF ClosedUpwards
<1> QED
  BY <1>1, <1>2, AncestorsLeast

\* Without a cycle the chain of a loaded project has a top.
LEMMA RootInTree ==
    ASSUME NEW par, NEW known, NEW p \in known, NoParentCycle(par, known)
    PROVE  /\ RootOf(par, known, p) \in AncestorsOrSelf(par, known, p)
           /\ RootOf(par, known, p) \in known
           /\ par[RootOf(par, known, p)] \notin known
<1> DEFINE A == AncestorsOrSelf(par, known, p)
<1>1. A \in SUBSET known /\ p \in A
  BY AncestorsHoldSelf DEF AncestorsOrSelf
<1>2. \E q \in A : par[q] \notin A
  BY <1>1 DEF NoParentCycle
<1>3. \E q \in A : par[q] \notin known
  BY <1>2, AncestorsClosed DEF ClosedUpwards
<1> QED
  BY <1>1, <1>3 DEF RootOf

------------------------------------------------------------------------------
(* The inductive invariant.                                                 *)

\* What every commit keeps.  Acyclicity rests on MembersOnRoots (the mover sees
\* the whole tree or none of it), MembersOnRoots rests on acyclicity (the top
\* that is found is a root), and both rest on ParentsLive.
IInv ==
    /\ TypeOK
    /\ ParentsLive
    /\ Acyclic
    /\ MembersOnRoots
    /\ RootHasManager

\* Somebody who sees a project sees its parent.
LEMMA VisibleUpwards ==
    ASSUME ParentsLive, MembersOnRoots, NoProject \notin live, live \subseteq Project,
           NEW u \in User, NEW p \in Visible(u), parent[p] \in live
    PROVE  parent[p] \in Visible(u)
<1>1. PICK q \in AncestorsOrSelf(parent, live, p) : role[q][u] # "none"
  BY DEF Visible
<1>2. p \in live /\ q \in live
  BY <1>1 DEF Visible, AncestorsOrSelf
<1>3. parent[q] = NoProject
  BY <1>1, <1>2 DEF MembersOnRoots
<1>4. q \in AncestorsOrSelf(parent, live, parent[p])
  BY <1>1, <1>2, <1>3, AncestorsStep
<1> QED
  BY <1>1, <1>4 DEF Visible

\* The root that a handler finds for a project the user sees is a true root.
LEMMA TopIsRoot ==
    ASSUME IInv, NEW u \in User, NEW p \in Visible(u)
    PROVE  /\ TopOf(u, p) \in live
           /\ TopOf(u, p) \in Project
           /\ TopOf(u, p) \in Visible(u)
           /\ parent[TopOf(u, p)] = NoProject
<1>1. Visible(u) \in SUBSET live /\ live \subseteq Project /\ NoProject \notin live
  BY ProjectAssumption DEF Visible, IInv, TypeOK
<1>2. NoParentCycle(parent, Visible(u))
  BY <1>1 DEF IInv, Acyclic, NoParentCycle
<1>3. TopOf(u, p) \in Visible(u) /\ parent[TopOf(u, p)] \notin Visible(u)
  BY <1>2, RootInTree DEF TopOf
<1>4. parent[TopOf(u, p)] \notin live
  BY <1>1, <1>3, VisibleUpwards DEF IInv
<1> QED
  BY <1>1, <1>3, <1>4 DEF IInv, ParentsLive

\* A project put under a parent that is not below it, in the tree the mover
\* sees, closes no cycle anywhere.
LEMMA MoveMakesNoCycle ==
    ASSUME IInv, NEW u \in User, NEW p \in Visible(u), NEW q \in Visible(u),
           ~WouldCycle(parent, Visible(u), p, q)
    PROVE  NoParentCycle([parent EXCEPT ![p] = q], live)
<1> DEFINE moved == [parent EXCEPT ![p] = q]
           A == AncestorsOrSelf(parent, Visible(u), q)
<1>1. Visible(u) \in SUBSET live /\ live \subseteq Project /\ NoProject \notin live
  BY ProjectAssumption DEF Visible, IInv, TypeOK
<1>2. p \notin A /\ q \in A /\ A \subseteq Visible(u)
  BY AncestorsHoldSelf DEF WouldCycle, AncestorsOrSelf
<1>3. SUFFICES ASSUME NEW S \in SUBSET live, \A x \in S : moved[x] \in S, S # {}
               PROVE  FALSE
  BY DEF NoParentCycle
<1>4. moved[p] = q /\ \A x \in live \ {p} : moved[x] = parent[x]
  BY <1>1 DEF IInv, TypeOK
<1>5. CASE p \notin S
  <2>1. \A x \in S : parent[x] \in S
    BY <1>3, <1>4, <1>5
  <2> QED
    BY <2>1, <1>3 DEF IInv, Acyclic, NoParentCycle
<1>6. CASE p \in S
  <2> DEFINE T == S \cap A
  <2>1. q \in T
    BY <1>2, <1>3, <1>4, <1>6
  <2>2. ASSUME NEW x \in T PROVE parent[x] \in T
    <3>1. parent[x] \in S /\ parent[x] \in live
      BY <1>2, <1>3, <1>4
    <3>2. parent[x] \in Visible(u)
      BY <1>1, <1>2, <3>1, VisibleUpwards DEF IInv
    <3>3. parent[x] \in A
      BY <3>2, AncestorsClosed DEF ClosedUpwards
    <3> QED
      BY <3>1, <3>3
  <2>3. T \in SUBSET live
    BY <1>3
  <2> QED
    BY <2>1, <2>2, <2>3 DEF IInv, Acyclic, NoParentCycle
<1> QED
  BY <1>5, <1>6

------------------------------------------------------------------------------
(* Each operation keeps IInv.                                               *)

\* Only rows changed, on roots that existed: nothing but RootHasManager is at
\* stake.  Shared by the handlers of project_member_use_cases.py.
LEMMA RowChangeKeepsTheRest ==
    ASSUME IInv, NEW r \in live, parent[r] = NoProject, NEW v \in User,
           NEW w \in Role \cup {"none"},
           role' = [role EXCEPT ![r][v] = w],
           capacity' \in [Project -> [User -> Capacity]],
           UNCHANGED <<treeVars, creators>>,
           w # "manager" => AnotherManager(r, v) \/ ~IsManager(v, r)
    PROVE  IInv'
<1>1. r \in Project
  BY DEF IInv, TypeOK
<1>2. TypeOK'
  BY <1>1 DEF IInv, TypeOK, treeVars
<1>3. ParentsLive' /\ Acyclic'
  BY DEF IInv, ParentsLive, Acyclic, treeVars
<1>4. \A p \in Project, u \in User :
        role'[p][u] = IF p = r /\ u = v THEN w ELSE role[p][u]
  BY <1>1 DEF IInv, TypeOK
<1>5. MembersOnRoots'
  BY <1>1, <1>4 DEF IInv, MembersOnRoots, treeVars
<1>6. RootHasManager'
  <2> SUFFICES ASSUME NEW p \in live, parent[p] = NoProject
               PROVE  \E u \in User : role'[p][u] = "manager"
    BY DEF RootHasManager, IsManager, treeVars
  <2>1. PICK u \in User : role[p][u] = "manager"
    BY DEF IInv, RootHasManager, IsManager
  <2>2. p \in Project
    BY DEF IInv, TypeOK
  <2>3. CASE p # r \/ w = "manager" \/ u # v
    BY <1>4, <2>1, <2>2, <2>3
  <2>4. CASE p = r /\ w # "manager" /\ u = v
    BY <1>4, <2>1, <2>2, <2>4 DEF AnotherManager, IsManager
  <2> QED
    BY <2>3, <2>4
<1> QED
  BY <1>2, <1>3, <1>5, <1>6 DEF IInv

LEMMA CreateKeepsIInv ==
    ASSUME IInv, NEW u \in User, NEW q \in live \cup {NoProject}, NEW p \in Project,
           CreateProject(u, q, p)
    PROVE  IInv'
<1>1. p \notin created /\ p \notin live /\ live \subseteq Project /\ created \subseteq Project
  BY ProjectAssumption DEF CreateProject, IInv, TypeOK
<1>2. NoProject \notin Project
  BY ProjectAssumption
<1>3. /\ parent'[p] = q
      /\ \A x \in live : parent'[x] = parent[x]
      /\ live' = live \cup {p}
  BY <1>1 DEF CreateProject, IInv, TypeOK
<1>4. \A x \in Project, v \in User :
        role'[x][v] = IF x = p /\ v = u /\ q = NoProject THEN "manager" ELSE role[x][v]
  BY <1>1 DEF CreateProject, IInv, TypeOK
<1>5. TypeOK'
  <2>1. role' \in [Project -> [User -> Role \cup {"none"}]]
    BY DEF CreateProject, IInv, TypeOK, Role
  <2> QED
    BY <1>1, <1>2, <2>1 DEF CreateProject, IInv, TypeOK
<1>6. ParentsLive'
  BY <1>1, <1>3 DEF IInv, ParentsLive
<1>7. Acyclic'
  <2> SUFFICES ASSUME NEW S \in SUBSET (live \cup {p}), \A x \in S : parent'[x] \in S
               PROVE  S = {}
    BY <1>3 DEF Acyclic, NoParentCycle
  <2> DEFINE T == S \ {p}
  <2>1. \A x \in T : parent[x] \in T
    BY <1>1, <1>2, <1>3 DEF IInv, ParentsLive
  <2>2. T = {}
    BY <2>1 DEF IInv, Acyclic, NoParentCycle
  <2>3. p \notin S
    BY <1>1, <1>2, <1>3, <2>2
  <2> QED
    BY <2>2, <2>3
<1>8. MembersOnRoots'
  BY <1>1, <1>3, <1>4 DEF IInv, MembersOnRoots
<1>9. RootHasManager'
  BY <1>1, <1>3, <1>4 DEF IInv, RootHasManager, IsManager
<1> QED
  BY <1>5, <1>6, <1>7, <1>8, <1>9 DEF IInv

LEMMA MoveKeepsIInv ==
    ASSUME IInv, NEW u \in User, NEW p \in live, NEW q \in live \cup {NoProject},
           MoveProject(u, p, q)
    PROVE  IInv'
<1>1. p \in Visible(u) /\ p \in Project /\ live \subseteq Project /\ NoProject \notin Project
  BY ProjectAssumption DEF MoveProject, MayMove, IInv, TypeOK
<1>2. /\ TopOf(u, p) \in live
      /\ TopOf(u, p) \in Project
      /\ parent[TopOf(u, p)] = NoProject
  BY <1>1, TopIsRoot
<1>3. /\ parent'[p] = q
      /\ \A x \in Project \ {p} : parent'[x] = parent[x]
      /\ live' = live
  BY <1>1 DEF MoveProject, IInv, TypeOK
<1>4. role' = RowsAfterMove(role, u, p, q, "none")
      /\ capacity' = RowsAfterMove(capacity, u, p, q, DefaultCapacity)
  BY DEF MoveProject
<1>5. TypeOK' /\ MembersOnRoots' /\ RootHasManager'
  <2>1. CASE parent[p] = NoProject /\ q # NoProject
    <3>1. role' = [role EXCEPT ![p] = [v \in User |-> "none"]]
          /\ capacity' = [capacity EXCEPT ![p] = [v \in User |-> DefaultCapacity]]
      BY <1>4, <2>1 DEF RowsAfterMove
    <3>2. TypeOK'
      BY <1>1, <3>1, CapacityAssumption DEF MoveProject, IInv, TypeOK
    <3>3. \A x \in Project, v \in User : role'[x][v] = IF x = p THEN "none" ELSE role[x][v]
      BY <1>1, <3>1 DEF IInv, TypeOK
    <3>4. MembersOnRoots' /\ RootHasManager'
      BY <1>1, <1>3, <2>1, <3>3 DEF IInv, MembersOnRoots, RootHasManager, IsManager
    <3> QED
      BY <3>2, <3>4
  <2>2. CASE parent[p] # NoProject /\ q = NoProject
    <3>1. role' = [role EXCEPT ![p] = role[TopOf(u, p)]]
          /\ capacity' = [capacity EXCEPT ![p] = capacity[TopOf(u, p)]]
      BY <1>4, <2>2 DEF RowsAfterMove
    <3>2. TypeOK'
      BY <1>1, <1>2, <3>1 DEF MoveProject, IInv, TypeOK
    <3>3. \A x \in Project, v \in User :
            role'[x][v] = IF x = p THEN role[TopOf(u, p)][v] ELSE role[x][v]
      BY <1>1, <3>1 DEF IInv, TypeOK
    <3>4. MembersOnRoots' /\ RootHasManager'
      BY <1>1, <1>2, <1>3, <2>2, <3>3 DEF IInv, MembersOnRoots, RootHasManager, IsManager
    <3> QED
      BY <3>2, <3>4
  <2>3. CASE (parent[p] = NoProject) = (q = NoProject)
    <3>1. role' = role /\ capacity' = capacity
      BY <1>4, <2>3 DEF RowsAfterMove
    <3>2. TypeOK'
      BY <1>1, <3>1 DEF MoveProject, IInv, TypeOK
    <3>4. MembersOnRoots' /\ RootHasManager'
      BY <1>1, <1>3, <2>3, <3>1 DEF IInv, MembersOnRoots, RootHasManager, IsManager
    <3> QED
      BY <3>2, <3>4
  <2> QED
    BY <2>1, <2>2, <2>3
<1>6. ParentsLive'
  BY <1>1, <1>3 DEF IInv, ParentsLive
<1>7. Acyclic'
  <2>1. CASE q # NoProject
    BY <1>1, <1>3, <2>1, MoveMakesNoCycle DEF MoveProject, MayMove, Acyclic
  <2>2. CASE q = NoProject
    <3> SUFFICES ASSUME NEW S \in SUBSET live, \A x \in S : parent'[x] \in S
                 PROVE  S = {}
      BY <1>3 DEF Acyclic, NoParentCycle
    <3>1. p \notin S
      BY <1>1, <1>3, <2>2
    <3>2. \A x \in S : parent[x] \in S
      BY <1>1, <1>3, <3>1
    <3> QED
      BY <3>2 DEF IInv, Acyclic, NoParentCycle
  <2> QED
    BY <2>1, <2>2
<1> QED
  BY <1>5, <1>6, <1>7 DEF IInv

LEMMA DeleteKeepsIInv ==
    ASSUME IInv, NEW u \in User, NEW p \in live, DeleteProject(u, p)
    PROVE  IInv'
<1>1. p \in Project /\ live \subseteq Project /\ NoProject \notin Project
  BY ProjectAssumption DEF IInv, TypeOK
<1>2. TypeOK'
  BY <1>1, CapacityAssumption DEF DeleteProject, IInv, TypeOK
<1>3. /\ live' = live \ {p}
      /\ \A x \in live' : parent'[x] = parent[x]
      /\ \A x \in live : parent[x] # p
      /\ \A x \in Project, v \in User : role'[x][v] = IF x = p THEN "none" ELSE role[x][v]
  BY <1>1 DEF DeleteProject, MayDelete, IInv, TypeOK
<1>4. ParentsLive'
  BY <1>1, <1>3 DEF IInv, ParentsLive
<1>5. Acyclic'
  <2> SUFFICES ASSUME NEW S \in SUBSET live', \A x \in S : parent'[x] \in S
               PROVE  S = {}
    BY DEF Acyclic, NoParentCycle
  <2>1. S \in SUBSET live /\ \A x \in S : parent[x] \in S
    BY <1>3
  <2> QED
    BY <2>1 DEF IInv, Acyclic, NoParentCycle
<1>6. MembersOnRoots' /\ RootHasManager'
  BY <1>1, <1>3 DEF IInv, MembersOnRoots, RootHasManager, IsManager
<1> QED
  BY <1>2, <1>4, <1>5, <1>6 DEF IInv

LEMMA ChangeRoleKeepsIInv ==
    ASSUME IInv, NEW u \in User, NEW p \in live, NEW v \in User, NEW r \in Role,
           ChangeRole(u, p, v, r)
    PROVE  IInv'
<1>1. p \in Visible(u)
  BY DEF ChangeRole, MayChangeRole
<1>2. TopOf(u, p) \in live /\ parent[TopOf(u, p)] = NoProject
  BY <1>1, TopIsRoot
<1>3. r # "manager" => AnotherManager(TopOf(u, p), v) \/ ~IsManager(v, TopOf(u, p))
  BY DEF ChangeRole, MayChangeRole
<1>4. /\ role' = [role EXCEPT ![TopOf(u, p)][v] = r]
      /\ capacity' \in [Project -> [User -> Capacity]]
      /\ UNCHANGED <<treeVars, creators>>
  BY DEF ChangeRole, IInv, TypeOK
<1> QED
  BY <1>2, <1>3, <1>4, RowChangeKeepsTheRest

LEMMA AddMemberKeepsIInv ==
    ASSUME IInv, NEW u \in User, NEW p \in live, NEW v \in User, NEW r \in Role,
           AddMember(u, p, v, r)
    PROVE  IInv'
<1>1. CASE ChangeRole(u, p, v, r)
  BY <1>1, ChangeRoleKeepsIInv
<1>2. CASE /\ MayAddMember(u, p, v)
           /\ role' = [role EXCEPT ![TopOf(u, p)][v] = r]
           /\ capacity' = [capacity EXCEPT ![TopOf(u, p)][v] = DefaultCapacity]
           /\ UNCHANGED <<treeVars, creators>>
  <2>1. TopOf(u, p) \in live /\ parent[TopOf(u, p)] = NoProject
    BY <1>2, TopIsRoot DEF MayAddMember
  <2>2. ~IsManager(v, TopOf(u, p))
    BY <1>2 DEF MayAddMember, IsManager
  <2>3. capacity' \in [Project -> [User -> Capacity]]
    BY <1>2, <2>1, CapacityAssumption DEF IInv, TypeOK
  <2> QED
    BY <1>2, <2>1, <2>2, <2>3, RowChangeKeepsTheRest
<1> QED
  BY <1>1, <1>2 DEF AddMember

LEMMA RemoveMemberKeepsIInv ==
    ASSUME IInv, NEW u \in User, NEW p \in live, NEW v \in User, RemoveMember(u, p, v)
    PROVE  IInv'
<1>1. TopOf(u, p) \in live /\ parent[TopOf(u, p)] = NoProject
  BY TopIsRoot DEF RemoveMember, MayRemoveMember
<1>2. AnotherManager(TopOf(u, p), v) \/ ~IsManager(v, TopOf(u, p))
  BY DEF RemoveMember, MayRemoveMember
<1>3. /\ role' = [role EXCEPT ![TopOf(u, p)][v] = "none"]
      /\ capacity' \in [Project -> [User -> Capacity]]
      /\ UNCHANGED <<treeVars, creators>>
  BY <1>1, CapacityAssumption DEF RemoveMember, IInv, TypeOK
<1> QED
  BY <1>1, <1>2, <1>3, RowChangeKeepsTheRest

\* Steps that touch neither the tree nor the roles.
LEMMA OtherColumnsKeepIInv ==
    ASSUME IInv, UNCHANGED <<treeVars, role>>, TypeOK'
    PROVE  IInv'
BY DEF IInv, ParentsLive, Acyclic, MembersOnRoots, RootHasManager, IsManager, treeVars

LEMMA NextKeepsIInv == IInv /\ [Next]_projectVars => IInv'
<1> SUFFICES ASSUME IInv, [Next]_projectVars PROVE IInv'
  OBVIOUS
<1>1. CASE UNCHANGED projectVars
  <2>1. TypeOK'
    BY <1>1 DEF IInv, TypeOK, projectVars, treeVars, memberVars
  <2> QED
    BY <1>1, <2>1, OtherColumnsKeepIInv DEF projectVars, memberVars
<1>2. ASSUME NEW u \in User, ActsAs(u) PROVE IInv'
  <2>1. CASE \E q \in live \cup {NoProject}, p \in Project : CreateProject(u, q, p)
    BY <2>1, CreateKeepsIInv
  <2>2. CASE \E p \in live, q \in live \cup {NoProject} : MoveProject(u, p, q)
    BY <2>2, MoveKeepsIInv
  <2>3. CASE \E p \in live : DeleteProject(u, p)
    BY <2>3, DeleteKeepsIInv
  <2>4. CASE \E p \in live, v \in User, r \in Role : AddMember(u, p, v, r)
    BY <2>4, AddMemberKeepsIInv
  <2>5. CASE \E p \in live, v \in User, r \in Role : ChangeRole(u, p, v, r)
    BY <2>5, ChangeRoleKeepsIInv
  <2>6. ASSUME NEW p \in live, NEW v \in User, NEW c \in Capacity, ChangeCapacity(u, p, v, c)
        PROVE  IInv'
    <3>1. TopOf(u, p) \in Project
      BY <2>6, TopIsRoot DEF ChangeCapacity, MayChangeCapacity
    <3>2. TypeOK'
      BY <2>6, <3>1 DEF ChangeCapacity, IInv, TypeOK, treeVars
    <3> QED
      BY <2>6, <3>2, OtherColumnsKeepIInv DEF ChangeCapacity
  <2>7. CASE \E p \in live, v \in User : RemoveMember(u, p, v)
    BY <2>7, RemoveMemberKeepsIInv
  <2> QED
    BY <1>2, <2>1, <2>2, <2>3, <2>4, <2>5, <2>6, <2>7 DEF ActsAs
<1>3. ASSUME NEW u \in User, NEW allowed \in BOOLEAN, AllowCreator(u, allowed) PROVE IInv'
  <2>1. TypeOK'
    BY <1>3 DEF AllowCreator, IInv, TypeOK, treeVars, memberVars
  <2> QED
    BY <1>3, <2>1, OtherColumnsKeepIInv DEF AllowCreator, memberVars
<1> QED
  BY <1>1, <1>2, <1>3 DEF Next

LEMMA InitIInv == Init => IInv
<1> SUFFICES ASSUME Init PROVE IInv
  OBVIOUS
<1>1. TypeOK
  BY CapacityAssumption DEF Init, TypeOK
<1>2. ParentsLive /\ MembersOnRoots /\ RootHasManager
  BY DEF Init, ParentsLive, MembersOnRoots, RootHasManager
<1>3. Acyclic
  BY DEF Init, Acyclic, NoParentCycle
<1> QED
  BY <1>1, <1>2, <1>3 DEF IInv

LEMMA SpecKeepsIInv == Spec => []IInv
BY InitIInv, NextKeepsIInv, PTL DEF Spec

------------------------------------------------------------------------------
(* The theorems.                                                            *)

\* No sequence of requests makes a project its own ancestor or leaves one under
\* a parent that was deleted.
THEOREM ProjectsStayAForest == Spec => []IsForest
<1>1. IInv => IsForest
  BY DEF IInv, IsForest
<1> QED
  BY <1>1, SpecKeepsIInv, PTL

\* Member rows never stand anywhere but on an existing top project.
THEOREM MembersStayOnRoots == Spec => []MembersOnRoots
BY SpecKeepsIInv, PTL DEF IInv

\* No top project is ever without a manager.
THEOREM RootsKeepAManager == Spec => []RootHasManager
BY SpecKeepsIInv, PTL DEF IInv

\* The tables always hold values of their columns' types.
THEOREM TypesHold == Spec => []TypeOK
BY SpecKeepsIInv, PTL DEF IInv

------------------------------------------------------------------------------
(* Chains and their tops.                                                   *)

\* The chain of an ancestor is part of the chain.
LEMMA AncestorsNest ==
    ASSUME NEW par, NEW known, NEW p \in known, NEW q \in AncestorsOrSelf(par, known, p)
    PROVE  AncestorsOrSelf(par, known, q) \subseteq AncestorsOrSelf(par, known, p)
<1>1. AncestorsOrSelf(par, known, p) \in SUBSET known
  BY DEF AncestorsOrSelf
<1> QED
  BY <1>1, AncestorsClosed, AncestorsLeast

\* A project whose parent was not loaded is all of its chain.
LEMMA TopStandsAlone ==
    ASSUME NEW par, NEW known, NEW p \in known, par[p] \notin known
    PROVE  AncestorsOrSelf(par, known, p) = {p}
<1>1. ClosedUpwards(par, known, {p})
  BY DEF ClosedUpwards
<1> QED
  BY <1>1, AncestorsLeast, AncestorsHoldSelf

\* A chain has only one top.
LEMMA OneTop ==
    ASSUME NEW par, NEW known, NEW p \in known, NoParentCycle(par, known),
           NEW q \in AncestorsOrSelf(par, known, p), par[q] \notin known,
           NEW r \in AncestorsOrSelf(par, known, p), par[r] \notin known
    PROVE  q = r
<1> SUFFICES ASSUME q # r PROVE FALSE
  OBVIOUS
<1> DEFINE S == {x \in known : {q, r} \subseteq AncestorsOrSelf(par, known, x)}
<1>1. \A x \in S : par[x] \in S
  <2> SUFFICES ASSUME NEW x \in S PROVE par[x] \in S
    OBVIOUS
  <2>1. par[x] \in known
    BY TopStandsAlone
  <2>2. x # q /\ x # r
    BY <2>1
  <2> QED
    BY <2>1, <2>2, AncestorsStep
<1>2. S = {}
  BY <1>1 DEF NoParentCycle
<1> QED
  BY <1>2

\* Projects of one chain have the same top.
LEMMA SameTop ==
    ASSUME NEW par, NEW known, NEW p \in known, NoParentCycle(par, known),
           NEW q \in AncestorsOrSelf(par, known, p)
    PROVE  RootOf(par, known, q) = RootOf(par, known, p)
<1>1. q \in known
  BY DEF AncestorsOrSelf
<1>2. RootOf(par, known, q) \in AncestorsOrSelf(par, known, p)
  BY <1>1, RootInTree, AncestorsNest
<1> QED
  BY <1>1, <1>2, RootInTree, OneTop

------------------------------------------------------------------------------
(* One project goes elsewhere.                                              *)

\* What does not stand under the moved project keeps its chain.
LEMMA OffBranch ==
    ASSUME NEW par, NEW known, NEW p, NEW e, NEW x \in known,
           p \notin AncestorsOrSelf(par, known, x), known \subseteq DOMAIN par
    PROVE  AncestorsOrSelf([par EXCEPT ![p] = e], known, x) = AncestorsOrSelf(par, known, x)
<1> DEFINE moved == [par EXCEPT ![p] = e]
           A == AncestorsOrSelf(par, known, x)
           B == AncestorsOrSelf(moved, known, x)
<1>1. A \in SUBSET known /\ B \in SUBSET known /\ x \in A /\ x \in B
  BY AncestorsHoldSelf DEF AncestorsOrSelf
<1>2. \A y \in known : y # p => moved[y] = par[y]
  OBVIOUS
<1>3. B \subseteq A
  <2>1. ClosedUpwards(moved, known, A)
    BY <1>1, <1>2, AncestorsClosed DEF ClosedUpwards
  <2> QED
    BY <1>1, <2>1, AncestorsLeast
<1>4. A \subseteq B
  <2>1. ClosedUpwards(par, known, B)
    <3>1. \A y \in B : moved[y] = par[y]
      BY <1>1, <1>2, <1>3
    <3>2. ClosedUpwards(moved, known, B)
      BY AncestorsClosed
    <3> QED
      BY <3>1, <3>2 DEF ClosedUpwards
  <2>2. ASSUME NEW S \in SUBSET known, x \in S, ClosedUpwards(par, known, S)
        PROVE  A \subseteq S
    BY <2>2, AncestorsLeast
  <2> QED
    BY <1>1, <2>1, <2>2
<1> QED
  BY <1>3, <1>4

\* What stands under the moved project still does.
LEMMA OnBranch ==
    ASSUME NEW par, NEW known, NEW p, NEW e, NEW x \in known,
           p \in AncestorsOrSelf(par, known, x), known \subseteq DOMAIN par
    PROVE  p \in AncestorsOrSelf([par EXCEPT ![p] = e], known, x)
<1> DEFINE moved == [par EXCEPT ![p] = e]
           B == AncestorsOrSelf(moved, known, x)
<1> SUFFICES ASSUME p \notin B PROVE FALSE
  OBVIOUS
<1>1. B \in SUBSET known /\ x \in B
  BY AncestorsHoldSelf DEF AncestorsOrSelf
<1>2. \A y \in B : moved[y] = par[y]
  BY <1>1
<1>3. ClosedUpwards(par, known, B)
  BY <1>2, AncestorsClosed DEF ClosedUpwards
<1> QED
  BY <1>1, <1>3, AncestorsLeast

\* A project that is taken out is the top of what stands under it; everything
\* else keeps its top.
LEMMA TopAfterCut ==
    ASSUME NEW par, NEW known, NEW p \in known, NEW e, e \notin known, NEW x \in known,
           known \subseteq DOMAIN par,
           NoParentCycle(par, known), NoParentCycle([par EXCEPT ![p] = e], known)
    PROVE  RootOf([par EXCEPT ![p] = e], known, x) =
               IF p \in AncestorsOrSelf(par, known, x) THEN p ELSE RootOf(par, known, x)
<1> DEFINE moved == [par EXCEPT ![p] = e]
<1>1. CASE p \in AncestorsOrSelf(par, known, x)
  <2>1. p \in AncestorsOrSelf(moved, known, x)
    BY <1>1, OnBranch
  <2>2. moved[p] \notin known
    OBVIOUS
  <2> QED
    BY <1>1, <2>1, <2>2, RootInTree, OneTop
<1>2. CASE p \notin AncestorsOrSelf(par, known, x)
  <2> DEFINE r == RootOf(moved, known, x)
  <2>1. r \in AncestorsOrSelf(par, known, x) /\ r \in known /\ moved[r] \notin known
    BY <1>2, RootInTree, OffBranch
  <2>2. par[r] \notin known
    BY <1>2, <2>1
  <2> QED
    BY <1>2, <2>1, <2>2, RootInTree, OneTop
<1> QED
  BY <1>1, <1>2

\* A project that goes under y takes everything under it to y's tree.
LEMMA TopAfterMove ==
    ASSUME NEW par, NEW known, NEW p \in known, NEW y \in known, NEW x \in known,
           known \subseteq DOMAIN par,
           NoParentCycle(par, known), NoParentCycle([par EXCEPT ![p] = y], known)
    PROVE  RootOf([par EXCEPT ![p] = y], known, x) =
               IF p \in AncestorsOrSelf(par, known, x) THEN RootOf(par, known, y)
               ELSE RootOf(par, known, x)
<1> DEFINE moved == [par EXCEPT ![p] = y]
<1>1. ASSUME NEW z \in known, p \notin AncestorsOrSelf(par, known, z)
      PROVE  RootOf(moved, known, z) = RootOf(par, known, z)
  <2> DEFINE r == RootOf(moved, known, z)
  <2>1. r \in AncestorsOrSelf(par, known, z) /\ r \in known /\ moved[r] \notin known
    BY <1>1, RootInTree, OffBranch
  <2>2. par[r] \notin known
    BY <1>1, <2>1
  <2> QED
    BY <2>1, <2>2, RootInTree, OneTop
<1>2. p \notin AncestorsOrSelf(par, known, y)
  <2> SUFFICES ASSUME p \in AncestorsOrSelf(par, known, y) PROVE FALSE
    OBVIOUS
  <2> DEFINE C == {z \in known : p \in AncestorsOrSelf(moved, known, z)}
  <2>1. y \in C
    BY OnBranch
  <2>2. \A z \in C : moved[z] \in C
    <3> SUFFICES ASSUME NEW z \in C PROVE moved[z] \in C
      OBVIOUS
    <3>1. CASE z = p
      BY <2>1, <3>1
    <3>2. CASE z # p
      <4>1. moved[z] \in known
        BY <3>2, TopStandsAlone
      <4> QED
        BY <3>2, <4>1, AncestorsStep
    <3> QED
      BY <3>1, <3>2
  <2>3. C = {}
    BY <2>2 DEF NoParentCycle
  <2> QED
    BY <2>1, <2>3
<1>3. CASE p \in AncestorsOrSelf(par, known, x)
  <2>1. p \in AncestorsOrSelf(moved, known, x) /\ moved[p] = y
    BY <1>3, OnBranch
  <2>2. y \in AncestorsOrSelf(moved, known, x)
    BY <2>1, AncestorsClosed DEF ClosedUpwards
  <2>3. RootOf(moved, known, y) = RootOf(moved, known, x)
    BY <2>2, SameTop
  <2> QED
    BY <1>1, <1>2, <1>3, <2>3
<1> QED
  BY <1>1, <1>3

\* A project that comes or goes with nothing under it changes no other chain.
LEMMA TopWithoutLeaf ==
    ASSUME NEW par, NEW par2, NEW known, NEW known2, known \subseteq known2,
           \A y \in known : par2[y] = par[y] /\ (par[y] \in known2 => par[y] \in known),
           NoParentCycle(par, known), NoParentCycle(par2, known2), NEW x \in known
    PROVE  RootOf(par2, known2, x) = RootOf(par, known, x)
<1> DEFINE A == AncestorsOrSelf(par, known, x)
           B == AncestorsOrSelf(par2, known2, x)
           r == RootOf(par2, known2, x)
<1>1. A \in SUBSET known /\ A \in SUBSET known2 /\ x \in A /\ x \in known2
  BY AncestorsHoldSelf DEF AncestorsOrSelf
<1>2. ClosedUpwards(par2, known2, A)
  BY <1>1, AncestorsClosed DEF ClosedUpwards
<1>3. B \subseteq A
  BY <1>1, <1>2, AncestorsLeast
<1>4. r \in A /\ par2[r] \notin known2
  BY <1>1, <1>3, RootInTree
<1>5. par[r] \notin known
  BY <1>1, <1>4
<1> QED
  BY <1>4, <1>5, RootInTree, OneTop

------------------------------------------------------------------------------
(* Who sees a project, and the root its handlers find.                      *)

\* With rows on tops only, a row on the chain is a row on its top.
LEMMA SeenFromTheTop ==
    ASSUME NEW par, NEW known, NEW rows, NEW v, NEW p \in known, NoParentCycle(par, known),
           \A q \in known : rows[q][v] # "none" => par[q] \notin known
    PROVE  (\E q \in AncestorsOrSelf(par, known, p) : rows[q][v] # "none")
               <=> rows[RootOf(par, known, p)][v] # "none"
<1>1. /\ RootOf(par, known, p) \in AncestorsOrSelf(par, known, p)
      /\ par[RootOf(par, known, p)] \notin known
  BY RootInTree
<1>2. ASSUME NEW q \in AncestorsOrSelf(par, known, p), rows[q][v] # "none"
      PROVE  q = RootOf(par, known, p)
  <2>1. q \in known
    BY DEF AncestorsOrSelf
  <2>2. par[q] \notin known
    BY <1>2, <2>1
  <2> QED
    BY <1>1, <2>2, OneTop
<1> QED
  BY <1>1, <1>2

\* The root a handler finds in the part of the tree its user sees is the root.
LEMMA TopIsTreeOf ==
    ASSUME IInv, NEW u \in User, NEW p \in Visible(u)
    PROVE  TopOf(u, p) = TreeOf(p)
<1> DEFINE A == AncestorsOrSelf(parent, live, p)
           S == A \cap Visible(u)
<1>1. /\ Visible(u) \in SUBSET live
      /\ live \subseteq Project
      /\ NoProject \notin live
      /\ p \in live
  BY ProjectAssumption DEF Visible, IInv, TypeOK
<1>2. ClosedUpwards(parent, Visible(u), S)
  BY <1>1, AncestorsClosed DEF ClosedUpwards
<1>3. AncestorsOrSelf(parent, Visible(u), p) \subseteq S
  BY <1>1, <1>2, AncestorsHoldSelf, AncestorsLeast
<1>4. NoParentCycle(parent, Visible(u))
  BY <1>1 DEF IInv, Acyclic, NoParentCycle
<1>5. TopOf(u, p) \in A
  BY <1>3, <1>4, RootInTree DEF TopOf
<1>6. parent[TopOf(u, p)] \notin live
  BY <1>1, TopIsRoot
<1>7. NoParentCycle(parent, live)
  BY DEF IInv, Acyclic
<1> QED
  BY <1>1, <1>5, <1>6, <1>7, RootInTree, OneTop DEF TreeOf

\* A person sees a project exactly when they have a row on its root.
LEMMA VisibleFromRoot ==
    ASSUME IInv, NEW u \in User, NEW p \in live
    PROVE  p \in Visible(u) <=> role[TreeOf(p)][u] # "none"
<1>1. NoParentCycle(parent, live) /\ live \subseteq Project /\ NoProject \notin live
  BY ProjectAssumption DEF IInv, Acyclic, TypeOK
<1>2. \A q \in live : role[q][u] # "none" => parent[q] \notin live
  BY <1>1 DEF IInv, MembersOnRoots
<1>3. (\E q \in AncestorsOrSelf(parent, live, p) : role[q][u] # "none")
          <=> role[RootOf(parent, live, p)][u] # "none"
  BY <1>1, <1>2, SeenFromTheTop
<1> QED
  BY <1>3 DEF Visible, TreeOf
\* The same, after a step.
LEMMA VisibleFromRootAfter ==
    ASSUME IInv', NEW u \in User, NEW p \in live'
    PROVE  p \in Visible(u)' <=> role'[TreeOf(p)'][u] # "none"
<1>1. NoParentCycle(parent', live') /\ live' \subseteq Project /\ NoProject \notin live'
  BY ProjectAssumption DEF IInv, Acyclic, TypeOK
<1>2. \A q \in live' : role'[q][u] # "none" => parent'[q] \notin live'
  BY <1>1 DEF IInv, MembersOnRoots
<1>3. (\E q \in AncestorsOrSelf(parent', live', p) : role'[q][u] # "none")
          <=> role'[RootOf(parent', live', p)][u] # "none"
  BY <1>1, <1>2, SeenFromTheTop
<1> QED
  BY <1>3 DEF Visible, TreeOf

------------------------------------------------------------------------------
(* A project becomes a root.                                                *)

\* The members of the tree are copied to it, so nobody's view changes.
LEMMA MoveOutChangesNobody ==
    ASSUME IInv, IInv', NEW u \in User, NEW p \in live, parent[p] # NoProject,
           MoveProject(u, p, NoProject)
    PROVE  /\ \A w \in User : Visible(w)' = Visible(w)
           /\ \A x \in live : role'[TreeOf(x)'] = role[TreeOf(x)]
           /\ role'[p] = role[TreeOf(p)]
           /\ capacity'[p] = capacity[TreeOf(p)]
<1>1. /\ p \in Project
      /\ live \subseteq Project
      /\ NoProject \notin live
      /\ live \subseteq DOMAIN parent
  BY ProjectAssumption DEF IInv, TypeOK
<1>2. live' = live /\ parent' = [parent EXCEPT ![p] = NoProject]
  BY DEF MoveProject
<1>3. TopOf(u, p) = TreeOf(p)
  BY TopIsTreeOf DEF MoveProject, MayMove
<1>4. /\ role' = [role EXCEPT ![p] = role[TreeOf(p)]]
      /\ capacity' = [capacity EXCEPT ![p] = capacity[TreeOf(p)]]
  BY <1>3 DEF MoveProject, RowsAfterMove
<1>5. role'[p] = role[TreeOf(p)] /\ capacity'[p] = capacity[TreeOf(p)]
  BY <1>1, <1>4 DEF IInv, TypeOK
<1>6. NoParentCycle(parent, live) /\ NoParentCycle([parent EXCEPT ![p] = NoProject], live)
  BY <1>2 DEF IInv, Acyclic
<1>7. ASSUME NEW x \in live PROVE role'[TreeOf(x)'] = role[TreeOf(x)]
  <2>1. TreeOf(x)' = IF p \in AncestorsOrSelf(parent, live, x) THEN p ELSE TreeOf(x)
    <3>1. RootOf([parent EXCEPT ![p] = NoProject], live, x) =
              IF p \in AncestorsOrSelf(parent, live, x) THEN p ELSE RootOf(parent, live, x)
      BY <1>1, <1>6, TopAfterCut
    <3> QED
      BY <1>2, <3>1 DEF TreeOf
  <2>2. CASE p \in AncestorsOrSelf(parent, live, x)
    BY <1>5, <1>6, <2>1, <2>2, SameTop DEF TreeOf
  <2>3. CASE p \notin AncestorsOrSelf(parent, live, x)
    <3>1. TreeOf(x) # p
      BY <1>6, <2>3, RootInTree DEF TreeOf
    <3>2. TreeOf(x) \in Project
      BY <1>1, <1>6, RootInTree DEF TreeOf
    <3> QED
      BY <1>4, <2>1, <2>3, <3>1, <3>2 DEF IInv, TypeOK
  <2> QED
    BY <2>2, <2>3
<1>8. ASSUME NEW w \in User PROVE Visible(w)' = Visible(w)
  <2>1. Visible(w) \subseteq live /\ Visible(w)' \subseteq live
    BY <1>2 DEF Visible
  <2>2. \A x \in live : x \in Visible(w)' <=> x \in Visible(w)
    BY <1>2, <1>7, VisibleFromRoot, VisibleFromRootAfter
  <2> QED
    BY <2>1, <2>2
<1> QED
  BY <1>5, <1>7, <1>8

\* Only a move takes a project that stays out of its tree, and no step but a
\* move, a creation or a deletion changes the tree at all.
LEMMA WhatChangesTheTree ==
    ASSUME [Next]_projectVars
    PROVE  \/ UNCHANGED treeVars
           \/ \E u \in User, q \in live \cup {NoProject}, p \in Project : CreateProject(u, q, p)
           \/ \E u \in User, p \in live, q \in live \cup {NoProject} : MoveProject(u, p, q)
           \/ \E u \in User, p \in live : DeleteProject(u, p)
BY DEF Next, ActsAs, AddMember, ChangeRole, ChangeCapacity, RemoveMember, AllowCreator,
       projectVars

\* When a project becomes a root of its own, everybody sees what they saw and
\* keeps role and capacity in it, however deep it stood and whoever moved it
\* (move_project, copy_members).
THEOREM BecomingRootDisturbsNobody == Spec => BecomingRootChangesNobody
<1> DEFINE Kept ==
      \A p \in live \cap live' :
          (parent[p] # NoProject /\ parent'[p] = NoProject)
          => /\ \A u \in User : Visible(u)' = Visible(u)
             /\ role'[p] = role[TreeOf(p)]
             /\ capacity'[p] = capacity[TreeOf(p)]
<1>1. ASSUME IInv, [Next]_projectVars PROVE Kept
  <2> SUFFICES ASSUME NEW p \in live, p \in live', parent[p] # NoProject, parent'[p] = NoProject
               PROVE  /\ \A u \in User : Visible(u)' = Visible(u)
                      /\ role'[p] = role[TreeOf(p)]
                      /\ capacity'[p] = capacity[TreeOf(p)]
    OBVIOUS
  <2>1. IInv'
    BY <1>1, NextKeepsIInv
  <2>2. p \in Project /\ live \subseteq created /\ parent \in [Project -> Project \cup {NoProject}]
    BY <1>1 DEF IInv, TypeOK
  <2>3. ~UNCHANGED treeVars
    BY DEF treeVars
  <2>4. ASSUME NEW u \in User, NEW q \in live \cup {NoProject}, NEW x \in Project,
               CreateProject(u, q, x)
        PROVE  FALSE
    <3>1. x \notin live
      BY <2>2, <2>4, ProjectAssumption DEF CreateProject
    <3> QED
      BY <2>2, <2>4, <3>1 DEF CreateProject
  <2>5. ASSUME NEW u \in User, NEW x \in live, DeleteProject(u, x) PROVE FALSE
    BY <2>2, <2>5 DEF DeleteProject
  <2>6. ASSUME NEW u \in User, NEW x \in live, NEW q \in live \cup {NoProject},
               MoveProject(u, x, q)
        PROVE  x = p /\ q = NoProject
    BY <2>2, <2>6 DEF MoveProject
  <2> QED
    BY <1>1, <2>1, <2>3, <2>4, <2>5, <2>6, WhatChangesTheTree, MoveOutChangesNobody
<1>2. IInv /\ [Next]_projectVars => [Kept]_projectVars
  BY <1>1
<1> QED
  BY <1>2, SpecKeepsIInv, PTL DEF Spec, BecomingRootChangesNobody

------------------------------------------------------------------------------
(* A project comes under another tree.                                      *)

\* A new project changes the root of no other.
LEMMA CreateMovesNoRoot ==
    ASSUME IInv, IInv', NEW u \in User, NEW q \in live \cup {NoProject}, NEW x \in Project,
           CreateProject(u, q, x), NEW p \in live
    PROVE  TreeOf(p)' = TreeOf(p) /\ p # x
<1>1. /\ x \notin live
      /\ parent \in [Project -> Project \cup {NoProject}]
      /\ live \subseteq Project
      /\ NoProject \notin Project
  BY ProjectAssumption DEF CreateProject, IInv, TypeOK
<1>2. live \subseteq live' /\ \A y \in live' : y \in live \/ y = x
  BY DEF CreateProject
<1>3. \A y \in live : parent'[y] = parent[y] /\ (parent[y] \in live' => parent[y] \in live)
  BY <1>1, <1>2 DEF CreateProject, IInv, ParentsLive
<1>4. NoParentCycle(parent, live) /\ NoParentCycle(parent', live')
  BY DEF IInv, Acyclic
<1>5. RootOf(parent', live', p) = RootOf(parent, live, p)
  BY <1>2, <1>3, <1>4, TopWithoutLeaf
<1> QED
  BY <1>1, <1>5 DEF TreeOf

\* A project is deleted only with nothing under it: no other changes its root.
LEMMA DeleteMovesNoRoot ==
    ASSUME IInv, IInv', NEW u \in User, NEW x \in live, DeleteProject(u, x),
           NEW p \in live, p \in live'
    PROVE  TreeOf(p)' = TreeOf(p) /\ TreeOf(p) # x
<1>1. live' = live \ {x} /\ \A y \in live : parent[y] # x
  BY DEF DeleteProject, MayDelete
<1>2. \A y \in live' : parent[y] = parent'[y] /\ (parent'[y] \in live => parent'[y] \in live')
  BY <1>1 DEF DeleteProject, IInv, TypeOK
<1>3. NoParentCycle(parent, live) /\ NoParentCycle(parent', live')
  BY DEF IInv, Acyclic
<1>4. RootOf(parent, live, p) = RootOf(parent', live', p)
  BY <1>1, <1>2, <1>3, TopWithoutLeaf
<1>5. RootOf(parent', live', p) \in live'
  BY <1>3, RootInTree
<1> QED
  BY <1>1, <1>4, <1>5 DEF TreeOf

\* A branch that goes under another project took the managers of both trees.
LEMMA MoveCrosses ==
    ASSUME IInv, IInv', NEW u \in User, NEW x \in live, NEW q \in live \cup {NoProject},
           MoveProject(u, x, q), NEW p \in live,
           TreeOf(p)' # TreeOf(p), TreeOf(p)' \notin SubtreeIds(parent, live, TreeOf(p))
    PROVE  IsManager(u, TreeOf(p)) /\ role[TreeOf(p)'][u] = "manager"
<1>1. live \subseteq Project /\ NoProject \notin live /\ live \subseteq DOMAIN parent
  BY ProjectAssumption DEF IInv, TypeOK
<1>2. live' = live /\ parent' = [parent EXCEPT ![x] = q]
  BY DEF MoveProject
<1>3. NoParentCycle(parent, live) /\ NoParentCycle([parent EXCEPT ![x] = q], live)
  BY <1>2 DEF IInv, Acyclic
<1>4. CASE q = NoProject
  <2>1. x \in AncestorsOrSelf(parent, live, p) /\ TreeOf(p)' = x
    <3>1. RootOf([parent EXCEPT ![x] = q], live, p) =
              IF x \in AncestorsOrSelf(parent, live, p) THEN x ELSE RootOf(parent, live, p)
      BY <1>1, <1>3, <1>4, TopAfterCut
    <3>2. TreeOf(p)' = RootOf([parent EXCEPT ![x] = q], live, p)
      BY <1>2 DEF TreeOf
    <3> QED
      BY <3>1, <3>2 DEF TreeOf
  <2>2. TreeOf(p) \in AncestorsOrSelf(parent, live, x)
    BY <1>3, <2>1, SameTop, RootInTree DEF TreeOf
  <2> QED
    BY <2>1, <2>2 DEF SubtreeIds
<1>5. CASE q \in live
  <2>1. x \in AncestorsOrSelf(parent, live, p) /\ TreeOf(p)' = TreeOf(q)
    <3>1. RootOf([parent EXCEPT ![x] = q], live, p) =
              IF x \in AncestorsOrSelf(parent, live, p)
              THEN RootOf(parent, live, q) ELSE RootOf(parent, live, p)
      BY <1>1, <1>3, <1>5, TopAfterMove
    <3>2. TreeOf(p)' = RootOf([parent EXCEPT ![x] = q], live, p)
      BY <1>2 DEF TreeOf
    <3> QED
      BY <3>1, <3>2 DEF TreeOf
  <2>2. TreeOf(x) = TreeOf(p)
    BY <1>3, <2>1, SameTop DEF TreeOf
  <2>3. TreeOf(p) \in live /\ TreeOf(q) \in live
    BY <1>3, <1>5, RootInTree DEF TreeOf
  <2>4. x \in Visible(u) /\ q \in Visible(u) /\ MayCross(u, x, q)
    BY <1>1, <1>5 DEF MoveProject, MayMove
  <2>5. TopOf(u, x) = TreeOf(p) /\ TopOf(u, q) = TreeOf(q)
    BY <2>2, <2>4, TopIsTreeOf
  <2>6. IsManager(u, TreeOf(p)) /\ IsManager(u, TreeOf(q))
    BY <1>1, <1>5, <2>1, <2>3, <2>4, <2>5 DEF MayCross
  <2> QED
    BY <2>1, <2>6 DEF IsManager
<1> QED
  BY <1>4, <1>5

\* A request of u that changes the tree creates, moves or deletes.
LEMMA WhatARequestDoesToTheTree ==
    ASSUME NEW u \in User, ActsAs(u)
    PROVE  \/ UNCHANGED treeVars
           \/ \E q \in live \cup {NoProject}, p \in Project : CreateProject(u, q, p)
           \/ \E p \in live, q \in live \cup {NoProject} : MoveProject(u, p, q)
           \/ \E p \in live : DeleteProject(u, p)
BY DEF ActsAs, AddMember, ChangeRole, ChangeCapacity, RemoveMember

\* Whoever's request brings a project under another existing tree manages both
\* trees, for every project of the moved branch, and nothing but a request does
\* (require_manager_to_cross).
THEOREM CrossingNeedsBothManagers == Spec => CrossingTakesBothManagers
<1> DEFINE Managed ==
      \A p \in live \cap live' : Crosses(p) =>
          /\ \E u \in User : ActsAs(u)
          /\ \A u \in User : ActsAs(u) => Manages(u, p) /\ IsManager(u, TreeOf(p)')
<1>1. ASSUME IInv, [Next]_projectVars PROVE Managed
  <2> SUFFICES ASSUME NEW p \in live, p \in live', Crosses(p)
               PROVE  /\ \E u \in User : ActsAs(u)
                      /\ \A u \in User : ActsAs(u) => Manages(u, p) /\ IsManager(u, TreeOf(p)')
    OBVIOUS
  <2>1. IInv'
    BY <1>1, NextKeepsIInv
  <2>2. /\ treeVars' # treeVars
        /\ TreeOf(p)' # TreeOf(p)
        /\ TreeOf(p)' \notin SubtreeIds(parent, live, TreeOf(p))
    BY DEF Crosses
  <2>3. \E u \in User : ActsAs(u)
    BY <1>1, <2>2 DEF Next, AllowCreator, projectVars
  <2>4. ASSUME NEW u \in User, ActsAs(u) PROVE Manages(u, p) /\ IsManager(u, TreeOf(p)')
    <3>1. ASSUME NEW q \in live \cup {NoProject}, NEW x \in Project, CreateProject(u, q, x)
          PROVE  FALSE
      BY <1>1, <2>1, <2>2, <3>1, CreateMovesNoRoot
    <3>2. ASSUME NEW x \in live, DeleteProject(u, x) PROVE FALSE
      BY <1>1, <2>1, <2>2, <3>2, DeleteMovesNoRoot
    <3>3. ASSUME NEW x \in live, NEW q \in live \cup {NoProject}, MoveProject(u, x, q)
          PROVE  Manages(u, p) /\ IsManager(u, TreeOf(p)')
      BY <1>1, <2>1, <2>2, <3>3, MoveCrosses DEF Manages, IsManager
    <3> QED
      BY <2>2, <2>4, <3>1, <3>2, <3>3, WhatARequestDoesToTheTree
  <2> QED
    BY <2>3, <2>4
<1>2. IInv /\ [Next]_projectVars => [Managed]_projectVars
  BY <1>1
<1> QED
  BY <1>2, SpecKeepsIInv, PTL DEF Spec, CrossingTakesBothManagers
------------------------------------------------------------------------------
(* Nobody lets themselves in.                                               *)

\* The row of u on the root of p after the step gives no more than before it.
NoMore(u, p) ==
    \/ role'[TreeOf(p)'][u] = "none"
    \/ role'[TreeOf(p)'][u] = role[TreeOf(p)][u]
    \/ role[TreeOf(p)][u] = "manager"

\* Rights are read off the rows of roots.
LEMMA RightsAreRows ==
    ASSUME IInv, IInv', NEW u \in User, \A p \in live \cap live' : NoMore(u, p)
    PROVE  ~GainsRights(u)
<1>1. ASSUME NEW p \in live \cap live', p \in Visible(u)' PROVE p \in Visible(u)
  BY <1>1, VisibleFromRoot, VisibleFromRootAfter DEF NoMore
<1>2. Visible(u)' \subseteq live'
  BY DEF Visible
<1>3. ASSUME NEW p \in live \cap live', Manages(u, p)' PROVE Manages(u, p)
  BY <1>3 DEF NoMore, Manages, IsManager
<1> QED
  BY <1>1, <1>2, <1>3 DEF GainsRights

\* A move takes a branch into a tree the mover already manages, or leaves the
\* rows of everybody's root as they were.
LEMMA MoveGivesNoMore ==
    ASSUME IInv, IInv', NEW u \in User, NEW x \in live, NEW q \in live \cup {NoProject},
           MoveProject(u, x, q), NEW p \in live
    PROVE  NoMore(u, p)
<1>1. live \subseteq Project /\ NoProject \notin live /\ live \subseteq DOMAIN parent
  BY ProjectAssumption DEF IInv, TypeOK
<1>2. live' = live /\ parent' = [parent EXCEPT ![x] = q]
  BY DEF MoveProject
<1>3. NoParentCycle(parent, live) /\ NoParentCycle([parent EXCEPT ![x] = q], live)
  BY <1>2 DEF IInv, Acyclic
<1>4. CASE q = NoProject /\ parent[x] # NoProject
  BY <1>4, MoveOutChangesNobody DEF NoMore
<1>5. CASE q = NoProject /\ parent[x] = NoProject
  <2>1. parent' = parent /\ role' = role
    BY <1>1, <1>2, <1>5 DEF MoveProject, RowsAfterMove, IInv, TypeOK
  <2> QED
    BY <1>2, <2>1 DEF NoMore, TreeOf
<1>6. CASE q \in live
  <2>1. TreeOf(p)' = IF x \in AncestorsOrSelf(parent, live, p) THEN TreeOf(q) ELSE TreeOf(p)
    <3>1. RootOf([parent EXCEPT ![x] = q], live, p) =
              IF x \in AncestorsOrSelf(parent, live, p)
              THEN RootOf(parent, live, q) ELSE RootOf(parent, live, p)
      BY <1>1, <1>3, <1>6, TopAfterMove
    <3> QED
      BY <1>2, <3>1 DEF TreeOf
  <2>2. \A y \in Project : y # x => role'[y] = role[y]
    <3>1. role' = role \/ role' = [role EXCEPT ![x] = [v \in User |-> "none"]]
      BY <1>1, <1>6 DEF MoveProject, RowsAfterMove
    <3> QED
      BY <3>1 DEF IInv, TypeOK
  <2>3. /\ TreeOf(p) \in AncestorsOrSelf(parent, live, p)
        /\ TreeOf(p) \in live
        /\ TreeOf(q) \in live
    BY <1>3, <1>6, RootInTree DEF TreeOf
  <2>4. CASE x \notin AncestorsOrSelf(parent, live, p)
    <3>1. TreeOf(p)' = TreeOf(p) /\ TreeOf(p) # x /\ TreeOf(p) \in Project
      BY <1>1, <2>1, <2>3, <2>4
    <3> QED
      BY <2>2, <3>1 DEF NoMore
  <2>5. CASE x \in AncestorsOrSelf(parent, live, p)
    <3>1. TreeOf(x) = TreeOf(p)
      BY <1>3, <2>5, SameTop DEF TreeOf
    <3>2. x \in Visible(u) /\ q \in Visible(u) /\ MayCross(u, x, q)
      BY <1>1, <1>6 DEF MoveProject, MayMove
    <3>3. TopOf(u, x) = TreeOf(p) /\ TopOf(u, q) = TreeOf(q)
      BY <3>1, <3>2, TopIsTreeOf
    <3>4. CASE TreeOf(p) # TreeOf(q)
      <4>1. IsManager(u, TreeOf(p))
        BY <1>1, <1>6, <2>3, <3>2, <3>3, <3>4 DEF MayCross
      <4> QED
        BY <4>1 DEF NoMore, IsManager
    <3>5. CASE TreeOf(p) = TreeOf(q)
      <4>1. TreeOf(q)' = TreeOf(q)
        <5>1. RootOf([parent EXCEPT ![x] = q], live, q) =
                  IF x \in AncestorsOrSelf(parent, live, q)
                  THEN RootOf(parent, live, q) ELSE RootOf(parent, live, q)
          BY <1>1, <1>3, <1>6, TopAfterMove
        <5> QED
          BY <1>2, <5>1 DEF TreeOf
      <4>2. TreeOf(q) # x
        <5>1. parent'[x] = q /\ q \in live'
          BY <1>1, <1>2, <1>6
        <5>2. parent'[TreeOf(q)'] \notin live'
          <6>1. NoParentCycle(parent', live')
            BY <1>2, <1>3
          <6>2. q \in live'
            BY <5>1
          <6> QED
            BY <6>1, <6>2, RootInTree DEF TreeOf
        <5> QED
          BY <4>1, <5>1, <5>2
      <4> QED
        BY <1>1, <2>1, <2>2, <2>3, <2>5, <3>5, <4>2 DEF NoMore
    <3> QED
      BY <3>4, <3>5
  <2> QED
    BY <2>4, <2>5
<1> QED
  BY <1>4, <1>5, <1>6

\* Who changes a row manages the root already, or is taking their own row away.
LEMMA RowChangeGivesNoMore ==
    ASSUME IInv, NEW u \in User, NEW r \in Project, NEW v \in User, NEW w,
           role' = [role EXCEPT ![r][v] = w], UNCHANGED treeVars,
           v = u => w = "none" \/ role[r][u] = "manager", NEW p \in live
    PROVE  NoMore(u, p)
<1>1. TreeOf(p)' = TreeOf(p)
  BY DEF TreeOf, treeVars
<1>2. TreeOf(p) \in Project
  <2>1. NoParentCycle(parent, live) /\ live \subseteq Project
    BY DEF IInv, Acyclic, TypeOK
  <2> QED
    BY <2>1, RootInTree DEF TreeOf
<1>3. \A y \in Project : role'[y][u] = IF y = r /\ u = v THEN w ELSE role[y][u]
  BY DEF IInv, TypeOK
<1> QED
  BY <1>1, <1>2, <1>3 DEF NoMore

\* The checks of the handlers together leave no way in for the one who asks.
LEMMA OwnRequestsGiveNoRights ==
    ASSUME IInv, NEW u \in User, ActsAs(u)
    PROVE  ~GainsRights(u)
<1>1. IInv'
  BY NextKeepsIInv DEF Next
<1>2. /\ live \subseteq Project
      /\ role \in [Project -> [User -> Role \cup {"none"}]]
      /\ NoParentCycle(parent, live)
  BY DEF IInv, TypeOK, Acyclic
<1>3. \A y \in live : TreeOf(y) \in live
  BY <1>2, RootInTree DEF TreeOf
<1>4. ASSUME NEW q \in live \cup {NoProject}, NEW x \in Project, CreateProject(u, q, x)
      PROVE  ~GainsRights(u)
  <2> SUFFICES ASSUME NEW p \in live PROVE NoMore(u, p)
    BY <1>1, RightsAreRows
  <2>1. TreeOf(p)' = TreeOf(p) /\ TreeOf(p) # x
    BY <1>1, <1>3, <1>4, CreateMovesNoRoot
  <2>2. \A y \in Project : y # x => role'[y] = role[y]
    BY <1>2, <1>4 DEF CreateProject
  <2> QED
    BY <1>2, <1>3, <2>1, <2>2 DEF NoMore
<1>5. ASSUME NEW x \in live, NEW q \in live \cup {NoProject}, MoveProject(u, x, q)
      PROVE  ~GainsRights(u)
  BY <1>1, <1>5, MoveGivesNoMore, RightsAreRows
<1>6. ASSUME NEW x \in live, DeleteProject(u, x) PROVE ~GainsRights(u)
  <2> SUFFICES ASSUME NEW p \in live, p \in live' PROVE NoMore(u, p)
    BY <1>1, RightsAreRows
  <2>1. TreeOf(p)' = TreeOf(p) /\ TreeOf(p) # x
    BY <1>1, <1>6, DeleteMovesNoRoot
  <2>2. \A y \in Project : y # x => role'[y] = role[y]
    BY <1>2, <1>6 DEF DeleteProject
  <2> QED
    BY <1>2, <1>3, <2>1, <2>2 DEF NoMore
<1>7. ASSUME NEW x \in live, NEW v \in User, NEW w \in Role \cup {"none"}, x \in Visible(u),
             role' = [role EXCEPT ![TopOf(u, x)][v] = w], UNCHANGED treeVars,
             v = u => w = "none" \/ role[TopOf(u, x)][u] = "manager"
      PROVE  ~GainsRights(u)
  <2>1. TopOf(u, x) \in Project
    BY <1>7, TopIsRoot
  <2>2. \A p \in live : NoMore(u, p)
    BY <1>7, <2>1, RowChangeGivesNoMore
  <2> QED
    BY <1>1, <2>2, RightsAreRows
<1>8. ASSUME NEW x \in live, NEW v \in User, NEW r \in Role, ChangeRole(u, x, v, r)
      PROVE  ~GainsRights(u)
  BY <1>7, <1>8 DEF ChangeRole, MayChangeRole, IsManager
<1>9. ASSUME NEW x \in live, NEW v \in User, NEW r \in Role, AddMember(u, x, v, r)
      PROVE  ~GainsRights(u)
  BY <1>7, <1>8, <1>9 DEF AddMember, MayAddMember, IsManager
<1>10. ASSUME NEW x \in live, NEW v \in User, RemoveMember(u, x, v) PROVE ~GainsRights(u)
  BY <1>7, <1>10 DEF RemoveMember, MayRemoveMember
<1>11. ASSUME NEW x \in live, NEW v \in User, NEW c \in Capacity, ChangeCapacity(u, x, v, c)
       PROVE  ~GainsRights(u)
  BY <1>11 DEF ChangeCapacity, GainsRights
<1> QED
  BY <1>4, <1>5, <1>6, <1>8, <1>9, <1>10, <1>11 DEF ActsAs

\* A person's own request never shows them a project that existed and that they
\* did not see, and never makes them manager of a tree they did not manage: the
\* checks of every handler together leave no way in.
THEOREM NobodyLetsThemselvesIn == Spec => NobodyPromotesThemselves
<1> DEFINE Kept == \A u \in User : GainsRights(u) => ~ActsAs(u)
<1>1. IInv /\ [Next]_projectVars => [Kept]_projectVars
  BY OwnRequestsGiveNoRights
<1> QED
  BY <1>1, SpecKeepsIInv, PTL DEF Spec, NobodyPromotesThemselves
==============================================================================
