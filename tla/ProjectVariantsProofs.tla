----------------------- MODULE ProjectVariantsProofs -------------------------
(***************************************************************************)
(* The specifications that build on Projects: the one with sort orders,    *)
(* the one whose handlers read first and write later, and the one with the *)
(* calendars of the teams.                                                 *)
(*                                                                         *)
(* The sort orders add a column and no behaviour: every behaviour of       *)
(* ProjectOrdering is one of Projects, so what is proved of Projects holds *)
(* of the specification the run checks.  A move puts the project where it  *)
(* was asked for and keeps the others in order, for any number of          *)
(* projects: the ranks of n siblings are the numbers 0 to n - 1, each      *)
(* once, whatever sort_orders they come from.                              *)
(*                                                                         *)
(* Requests that do not overlap are the handlers of Projects in one step   *)
(* each, whatever the number of threads.  The argument is that the checks  *)
(* a request has passed still hold when it writes.  A check of another     *)
(* request does not disturb them, a write of another would, and there is   *)
(* none as long as one request runs at a time.                             *)
(*                                                                         *)
(* The calendars: for every forest of projects, every set of people and    *)
(* days, rows stay where they belong, and taking a project out of its tree *)
(* changes no plan.                                                        *)
(***************************************************************************)
EXTENDS ProjectOrdering, ProjectRequests, TeamCalendars, ProjectsProofs, FiniteSetTheorems

\* Each request with its renumbering is the request of Projects, and a
\* renumbering alone changes nothing there.
LEMMA OrderedStepIsAStep == [OrderingNext]_orderingVars => [Next]_projectVars
<1> SUFFICES ASSUME [OrderingNext]_orderingVars PROVE [Next]_projectVars
  OBVIOUS
<1>1. CASE UNCHANGED orderingVars
  BY <1>1 DEF orderingVars
<1>2. ASSUME NEW u \in User, NEW q \in live \cup {NoProject}, NEW p \in Project,
             OrderedCreate(u, q, p)
      PROVE  Next
  BY <1>2 DEF OrderedCreate, Next, ActsAs
<1>3. ASSUME NEW u \in User, NEW p \in live, NEW q \in live \cup {NoProject},
             NEW n \in 0..MaxPosition, OrderedMove(u, p, q, n)
      PROVE  Next
  BY <1>3 DEF OrderedMove, Next, ActsAs
<1>4. ASSUME NEW u \in User, NEW p \in live, OrderedDelete(u, p) PROVE Next
  BY <1>4 DEF OrderedDelete, Next, ActsAs
<1>5. ASSUME NEW u \in User, MembershipStep(u) PROVE Next
  BY <1>5 DEF MembershipStep, Next, ActsAs
<1> QED
  BY <1>1, <1>2, <1>3, <1>4, <1>5 DEF OrderingNext

\* The projects with their sort orders implement the projects without
\* (project_use_cases.py: the numbering decides nothing about who may do what).
THEOREM OrderingImplementsProjects == OrderingSpec => Spec
<1>1. OrderingInit => Init
  BY DEF OrderingInit
<1> QED
  BY <1>1, OrderedStepIsAStep, PTL DEF OrderingSpec, Spec

\* What is proved of Projects holds with the sort orders too.
THEOREM OrderedProjectsAreSafe ==
    OrderingSpec => /\ []IsForest
                    /\ []MembersOnRoots
                    /\ []RootHasManager
                    /\ CrossingTakesBothManagers
                    /\ BecomingRootChangesNobody
BY OrderingImplementsProjects, ProjectsStayAForest, MembersStayOnRoots, RootsKeepAManager,
   CrossingNeedsBothManagers, BecomingRootDisturbsNobody, PTL

------------------------------------------------------------------------------
(* Ranks.                                                                   *)

\* children_of sorts: of two siblings one comes first, and never both.
LEMMA BeforeIsAnOrder ==
    ASSUME NEW ord \in [Project -> Nat], NEW x \in Project, NEW y \in Project, NEW z \in Project
    PROVE  /\ ~Before(ord, x, x)
           /\ Before(ord, x, y) /\ Before(ord, y, z) => Before(ord, x, z)
           /\ x # y => Before(ord, x, y) \/ Before(ord, y, x)
BY ProjectAssumption DEF Before

LEMMA RankIsAnIndex ==
    ASSUME order \in [Project -> Nat], NEW S \in SUBSET Project, IsFiniteSet(S), NEW x \in S
    PROVE  /\ Rank(S, x) \in Nat
           /\ Rank(S, x) < Cardinality(S)
<1> DEFINE A == {y \in S : Before(order, y, x)}
<1>1. IsFiniteSet(A) /\ Cardinality(A) \in Nat
  BY FS_Subset, FS_CardinalityType
<1>2. x \notin A
  BY BeforeIsAnOrder
<1>3. A \in SUBSET S /\ A # S
  BY <1>2
<1>4. Cardinality(A) <= Cardinality(S) /\ Cardinality(A) # Cardinality(S)
  BY <1>3, FS_Subset
<1>5. Cardinality(S) \in Nat
  BY FS_CardinalityType
<1> QED
  BY <1>1, <1>4, <1>5 DEF Rank

LEMMA RankGrows ==
    ASSUME order \in [Project -> Nat], NEW S \in SUBSET Project, IsFiniteSet(S),
           NEW x \in S, NEW y \in S, Before(order, x, y)
    PROVE  Rank(S, x) < Rank(S, y)
<1> DEFINE A == {z \in S : Before(order, z, x)}
           B == {z \in S : Before(order, z, y)}
<1>1. \A z \in A : z \in B
  BY BeforeIsAnOrder
<1>2. x \in B /\ x \notin A
  BY BeforeIsAnOrder
<1>3. A \in SUBSET B /\ A # B
  BY <1>1, <1>2
<1>4. IsFiniteSet(B)
  BY FS_Subset
<1>5. Cardinality(A) <= Cardinality(B) /\ Cardinality(A) # Cardinality(B)
  BY <1>3, <1>4, FS_Subset
<1>6. Cardinality(A) \in Nat /\ Cardinality(B) \in Nat
  BY <1>3, <1>4, FS_Subset, FS_CardinalityType
<1> QED
  BY <1>5, <1>6 DEF Rank

\* As many siblings have a rank below k as there are numbers below k.
LEMMA RanksAreAllTheIndices ==
    ASSUME order \in [Project -> Nat], NEW S \in SUBSET Project, IsFiniteSet(S),
           NEW k \in Nat, k <= Cardinality(S)
    PROVE  Cardinality({y \in S : Rank(S, y) < k}) = k
<1> DEFINE n == Cardinality(S)
           I == 0..(n - 1)
           f == [y \in S |-> Rank(S, y)]
           T == {y \in S : Rank(S, y) < k}
           K == 0..(k - 1)
           g == [y \in T |-> Rank(S, y)]
<1>1. n \in Nat
  BY FS_CardinalityType
<1>2. \A y \in S : Rank(S, y) \in I
  BY <1>1, RankIsAnIndex
<1>3. ASSUME NEW x \in S, NEW y \in S, Rank(S, x) = Rank(S, y) PROVE x = y
  <2> SUFFICES ASSUME x # y PROVE FALSE
    OBVIOUS
  <2>1. Before(order, x, y) \/ Before(order, y, x)
    BY BeforeIsAnOrder
  <2>2. Rank(S, x) \in Nat /\ Rank(S, y) \in Nat
    BY RankIsAnIndex
  <2> QED
    BY <1>3, <2>1, <2>2, RankGrows
<1>4. f \in Injection(S, I)
  BY <1>2, <1>3 DEF Injection, IsInjective
<1>5. IsFiniteSet(I) /\ Cardinality(I) = n
  <2>1. 0 \in Int /\ n - 1 \in Int
    BY <1>1
  <2>2. /\ IsFiniteSet(I)
        /\ Cardinality(I) = IF 0 > n - 1 THEN 0 ELSE (n - 1) - 0 + 1
    BY <2>1, FS_Interval
  <2> QED
    BY <1>1, <2>2
<1>6. f \in Surjection(S, I)
  BY <1>4, <1>5, FS_Injection
<1>7. \A i \in I : \E y \in S : Rank(S, y) = i
  BY <1>6 DEF Surjection
<1>8. K \subseteq I
  BY <1>1
<1>9. g \in [T -> K]
  BY <1>2
<1>10. g \in Injection(T, K)
  BY <1>3, <1>9 DEF Injection, IsInjective
<1>11. \A i \in K : \E y \in T : g[y] = i
  BY <1>7, <1>8
<1>12. g \in Bijection(T, K)
  BY <1>9, <1>10, <1>11 DEF Bijection, Surjection
<1>13. IsFiniteSet(T)
  BY FS_Subset
<1>14. Cardinality(K) = Cardinality(T)
  BY <1>12, <1>13, FS_Bijection DEF ExistsBijection
<1>15. Cardinality(K) = k
  BY FS_Interval
<1> QED
  BY <1>14, <1>15

------------------------------------------------------------------------------
(* A move.                                                                  *)

LEMMA ChildrenAreFinite ==
    ASSUME IInv, IsFiniteSet(live), NEW u, NEW q, NEW p
    PROVE  /\ ChildrenOf(u, q) \ {p} \in SUBSET Project
           /\ IsFiniteSet(ChildrenOf(u, q) \ {p})
           /\ Cardinality(ChildrenOf(u, q) \ {p}) \in Nat
           /\ IsFiniteSet(ChildrenOf(u, q))
           /\ Cardinality(ChildrenOf(u, q)) \in Nat
<1>1. ChildrenOf(u, q) \in SUBSET live /\ ChildrenOf(u, q) \ {p} \in SUBSET live
  BY DEF ChildrenOf, Visible
<1>2. live \subseteq Project
  BY DEF IInv, TypeOK
<1> QED
  BY <1>1, <1>2, FS_Subset, FS_CardinalityType

LEMMA PlaceIsInTheList ==
    ASSUME NEW n \in Nat, NEW position \in Nat
    PROVE  Place(position, n) \in Nat /\ Place(position, n) <= n
BY DEF Place

\* The project lands where it was asked for.
LEMMA MoveLands ==
    ASSUME IInv, IsFiniteSet(live), order \in [Project -> Nat], NEW u, NEW p \in live, NEW q,
           NEW position \in Nat
    PROVE  LET after == OrderAfterMove(u, p, q, position)
               rest  == ChildrenOf(u, q) \ {p}
           IN  Cardinality({y \in rest : Before(after, y, p)}) = Place(position, Cardinality(rest))
<1> DEFINE after == OrderAfterMove(u, p, q, position)
           rest  == ChildrenOf(u, q) \ {p}
           at    == Place(position, Cardinality(rest))
<1>1. p \in Project
  BY DEF IInv, TypeOK
<1>2. rest \in SUBSET Project /\ IsFiniteSet(rest) /\ Cardinality(rest) \in Nat
  BY ChildrenAreFinite
<1>3. at \in Nat /\ at <= Cardinality(rest)
  BY <1>2, PlaceIsInTheList
<1>4. after[p] = at
  BY <1>1 DEF OrderAfterMove
<1>5. ASSUME NEW y \in rest PROVE Before(after, y, p) <=> Rank(rest, y) < at
  <2>1. Rank(rest, y) \in Nat
    BY <1>2, RankIsAnIndex
  <2>2. after[y] = Rank(rest, y) + (IF Rank(rest, y) < at THEN 0 ELSE 1)
    BY <1>2 DEF OrderAfterMove
  <2> QED
    BY <1>3, <1>4, <2>1, <2>2 DEF Before
<1>6. {y \in rest : Before(after, y, p)} = {y \in rest : Rank(rest, y) < at}
  BY <1>5
<1>7. Cardinality({y \in rest : Rank(rest, y) < at}) = at
  BY <1>2, <1>3, RanksAreAllTheIndices
<1> QED
  BY <1>6, <1>7

\* The others stay in the order they were in.
LEMMA OthersStayInOrder ==
    ASSUME IInv, IsFiniteSet(live), order \in [Project -> Nat], NEW u, NEW p \in live, NEW q,
           NEW position \in Nat, NEW x \in Visible(u) \ {p}, NEW y \in Visible(u) \ {p},
           parent[x] = parent[y], Before(order, x, y)
    PROVE  Before(OrderAfterMove(u, p, q, position), x, y)
<1> DEFINE after == OrderAfterMove(u, p, q, position)
           next == ChildrenOf(u, q) \ {p}
           left == ChildrenOf(u, parent[p]) \ {p}
           at   == Place(position, Cardinality(next))
<1>1. x \in Project /\ y \in Project
  BY DEF IInv, TypeOK, Visible
<1>2. /\ next \in SUBSET Project
      /\ IsFiniteSet(next)
      /\ Cardinality(next) \in Nat
      /\ left \in SUBSET Project
      /\ IsFiniteSet(left)
  BY ChildrenAreFinite
<1>3. (x \in next <=> y \in next) /\ (x \in left <=> y \in left)
  BY DEF ChildrenOf
<1>4. CASE x \in next
  <2>1. /\ Rank(next, x) \in Nat
        /\ Rank(next, y) \in Nat
        /\ Rank(next, x) < Rank(next, y)
    BY <1>2, <1>3, <1>4, RankIsAnIndex, RankGrows
  <2>2. /\ after[x] = Rank(next, x) + (IF Rank(next, x) < at THEN 0 ELSE 1)
        /\ after[y] = Rank(next, y) + (IF Rank(next, y) < at THEN 0 ELSE 1)
    BY <1>1, <1>3, <1>4 DEF OrderAfterMove
  <2>3. at \in Nat
    BY <1>2, PlaceIsInTheList
  <2> QED
    BY <2>1, <2>2, <2>3 DEF Before
<1>5. CASE x \notin next /\ x \in left
  <2>1. /\ Rank(left, x) \in Nat
        /\ Rank(left, y) \in Nat
        /\ Rank(left, x) < Rank(left, y)
    BY <1>2, <1>3, <1>5, RankIsAnIndex, RankGrows
  <2>2. after[x] = Rank(left, x) /\ after[y] = Rank(left, y)
    BY <1>1, <1>3, <1>5 DEF OrderAfterMove
  <2> QED
    BY <2>1, <2>2 DEF Before
<1>6. CASE x \notin next /\ x \notin left
  <2>1. after[x] = order[x] /\ after[y] = order[y]
    BY <1>1, <1>3, <1>6 DEF OrderAfterMove
  <2> QED
    BY <2>1 DEF Before
<1> QED
  BY <1>4, <1>5, <1>6

LEMMA MoveGivesNumbers ==
    ASSUME IInv, IsFiniteSet(live), order \in [Project -> Nat], NEW u, NEW p, NEW q,
           NEW position \in Nat
    PROVE  OrderAfterMove(u, p, q, position) \in [Project -> Nat]
<1> DEFINE next == ChildrenOf(u, q) \ {p}
           left == ChildrenOf(u, parent[p]) \ {p}
           at   == Place(position, Cardinality(next))
<1>1. /\ next \in SUBSET Project
      /\ IsFiniteSet(next)
      /\ Cardinality(next) \in Nat
      /\ left \in SUBSET Project
      /\ IsFiniteSet(left)
  BY ChildrenAreFinite
<1>2. at \in Nat
  BY <1>1, PlaceIsInTheList
<1>3. (\A x \in next : Rank(next, x) \in Nat) /\ (\A x \in left : Rank(left, x) \in Nat)
  BY <1>1, RankIsAnIndex
<1>4. ASSUME NEW x \in Project PROVE OrderAfterMove(u, p, q, position)[x] \in Nat
  <2> HIDE DEF at
  <2>1. CASE x = p
    BY <1>2, <2>1 DEF OrderAfterMove, at
  <2>2. CASE x # p /\ x \in next
    BY <1>2, <1>3, <2>2 DEF OrderAfterMove, at
  <2>3. CASE x # p /\ x \notin next
    BY <1>3, <2>3 DEF OrderAfterMove
  <2> QED
    BY <2>1, <2>2, <2>3
<1> QED
  BY <1>4 DEF OrderAfterMove

------------------------------------------------------------------------------
(* The invariant: numbers in the column, and finitely many rows.            *)

OrderingInv == IInv /\ IsFiniteSet(live) /\ order \in [Project -> Nat]

LEMMA OrderingKeepsInv == OrderingInv /\ [OrderingNext]_orderingVars => OrderingInv'
<1> SUFFICES ASSUME OrderingInv, [OrderingNext]_orderingVars PROVE OrderingInv'
  OBVIOUS
<1>1. IInv'
  BY OrderedStepIsAStep, NextKeepsIInv DEF OrderingInv
<1>2. CASE UNCHANGED orderingVars
  BY <1>1, <1>2 DEF OrderingInv, orderingVars, projectVars, treeVars
<1>3. ASSUME NEW u \in User, NEW q \in live \cup {NoProject}, NEW p \in Project,
             OrderedCreate(u, q, p)
      PROVE  OrderingInv'
  <2>1. live' = live \cup {p} /\ order' = [order EXCEPT ![p] = Cardinality(ChildrenOf(u, q))]
    BY <1>3 DEF OrderedCreate, CreateProject
  <2>2. Cardinality(ChildrenOf(u, q)) \in Nat
    BY ChildrenAreFinite DEF OrderingInv
  <2> QED
    BY <1>1, <2>1, <2>2, FS_AddElement DEF OrderingInv
<1>4. ASSUME NEW u \in User, NEW p \in live, NEW q \in live \cup {NoProject},
             NEW n \in 0..MaxPosition, OrderedMove(u, p, q, n)
      PROVE  OrderingInv'
  <2>1. live' = live /\ order' = OrderAfterMove(u, p, q, n)
    BY <1>4 DEF OrderedMove, MoveProject
  <2>2. order' \in [Project -> Nat]
    BY <2>1, MoveGivesNumbers DEF OrderingInv
  <2> QED
    BY <1>1, <2>1, <2>2 DEF OrderingInv
<1>5. ASSUME NEW u \in User, NEW p \in live, OrderedDelete(u, p) PROVE OrderingInv'
  <2>1. live' = live \ {p} /\ order' = [order EXCEPT ![p] = 0]
    BY <1>5 DEF OrderedDelete, DeleteProject
  <2> QED
    BY <1>1, <2>1, FS_RemoveElement DEF OrderingInv
<1>6. ASSUME NEW u \in User, MembershipStep(u) PROVE OrderingInv'
  <2>1. live' = live /\ order' = order
    BY <1>6 DEF MembershipStep, AddMember, RemoveMember, ChangeRole, ChangeCapacity, AllowCreator,
                treeVars
  <2> QED
    BY <1>1, <2>1 DEF OrderingInv
<1> QED
  BY <1>2, <1>3, <1>4, <1>5, <1>6 DEF OrderingNext

\* Whoever moves whatever to whichever place: it lands there, and the others stay
\* in the order the mover saw, however many there are and whatever gaps and equal
\* sort_orders earlier requests left.
THEOREM MovesKeepTheOthersInOrder == OrderingSpec => []MoveKeepsTheOthersInOrder
<1>1. OrderingInit => OrderingInv
  BY InitIInv, FS_EmptySet DEF OrderingInit, OrderingInv, Init
<1>2. OrderingInv => MoveKeepsTheOthersInOrder
  <2> SUFFICES ASSUME OrderingInv PROVE MoveKeepsTheOthersInOrder
    OBVIOUS
  <2>1. OrderingTypeOK
    BY DEF OrderingInv, OrderingTypeOK, IInv
  <2>2. ASSUME NEW u \in User, NEW p \in live, NEW q \in live \cup {NoProject},
               NEW n \in 0..MaxPosition
        PROVE  LET after == OrderAfterMove(u, p, q, n)
                   rest  == ChildrenOf(u, q) \ {p}
               IN  /\ Cardinality({y \in rest : Before(after, y, p)}) = Place(n, Cardinality(rest))
                   /\ \A x, y \in Visible(u) \ {p} :
                         parent[x] = parent[y] /\ Before(order, x, y) => Before(after, x, y)
    <3>1. n \in Nat
      BY PositionAssumption
    <3>2. LET after == OrderAfterMove(u, p, q, n)
              rest  == ChildrenOf(u, q) \ {p}
          IN  Cardinality({y \in rest : Before(after, y, p)}) = Place(n, Cardinality(rest))
      BY <3>1, MoveLands DEF OrderingInv
    <3>3. \A x, y \in Visible(u) \ {p} :
              parent[x] = parent[y] /\ Before(order, x, y) => Before(OrderAfterMove(u, p, q, n), x, y)
      BY <3>1, OthersStayInOrder DEF OrderingInv
    <3> QED
      BY <3>2, <3>3
  <2> QED
    BY <2>1, <2>2 DEF MoveKeepsTheOthersInOrder
<1> QED
  BY <1>1, <1>2, OrderingKeepsInv, PTL DEF OrderingSpec

------------------------------------------------------------------------------
(* Handlers that read first and write later.                                *)

\* No two threads serve a request at the same time.
OneAtATime ==
    \A s, t \in Slot : request[s] # Idle /\ request[t] # Idle => s = t

\* A member row that add_member, change_role or change_capacity is about to save.
SavePassed(read) ==
    \/ \E u \in User, p \in live, v \in User, r \in Role :
          /\ read = [op |-> "save", p |-> TopOf(u, p), v |-> v, r |-> r, c |-> DefaultCapacity]
          /\ MayAddMember(u, p, v)
    \/ \E u \in User, p \in live, v \in User, r \in Role :
          /\ read = [op |-> "save", p |-> TopOf(u, p), v |-> v, r |-> r,
                     c |-> capacity[TopOf(u, p)][v]]
          /\ MayChangeRole(u, p, v, r)
    \/ \E u \in User, p \in live, v \in User, c \in Capacity :
          /\ read = [op |-> "save", p |-> TopOf(u, p), v |-> v,
                     r |-> role[TopOf(u, p)][v], c |-> c]
          /\ MayChangeCapacity(u, p, v)

CreatePassed(read) ==
    \E u \in User, q \in live \cup {NoProject} :
        read = [op |-> "create", u |-> u, q |-> q] /\ MayCreate(u, q)

MovePassed(read) ==
    \E u \in User, p \in live, q \in live \cup {NoProject} :
        /\ read = [op |-> "move", p |-> p, q |-> q, old |-> parent[p],
                   rows |-> role[TopOf(u, p)], hours |-> capacity[TopOf(u, p)]]
        /\ MayMove(u, p, q)

DeletePassed(read) ==
    \E u \in User, p \in live : read = [op |-> "delete", p |-> p] /\ MayDelete(u, p)

RemovePassed(read) ==
    \E u \in User, p \in live, v \in User :
        /\ read = [op |-> "remove", p |-> TopOf(u, p), v |-> v]
        /\ MayRemoveMember(u, p, v)

AllowPassed(read) ==
    \E u \in User, allowed \in BOOLEAN : read = [op |-> "allow", u |-> u, allowed |-> allowed]

\* What a thread has read, and the checks it has passed on the tables as they
\* are now.
Passed(read) ==
    \/ CreatePassed(read) \/ MovePassed(read) \/ DeletePassed(read)
    \/ SavePassed(read) \/ RemovePassed(read) \/ AllowPassed(read)

\* A thread that serves a request has passed its checks.
ChecksHold == \A s \in Slot : request[s] # Idle => Passed(request[s])

\* Somebody without a row has no hours on file.
HoursWithRows ==
    \A p \in Project, u \in User : role[p][u] = "none" => capacity[p][u] = DefaultCapacity

RequestInv ==
    /\ IInv
    /\ HoursWithRows
    /\ DOMAIN request = Slot
    /\ ChecksHold

\* The kind of a request tells which checks it has passed.
LEMMA PassedByKind ==
    ASSUME NEW read, Passed(read)
    PROVE  /\ read.op = "create" => CreatePassed(read)
           /\ read.op = "move" => MovePassed(read)
           /\ read.op = "delete" => DeletePassed(read)
           /\ read.op = "save" => SavePassed(read)
           /\ read.op = "remove" => RemovePassed(read)
           /\ read.op = "allow" => AllowPassed(read)
<1>1. CreatePassed(read) => read.op = "create"
  BY DEF CreatePassed
<1>2. MovePassed(read) => read.op = "move"
  BY DEF MovePassed
<1>3. DeletePassed(read) => read.op = "delete"
  BY DEF DeletePassed
<1>4. SavePassed(read) => read.op = "save"
  BY DEF SavePassed
<1>5. RemovePassed(read) => read.op = "remove"
  BY DEF RemovePassed
<1>6. AllowPassed(read) => read.op = "allow"
  BY DEF AllowPassed
<1> QED
  BY <1>1, <1>2, <1>3, <1>4, <1>5, <1>6 DEF Passed

------------------------------------------------------------------------------
(* Reading changes nothing that anybody has read.                           *)

LEMMA SameSight ==
    ASSUME UNCHANGED projectVars
    PROVE  \A u, p : Visible(u)' = Visible(u) /\ TopOf(u, p)' = TopOf(u, p)
<1>1. \A u : Visible(u)' = Visible(u)
  BY DEF projectVars, treeVars, memberVars, Visible, AncestorsOrSelf, ClosedUpwards
<1> QED
  BY <1>1 DEF projectVars, treeVars, memberVars, TopOf

LEMMA SameChecks ==
    ASSUME UNCHANGED projectVars, NEW read, Passed(read)
    PROVE  Passed(read)'
<1> USE SameSight DEF projectVars, treeVars, memberVars
<1>1. /\ live' = live
      /\ parent' = parent
      /\ role' = role
      /\ capacity' = capacity
      /\ creators' = creators
  OBVIOUS
<1>2. \A u, q : MayCreate(u, q)' = MayCreate(u, q)
  BY <1>1 DEF MayCreate
<1>3. \A u, p, q : MayMove(u, p, q)' = MayMove(u, p, q)
  BY <1>1 DEF MayMove, WouldCycle, MayCross, IsManager
<1>4. \A u, p : MayDelete(u, p)' = MayDelete(u, p)
  BY <1>1 DEF MayDelete, IsManager
<1>5. \A u, p, v : MayAddMember(u, p, v)' = MayAddMember(u, p, v)
  BY <1>1 DEF MayAddMember, IsManager
<1>6. \A u, p, v, r : MayChangeRole(u, p, v, r)' = MayChangeRole(u, p, v, r)
  BY <1>1 DEF MayChangeRole, AnotherManager, IsManager
<1>7. \A u, p, v : MayRemoveMember(u, p, v)' = MayRemoveMember(u, p, v)
  BY <1>1 DEF MayRemoveMember, AnotherManager, IsManager
<1>8. \A u, p, v : MayChangeCapacity(u, p, v)' = MayChangeCapacity(u, p, v)
  BY <1>1 DEF MayChangeCapacity, IsManager
<1>9. SavePassed(read)' = SavePassed(read)
  BY <1>1, <1>5, <1>6, <1>8 DEF SavePassed
<1> QED
  BY <1>1, <1>2, <1>3, <1>4, <1>7, <1>9
     DEF Passed, CreatePassed, MovePassed, DeletePassed, RemovePassed, AllowPassed

LEMMA SameHours ==
    ASSUME HoursWithRows, UNCHANGED projectVars
    PROVE  HoursWithRows'
BY DEF HoursWithRows, projectVars, memberVars

\* A check leaves the tables alone, and what it remembers has passed.
LEMMA CheckPasses ==
    ASSUME NEW s \in Slot, NEW u \in User, CheckStep(s, u)
    PROVE  /\ UNCHANGED projectVars
           /\ \E read : Passed(read) /\ request' = [request EXCEPT ![s] = read]
<1>1. CASE \E q \in live \cup {NoProject} : CheckCreate(s, u, q)
  BY <1>1 DEF CheckCreate, Begin, Passed, CreatePassed
<1>2. CASE \E p \in live, q \in live \cup {NoProject} : CheckMove(s, u, p, q)
  BY <1>2 DEF CheckMove, Begin, Passed, MovePassed
<1>3. CASE \E p \in live : CheckDelete(s, u, p)
  BY <1>3 DEF CheckDelete, Begin, Passed, DeletePassed
<1>4. CASE \E p \in live, v \in User, r \in Role : CheckAddMember(s, u, p, v, r)
  BY <1>4 DEF CheckAddMember, Begin, Passed, SavePassed
<1>5. CASE \E p \in live, v \in User, r \in Role : CheckChangeRole(s, u, p, v, r)
  BY <1>5 DEF CheckChangeRole, Begin, Passed, SavePassed
<1>6. CASE \E p \in live, v \in User : CheckRemoveMember(s, u, p, v)
  BY <1>6 DEF CheckRemoveMember, Begin, Passed, RemovePassed
<1>7. CASE \E allowed \in BOOLEAN : CheckAllow(s, u, allowed)
  BY <1>7 DEF CheckAllow, Begin, Passed, AllowPassed
<1>8. CASE \E p \in live, v \in User, c \in Capacity : CheckChangeCapacity(s, u, p, v, c)
  BY <1>8 DEF CheckChangeCapacity, Begin, Passed, SavePassed
<1> QED
  BY <1>1, <1>2, <1>3, <1>4, <1>5, <1>6, <1>7, <1>8 DEF CheckStep

------------------------------------------------------------------------------
(* Each write is the handler that its check belongs to.                     *)

LEMMA CreateWrites ==
    ASSUME RequestInv, NEW s \in Slot, NEW p \in Project, WriteCreate(s, p)
    PROVE  Next
<1>1. request[s] # Idle /\ request[s].op = "create"
  BY DEF WriteCreate, Finish
<1>2. PICK u \in User, q \in live \cup {NoProject} :
          request[s] = [op |-> "create", u |-> u, q |-> q] /\ MayCreate(u, q)
  BY <1>1, PassedByKind DEF RequestInv, ChecksHold, CreatePassed
<1>3. CreateProject(u, q, p)
  BY <1>2 DEF WriteCreate, CreateProject
<1> QED
  BY <1>3 DEF Next, ActsAs

LEMMA MoveWrites ==
    ASSUME RequestInv, NEW s \in Slot, WriteMove(s)
    PROVE  Next
<1>1. request[s] # Idle /\ request[s].op = "move"
  BY DEF WriteMove, Finish
<1>2. PICK u \in User, p \in live, q \in live \cup {NoProject} :
          /\ request[s] = [op |-> "move", p |-> p, q |-> q, old |-> parent[p],
                           rows |-> role[TopOf(u, p)], hours |-> capacity[TopOf(u, p)]]
          /\ MayMove(u, p, q)
  BY <1>1, PassedByKind DEF RequestInv, ChecksHold, MovePassed
<1> DEFINE t == request[s]
           top == TopOf(u, p)
<1>3. /\ t.p = p
      /\ t.q = q
      /\ t.old = parent[p]
      /\ t.rows = role[top]
      /\ t.hours = capacity[top]
  BY <1>2
<1>4. /\ p \in Project
      /\ top \in Project
      /\ parent \in [Project -> Project \cup {NoProject}]
      /\ role \in [Project -> [User -> Role \cup {"none"}]]
      /\ capacity \in [Project -> [User -> Capacity]]
  BY <1>2, TopIsRoot DEF RequestInv, IInv, TypeOK, MayMove
<1>5. parent' = [parent EXCEPT ![p] = q]
  BY <1>3, <1>4 DEF WriteMove
<1>6. ASSUME parent[p] # NoProject, NEW v \in User, role[top][v] = "none"
      PROVE  role[p][v] = "none" /\ capacity[p][v] = capacity[top][v]
  <2>1. role[p][v] = "none"
    BY <1>4, <1>6 DEF RequestInv, IInv, MembersOnRoots
  <2> QED
    BY <1>4, <1>6, <2>1 DEF RequestInv, HoursWithRows
<1>7. MovedRows(t, role, t.rows, "none") = RowsAfterMove(role, u, p, q, "none")
  <2>1. ASSUME parent[p] # NoProject
        PROVE  [v \in User |-> IF t.rows[v] = "none" THEN role[t.p][v] ELSE t.rows[v]] = role[top]
    BY <1>3, <1>4, <1>6, <2>1
  <2> QED
    BY <1>3, <2>1 DEF MovedRows, RowsAfterMove
<1>8. MovedRows(t, capacity, t.hours, DefaultCapacity)
          = RowsAfterMove(capacity, u, p, q, DefaultCapacity)
  <2>1. ASSUME parent[p] # NoProject
        PROVE  [v \in User |-> IF t.rows[v] = "none" THEN capacity[t.p][v] ELSE t.hours[v]]
                   = capacity[top]
    BY <1>3, <1>4, <1>6, <2>1
  <2> QED
    BY <1>3, <2>1 DEF MovedRows, RowsAfterMove
<1>9. MoveProject(u, p, q)
  BY <1>2, <1>5, <1>7, <1>8 DEF WriteMove, MoveProject
<1> QED
  BY <1>9 DEF Next, ActsAs

LEMMA DeleteWrites ==
    ASSUME RequestInv, NEW s \in Slot, WriteDelete(s)
    PROVE  Next
<1>1. request[s] # Idle /\ request[s].op = "delete"
  BY DEF WriteDelete, Finish
<1>2. PICK u \in User, p \in live : request[s] = [op |-> "delete", p |-> p] /\ MayDelete(u, p)
  BY <1>1, PassedByKind DEF RequestInv, ChecksHold, DeletePassed
<1>3. DeleteProject(u, p)
  BY <1>2 DEF WriteDelete, DeleteProject
<1> QED
  BY <1>3 DEF Next, ActsAs

\* A saved member row is the row of add_member, change_role or change_capacity.
LEMMA MemberWrites ==
    ASSUME RequestInv, NEW s \in Slot, WriteMember(s)
    PROVE  Next
<1>1. request[s] # Idle /\ request[s].op = "save" /\ Passed(request[s])
  BY DEF WriteMember, Finish, RequestInv, ChecksHold
<1>2. /\ role' = [role EXCEPT ![request[s].p][request[s].v] = request[s].r]
      /\ capacity' = [capacity EXCEPT ![request[s].p][request[s].v] = request[s].c]
      /\ UNCHANGED <<treeVars, creators>>
  BY DEF WriteMember
<1>3. /\ role \in [Project -> [User -> Role \cup {"none"}]]
      /\ capacity \in [Project -> [User -> Capacity]]
  BY DEF RequestInv, IInv, TypeOK
<1>4. ASSUME NEW u \in User, NEW p \in live, NEW v \in User, NEW r \in Role,
             request[s] = [op |-> "save", p |-> TopOf(u, p), v |-> v, r |-> r, c |-> DefaultCapacity],
             MayAddMember(u, p, v)
      PROVE  Next
  <2>1. AddMember(u, p, v, r)
    BY <1>2, <1>4 DEF AddMember
  <2> QED
    BY <2>1 DEF Next, ActsAs
<1>5. ASSUME NEW u \in User, NEW p \in live, NEW v \in User, NEW r \in Role,
             request[s] = [op |-> "save", p |-> TopOf(u, p), v |-> v, r |-> r,
                           c |-> capacity[TopOf(u, p)][v]],
             MayChangeRole(u, p, v, r)
      PROVE  Next
  <2>1. TopOf(u, p) \in Project
    BY <1>5, TopIsRoot DEF RequestInv, IInv, TypeOK, MayChangeRole
  <2>2. capacity' = [capacity EXCEPT ![TopOf(u, p)][v] = capacity[TopOf(u, p)][v]]
    BY <1>2, <1>5
  <2>3. capacity' = capacity
    BY <1>3, <2>1, <2>2
  <2>4. ChangeRole(u, p, v, r)
    BY <1>2, <1>5, <2>3 DEF ChangeRole
  <2> QED
    BY <2>4 DEF Next, ActsAs
<1>6. ASSUME NEW u \in User, NEW p \in live, NEW v \in User, NEW c \in Capacity,
             request[s] = [op |-> "save", p |-> TopOf(u, p), v |-> v,
                           r |-> role[TopOf(u, p)][v], c |-> c],
             MayChangeCapacity(u, p, v)
      PROVE  Next
  <2>1. TopOf(u, p) \in Project
    BY <1>6, TopIsRoot DEF RequestInv, IInv, TypeOK, MayChangeCapacity
  <2>2. role' = [role EXCEPT ![TopOf(u, p)][v] = role[TopOf(u, p)][v]]
    BY <1>2, <1>6
  <2>3. role' = role
    BY <1>3, <2>1, <2>2
  <2>4. ChangeCapacity(u, p, v, c)
    BY <1>2, <1>6, <2>3 DEF ChangeCapacity
  <2> QED
    BY <2>4 DEF Next, ActsAs
<1>7. SavePassed(request[s])
  BY <1>1, PassedByKind
<1> QED
  BY <1>4, <1>5, <1>6, <1>7 DEF SavePassed

LEMMA RemoveMemberWrites ==
    ASSUME RequestInv, NEW s \in Slot, WriteRemoveMember(s)
    PROVE  Next
<1>1. request[s] # Idle /\ request[s].op = "remove"
  BY DEF WriteRemoveMember, Finish
<1>2. PICK u \in User, p \in live, v \in User :
          /\ request[s] = [op |-> "remove", p |-> TopOf(u, p), v |-> v]
          /\ MayRemoveMember(u, p, v)
  BY <1>1, PassedByKind DEF RequestInv, ChecksHold, RemovePassed
<1>3. RemoveMember(u, p, v)
  BY <1>2 DEF WriteRemoveMember, RemoveMember
<1> QED
  BY <1>3 DEF Next, ActsAs

LEMMA AllowWrites ==
    ASSUME RequestInv, NEW s \in Slot, WriteAllow(s)
    PROVE  Next
<1>1. request[s] # Idle /\ request[s].op = "allow"
  BY DEF WriteAllow, Finish
<1>2. PICK u \in User, allowed \in BOOLEAN :
          request[s] = [op |-> "allow", u |-> u, allowed |-> allowed]
  BY <1>1, PassedByKind DEF RequestInv, ChecksHold, AllowPassed
<1>3. AllowCreator(u, allowed)
  BY <1>2 DEF WriteAllow
<1> QED
  BY <1>3 DEF Next

LEMMA WritesAreHandlers ==
    ASSUME RequestInv, NEW s \in Slot, WriteStep(s)
    PROVE  Next
BY CreateWrites, MoveWrites, DeleteWrites, MemberWrites, RemoveMemberWrites, AllowWrites DEF WriteStep

\* A write ends the request of its thread and of no other.
LEMMA WriteEnds ==
    ASSUME NEW s \in Slot, WriteStep(s)
    PROVE  request[s] # Idle /\ request' = [request EXCEPT ![s] = Idle]
BY DEF WriteStep, WriteCreate, WriteMove, WriteDelete, WriteMember,
       WriteRemoveMember, WriteAllow, Finish

------------------------------------------------------------------------------
(* Hours are kept with the member rows by every handler.                    *)

LEMMA NextKeepsHours ==
    ASSUME IInv, HoursWithRows, Next
    PROVE  HoursWithRows'
<1> USE DEF HoursWithRows
<1>1. /\ live \subseteq Project
      /\ role \in [Project -> [User -> Role \cup {"none"}]]
      /\ capacity \in [Project -> [User -> Capacity]]
  BY DEF IInv, TypeOK
<1>2. ASSUME NEW u \in User, NEW q \in live \cup {NoProject}, NEW p \in Project,
             CreateProject(u, q, p)
      PROVE  HoursWithRows'
  <2>1. \A x \in Project, v \in User : role'[x][v] = "none" => role[x][v] = "none"
    BY <1>1, <1>2 DEF CreateProject
  <2> QED
    BY <1>2, <2>1 DEF CreateProject
<1>3. ASSUME NEW u \in User, NEW p \in live, NEW q \in live \cup {NoProject}, MoveProject(u, p, q)
      PROVE  HoursWithRows'
  <2>1. p \in Project /\ TopOf(u, p) \in Project
    BY <1>1, <1>3, TopIsRoot DEF MoveProject, MayMove
  <2> QED
    BY <1>1, <1>3, <2>1 DEF MoveProject, RowsAfterMove
<1>4. ASSUME NEW u \in User, NEW p \in live, DeleteProject(u, p)
      PROVE  HoursWithRows'
  BY <1>1, <1>4 DEF DeleteProject
<1>5. ASSUME NEW u \in User, NEW p \in live, NEW v \in User, NEW r \in Role, ChangeRole(u, p, v, r)
      PROVE  HoursWithRows'
  <2>1. \A x \in Project, w \in User : role'[x][w] = "none" => role[x][w] = "none"
    BY <1>1, <1>5 DEF ChangeRole, Role
  <2> QED
    BY <1>5, <2>1 DEF ChangeRole
<1>6. ASSUME NEW u \in User, NEW p \in live, NEW v \in User, NEW r \in Role, AddMember(u, p, v, r)
      PROVE  HoursWithRows'
  <2>1. CASE ChangeRole(u, p, v, r)
    BY <1>5, <2>1
  <2>2. CASE /\ role' = [role EXCEPT ![TopOf(u, p)][v] = r]
             /\ capacity' = [capacity EXCEPT ![TopOf(u, p)][v] = DefaultCapacity]
    BY <1>1, <2>2 DEF Role
  <2> QED
    BY <1>6, <2>1, <2>2 DEF AddMember
<1>7. ASSUME NEW u \in User, NEW p \in live, NEW v \in User, NEW c \in Capacity,
             ChangeCapacity(u, p, v, c)
      PROVE  HoursWithRows'
  BY <1>1, <1>7 DEF ChangeCapacity, MayChangeCapacity
<1>8. ASSUME NEW u \in User, NEW p \in live, NEW v \in User, RemoveMember(u, p, v)
      PROVE  HoursWithRows'
  BY <1>1, <1>8 DEF RemoveMember
<1>9. ASSUME NEW u \in User, NEW allowed \in BOOLEAN, AllowCreator(u, allowed)
      PROVE  HoursWithRows'
  BY <1>9 DEF AllowCreator, memberVars
<1> QED
  BY <1>2, <1>3, <1>4, <1>5, <1>6, <1>7, <1>8, <1>9 DEF Next, ActsAs

------------------------------------------------------------------------------
(* The invariant, and the steps of requests as steps of Projects.           *)

LEMMA RequestStepIsAStep ==
    ASSUME RequestInv, [RequestNext]_requestVars
    PROVE  [Next]_projectVars
<1>1. CASE UNCHANGED requestVars
  BY <1>1 DEF requestVars
<1>2. ASSUME NEW s \in Slot, NEW u \in User, CheckStep(s, u) PROVE UNCHANGED projectVars
  BY <1>2, CheckPasses
<1>3. ASSUME NEW s \in Slot, WriteStep(s) PROVE Next
  BY <1>3, WritesAreHandlers
<1>4. ASSUME NEW s \in Slot, Fail(s) PROVE UNCHANGED projectVars
  BY <1>4 DEF Fail
<1> QED
  BY <1>1, <1>2, <1>3, <1>4 DEF RequestNext

LEMMA RequestsKeepTheInvariant ==
    RequestInv /\ OneAtATime /\ [RequestNext]_requestVars => RequestInv'
<1> SUFFICES ASSUME RequestInv, OneAtATime, [RequestNext]_requestVars PROVE RequestInv'
  OBVIOUS
<1>1. [Next]_projectVars
  BY RequestStepIsAStep
<1>2. IInv'
  BY <1>1, NextKeepsIInv DEF RequestInv
<1>3. HoursWithRows'
  BY <1>1, NextKeepsHours, SameHours DEF RequestInv
<1>4. CASE UNCHANGED requestVars
  BY <1>2, <1>3, <1>4, SameChecks DEF requestVars, RequestInv, ChecksHold
<1>5. ASSUME NEW s \in Slot, NEW u \in User, CheckStep(s, u) PROVE RequestInv'
  <2>1. PICK read : Passed(read) /\ request' = [request EXCEPT ![s] = read]
    BY <1>5, CheckPasses
  <2>2. UNCHANGED projectVars
    BY <1>5, CheckPasses
  <2>3. DOMAIN request' = Slot
    BY <2>1 DEF RequestInv
  <2>4. ASSUME NEW t \in Slot, request'[t] # Idle
        PROVE  \E r : r = request'[t] /\ Passed(r)'
    <3>1. \E r : r = request'[t] /\ Passed(r)
      BY <2>1, <2>4 DEF RequestInv, ChecksHold
    <3> QED
      BY <2>2, <3>1, SameChecks
  <2> QED
    BY <1>2, <1>3, <2>3, <2>4 DEF RequestInv, ChecksHold
<1>6. ASSUME NEW s \in Slot, WriteStep(s) \/ Fail(s) PROVE RequestInv'
  <2>1. request[s] # Idle /\ request' = [request EXCEPT ![s] = Idle]
    BY <1>6, WriteEnds DEF Fail
  <2>2. DOMAIN request' = Slot
    BY <2>1 DEF RequestInv
  <2>3. \A t \in Slot : request'[t] = Idle
    BY <2>1 DEF RequestInv, OneAtATime
  <2> QED
    BY <1>2, <1>3, <2>2, <2>3 DEF RequestInv, ChecksHold
<1> QED
  BY <1>4, <1>5, <1>6 DEF RequestNext

LEMMA RequestInitIsGood == RequestInit => RequestInv
BY InitIInv DEF RequestInit, RequestInv, HoursWithRows, ChecksHold, Init

------------------------------------------------------------------------------
(* The theorems.                                                            *)

\* Whatever the number of threads: as long as no two requests run at the same
\* time, checking first and writing later does what the handlers of Projects do
\* in one step each.
THEOREM SerialRequestsImplementProjects ==
    RequestSpec /\ []OneAtATime => ImplementsProjects
<1>1. RequestInit => Init
  BY DEF RequestInit
<1>2. RequestInv /\ [RequestNext]_requestVars => [Next]_projectVars
  BY RequestStepIsAStep
<1> QED
  BY <1>1, <1>2, RequestInitIsGood, RequestsKeepTheInvariant, PTL
     DEF RequestSpec, ImplementsProjects, Spec

\* Requests one at a time keep the projects a forest, every root with a manager
\* and the member rows on roots, and let nobody in by themselves.
THEOREM SerialRequestsAreSafe ==
    RequestSpec /\ []OneAtATime =>
        /\ [](IsForest /\ MembersOnRoots /\ RootHasManager)
        /\ NobodyPromotesThemselves
BY SerialRequestsImplementProjects, ProjectsStayAForest, MembersStayOnRoots, RootsKeepAManager,
   NobodyLetsThemselvesIn, PTL DEF ImplementsProjects

------------------------------------------------------------------------------
(* Chains of a forest.                                                      *)

\* Two projects that are each above the other are the same.
LEMMA AncestorsAntisymmetric ==
    ASSUME NEW par, NEW known, NoParentCycle(par, known), NEW a \in known, NEW b \in known,
           a \in AncestorsOrSelf(par, known, b), b \in AncestorsOrSelf(par, known, a)
    PROVE  a = b
<1> SUFFICES ASSUME a # b PROVE FALSE
  OBVIOUS
<1> DEFINE chain(y) == AncestorsOrSelf(par, known, y)
           C == {y \in known : a \in chain(y) /\ b \in chain(y)}
<1>1. a \in C
  BY AncestorsHoldSelf
<1>2. ASSUME NEW y \in C PROVE par[y] \in C
  <2>1. par[y] \in known
    BY TopStandsAlone
  <2>2. chain(y) \subseteq {y} \cup chain(par[y])
    BY <2>1, AncestorsStep
  <2>3. \A z \in chain(par[y]) : chain(z) \subseteq chain(par[y])
    BY <2>1, AncestorsNest
  <2>4. chain(par[y]) \subseteq known /\ chain(a) \subseteq known
    BY DEF AncestorsOrSelf
  <2> HIDE DEF chain
  <2>5. a \in chain(par[y]) /\ b \in chain(par[y])
    BY <2>2, <2>3 DEF chain
  <2> QED
    BY <2>1, <2>5
<1> QED
  BY <1>1, <1>2 DEF NoParentCycle

\* A chain through p is what is left of it when p's branch is cut off, and the
\* chain of p.
LEMMA ChainSplits ==
    ASSUME NEW par, NEW known, NEW p \in known, NEW e, NEW x \in known, known \subseteq DOMAIN par
    PROVE  AncestorsOrSelf(par, known, x) \subseteq
               AncestorsOrSelf([par EXCEPT ![p] = e], known, x) \cup AncestorsOrSelf(par, known, p)
<1> DEFINE cut == [par EXCEPT ![p] = e]
           A == AncestorsOrSelf(cut, known, x)
           C == AncestorsOrSelf(par, known, p)
<1>1. \A y \in known : y # p => cut[y] = par[y]
  OBVIOUS
<1>2. A \subseteq known /\ C \subseteq known
  BY DEF AncestorsOrSelf
<1> HIDE DEF cut
<1>3. A \cup C \in SUBSET known /\ x \in A \cup C
  BY <1>2, AncestorsHoldSelf
<1>4. ASSUME NEW y \in A \cup C, par[y] \in known PROVE par[y] \in A \cup C
  <2>1. CASE y \in C
    BY <1>4, <2>1, AncestorsClosed DEF ClosedUpwards
  <2>2. CASE y \in A /\ y \notin C
    <3>1. y # p /\ y \in known
      BY <1>2, <2>2, AncestorsHoldSelf
    <3>2. cut[y] = par[y]
      BY <1>1, <3>1
    <3> QED
      BY <1>4, <2>2, <3>2, AncestorsClosed DEF ClosedUpwards
  <2> QED
    BY <2>1, <2>2
<1>5. ClosedUpwards(par, known, A \cup C)
  BY <1>4 DEF ClosedUpwards
<1>6. AncestorsOrSelf(par, known, x) \subseteq A \cup C
  <2> HIDE DEF A, C
  <2> QED
    BY <1>3, <1>5, AncestorsLeast
<1> QED
  BY <1>6 DEF cut

\* Cutting the branch of p off: a chain through p ends at p.
LEMMA ChainAfterCut ==
    ASSUME NEW par, NEW known, NEW p \in known, NEW e, e \notin known, NEW x \in known,
           known \subseteq DOMAIN par, NoParentCycle(par, known),
           p \in AncestorsOrSelf(par, known, x)
    PROVE  AncestorsOrSelf([par EXCEPT ![p] = e], known, x) =
               {y \in AncestorsOrSelf(par, known, x) : p \in AncestorsOrSelf(par, known, y)}
<1> DEFINE cut == [par EXCEPT ![p] = e]
           chain(y) == AncestorsOrSelf(par, known, y)
           B == {y \in chain(x) : p \in chain(y)}
           A == AncestorsOrSelf(cut, known, x)
<1>1. cut[p] = e /\ \A y \in known : y # p => cut[y] = par[y]
  OBVIOUS
<1>2. chain(x) \subseteq known /\ chain(p) \subseteq known /\ A \subseteq known
  BY DEF AncestorsOrSelf
<1> HIDE DEF cut
<1>3. A \subseteq B
  <2>1. B \in SUBSET known /\ x \in B
    BY <1>2, AncestorsHoldSelf
  <2>2. ASSUME NEW y \in B, cut[y] \in known PROVE cut[y] \in B
    <3>1. y # p /\ cut[y] = par[y] /\ y \in known
      BY <1>1, <1>2, <2>2
    <3>2. par[y] \in chain(x)
      BY <2>2, <3>1, AncestorsClosed DEF ClosedUpwards
    <3>3. chain(y) \subseteq {y} \cup chain(par[y])
      BY <2>2, <3>1, AncestorsStep
    <3> QED
      BY <3>1, <3>2, <3>3
  <2>3. ClosedUpwards(cut, known, B)
    BY <2>2 DEF ClosedUpwards
  <2> HIDE DEF B
  <2> QED
    BY <2>1, <2>3, AncestorsLeast
<1>4. p \in A
  BY OnBranch DEF cut
<1>5. chain(x) \subseteq A \cup chain(p)
  BY ChainSplits DEF cut
<1>6. B \subseteq A
  BY <1>2, <1>4, <1>5, AncestorsAntisymmetric
<1> QED
  BY <1>3, <1>6 DEF cut

------------------------------------------------------------------------------
(* layer_calendar_days, for the projects W that say something about a day   *)
(* and those of them, in O, that call it a day off.                         *)

Sayers(par, known, W, p) == AncestorsOrSelf(par, known, p) \cap W

Mark(par, known, W, O, p) ==
    LET says == Sayers(par, known, W, p)
    IN  IF says = {} THEN "plain"
        ELSE IF (CHOOSE a \in says : says \subseteq AncestorsOrSelf(par, known, a)) \in O
             THEN "off" ELSE "extra"

Speaks(d)   == {a \in Project : d \in off[a] \cup extra[a]}
SpeaksOff(d) == {a \in Project : d \in off[a]}

\* Among those of a chain who say something one is nearest.
LEMMA SomeoneIsNearest ==
    ASSUME NEW par, NEW known, NoParentCycle(par, known), NEW W, NEW p \in known,
           Sayers(par, known, W, p) # {}
    PROVE  \E a \in Sayers(par, known, W, p) :
               Sayers(par, known, W, p) \subseteq AncestorsOrSelf(par, known, a)
<1> DEFINE chain(y) == AncestorsOrSelf(par, known, y)
           says == Sayers(par, known, W, p)
           T == {y \in known : says \subseteq chain(y) /\ y \in chain(p)}
<1>1. says \subseteq chain(p)
  BY DEF Sayers
<1>2. p \in T
  BY <1>1, AncestorsHoldSelf
<1>3. PICK y \in T : par[y] \notin T
  <2> HIDE DEF T
  <2>1. T \in SUBSET known /\ T # {}
    BY <1>2 DEF T
  <2> QED
    BY <2>1 DEF NoParentCycle
<1>4. y \in says
  <2> SUFFICES ASSUME y \notin says PROVE FALSE
    OBVIOUS
  <2>1. par[y] \in known
    <3> SUFFICES ASSUME par[y] \notin known PROVE FALSE
      OBVIOUS
    <3>1. chain(y) = {y}
      BY TopStandsAlone
    <3> QED
      BY <3>1
  <2>2. chain(y) \subseteq {y} \cup chain(par[y])
    BY <2>1, AncestorsStep
  <2>3. par[y] \in chain(p)
    BY <2>1, AncestorsClosed DEF ClosedUpwards
  <2> HIDE DEF says, chain
  <2> QED
    BY <1>3, <2>1, <2>2, <2>3
<1> QED
  BY <1>3, <1>4

\* DayMark is the mark of those who speak.
LEMMA DayMarkIsMark ==
    ASSUME NEW known, known \subseteq Project, NEW p, NEW d, NoParentCycle(parent, known)
    PROVE  DayMark(known, p, d) = Mark(parent, known, Speaks(d), SpeaksOff(d), p)
<1> DEFINE says == {a \in AncestorsOrSelf(parent, known, p) : d \in off[a] \cup extra[a]}
           n == CHOOSE a \in says : says \subseteq AncestorsOrSelf(parent, known, a)
<1>1. says = Sayers(parent, known, Speaks(d), p) /\ says \subseteq Project
  BY DEF Sayers, Speaks, AncestorsOrSelf
<1>2. DayMark(known, p, d) = IF says = {} THEN "plain" ELSE IF d \in off[n] THEN "off" ELSE "extra"
  BY DEF DayMark
<1>3. Mark(parent, known, Speaks(d), SpeaksOff(d), p) =
         IF says = {} THEN "plain" ELSE IF n \in SpeaksOff(d) THEN "off" ELSE "extra"
  BY <1>1 DEF Mark
<1>4. says # {} => n \in says
  <2> SUFFICES ASSUME says # {} PROVE n \in says
    OBVIOUS
  <2>1. p \in known
    BY DEF AncestorsOrSelf
  <2>2. \E a \in says : says \subseteq AncestorsOrSelf(parent, known, a)
    <3> HIDE DEF says
    <3> QED
      BY <1>1, <2>1, SomeoneIsNearest
  <2> HIDE DEF says
  <2> QED
    BY <2>2
<1> HIDE DEF says, n
<1> QED
  BY <1>1, <1>2, <1>3, <1>4 DEF SpeaksOff

\* The same for the stored tables, before a step and after it.
MarksAreThose ==
    live \subseteq Project /\ NoParentCycle(parent, live) =>
        \A p, d : DayMark(live, p, d) = Mark(parent, live, Speaks(d), SpeaksOff(d), p)

LEMMA MarksAsStored == MarksAreThose /\ MarksAreThose'
<1>1. MarksAreThose
  BY DayMarkIsMark DEF MarksAreThose
<1> QED
  BY <1>1, PTL

\* The nearest is found.
LEMMA NearestDecides ==
    ASSUME NEW par, NEW known, NoParentCycle(par, known), NEW W, NEW O, NEW p \in known,
           NEW n \in Sayers(par, known, W, p),
           Sayers(par, known, W, p) \subseteq AncestorsOrSelf(par, known, n)
    PROVE  Mark(par, known, W, O, p) = IF n \in O THEN "off" ELSE "extra"
<1> DEFINE says == Sayers(par, known, W, p)
           m == CHOOSE a \in says : says \subseteq AncestorsOrSelf(par, known, a)
<1>1. m \in says /\ says \subseteq AncestorsOrSelf(par, known, m)
  OBVIOUS
<1>2. says \subseteq known
  BY DEF Sayers, AncestorsOrSelf
<1> HIDE DEF m, says
<1>3. m \in known /\ n \in known /\ m \in AncestorsOrSelf(par, known, n)
      /\ n \in AncestorsOrSelf(par, known, m)
  BY <1>1, <1>2 DEF says
<1>4. m = n
  BY <1>3, AncestorsAntisymmetric
<1>5. Mark(par, known, W, O, p) = IF says = {} THEN "plain" ELSE IF m \in O THEN "off" ELSE "extra"
  BY DEF Mark, says, m
<1> QED
  BY <1>1, <1>4, <1>5

\* When the branch of p is cut off and p takes over the marks it inherited,
\* nobody of the branch sees a different mark.
LEMMA MarkAfterCut ==
    ASSUME NEW par, NEW known, NEW p \in known, NEW e, e \notin known, NEW x \in known,
           known \subseteq DOMAIN par, par[p] \in known,
           NoParentCycle(par, known), NoParentCycle([par EXCEPT ![p] = e], known),
           p \in AncestorsOrSelf(par, known, x),
           NEW W, NEW O, NEW W2, NEW O2,
           \A a \in known : a # p => (a \in W2 <=> a \in W) /\ (a \in O2 <=> a \in O),
           p \in W => p \in W2 /\ (p \in O2 <=> p \in O),
           p \notin W => /\ p \in W2 <=> Mark(par, known, W, O, par[p]) # "plain"
                         /\ p \in O2 <=> Mark(par, known, W, O, par[p]) = "off"
    PROVE  Mark([par EXCEPT ![p] = e], known, W2, O2, x) = Mark(par, known, W, O, x)
<1> DEFINE cut == [par EXCEPT ![p] = e]
           chain(y) == AncestorsOrSelf(par, known, y)
           chain2(y) == AncestorsOrSelf(cut, known, y)
           says == Sayers(par, known, W, x)
           says2 == Sayers(cut, known, W2, x)
           up == Sayers(par, known, W, par[p])
<1>1. \A y \in known : p \in chain(y) => chain2(y) = {z \in chain(y) : p \in chain(z)}
  BY ChainAfterCut
<1>2. /\ chain(x) \subseteq known /\ chain(p) \subseteq known /\ chain(par[p]) \subseteq known
      /\ chain(p) \subseteq {p} \cup chain(par[p])
      /\ p \in chain(p)
  BY AncestorsStep, AncestorsHoldSelf DEF AncestorsOrSelf
<1>3. \A y, z \in known : z \in chain(y) => chain(z) \subseteq chain(y)
  BY AncestorsNest
<1>4. par[p] \in chain(p)
  BY AncestorsClosed, <1>2 DEF ClosedUpwards
<1>5. \A y \in chain(x) : p \in chain(y) \/ y \in chain(par[p])
  <2> SUFFICES ASSUME NEW y \in chain(x), p \notin chain(y) PROVE y \in chain(par[p])
    OBVIOUS
  <2>1. chain(x) \subseteq chain2(x) \cup chain(p)
    BY ChainSplits
  <2>2. chain2(x) = {z \in chain(x) : p \in chain(z)}
    BY <1>1
  <2> HIDE DEF chain, chain2
  <2> QED
    BY <1>2, <2>1, <2>2
<1>6. says = chain(x) \cap W /\ says2 = chain2(x) \cap W2 /\ up = chain(par[p]) \cap W
  BY DEF Sayers
<1>7. chain2(x) = {z \in chain(x) : p \in chain(z)}
  BY <1>1
<1>8. CASE \E a \in says : p \in chain(a)
  <2>1. PICK n \in says : says \subseteq chain(n)
    BY <1>8, SomeoneIsNearest
  <2>2. p \in chain(n) /\ n \in known
    <3> HIDE DEF chain, says
    <3> QED
      BY <1>2, <1>3, <1>6, <1>8, <2>1
  <2>3. chain2(n) = {z \in chain(n) : p \in chain(z)}
    BY <1>1, <2>2
  <2> HIDE DEF chain, chain2, says, says2, cut
  <2>4. n \in says2
    BY <1>2, <1>6, <1>7, <2>1, <2>2
  <2>5. says2 \subseteq chain2(n)
    BY <1>2, <1>6, <1>7, <2>1, <2>2, <2>3
  <2>6. n \in O2 <=> n \in O
    BY <1>2, <1>6, <2>1, <2>2
  <2>7. Mark(par, known, W, O, x) = IF n \in O THEN "off" ELSE "extra"
    BY <2>1, NearestDecides DEF says, chain
  <2>8. Mark(cut, known, W2, O2, x) = IF n \in O2 THEN "off" ELSE "extra"
    BY <2>4, <2>5, NearestDecides DEF says2, chain2, cut
  <2> QED
    BY <2>6, <2>7, <2>8 DEF cut
<1>9. CASE ~\E a \in says : p \in chain(a)
  <2>1. p \in chain(x) /\ p \notin W
    <3> HIDE DEF chain, says
    <3> QED
      BY <1>2, <1>6, <1>9 DEF chain
  <2>2. says = up
    <3> HIDE DEF chain, says, up
    <3> QED
      BY <1>2, <1>3, <1>4, <1>5, <1>6, <1>9, <2>1
  <2>3. Mark(par, known, W, O, x) = Mark(par, known, W, O, par[p])
    BY <2>2 DEF Mark
  <2>4. says2 \subseteq {p} /\ (p \in says2 <=> p \in W2)
    <3> HIDE DEF chain, chain2, says, says2, cut
    <3> QED
      BY <1>2, <1>6, <1>7, <1>9, <2>1
  <2>5. CASE p \in W2
    <3>1. p \in says2 /\ says2 \subseteq chain2(p)
      BY <2>4, <2>5, AncestorsHoldSelf
    <3>2. Mark(cut, known, W2, O2, x) = IF p \in O2 THEN "off" ELSE "extra"
      <4> HIDE DEF chain2, says2, cut
      <4> QED
        BY <3>1, NearestDecides DEF chain2, says2, cut
    <3>3. Mark(par, known, W, O, par[p]) \in {"plain", "off", "extra"}
      BY DEF Mark
    <3> QED
      BY <2>1, <2>3, <2>5, <3>2, <3>3
  <2>6. CASE p \notin W2
    <3>1. says2 = {}
      BY <2>4, <2>6
    <3>2. Mark(cut, known, W2, O2, x) = "plain"
      BY <3>1 DEF Mark
    <3> QED
      BY <2>1, <2>3, <2>6, <3>2
  <2> QED
    BY <2>5, <2>6
<1> QED
  BY <1>8, <1>9

------------------------------------------------------------------------------
(* The calendar beside the projects.                                        *)

\* Each request, with what it does to the calendar, is a request of Projects.
LEMMA CalendarStepIsAStep == [CalendarNext]_teamVars => [Next]_projectVars
<1> SUFFICES ASSUME [CalendarNext]_teamVars PROVE [Next]_projectVars
  OBVIOUS
<1>1. CASE UNCHANGED teamVars
  BY <1>1 DEF teamVars
<1>2. ASSUME NEW u \in User, OtherStep(u) PROVE Next
  BY <1>2 DEF OtherStep, Next, ActsAs
<1>3. ASSUME NEW u \in User, NEW p \in live, NEW q \in live \cup {NoProject},
             MoveWithCalendar(u, p, q)
      PROVE  Next
  BY <1>3 DEF MoveWithCalendar, Next, ActsAs
<1>4. ASSUME NEW u \in User, NEW p \in live, DeleteWithCalendar(u, p) PROVE Next
  BY <1>4 DEF DeleteWithCalendar, Next, ActsAs
<1>5. ASSUME NEW u \in User, CalendarStep(u)
      PROVE  \/ UNCHANGED projectVars
             \/ \E p \in live, q \in live \cup {NoProject} : MoveWithCalendar(u, p, q)
             \/ \E p \in live : DeleteWithCalendar(u, p)
  BY <1>5 DEF CalendarStep, SetWorkdays, AddDayOff, RemoveDayOff, AddExtraWorkday,
     RemoveExtraWorkday, ImportHolidays, AddLeave, RemoveLeave
<1> QED
  BY <1>1, <1>2, <1>3, <1>4, <1>5 DEF CalendarNext

LEMMA CalendarKeepsIInv == CalendarSpec => []IInv
<1>1. CalendarInit => Init
  BY DEF CalendarInit
<1>2. CalendarSpec => Spec
  BY <1>1, CalendarStepIsAStep, PTL DEF CalendarSpec, Spec
<1> QED
  BY <1>2, SpecKeepsIInv, PTL

\* The root the code finds for somebody's request is a top project.
LEMMA TopIsATop ==
    ASSUME IInv, NEW u \in User, NEW p \in Visible(u)
    PROVE  TopOf(u, p) \in live /\ parent[TopOf(u, p)] = NoProject
<1>1. p \in live /\ NoParentCycle(parent, live)
  BY DEF Visible, IInv, Acyclic
<1>2. TreeOf(p) \in live /\ parent[TreeOf(p)] \notin live
  BY <1>1, RootInTree DEF TreeOf
<1> QED
  BY <1>2, TopIsTreeOf DEF IInv, ParentsLive

\* The calendar rows after a move.
LEMMA MoveKeepsRows ==
    ASSUME IInv, CalendarRowsInPlace, NEW u \in User, NEW p \in live,
           NEW q \in live \cup {NoProject}, MoveWithCalendar(u, p, q)
    PROVE  CalendarRowsInPlace'
<1>1. /\ p \in Visible(u) /\ parent' = [parent EXCEPT ![p] = q] /\ live' = live
      /\ leave' = leave /\ workweek' = WeekAfterMove(u, p, q)
  BY DEF MoveWithCalendar, MoveProject, MayMove
<1>2. /\ parent \in [Project -> Project \cup {NoProject}] /\ live \subseteq Project
      /\ TopOf(u, p) \in Project
  BY <1>1, TopIsATop DEF IInv, TypeOK
<1>3. \E more, moreExtra \in SUBSET Day :
         /\ off' = [off EXCEPT ![p] = @ \cup more]
         /\ extra' = [extra EXCEPT ![p] = @ \cup moreExtra]
  <2>1. CASE parent[p] # NoProject /\ q = NoProject
    <3>1. \A mark : InheritedDays(u, p, mark) \in SUBSET Day
      BY DEF InheritedDays
    <3> QED
      BY <2>1, <3>1 DEF MoveWithCalendar
  <2>2. CASE ~(parent[p] # NoProject /\ q = NoProject)
    <3>1. /\ off = [off EXCEPT ![p] = @ \cup {}] /\ extra = [extra EXCEPT ![p] = @ \cup {}]
      BY <1>2 DEF CalendarRowsInPlace, CalendarTypeOK
    <3> QED
      BY <2>2, <3>1 DEF MoveWithCalendar
  <2> QED
    BY <2>1, <2>2
<1>4. CalendarTypeOK'
  <2>1. workweek' \in [Project -> Workweek \cup {NoWorkweek}]
    BY <1>1, <1>2 DEF WeekAfterMove, CalendarRowsInPlace, CalendarTypeOK
  <2>2. off \in [Project -> SUBSET Day] /\ extra \in [Project -> SUBSET Day]
    BY DEF CalendarRowsInPlace, CalendarTypeOK
  <2>3. off' \in [Project -> SUBSET Day] /\ extra' \in [Project -> SUBSET Day]
    BY <1>3, <2>2
  <2> QED
    BY <1>1, <2>1, <2>3 DEF CalendarRowsInPlace, CalendarTypeOK
<1>5. \A y \in Project : off'[y] \cup extra'[y] # {} => y \in live'
  BY <1>1, <1>2, <1>3 DEF CalendarRowsInPlace, CalendarTypeOK
<1>6. \A y \in Project : workweek'[y] # NoWorkweek => y \in live' /\ parent'[y] = NoProject
  BY <1>1, <1>2 DEF WeekAfterMove, CalendarRowsInPlace, CalendarTypeOK
<1> QED
  BY <1>4, <1>5, <1>6 DEF CalendarRowsInPlace

\* And after every other request.
LEMMA NextKeepsRows == IInv /\ CalendarRowsInPlace /\ [CalendarNext]_teamVars => CalendarRowsInPlace'
<1> SUFFICES ASSUME IInv, CalendarRowsInPlace, [CalendarNext]_teamVars PROVE CalendarRowsInPlace'
  OBVIOUS
<1>1. /\ parent \in [Project -> Project \cup {NoProject}] /\ live \subseteq created
      /\ created \subseteq Project /\ Project \subseteq Nat
  BY ProjectAssumption DEF IInv, TypeOK
<1>2. CASE UNCHANGED teamVars
  BY <1>2 DEF teamVars, projectVars, treeVars, calendarVars, CalendarRowsInPlace, CalendarTypeOK
<1>3. ASSUME NEW u \in User, NEW p \in live, NEW w \in Workweek, SetWorkdays(u, p, w)
      PROVE  CalendarRowsInPlace'
  <2>1. TopOf(u, p) \in live /\ parent[TopOf(u, p)] = NoProject
    BY <1>3, TopIsATop DEF SetWorkdays, MayManageCalendar
  <2>2. /\ workweek' = [workweek EXCEPT ![TopOf(u, p)] = w]
        /\ UNCHANGED <<live, parent, off, extra, leave>>
    BY <1>3 DEF SetWorkdays, projectVars, treeVars
  <2> HIDE DEF TopOf
  <2> QED
    BY <1>1, <2>1, <2>2 DEF CalendarRowsInPlace, CalendarTypeOK
<1>4. ASSUME NEW p \in live, NEW S \in SUBSET Day, NEW T \in SUBSET Day,
             off' = [off EXCEPT ![p] = S], extra' = [extra EXCEPT ![p] = T],
             UNCHANGED <<live, parent, workweek, leave>>
      PROVE  CalendarRowsInPlace'
  BY <1>1, <1>4 DEF CalendarRowsInPlace, CalendarTypeOK
<1>5. ASSUME NEW u \in User, NEW p \in live, NEW d \in Day,
             \/ AddDayOff(u, p, d) \/ RemoveDayOff(u, p, d)
             \/ AddExtraWorkday(u, p, d) \/ RemoveExtraWorkday(u, p, d)
      PROVE  CalendarRowsInPlace'
  <2>1. /\ off \in [Project -> SUBSET Day] /\ extra \in [Project -> SUBSET Day] /\ p \in Project
        /\ UNCHANGED <<live, parent, workweek, leave>>
    BY <1>1, <1>5 DEF CalendarRowsInPlace, CalendarTypeOK, AddDayOff, RemoveDayOff,
       AddExtraWorkday, RemoveExtraWorkday, projectVars, treeVars
  <2>2. off = [off EXCEPT ![p] = off[p]] /\ extra = [extra EXCEPT ![p] = extra[p]]
    BY <2>1
  <2>3. /\ off[p] \in SUBSET Day /\ off[p] \cup {d} \in SUBSET Day /\ off[p] \ {d} \in SUBSET Day
        /\ extra[p] \in SUBSET Day /\ extra[p] \cup {d} \in SUBSET Day /\ extra[p] \ {d} \in SUBSET Day
    BY <2>1
  <2>4. CASE AddDayOff(u, p, d)
    BY <1>4, <2>1, <2>3, <2>4 DEF AddDayOff
  <2>5. CASE RemoveDayOff(u, p, d)
    BY <1>4, <2>1, <2>2, <2>3, <2>5 DEF RemoveDayOff
  <2>6. CASE AddExtraWorkday(u, p, d)
    BY <1>4, <2>1, <2>3, <2>6 DEF AddExtraWorkday
  <2>7. CASE RemoveExtraWorkday(u, p, d)
    BY <1>4, <2>1, <2>2, <2>3, <2>7 DEF RemoveExtraWorkday
  <2> QED
    BY <1>5, <2>4, <2>5, <2>6, <2>7
<1>6. ASSUME NEW u \in User, NEW p \in live, ImportHolidays(u, p) PROVE CalendarRowsInPlace'
  <2> DEFINE more == Holiday \ UNION {off[a] : a \in AncestorsOrSelf(parent, Visible(u), p)}
  <2>1. /\ off' = [off EXCEPT ![p] = @ \cup more] /\ extra' = extra
        /\ UNCHANGED <<live, parent, workweek, leave>>
    BY <1>6 DEF ImportHolidays, projectVars, treeVars
  <2>2. more \in SUBSET Day
    BY CalendarAssumption
  <2> HIDE DEF more
  <2>3. off[p] \cup more \in SUBSET Day /\ extra[p] \in SUBSET Day /\ extra = [extra EXCEPT ![p] = extra[p]]
    BY <1>1, <2>2 DEF CalendarRowsInPlace, CalendarTypeOK
  <2> QED
    BY <1>4, <2>1, <2>3
<1>7. ASSUME NEW u \in User, NEW p \in live, NEW v \in User, NEW d \in Day,
             AddLeave(u, p, v, d) \/ RemoveLeave(u, p, v, d)
      PROVE  CalendarRowsInPlace'
  BY <1>7 DEF AddLeave, RemoveLeave, projectVars, treeVars, CalendarRowsInPlace, CalendarTypeOK
<1>8. ASSUME NEW u \in User, NEW p \in live, DeleteWithCalendar(u, p) PROVE CalendarRowsInPlace'
  BY <1>1, <1>8 DEF DeleteWithCalendar, DeleteProject, RowsOfDeleted, CalendarRowsInPlace, CalendarTypeOK
<1>9. ASSUME NEW u \in User, OtherStep(u) PROVE CalendarRowsInPlace'
  <2>1. CASE UNCHANGED treeVars
    BY <1>9, <2>1 DEF OtherStep, calendarVars, treeVars, CalendarRowsInPlace, CalendarTypeOK
  <2>2. ASSUME NEW q \in live \cup {NoProject}, NEW p \in Project, CreateProject(u, q, p)
        PROVE  CalendarRowsInPlace'
    <3>1. p \notin live
      BY <1>1, <2>2 DEF CreateProject
    <3>2. UNCHANGED calendarVars /\ live' = live \cup {p} /\ parent' = [parent EXCEPT ![p] = q]
      BY <1>9, <2>2 DEF OtherStep, CreateProject
    <3> QED
      BY <1>1, <3>1, <3>2 DEF calendarVars, CalendarRowsInPlace, CalendarTypeOK
  <2>3. \/ UNCHANGED treeVars
        \/ \E q \in live \cup {NoProject}, p \in Project : CreateProject(u, q, p)
    BY <1>9 DEF OtherStep, AddMember, RemoveMember, ChangeRole, ChangeCapacity, AllowCreator
  <2> QED
    BY <2>1, <2>2, <2>3
<1> QED
  BY <1>2, <1>3, <1>5, <1>6, <1>7, <1>8, <1>9, MoveKeepsRows DEF CalendarNext, CalendarStep

------------------------------------------------------------------------------
(* Taking a project out of its tree.                                        *)

\* Somebody who sees a project sees its whole chain, so the marks they see are
\* the marks there are.
LEMMA VisibleMarks ==
    ASSUME IInv, NEW u \in User, NEW y \in Visible(u), NEW d
    PROVE  DayMark(Visible(u), y, d) = DayMark(live, y, d)
<1> DEFINE V == Visible(u)
<1>1. /\ V \subseteq live /\ live \subseteq Project /\ NoProject \notin live
      /\ ParentsLive /\ MembersOnRoots /\ NoParentCycle(parent, live)
  BY ProjectAssumption DEF Visible, IInv, TypeOK, Acyclic
<1>2. \A z \in V : parent[z] \in live => parent[z] \in V
  BY <1>1, VisibleUpwards
<1> HIDE DEF V
<1>3. ASSUME NEW z \in V
      PROVE  AncestorsOrSelf(parent, V, z) = AncestorsOrSelf(parent, live, z)
  <2> DEFINE A == AncestorsOrSelf(parent, V, z)
             B == AncestorsOrSelf(parent, live, z)
  <2>1. A \subseteq V /\ z \in A /\ z \in B /\ B \subseteq live /\ z \in live
    BY <1>1, AncestorsHoldSelf DEF AncestorsOrSelf
  <2>2. ClosedUpwards(parent, live, A)
    BY <1>2, <2>1, AncestorsClosed DEF ClosedUpwards
  <2>3. B \subseteq A
    <3> HIDE DEF A
    <3> QED
      BY <1>1, <2>1, <2>2, AncestorsLeast
  <2>4. ClosedUpwards(parent, V, B \cap V)
    BY <1>1, <2>1, AncestorsClosed DEF ClosedUpwards
  <2>5. A \subseteq B
    <3> HIDE DEF B
    <3>1. A \subseteq B \cap V
      BY <2>1, <2>4, AncestorsLeast
    <3> QED
      BY <3>1
  <2> QED
    BY <2>3, <2>5
<1>4. NoParentCycle(parent, V)
  BY <1>1 DEF NoParentCycle
<1> DEFINE W == Speaks(d)
           says == Sayers(parent, live, W, y)
<1>5. y \in V /\ y \in live
  BY <1>1 DEF V
<1>6. Sayers(parent, V, W, y) = says /\ says \subseteq V
  BY <1>3, <1>5 DEF Sayers, AncestorsOrSelf
<1>7. DayMark(V, y, d) = Mark(parent, V, W, SpeaksOff(d), y)
  BY <1>1, <1>4, DayMarkIsMark
<1>8. DayMark(live, y, d) = Mark(parent, live, W, SpeaksOff(d), y)
  BY <1>1, DayMarkIsMark
<1>9. Mark(parent, V, W, SpeaksOff(d), y) = Mark(parent, live, W, SpeaksOff(d), y)
  <2> HIDE DEF W, says
  <2>1. CASE says = {}
    BY <1>6, <2>1 DEF Mark, says
  <2>2. CASE says # {}
    <3>1. PICK n \in says : says \subseteq AncestorsOrSelf(parent, live, n)
      BY <1>1, <1>5, <2>2, SomeoneIsNearest DEF says
    <3>2. n \in V /\ says \subseteq AncestorsOrSelf(parent, V, n)
      BY <1>3, <1>6, <3>1
    <3>3. Mark(parent, live, W, SpeaksOff(d), y) = IF n \in SpeaksOff(d) THEN "off" ELSE "extra"
      BY <1>1, <1>5, <3>1, NearestDecides DEF says
    <3>4. Mark(parent, V, W, SpeaksOff(d), y) = IF n \in SpeaksOff(d) THEN "off" ELSE "extra"
      BY <1>4, <1>5, <1>6, <3>1, <3>2, NearestDecides
    <3> QED
      BY <3>3, <3>4
  <2> QED
    BY <2>1, <2>2
<1> QED
  BY <1>7, <1>8, <1>9 DEF V

\* move_project out of a tree: weekdays and marks of the branch stay.
LEMMA MoveOutKeepsCalendar ==
    ASSUME IInv, IInv', CalendarRowsInPlace, NEW u \in User, NEW p \in live,
           parent[p] # NoProject, MoveWithCalendar(u, p, NoProject),
           NEW x \in SubtreeIds(parent, live, p)
    PROVE  /\ WeekOf(live, x)' = WeekOf(live, x)
           /\ \A d \in Day : DayMark(live, x, d)' = DayMark(live, x, d)
<1>1. /\ p \in Visible(u) /\ live' = live /\ parent' = [parent EXCEPT ![p] = NoProject]
      /\ workweek' = WeekAfterMove(u, p, NoProject)
      /\ off' = [off EXCEPT ![p] = @ \cup InheritedDays(u, p, "off")]
      /\ extra' = [extra EXCEPT ![p] = @ \cup InheritedDays(u, p, "extra")]
  BY DEF MoveWithCalendar, MoveProject, MayMove
<1>2. /\ live \subseteq Project /\ NoProject \notin live /\ live \subseteq DOMAIN parent
      /\ NoParentCycle(parent, live)
  BY ProjectAssumption DEF IInv, TypeOK, Acyclic
<1>3. NoParentCycle([parent EXCEPT ![p] = NoProject], live)
  BY <1>1 DEF IInv, Acyclic
<1>4. x \in live /\ p \in AncestorsOrSelf(parent, live, x)
  BY DEF SubtreeIds
<1>5. parent[p] \in live
  BY DEF IInv, ParentsLive
<1>6. WeekOf(live, x)' = WeekOf(live, x)
  <2>1. RootOf([parent EXCEPT ![p] = NoProject], live, x) = p
    BY <1>2, <1>3, <1>4, TopAfterCut
  <2>2. RootOf(parent, live, x) = RootOf(parent, live, p)
    BY <1>2, <1>4, SameTop
  <2>3. TopOf(u, p) = RootOf(parent, live, p)
    BY <1>1, TopIsTreeOf DEF TreeOf
  <2>4. workweek[p] = NoWorkweek /\ workweek \in [Project -> Workweek \cup {NoWorkweek}] /\ p \in Project
    BY <1>2 DEF CalendarRowsInPlace, CalendarTypeOK
  <2>5. workweek'[p] = workweek[TopOf(u, p)]
    BY <1>1, <2>4 DEF WeekAfterMove
  <2> QED
    BY <1>1, <2>1, <2>2, <2>3, <2>5 DEF WeekOf
<1>7. ASSUME NEW d \in Day PROVE DayMark(live, x, d)' = DayMark(live, x, d)
  <2> DEFINE W == Speaks(d)
             O == SpeaksOff(d)
             W2 == Speaks(d)'
             O2 == SpeaksOff(d)'
             m == Mark(parent, live, W, O, parent[p])
  <2>1. off \in [Project -> SUBSET Day] /\ extra \in [Project -> SUBSET Day] /\ p \in Project
    BY <1>2 DEF CalendarRowsInPlace, CalendarTypeOK
  <2>2. \A mark : d \in InheritedDays(u, p, mark) <=> p \notin W /\ m = mark
    <3>1. parent[p] \in Visible(u)
      BY <1>1, <1>2, <1>5, VisibleUpwards DEF IInv
    <3>2. DayMark(Visible(u), parent[p], d) = DayMark(live, parent[p], d)
      BY <3>1, VisibleMarks
    <3>3. DayMark(live, parent[p], d) = m
      BY <1>2, DayMarkIsMark
    <3> HIDE DEF m
    <3> QED
      BY <2>1, <3>2, <3>3 DEF InheritedDays, Speaks
  <2>3. \A a \in live : a # p => (a \in W2 <=> a \in W) /\ (a \in O2 <=> a \in O)
    BY <1>1, <1>2, <2>1 DEF Speaks, SpeaksOff
  <2>4. /\ p \in W2 <=> p \in W \/ d \in InheritedDays(u, p, "off") \/ d \in InheritedDays(u, p, "extra")
        /\ p \in O2 <=> p \in O \/ d \in InheritedDays(u, p, "off")
        /\ p \in O => p \in W
    <3>1. /\ off'[p] = off[p] \cup InheritedDays(u, p, "off")
          /\ extra'[p] = extra[p] \cup InheritedDays(u, p, "extra")
      BY <1>1, <2>1
    <3> QED
      BY <2>1, <3>1 DEF Speaks, SpeaksOff
  <2>5. m \in {"plain", "off", "extra"}
    BY DEF Mark
  <2>6. DayMark(live, x, d) = Mark(parent, live, W, O, x)
    BY <1>2, DayMarkIsMark
  <2>7. DayMark(live, x, d)' = Mark(parent', live', W2, O2, x)
    <3>1. NoParentCycle(parent', live') /\ live' \subseteq Project
      BY <1>1, <1>2, <1>3
    <3> QED
      BY <3>1, MarksAsStored DEF MarksAreThose
  <2> HIDE DEF W, O, W2, O2
  <2>8. /\ p \in W => p \in W2 /\ (p \in O2 <=> p \in O)
        /\ p \notin W => (p \in W2 <=> m # "plain") /\ (p \in O2 <=> m = "off")
    <3> HIDE DEF m
    <3> QED
      BY <2>2, <2>4, <2>5
  <2>9. Mark([parent EXCEPT ![p] = NoProject], live, W2, O2, x) = Mark(parent, live, W, O, x)
    BY <1>2, <1>3, <1>4, <1>5, <2>3, <2>8, MarkAfterCut
  <2> QED
    BY <1>1, <2>6, <2>7, <2>9
<1> QED
  BY <1>6, <1>7

------------------------------------------------------------------------------
(* The theorems.                                                            *)

\* No sequence of requests leaves calendar rows behind on a project that is
\* gone, or weekdays on a project that is no root.
THEOREM CalendarRowsStayInPlace == CalendarSpec => []CalendarRowsInPlace
<1>1. CalendarInit => CalendarRowsInPlace
  BY DEF CalendarInit, CalendarRowsInPlace, CalendarTypeOK
<1> QED
  BY <1>1, NextKeepsRows, CalendarKeepsIInv, PTL DEF CalendarSpec

\* _copy_team_calendar: a project that becomes a root is planned, with all that
\* is under it, by the calendar it was planned by.
THEOREM BecomingRootKeepsThePlan == CalendarSpec => BecomingRootKeepsCalendar
<1> DEFINE Kept ==
      \A p \in live \cap live' :
          (parent[p] # NoProject /\ parent'[p] = NoProject) =>
              \A x \in SubtreeIds(parent, live, p) :
                  /\ WeekOf(live, x)' = WeekOf(live, x)
                  /\ \A d \in Day : DayMark(live, x, d)' = DayMark(live, x, d)
<1>1. ASSUME IInv, IInv', CalendarRowsInPlace, [CalendarNext]_teamVars PROVE [Kept]_teamVars
  <2> SUFFICES ASSUME CalendarNext, NEW p \in live \cap live',
                      parent[p] # NoProject, parent'[p] = NoProject
               PROVE  \A x \in SubtreeIds(parent, live, p) :
                         /\ WeekOf(live, x)' = WeekOf(live, x)
                         /\ \A d \in Day : DayMark(live, x, d)' = DayMark(live, x, d)
    BY <1>1
  <2>1. /\ parent \in [Project -> Project \cup {NoProject}] /\ live \subseteq created
        /\ created \subseteq Project /\ Project \subseteq Nat
    BY <1>1, ProjectAssumption DEF IInv, TypeOK
  <2>2. \E u \in User : MoveWithCalendar(u, p, NoProject)
    <3>1. PICK u \in User : CalendarStep(u) \/ OtherStep(u)
      BY DEF CalendarNext
    <3>2. \/ UNCHANGED parent
          \/ \E q \in live \cup {NoProject}, y \in Project : CreateProject(u, q, y)
          \/ \E y \in live, q \in live \cup {NoProject} : MoveWithCalendar(u, y, q)
          \/ \E y \in live : DeleteWithCalendar(u, y)
      BY <3>1 DEF CalendarStep, OtherStep, SetWorkdays, AddDayOff, RemoveDayOff, AddExtraWorkday,
         RemoveExtraWorkday, ImportHolidays, AddLeave, RemoveLeave, AddMember, RemoveMember,
         ChangeRole, ChangeCapacity, AllowCreator, projectVars, treeVars
    <3>3. ASSUME NEW q \in live \cup {NoProject}, NEW y \in Project, CreateProject(u, q, y)
          PROVE  FALSE
      <4>1. y # p /\ parent' = [parent EXCEPT ![y] = q]
        BY <2>1, <3>3 DEF CreateProject
      <4> QED
        BY <2>1, <4>1
    <3>4. ASSUME NEW y \in live, DeleteWithCalendar(u, y) PROVE FALSE
      <4>1. y # p /\ parent' = [parent EXCEPT ![y] = NoProject]
        BY <3>4 DEF DeleteWithCalendar, DeleteProject
      <4> QED
        BY <2>1, <4>1
    <3>5. ASSUME NEW y \in live, NEW q \in live \cup {NoProject}, MoveWithCalendar(u, y, q)
          PROVE  y = p /\ q = NoProject
      <4>1. parent' = [parent EXCEPT ![y] = q]
        BY <3>5 DEF MoveWithCalendar, MoveProject
      <4> QED
        BY <2>1, <4>1
    <3> QED
      BY <3>2, <3>3, <3>4, <3>5
  <2> QED
    BY <1>1, <2>2, MoveOutKeepsCalendar
<1>2. IInv /\ IInv' /\ CalendarRowsInPlace /\ [CalendarNext]_teamVars => [Kept]_teamVars
  BY <1>1
<1> QED
  BY <1>2, CalendarKeepsIInv, CalendarRowsStayInPlace, PTL DEF CalendarSpec, BecomingRootKeepsCalendar

==============================================================================
