--------------------------- MODULE ProjectOrdering ---------------------------
(***************************************************************************)
(* projects.sort_order: the place of a project among its siblings.  A new  *)
(* project gets the number of siblings its creator sees, a move renumbers  *)
(* the siblings the mover sees, a delete leaves a gap.  The actions are    *)
(* those of Projects with the column added.                                *)
(***************************************************************************)
EXTENDS Projects

CONSTANT MaxPosition  \* bound on the position a move may ask for

ASSUME PositionAssumption == MaxPosition \in Nat

VARIABLE order        \* sort_order of each row

orderingVars == <<projectVars, order>>

OrderingTypeOK == TypeOK /\ order \in [Project -> Nat]

OrderingInit == Init /\ order = [p \in Project |-> 0]

\* children_of, in the tree that u can see.
ChildrenOf(u, q) == {x \in Visible(u) : parent[x] = q}

\* The sort key of children_of: sort_order, then id.
Before(ord, x, y) == ord[x] < ord[y] \/ (ord[x] = ord[y] /\ x < y)

\* The index of x in the list S sorted like children_of.
Rank(S, x) == Cardinality({y \in S : Before(order, y, x)})

\* An index outside the list means the end of it.
Place(position, n) == IF position \in 0..n THEN position ELSE n

\* Mutant: the siblings behind the place are not pushed back.
OrderAfterMoveNoShift(u, p, q, position) ==
    LET next == ChildrenOf(u, q) \ {p}
    IN  [x \in Project |->
            IF x = p THEN Place(position, Cardinality(next))
            ELSE IF x \in next THEN Rank(next, x)
            ELSE order[x]]

\* set_sort_orders after a move: the new siblings with p at its place, and the
\* old siblings closed up when the parent changed.
OrderAfterMove(u, p, q, position) ==
    LET next == ChildrenOf(u, q) \ {p}
        left == ChildrenOf(u, parent[p]) \ {p}
        at   == Place(position, Cardinality(next))
    IN  [x \in Project |->
            IF x = p THEN at
            ELSE IF x \in next THEN Rank(next, x) + (IF Rank(next, x) < at THEN 0 ELSE 1)
            ELSE IF x \in left THEN Rank(left, x)
            ELSE order[x]]

OrderedCreate(u, q, p) ==
    /\ CreateProject(u, q, p)
    /\ order' = [order EXCEPT ![p] = Cardinality(ChildrenOf(u, q))]

OrderedMove(u, p, q, position) ==
    /\ MoveProject(u, p, q)
    /\ order' = OrderAfterMove(u, p, q, position)

\* The row goes, the siblings keep their numbers.
OrderedDelete(u, p) ==
    /\ DeleteProject(u, p)
    /\ order' = [order EXCEPT ![p] = 0]

\* Every other request leaves sort_order alone.
MembershipStep(u) ==
    /\ \/ \E p \in live, v \in User, r \in Role : AddMember(u, p, v, r)
       \/ \E p \in live, v \in User : RemoveMember(u, p, v)
       \/ \E p \in live, v \in User, r \in Role : ChangeRole(u, p, v, r)
       \/ \E p \in live, v \in User, c \in Capacity : ChangeCapacity(u, p, v, c)
       \/ \E allowed \in BOOLEAN : AllowCreator(u, allowed)
    /\ UNCHANGED order

OrderingNext ==
    \E u \in User :
        \/ \E q \in live \cup {NoProject}, p \in Project : OrderedCreate(u, q, p)
        \/ \E p \in live, q \in live \cup {NoProject}, n \in 0..MaxPosition : OrderedMove(u, p, q, n)
        \/ \E p \in live : OrderedDelete(u, p)
        \/ MembershipStep(u)

OrderingSpec == OrderingInit /\ [][OrderingNext]_orderingVars

------------------------------------------------------------------------------
\* The types hold, and whatever move is asked for and allowed, the project lands where the mover
\* asked and the other siblings stay in the order the mover saw, also where
\* deletions and moves by people who see other roots left gaps and equal
\* sort_orders behind.
MoveKeepsTheOthersInOrder ==
    /\ OrderingTypeOK
    /\ \A u \in User, p \in live, q \in live \cup {NoProject}, n \in 0..MaxPosition :
        MayMove(u, p, q) =>
            LET after == OrderAfterMove(u, p, q, n)
                rest  == ChildrenOf(u, q) \ {p}
            IN  /\ Cardinality({y \in rest : Before(after, y, p)}) = Place(n, Cardinality(rest))
                /\ \A x, y \in Visible(u) \ {p} :
                      parent[x] = parent[y] /\ Before(order, x, y) => Before(after, x, y)
==============================================================================
