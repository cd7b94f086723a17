--------------------------- MODULE ProjectRequests ---------------------------
(***************************************************************************)
(* The requests of Projects when they overlap.  The endpoints are plain    *)
(* functions that FastAPI runs in a thread pool, each with its own database *)
(* session.  A handler reads and checks first and writes afterwards; the    *)
(* reads hold no lock (SQLite begins a transaction at the first write), so  *)
(* another request may commit between the two.  A request therefore is two  *)
(* steps: Check... evaluates the guards and remembers what was read, and    *)
(* Write... applies the writes to the tables as they are by then.           *)
(***************************************************************************)
EXTENDS Projects

CONSTANTS
    Slot,    \* threads of the pool
    Idle     \* a thread that serves no request

VARIABLE request   \* what each thread has read and is about to write

requestVars == <<projectVars, request>>

\* The thread keeps what it read.
Begin(s, read) ==
    /\ request[s] = Idle
    /\ request' = [request EXCEPT ![s] = read]
    /\ UNCHANGED projectVars

\* The thread has something of this kind to write, and answers.
Finish(s, op) ==
    /\ request[s] # Idle
    /\ request[s].op = op
    /\ request' = [request EXCEPT ![s] = Idle]

CheckCreate(s, u, q) ==
    MayCreate(u, q) /\ Begin(s, [op |-> "create", u |-> u, q |-> q])

CheckMove(s, u, p, q) ==
    /\ MayMove(u, p, q)
    /\ Begin(s, [op |-> "move", p |-> p, q |-> q, old |-> parent[p],
                 rows |-> role[TopOf(u, p)], hours |-> capacity[TopOf(u, p)]])

CheckDelete(s, u, p) ==
    MayDelete(u, p) /\ Begin(s, [op |-> "delete", p |-> p])

CheckAddMember(s, u, p, v, r) ==
    /\ MayAddMember(u, p, v)
    /\ Begin(s, [op |-> "save", p |-> TopOf(u, p), v |-> v, r |-> r, c |-> DefaultCapacity])

CheckChangeRole(s, u, p, v, r) ==
    /\ MayChangeRole(u, p, v, r)
    /\ Begin(s, [op |-> "save", p |-> TopOf(u, p), v |-> v, r |-> r, c |-> capacity[TopOf(u, p)][v]])

\* The role goes back as it was read.
CheckChangeCapacity(s, u, p, v, c) ==
    /\ MayChangeCapacity(u, p, v)
    /\ Begin(s, [op |-> "save", p |-> TopOf(u, p), v |-> v, r |-> role[TopOf(u, p)][v], c |-> c])

CheckRemoveMember(s, u, p, v) ==
    MayRemoveMember(u, p, v) /\ Begin(s, [op |-> "remove", p |-> TopOf(u, p), v |-> v])

\* The operator's script, another process, reads the account before it saves it.
CheckAllow(s, u, allowed) ==
    /\ (u \in creators) # allowed
    /\ Begin(s, [op |-> "allow", u |-> u, allowed |-> allowed])

\* INSERT of the project and, for a root, of its manager.  The parent is not
\* looked at again.
WriteCreate(s, p) ==
    LET t == request[s] IN
    /\ Finish(s, "create")
    /\ p \in Project
    /\ \A old \in created : old < p
    /\ created' = created \cup {p}
    /\ live' = live \cup {p}
    /\ parent' = [parent EXCEPT ![p] = t.q]
    /\ role' = IF t.q = NoProject THEN [role EXCEPT ![p][t.u] = "manager"] ELSE role
    /\ UNCHANGED <<capacity, creators>>

\* Mutant: a root that goes under another project keeps its rows.
MovedRowsKept(t, now, read, empty) ==
    IF t.old # NoProject /\ t.q = NoProject
    THEN [now EXCEPT ![t.p] = [v \in User |-> IF t.rows[v] = "none" THEN now[t.p][v] ELSE read[v]]]
    ELSE now

\* The member rows of a moved project: deleted as they are now, or inserted as
\* they were read.
MovedRows(t, now, read, empty) ==
    IF t.old = NoProject /\ t.q # NoProject THEN [now EXCEPT ![t.p] = [v \in User |-> empty]]
    ELSE IF t.old # NoProject /\ t.q = NoProject
    THEN [now EXCEPT ![t.p] = [v \in User |-> IF t.rows[v] = "none" THEN now[t.p][v] ELSE read[v]]]
    ELSE now

\* The UPDATE needs the row (else the session reports stale data and the
\* request fails) and writes parent_project_id only when it differs from what
\* was loaded.
WriteMove(s) ==
    LET t == request[s] IN
    /\ Finish(s, "move")
    /\ t.p \in live
    /\ parent' = IF t.q = t.old THEN parent ELSE [parent EXCEPT ![t.p] = t.q]
    /\ role' = MovedRows(t, role, t.rows, "none")
    /\ capacity' = MovedRows(t, capacity, t.hours, DefaultCapacity)
    /\ UNCHANGED <<created, live, creators>>

\* DELETE of the row and its member rows, whatever has come under it.
WriteDelete(s) ==
    LET t == request[s] IN
    /\ Finish(s, "delete")
    /\ live' = live \ {t.p}
    /\ parent' = [parent EXCEPT ![t.p] = NoProject]
    /\ role' = [role EXCEPT ![t.p] = [v \in User |-> "none"]]
    /\ capacity' = [capacity EXCEPT ![t.p] = [v \in User |-> DefaultCapacity]]
    /\ UNCHANGED <<created, creators>>

\* save: the row is selected again, and updated or, when it is not there (any
\* more), inserted; either way it then holds the role and the capacity that the
\* handler has in hand.
WriteMember(s) ==
    LET t == request[s] IN
    /\ Finish(s, "save")
    /\ role' = [role EXCEPT ![t.p][t.v] = t.r]
    /\ capacity' = [capacity EXCEPT ![t.p][t.v] = t.c]
    /\ UNCHANGED <<treeVars, creators>>

\* DELETE of the row, there or not.
WriteRemoveMember(s) ==
    LET t == request[s] IN
    /\ Finish(s, "remove")
    /\ role' = [role EXCEPT ![t.p][t.v] = "none"]
    /\ capacity' = [capacity EXCEPT ![t.p][t.v] = DefaultCapacity]
    /\ UNCHANGED <<treeVars, creators>>

WriteAllow(s) ==
    LET t == request[s] IN
    /\ Finish(s, "allow")
    /\ AllowCreator(t.u, t.allowed)

\* The database refuses the write (locked, stale row, unique constraint): the
\* transaction is rolled back.
Fail(s) ==
    /\ request[s] # Idle
    /\ request' = [request EXCEPT ![s] = Idle]
    /\ UNCHANGED projectVars

RequestInit == Init /\ request = [s \in Slot |-> Idle]

CheckStep(s, u) ==
    \/ \E q \in live \cup {NoProject} : CheckCreate(s, u, q)
    \/ \E p \in live, q \in live \cup {NoProject} : CheckMove(s, u, p, q)
    \/ \E p \in live : CheckDelete(s, u, p)
    \/ \E p \in live, v \in User, r \in Role : CheckAddMember(s, u, p, v, r)
    \/ \E p \in live, v \in User, r \in Role : CheckChangeRole(s, u, p, v, r)
    \/ \E p \in live, v \in User, c \in Capacity : CheckChangeCapacity(s, u, p, v, c)
    \/ \E p \in live, v \in User : CheckRemoveMember(s, u, p, v)
    \/ \E allowed \in BOOLEAN : CheckAllow(s, u, allowed)

WriteStep(s) ==
    \/ \E p \in Project : WriteCreate(s, p)
    \/ WriteMove(s)
    \/ WriteDelete(s)
    \/ WriteMember(s)
    \/ WriteRemoveMember(s)
    \/ WriteAllow(s)

RequestNext ==
    \E s \in Slot : (\E u \in User : CheckStep(s, u)) \/ WriteStep(s) \/ Fail(s)

RequestSpec == RequestInit /\ [][RequestNext]_requestVars

------------------------------------------------------------------------------
\* When requests do not overlap, reading first and writing later is the same as
\* the handler in one step: the request specification implements Projects
\* and has its properties.  With two threads RootHasManager and IsForest fail.
ImplementsProjects == Spec
==============================================================================
