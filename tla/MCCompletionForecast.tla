------------------------- MODULE MCCompletionForecast -------------------------
(* Three tasks, two people, one project with a task of no project beside it, *)
(* and one or two dependencies of any kind.                                  *)
EXTENDS CompletionForecast

CONSTANTS a, b

MCTask == 1..3

Todo(e, done, p, s) == [status |-> "TODO", manual |-> NoHours, estimate |-> e, actual |-> done, percent |-> p,
                        start |-> s, due |-> NoDay]
Plain(e) == Todo(e, 0, 0, NoDay)

Loads == { <<Plain(6), Plain(18), Todo(6, 0, 0, 1)>>,
           <<Todo(24, 6, 50, NoDay), Todo(12, 0, 100, NoDay), Plain(6)>>,
           <<Plain(6), Plain(NoHours), Plain(90)>>,
           <<Todo(6, 6, 0, NoDay), Todo(6, 0, 50, NoDay), Plain(12)>>,
           <<[Plain(6) EXCEPT !.status = "DOING"], [Plain(18) EXCEPT !.status = "DONE"],
             [Plain(12) EXCEPT !.manual = 6, !.due = 0]>>,
           <<[Plain(6) EXCEPT !.status = "CANCELLED"], [Plain(NoHours) EXCEPT !.manual = 12],
             [Plain(24) EXCEPT !.due = 1]>> }

Places == { <<[u |-> a, j |-> 1], [u |-> a, j |-> 1], [u |-> a, j |-> 2]>>,
            <<[u |-> a, j |-> 1], [u |-> b, j |-> 1], [u |-> a, j |-> NoProject]>>,
            <<[u |-> a, j |-> 2], [u |-> NoUser, j |-> 1], [u |-> b, j |-> NoProject]>> }

Trees == { <<0, 0, 0>>, <<0, 0, 1>> }

Dependency == [predecessor : MCTask, successor : MCTask, kind : {"FS", "SS", "FF", "SF"}, lag : {0}] \cup
              [predecessor : {1, 3}, successor : {2}, kind : {"FS"}, lag : {-1}] \cup
              [predecessor : {1, 2}, successor : {3}, kind : {"FF"}, lag : {1}]

MCDependencies == { {x \in {c, d} : x.predecessor # x.successor} : c, d \in Dependency }

MCScenario ==
    { [tasks |-> [t \in MCTask |->
          [f \in DOMAIN load[t] \cup {"priority", "assignee", "project", "parent"} |->
              CASE f = "priority" -> t
                [] f = "assignee" -> place[t].u
                [] f = "project"  -> place[t].j
                [] f = "parent"   -> tree[t]
                [] OTHER          -> load[t][f]]],
       dependencies |-> deps,
       projectParent |-> <<0, 1>>,
       members |-> [p \in {1} |-> [u \in {a} \cup IF load[1].actual = 6 THEN {b} ELSE {} |->
                                      [hours |-> 12, engagement |-> 100]]],
       calendar |-> [p \in {1, 2, NoProject} |->
           [workdays |-> {0, 1, 3}, off |-> IF p = 2 THEN {0} ELSE {}, extra |-> IF p = 1 THEN {2} ELSE {}]],
       leave |-> [u \in User |-> IF u = a THEN [d \in {1} |-> 50] ELSE [d \in {} |-> 0]],
       dayHours |-> [u \in User |-> IF u = b THEN [d \in {2} |-> 6] ELSE [d \in {} |-> 0]]] :
      load \in Loads, place \in Places, tree \in Trees, deps \in MCDependencies }
==============================================================================
