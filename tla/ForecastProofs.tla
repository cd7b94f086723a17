---------------------------- MODULE ForecastProofs ----------------------------
(***************************************************************************)
(* What every forecast keeps, for any number of tasks, people and days,    *)
(* any tree and any dependencies with any lags.                            *)
(*                                                                         *)
(* Most of it rests on a start and an end being set once while the days    *)
(* are laid out: what a task waited for stays as it was when the task      *)
(* began.  The passes over the ends are enough because each of them        *)
(* settles one more task for good (FloorsRise).                            *)
(***************************************************************************)
EXTENDS CompletionForecast, SetLemmas, SequenceTheorems

------------------------------------------------------------------------------
(* The inductive invariant.                                                 *)

Bottom == {t \in Task : ~HasSubtasks(t)}
Open == {t \in Bottom : Classify(t) = "none"}

BoardStands ==
    /\ inst \in Scenario
    /\ board = [leafIds |-> [t \in Task |-> LeavesUnder(t)],
                constraints |-> [t \in Task |-> ConstraintsOf(t)],
                seat |-> [t \in Task |-> SeatKey(t)]]

Shapes ==
    /\ phase \in {"classify", "wait", "simulate", "floors", "report", "done"}
    /\ leaves \in SUBSET Open /\ given \in SUBSET leaves
    /\ gap \in [Task -> Gap] /\ rem \in [Task -> Nat]
    /\ start \in [Task -> (0..LastDay) \cup {NoDay}] /\ finish \in [Task -> Int \cup {NoDay}]
    /\ day \in 0..Horizon /\ left \in [DOMAIN left -> Nat]
    /\ queue \in Seq(Range(queue)) /\ raised \in BOOLEAN /\ rounds \in Nat

\* What is still to come has not begun.
Order ==
    /\ phase # "simulate" => given = {}
    /\ phase \notin {"simulate", "floors"} => queue = <<>>
    /\ phase \in {"classify", "wait", "simulate"} => rounds = 0
    /\ phase \in {"classify", "wait"} => day = 0
    /\ phase = "floors" /\ rounds = 0 => queue = <<>>

Gaps ==
    phase \in {"wait", "simulate", "floors", "report"} =>
        \A t \in Task : /\ t \in leaves <=> t \in Bottom /\ gap[t] = "none"
                        /\ t \in Bottom => gap[t] \in {Classify(t), "waiting"}

\* A task has its end when nothing is left of it, and begins before it ends.
Dates ==
    /\ phase \in {"classify", "wait"} => \A t \in Task : start[t] = NoDay
    /\ \A t \in Task : finish[t] # NoDay => start[t] # NoDay /\ start[t] <= finish[t]
    /\ phase # "done" => \A t \in Task : t \notin leaves => start[t] = NoDay
    /\ phase # "done" => \A t \in leaves : finish[t] = NoDay <=> rem[t] > 0
    /\ phase = "simulate" => \A t \in Task : start[t] # NoDay => start[t] <= day

\* Whoever was served today and is not done has a share of the day, or the
\* day has no hours left.
Hands ==
    phase = "simulate" =>
        /\ day \in 0..LastDay /\ DOMAIN left = WorkSeats
        /\ \A key \in WorkSeats : left[key] <= PersonHours(key, day)
        /\ \A t \in given : T(t).percent > 0 \/ finish[t] # NoDay \/ left[SeatOf(t)] = 0

\* Whoever waits to be served may begin today.
Queued ==
    phase = "simulate" =>
        \A e \in Range(queue) : /\ e.task \in leaves /\ IsReady(e.task, day)
                                /\ e.share # NoHours => e.share \in Nat /\ T(e.task).percent > 0

Known == phase \in {"simulate", "floors", "report"} => \A t \in leaves : ~WaitsOnUnforecast(t)

Ended(p) == \A l \in LeafIds(p) \cap leaves : finish[l] # NoDay

EndedBefore ==
    phase \in {"simulate", "floors", "report"} =>
        \A t \in leaves : start[t] # NoDay => \A c \in Constraints(t) : c.kind = "FS" => Ended(c.predecessor)

IsRing(ring) == \A t \in ring : \E c \in Constraints(t) : c.kind = "FS" /\ LeafIds(c.predecessor) \cap ring # {}

RingsNeverBegin ==
    phase \in {"simulate", "floors", "report"} =>
        \A ring \in SUBSET Open : IsRing(ring) => \A t \in ring : start[t] = NoDay

\* The ends.
Floor(t, c) == finish[t] # NoDay /\ Base(c) # NoDay => finish[t] >= Base(c) + c.lag

Pairs == {x \in leaves \X inst.dependencies : x[2] \in Constraints(x[1])}

FinishRing ==
    \E ring \in (SUBSET leaves) \ {{}} :
        \A t \in ring : \E c \in Constraints(t) : c.kind = "FF" /\ LeafIds(c.predecessor) \cap ring # {}

\* The FF floors of t are ends of tasks in Z.
RestsOn(t, Z) == \A c \in Constraints(t) : c.kind = "FF" => LeafIds(c.predecessor) \cap leaves \subseteq Z

\* The ends of Z stand, and nothing outside Z moves them.
Settled(Z) == \A t \in Z : RestsOn(t, Z) /\ \A c \in Constraints(t) : Floor(t, c)

\* t is settled when this pass is over.
NextToSettle(t, Z) == RestsOn(t, Z) /\ \A c \in Constraints(t) : <<t, c>> \in Range(queue) \/ Floor(t, c)

\* Every pass before this one has settled a task, and so will this one.
FloorsRise ==
    phase = "floors" =>
        /\ Range(queue) \subseteq Pairs
        /\ rounds > 0 /\ ~raised => \A x \in Pairs : x \in Range(queue) \/ Floor(x[1], x[2])
        /\ rounds > 0 /\ ~FinishRing =>
              \E Z \in SUBSET leaves :
                  /\ Settled(Z) /\ Cardinality(Z) >= rounds - 1
                  /\ Z = leaves => ~raised
                  /\ Z # leaves => \E t \in leaves \ Z : NextToSettle(t, Z)

ForecastInv ==
    /\ BoardStands /\ Shapes /\ Order /\ Gaps /\ Dates /\ Hands /\ Queued /\ Known /\ EndedBefore
    /\ RingsNeverBegin /\ FloorsRise
    /\ StartsRespectDependencies /\ FinishFloorsHold /\ RingsWait /\ UnknownsArePassedOn

------------------------------------------------------------------------------
(* What is read from the board and the scenario.                            *)

\* inst and board are set once.
LEMMA Frozen ==
    ASSUME UNCHANGED <<inst, board>>
    PROVE  /\ Bottom' = Bottom /\ Open' = Open /\ BoardStands' = BoardStands
           /\ \A t : /\ T(t)' = T(t) /\ LeafIds(t)' = LeafIds(t) /\ Constraints(t)' = Constraints(t)
                     /\ SeatOf(t)' = SeatOf(t) /\ HasSubtasks(t)' = HasSubtasks(t) /\ Classify(t)' = Classify(t)
                     /\ StartedBeforeToday(t)' = StartedBeforeToday(t)
           /\ \A ring : IsRing(ring)' = IsRing(ring)
           /\ \A key, d : PersonHours(key, d)' = PersonHours(key, d)
<1>1. \A t : T(t)' = T(t) /\ LeafIds(t)' = LeafIds(t) /\ Constraints(t)' = Constraints(t) /\ SeatOf(t)' = SeatOf(t)
  BY DEF T, LeafIds, Constraints, SeatOf
<1>2. Parent' = Parent
  BY DEF Parent, T
<1>3. \A t : HasSubtasks(t)' = HasSubtasks(t)
  BY <1>2 DEF HasSubtasks
<1>4. \A t : RemainingFrom(t)' = RemainingFrom(t) /\ StartedBeforeToday(t)' = StartedBeforeToday(t)
  BY <1>1 DEF RemainingFrom, StartedBeforeToday
<1>5. Seats' = Seats
  BY DEF Seats, T
<1>6. \A key : Capacity(key)' = Capacity(key) /\ HoursPerDay(key)' = HoursPerDay(key)
  BY DEF Capacity, HoursPerDay
<1>7. \A key : HasCapacity(key)' = HasCapacity(key)
  BY <1>6 DEF HasCapacity
<1>8. \A t : Classify(t)' = Classify(t)
  BY <1>1, <1>4, <1>5, <1>7 DEF Classify
<1>9. Bottom' = Bottom
  BY <1>3 DEF Bottom
<1>10. Open' = Open
  BY <1>8, <1>9 DEF Open
<1>11. \A ring : IsRing(ring)' = IsRing(ring)
  BY <1>1 DEF IsRing
<1>12. \A key, d : PersonHours(key, d)' = PersonHours(key, d)
  BY <1>6 DEF PersonHours
<1>13. \A t : Descendants(t)' = Descendants(t)
  BY <1>2 DEF Descendants
<1>14. \A t : LeavesUnder(t)' = LeavesUnder(t)
  BY <1>3, <1>13 DEF LeavesUnder
<1>15. \A t : ConstraintsOf(t)' = ConstraintsOf(t)
  BY <1>14 DEF ConstraintsOf
<1>16. \A t : SeatKey(t)' = SeatKey(t)
  BY <1>1 DEF SeatKey
<1>17. BoardStands' = BoardStands
  BY <1>14, <1>15, <1>16 DEF BoardStands
<1> QED
  BY <1>1, <1>3, <1>4, <1>8, <1>9, <1>10, <1>11, <1>12, <1>17

LEMMA BoardFacts ==
    ASSUME BoardStands, NEW t \in Task
    PROVE  /\ LeafIds(t) \in SUBSET Bottom /\ IsFiniteSet(LeafIds(t))
           /\ Constraints(t) \in SUBSET inst.dependencies
           /\ \A c \in Constraints(t) : c.predecessor \in Task /\ c.lag \in Int
           /\ SeatOf(t) = SeatKey(t)
<1>1. /\ LeafIds(t) = LeavesUnder(t) /\ Constraints(t) = ConstraintsOf(t) /\ SeatOf(t) = SeatKey(t)
      /\ inst \in Scenario
  BY DEF BoardStands, LeafIds, Constraints, SeatOf
<1>2. LeavesUnder(t) \in SUBSET Bottom
  BY DEF LeavesUnder, Bottom, Descendants, SubtreeIds
<1>3. IsFiniteSet(LeavesUnder(t))
  BY <1>2, HorizonAssumption, FS_Subset DEF Bottom
<1>4. ConstraintsOf(t) \in SUBSET inst.dependencies
  BY DEF ConstraintsOf
<1>5. \A c \in inst.dependencies : c.predecessor \in Task /\ c.lag \in Int
  BY <1>1, ScenarioAssumption
<1> QED
  BY <1>1, <1>2, <1>3, <1>4, <1>5

LEMMA TaskFacts ==
    ASSUME BoardStands, NEW t \in Task
    PROVE  /\ T(t).percent \in Nat /\ T(t).priority \in Int /\ t \in Nat
           /\ T(t).start \in Int \cup {NoDay} /\ T(t).due \in Int \cup {NoDay}
           /\ RemainingFrom(t) \in Nat \cup {NoHours}
<1>1. inst \in Scenario
  BY DEF BoardStands
<1>2. /\ T(t).manual \in Nat \cup {NoHours} /\ T(t).estimate \in Nat \cup {NoHours} /\ T(t).actual \in Nat
      /\ T(t).percent \in Nat /\ T(t).priority \in Int
      /\ T(t).start \in Int \cup {NoDay} /\ T(t).due \in Int \cup {NoDay}
  BY <1>1, ScenarioAssumption DEF T
<1>3. ASSUME T(t).estimate \in Nat
      PROVE  Max({T(t).estimate - T(t).actual, 0}) \in Nat
  <2>1. PICK x \in Int : x = T(t).estimate - T(t).actual
    BY <1>2, <1>3
  <2>4. Max({x, 0}) \in Nat
    BY GreaterOfTwo
  <2> QED
    BY <2>1, <2>4
<1>4. RemainingFrom(t) \in Nat \cup {NoHours}
  BY <1>2, <1>3 DEF RemainingFrom
<1> QED
  BY <1>2, <1>4, HorizonAssumption

LEMMA OpenFacts ==
    ASSUME BoardStands, NEW t \in Open
    PROVE  /\ t \in Task /\ t \in Bottom /\ ~HasSubtasks(t) /\ Classify(t) = "none"
           /\ RemainingFrom(t) \in Nat \ {0} /\ SeatOf(t) \in Seats
<1>1. t \in Task /\ t \in Bottom /\ ~HasSubtasks(t) /\ Classify(t) = "none"
  BY DEF Open, Bottom
<1>2. RemainingFrom(t) # NoHours /\ RemainingFrom(t) # 0 /\ SeatOf(t) \in Seats
  BY <1>1 DEF Classify
<1> QED
  BY <1>1, <1>2, TaskFacts

LEMMA ClassifiedFacts ==
    ASSUME NEW t
    PROVE  Classify(t) \in Gap \ {"waiting"}
BY DEF Classify, Gap

LEMMA Hundredths ==
    ASSUME NEW x \in Nat, NEW y \in Nat
    PROVE  (x * y) \div 100 \in Nat
<1>1. x * y \in Nat
  OBVIOUS
<1> QED
  BY <1>1

LEMMA SeatFacts ==
    ASSUME BoardStands, NEW key \in Seats, NEW d
    PROVE  PersonHours(key, d) \in Nat
<1>1. inst \in Scenario
  BY DEF BoardStands
<1>2. key[1] \in User
  <2>1. \A t \in Task : T(t).assignee \in User \cup {NoUser}
    BY <1>1, ScenarioAssumption DEF T
  <2> QED
    BY <2>1 DEF Seats
<1>3. key[2] # NoProject => key[2] \in DOMAIN inst.members /\ key[1] \in DOMAIN inst.members[key[2]]
  <2>1. \/ key \in User \X DOMAIN inst.members /\ key[1] \in DOMAIN inst.members[key[2]]
        \/ \E u : key = <<u, NoProject>>
    BY DEF Seats
  <2>2. ASSUME NEW u, key = <<u, NoProject>> PROVE key[2] = NoProject
    BY <2>2
  <2> QED
    BY <2>1, <2>2
<1>4. Capacity(key).hours \in Nat /\ Capacity(key).engagement \in 0..100
  <2>1. \A p \in DOMAIN inst.members : \A u \in DOMAIN inst.members[p] :
            inst.members[p][u].hours \in Nat /\ inst.members[p][u].engagement \in 0..100
    BY <1>1, ScenarioAssumption
  <2>2. CASE key[2] = NoProject
    <3>1. Capacity(key) = [hours |-> DefaultHours, engagement |-> 100]
      BY <2>2 DEF Capacity
    <3> QED
      BY <3>1, HorizonAssumption
  <2>3. CASE key[2] # NoProject
    <3>1. Capacity(key) = inst.members[key[2]][key[1]]
      BY <2>3 DEF Capacity
    <3> QED
      BY <1>3, <2>1, <2>3, <3>1
  <2> QED
    BY <2>2, <2>3
<1>5. HoursPerDay(key) \in Nat
  BY <1>4, Hundredths DEF HoursPerDay
<1>6. ASSUME d \in DOMAIN inst.dayHours[key[1]] PROVE inst.dayHours[key[1]][d] \in Nat
  BY <1>1, <1>2, <1>6, ScenarioAssumption
<1>7. ASSUME d \in DOMAIN inst.leave[key[1]] PROVE inst.leave[key[1]][d] \in 0..100
  BY <1>1, <1>2, <1>7, ScenarioAssumption
<1>8. ASSUME d \in DOMAIN inst.dayHours[key[1]] PROVE PersonHours(key, d) \in Nat
  <2>1. (inst.dayHours[key[1]][d] * Capacity(key).engagement) \div 100 \in Nat
    BY <1>4, <1>6, <1>8, Hundredths
  <2> QED
    BY <1>8, <2>1 DEF PersonHours
<1>9. ASSUME d \notin DOMAIN inst.dayHours[key[1]] PROVE PersonHours(key, d) \in Nat
  <2>1. PICK off : off = IF d \in DOMAIN inst.leave[key[1]] THEN inst.leave[key[1]][d] ELSE 0
    OBVIOUS
  <2>2. 100 - off \in Nat
    BY <1>7, <2>1
  <2>3. (HoursPerDay(key) * (100 - off)) \div 100 \in Nat
    BY <1>5, <2>2, Hundredths
  <2> QED
    BY <1>9, <2>1, <2>3 DEF PersonHours
<1> QED
  BY <1>8, <1>9

------------------------------------------------------------------------------
(* The queue.                                                               *)

LEMMA OrLastIsADay ==
    ASSUME NEW d \in Int \cup {NoDay}
    PROVE  OrLast(d) \in Int
BY HorizonAssumption DEF OrLast

Key1(t) == OrLast(T(t).due)
Key2(t) == -T(t).priority
Key3(t) == OrLast(T(t).start)

\* One key after the other.
KeysBefore(a, b) ==
    \/ Key1(a) < Key1(b)
    \/ Key1(a) = Key1(b) /\ Key2(a) < Key2(b)
    \/ Key1(a) = Key1(b) /\ Key2(a) = Key2(b) /\ Key3(a) < Key3(b)
    \/ Key1(a) = Key1(b) /\ Key2(a) = Key2(b) /\ Key3(a) = Key3(b) /\ a < b

LEMMA QueueKeys ==
    ASSUME NEW a, NEW b
    PROVE  QueueBefore(a, b) <=> KeysBefore(a, b)
<1>1. PICK x : x = <<Key1(a), Key2(a), Key3(a), a>>
  OBVIOUS
<1>2. PICK y : y = <<Key1(b), Key2(b), Key3(b), b>>
  OBVIOUS
<1>3. QueueBefore(a, b) <=> \E i \in 1..4 : x[i] < y[i] /\ \A j \in 1..(i - 1) : x[j] = y[j]
  BY <1>1, <1>2 DEF QueueBefore, Key1, Key2, Key3
<1>4. KeysBefore(a, b) <=> \/ x[1] < y[1]
                           \/ x[1] = y[1] /\ x[2] < y[2]
                           \/ x[1] = y[1] /\ x[2] = y[2] /\ x[3] < y[3]
                           \/ x[1] = y[1] /\ x[2] = y[2] /\ x[3] = y[3] /\ x[4] < y[4]
  BY <1>1, <1>2 DEF KeysBefore
<1>5. ASSUME NEW i \in 1..4, x[i] < y[i], \A j \in 1..(i - 1) : x[j] = y[j] PROVE KeysBefore(a, b)
  <2>1. i = 1 \/ i = 2 \/ i = 3 \/ i = 4
    OBVIOUS
  <2>2. CASE i = 1
    BY <1>4, <1>5, <2>2
  <2>3. CASE i = 2
    BY <1>4, <1>5, <2>3
  <2>4. CASE i = 3
    BY <1>4, <1>5, <2>4
  <2>5. CASE i = 4
    BY <1>4, <1>5, <2>5
  <2> QED
    BY <2>1, <2>2, <2>3, <2>4, <2>5
<1>6. ASSUME KeysBefore(a, b) PROVE \E i \in 1..4 : x[i] < y[i] /\ \A j \in 1..(i - 1) : x[j] = y[j]
  <2>1. \A j \in 1..3 : j = 1 \/ j = 2 \/ j = 3
    OBVIOUS
  <2>2. CASE x[1] < y[1]
    BY <2>2
  <2>3. CASE x[1] = y[1] /\ x[2] < y[2]
    BY <2>3
  <2>4. CASE x[1] = y[1] /\ x[2] = y[2] /\ x[3] < y[3]
    BY <2>4
  <2>5. CASE x[1] = y[1] /\ x[2] = y[2] /\ x[3] = y[3] /\ x[4] < y[4]
    BY <2>1, <2>5
  <2> QED
    BY <1>4, <1>6, <2>2, <2>3, <2>4, <2>5
<1> QED
  BY <1>3, <1>5, <1>6

LEMMA QueueIsAnOrder ==
    ASSUME BoardStands, NEW a \in Task, NEW b \in Task, NEW c \in Task
    PROVE  /\ ~QueueBefore(a, a)
           /\ QueueBefore(a, b) /\ QueueBefore(b, c) => QueueBefore(a, c)
           /\ a # b => QueueBefore(a, b) \/ QueueBefore(b, a)
<1>1. ASSUME NEW t \in Task PROVE Key1(t) \in Int /\ Key2(t) \in Int /\ Key3(t) \in Int /\ t \in Int
  <2>1. /\ T(t).priority \in Int /\ t \in Nat
        /\ T(t).start \in Int \cup {NoDay} /\ T(t).due \in Int \cup {NoDay}
    BY TaskFacts
  <2>2. Key2(t) \in Int
    <3>1. PICK p \in Int : p = T(t).priority
      BY <2>1
    <3> QED
      BY <3>1 DEF Key2
  <2>3. Key1(t) \in Int
    BY <2>1, OrLastIsADay DEF Key1
  <2>4. Key3(t) \in Int
    BY <2>1, OrLastIsADay DEF Key3
  <2> QED
    BY <2>1, <2>2, <2>3, <2>4
<1>2. ~KeysBefore(a, a)
  BY <1>1 DEF KeysBefore
<1>3. KeysBefore(a, b) /\ KeysBefore(b, c) => KeysBefore(a, c)
  BY <1>1 DEF KeysBefore
<1>4. a # b => KeysBefore(a, b) \/ KeysBefore(b, a)
  BY <1>1 DEF KeysBefore
<1> QED
  BY <1>2, <1>3, <1>4, QueueKeys

LEMMA ServingIsAnOrder ==
    ASSUME BoardStands, NEW a \in Task, NEW b \in Task, NEW c \in Task
    PROVE  /\ ~ServedBefore(a, a)
           /\ ServedBefore(a, b) /\ ServedBefore(b, c) => ServedBefore(a, c)
           /\ a # b => ServedBefore(a, b) \/ ServedBefore(b, a)
<1>1. PICK P \in Nat : P = T(a).percent
  BY TaskFacts
<1>2. PICK Q \in Nat : Q = T(b).percent
  BY TaskFacts
<1>3. PICK R \in Nat : R = T(c).percent
  BY TaskFacts
<1>4. /\ ServedBefore(a, b) <=> (P > 0 /\ Q = 0) \/ ((P > 0 <=> Q > 0) /\ QueueBefore(a, b))
      /\ ServedBefore(b, a) <=> (Q > 0 /\ P = 0) \/ ((P > 0 <=> Q > 0) /\ QueueBefore(b, a))
      /\ ServedBefore(b, c) <=> (Q > 0 /\ R = 0) \/ ((Q > 0 <=> R > 0) /\ QueueBefore(b, c))
      /\ ServedBefore(a, c) <=> (P > 0 /\ R = 0) \/ ((P > 0 <=> R > 0) /\ QueueBefore(a, c))
      /\ ServedBefore(a, a) <=> QueueBefore(a, a)
  BY <1>1, <1>2, <1>3 DEF ServedBefore
<1>5. /\ ~QueueBefore(a, a)
      /\ QueueBefore(a, b) /\ QueueBefore(b, c) => QueueBefore(a, c)
      /\ a # b => QueueBefore(a, b) \/ QueueBefore(b, a)
  BY QueueIsAnOrder
<1> QED
  BY <1>4, <1>5

RankIn(ready, t) == Cardinality({x \in ready : ServedBefore(x, t)})

LEMMA RanksAreNumbers ==
    ASSUME BoardStands, NEW ready \in SUBSET Task, IsFiniteSet(ready), NEW t \in ready
    PROVE  RankIn(ready, t) \in 0..(Cardinality(ready) - 1)
<1> DEFINE A == {x \in ready : ServedBefore(x, t)}
<1>1. IsFiniteSet(A) /\ Cardinality(A) \in Nat /\ Cardinality(ready) \in Nat
  BY FS_Subset, FS_CardinalityType
<1>2. t \notin A
  BY ServingIsAnOrder
<1>3. A \in SUBSET ready /\ A # ready
  BY <1>2
<1>4. Cardinality(A) <= Cardinality(ready) /\ Cardinality(A) # Cardinality(ready)
  BY <1>3, FS_Subset
<1> QED
  BY <1>1, <1>4 DEF RankIn

LEMMA RanksGrow ==
    ASSUME BoardStands, NEW ready \in SUBSET Task, IsFiniteSet(ready), NEW s \in ready, NEW t \in ready,
           ServedBefore(s, t)
    PROVE  RankIn(ready, s) < RankIn(ready, t)
<1> DEFINE A == {x \in ready : ServedBefore(x, s)}
           B == {x \in ready : ServedBefore(x, t)}
<1>1. \A x \in A : x \in B
  BY ServingIsAnOrder
<1>2. s \in B /\ s \notin A
  BY ServingIsAnOrder
<1>3. A \in SUBSET B /\ A # B
  BY <1>1, <1>2
<1>4. IsFiniteSet(B)
  BY FS_Subset
<1>5. Cardinality(A) <= Cardinality(B) /\ Cardinality(A) # Cardinality(B)
  BY <1>3, <1>4, FS_Subset
<1>6. Cardinality(A) \in Nat /\ Cardinality(B) \in Nat
  BY <1>3, <1>4, FS_Subset, FS_CardinalityType
<1> QED
  BY <1>5, <1>6 DEF RankIn

\* Each place of the queue is somebody's.
LEMMA EveryRankIsTaken ==
    ASSUME BoardStands, NEW ready \in SUBSET Task, IsFiniteSet(ready), NEW i \in 1..Cardinality(ready)
    PROVE  \E t \in ready : RankIn(ready, t) = i - 1
<1> DEFINE n == Cardinality(ready)
           I == 0..(n - 1)
           f == [t \in ready |-> RankIn(ready, t)]
<1>1. n \in Nat
  BY FS_CardinalityType
<1>2. \A t \in ready : RankIn(ready, t) \in I
  BY RanksAreNumbers
<1>3. ASSUME NEW s \in ready, NEW t \in ready, RankIn(ready, s) = RankIn(ready, t) PROVE s = t
  <2> SUFFICES ASSUME s # t PROVE FALSE
    OBVIOUS
  <2>1. ServedBefore(s, t) \/ ServedBefore(t, s)
    BY ServingIsAnOrder
  <2>2. RankIn(ready, s) \in Nat /\ RankIn(ready, t) \in Nat
    BY <1>1, <1>2
  <2> QED
    BY <1>3, <2>1, <2>2, RanksGrow
<1>4. f \in Injection(ready, I)
  BY <1>2, <1>3 DEF Injection, IsInjective
<1>5. IsFiniteSet(I) /\ Cardinality(I) = n
  <2>1. 0 \in Int /\ n - 1 \in Int
    BY <1>1
  <2>2. IsFiniteSet(I) /\ Cardinality(I) = IF 0 > n - 1 THEN 0 ELSE (n - 1) - 0 + 1
    BY <2>1, FS_Interval
  <2> QED
    BY <1>1, <2>2
<1>6. f \in Surjection(ready, I)
  BY <1>4, <1>5, FS_Injection
<1>7. i - 1 \in I
  BY <1>1
<1> QED
  BY <1>6, <1>7 DEF Surjection

\* A share is a number of hours, and only who has a percentage has one.
LEMMA SharesAreHours ==
    ASSUME BoardStands, NEW ready \in SUBSET Task, NEW t \in ready, NEW capacity \in Nat,
           ShareOf(t, ready, capacity) # NoHours
    PROVE  ShareOf(t, ready, capacity) \in Nat /\ T(t).percent > 0
<1> DEFINE f == [x \in ready |-> T(x).percent]
<1>1. IsFiniteSet(ready)
  BY HorizonAssumption, FS_Subset
<1>2. \A x \in ready : f[x] \in Nat
  BY TaskFacts
<1>3. DOMAIN f = ready
  OBVIOUS
<1>4. PICK sum \in Nat : sum = SumFunction(f)
  <2> HIDE DEF f
  <2>1. SumFunctionOnSet(f, ready) \in Nat
    BY <1>1, <1>2, SumBounds
  <2> QED
    BY <1>3, <2>1 DEF SumFunction
<1>5. PICK m \in Nat : m = Max({100, sum}) /\ m >= 100
  BY GreaterOfTwo
<1>6. PICK p \in Nat : p = T(t).percent
  BY <1>2
<1>7. p # 0
  BY <1>6 DEF ShareOf
<1>8. ShareOf(t, ready, capacity) = (capacity * p) \div m
  BY <1>4, <1>5, <1>6, <1>7 DEF ShareOf
<1>9. capacity * p \in Nat
  OBVIOUS
<1>10. \A x, y \in Nat : y >= 100 => x \div y \in Nat
  OBVIOUS
<1>11. (capacity * p) \div m \in Nat
  BY <1>5, <1>9, <1>10
<1> QED
  BY <1>6, <1>7, <1>8, <1>11

LEMMA EmptyQueue ==
    <<>> \in Seq(Range(<<>>)) /\ Range(<<>>) = {}
BY DEF Range

LEMMA QueueStep ==
    ASSUME NEW q, q \in Seq(Range(q)), q # <<>>
    PROVE  /\ Head(q) \in Range(q) /\ Tail(q) \in Seq(Range(Tail(q)))
           /\ Range(Tail(q)) \in SUBSET Range(q)
           /\ \A x \in Range(q) : x = Head(q) \/ x \in Range(Tail(q))
<1>1. PICK R : R = Range(q)
  OBVIOUS
<1>2. q \in Seq(R) /\ Len(q) \in Nat /\ q \in [1..Len(q) -> R]
  BY <1>1
<1>3. Len(q) > 0
  BY <1>2
<1>4. /\ Tail(q) \in Seq(R) /\ Len(Tail(q)) = Len(q) - 1 /\ Head(q) = q[1]
      /\ \A i \in 1..(Len(q) - 1) : Tail(q)[i] = q[i + 1]
  BY <1>2, <1>3
<1>5. DOMAIN Tail(q) = 1..(Len(q) - 1)
  BY <1>4
<1>6. Range(Tail(q)) = {Tail(q)[i] : i \in 1..(Len(q) - 1)}
  BY <1>5 DEF Range
<1>7. R = {q[i] : i \in 1..Len(q)}
  BY <1>1, <1>2 DEF Range
<1>8. Head(q) \in R
  BY <1>3, <1>4, <1>2
<1>9. Range(Tail(q)) \in SUBSET R
  BY <1>2, <1>3, <1>4, <1>6, <1>7
<1>10. ASSUME NEW x \in R PROVE x = Head(q) \/ x \in Range(Tail(q))
  <2>1. PICK i \in 1..Len(q) : x = q[i]
    BY <1>7, <1>10
  <2>2. CASE i = 1
    BY <1>4, <2>1, <2>2
  <2>3. CASE i # 1
    <3>1. i - 1 \in 1..(Len(q) - 1) /\ (i - 1) + 1 = i
      BY <1>2, <2>3
    <3>2. Tail(q)[i - 1] = x
      BY <1>4, <2>1, <3>1
    <3> QED
      BY <1>6, <3>1, <3>2
  <2> QED
    BY <2>2, <2>3
<1>11. PICK U : U = Range(Tail(q))
  OBVIOUS
<1>12. PICK w : w = Tail(q)
  OBVIOUS
<1>13. w \in Seq(U)
  <2>1. w \in Seq(R)
    BY <1>4, <1>12
  <2>2. Len(w) \in Nat /\ w \in [1..Len(w) -> R]
    BY <2>1, LenProperties
  <2>3. U = {w[i] : i \in 1..Len(w)}
    BY <1>11, <1>12, <2>2 DEF Range
  <2>4. w \in [1..Len(w) -> U]
    BY <2>2, <2>3
  <2> QED
    BY <2>2, <2>4, SeqDef
<1> QED
  BY <1>1, <1>8, <1>9, <1>10, <1>11, <1>12, <1>13

\* _hand_out serves those that are ready.
LEMMA HandOutServes ==
    ASSUME BoardStands, NEW ready \in SUBSET Task, NEW capacity \in Nat
    PROVE  /\ HandOut(ready, capacity) \in Seq(Range(HandOut(ready, capacity)))
           /\ \A e \in Range(HandOut(ready, capacity)) :
                 /\ e.task \in ready
                 /\ e.share # NoHours => e.share \in Nat /\ T(e.task).percent > 0
<1> DEFINE n == Cardinality(ready)
           nth(i) == CHOOSE t \in ready : RankIn(ready, t) = i - 1
           entry(i) == [task |-> nth(i), share |-> ShareOf(nth(i), ready, capacity)]
<1>1. IsFiniteSet(ready) /\ n \in Nat
  BY HorizonAssumption, FS_Subset, FS_CardinalityType
<1>2. HandOut(ready, capacity) = [i \in 1..n |-> entry(i)]
  BY DEF HandOut, RankIn
<1>3. \A i \in 1..n : nth(i) \in ready
  BY <1>1, EveryRankIsTaken
<1> HIDE DEF nth
<1>4. ASSUME NEW i \in 1..n
      PROVE  /\ entry(i).task \in ready
             /\ entry(i).share # NoHours => entry(i).share \in Nat /\ T(entry(i).task).percent > 0
  <2>1. PICK t \in ready : t = nth(i)
    BY <1>3
  <2>2. entry(i).task = t /\ entry(i).share = ShareOf(t, ready, capacity)
    BY <2>1
  <2> QED
    BY <2>2, SharesAreHours
<1> HIDE DEF entry
<1>5. PICK q : q = [i \in 1..n |-> entry(i)]
  OBVIOUS
<1>6. Range(q) = {entry(i) : i \in 1..n}
  BY <1>5 DEF Range
<1>7. PICK R : R = Range(q)
  OBVIOUS
<1>8. q \in [1..n -> R]
  BY <1>5, <1>6, <1>7
<1>9. q \in Seq(R)
  BY <1>1, <1>8
<1> QED
  BY <1>2, <1>4, <1>5, <1>6, <1>7, <1>9

------------------------------------------------------------------------------
(* Starts and ends of tasks with children.                                  *)

LEMMA LeavesAreTasks ==
    ASSUME BoardStands, Shapes
    PROVE  /\ \A t \in leaves : t \in Task /\ t \in Bottom /\ t \in Open /\ Classify(t) = "none" /\ SeatOf(t) \in Seats
           /\ \A t \in leaves : SeatOf(t) \in WorkSeats
           /\ WorkSeats \in SUBSET Seats
           /\ IsFiniteSet(leaves) /\ Cardinality(leaves) \in Nat
<1>1. \A t \in leaves : t \in Task /\ t \in Bottom /\ t \in Open /\ Classify(t) = "none" /\ SeatOf(t) \in Seats
  BY OpenFacts DEF Shapes
<1>2. IsFiniteSet(leaves) /\ Cardinality(leaves) \in Nat
  BY <1>1, HorizonAssumption, FS_Subset, FS_CardinalityType
<1> QED
  BY <1>1, <1>2 DEF WorkSeats, SeatOf

LEMMA NodeFinishIsADay ==
    ASSUME BoardStands, Shapes, NEW p \in Task
    PROVE  /\ NodeFinish(p) # NoDay <=> Ended(p)
           /\ NodeFinish(p) # NoDay => NodeFinish(p) \in Int
<1>1. PICK ls : ls = LeafIds(p) \cap leaves
  OBVIOUS
<1>2. NodeFinish(p) = IF \E l \in ls : finish[l] = NoDay THEN NoDay ELSE Max({-1} \cup {finish[l] : l \in ls})
  BY <1>1 DEF NodeFinish
<1>3. Ended(p) <=> ~\E l \in ls : finish[l] = NoDay
  BY <1>1 DEF Ended
<1>4. ASSUME ~\E l \in ls : finish[l] = NoDay PROVE Max({-1} \cup {finish[l] : l \in ls}) \in Int
  <2>1. PICK S : S = {-1} \cup {finish[l] : l \in ls}
    OBVIOUS
  <2>2. ls \in SUBSET Task
    BY <1>1, BoardFacts DEF Bottom
  <2>3. \A l \in ls : finish[l] \in Int
    BY <1>4, <2>2 DEF Shapes
  <2>4. IsFiniteSet(ls)
    BY <2>2, HorizonAssumption, FS_Subset
  <2>5. IsFiniteSet({finish[l] : l \in ls})
    BY <2>4, ImageIsFinite
  <2>6. IsFiniteSet(S)
    BY <2>1, <2>5, FS_Singleton, FS_Union
  <2>7. S \in SUBSET Int /\ S # {}
    BY <2>1, <2>3
  <2>8. Max(S) \in S
    BY <2>6, <2>7, MaxInSet
  <2> QED
    BY <2>1, <2>7, <2>8
<1> QED
  BY <1>2, <1>3, <1>4, HorizonAssumption

LEMMA NodeStartIsADay ==
    ASSUME BoardStands, Shapes, NEW p \in Task, NodeStart(p) # NoDay
    PROVE  NodeStart(p) \in Int
<1>1. PICK begun : begun = {start[l] : l \in {x \in LeafIds(p) : start[x] # NoDay}}
  OBVIOUS
<1>2. NodeStart(p) = IF \E l \in LeafIds(p) : l \notin leaves \/ StartedBeforeToday(l) THEN -1
                     ELSE IF begun = {} THEN NoDay ELSE Min(begun)
  BY <1>1 DEF NodeStart
<1>3. \A l \in LeafIds(p) : l \in Task
  BY BoardFacts DEF Bottom
<1>4. begun \in SUBSET Nat
  BY <1>1, <1>3, HorizonAssumption DEF Shapes, LastDay
<1>5. begun # {} => Min(begun) \in Nat
  BY <1>4, MinInSet
<1> QED
  BY <1>2, <1>5

\* What may not begin before a predecessor does not move it.
LEMMA NodeFinishKept ==
    ASSUME UNCHANGED <<inst, board, leaves>>, NEW p, \A l \in LeafIds(p) \cap leaves : finish'[l] = finish[l]
    PROVE  NodeFinish(p)' = NodeFinish(p)
<1>1. PICK ls : ls = LeafIds(p) \cap leaves
  OBVIOUS
<1>2. NodeFinish(p) = IF \E l \in ls : finish[l] = NoDay THEN NoDay ELSE Max({-1} \cup {finish[l] : l \in ls})
  BY <1>1 DEF NodeFinish
<1>3. LeafIds(p)' \cap leaves' = ls
  BY <1>1, Frozen
<1>4. NodeFinish(p)' = IF \E l \in ls : finish'[l] = NoDay THEN NoDay ELSE Max({-1} \cup {finish'[l] : l \in ls})
  BY <1>3 DEF NodeFinish
<1>5. \A l \in ls : finish'[l] = finish[l]
  BY <1>1
<1>6. {finish'[l] : l \in ls} = {finish[l] : l \in ls}
  BY <1>5
<1> QED
  BY <1>2, <1>4, <1>5, <1>6

LEMMA NodeStartKept ==
    ASSUME BoardStands, Shapes, UNCHANGED <<inst, board, leaves>>, NEW p \in Task, NEW d \in Nat, NodeStart(p) # NoDay,
           \A l \in Task : start[l] # NoDay => start'[l] = start[l] /\ start[l] <= d,
           \A l \in Task : start'[l] # start[l] => start'[l] = d
    PROVE  NodeStart(p)' = NodeStart(p)
<1>1. PICK begun : begun = {start[l] : l \in {x \in LeafIds(p) : start[x] # NoDay}}
  OBVIOUS
<1>2. PICK now : now = {start'[l] : l \in {x \in LeafIds(p) : start'[x] # NoDay}}
  OBVIOUS
<1>3. NodeStart(p) = IF \E l \in LeafIds(p) : l \notin leaves \/ StartedBeforeToday(l) THEN -1
                     ELSE IF begun = {} THEN NoDay ELSE Min(begun)
  BY <1>1 DEF NodeStart
<1>4. NodeStart(p)' = IF \E l \in LeafIds(p) : l \notin leaves \/ StartedBeforeToday(l) THEN -1
                      ELSE IF now = {} THEN NoDay ELSE Min(now)
  <2>1. LeafIds(p)' = LeafIds(p) /\ \A l : StartedBeforeToday(l)' = StartedBeforeToday(l)
    BY Frozen
  <2> QED
    BY <1>2, <2>1 DEF NodeStart
<1>5. \A l \in LeafIds(p) : l \in Task
  BY BoardFacts DEF Bottom
<1>6. \A l \in Task : start[l] # NoDay => start[l] \in Nat
  BY HorizonAssumption DEF Shapes, LastDay
<1>7. begun \in SUBSET Nat /\ \A x \in begun : x <= d
  BY <1>1, <1>5, <1>6
<1>8. begun \in SUBSET now
  BY <1>1, <1>2, <1>5
<1>9. \A x \in now : x \in begun \/ x = d
  BY <1>1, <1>2, <1>5
<1>10. ASSUME begun # {} PROVE now # {} /\ Min(now) = Min(begun)
  <2>1. now \in SUBSET Nat /\ now # {}
    BY <1>7, <1>8, <1>9, <1>10
  <2>2. Min(begun) \in begun /\ \A x \in begun : Min(begun) <= x
    BY <1>7, <1>10, MinInSet
  <2>3. Min(now) \in now /\ \A x \in now : Min(now) <= x
    BY <2>1, MinInSet
  <2>4. PICK m \in Nat : m = Min(begun)
    BY <1>7, <2>2
  <2>5. PICK n \in Nat : n = Min(now)
    BY <2>1, <2>3
  <2>6. n <= m
    BY <1>8, <2>2, <2>3, <2>4, <2>5
  <2>7. m <= n
    BY <1>7, <1>9, <2>2, <2>3, <2>4, <2>5
  <2> QED
    BY <2>1, <2>4, <2>5, <2>6, <2>7
<1> QED
  BY <1>3, <1>4, <1>10

\* In a ring a task waits for one that is laid out too.
LEMMA RingNeighbour ==
    ASSUME BoardStands, Shapes, Gaps, Known, phase \in {"simulate", "floors", "report"},
           NEW ring \in SUBSET Open, IsRing(ring), NEW t \in ring, t \in leaves
    PROVE  \E c \in Constraints(t) : c.kind = "FS" /\ \E r \in ring : r \in LeafIds(c.predecessor) /\ r \in leaves
<1>1. PICK c \in Constraints(t) : c.kind = "FS" /\ LeafIds(c.predecessor) \cap ring # {}
  BY DEF IsRing
<1>2. PICK r \in ring : r \in LeafIds(c.predecessor)
  BY <1>1
<1>3. r \in Task /\ r \in Bottom /\ Classify(r) = "none"
  BY OpenFacts
<1>4. ~WaitsOnUnforecast(t)
  BY DEF Known
<1>5. ~IsUnforecast(c.predecessor)
  BY <1>4 DEF WaitsOnUnforecast
<1>6. r \in leaves \/ gap[r] = "finished"
  BY <1>2, <1>5 DEF IsUnforecast
<1>7. gap[r] \in {"none", "waiting"}
  BY <1>3 DEF Gaps
<1> QED
  BY <1>1, <1>2, <1>6, <1>7

------------------------------------------------------------------------------
(* The tasks are sorted out.                                                *)

LEMMA Begins ==
    ASSUME ForecastInit
    PROVE  ForecastInv
<1>1. BoardStands
  BY DEF ForecastInit, BoardStands
<1>2. Shapes
  <2>1. queue \in Seq(Range(queue))
    BY EmptyQueue DEF ForecastInit
  <2>2. gap \in [Task -> Gap] /\ rem \in [Task -> Nat]
    BY DEF ForecastInit, Gap
  <2>5. left \in [DOMAIN left -> Nat]
    <3>1. left = [key \in {} |-> 0]
      BY DEF ForecastInit
    <3>2. DOMAIN left = {}
      BY <3>1
    <3> QED
      BY <3>1, <3>2
  <2>3. start \in [Task -> (0..LastDay) \cup {NoDay}] /\ finish \in [Task -> Int \cup {NoDay}]
    BY DEF ForecastInit
  <2>4. phase = "classify" /\ leaves = {} /\ given = {} /\ day = 0 /\ raised = FALSE /\ rounds = 0
    BY DEF ForecastInit
  <2>6. /\ phase \in {"classify", "wait", "simulate", "floors", "report", "done"}
        /\ leaves \in SUBSET Open /\ given \in SUBSET leaves /\ raised \in BOOLEAN /\ rounds \in Nat
    BY <2>4
  <2>7. day \in 0..Horizon
    BY <2>4, HorizonAssumption
  <2> QED
    BY <2>1, <2>2, <2>3, <2>5, <2>6, <2>7 DEF Shapes
<1>3. Order
  BY DEF ForecastInit, Order
<1>4. Gaps
  BY DEF ForecastInit, Gaps
<1>5. Dates
  BY DEF ForecastInit, Dates
<1>6. phase = "classify"
  BY DEF ForecastInit
<1>7. Hands /\ Queued /\ Known /\ EndedBefore /\ RingsNeverBegin /\ FloorsRise
  BY <1>6 DEF Hands, Queued, Known, EndedBefore, RingsNeverBegin, FloorsRise
<1>8. StartsRespectDependencies /\ FinishFloorsHold /\ RingsWait /\ UnknownsArePassedOn
  BY <1>6 DEF StartsRespectDependencies, FinishFloorsHold, RingsWait, UnknownsArePassedOn
<1> QED
  BY <1>1, <1>2, <1>3, <1>4, <1>5, <1>7, <1>8 DEF ForecastInv

\* What concerns only the days has nothing to say before them.
LEMMA BeforeTheDays ==
    ASSUME phase' = "wait"
    PROVE  /\ Hands' /\ Queued' /\ Known' /\ EndedBefore' /\ RingsNeverBegin' /\ FloorsRise'
           /\ StartsRespectDependencies' /\ FinishFloorsHold' /\ RingsWait' /\ UnknownsArePassedOn'
<1>1. Hands' /\ Queued' /\ Known' /\ EndedBefore' /\ RingsNeverBegin' /\ FloorsRise'
  BY DEF Hands, Queued, Known, EndedBefore, RingsNeverBegin, FloorsRise
<1>2. StartsRespectDependencies' /\ FinishFloorsHold' /\ RingsWait' /\ UnknownsArePassedOn'
  BY DEF StartsRespectDependencies, FinishFloorsHold, RingsWait, UnknownsArePassedOn
<1> QED
  BY <1>1, <1>2

LEMMA ClassifyAllKeeps ==
    ASSUME ForecastInv, ClassifyAll
    PROVE  ForecastInv'
<1>1. /\ phase = "classify" /\ phase' = "wait"
      /\ UNCHANGED <<inst, board, start, finish, day, left, given, queue, raised, rounds>>
      /\ leaves' = Open
      /\ gap' = [t \in Task |-> IF t \in Bottom THEN Classify(t) ELSE "none"]
      /\ rem' = [t \in Task |-> IF t \in leaves' THEN RemainingFrom(t) ELSE 0]
  BY DEF ClassifyAll, Open, Bottom
<1>2. /\ Bottom' = Bottom /\ Open' = Open /\ BoardStands' = BoardStands
      /\ \A t : Classify(t)' = Classify(t)
  BY <1>1, Frozen
<1>3. BoardStands /\ BoardStands' /\ given = {} /\ Shapes /\ Order /\ Dates
  BY <1>1, <1>2 DEF ForecastInv, Order
<1>4. \A t \in Task : Classify(t) \in Gap \ {"waiting"}
  BY ClassifiedFacts
<1>5. \A t \in Open : t \in Task /\ t \in Bottom /\ Classify(t) = "none" /\ RemainingFrom(t) \in Nat \ {0}
  BY <1>3, OpenFacts
<1>6. Shapes'
  <2>1. gap' \in [Task -> Gap]
    BY <1>1, <1>4 DEF Gap
  <2>2. rem' \in [Task -> Nat]
    BY <1>1, <1>5
  <2> QED
    BY <1>1, <1>2, <1>3, <2>1, <2>2 DEF Shapes
<1>7. Order'
  BY <1>1, <1>3 DEF Order
<1>8. Gaps'
  BY <1>1, <1>2, <1>5 DEF Gaps, Open, Bottom
<1>9. Dates'
  <2>1. \A t \in Task : start[t] = NoDay /\ finish[t] = NoDay
    BY <1>1, <1>3 DEF Dates
  <2>2. \A t \in leaves' : rem'[t] > 0
    BY <1>1, <1>5
  <2> QED
    BY <1>1, <1>5, <2>1, <2>2 DEF Dates
<1> QED
  BY <1>1, <1>3, <1>6, <1>7, <1>8, <1>9, BeforeTheDays DEF ForecastInv

LEMMA WaitForUnforecastKeeps ==
    ASSUME ForecastInv, WaitForUnforecast
    PROVE  ForecastInv'
<1>1. PICK t \in leaves : leaves' = leaves \ {t} /\ gap' = [gap EXCEPT ![t] = "waiting"]
  BY DEF WaitForUnforecast
<1>2. /\ phase = "wait" /\ phase' = "wait"
      /\ UNCHANGED <<inst, board, rem, start, finish, day, left, given, queue, raised, rounds>>
  BY DEF WaitForUnforecast
<1>3. /\ Bottom' = Bottom /\ Open' = Open /\ BoardStands' = BoardStands
      /\ \A x : Classify(x)' = Classify(x)
  BY <1>2, Frozen
<1>4. BoardStands /\ BoardStands' /\ given = {} /\ Shapes /\ Order /\ Gaps /\ Dates
  BY <1>2, <1>3 DEF ForecastInv, Order
<1>5. t \in Task /\ t \in Bottom
  BY <1>4, LeavesAreTasks
<1>6. Shapes'
  <2>1. gap' \in [Task -> Gap]
    BY <1>1, <1>4 DEF Gap, Shapes
  <2> QED
    BY <1>1, <1>2, <1>3, <1>4, <2>1 DEF Shapes
<1>7. Order'
  BY <1>2, <1>4 DEF Order
<1>8. Gaps'
  <2>1. \A x \in Task : gap'[x] = IF x = t THEN "waiting" ELSE gap[x]
    BY <1>1, <1>4 DEF Shapes
  <2> QED
    BY <1>1, <1>2, <1>3, <1>4, <1>5, <2>1 DEF Gaps
<1>9. Dates'
  BY <1>1, <1>2, <1>4 DEF Dates
<1> QED
  BY <1>2, <1>4, <1>6, <1>7, <1>8, <1>9, BeforeTheDays DEF ForecastInv

\* The hours of a day.
LEMMA HoursOfADay ==
    ASSUME BoardStands, Shapes, NEW d
    PROVE  /\ HoursOf(d) \in [WorkSeats -> Nat]
           /\ \A key \in WorkSeats : HoursOf(d)[key] = PersonHours(key, d)
<1>1. \A key \in WorkSeats : PersonHours(key, d) \in Nat
  BY LeavesAreTasks, SeatFacts
<1> QED
  BY <1>1 DEF HoursOf

LEMMA BeginSimulationKeeps ==
    ASSUME ForecastInv, BeginSimulation
    PROVE  ForecastInv'
<1>1. /\ phase = "wait" /\ phase' \in {"simulate", "floors"} /\ left' = HoursOf(0)
      /\ UNCHANGED <<inst, board, leaves, gap, rem, start, finish, day, given, queue, raised, rounds>>
      /\ \A t \in leaves : ~WaitsOnUnforecast(t)
  BY DEF BeginSimulation
<1>2. /\ Bottom' = Bottom /\ Open' = Open /\ BoardStands' = BoardStands
      /\ \A t : Classify(t)' = Classify(t) /\ LeafIds(t)' = LeafIds(t) /\ Constraints(t)' = Constraints(t)
      /\ \A key, d : PersonHours(key, d)' = PersonHours(key, d)
  BY <1>1, Frozen
<1>3. BoardStands /\ BoardStands' /\ Shapes /\ Order /\ Gaps /\ Dates
  BY <1>2 DEF ForecastInv
<1>4. given = {} /\ queue = <<>> /\ day = 0 /\ rounds = 0
  BY <1>1, <1>3 DEF Order
<1>5. \A t \in Task : start[t] = NoDay /\ finish[t] = NoDay
  BY <1>1, <1>3 DEF Dates
<1>6. WorkSeats' = WorkSeats
  BY <1>1 DEF WorkSeats
<1>7. left' \in [WorkSeats -> Nat] /\ \A key \in WorkSeats : left'[key] = PersonHours(key, day)
  BY <1>1, <1>3, <1>4, HoursOfADay
<1>8. Shapes'
  <2>1. left' \in [DOMAIN left' -> Nat]
    BY <1>7
  <2> QED
    BY <1>1, <1>2, <1>3, <2>1 DEF Shapes
<1>9. Order'
  BY <1>1, <1>3, <1>4 DEF Order
<1>10. Gaps'
  BY <1>1, <1>2, <1>3 DEF Gaps
<1>11. Dates'
  BY <1>1, <1>3, <1>5 DEF Dates
<1>12. Hands'
  <2>1. day' \in 0..LastDay
    BY <1>1, <1>4, HorizonAssumption DEF LastDay
  <2>2. \A key \in WorkSeats : left'[key] <= PersonHours(key, day)
    BY <1>7
  <2> QED
    BY <1>1, <1>2, <1>4, <1>6, <1>7, <2>1, <2>2 DEF Hands
<1>13. Range(queue') = {}
  BY <1>1, <1>4, EmptyQueue
<1>14. Queued' /\ FloorsRise'
  BY <1>1, <1>4, <1>13 DEF Queued, FloorsRise
<1>15. Known'
  <2>1. \A t : IsUnforecast(t)' = IsUnforecast(t)
    BY <1>1, <1>2 DEF IsUnforecast
  <2>2. \A t : WaitsOnUnforecast(t)' = WaitsOnUnforecast(t)
    BY <1>2, <2>1 DEF WaitsOnUnforecast
  <2> QED
    BY <1>1, <2>2 DEF Known
<1>16. \A t \in leaves : start'[t] = NoDay
  BY <1>1, <1>3, <1>5, LeavesAreTasks
<1>17. EndedBefore' /\ StartsRespectDependencies'
  BY <1>1, <1>16 DEF EndedBefore, StartsRespectDependencies
<1>18. RingsNeverBegin'
  <2>1. \A t \in Open' : t \in Task
    BY <1>2 DEF Open, Bottom
  <2> QED
    BY <1>1, <1>5, <2>1 DEF RingsNeverBegin
<1>19. FinishFloorsHold' /\ RingsWait' /\ UnknownsArePassedOn'
  BY <1>1 DEF FinishFloorsHold, RingsWait, UnknownsArePassedOn
<1> QED
  BY <1>3, <1>8, <1>9, <1>10, <1>11, <1>12, <1>14, <1>15, <1>17, <1>18, <1>19 DEF ForecastInv

------------------------------------------------------------------------------
(* The days.                                                                *)

\* Steps that leave starts and ends alone.
LEMMA SameNodes ==
    ASSUME UNCHANGED <<inst, board, leaves, start, finish>>
    PROVE  /\ \A t : NodeFinish(t)' = NodeFinish(t) /\ NodeStart(t)' = NodeStart(t) /\ Ended(t)' = Ended(t)
           /\ \A c : Base(c)' = Base(c)
           /\ \A t, c : Floor(t, c)' = Floor(t, c)
           /\ \A t, d : IsReady(t, d)' = IsReady(t, d)
<1>1. \A t : /\ T(t)' = T(t) /\ LeafIds(t)' = LeafIds(t) /\ Constraints(t)' = Constraints(t)
             /\ StartedBeforeToday(t)' = StartedBeforeToday(t)
  BY Frozen
<1>2. \A t : NodeFinish(t)' = NodeFinish(t) /\ NodeStart(t)' = NodeStart(t) /\ Ended(t)' = Ended(t)
  BY <1>1 DEF NodeFinish, NodeStart, Ended
<1>3. \A c : Base(c)' = Base(c)
  BY <1>2 DEF Base
<1>4. \A t, c : Floor(t, c)' = Floor(t, c)
  BY <1>3 DEF Floor
<1>5. \A c, d : IsSatisfied(c, d)' = IsSatisfied(c, d)
  BY <1>2 DEF IsSatisfied
<1>6. \A t, d : IsReady(t, d)' = IsReady(t, d)
  BY <1>1, <1>5 DEF IsReady
<1> QED
  BY <1>2, <1>3, <1>4, <1>6

LEMMA SameKnown ==
    ASSUME UNCHANGED <<inst, board, leaves, gap>>
    PROVE  \A t : WaitsOnUnforecast(t)' = WaitsOnUnforecast(t)
<1>1. \A t : LeafIds(t)' = LeafIds(t) /\ Constraints(t)' = Constraints(t)
  BY Frozen
<1>2. \A t : IsUnforecast(t)' = IsUnforecast(t)
  BY <1>1 DEF IsUnforecast
<1> QED
  BY <1>1, <1>2 DEF WaitsOnUnforecast

LEMMA LaidOutKeeps ==
    ASSUME ForecastInv, phase \in {"simulate", "floors"}, phase' \in {"simulate", "floors", "report"},
           UNCHANGED <<inst, board, leaves, gap, rem, start, finish>>
    PROVE  /\ BoardStands' /\ Gaps' /\ Known' /\ EndedBefore' /\ RingsNeverBegin' /\ RingsWait' /\ UnknownsArePassedOn'
           /\ (phase' = "simulate" => phase = "simulate" /\ day' >= day /\ day' \in Nat) => Dates'
<1>1. /\ Bottom' = Bottom /\ Open' = Open /\ BoardStands' = BoardStands
      /\ \A t : Classify(t)' = Classify(t) /\ Constraints(t)' = Constraints(t)
      /\ \A ring : IsRing(ring)' = IsRing(ring)
  BY Frozen
<1>2. BoardStands' /\ Gaps'
  BY <1>1 DEF ForecastInv, Gaps
<1>3. Known'
  BY SameKnown DEF ForecastInv, Known
<1>4. EndedBefore'
  BY <1>1, SameNodes DEF ForecastInv, EndedBefore
<1>5. RingsNeverBegin'
  BY <1>1 DEF ForecastInv, RingsNeverBegin
<1>6. RingsWait' /\ UnknownsArePassedOn'
  BY DEF RingsWait, UnknownsArePassedOn
<1>7. ASSUME phase' = "simulate" => phase = "simulate" /\ day' >= day /\ day' \in Nat PROVE Dates'
  <2>1. Dates /\ day \in Nat
    BY DEF ForecastInv, Shapes
  <2>2. \A t \in Task : start[t] # NoDay => start[t] \in Nat
    BY HorizonAssumption DEF ForecastInv, Shapes, LastDay
  <2> QED
    BY <1>7, <2>1, <2>2 DEF Dates
<1> QED
  BY <1>2, <1>3, <1>4, <1>5, <1>6, <1>7

LEMMA ServeSeatKeeps ==
    ASSUME ForecastInv, NEW key \in WorkSeats, ServeSeat(key)
    PROVE  ForecastInv'
<1>1. /\ phase = "simulate" /\ phase' = "simulate" /\ queue' = HandOut(Ready(key), PersonHours(key, day))
      /\ UNCHANGED <<inst, board, leaves, gap, rem, start, finish, day, left, given, raised, rounds>>
  BY DEF ServeSeat
<1>2. /\ Open' = Open /\ \A t : T(t)' = T(t) /\ SeatOf(t)' = SeatOf(t)
      /\ \A k, d : PersonHours(k, d)' = PersonHours(k, d)
  BY <1>1, Frozen
<1>3. BoardStands /\ Shapes /\ Order /\ Hands /\ day \in Nat
  BY DEF ForecastInv, Shapes
<1>4. /\ BoardStands' /\ Gaps' /\ Dates' /\ Known' /\ EndedBefore' /\ RingsNeverBegin' /\ RingsWait'
      /\ UnknownsArePassedOn'
  BY <1>1, <1>3, LaidOutKeeps
<1>5. PICK ready : ready = Ready(key)
  OBVIOUS
<1>6. PICK hours \in Nat : hours = PersonHours(key, day)
  BY <1>3, LeavesAreTasks, SeatFacts
<1>7. ready \in SUBSET Task /\ \A t \in ready : t \in leaves /\ IsReady(t, day)
  BY <1>3, <1>5, LeavesAreTasks DEF Ready
<1>8. /\ queue' \in Seq(Range(queue'))
      /\ \A e \in Range(queue') : e.task \in ready /\ (e.share # NoHours => e.share \in Nat /\ T(e.task).percent > 0)
  <2>1. queue' = HandOut(ready, hours)
    BY <1>1, <1>5, <1>6
  <2> QED
    BY <1>3, <1>7, <2>1, HandOutServes
<1>9. Shapes'
  BY <1>1, <1>2, <1>3, <1>8 DEF Shapes
<1>10. Order'
  BY <1>1, <1>3 DEF Order
<1>11. Hands'
  <2>1. WorkSeats' = WorkSeats
    BY <1>1 DEF WorkSeats
  <2> QED
    BY <1>1, <1>2, <1>3, <2>1 DEF Hands
<1>12. Queued'
  <2>1. \A t, d : IsReady(t, d)' = IsReady(t, d)
    BY <1>1, SameNodes
  <2> QED
    BY <1>1, <1>2, <1>7, <1>8, <2>1 DEF Queued
<1>13. FloorsRise' /\ FinishFloorsHold'
  BY <1>1 DEF FloorsRise, FinishFloorsHold
<1>14. StartsRespectDependencies'
  <2>1. \A t : Constraints(t)' = Constraints(t) /\ NodeFinish(t)' = NodeFinish(t) /\ NodeStart(t)' = NodeStart(t)
    BY <1>1, Frozen, SameNodes
  <2> QED
    BY <1>1, <2>1 DEF ForecastInv, StartsRespectDependencies
<1> QED
  BY <1>4, <1>9, <1>10, <1>11, <1>12, <1>13, <1>14 DEF ForecastInv

LEMMA EndDayKeeps ==
    ASSUME ForecastInv, EndDay
    PROVE  ForecastInv'
<1>1. /\ phase = "simulate" /\ phase' \in {"simulate", "floors"} /\ queue = <<>>
      /\ phase' = "simulate" => day # LastDay
      /\ day' = day + 1 /\ left' = HoursOf(day + 1) /\ given' = {}
      /\ UNCHANGED <<inst, board, leaves, gap, rem, start, finish, queue, raised, rounds>>
  BY DEF EndDay
<1>2. /\ Open' = Open /\ \A t : T(t)' = T(t) /\ SeatOf(t)' = SeatOf(t)
      /\ \A k, d : PersonHours(k, d)' = PersonHours(k, d)
  BY <1>1, Frozen
<1>3. BoardStands /\ Shapes /\ Order /\ Hands /\ day \in Nat
  BY DEF ForecastInv, Shapes
<1>4. /\ BoardStands' /\ Gaps' /\ Dates' /\ Known' /\ EndedBefore' /\ RingsNeverBegin' /\ RingsWait'
      /\ UnknownsArePassedOn'
  <2>1. day' >= day /\ day' \in Nat
    BY <1>1, <1>3
  <2> QED
    BY <1>1, <2>1, LaidOutKeeps
<1>5. day' \in 1..Horizon /\ (phase' = "simulate" => day' \in 0..LastDay)
  <2>1. day \in 0..LastDay
    BY <1>1, <1>3 DEF Hands
  <2> QED
    BY <1>1, <2>1, HorizonAssumption DEF LastDay
<1>6. left' \in [WorkSeats -> Nat] /\ \A key \in WorkSeats : left'[key] = PersonHours(key, day')
  BY <1>1, <1>3, HoursOfADay
<1>7. Shapes'
  <2>1. left' \in [DOMAIN left' -> Nat]
    BY <1>6
  <2>2. day' \in 0..Horizon
    BY <1>5
  <2> QED
    BY <1>1, <1>2, <1>3, <2>1, <2>2 DEF Shapes
<1>8. rounds = 0
  BY <1>1, <1>3 DEF Order
<1>9. Order'
  BY <1>1, <1>8 DEF Order
<1>10. Hands'
  <2>1. WorkSeats' = WorkSeats
    BY <1>1 DEF WorkSeats
  <2>2. \A key \in WorkSeats : left'[key] <= PersonHours(key, day')
    BY <1>6
  <2> QED
    BY <1>1, <1>2, <1>5, <1>6, <2>1, <2>2 DEF Hands
<1>11. Range(queue') = {}
  BY <1>1, EmptyQueue
<1>12. Queued' /\ FloorsRise' /\ FinishFloorsHold'
  BY <1>1, <1>8, <1>11 DEF Queued, FloorsRise, FinishFloorsHold
<1>13. StartsRespectDependencies'
  <2>1. \A t : Constraints(t)' = Constraints(t) /\ NodeFinish(t)' = NodeFinish(t) /\ NodeStart(t)' = NodeStart(t)
    BY <1>1, Frozen, SameNodes
  <2> QED
    BY <1>1, <1>8, <2>1 DEF ForecastInv, StartsRespectDependencies
<1> QED
  BY <1>4, <1>7, <1>9, <1>10, <1>12, <1>13 DEF ForecastInv

\* Task t is served u hours.
Served(t, u) ==
    /\ IsReady(t, day) /\ u <= rem[t] /\ u <= left[SeatOf(t)]
    /\ rem' = [rem EXCEPT ![t] = rem[t] - u]
    /\ left' = [left EXCEPT ![SeatOf(t)] = left[SeatOf(t)] - u]
    /\ start' = IF u > 0 /\ start[t] = NoDay THEN [start EXCEPT ![t] = day] ELSE start
    /\ finish' = IF u > 0 /\ u = rem[t] THEN [finish EXCEPT ![t] = day] ELSE finish
    /\ given' \in SUBSET (given \cup {t})
    /\ t \in given' /\ t \notin given => T(t).percent > 0 \/ u = rem[t] \/ u = left[SeatOf(t)]

LEMMA LesserOfTwo ==
    ASSUME NEW x \in Nat, NEW y \in Nat
    PROVE  Min({x, y}) \in Nat /\ Min({x, y}) <= x /\ Min({x, y}) <= y /\ (Min({x, y}) = x \/ Min({x, y}) = y)
<1>1. PICK S : S = {x, y}
  OBVIOUS
<1>2. S \in SUBSET Nat /\ S # {}
  BY <1>1
<1>3. Min(S) \in S /\ \A z \in S : Min(S) <= z
  BY <1>2, MinInSet
<1> QED
  BY <1>1, <1>3

LEMMA ServeTaskServes ==
    ASSUME ForecastInv, ServeTask
    PROVE  \E t \in leaves, u \in Nat : Served(t, u)
<1>1. BoardStands /\ Shapes /\ Hands /\ Queued /\ phase = "simulate" /\ queue # <<>>
  BY DEF ForecastInv, ServeTask
<1>2. PICK e : e = Head(queue)
  OBVIOUS
<1>3. e \in Range(queue)
  BY <1>1, <1>2, QueueStep DEF Shapes
<1>4. PICK t \in leaves : t = e.task
  BY <1>1, <1>3 DEF Queued
<1>5. IsReady(t, day) /\ (e.share # NoHours => e.share \in Nat /\ T(t).percent > 0)
  BY <1>1, <1>3, <1>4 DEF Queued
<1>6. PICK key : key = SeatOf(t)
  OBVIOUS
<1>7. key \in DOMAIN left /\ left[key] \in Nat /\ rem[t] \in Nat
  BY <1>1, <1>6, LeavesAreTasks DEF Hands, Shapes
<1>8. PICK h : h = IF e.share = NoHours THEN left[key] ELSE Min({e.share, left[key]})
  OBVIOUS
<1>9. h \in Nat /\ h <= left[key] /\ (e.share = NoHours => h = left[key])
  BY <1>5, <1>7, <1>8, LesserOfTwo
<1>10. PICK u \in Nat : u = Used(t, h) /\ u <= h /\ u <= rem[t] /\ (u = h \/ u = rem[t])
  BY <1>7, <1>9, LesserOfTwo DEF Used
<1>11. u <= left[key]
  BY <1>7, <1>9, <1>10
<1>12. /\ rem' = [rem EXCEPT ![t] = rem[t] - u]
       /\ left' = [left EXCEPT ![key] = left[key] - u]
       /\ start' = IF u > 0 /\ start[t] = NoDay THEN [start EXCEPT ![t] = day] ELSE start
       /\ finish' = IF u > 0 /\ u = rem[t] THEN [finish EXCEPT ![t] = day] ELSE finish
       /\ given' = IF e.share = NoHours /\ left[key] = 0 THEN given ELSE given \cup {t}
  BY <1>2, <1>4, <1>6, <1>8, <1>10 DEF ServeTask
<1>13. given' \in SUBSET (given \cup {t})
  BY <1>12
<1>14. t \in given' /\ t \notin given => T(t).percent > 0 \/ u = rem[t] \/ u = left[key]
  BY <1>5, <1>9, <1>10, <1>12
<1>15. Served(t, u)
  BY <1>5, <1>6, <1>10, <1>11, <1>12, <1>13, <1>14 DEF Served
<1> QED
  BY <1>15

\* What is served leaves what has ended and what has begun as it is.
LEMMA ServedFacts ==
    ASSUME ForecastInv, phase = "simulate", UNCHANGED <<inst, board, leaves, day>>, NEW t \in leaves, NEW u \in Nat, Served(t, u)
    PROVE  /\ t \in Task /\ day \in 0..LastDay /\ rem[t] \in Nat /\ left[SeatOf(t)] \in Nat /\ SeatOf(t) \in DOMAIN left
           /\ \A l \in Task : finish[l] # NoDay => finish'[l] = finish[l]
           /\ \A l \in Task : finish'[l] = finish[l] \/ (l = t /\ finish'[l] = day)
           /\ \A l \in Task : start[l] # NoDay => start'[l] = start[l] /\ start[l] <= day
           /\ \A l \in Task : start'[l] = start[l] \/ (l = t /\ start'[l] = day)
           /\ \A p \in Task : NodeFinish(p) # NoDay => NodeFinish(p)' = NodeFinish(p) /\ Ended(p)'
           /\ \A p \in Task : NodeStart(p) # NoDay => NodeStart(p)' = NodeStart(p)
           /\ \A x \in leaves : IsReady(x, day) => IsReady(x, day)'
<1>1. BoardStands /\ Shapes /\ Hands /\ Dates
  BY DEF ForecastInv
<1>2. /\ t \in Task /\ day \in 0..LastDay /\ rem[t] \in Nat /\ left[SeatOf(t)] \in Nat /\ SeatOf(t) \in DOMAIN left
  BY <1>1, LeavesAreTasks DEF Hands, Shapes
<1>3. finish[t] # NoDay => ~(u > 0 /\ u = rem[t])
  BY <1>1, <1>2 DEF Dates, Served
<1>4. /\ \A l \in Task : finish[l] # NoDay => finish'[l] = finish[l]
      /\ \A l \in Task : finish'[l] = finish[l] \/ (l = t /\ finish'[l] = day)
  <2>1. \A l \in Task : finish'[l] = IF u > 0 /\ u = rem[t] /\ l = t THEN day ELSE finish[l]
    BY <1>1 DEF Served, Shapes
  <2> QED
    BY <1>3, <2>1
<1>5. /\ \A l \in Task : start[l] # NoDay => start'[l] = start[l] /\ start[l] <= day
      /\ \A l \in Task : start'[l] = start[l] \/ (l = t /\ start'[l] = day)
  <2>1. \A l \in Task : start'[l] = IF u > 0 /\ start[t] = NoDay /\ l = t THEN day ELSE start[l]
    BY <1>1 DEF Served, Shapes
  <2> QED
    BY <1>1, <2>1 DEF Dates
<1>6. \A p \in Task : LeafIds(p) \in SUBSET Task
  BY <1>1, BoardFacts DEF Bottom
<1>7. ASSUME NEW p \in Task, NodeFinish(p) # NoDay PROVE NodeFinish(p)' = NodeFinish(p) /\ Ended(p)'
  <2>1. Ended(p)
    BY <1>1, <1>7, NodeFinishIsADay
  <2>2. \A l \in LeafIds(p) \cap leaves : finish[l] # NoDay /\ finish'[l] = finish[l]
    BY <1>4, <1>6, <2>1 DEF Ended
  <2>3. NodeFinish(p)' = NodeFinish(p)
    BY <2>2, NodeFinishKept
  <2>4. LeafIds(p)' = LeafIds(p)
    BY Frozen
  <2>5. Ended(p)'
    BY <2>2, <2>4 DEF Ended
  <2> QED
    BY <2>3, <2>5
<1>8. ASSUME NEW p \in Task, NodeStart(p) # NoDay PROVE NodeStart(p)' = NodeStart(p)
  <2>1. PICK d \in Nat : d = day
    BY <1>2
  <2>2. \A l \in Task : start[l] # NoDay => start'[l] = start[l] /\ start[l] <= d
    BY <1>5, <2>1
  <2>3. \A l \in Task : start'[l] # start[l] => start'[l] = d
    BY <1>5, <2>1
  <2> QED
    BY <1>1, <1>8, <2>2, <2>3, NodeStartKept
<1>9. ASSUME NEW x \in leaves, IsReady(x, day) PROVE IsReady(x, day)'
  <2>1. T(x)' = T(x) /\ Constraints(x)' = Constraints(x) /\ x \in Task
    BY <1>1, Frozen, LeavesAreTasks
  <2>2. ASSUME NEW c \in Constraints(x) PROVE IsSatisfied(c, day)'
    <3>1. c.predecessor \in Task
      BY <1>1, <2>1, BoardFacts
    <3>2. IsSatisfied(c, day)
      BY <1>9 DEF IsReady
    <3> QED
      BY <1>7, <1>8, <3>1, <3>2 DEF IsSatisfied
  <2> QED
    BY <1>9, <2>1, <2>2 DEF IsReady
<1> QED
  BY <1>2, <1>4, <1>5, <1>7, <1>8, <1>9

LEMMA ServeTaskKeeps ==
    ASSUME ForecastInv, ServeTask
    PROVE  ForecastInv'
<1>1. /\ phase = "simulate" /\ phase' = "simulate" /\ queue # <<>> /\ queue' = Tail(queue)
      /\ UNCHANGED <<inst, board, leaves, gap, day, raised, rounds>>
  BY DEF ServeTask
<1>2. PICK t \in leaves, u \in Nat : Served(t, u)
  BY ServeTaskServes
<1>3. /\ t \in Task /\ day \in 0..LastDay /\ rem[t] \in Nat /\ left[SeatOf(t)] \in Nat /\ SeatOf(t) \in DOMAIN left
      /\ \A l \in Task : finish[l] # NoDay => finish'[l] = finish[l]
      /\ \A l \in Task : finish'[l] = finish[l] \/ (l = t /\ finish'[l] = day)
      /\ \A l \in Task : start[l] # NoDay => start'[l] = start[l] /\ start[l] <= day
      /\ \A l \in Task : start'[l] = start[l] \/ (l = t /\ start'[l] = day)
  BY <1>1, <1>2, ServedFacts
<1>4. /\ \A p \in Task : NodeFinish(p) # NoDay => NodeFinish(p)' = NodeFinish(p) /\ Ended(p)'
      /\ \A p \in Task : NodeStart(p) # NoDay => NodeStart(p)' = NodeStart(p)
      /\ \A x \in leaves : IsReady(x, day) => IsReady(x, day)'
  BY <1>1, <1>2, ServedFacts
<1>5. /\ BoardStands /\ Shapes /\ Order /\ Gaps /\ Dates /\ Hands /\ Queued /\ Known /\ EndedBefore
      /\ RingsNeverBegin /\ StartsRespectDependencies
  BY DEF ForecastInv
<1>6. /\ Bottom' = Bottom /\ Open' = Open /\ BoardStands' = BoardStands
      /\ \A x : T(x)' = T(x) /\ SeatOf(x)' = SeatOf(x) /\ Classify(x)' = Classify(x) /\ Constraints(x)' = Constraints(x)
      /\ \A ring : IsRing(ring)' = IsRing(ring)
      /\ \A k, d : PersonHours(k, d)' = PersonHours(k, d)
  BY <1>1, Frozen
<1>7. /\ u <= rem[t] /\ u <= left[SeatOf(t)] /\ IsReady(t, day)
      /\ \A l \in Task : rem'[l] = IF l = t THEN rem[t] - u ELSE rem[l]
      /\ DOMAIN left' = DOMAIN left
      /\ \A k \in DOMAIN left : left'[k] = IF k = SeatOf(t) THEN left[k] - u ELSE left[k]
  BY <1>2, <1>5 DEF Served, Shapes
<1>8. /\ \A l \in Task : finish'[l] = IF u > 0 /\ u = rem[t] /\ l = t THEN day ELSE finish[l]
      /\ \A l \in Task : start'[l] = IF u > 0 /\ start[t] = NoDay /\ l = t THEN day ELSE start[l]
  BY <1>2, <1>5 DEF Served, Shapes
<1>9. \A x \in leaves : x \in Task /\ SeatOf(x) \in WorkSeats
  BY <1>5, LeavesAreTasks
<1>10. Shapes'
  <2>1. rem' \in [Task -> Nat]
    <3>1. rem[t] - u \in Nat
      BY <1>3, <1>7
    <3>2. rem' = [rem EXCEPT ![t] = rem[t] - u]
      BY <1>2 DEF Served
    <3> QED
      BY <1>5, <3>1, <3>2 DEF Shapes
  <2>2. left' \in [DOMAIN left' -> Nat]
    <3>1. left[SeatOf(t)] - u \in Nat
      BY <1>3, <1>7
    <3>2. left' = [left EXCEPT ![SeatOf(t)] = left[SeatOf(t)] - u]
      BY <1>2 DEF Served
    <3> QED
      BY <1>5, <1>7, <3>1, <3>2 DEF Shapes
  <2>3. start' \in [Task -> (0..LastDay) \cup {NoDay}] /\ finish' \in [Task -> Int \cup {NoDay}]
    <3>1. start' \in {start, [start EXCEPT ![t] = day]} /\ finish' \in {finish, [finish EXCEPT ![t] = day]}
      BY <1>2 DEF Served
    <3>2. day \in Int
      BY <1>3
    <3> QED
      BY <1>3, <1>5, <3>1, <3>2 DEF Shapes
  <2>4. given' \in SUBSET leaves
    BY <1>2, <1>5 DEF Served, Shapes
  <2>5. queue' \in Seq(Range(queue'))
    BY <1>1, <1>5, QueueStep DEF Shapes
  <2> QED
    BY <1>1, <1>5, <1>6, <2>1, <2>2, <2>3, <2>4, <2>5 DEF Shapes
<1>11. Order'
  BY <1>1, <1>5 DEF Order
<1>12. Gaps'
  BY <1>1, <1>5, <1>6 DEF Gaps
<1>13. Dates'
  <2>1. \A x \in leaves : rem[x] \in Nat
    BY <1>5, <1>9 DEF Shapes
  <2>2. \A x \in leaves : finish'[x] = NoDay <=> rem'[x] > 0
    <3>1. ASSUME NEW x \in leaves, x # t PROVE finish'[x] = NoDay <=> rem'[x] > 0
      BY <1>1, <1>5, <1>7, <1>8, <1>9, <3>1 DEF Dates
    <3>2. rem'[t] = rem[t] - u /\ (finish[t] = NoDay <=> rem[t] > 0) /\ day # NoDay
      BY <1>1, <1>3, <1>5, <1>7, HorizonAssumption DEF Dates
    <3>3. finish'[t] = IF u > 0 /\ u = rem[t] THEN day ELSE finish[t]
      BY <1>3, <1>8
    <3>4. finish'[t] = NoDay <=> rem'[t] > 0
      BY <1>3, <1>7, <3>2, <3>3
    <3> QED
      BY <3>1, <3>4
  <2>3. ASSUME NEW x \in Task, finish'[x] # NoDay PROVE start'[x] # NoDay /\ start'[x] <= finish'[x]
    <3>1. CASE x # t
      BY <1>5, <1>8, <2>3, <3>1 DEF Dates
    <3>2. CASE x = t /\ u > 0 /\ u = rem[t]
      <4>1. finish'[t] = day /\ day # NoDay /\ day \in Int
        BY <1>3, <1>8, <3>2, HorizonAssumption
      <4>2. start'[t] = IF start[t] = NoDay THEN day ELSE start[t]
        BY <1>3, <1>8, <3>2
      <4> QED
        BY <1>3, <3>2, <4>1, <4>2
    <3>3. CASE x = t /\ ~(u > 0 /\ u = rem[t])
      <4>1. finish'[t] = finish[t] /\ finish[t] # NoDay
        BY <1>3, <1>8, <2>3, <3>3
      <4>2. start[t] # NoDay /\ start[t] <= finish[t]
        BY <1>3, <1>5, <4>1 DEF Dates
      <4> QED
        BY <1>3, <3>3, <4>1, <4>2
    <3> QED
      BY <3>1, <3>2, <3>3
  <2>4. \A x \in Task : x \notin leaves => start'[x] = NoDay
    BY <1>1, <1>5, <1>8 DEF Dates
  <2>5. \A x \in Task : start'[x] # NoDay => start'[x] <= day
    BY <1>3
  <2> QED
    BY <1>1, <2>2, <2>3, <2>4, <2>5 DEF Dates
<1>14. Hands'
  <2>1. DOMAIN left = WorkSeats /\ WorkSeats' = WorkSeats
    BY <1>1, <1>5 DEF Hands, WorkSeats
  <2>2. \A k \in WorkSeats : left'[k] \in Nat /\ left'[k] <= left[k] /\ left[k] \in Nat
    BY <1>5, <1>7, <2>1 DEF Shapes
  <2>3. \A k \in WorkSeats : left[k] <= PersonHours(k, day) /\ PersonHours(k, day) \in Nat
    BY <1>1, <1>5, LeavesAreTasks, SeatFacts DEF Hands
  <2>4. \A k \in WorkSeats : left'[k] <= PersonHours(k, day)
    BY <2>2, <2>3
  <2>5. ASSUME NEW x \in given' PROVE T(x).percent > 0 \/ finish'[x] # NoDay \/ left'[SeatOf(x)] = 0
    <3>1. x \in leaves /\ x \in Task /\ SeatOf(x) \in WorkSeats
      BY <1>2, <1>5, <1>9 DEF Served, Shapes
    <3>2. CASE x \in given
      <4>1. T(x).percent > 0 \/ finish[x] # NoDay \/ left[SeatOf(x)] = 0
        BY <1>1, <1>5, <3>2 DEF Hands
      <4>2. left[SeatOf(x)] = 0 => left'[SeatOf(x)] = 0
        BY <2>2, <3>1
      <4>3. finish[x] # NoDay => finish'[x] # NoDay
        BY <1>3, <3>1
      <4> QED
        BY <4>1, <4>2, <4>3
    <3>3. CASE x \notin given
      <4>1. x = t /\ (T(t).percent > 0 \/ u = rem[t] \/ u = left[SeatOf(t)])
        BY <1>2, <3>3 DEF Served
      <4>2. u = left[SeatOf(t)] => left'[SeatOf(t)] = 0
        BY <1>3, <1>7
      <4>3. ASSUME u = rem[t] PROVE finish'[t] # NoDay
        <5>1. rem[t] = 0 => finish[t] # NoDay
          BY <1>1, <1>5 DEF Dates
        <5>2. finish[t] # NoDay => finish'[t] = finish[t]
          BY <1>3
        <5>3. rem[t] # 0 => finish'[t] = day
          BY <1>3, <1>8, <4>3
        <5> QED
          BY <1>3, <5>1, <5>2, <5>3, HorizonAssumption
      <4> QED
        BY <4>1, <4>2, <4>3
    <3> QED
      BY <3>2, <3>3
  <2> QED
    BY <1>1, <1>3, <1>6, <1>7, <2>1, <2>4, <2>5 DEF Hands
<1>15. Queued'
  <2>1. Range(queue') \in SUBSET Range(queue)
    BY <1>1, <1>5, QueueStep DEF Shapes
  <2>2. \A e \in Range(queue) : /\ e.task \in leaves /\ IsReady(e.task, day)
                                /\ e.share # NoHours => e.share \in Nat /\ T(e.task).percent > 0
    BY <1>1, <1>5 DEF Queued
  <2>3. \A x \in leaves : IsReady(x, day) => IsReady(x, day)'
    BY <1>4
  <2> QED
    BY <1>1, <1>6, <2>1, <2>2, <2>3 DEF Queued
<1>16. Known'
  BY <1>1, <1>5, SameKnown DEF Known
<1>17. \A x \in leaves : \A c \in Constraints(x) : c.predecessor \in Task /\ c.lag \in Int
  BY <1>5, <1>9, BoardFacts
<1>18. \A c \in Constraints(t) : IsSatisfied(c, day)
  BY <1>7 DEF IsReady
<1>19. EndedBefore'
  <2>1. ASSUME NEW x \in leaves, start'[x] # NoDay, NEW c \in Constraints(x), c.kind = "FS" PROVE Ended(c.predecessor)'
    <3>1. c.predecessor \in Task
      BY <1>17
    <3>2. CASE start[x] # NoDay
      <4>1. Ended(c.predecessor)
        BY <1>1, <1>5, <2>1, <3>2 DEF EndedBefore
      <4>2. NodeFinish(c.predecessor) # NoDay
        BY <1>5, <3>1, <4>1, NodeFinishIsADay
      <4> QED
        BY <1>4, <3>1, <4>2
    <3>3. CASE start[x] = NoDay
      <4>1. x = t
        BY <1>3, <1>9, <2>1, <3>3
      <4>2. NodeFinish(c.predecessor) # NoDay
        BY <1>18, <2>1, <4>1 DEF IsSatisfied
      <4> QED
        BY <1>4, <3>1, <4>2
    <3> QED
      BY <3>2, <3>3
  <2> QED
    BY <1>1, <1>6, <2>1 DEF EndedBefore
<1>20. RingsNeverBegin'
  <2>1. ASSUME NEW ring \in SUBSET Open, IsRing(ring), NEW x \in ring, start'[x] # NoDay PROVE FALSE
    <3>1. \A r \in ring : start[r] = NoDay /\ r \in Task
      BY <1>1, <1>5, <2>1 DEF RingsNeverBegin, Open, Bottom
    <3>2. x = t
      BY <1>3, <2>1, <3>1
    <3>3. PICK c \in Constraints(t) : c.kind = "FS" /\ \E r \in ring : r \in LeafIds(c.predecessor) /\ r \in leaves
      BY <1>1, <1>5, <2>1, <3>2, RingNeighbour
    <3>4. NodeFinish(c.predecessor) # NoDay /\ c.predecessor \in Task
      BY <1>17, <1>18, <3>3 DEF IsSatisfied
    <3>5. Ended(c.predecessor)
      BY <1>5, <3>4, NodeFinishIsADay
    <3>6. PICK r \in ring : r \in leaves /\ finish[r] # NoDay
      BY <3>3, <3>5 DEF Ended
    <3> QED
      BY <1>5, <3>1, <3>6 DEF Dates
  <2> QED
    BY <1>6, <2>1 DEF RingsNeverBegin
<1>21. StartsRespectDependencies'
  <2>1. ASSUME NEW x \in leaves, start'[x] # NoDay, NEW c \in Constraints(x), c.kind = "FS"
        PROVE  NodeFinish(c.predecessor)' # NoDay /\ start'[x] > NodeFinish(c.predecessor)' + c.lag
    <3>1. c.predecessor \in Task /\ c.lag \in Int /\ x \in Task
      BY <1>9, <1>17
    <3>2. NodeFinish(c.predecessor) # NoDay /\ start'[x] > NodeFinish(c.predecessor) + c.lag
      <4>1. CASE start[x] # NoDay
        <5>1. rounds = 0
          BY <1>1, <1>5 DEF Order
        <5> QED
          BY <1>1, <1>3, <1>5, <2>1, <3>1, <4>1, <5>1 DEF StartsRespectDependencies
      <4>2. CASE start[x] = NoDay
        <5>1. x = t /\ start'[x] = day
          BY <1>3, <2>1, <3>1, <4>2
        <5>2. NodeFinish(c.predecessor) # NoDay /\ day >= NodeFinish(c.predecessor) + 1 + c.lag
          BY <1>18, <2>1, <5>1 DEF IsSatisfied
        <5>3. NodeFinish(c.predecessor) \in Int /\ day \in Int
          BY <1>3, <1>5, <3>1, <5>2, NodeFinishIsADay
        <5> QED
          BY <3>1, <5>1, <5>2, <5>3
      <4> QED
        BY <4>1, <4>2
    <3> QED
      BY <1>4, <3>1, <3>2
  <2>2. ASSUME NEW x \in leaves, start'[x] # NoDay, NEW c \in Constraints(x), c.kind = "SS"
        PROVE  NodeStart(c.predecessor)' # NoDay /\ start'[x] >= NodeStart(c.predecessor)' + c.lag
    <3>1. c.predecessor \in Task /\ x \in Task
      BY <1>9, <1>17
    <3>2. NodeStart(c.predecessor) # NoDay /\ start'[x] >= NodeStart(c.predecessor) + c.lag
      <4>1. CASE start[x] # NoDay
        <5>1. rounds = 0
          BY <1>1, <1>5 DEF Order
        <5> QED
          BY <1>1, <1>3, <1>5, <2>2, <3>1, <4>1, <5>1 DEF StartsRespectDependencies
      <4>2. CASE start[x] = NoDay
        <5>1. x = t /\ start'[x] = day
          BY <1>3, <2>2, <3>1, <4>2
        <5>2. NodeStart(c.predecessor) # NoDay /\ day >= NodeStart(c.predecessor) + c.lag
          BY <1>18, <2>2, <5>1 DEF IsSatisfied
        <5> QED
          BY <5>1, <5>2
      <4> QED
        BY <4>1, <4>2
    <3> QED
      BY <1>4, <3>1, <3>2
  <2> QED
    BY <1>1, <1>6, <2>1, <2>2 DEF StartsRespectDependencies
<1>22. FloorsRise' /\ FinishFloorsHold' /\ RingsWait' /\ UnknownsArePassedOn'
  BY <1>1 DEF FloorsRise, FinishFloorsHold, RingsWait, UnknownsArePassedOn
<1> QED
  BY <1>5, <1>6, <1>10, <1>11, <1>12, <1>13, <1>14, <1>15, <1>16, <1>19, <1>20, <1>21, <1>22 DEF ForecastInv

------------------------------------------------------------------------------
(* The ends.                                                                *)

LEMMA BaseIsADay ==
    ASSUME BoardStands, Shapes, NEW t \in Task, NEW c \in Constraints(t), Base(c) # NoDay
    PROVE  Base(c) \in Int /\ c.lag \in Int
<1>1. c.predecessor \in Task /\ c.lag \in Int
  BY BoardFacts
<1> QED
  BY <1>1, NodeFinishIsADay, NodeStartIsADay DEF Base

LEMMA PairsAreFinite ==
    ASSUME BoardStands, Shapes
    PROVE  IsFiniteSet(Pairs)
<1>1. IsFiniteSet(inst.dependencies)
  BY ScenarioAssumption DEF BoardStands
<1>2. IsFiniteSet(leaves)
  BY LeavesAreTasks
<1>3. IsFiniteSet(leaves \X inst.dependencies)
  BY <1>1, <1>2, FS_Product
<1>4. Pairs \in SUBSET (leaves \X inst.dependencies)
  BY DEF Pairs
<1> QED
  BY <1>3, <1>4, FS_Subset

LEMMA PairsAreDependencies ==
    ASSUME BoardStands, Shapes
    PROVE  \A t \in leaves : \A c : <<t, c>> \in Pairs <=> c \in Constraints(t)
<1>1. \A t \in leaves : Constraints(t) \in SUBSET inst.dependencies
  BY LeavesAreTasks, BoardFacts
<1> QED
  BY <1>1 DEF Pairs

LEMMA SetToSeqIsAQueue ==
    ASSUME NEW S, IsFiniteSet(S)
    PROVE  SetToSeq(S) \in Seq(Range(SetToSeq(S))) /\ Range(SetToSeq(S)) = S
<1>1. PICK q : q = SetToSeq(S)
  OBVIOUS
<1>2. PICK n \in Nat : n = Cardinality(S)
  BY FS_CardinalityType
<1>3. q \in [1..n -> S] /\ \A x \in S : \E i \in 1..n : q[i] = x
  BY <1>1, <1>2, SetInARow
<1>4. Range(q) = S
  BY <1>3 DEF Range
<1>5. q \in Seq(S)
  BY <1>3, SeqDef
<1> QED
  BY <1>1, <1>4, <1>5

\* Of the tasks that are not settled, one rests on those that are, or there
\* is a ring.
LEMMA SomeoneIsNext ==
    ASSUME ~FinishRing, NEW Z \in SUBSET leaves, Z # leaves
    PROVE  \E t \in leaves \ Z : RestsOn(t, Z)
<1> DEFINE ring == leaves \ Z
<1>1. ring \in (SUBSET leaves) \ {{}}
  OBVIOUS
<1>2. PICK t \in ring : ~\E c \in Constraints(t) : c.kind = "FF" /\ LeafIds(c.predecessor) \cap ring # {}
  BY <1>1 DEF FinishRing
<1>3. RestsOn(t, Z)
  BY <1>2 DEF RestsOn
<1> QED
  BY <1>2, <1>3

LEMMA BeginPassKeeps ==
    ASSUME ForecastInv, BeginPass
    PROVE  ForecastInv'
<1>1. /\ phase = "floors" /\ queue = <<>>
      /\ UNCHANGED <<inst, board, leaves, gap, rem, start, finish, day, left, given>>
      /\ \/ PassesDone /\ phase' = "report" /\ UNCHANGED <<queue, raised, rounds>>
         \/ ~PassesDone /\ phase' = "floors" /\ queue' = SetToSeq(Pairs) /\ raised' = FALSE /\ rounds' = rounds + 1
  BY DEF BeginPass, Pairs
<1>2. /\ BoardStands /\ Shapes /\ Order /\ FloorsRise
  BY DEF ForecastInv
<1>3. /\ BoardStands' /\ Gaps' /\ Dates' /\ Known' /\ EndedBefore' /\ RingsNeverBegin' /\ RingsWait'
      /\ UnknownsArePassedOn'
  BY <1>1, LaidOutKeeps
<1>4. /\ Open' = Open /\ \A t : Constraints(t)' = Constraints(t) /\ LeafIds(t)' = LeafIds(t)
  BY <1>1, Frozen
<1>5. /\ \A c : Base(c)' = Base(c)
      /\ \A t, c : Floor(t, c)' = Floor(t, c)
  BY <1>1, SameNodes
<1>6. /\ Pairs' = Pairs /\ FinishRing' = FinishRing
      /\ \A t, Z : RestsOn(t, Z)' = RestsOn(t, Z)
  BY <1>1, <1>4 DEF Pairs, FinishRing, RestsOn
<1>7. \A Z : Settled(Z)' = Settled(Z)
  BY <1>4, <1>5, <1>6 DEF Settled
<1>8. Range(queue) = {} /\ given = {} /\ rounds \in Nat
  BY <1>1, <1>2, EmptyQueue DEF Order, Shapes
<1>9. IsFiniteSet(leaves) /\ Cardinality(leaves) \in Nat
  BY <1>2, LeavesAreTasks
<1>10. CASE PassesDone /\ phase' = "report" /\ UNCHANGED <<queue, raised, rounds>>
  <2>1. Shapes' /\ Order'
    BY <1>1, <1>2, <1>4, <1>8, <1>10 DEF Shapes, Order
  <2>2. Hands' /\ Queued' /\ FloorsRise' /\ StartsRespectDependencies'
    BY <1>10 DEF Hands, Queued, FloorsRise, StartsRespectDependencies
  <2>3. ASSUME ~FinishRing PROVE \A t \in leaves : \A c \in Constraints(t) : Floor(t, c)
    <3>1. rounds > 0
      BY <1>8, <1>9, <1>10 DEF PassesDone
    <3>2. ~raised
      <4> SUFFICES ASSUME raised PROVE FALSE
        OBVIOUS
      <4>1. rounds = Cardinality(leaves) + 1
        BY <1>10 DEF PassesDone
      <4>2. PICK Z \in SUBSET leaves : Cardinality(Z) >= rounds - 1 /\ (Z = leaves => ~raised)
        BY <1>1, <1>2, <2>3, <3>1 DEF FloorsRise
      <4>3. Z # leaves
        BY <4>2
      <4>4. Cardinality(Z) \in Nat /\ Cardinality(Z) < Cardinality(leaves)
        BY <1>9, <4>3, FS_Subset, FS_CardinalityType
      <4> QED
        BY <1>9, <4>1, <4>2, <4>4
    <3>3. \A x \in Pairs : Floor(x[1], x[2])
      BY <1>1, <1>2, <1>8, <3>1, <3>2 DEF FloorsRise
    <3>4. ASSUME NEW t \in leaves, NEW c \in Constraints(t) PROVE Floor(t, c)
      <4>1. <<t, c>> \in Pairs
        BY <1>2, PairsAreDependencies
      <4> QED
        BY <3>3, <4>1
    <3> QED
      BY <3>4
  <2>4. FinishFloorsHold'
    <3>1. ASSUME ~FinishRing'
          PROVE  (\A t \in leaves : finish[t] # NoDay => \A c \in Constraints(t) : Base(c) # NoDay => finish[t] >= Base(c) + c.lag)'
      BY <1>1, <1>4, <1>5, <1>6, <2>3, <3>1 DEF Floor
    <3> QED
      BY <3>1 DEF FinishFloorsHold, FinishRing
  <2> QED
    BY <1>3, <2>1, <2>2, <2>4 DEF ForecastInv
<1>11. CASE ~PassesDone /\ phase' = "floors" /\ queue' = SetToSeq(Pairs) /\ raised' = FALSE /\ rounds' = rounds + 1
  <2>1. queue' \in Seq(Range(queue')) /\ Range(queue') = Pairs
    BY <1>2, <1>11, PairsAreFinite, SetToSeqIsAQueue
  <2>2. rounds' \in Nat /\ rounds' > 0
    BY <1>8, <1>11
  <2>3. Shapes'
    BY <1>1, <1>2, <1>4, <1>11, <2>1, <2>2 DEF Shapes
  <2>4. Order'
    BY <1>1, <1>2, <1>8, <1>11, <2>2 DEF Order
  <2>5. Hands' /\ Queued' /\ StartsRespectDependencies' /\ FinishFloorsHold'
    BY <1>11, <2>2 DEF Hands, Queued, StartsRespectDependencies, FinishFloorsHold
  <2>6. ASSUME ~FinishRing
        PROVE  \E Z \in SUBSET leaves : Settled(Z) /\ Cardinality(Z) >= rounds
    <3>1. CASE rounds = 0
      <4>1. Settled({}) /\ Cardinality({}) = 0
        BY FS_EmptySet DEF Settled
      <4> QED
        BY <3>1, <4>1
    <3>2. CASE rounds # 0
      <4>1. PICK Z \in SUBSET leaves : /\ Settled(Z) /\ Cardinality(Z) >= rounds - 1
                                       /\ Z = leaves => ~raised
                                       /\ Z # leaves => \E t \in leaves \ Z : NextToSettle(t, Z)
        BY <1>1, <1>2, <1>8, <2>6, <3>2 DEF FloorsRise
      <4>2. raised
        BY <1>8, <1>11, <3>2 DEF PassesDone
      <4>3. PICK t \in leaves \ Z : NextToSettle(t, Z)
        BY <4>1, <4>2
      <4>4. RestsOn(t, Z) /\ \A c \in Constraints(t) : Floor(t, c)
        BY <1>8, <4>3 DEF NextToSettle
      <4>5. Settled(Z \cup {t})
        <5>1. \A x, A, B : RestsOn(x, A) /\ A \in SUBSET B => RestsOn(x, B)
          BY DEF RestsOn
        <5> QED
          BY <4>1, <4>4, <5>1 DEF Settled
      <4>6. IsFiniteSet(Z) /\ Cardinality(Z) \in Nat
        BY <1>9, FS_Subset, FS_CardinalityType
      <4>7. Cardinality(Z \cup {t}) = Cardinality(Z) + 1
        BY <4>3, <4>6, FS_AddElement
      <4>8. Z \cup {t} \in SUBSET leaves /\ Cardinality(Z \cup {t}) >= rounds
        BY <1>8, <4>1, <4>6, <4>7
      <4> QED
        BY <4>5, <4>8
    <3> QED
      BY <3>1, <3>2
  <2>7. ASSUME ~FinishRing
        PROVE  (\E Z \in SUBSET leaves :
                  /\ Settled(Z) /\ Cardinality(Z) >= rounds - 1
                  /\ Z = leaves => ~raised
                  /\ Z # leaves => \E t \in leaves \ Z : NextToSettle(t, Z))'
    <3>1. PICK Z \in SUBSET leaves : Settled(Z) /\ Cardinality(Z) >= rounds
      BY <2>6, <2>7
    <3>2. Settled(Z)' /\ rounds' - 1 = rounds
      BY <1>7, <1>8, <1>11, <3>1
    <3>3. ASSUME Z # leaves PROVE \E t \in leaves \ Z : NextToSettle(t, Z)'
      <4>1. PICK t \in leaves \ Z : RestsOn(t, Z)
        BY <2>7, <3>3, SomeoneIsNext
      <4>2. \A c \in Constraints(t) : <<t, c>> \in Range(queue')
        BY <1>2, <2>1, <4>1, PairsAreDependencies
      <4>3. NextToSettle(t, Z)'
        BY <1>4, <1>6, <4>1, <4>2 DEF NextToSettle
      <4> QED
        BY <4>1, <4>3
    <3> QED
      BY <1>1, <1>11, <3>1, <3>2, <3>3
  <2>8. FloorsRise'
    BY <1>6, <2>1, <2>7 DEF FloorsRise
  <2> QED
    BY <1>3, <2>3, <2>4, <2>5, <2>8 DEF ForecastInv
<1> QED
  BY <1>1, <1>10, <1>11

LEMMA RaiseEndKeeps ==
    ASSUME ForecastInv, RaiseEnd
    PROVE  ForecastInv'
<1>1. /\ phase = "floors" /\ phase' = "floors" /\ queue # <<>> /\ queue' = Tail(queue)
      /\ UNCHANGED <<inst, board, leaves, gap, rem, start, day, left, given, rounds>>
  BY DEF RaiseEnd
<1>2. /\ BoardStands /\ Shapes /\ Order /\ Gaps /\ Dates /\ Known /\ EndedBefore /\ RingsNeverBegin /\ FloorsRise
  BY DEF ForecastInv
<1>3. /\ Bottom' = Bottom /\ Open' = Open /\ BoardStands' = BoardStands
      /\ \A x : Classify(x)' = Classify(x) /\ Constraints(x)' = Constraints(x) /\ LeafIds(x)' = LeafIds(x)
      /\ \A x : StartedBeforeToday(x)' = StartedBeforeToday(x)
      /\ \A ring : IsRing(ring)' = IsRing(ring)
  BY <1>1, Frozen
<1>4. /\ Head(queue) \in Range(queue) /\ queue' \in Seq(Range(queue')) /\ Range(queue') \in SUBSET Range(queue)
      /\ \A x \in Range(queue) : x = Head(queue) \/ x \in Range(queue')
  BY <1>1, <1>2, QueueStep DEF Shapes
<1>5. Head(queue) \in Pairs /\ Range(queue) \in SUBSET Pairs
  BY <1>1, <1>2, <1>4 DEF FloorsRise
<1>27. PICK t \in leaves : \E c \in Constraints(t) : Head(queue) = <<t, c>>
  BY <1>5 DEF Pairs
<1>6. PICK c \in Constraints(t) : Head(queue) = <<t, c>>
  BY <1>27
<1>7. \A x \in leaves : x \in Task
  BY <1>2, LeavesAreTasks
<1> DEFINE raise == finish[t] # NoDay /\ Base(c) # NoDay /\ Base(c) + c.lag > finish[t]
<1>9. /\ finish' = IF raise THEN [finish EXCEPT ![t] = Base(c) + c.lag] ELSE finish
      /\ raised' = (raised \/ raise)
  <2>1. Head(queue)[1] = t /\ Head(queue)[2] = c
    BY <1>6
  <2> QED
    BY <2>1 DEF RaiseEnd
<1>10. raise => Base(c) \in Int /\ c.lag \in Int /\ Base(c) + c.lag \in Int /\ finish[t] \in Int
  BY <1>2, <1>7, BaseIsADay DEF Shapes
<1>11. /\ finish' \in [Task -> Int \cup {NoDay}]
       /\ \A x \in Task : finish'[x] = IF raise /\ x = t THEN Base(c) + c.lag ELSE finish[x]
  BY <1>2, <1>7, <1>9, <1>10 DEF Shapes
<1>12. \A x \in Task : /\ finish'[x] = NoDay <=> finish[x] = NoDay
                       /\ finish[x] # NoDay => finish[x] \in Int /\ finish'[x] \in Int /\ finish'[x] >= finish[x]
  <2>1. \A x \in Task : finish[x] # NoDay => finish[x] \in Int
    BY <1>2 DEF Shapes
  <2> QED
    BY <1>10, <1>11, <2>1, HorizonAssumption
<1>13. Shapes'
  BY <1>1, <1>2, <1>3, <1>4, <1>9, <1>11 DEF Shapes
<1>14. rounds \in Nat /\ rounds # 0
  BY <1>1, <1>2 DEF Order, Shapes
<1>15. Order'
  BY <1>1, <1>2, <1>14 DEF Order
<1>16. Gaps'
  BY <1>1, <1>2, <1>3 DEF Gaps
<1>17. Dates'
  <2>1. \A x \in Task : start[x] # NoDay => start[x] \in Int
    BY <1>2, HorizonAssumption DEF Shapes
  <2>2. \A x \in Task : finish'[x] # NoDay => start[x] # NoDay /\ start[x] <= finish'[x]
    BY <1>2, <1>12, <2>1 DEF Dates
  <2>3. \A x \in leaves : finish'[x] = NoDay <=> rem[x] > 0
    BY <1>1, <1>2, <1>7, <1>12 DEF Dates
  <2>4. \A x \in Task : x \notin leaves => start[x] = NoDay
    BY <1>1, <1>2 DEF Dates
  <2> QED
    BY <1>1, <2>2, <2>3, <2>4 DEF Dates
<1>18. Hands' /\ Queued' /\ FinishFloorsHold' /\ RingsWait' /\ UnknownsArePassedOn' /\ StartsRespectDependencies'
  BY <1>1, <1>14 DEF Hands, Queued, FinishFloorsHold, RingsWait, UnknownsArePassedOn, StartsRespectDependencies
<1>19. Known'
  BY <1>1, <1>2, SameKnown DEF Known
<1>20. EndedBefore'
  <2>1. \A p : Ended(p)' <=> Ended(p)
    BY <1>1, <1>3, <1>7, <1>12 DEF Ended
  <2> QED
    BY <1>1, <1>2, <1>3, <2>1 DEF EndedBefore
<1>21. RingsNeverBegin'
  BY <1>1, <1>2, <1>3 DEF RingsNeverBegin
<1>22. Pairs' = Pairs /\ FinishRing' = FinishRing
  BY <1>1, <1>3 DEF Pairs, FinishRing
<1>23. ASSUME ~raised' PROVE finish' = finish /\ ~raised /\ Floor(t, c)
  <2>1. ~raise /\ ~raised /\ finish' = finish
    BY <1>9, <1>23
  <2>2. Base(c) # NoDay /\ finish[t] # NoDay => finish[t] \in Int /\ Base(c) + c.lag \in Int
    BY <1>2, <1>7, <1>12, BaseIsADay
  <2> QED
    BY <2>1, <2>2 DEF Floor
<1>24. ASSUME ~raised' PROVE \A x \in Pairs' : x \in Range(queue') \/ Floor(x[1], x[2])'
  <2>1. finish' = finish /\ ~raised /\ Floor(t, c)
    BY <1>23, <1>24
  <2>2. \A x, y : Floor(x, y)' = Floor(x, y)
    BY <1>1, <2>1, SameNodes
  <2>3. ASSUME NEW x \in Pairs PROVE x \in Range(queue') \/ Floor(x[1], x[2])
    <3>1. x \in Range(queue) \/ Floor(x[1], x[2])
      BY <1>1, <1>2, <1>14, <2>1 DEF FloorsRise
    <3>2. x = Head(queue) => Floor(x[1], x[2])
      BY <1>6, <2>1
    <3> QED
      BY <1>4, <3>1, <3>2
  <2>4. ASSUME NEW x PROVE Floor(x[1], x[2])' = Floor(x[1], x[2])
    BY <2>2
  <2> QED
    BY <1>22, <2>3, <2>4
<1>25. ASSUME ~FinishRing
       PROVE  (\E Z \in SUBSET leaves :
                 /\ Settled(Z) /\ Cardinality(Z) >= rounds - 1
                 /\ Z = leaves => ~raised
                 /\ Z # leaves => \E x \in leaves \ Z : NextToSettle(x, Z))'
  <2>1. PICK Z \in SUBSET leaves : /\ Settled(Z) /\ Cardinality(Z) >= rounds - 1
                                   /\ Z = leaves => ~raised
                                   /\ Z # leaves => \E x \in leaves \ Z : NextToSettle(x, Z)
    BY <1>1, <1>2, <1>14, <1>25 DEF FloorsRise
  <2>2. t \in Z => ~raise
    <3>1. t \in Z => Floor(t, c)
      BY <2>1 DEF Settled
    <3> QED
      BY <1>10, <3>1 DEF Floor
  <2>3. \A x \in Z : finish'[x] = finish[x]
    BY <1>7, <1>11, <2>2
  <2>4. ASSUME NEW x \in leaves, RestsOn(x, Z), NEW d \in Constraints(x) PROVE Base(d)' = Base(d)
    <3>1. ASSUME d.kind = "FF" PROVE NodeFinish(d.predecessor)' = NodeFinish(d.predecessor)
      <4>1. \A l \in LeafIds(d.predecessor) \cap leaves : finish'[l] = finish[l]
        BY <2>3, <2>4, <3>1 DEF RestsOn
      <4> QED
        BY <1>1, <4>1, NodeFinishKept
    <3>2. NodeStart(d.predecessor)' = NodeStart(d.predecessor)
      BY <1>1, <1>3 DEF NodeStart
    <3> QED
      BY <3>1, <3>2 DEF Base
  <2>5. ASSUME NEW x \in leaves, RestsOn(x, Z), NEW d \in Constraints(x), Floor(x, d) PROVE Floor(x, d)'
    <3>1. Base(d)' = Base(d)
      BY <2>4, <2>5
    <3>2. Base(d) # NoDay => Base(d) \in Int /\ d.lag \in Int
      BY <1>2, <1>7, BaseIsADay
    <3>3. Base(d) # NoDay => Base(d) + d.lag \in Int
      BY <3>2
    <3>4. /\ finish'[x] = NoDay <=> finish[x] = NoDay
          /\ finish[x] # NoDay => finish[x] \in Int /\ finish'[x] \in Int /\ finish'[x] >= finish[x]
      BY <1>7, <1>12
    <3> QED
      BY <2>5, <3>1, <3>3, <3>4 DEF Floor
  <2>6. \A x, A : RestsOn(x, A)' = RestsOn(x, A)
    BY <1>1, <1>3 DEF RestsOn
  <2>7. Settled(Z)'
    <3>1. ASSUME NEW x \in Z PROVE RestsOn(x, Z)' /\ \A d \in Constraints(x)' : Floor(x, d)'
      BY <1>3, <2>1, <2>5, <2>6 DEF Settled
    <3> QED
      BY <3>1 DEF Settled
  <2>8. Z = leaves => ~raised'
    BY <1>9, <2>1, <2>2
  <2>9. ASSUME Z # leaves PROVE \E x \in leaves \ Z : NextToSettle(x, Z)'
    <3>1. PICK x \in leaves \ Z : NextToSettle(x, Z)
      BY <2>1, <2>9
    <3>2. RestsOn(x, Z) /\ \A d \in Constraints(x) : <<x, d>> \in Range(queue) \/ Floor(x, d)
      BY <3>1 DEF NextToSettle
    <3>3. ASSUME NEW d \in Constraints(x), <<x, d>> = Head(queue) PROVE Floor(x, d)'
      <4>1. x = t /\ d = c
        BY <1>6, <3>3
      <4>2. Base(c)' = Base(c)
        BY <2>4, <3>2, <4>1
      <4>3. Base(c) # NoDay => Base(c) \in Int /\ c.lag \in Int
        BY <1>2, <1>7, BaseIsADay
      <4>4. Base(c) # NoDay => Base(c) + c.lag \in Int
        BY <4>3
      <4>5. finish'[t] = IF raise THEN Base(c) + c.lag ELSE finish[t]
        BY <1>7, <1>11
      <4>6. finish[t] # NoDay => finish[t] \in Int
        BY <1>7, <1>12
      <4>7. Floor(t, c)'
        BY <4>2, <4>4, <4>5, <4>6 DEF Floor
      <4> QED
        BY <4>1, <4>7
    <3>4. ASSUME NEW d \in Constraints(x) PROVE <<x, d>> \in Range(queue') \/ Floor(x, d)'
      BY <1>4, <2>5, <3>2, <3>3
    <3>5. NextToSettle(x, Z)'
      BY <1>3, <2>6, <3>2, <3>4 DEF NextToSettle
    <3> QED
      BY <3>1, <3>5
  <2> QED
    BY <1>1, <2>1, <2>7, <2>8, <2>9
<1>26. FloorsRise'
  <2>1. Range(queue') \in SUBSET Pairs'
    BY <1>4, <1>5, <1>22
  <2> QED
    BY <1>22, <1>24, <1>25, <2>1 DEF FloorsRise
<1> QED
  BY <1>2, <1>3, <1>13, <1>15, <1>16, <1>17, <1>18, <1>19, <1>20, <1>21, <1>26 DEF ForecastInv

------------------------------------------------------------------------------
(* The report.                                                              *)

\* What each task is reported with before tasks with children are looked at.
Told == [t \in Task |-> IF t \in Unfinished THEN IF NeverBegan(t) THEN "waiting" ELSE "beyond_horizon" ELSE gap[t]]
Spans(t) == {l \in LeafIds(t) : Told[l] = "none"}
Shown(t) == HasSubtasks(t) /\ RollUp(t, Told) = "none"

\* A task with children that shows dates has leaves with dates.
LEMMA ShownHasSpans ==
    ASSUME BoardStands, Shapes, Gaps, Dates, phase = "report", NEW t \in Task, Shown(t)
    PROVE  /\ Spans(t) # {} /\ IsFiniteSet(Spans(t))
           /\ \A l \in Spans(t) : /\ l \in Task /\ start[l] \in 0..LastDay /\ finish[l] \in Int
                                  /\ start[l] <= finish[l]
<1>1. PICK l \in LeafIds(t) : Told[l] = "none"
  BY DEF Shown, RollUp
<1>2. LeafIds(t) \in SUBSET Bottom /\ IsFiniteSet(LeafIds(t))
  BY BoardFacts
<1>3. Spans(t) # {} /\ IsFiniteSet(Spans(t))
  BY <1>1, <1>2, FS_Subset DEF Spans
<1>4. ASSUME NEW x \in Spans(t)
      PROVE  x \in Task /\ start[x] \in 0..LastDay /\ finish[x] \in Int /\ start[x] <= finish[x]
  <2>1. x \in Bottom /\ x \in Task /\ Told[x] = "none"
    BY <1>2 DEF Spans, Bottom
  <2>2. x \notin Unfinished /\ gap[x] = "none"
    BY <2>1 DEF Told
  <2>3. x \in leaves
    BY <2>1, <2>2 DEF Gaps
  <2>4. finish[x] # NoDay
    BY <2>2, <2>3 DEF Unfinished
  <2>5. start[x] # NoDay /\ start[x] <= finish[x]
    BY <2>1, <2>4 DEF Dates
  <2> QED
    BY <2>1, <2>4, <2>5 DEF Shapes
<1> QED
  BY <1>3, <1>4

LEMMA ReportKeeps ==
    ASSUME ForecastInv, Report
    PROVE  ForecastInv'
<1>1. /\ phase = "report" /\ phase' = "done"
      /\ UNCHANGED <<inst, board, rem, day, left, given, queue, raised, rounds>>
      /\ leaves' = leaves \ Unfinished
      /\ gap' = [t \in Task |-> IF HasSubtasks(t) THEN RollUp(t, Told) ELSE Told[t]]
      /\ start' = [t \in Task |-> IF Shown(t) THEN Min({start[l] : l \in Spans(t)})
                                  ELSE IF t \in Unfinished THEN NoDay ELSE start[t]]
      /\ finish' = [t \in Task |-> IF Shown(t) THEN Max({finish[l] : l \in Spans(t)}) ELSE finish[t]]
  BY DEF Report, Told, Spans, Shown
<1>2. /\ BoardStands /\ Shapes /\ Order /\ Gaps /\ Dates /\ Known /\ EndedBefore /\ RingsNeverBegin
  BY DEF ForecastInv
<1>3. /\ Bottom' = Bottom /\ Open' = Open /\ BoardStands' = BoardStands
      /\ \A x : Classify(x)' = Classify(x) /\ Constraints(x)' = Constraints(x) /\ LeafIds(x)' = LeafIds(x)
      /\ \A x : HasSubtasks(x)' = HasSubtasks(x)
      /\ \A ring : IsRing(ring)' = IsRing(ring)
  BY <1>1, Frozen
<1>4. given = {} /\ queue = <<>>
  BY <1>1, <1>2 DEF Order
<1>5. \A x \in leaves : x \in Task /\ x \in Bottom
  BY <1>2, LeavesAreTasks
<1>6. ASSUME NEW x \in Task, Shown(x)
      PROVE  start'[x] \in 0..LastDay /\ finish'[x] \in Int /\ start'[x] <= finish'[x]
  <2>1. PICK S : S = {start[l] : l \in Spans(x)}
    OBVIOUS
  <2>2. PICK F : F = {finish[l] : l \in Spans(x)}
    OBVIOUS
  <2>3. /\ Spans(x) # {} /\ IsFiniteSet(Spans(x))
        /\ \A l \in Spans(x) : l \in Task /\ start[l] \in 0..LastDay /\ finish[l] \in Int /\ start[l] <= finish[l]
    BY <1>1, <1>2, <1>6, ShownHasSpans
  <2>4. S \in SUBSET Nat /\ S \in SUBSET (0..LastDay) /\ S # {}
    BY <2>1, <2>3
  <2>5. F \in SUBSET Int /\ IsFiniteSet(F) /\ F # {}
    BY <2>2, <2>3, ImageIsFinite
  <2>6. Min(S) \in S /\ \A y \in S : Min(S) <= y
    BY <2>4, MinInSet
  <2>7. Max(F) \in F /\ \A y \in F : y <= Max(F)
    BY <2>5, MaxInSet
  <2>8. PICK l \in Spans(x) : TRUE
    BY <2>3
  <2>9. Min(S) <= start[l] /\ finish[l] <= Max(F) /\ start[l] <= finish[l]
    BY <2>1, <2>2, <2>3, <2>6, <2>7
  <2>10. PICK m \in 0..LastDay : m = Min(S)
    BY <2>4, <2>6
  <2>11. PICK n \in Int : n = Max(F)
    BY <2>5, <2>7
  <2>12. m <= n
    <3>1. start[l] \in Int /\ finish[l] \in Int /\ m \in Int
      BY <2>3
    <3> QED
      BY <2>9, <2>10, <2>11, <3>1
  <2>13. start'[x] = m /\ finish'[x] = n
    BY <1>1, <1>6, <2>1, <2>2, <2>10, <2>11
  <2> QED
    BY <2>12, <2>13
<1>7. ASSUME NEW x \in Task, ~Shown(x)
      PROVE  finish'[x] = finish[x] /\ start'[x] = IF x \in Unfinished THEN NoDay ELSE start[x]
  BY <1>1, <1>7
<1>8. Shapes'
  <2>1. gap' \in [Task -> Gap]
    <3>1. \A x \in Task : Told[x] \in Gap
      BY <1>2 DEF Told, Gap, Shapes
    <3>2. \A x : RollUp(x, Told) \in Gap
      BY DEF RollUp, Gap
    <3> QED
      BY <1>1, <3>1, <3>2
  <2>2. start' \in [Task -> (0..LastDay) \cup {NoDay}]
    <3>1. \A x \in Task : start'[x] \in (0..LastDay) \cup {NoDay}
      BY <1>2, <1>6, <1>7 DEF Shapes
    <3> QED
      BY <1>1, <3>1
  <2>3. finish' \in [Task -> Int \cup {NoDay}]
    <3>1. \A x \in Task : finish'[x] \in Int \cup {NoDay}
      BY <1>2, <1>6, <1>7 DEF Shapes
    <3> QED
      BY <1>1, <3>1
  <2> QED
    BY <1>1, <1>2, <1>3, <1>4, <2>1, <2>2, <2>3 DEF Shapes
<1>9. Order' /\ Gaps'
  BY <1>1, <1>4 DEF Order, Gaps
<1>10. Dates'
  <2>1. ASSUME NEW x \in Task, finish'[x] # NoDay PROVE start'[x] # NoDay /\ start'[x] <= finish'[x]
    <3>1. CASE Shown(x)
      BY <1>6, <3>1, HorizonAssumption
    <3>2. CASE ~Shown(x)
      <4>1. finish[x] # NoDay /\ finish'[x] = finish[x]
        BY <1>7, <2>1, <3>2
      <4>2. start'[x] = start[x]
        BY <1>7, <3>2, <4>1 DEF Unfinished
      <4> QED
        BY <1>2, <4>1, <4>2 DEF Dates
    <3> QED
      BY <3>1, <3>2
  <2> QED
    BY <1>1, <2>1 DEF Dates
<1>11. Hands' /\ Queued' /\ Known' /\ EndedBefore' /\ RingsNeverBegin' /\ FloorsRise' /\ StartsRespectDependencies'
       /\ FinishFloorsHold'
  BY <1>1 DEF Hands, Queued, Known, EndedBefore, RingsNeverBegin, FloorsRise, StartsRespectDependencies, FinishFloorsHold
<1>12. \A x \in Bottom : x \in Task /\ gap'[x] = Told[x]
  BY <1>1 DEF Bottom
<1>13. RingsWait'
  <2>1. ASSUME NEW ring \in SUBSET Open, IsRing(ring), NEW x \in ring PROVE gap'[x] = "waiting"
    <3>1. x \in Task /\ x \in Bottom /\ Classify(x) = "none"
      BY <1>2, OpenFacts
    <3>2. \A r \in ring : r \in Task /\ start[r] = NoDay
      BY <1>1, <1>2, <2>1 DEF RingsNeverBegin, Open, Bottom
    <3>3. \A r \in ring : finish[r] = NoDay
      BY <1>2, <3>2 DEF Dates
    <3>4. CASE x \in leaves
      <4>1. PICK c \in Constraints(x) : c.kind = "FS" /\ \E r \in ring : r \in LeafIds(c.predecessor) /\ r \in leaves
        BY <1>1, <1>2, <2>1, <3>4, RingNeighbour
      <4>2. c.predecessor \in Task
        BY <1>2, <3>1, BoardFacts
      <4>3. ~Ended(c.predecessor)
        BY <3>3, <4>1 DEF Ended
      <4>4. NodeFinish(c.predecessor) = NoDay
        BY <1>2, <4>2, <4>3, NodeFinishIsADay
      <4>5. ~IsSatisfied(c, LastDay + 1)
        BY <4>1, <4>4 DEF IsSatisfied
      <4>6. NeverBegan(x) /\ x \in Unfinished
        BY <3>2, <3>3, <3>4, <4>5 DEF NeverBegan, Unfinished
      <4> QED
        BY <1>12, <3>1, <4>6 DEF Told
    <3>5. CASE x \notin leaves
      <4>1. gap[x] = "waiting"
        BY <1>1, <1>2, <3>1, <3>5 DEF Gaps
      <4>2. x \notin Unfinished
        BY <3>5 DEF Unfinished
      <4> QED
        BY <1>12, <3>1, <4>1, <4>2 DEF Told
    <3> QED
      BY <3>4, <3>5
  <2>2. {t \in Task : ~HasSubtasks(t) /\ Classify(t) = "none"}' = Open
    BY <1>3 DEF Open, Bottom
  <2> QED
    BY <1>3, <2>1, <2>2 DEF RingsWait, IsRing
<1>14. UnknownsArePassedOn'
  <2> DEFINE K == leaves \cup {l \in Bottom : gap[l] = "finished"}
  <2>1. \A k \in K : k \in Bottom /\ k \in Task /\ gap[k] = (IF k \in leaves THEN "none" ELSE "finished")
    BY <1>1, <1>2, <1>5 DEF Gaps, Bottom
  <2>2. \A k \in K : gap'[k] \notin Unknown /\ (gap'[k] # "finished" => k \in leaves)
    BY <1>12, <2>1 DEF Told, Unknown, Unfinished
  <2>3. ASSUME NEW x \in leaves, NEW c \in Constraints(x), NEW l \in LeafIds(c.predecessor)
        PROVE  l \in K
    <3>1. c.predecessor \in Task
      BY <1>2, <1>5, BoardFacts
    <3>2. l \in Bottom
      BY <1>2, <3>1, BoardFacts
    <3>3. ~WaitsOnUnforecast(x)
      BY <1>1, <1>2 DEF Known
    <3>4. l \in leaves \/ gap[l] = "finished"
      BY <3>3 DEF WaitsOnUnforecast, IsUnforecast
    <3> QED
      BY <3>2, <3>4
  <2>4. K \in SUBSET Task
    BY <2>1
  <2>5. \A k \in K : /\ gap'[k] \notin Unknown
                     /\ gap'[k] # "finished" => \A c \in Constraints(k) : LeafIds(c.predecessor) \subseteq K
    BY <2>2, <2>3
  <2>6. ASSUME NEW x \in leaves', NEW c \in Constraints(x), c.kind = "FS", NEW l \in LeafIds(c.predecessor)
        PROVE  gap'[l] \in {"none", "finished"}
    <3>1. x \in leaves /\ x \in Task /\ finish[x] # NoDay
      BY <1>1, <1>5 DEF Unfinished
    <3>2. start[x] # NoDay
      BY <1>2, <3>1 DEF Dates
    <3>3. Ended(c.predecessor)
      BY <1>1, <1>2, <2>6, <3>1, <3>2 DEF EndedBefore
    <3>4. l \in K /\ l \notin Unfinished
      BY <2>3, <3>1, <3>3 DEF Ended, Unfinished
    <3>5. l \in Bottom /\ gap'[l] = Told[l] /\ Told[l] = gap[l]
      BY <1>12, <2>1, <3>4 DEF Told
    <3> QED
      BY <2>1, <3>4, <3>5
  <2>7. leaves' \subseteq K
    BY <1>1
  <2> HIDE DEF K
  <2>8. ASSUME NEW x \in leaves'
        PROVE  \E known \in SUBSET Task :
                  /\ x \in known
                  /\ \A k \in known :
                        /\ gap'[k] \notin Unknown
                        /\ gap'[k] # "finished" => \A c \in Constraints(k) : LeafIds(c.predecessor) \subseteq known
    BY <2>4, <2>5, <2>7
  <2> QED
    BY <1>3, <2>6, <2>8 DEF UnknownsArePassedOn, Unknown
<1> QED
  BY <1>2, <1>3, <1>8, <1>9, <1>10, <1>11, <1>13, <1>14 DEF ForecastInv

LEMMA ForecastStutters ==
    ASSUME ForecastInv, UNCHANGED forecastVars
    PROVE  ForecastInv'
<1>1. /\ UNCHANGED <<inst, board, phase, leaves, gap, rem, start, finish, day, left, given, queue, raised, rounds>>
  BY DEF forecastVars
<1>2. /\ Bottom' = Bottom /\ Open' = Open /\ BoardStands' = BoardStands
      /\ \A t : /\ T(t)' = T(t) /\ LeafIds(t)' = LeafIds(t) /\ Constraints(t)' = Constraints(t)
                /\ SeatOf(t)' = SeatOf(t) /\ HasSubtasks(t)' = HasSubtasks(t) /\ Classify(t)' = Classify(t)
      /\ \A ring : IsRing(ring)' = IsRing(ring)
      /\ \A key, d : PersonHours(key, d)' = PersonHours(key, d)
  BY <1>1, Frozen
<1>3. /\ \A t : NodeFinish(t)' = NodeFinish(t) /\ NodeStart(t)' = NodeStart(t) /\ Ended(t)' = Ended(t)
      /\ \A c : Base(c)' = Base(c)
      /\ \A t, c : Floor(t, c)' = Floor(t, c)
      /\ \A t, d : IsReady(t, d)' = IsReady(t, d)
  BY <1>1, SameNodes
<1>4. BoardStands' /\ Shapes' /\ Order' /\ Gaps' /\ Dates'
  BY <1>1, <1>2 DEF ForecastInv, Shapes, Order, Gaps, Dates
<1>5. Hands' /\ Queued'
  BY <1>1, <1>2, <1>3 DEF ForecastInv, Hands, Queued, WorkSeats
<1>6. Known'
  BY <1>1, SameKnown DEF ForecastInv, Known
<1>7. EndedBefore' /\ RingsNeverBegin'
  BY <1>1, <1>2, <1>3 DEF ForecastInv, EndedBefore, RingsNeverBegin
<1>8. StartsRespectDependencies' /\ FinishFloorsHold'
  BY <1>1, <1>2, <1>3 DEF ForecastInv, StartsRespectDependencies, FinishFloorsHold
<1>9. RingsWait' /\ UnknownsArePassedOn'
  BY <1>1, <1>2 DEF ForecastInv, RingsWait, UnknownsArePassedOn
<1>10. FloorsRise'
  <2>1. Pairs' = Pairs /\ FinishRing' = FinishRing /\ \A t, Z : RestsOn(t, Z)' = RestsOn(t, Z)
    BY <1>1, <1>2 DEF Pairs, FinishRing, RestsOn
  <2>2. \A Z : Settled(Z)' = Settled(Z)
    BY <1>2, <1>3, <2>1 DEF Settled
  <2>3. \A t, Z : NextToSettle(t, Z)' = NextToSettle(t, Z)
    BY <1>1, <1>2, <1>3, <2>1 DEF NextToSettle
  <2>4. \A x : Floor(x[1], x[2])' = Floor(x[1], x[2])
    BY <1>3
  <2>5. FloorsRise
    BY DEF ForecastInv
  <2> QED
    BY <1>1, <2>1, <2>2, <2>3, <2>4, <2>5 DEF FloorsRise
<1> QED
  BY <1>4, <1>5, <1>6, <1>7, <1>8, <1>9, <1>10 DEF ForecastInv

------------------------------------------------------------------------------
(* What every forecast keeps.                                               *)

LEMMA ForecastStep ==
    ASSUME ForecastInv, [ForecastNext]_forecastVars
    PROVE  ForecastInv'
<1>1. CASE ClassifyAll
  BY <1>1, ClassifyAllKeeps
<1>2. CASE WaitForUnforecast
  BY <1>2, WaitForUnforecastKeeps
<1>3. CASE BeginSimulation
  BY <1>3, BeginSimulationKeeps
<1>4. CASE \E key \in WorkSeats : ServeSeat(key)
  BY <1>4, ServeSeatKeeps
<1>5. CASE ServeTask
  BY <1>5, ServeTaskKeeps
<1>6. CASE EndDay
  BY <1>6, EndDayKeeps
<1>7. CASE BeginPass
  BY <1>7, BeginPassKeeps
<1>8. CASE RaiseEnd
  BY <1>8, RaiseEndKeeps
<1>9. CASE Report
  BY <1>9, ReportKeeps
<1>10. CASE UNCHANGED forecastVars
  BY <1>10, ForecastStutters
<1> QED
  BY <1>1, <1>2, <1>3, <1>4, <1>5, <1>6, <1>7, <1>8, <1>9, <1>10 DEF ForecastNext

\* The inductive invariant holds in every forecast.
THEOREM ForecastStands ==
    ForecastSpec => []ForecastInv
<1>1. ForecastInit => ForecastInv
  BY Begins
<1>2. ForecastInv /\ [ForecastNext]_forecastVars => ForecastInv'
  BY ForecastStep
<1> QED
  BY <1>1, <1>2, PTL DEF ForecastSpec

\* Nobody is given more hours than the day has, no task is given more than is
\* left of it, and dates lie within the horizon and in order (_simulate, _work).
THEOREM HoursAndDatesAreSound ==
    ForecastSpec => []ForecastTypeOK
<1>1. ForecastInv => ForecastTypeOK
  <2> SUFFICES ASSUME ForecastInv PROVE ForecastTypeOK
    OBVIOUS
  <2>1. BoardStands /\ Shapes /\ Dates /\ Hands
    BY DEF ForecastInv
  <2>2. leaves \subseteq Task
    BY <2>1, LeavesAreTasks
  <2>3. \A t \in Task : /\ gap[t] \in Gap /\ rem[t] >= 0 /\ start[t] \in (0..LastDay) \cup {NoDay}
                        /\ finish[t] # NoDay => start[t] # NoDay /\ start[t] <= finish[t]
    BY <2>1 DEF Shapes, Dates
  <2>4. \A key \in DOMAIN left : left[key] >= 0 /\ (phase = "simulate" => left[key] <= PersonHours(key, day))
    BY <2>1 DEF Shapes, Hands
  <2> QED
    BY <2>1, <2>2, <2>3, <2>4 DEF ForecastTypeOK, Shapes
<1> QED
  BY <1>1, ForecastStands, PTL

\* No task begins before what it depends on allows, in whatever order the
\* seats are served (_is_satisfied, _simulate).
THEOREM NothingBeginsTooEarly ==
    ForecastSpec => []StartsRespectDependencies
<1>1. ForecastInv => StartsRespectDependencies
  BY DEF ForecastInv
<1> QED
  BY <1>1, ForecastStands, PTL

\* Tasks that wait for each other are reported as waiting, however they are
\* tied together (_simulate).
THEOREM RingsAreReported ==
    ForecastSpec => []RingsWait
<1>1. ForecastInv => RingsWait
  BY DEF ForecastInv
<1> QED
  BY <1>1, ForecastStands, PTL

\* A task with dates depends on no unknown, over however many dependencies of
\* any kind, and all it has to begin after has dates or is finished
\* (_wait_for_unforecast, _is_satisfied).
THEOREM UnknownsReachEveryone ==
    ForecastSpec => []UnknownsArePassedOn
<1>1. ForecastInv => UnknownsArePassedOn
  BY DEF ForecastInv
<1> QED
  BY <1>1, ForecastStands, PTL

\* The number of leaves and one are passes enough: without a ring of FF
\* dependencies every end respects its floors (_apply_finish_floors).
THEOREM PassesAreEnough ==
    ForecastSpec => []FinishFloorsHold
<1>1. ForecastInv => FinishFloorsHold
  BY DEF ForecastInv
<1> QED
  BY <1>1, ForecastStands, PTL

\* A day ends with hours left only when all that could be worked on is done or
\* has its share (_simulate hands out again until nothing starts).
THEOREM HandsAreNotIdle ==
    ForecastSpec => NoIdleHands
<1> DEFINE Busy == day' > day =>
                     \A key \in WorkSeats : left[key] > 0 =>
                         \A t \in leaves : ( /\ SeatOf(t) = key /\ finish[t] = NoDay
                                             /\ WorksOn(key, day, T(t).project) /\ IsReady(t, day) )
                                           => T(t).percent > 0
<1>1. ForecastInv /\ [ForecastNext]_forecastVars => [Busy]_forecastVars
  <2> SUFFICES ASSUME ForecastInv, ForecastNext, day' > day PROVE Busy
    BY DEF ForecastInv, Shapes
  <2>1. day \in Int
    BY DEF ForecastInv, Shapes
  <2>2. EndDay
    <3>1. ASSUME day' = day PROVE FALSE
      BY <2>1, <3>1
    <3> QED
      BY <3>1 DEF ForecastNext, ClassifyAll, WaitForUnforecast, BeginSimulation, ServeSeat, ServeTask, BeginPass,
                  RaiseEnd, Report
  <2>3. ASSUME NEW key \in WorkSeats, left[key] > 0, NEW t \in leaves, SeatOf(t) = key, finish[t] = NoDay,
               WorksOn(key, day, T(t).project), IsReady(t, day)
        PROVE  T(t).percent > 0
    <3>1. Ready(key) = {} /\ phase = "simulate"
      BY <2>2, <2>3 DEF EndDay
    <3>2. t \in given
      BY <2>3, <3>1 DEF Ready
    <3>3. T(t).percent > 0 \/ finish[t] # NoDay \/ left[SeatOf(t)] = 0
      BY <3>1, <3>2 DEF ForecastInv, Hands
    <3> QED
      BY <2>3, <3>3
  <2> QED
    BY <2>3
<1> QED
  BY <1>1, ForecastStands, PTL DEF ForecastSpec, NoIdleHands
==============================================================================
