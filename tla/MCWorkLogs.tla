----------------------------- MODULE MCWorkLogs ------------------------------
(* A root with one child, a task in each and one outside; two months of four *)
(* and five days; the Tracker delivers two periods.                          *)
EXTENDS WorkLogs

CONSTANTS ann, bob

SlotSymmetry == Permutations(Slot)

MCMonths == {[first |-> 1, last |-> 4], [first |-> 5, last |-> 9]}
MCParent == <<NoProject, 1>>
MCTaskHome == <<[owner |-> ann, project |-> 2], [owner |-> ann, project |-> NoProject]>>

MCRange == { [unit |-> "closing", first |-> 2, last |-> 6], [unit |-> "week", first |-> 2, last |-> 4],
             [unit |-> "month", first |-> 4, last |-> 5] }

Entry(t, d, s) == [task |-> t, day |-> d, seconds |-> s]
MCDelivery == { [first |-> 1, last |-> 2, entries |-> <<Entry(1, 2, 3600), Entry(1, 2, 10)>>],
                [first |-> 1, last |-> 4, entries |-> <<Entry(2, 3, 10), Entry(1, 4, 0)>>],
                [first |-> 3, last |-> 4, entries |-> <<Entry(1, 3, 3600), Entry(3, 3, 3600)>>],
                [first |-> 3, last |-> 4, entries |-> <<Entry(1, 5, 3600)>>] }
==============================================================================
