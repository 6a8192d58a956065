---------------------------- MODULE MCWorkerPool ----------------------------
(***************************************************************************)
(* Instances of WorkerPool for TLC.                                        *)
(***************************************************************************)
EXTENDS WorkerPool, TLC

CONSTANTS t1, t2, t3

\* t1 submits t3 from its callable; t1 and t2 come from outside
NestedParent == [t \in Tasks |-> IF t = t3 THEN t1 ELSE External]

FlatParent == [t \in Tasks |-> External]

\* t1 and t2 have one priority, t3 a lower value: it runs first
TwoPrio == [t \in Tasks |-> IF t = t3 THEN 1 ELSE 5]

\* Interchangeable names; sound without liveness properties
Symmetry == Permutations(Workers) \cup Permutations(Kills)

NoPrio == [t \in Tasks |-> 0]
=============================================================================
