---------------------------- MODULE LockContract ----------------------------
(***************************************************************************)
(* What a readers-writer lock promises to the threads that use it.         *)
(***************************************************************************)
CONSTANT Threads

VARIABLE holds   \* what each thread holds: "none", "read" or "write"

Init == holds = [t \in Threads |-> "none"]

Read(t) ==
  /\ \A u \in Threads : holds[u] # "write"
  /\ holds' = [holds EXCEPT ![t] = "read"]

Write(t) ==
  /\ \A u \in Threads : holds[u] = "none"
  /\ holds' = [holds EXCEPT ![t] = "write"]

Release(t) ==
  /\ holds[t] # "none"
  /\ holds' = [holds EXCEPT ![t] = "none"]

Next == \E t \in Threads : Read(t) \/ Write(t) \/ Release(t)

Spec == Init /\ [][Next]_holds
=============================================================================
