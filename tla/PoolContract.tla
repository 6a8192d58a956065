---------------------------- MODULE PoolContract ----------------------------
(***************************************************************************)
(* What a WorkerPool promises to the code that submits to it: each         *)
(* accepted callable runs once and to its end, or is cancelled by a stop   *)
(* and never runs; after a stop nothing is accepted and nothing new begins. *)
(***************************************************************************)
EXTENDS Naturals

CONSTANT Tasks

VARIABLES
  state,    \* each submission: pending, accepted or refused, then its callable
  stopped   \* killall() was called

cvars == <<state, stopped>>

Init == state = [t \in Tasks |-> "pending"] /\ stopped = FALSE

Change(t, from, to) ==
  /\ state[t] = from
  /\ state' = [state EXCEPT ![t] = to]
  /\ UNCHANGED stopped

Accept(t) == ~stopped /\ Change(t, "pending", "accepted")
Refuse(t) == Change(t, "pending", "refused")
Begin(t)  == ~stopped /\ Change(t, "accepted", "begun")
Finish(t) == Change(t, "begun", "done")
Cancel(t) == stopped /\ Change(t, "accepted", "cancelled")

\* A stop cancels what is queued; a worker may still hold an accepted task,
\* which is then cancelled by a later step.
Stop ==
  /\ stopped' = TRUE
  /\ \E C \in SUBSET {t \in Tasks : state[t] = "accepted"} :
       state' = [t \in Tasks |-> IF t \in C THEN "cancelled" ELSE state[t]]

Next == \/ Stop
        \/ \E t \in Tasks : \/ Accept(t) \/ Refuse(t) \/ Begin(t)
                            \/ Finish(t) \/ Cancel(t)

Spec == Init /\ [][Next]_cvars
=============================================================================
