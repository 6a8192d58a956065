--------------------------- MODULE ServerContract ---------------------------
(***************************************************************************)
(* What a killable server promises of the requests it receives: each is    *)
(* closed once, after its handler if it has begun one, and no handler      *)
(* begins once kill() was called.                                          *)
(***************************************************************************)
CONSTANT Requests

VARIABLES
  stage,    \* of each request
  killed    \* kill() was called

svars == <<stage, killed>>

\* A server may be killed before it is started
Init == stage = [r \in Requests |-> "unseen"] /\ killed \in BOOLEAN

Change(r, from, to) ==
  /\ stage[r] = from
  /\ stage' = [stage EXCEPT ![r] = to]
  /\ UNCHANGED killed

Receive(r) == Change(r, "unseen", "received")
Reject(r)  == Change(r, "received", "closed")
Admit(r)   == ~killed /\ Change(r, "received", "admitted")
Begin(r)   == ~killed /\ Change(r, "admitted", "handled")
End(r)     == Change(r, "handled", "closed")

\* A stop closes what was admitted, at once or later.
Kill ==
  /\ killed' = TRUE
  /\ \E C \in SUBSET {r \in Requests : stage[r] = "admitted"} :
       stage' = [r \in Requests |-> IF r \in C THEN "closed" ELSE stage[r]]

Next == \/ Kill
        \/ \E r \in Requests : \/ Receive(r) \/ Reject(r) \/ Admit(r)
                               \/ Begin(r) \/ End(r)

Spec == Init /\ [][Next]_svars
=============================================================================
