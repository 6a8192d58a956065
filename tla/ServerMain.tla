----------------------------- MODULE ServerMain -----------------------------
(***************************************************************************)
(* The thread that runs serve_until_killed(), the same in the four         *)
(* killable servers of sonicprobe.libs.threading_tcp_server and            *)
(* threading_udp_server up to the admission of a request.                  *)
(***************************************************************************)
EXTENDS Naturals

CONSTANTS Requests, NoRequest

ASSUME RequestsAssumption == NoRequest \notin Requests

VARIABLES
  killed,   \* _killed
  main,     \* where that thread is
  held,     \* the request it has in hand
  closed    \* history: calls of shutdown_request() with each request

mainVars == <<main, held>>

MainTypeOK ==
  /\ killed \in BOOLEAN
  /\ main \in {"serve", "verify", "admit", "full", "ended"}
  /\ held \in Requests \cup {NoRequest}
  /\ closed \in [Requests -> Nat]

MainInit ==
  /\ killed = FALSE /\ main = "serve" /\ held = NoRequest
  /\ closed = [r \in Requests |-> 0]

Close(S) == closed' = [r \in Requests |-> IF r \in S THEN closed[r] + 1 ELSE closed[r]]

\* The thread goes to p, with the request if it still has it in hand
GoOn(p) == main' = p /\ held' = NoRequest

\* get_request() returns r; without one it times out and is called again
Receive(r) ==
  /\ main = "serve"
  /\ main' = "verify" /\ held' = r
  /\ UNCHANGED <<killed, closed>>

\* verify_request() accepts, refuses or raises
Verify ==
  /\ main = "verify"
  /\ \/ main' = "admit" /\ UNCHANGED <<held, closed>>
     \/ Close({held}) /\ \E p \in {"serve", "ended"} : GoOn(p)
  /\ UNCHANGED killed

\* killed() at the top of the loop
Ended ==
  /\ main = "serve" /\ killed
  /\ main' = "ended"
  /\ UNCHANGED <<killed, held, closed>>
=============================================================================
