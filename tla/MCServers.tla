----------------------------- MODULE MCServers ------------------------------
(***************************************************************************)
(* An instance for TLC of the two kinds of killable server.  In a          *)
(* behaviour one of them is at work, and the other was killed before it    *)
(* received anything.                                                      *)
(***************************************************************************)
EXTENDS DynServer

CONSTANTS FixedRequests, Workers, MaxRequests, LifeTime, MayLose

ASSUME FixedRequestsAssumption == NoRequest \notin FixedRequests

VARIABLES
  fixedKilled, fixedMain, fixedHeld, fixedClosed, requests, unfinished, pc, item, nb_requests

fixedVars == <<fixedKilled, fixedMain, fixedHeld, fixedClosed, requests, unfinished, pc,
               item, nb_requests>>

Fixed == INSTANCE FixedServer WITH Requests <- FixedRequests, killed <- fixedKilled,
           main <- fixedMain, held <- fixedHeld, closed <- fixedClosed

FixedWasKilled ==
  /\ fixedKilled = TRUE /\ fixedMain = "ended" /\ fixedHeld = NoRequest
  /\ fixedClosed = [r \in FixedRequests |-> 0] /\ requests = <<>> /\ unfinished = 0
  /\ pc = [w \in Workers |-> "returned"]
  /\ item = [w \in Workers |-> NoRequest] /\ nb_requests = [w \in Workers |-> 0]

DynWasKilled ==
  /\ killed = TRUE /\ main = "ended" /\ held = NoRequest
  /\ closed = [r \in Requests |-> 0] /\ pending = {}
  /\ state = [r \in Requests |-> "pending"] /\ stopped = TRUE
  /\ at = [r \in Requests |-> "none"]
  /\ kill = [k \in Killers |-> "done"] /\ cancelled = [k \in Killers |-> {}]

ServersInit == (Fixed!Init /\ DynWasKilled) \/ (Init /\ FixedWasKilled)

ServersNext ==
  \/ Fixed!Next /\ UNCHANGED vars
  \/ Next /\ UNCHANGED fixedVars

ServersSpec ==
  /\ ServersInit /\ [][ServersNext]_<<fixedVars, vars>>
  /\ Fixed!Fairness /\ Fairness

\* See FixedServer; its state is of the right types as well.
Acknowledged == Fixed!TypeOK /\ Fixed!Acknowledged

\* See FixedServer: it keeps the contract that the dynamic servers keep.
FixedKeepsContract == Fixed!KeepsContract

\* See FixedServer: what it received is closed, whether it is killed or not, and kill()
\* ends its threads.
FixedServerEnds == Fixed!EveryRequestEnds /\ Fixed!KillEnds
=============================================================================
