----------------------------- MODULE DynServer -----------------------------
(***************************************************************************)
(* KillableDynThreadingTCPServer and KillableDynThreadingUDPServer: the    *)
(* receiving thread submits each request to a WorkerPool, of which all     *)
(* that is used here is its contract, and remembers it until a worker      *)
(* takes it; kill() closes the ones that no worker has taken.              *)
(*                                                                         *)
(* A step is one critical section of _request_lock, or a step of the pool. *)
(* The key id(request) is the request.                                     *)
(* Operators marked "Variant" are not part of the model: each is a defect  *)
(* that a property is shown to detect.                                     *)
(***************************************************************************)
EXTENDS ServerMain

CONSTANT Killers   \* calls of kill()

VARIABLES
  pending,          \* _pending_requests
  state, stopped,   \* the pool: its submissions, one per request
  at,               \* where the callable of a request is
  kill,             \* where each call of kill() is
  cancelled         \* its variable `pending`

poolVars == <<state, stopped>>
killVars == <<kill, cancelled>>
vars == <<killed, main, held, closed, pending, poolVars, at, killVars>>

Pool == INSTANCE PoolContract WITH Tasks <- Requests

Init ==
  /\ MainInit /\ Pool!Init
  /\ pending = {}
  /\ at = [r \in Requests |-> "none"]
  /\ kill = [k \in Killers |-> "new"]
  /\ cancelled = [k \in Killers |-> {}]

-----------------------------------------------------------------------------
(* The receiving thread.                                                   *)

ReceiveNew(r) ==
  /\ state[r] = "pending" /\ closed[r] = 0
  /\ Receive(r)
  /\ UNCHANGED <<pending, poolVars, at, killVars>>

MainStep == (Verify \/ Ended) /\ UNCHANGED <<pending, poolVars, at, killVars>>

\* Variant: the request is not forgotten when run() raises
AdmitStillPending ==
  /\ main = "admit" /\ ~killed
  /\ pending' = pending \cup {held}
  /\ \/ Pool!Accept(held) /\ GoOn("serve") /\ UNCHANGED closed
     \/ /\ Pool!Accept(held) \/ Pool!Refuse(held)
        /\ Close({held}) /\ GoOn("ended")
  /\ UNCHANGED <<killed, at, killVars>>

\* All under the lock: run() accepts the request, or raises.  It may be
\* interrupted when the request is already queued.
Admit ==
  /\ main = "admit"
  /\ \/ killed /\ Close({held}) /\ GoOn("serve") /\ UNCHANGED <<pending, poolVars>>
     \/ /\ ~killed /\ Pool!Accept(held)
        /\ pending' = pending \cup {held}
        /\ GoOn("serve") /\ UNCHANGED closed
     \/ /\ ~killed /\ (Pool!Accept(held) \/ Pool!Refuse(held))
        /\ Close({held}) /\ GoOn("ended") /\ UNCHANGED pending
  /\ UNCHANGED <<killed, at, killVars>>

-----------------------------------------------------------------------------
(* The workers: _process_queued_request().                                 *)

Begin(r) ==
  /\ Pool!Begin(r)
  /\ at' = [at EXCEPT ![r] = "called"]
  /\ UNCHANGED <<killed, mainVars, closed, pending, killVars>>

\* Variant: whether kill() took the request is not looked at
CheckNothing(r) ==
  /\ at[r] = "called"
  /\ at' = [at EXCEPT ![r] = "handle"]
  /\ pending' = pending \ {r}
  /\ UNCHANGED <<killed, mainVars, closed, poolVars, killVars>>

Check(r) ==
  /\ at[r] = "called"
  /\ at' = [at EXCEPT ![r] = IF r \in pending THEN "handle" ELSE "return"]
  /\ pending' = pending \ {r}
  /\ UNCHANGED <<killed, mainVars, closed, poolVars, killVars>>

\* process_request_thread() of socketserver closes the request in any case
Handle(r) ==
  /\ at[r] = "handle"
  /\ Close({r})
  /\ at' = [at EXCEPT ![r] = "return"]
  /\ UNCHANGED <<killed, mainVars, pending, poolVars, killVars>>

Return(r) ==
  /\ at[r] = "return" /\ Pool!Finish(r)
  /\ UNCHANGED <<killed, mainVars, closed, pending, at, killVars>>

\* The pool drops, after its stop, what a worker had just dequeued
Drop(r) ==
  /\ Pool!Cancel(r)
  /\ UNCHANGED <<killed, mainVars, closed, pending, at, killVars>>

-----------------------------------------------------------------------------
(* kill().                                                                 *)

KillTo(k, p) == kill' = [kill EXCEPT ![k] = p]

\* Variant: the pending requests are left to the pool
BeginKillOnly(k) ==
  /\ kill[k] = "new" /\ KillTo(k, "stop")
  /\ killed' = TRUE /\ pending' = {}
  /\ UNCHANGED <<mainVars, closed, poolVars, at, cancelled>>

BeginKill(k) ==
  /\ kill[k] = "new" /\ KillTo(k, "stop")
  /\ killed' = TRUE
  /\ cancelled' = [cancelled EXCEPT ![k] = pending] /\ pending' = {}
  /\ UNCHANGED <<mainVars, closed, poolVars, at>>

\* workerpool.killall(0)
StopPool(k) ==
  /\ kill[k] = "stop" /\ KillTo(k, "close")
  /\ Pool!Stop
  /\ UNCHANGED <<killed, mainVars, closed, pending, at, cancelled>>

CloseCancelled(k) ==
  /\ kill[k] = "close" /\ KillTo(k, "done")
  /\ Close(cancelled[k])
  /\ UNCHANGED <<killed, mainVars, pending, poolVars, at, cancelled>>

-----------------------------------------------------------------------------

Callable(r) == Check(r) \/ Handle(r) \/ Return(r)

EndKill(k) == StopPool(k) \/ CloseCancelled(k)

Next ==
  \/ MainStep \/ Admit
  \/ \E r \in Requests : ReceiveNew(r) \/ Begin(r) \/ Callable(r) \/ Drop(r)
  \/ \E k \in Killers : BeginKill(k) \/ EndKill(k)

Spec == Init /\ [][Next]_vars

\* Threads run, handlers return, and the pool begins or cancels what it has
\* accepted, which is what AcceptedSettles says of WorkerPool.
Fairness ==
  /\ WF_vars(MainStep) /\ WF_vars(Admit)
  /\ \A r \in Requests : WF_vars(Begin(r) \/ Drop(r)) /\ WF_vars(Callable(r))
  /\ \A k \in Killers : WF_vars(EndKill(k))

-----------------------------------------------------------------------------
(* Properties.                                                             *)

Stage(r) ==
  IF closed[r] > 1 THEN "closed twice"
  ELSE IF closed[r] = 1 THEN "closed"
  ELSE IF held = r THEN "received"
  ELSE IF at[r] = "handle" THEN "handled"
  ELSE IF state[r] # "pending" THEN "admitted"
  ELSE "unseen"

Contract == INSTANCE ServerContract WITH stage <- [r \in Requests |-> Stage(r)]

\* Each request is closed once, although kill(), the pool's stop and a worker
\* that has just taken the request may all be the ones to end it.
KeepsContract == Contract!Spec

\* What was received is closed: by its worker, by the receiving thread or by the
\* call of kill() that found it pending, although the pool then never runs it.
EveryRequestEnds == \A r \in Requests : Stage(r) # "unseen" ~> closed[r] = 1
=============================================================================
