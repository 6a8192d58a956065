---------------------------- MODULE FixedServer ----------------------------
(***************************************************************************)
(* KillableThreadingTCPServer and KillableThreadingUDPServer: one thread   *)
(* receives requests and puts them in a bounded queue, a fixed number of   *)
(* threads, each of which replaces itself after a time or a number of      *)
(* requests, handle them, and kill() stops all that.                       *)
(*                                                                         *)
(* A step is one critical section of _request_lock, one operation of the   *)
(* queue or one unlocked read of _killed.  A name w of Workers stands for  *)
(* a thread and, after it, its replacement.                                *)
(* Operators marked "Variant" are not part of the model: each is a defect  *)
(* that a property is shown to detect.                                     *)
(***************************************************************************)
EXTENDS ServerMain, Sequences, FiniteSets

CONSTANTS
  Workers,
  MaxRequests,  \* max_requests; 0: no limit
  LifeTime,     \* is max_life_time set
  MayLose       \* may a BaseException end a thread, or a thread not start

VARIABLES
  requests,     \* the queue
  unfinished,   \* its unfinished_tasks
  pc,           \* where each worker is
  item,         \* the request it has in hand
  nb_requests

workerVars == <<pc, item, nb_requests>>
vars == <<killed, main, held, closed, requests, unfinished, workerVars>>

TypeOK ==
  /\ MainTypeOK
  /\ requests \in Seq(Requests) /\ unfinished \in Nat
  /\ pc \in [Workers -> {"top", "get", "got", "handle", "ack", "renew",
                         "returned", "lost"}]
  /\ item \in [Workers -> Requests \cup {NoRequest}]
  /\ nb_requests \in [Workers -> Nat]

Init ==
  /\ MainInit
  /\ requests = <<>> /\ unfinished = 0
  /\ pc = [w \in Workers |-> "top"]
  /\ item = [w \in Workers |-> NoRequest]
  /\ nb_requests = [w \in Workers |-> 0]

Full == Len(requests) >= Cardinality(Workers)
Queued == {requests[i] : i \in DOMAIN requests}

-----------------------------------------------------------------------------
(* The receiving thread and kill().                                        *)

\* get_request() returns a request that nobody has seen
ReceiveNew(r) ==
  /\ closed[r] = 0 /\ held # r /\ r \notin Queued
  /\ \A w \in Workers : item[w] # r
  /\ Receive(r)
  /\ UNCHANGED <<requests, unfinished, workerVars>>

MainStep == (Verify \/ Ended) /\ UNCHANGED <<requests, unfinished, workerVars>>

Put ==
  /\ requests' = Append(requests, held) /\ unfinished' = unfinished + 1
  /\ GoOn("serve")
  /\ UNCHANGED closed

\* Variant: kill() is not seen between two attempts
AdmitAnyway ==
  /\ main \in {"admit", "full"} /\ ~Full /\ Put
  /\ UNCHANGED <<killed, workerVars>>

\* One attempt at put_nowait(); after the first that fails the thread waits
Admit ==
  /\ main \in {"admit", "full"}
  /\ \/ killed /\ Close({held}) /\ GoOn("serve") /\ UNCHANGED <<requests, unfinished>>
     \/ ~killed /\ ~Full /\ Put
     \/ /\ ~killed /\ Full /\ main = "admit"
        /\ main' = "full" /\ UNCHANGED <<held, closed, requests, unfinished>>
  /\ UNCHANGED <<killed, workerVars>>

\* A KeyboardInterrupt in wait(0.05), between two attempts
Interrupt ==
  /\ main = "full" /\ MayLose
  /\ main' = "ended"
  /\ UNCHANGED <<killed, held, closed, requests, unfinished, workerVars>>

\* Variant: the queue is left to threads that are about to end
KillOnly ==
  /\ killed' = TRUE
  /\ UNCHANGED <<mainVars, closed, requests, unfinished, workerVars>>

\* Variant: what kill() takes from the queue is not acknowledged
KillUnacknowledged ==
  /\ killed' = TRUE
  /\ requests' = <<>> /\ Close(Queued)
  /\ UNCHANGED <<mainVars, unfinished, workerVars>>

Kill ==
  /\ killed' = TRUE
  /\ requests' = <<>> /\ Close(Queued) /\ unfinished' = unfinished - Len(requests)
  /\ UNCHANGED <<mainVars, workerVars>>

-----------------------------------------------------------------------------
(* The workers: process_request_thread().                                  *)

Goto(w, p) == pc' = [pc EXCEPT ![w] = p]

\* The loop condition, and the age of the thread
Loop(w) ==
  /\ pc[w] = "top"
  /\ IF killed THEN Goto(w, "returned") ELSE Goto(w, "get")
  /\ UNCHANGED <<killed, mainVars, closed, requests, unfinished, item, nb_requests>>

Expire(w) ==
  /\ pc[w] = "top" /\ ~killed /\ LifeTime
  /\ Goto(w, "renew")
  /\ UNCHANGED <<killed, mainVars, closed, requests, unfinished, item, nb_requests>>

Get(w) ==
  /\ pc[w] = "get" /\ requests # <<>>
  /\ requests' = Tail(requests)
  /\ item' = [item EXCEPT ![w] = Head(requests)]
  /\ Goto(w, "got")
  /\ UNCHANGED <<killed, mainVars, closed, unfinished, nb_requests>>

GetTimeout(w) ==
  /\ pc[w] = "get" /\ requests = <<>>
  /\ Goto(w, "top")
  /\ UNCHANGED <<killed, mainVars, closed, requests, unfinished, item, nb_requests>>

\* Variant: a request in hand is handled whatever kill() said
CheckNothing(w) ==
  /\ pc[w] = "got"
  /\ Goto(w, "handle")
  /\ UNCHANGED <<killed, mainVars, closed, requests, unfinished, item, nb_requests>>

\* `cancelled`, read under the lock
Check(w) ==
  /\ pc[w] = "got" /\ ~killed
  /\ Goto(w, "handle")
  /\ UNCHANGED <<killed, mainVars, closed, requests, unfinished, item, nb_requests>>

\* shutdown_request(), task_done() and return
Cancel(w) ==
  /\ pc[w] = "got" /\ killed
  /\ Close({item[w]}) /\ unfinished' = unfinished - 1
  /\ item' = [item EXCEPT ![w] = NoRequest]
  /\ Goto(w, "returned")
  /\ UNCHANGED <<killed, mainVars, requests, nb_requests>>

\* process_request_thread() of socketserver handles the request, survives an
\* Exception of the handler, and closes the request in any case.
Handle(w) ==
  /\ pc[w] = "handle"
  /\ Close({item[w]})
  /\ item' = [item EXCEPT ![w] = NoRequest]
  /\ Goto(w, "ack")
  /\ UNCHANGED <<killed, mainVars, requests, unfinished, nb_requests>>

\* task_done(), and what follows, unless the handler raised a BaseException
Acknowledge(w) ==
  /\ pc[w] = "ack"
  /\ unfinished' = unfinished - 1
  /\ \/ /\ nb_requests' = [nb_requests EXCEPT ![w] = IF MaxRequests = 0 THEN 0 ELSE @ + 1]
        /\ Goto(w, IF MaxRequests > 0 /\ nb_requests'[w] >= MaxRequests
                   THEN "renew" ELSE "top")
     \/ MayLose /\ Goto(w, "lost") /\ UNCHANGED nb_requests
  /\ UNCHANGED <<killed, mainVars, closed, requests, item>>

\* Variant: a thread that has served its time is not replaced
Leave(w) ==
  /\ pc[w] = "renew"
  /\ Goto(w, "returned")
  /\ UNCHANGED <<killed, mainVars, closed, requests, unfinished, item, nb_requests>>

\* add_worker(1) starts a thread like this one, which returns, or raises
Renew(w) ==
  /\ pc[w] = "renew"
  /\ IF killed THEN Goto(w, "returned")
     ELSE Goto(w, "top") \/ (MayLose /\ Goto(w, "lost"))
  /\ nb_requests' = [nb_requests EXCEPT ![w] = 0]
  /\ UNCHANGED <<killed, mainVars, closed, requests, unfinished, item>>

WorkerStep(w) ==
  \/ Loop(w) \/ Expire(w) \/ Get(w) \/ GetTimeout(w) \/ Check(w) \/ Cancel(w)
  \/ Handle(w) \/ Acknowledge(w) \/ Renew(w)

Next ==
  \/ \E r \in Requests : ReceiveNew(r)
  \/ MainStep \/ Admit \/ Interrupt \/ Kill
  \/ \E w \in Workers : WorkerStep(w)

Spec == Init /\ [][Next]_vars

\* Threads run, get() and handlers return, and a thread lives long enough (a
\* second at least) to look at the queue now and then.  Nobody must call kill().
Fairness ==
  /\ WF_vars(MainStep) /\ WF_vars(Admit)
  /\ \A w \in Workers : WF_vars(WorkerStep(w)) /\ SF_vars(Loop(w))

-----------------------------------------------------------------------------
(* Properties.                                                             *)

\* requests.join() waits for exactly what is queued or in hand, through stops,
\* recycling and exceptions.
Acknowledged ==
  unfinished = Len(requests) +
               Cardinality({w \in Workers : pc[w] \in {"got", "handle", "ack"}})

Stage(r) ==
  IF closed[r] > 1 THEN "closed twice"
  ELSE IF closed[r] = 1 THEN "closed"
  ELSE IF held = r THEN "received"
  ELSE IF \E w \in Workers : item[w] = r /\ pc[w] = "handle" THEN "handled"
  ELSE IF r \in Queued \/ \E w \in Workers : item[w] = r THEN "admitted"
  ELSE "unseen"

Contract == INSTANCE ServerContract WITH stage <- [r \in Requests |-> Stage(r)]

\* Each request is closed once, wherever a stop meets it, and no handler begins
\* after the stop.
KeepsContract == Contract!Spec

\* The request of a receiving thread that was interrupted: nobody closes it
Abandoned(r) == main = "ended" /\ held = r

\* A request is handled or closed, unless every worker died of an exception;
\* workers that return are replaced in time.
EveryRequestEnds ==
  \A r \in Requests :
    Stage(r) # "unseen" ~> \/ closed[r] = 1 \/ Abandoned(r)
                           \/ \A w \in Workers : pc[w] = "lost"

\* kill() ends the server: the receiving thread and the workers return, the
\* queue can be joined, and whatever was received is closed, even if workers
\* had been lost and the queue was full.
KillEnds ==
  killed ~> /\ main = "ended" /\ unfinished = 0
            /\ \A w \in Workers : pc[w] \in {"returned", "lost"}
            /\ \A r \in Requests : Stage(r) \in {"unseen", "closed"} \/ Abandoned(r)
=============================================================================
