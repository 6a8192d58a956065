---------------------------- MODULE ServersProofs ----------------------------
(***************************************************************************)
(* Proofs that both kinds of killable server keep ServerContract, for any  *)
(* number of requests, of workers and of calls of kill().  Of the pool the *)
(* dynamic servers use only PoolContract, which WorkerPoolProofs shows of  *)
(* WorkerPool.                                                             *)
(***************************************************************************)
EXTENDS MCServers, Sequences, FiniteSetTheorems, TLAPS

-----------------------------------------------------------------------------
(* The dynamic servers: the inductive invariant.                           *)

TypeOK ==
  /\ killed \in BOOLEAN /\ stopped \in BOOLEAN
  /\ main \in {"serve", "verify", "admit", "ended"}
  /\ held \in Requests \cup {NoRequest}
  /\ closed \in [Requests -> {0, 1}]
  /\ pending \subseteq Requests
  /\ state \in [Requests -> {"pending", "accepted", "refused", "begun", "done", "cancelled"}]
  /\ at \in [Requests -> {"none", "called", "handle", "return"}]
  /\ kill \in [Killers -> {"new", "stop", "close", "done"}]
  /\ cancelled \in [Killers -> SUBSET Requests]

\* The receiving thread has a request in hand between its reception and its admission,
\* and nobody else has seen it.
InHand ==
  /\ main \in {"verify", "admit"} <=> held \in Requests
  /\ held \in Requests => state[held] = "pending" /\ closed[held] = 0

\* What the pool has not begun has no callable, and what was not submitted is nowhere
Begun ==
  \A r \in Requests :
    /\ at[r] = "none" => state[r] \in {"pending", "accepted", "refused", "cancelled"}
    /\ at[r] # "none" => state[r] \in {"begun", "done"}

\* A pending request is one the pool will call or is calling; it is open, and no call of
\* kill() has it
Pending ==
  \A r \in pending :
    /\ closed[r] = 0 /\ at[r] \in {"none", "called"} /\ state[r] \in {"accepted", "begun"}
    /\ \A k \in Killers : r \notin cancelled[k]

\* A request that is handled is open, and its handler alone has it
Handled ==
  \A r \in Requests :
    at[r] = "handle" => /\ closed[r] = 0 /\ r \notin pending
                        /\ \A k \in Killers : r \notin cancelled[k]

\* What a call of kill() has taken is open until that call closes it
Taken ==
  \A k \in Killers : \A r \in cancelled[k] :
    /\ state[r] # "pending"
    /\ kill[k] \in {"stop", "close"} => closed[r] = 0
    /\ \A j \in Killers \ {k} : r \notin cancelled[j]

\* Nothing is pending any more once kill() was called
Killed ==
  /\ killed => pending = {}
  /\ stopped => killed
  /\ \A k \in Killers : /\ kill[k] = "new" => cancelled[k] = {}
                        /\ kill[k] # "new" => killed

IInv == TypeOK /\ InHand /\ Begun /\ Pending /\ Handled /\ Taken /\ Killed

-----------------------------------------------------------------------------

LEMMA Initially == Init => IInv
<1> SUFFICES ASSUME Init PROVE IInv
  OBVIOUS
<1>1. /\ killed = FALSE /\ main = "serve" /\ held = NoRequest /\ stopped = FALSE
      /\ pending = {}
      /\ closed = [r \in Requests |-> 0] /\ at = [r \in Requests |-> "none"]
      /\ kill = [k \in Killers |-> "new"] /\ cancelled = [k \in Killers |-> {}]
  BY DEF Init, MainInit, Pool!Init
<1>2. state = [r \in Requests |-> "pending"]
  BY DEF Init, Pool!Init
<1>3. TypeOK
  BY <1>1, <1>2 DEF TypeOK
<1>4. InHand /\ Begun /\ Pending
  BY <1>1, <1>2, RequestsAssumption DEF InHand, Begun, Pending
<1>5. Handled /\ Taken /\ Killed
  BY <1>1 DEF Handled, Taken, Killed
<1> QED BY <1>3, <1>4, <1>5 DEF IInv

LEMMA Inductive == IInv /\ [Next]_vars => IInv'
<1> SUFFICES ASSUME IInv, [Next]_vars PROVE IInv'
  OBVIOUS
<1> USE RequestsAssumption DEF IInv, TypeOK, InHand, Begun, Pending, Handled,
      Taken, Killed, mainVars, poolVars, killVars, GoOn, Close, Pool!Change
<1>1. CASE UNCHANGED vars
  BY <1>1 DEF vars
<1>2. ASSUME NEW r \in Requests, ReceiveNew(r) PROVE IInv'
  BY <1>2 DEF ReceiveNew, Receive
<1>3. CASE MainStep
  BY <1>3 DEF MainStep, Verify, Ended
<1>4. CASE Admit
  <2>1. CASE killed
    BY <1>4, <2>1 DEF Admit
  <2>2. CASE Pool!Accept(held) /\ pending' = pending \cup {held} /\ GoOn("serve")
             /\ UNCHANGED closed
    BY <1>4, <2>2 DEF Admit, Pool!Accept
  <2>3. CASE (Pool!Accept(held) \/ Pool!Refuse(held)) /\ Close({held}) /\ GoOn("ended")
             /\ UNCHANGED pending
    BY <1>4, <2>3 DEF Admit, Pool!Accept, Pool!Refuse
  <2> QED BY <1>4, <2>1, <2>2, <2>3 DEF Admit
<1>5. ASSUME NEW r \in Requests, Begin(r) PROVE IInv'
  BY <1>5 DEF Begin, Pool!Begin
<1>6. ASSUME NEW r \in Requests, Check(r) PROVE IInv'
  BY <1>6 DEF Check
<1>7. ASSUME NEW r \in Requests, Handle(r) PROVE IInv'
  BY <1>7 DEF Handle
<1>8. ASSUME NEW r \in Requests, Return(r) PROVE IInv'
  BY <1>8 DEF Return, Pool!Finish
<1>9. ASSUME NEW r \in Requests, Drop(r) PROVE IInv'
  BY <1>9 DEF Drop, Pool!Cancel
<1>10. ASSUME NEW k \in Killers, BeginKill(k) PROVE IInv'
  BY <1>10 DEF BeginKill, KillTo
<1>11. ASSUME NEW k \in Killers, StopPool(k) PROVE IInv'
  BY <1>11 DEF StopPool, KillTo, Pool!Stop
<1>12. ASSUME NEW k \in Killers, CloseCancelled(k) PROVE IInv'
  BY <1>12 DEF CloseCancelled, KillTo
<1> QED
  BY <1>1, <1>2, <1>3, <1>4, <1>5, <1>6, <1>7, <1>8, <1>9, <1>10, <1>11, <1>12
  DEF Next, Callable, EndKill

-----------------------------------------------------------------------------
(* The refinement: every step is one of ServerContract, or changes nothing *)
(* that it sees.                                                           *)

Stages == [r \in Requests |-> Stage(r)]

\* A step that moves one request through the contract
LEMMA OneMoves ==
  ASSUME NEW r \in Requests, NEW from, NEW to, Stage(r) = from, Stage(r)' = to,
         \A q \in Requests \ {r} : Stage(q)' = Stage(q), UNCHANGED killed
  PROVE  Contract!Change(r, from, to)
BY DEF Contract!Change

LEMMA NoneMoves ==
  ASSUME \A q \in Requests : Stage(q)' = Stage(q), UNCHANGED killed
  PROVE  UNCHANGED Contract!svars
BY DEF Contract!svars

\* What a stage depends on
LEMMA SameStage ==
  ASSUME NEW q \in Requests, closed'[q] = closed[q], (held' = q) <=> (held = q),
         (at'[q] = "handle") <=> (at[q] = "handle"),
         (state'[q] = "pending") <=> (state[q] = "pending")
  PROVE  Stage(q)' = Stage(q)
BY DEF Stage

\* A request that the receiving thread gives up is closed
LEMMA Rejected ==
  ASSUME IInv, held \in Requests, Close({held}), held' = NoRequest,
         UNCHANGED <<killed, at>>, \A q \in Requests \ {held} : state'[q] = state[q]
  PROVE  Contract!Reject(held)
<1> USE RequestsAssumption DEF IInv, TypeOK, InHand, Close
<1>1. Stage(held) = "received"
  BY DEF Stage
<1>2. /\ closed'[held] = 1
      /\ \A q \in Requests \ {held} : closed'[q] = closed[q]
  OBVIOUS
<1>3. \A r \in Requests : closed'[r] = 1 => Stage(r)' = "closed"
  BY DEF Stage
<1>4. \A q \in Requests \ {held} : Stage(q)' = Stage(q)
  BY <1>2, SameStage
<1> QED BY <1>1, <1>2, <1>3, <1>4, OneMoves, Zenon DEF Contract!Reject

LEMMA StepContract ==
  ASSUME IInv, [Next]_vars
  PROVE  [Contract!Next]_Contract!svars
<1> USE RequestsAssumption DEF IInv, TypeOK, InHand, Begun, Pending, Handled,
      Taken, Killed, mainVars, poolVars, killVars, GoOn, Close, Pool!Change
<1>1. CASE UNCHANGED vars
  <2>1. \A q \in Requests : Stage(q)' = Stage(q)
    BY <1>1, SameStage DEF vars
  <2> QED BY <1>1, <2>1, NoneMoves DEF vars
<1>2. ASSUME NEW r \in Requests, ReceiveNew(r) PROVE Contract!Receive(r)
  <2>1. Stage(r) = "unseen" /\ Stage(r)' = "received"
    BY <1>2 DEF ReceiveNew, Receive, Stage
  <2>2. \A q \in Requests \ {r} : Stage(q)' = Stage(q)
    BY <1>2, SameStage DEF ReceiveNew, Receive
  <2>3. UNCHANGED killed
    BY <1>2 DEF ReceiveNew, Receive
  <2> QED BY <2>1, <2>2, <2>3, OneMoves, Zenon DEF Contract!Receive
<1>3. CASE MainStep
  <2>1. CASE main = "verify" /\ Close({held}) /\ held' = NoRequest
    <3>1. Contract!Reject(held)
      BY <1>3, <2>1, Rejected DEF MainStep, Verify, Ended
    <3> QED BY <2>1, <3>1 DEF Contract!Next
  <2>2. CASE UNCHANGED <<held, closed>>
    <3>1. \A q \in Requests : Stage(q)' = Stage(q)
      BY <1>3, <2>2, SameStage DEF MainStep
    <3> QED BY <1>3, <3>1, NoneMoves DEF MainStep, Verify, Ended
  <2> QED BY <1>3, <2>1, <2>2 DEF MainStep, Verify, Ended
<1>4. CASE Admit
  <2>0. held \in Requests
    BY <1>4 DEF Admit
  <2>1. CASE Close({held})
    <3>1. \A q \in Requests \ {held} : state'[q] = state[q]
      BY <1>4 DEF Admit, Pool!Accept, Pool!Refuse
    <3>2. held' = NoRequest /\ UNCHANGED <<killed, at>>
      BY <1>4 DEF Admit
    <3>3. Contract!Reject(held)
      BY <2>0, <2>1, <3>1, <3>2, Rejected
    <3> QED BY <2>0, <3>3 DEF Contract!Next
  <2>2. CASE ~killed /\ Pool!Accept(held) /\ GoOn("serve") /\ UNCHANGED closed
    <3> SUFFICES ASSUME NEW h \in Requests, h = held PROVE Contract!Next
      BY <2>0
    <3>1. /\ state[h] = "pending" /\ state' = [state EXCEPT ![h] = "accepted"]
          /\ held' = NoRequest /\ UNCHANGED <<killed, at, closed>>
      BY <1>4, <2>2 DEF Admit, Pool!Accept
    <3>2. closed[h] = 0 /\ at[h] = "none" /\ h # NoRequest
      BY <3>1
    <3>3. Stage(h) = "received"
      BY <3>2 DEF Stage
    <3>4. Stage(h)' = "admitted"
      BY <3>1, <3>2 DEF Stage
    <3>5. \A q \in Requests \ {h} : Stage(q)' = Stage(q)
      BY <3>1, SameStage
    <3> QED BY <2>2, <3>1, <3>3, <3>4, <3>5, OneMoves, Zenon DEF Contract!Admit, Contract!Next
  <2> QED BY <1>4, <2>1, <2>2 DEF Admit
<1>5. ASSUME NEW r \in Requests, Begin(r) \/ Return(r) \/ Drop(r)
      PROVE  UNCHANGED Contract!svars
  <2>1. UNCHANGED killed /\ \A q \in Requests : Stage(q)' = Stage(q)
    <3>1. CASE Begin(r)
      BY <3>1, SameStage DEF Begin, Pool!Begin
    <3>2. CASE Return(r)
      BY <3>2, SameStage DEF Return, Pool!Finish
    <3>3. CASE Drop(r)
      BY <3>3, SameStage DEF Drop, Pool!Cancel
    <3> QED BY <1>5, <3>1, <3>2, <3>3
  <2> QED BY <2>1, NoneMoves
<1>6. ASSUME NEW r \in Requests, Check(r) PROVE [Contract!Next]_Contract!svars
  <2>1. CASE r \in pending
    <3>1. ~killed /\ Stage(r) = "admitted" /\ Stage(r)' = "handled"
      BY <1>6, <2>1 DEF Check, Stage
    <3>2. UNCHANGED killed /\ \A q \in Requests \ {r} : Stage(q)' = Stage(q)
      BY <1>6, SameStage DEF Check
    <3> QED BY <3>1, <3>2, OneMoves, Zenon DEF Contract!Begin, Contract!Next
  <2>2. CASE r \notin pending
    <3>1. UNCHANGED killed /\ \A q \in Requests : Stage(q)' = Stage(q)
      BY <1>6, <2>2, SameStage DEF Check
    <3> QED BY <3>1, NoneMoves
  <2> QED BY <2>1, <2>2
<1>7. ASSUME NEW r \in Requests, Handle(r) PROVE Contract!End(r)
  <2>1. Stage(r) = "handled" /\ Stage(r)' = "closed"
    BY <1>7 DEF Handle, Stage
  <2>2. UNCHANGED killed /\ \A q \in Requests \ {r} : Stage(q)' = Stage(q)
    BY <1>7, SameStage DEF Handle
  <2> QED BY <2>1, <2>2, OneMoves, Zenon DEF Contract!End
<1>8. ASSUME NEW k \in Killers, BeginKill(k) PROVE Contract!Kill
  <2>1. killed' = TRUE /\ \A q \in Requests : Stage(q)' = Stage(q)
    BY <1>8, SameStage DEF BeginKill
  <2>2. Stages' = [r \in Requests |-> IF r \in {} THEN "closed" ELSE Stages[r]]
    BY <2>1 DEF Stages
  <2> QED BY <2>1, <2>2 DEF Contract!Kill, Stages
<1>9. ASSUME NEW k \in Killers, StopPool(k) PROVE UNCHANGED Contract!svars
  <2>1. \A q \in Requests : (state'[q] = "pending") <=> (state[q] = "pending")
    BY <1>9 DEF StopPool, Pool!Stop
  <2>2. UNCHANGED killed /\ \A q \in Requests : Stage(q)' = Stage(q)
    BY <1>9, <2>1, SameStage DEF StopPool
  <2> QED BY <2>2, NoneMoves
<1>10. ASSUME NEW k \in Killers, CloseCancelled(k) PROVE Contract!Kill
  <2>1. killed' = TRUE
    BY <1>10 DEF CloseCancelled
  <2>2. \A r \in cancelled[k] : Stage(r) = "admitted" /\ Stage(r)' = "closed"
    BY <1>10 DEF CloseCancelled, Stage
  <2>3. \A r \in Requests \ cancelled[k] : Stage(r)' = Stage(r)
    BY <1>10, SameStage DEF CloseCancelled
  <2>4. cancelled[k] \subseteq Requests
    OBVIOUS
  <2>5. cancelled[k] \in SUBSET {r \in Requests : Stages[r] = "admitted"}
    BY <2>2, <2>4 DEF Stages
  <2>6. Stages' = [r \in Requests |-> IF r \in cancelled[k] THEN "closed" ELSE Stages[r]]
    BY <2>2, <2>3, <2>4 DEF Stages
  <2> QED BY <2>1, <2>5, <2>6 DEF Contract!Kill, Stages
<1> QED
  BY <1>1, <1>2, <1>3, <1>4, <1>5, <1>6, <1>7, <1>8, <1>9, <1>10
  DEF Next, Callable, EndKill, Contract!Next

\* A state in which nothing was received begins the contract, killed or not
LEMMA ContractBegins ==
  ASSUME killed \in BOOLEAN, held = NoRequest, closed = [r \in Requests |-> 0],
         at = [r \in Requests |-> "none"], state = [r \in Requests |-> "pending"]
  PROVE  Contract!Init
<1>1. ASSUME NEW r \in Requests PROVE Stage(r) = "unseen"
  <2>1. closed[r] = 0 /\ at[r] = "none" /\ state[r] = "pending" /\ held # r
    BY RequestsAssumption
  <2> QED BY <2>1 DEF Stage
<1> QED BY <1>1 DEF Contract!Init

\* The dynamic servers close each request once, after its handler if it has begun one, and
\* begin no handler once kill() was called, whatever the order of kill(), the pool's stop
\* and the workers.
THEOREM ContractKept == Spec => KeepsContract
<1>1. Init => Contract!Init
  BY ContractBegins DEF Init, MainInit, Pool!Init
<1>2. Init => IInv
  BY Initially
<1>3. IInv /\ [Next]_vars => IInv'
  BY Inductive
<1>4. IInv /\ [Next]_vars => [Contract!Next]_Contract!svars
  BY StepContract
<1> QED BY <1>1, <1>2, <1>3, <1>4, PTL DEF Spec, KeepsContract, Contract!Spec

-----------------------------------------------------------------------------
(* The fixed servers.  First, sequences without repetition.                *)

\* Queued, of any sequence
Elements(s) == {s[i] : i \in DOMAIN s}

Once(s) == \A i, j \in DOMAIN s : s[i] = s[j] => i = j

LEMMA Appended ==
  ASSUME NEW T, NEW s \in Seq(T), NEW e \in T, Once(s), e \notin Elements(s)
  PROVE  /\ Append(s, e) \in Seq(T)
         /\ Once(Append(s, e))
         /\ Elements(Append(s, e)) = Elements(s) \cup {e}
<1> DEFINE r == Append(s, e)
<1>1. /\ r \in Seq(T) /\ Len(r) = Len(s) + 1 /\ DOMAIN r = 1 .. Len(s) + 1
      /\ DOMAIN s = 1 .. Len(s) /\ Len(s) \in Nat
      /\ r[Len(s) + 1] = e /\ \A i \in 1 .. Len(s) : r[i] = s[i]
  OBVIOUS
<1> HIDE DEF r
<1>2. Once(r)
  BY <1>1 DEF Once, Elements
<1>3. Elements(r) = Elements(s) \cup {e}
  BY <1>1 DEF Elements
<1> QED BY <1>1, <1>2, <1>3 DEF r

LEMMA Dequeued ==
  ASSUME NEW T, NEW s \in Seq(T), s # <<>>, Once(s)
  PROVE  /\ Tail(s) \in Seq(T) /\ Head(s) \in T /\ Head(s) \in Elements(s)
         /\ Once(Tail(s))
         /\ Elements(Tail(s)) = Elements(s) \ {Head(s)}
<1> DEFINE r == Tail(s)
<1>1. /\ r \in Seq(T) /\ DOMAIN r = 1 .. Len(s) - 1 /\ DOMAIN s = 1 .. Len(s)
      /\ Len(s) \in Nat \ {0} /\ Head(s) = s[1] /\ s[1] \in T
      /\ \A i \in 1 .. Len(s) - 1 : r[i] = s[i + 1]
  OBVIOUS
<1> HIDE DEF r
<1>2. Once(r)
  <2> SUFFICES ASSUME NEW i \in DOMAIN r, NEW j \in DOMAIN r, r[i] = r[j] PROVE i = j
    BY DEF Once
  <2>1. i \in Nat /\ j \in Nat /\ i + 1 \in DOMAIN s /\ j + 1 \in DOMAIN s
    BY <1>1
  <2>2. s[i + 1] = s[j + 1]
    BY <1>1
  <2>3. i + 1 = j + 1
    BY <2>1, <2>2 DEF Once
  <2> QED BY <2>1, <2>3
<1>3. Elements(r) \subseteq Elements(s) \ {s[1]}
  BY <1>1 DEF Once, Elements
<1>4. ASSUME NEW j \in DOMAIN s, s[j] # s[1] PROVE s[j] \in Elements(r)
  <2>1. j - 1 \in DOMAIN r /\ r[j - 1] = s[j]
    BY <1>1, <1>4
  <2> QED BY <2>1 DEF Elements
<1>5. s[1] \in Elements(s)
  BY <1>1 DEF Elements
<1>6. Elements(s) \ {s[1]} \subseteq Elements(r)
  BY <1>4 DEF Elements
<1> QED BY <1>1, <1>2, <1>3, <1>5, <1>6 DEF r

-----------------------------------------------------------------------------

FixedTypes ==
  /\ fixedKilled \in BOOLEAN
  /\ fixedMain \in {"serve", "verify", "admit", "full", "ended"}
  /\ fixedHeld \in FixedRequests \cup {NoRequest}
  /\ fixedClosed \in [FixedRequests -> {0, 1}]
  /\ requests \in Seq(FixedRequests)
  /\ pc \in [Workers -> {"top", "get", "got", "handle", "ack", "renew", "returned", "lost"}]
  /\ item \in [Workers -> FixedRequests \cup {NoRequest}]
  /\ nb_requests \in [Workers -> Nat]

\* Who has a request in hand
FixedInHand ==
  /\ fixedMain \in {"verify", "admit", "full"} => fixedHeld # NoRequest
  /\ fixedMain = "serve" => fixedHeld = NoRequest
  /\ \A w \in Workers : item[w] # NoRequest <=> pc[w] \in {"got", "handle"}

\* A request is in one place, and open while it is there
Apart ==
  /\ Once(requests)
  /\ fixedHeld # NoRequest => /\ fixedClosed[fixedHeld] = 0 /\ fixedHeld \notin Fixed!Queued
                              /\ \A w \in Workers : item[w] # fixedHeld
  /\ \A q \in Fixed!Queued : fixedClosed[q] = 0 /\ \A w \in Workers : item[w] # q
  /\ \A w \in Workers : item[w] # NoRequest =>
       fixedClosed[item[w]] = 0 /\ \A v \in Workers \ {w} : item[v] # item[w]

FixedIInv == FixedTypes /\ FixedInHand /\ Apart

-----------------------------------------------------------------------------

LEMMA FixedInitially == Fixed!Init => FixedIInv
<1> SUFFICES ASSUME Fixed!Init PROVE FixedIInv
  OBVIOUS
<1>1. requests \in Seq(FixedRequests) /\ Once(requests) /\ Fixed!Queued = {}
  BY DEF Fixed!Init, Once, Fixed!Queued
<1> QED BY <1>1 DEF Fixed!Init, Fixed!MainInit, FixedIInv, FixedTypes, FixedInHand, Apart

LEMMA QueuedTyped ==
  ASSUME FixedTypes
  PROVE  Fixed!Queued \subseteq FixedRequests /\ Fixed!Queued = Elements(requests)
BY DEF FixedTypes, Fixed!Queued, Elements

LEMMA FixedInductive == FixedIInv /\ [Fixed!Next]_Fixed!vars => FixedIInv'
<1> SUFFICES ASSUME FixedIInv, [Fixed!Next]_Fixed!vars PROVE FixedIInv'
  OBVIOUS
<1> USE FixedRequestsAssumption DEF FixedIInv, FixedTypes, FixedInHand, Apart,
      Fixed!mainVars, Fixed!workerVars
<1>q. Fixed!Queued \subseteq FixedRequests /\ Fixed!Queued = Elements(requests)
  BY QueuedTyped
<1>k. UNCHANGED requests => Fixed!Queued' = Fixed!Queued
  BY DEF Fixed!Queued
<1>1. CASE UNCHANGED Fixed!vars
  BY <1>1, <1>k DEF Fixed!vars
<1>2. ASSUME NEW r \in FixedRequests, Fixed!ReceiveNew(r) PROVE FixedIInv'
  BY <1>2, <1>k DEF Fixed!ReceiveNew, Fixed!Receive
<1>3. CASE Fixed!MainStep
  BY <1>3, <1>k, <1>q DEF Fixed!MainStep, Fixed!Verify, Fixed!Ended, Fixed!Close, Fixed!GoOn
<1>4. CASE Fixed!Admit
  <2>1. CASE fixedKilled /\ Fixed!Close({fixedHeld}) /\ Fixed!GoOn("serve")
             /\ UNCHANGED <<requests, unfinished>>
    BY <1>4, <2>1, <1>k, <1>q DEF Fixed!Admit, Fixed!Close, Fixed!GoOn
  <2>2. CASE ~fixedKilled /\ ~Fixed!Full /\ Fixed!Put
    <3>1. fixedHeld \in FixedRequests /\ fixedHeld \notin Elements(requests)
      BY <1>4, <1>q DEF Fixed!Admit
    <3>2. /\ requests' \in Seq(FixedRequests) /\ Once(requests')
          /\ Elements(requests') = Elements(requests) \cup {fixedHeld}
      BY <2>2, <3>1, Appended DEF Fixed!Put
    <3>3. Fixed!Queued' = Fixed!Queued \cup {fixedHeld}
      BY <3>2, <1>q DEF Fixed!Queued, Elements
    <3> QED BY <1>4, <2>2, <3>1, <3>2, <3>3 DEF Fixed!Admit, Fixed!Put, Fixed!GoOn
  <2>3. CASE fixedMain' = "full" /\ UNCHANGED <<fixedHeld, fixedClosed, requests, unfinished>>
    BY <1>4, <2>3, <1>k DEF Fixed!Admit
  <2> QED BY <1>4, <2>1, <2>2, <2>3 DEF Fixed!Admit
<1>5. CASE Fixed!Interrupt
  BY <1>5, <1>k DEF Fixed!Interrupt
<1>6. CASE Fixed!Kill
  <2>1. requests' \in Seq(FixedRequests) /\ Once(requests') /\ Fixed!Queued' = {}
    BY <1>6 DEF Fixed!Kill, Once, Fixed!Queued
  <2> QED BY <1>6, <2>1, <1>q DEF Fixed!Kill, Fixed!Close
<1>7. ASSUME NEW w \in Workers, Fixed!WorkerStep(w) PROVE FixedIInv'
  <2>1. CASE Fixed!Loop(w) \/ Fixed!Expire(w) \/ Fixed!GetTimeout(w) \/ Fixed!Renew(w)
    <3>1. CASE Fixed!Loop(w) \/ Fixed!Expire(w) \/ Fixed!GetTimeout(w)
      BY <3>1, <1>k DEF Fixed!Loop, Fixed!Expire, Fixed!GetTimeout, Fixed!Goto
    <3>2. CASE Fixed!Renew(w)
      BY <3>2, <1>k DEF Fixed!Renew, Fixed!Goto
    <3> QED BY <2>1, <3>1, <3>2
  <2>2. CASE Fixed!Get(w)
    <3>1. /\ requests' \in Seq(FixedRequests) /\ Once(requests')
          /\ Head(requests) \in FixedRequests /\ Head(requests) \in Fixed!Queued
          /\ Elements(requests') = Elements(requests) \ {Head(requests)}
      BY <2>2, <1>q, Dequeued DEF Fixed!Get
    <3>2. Fixed!Queued' = Fixed!Queued \ {Head(requests)}
      BY <3>1, <1>q DEF Fixed!Queued, Elements
    <3> QED BY <2>2, <3>1, <3>2, <1>q DEF Fixed!Get, Fixed!Goto
  <2>3. CASE Fixed!Check(w)
    BY <2>3, <1>k DEF Fixed!Check, Fixed!Goto
  <2>4. CASE Fixed!Cancel(w)
    BY <2>4, <1>k, <1>q DEF Fixed!Cancel, Fixed!Goto, Fixed!Close
  <2>5. CASE Fixed!Handle(w)
    BY <2>5, <1>k, <1>q DEF Fixed!Handle, Fixed!Goto, Fixed!Close
  <2>6. CASE Fixed!Acknowledge(w)
    <3>1. nb_requests' \in [Workers -> Nat]
      BY <2>6 DEF Fixed!Acknowledge
    <3>2. \E p \in {"renew", "top", "lost"} : pc' = [pc EXCEPT ![w] = p]
      BY <2>6 DEF Fixed!Acknowledge, Fixed!Goto
    <3> QED BY <2>6, <3>1, <3>2, <1>k DEF Fixed!Acknowledge
  <2> QED BY <1>7, <2>1, <2>2, <2>3, <2>4, <2>5, <2>6 DEF Fixed!WorkerStep
<1> QED
  BY <1>1, <1>2, <1>3, <1>4, <1>5, <1>6, <1>7 DEF Fixed!Next

-----------------------------------------------------------------------------
(* The refinement: every step is one of ServerContract, or changes nothing *)
(* that it sees.                                                           *)

FixedStages == [r \in FixedRequests |-> Fixed!Stage(r)]

\* Where a request is, apart from its closing
FixedInHandler(r) == \E w \in Workers : item[w] = r /\ pc[w] = "handle"
FixedAdmitted(r)  == r \in Fixed!Queued \/ \E w \in Workers : item[w] = r

\* A step that moves one request through the contract
LEMMA FixedOneMoves ==
  ASSUME NEW r \in FixedRequests, NEW from, NEW to,
         Fixed!Stage(r) = from, Fixed!Stage(r)' = to,
         \A q \in FixedRequests \ {r} : Fixed!Stage(q)' = Fixed!Stage(q), UNCHANGED fixedKilled
  PROVE  Fixed!Contract!Change(r, from, to)
BY DEF Fixed!Contract!Change

LEMMA FixedNoneMoves ==
  ASSUME \A q \in FixedRequests : Fixed!Stage(q)' = Fixed!Stage(q), UNCHANGED fixedKilled
  PROVE  UNCHANGED Fixed!Contract!svars
BY DEF Fixed!Contract!svars

\* What a stage depends on
LEMMA FixedSameStage ==
  ASSUME NEW q \in FixedRequests, fixedClosed'[q] = fixedClosed[q],
         (fixedHeld' = q) <=> (fixedHeld = q),
         FixedInHandler(q)' <=> FixedInHandler(q), FixedAdmitted(q)' <=> FixedAdmitted(q)
  PROVE  Fixed!Stage(q)' = Fixed!Stage(q)
BY DEF Fixed!Stage, FixedInHandler, FixedAdmitted

\* A step that touches neither the queue nor what is in hand
LEMMA SamePlaces ==
  ASSUME NEW q \in FixedRequests, UNCHANGED <<requests, item>>,
         \A w \in Workers : (pc'[w] = "handle") <=> (pc[w] = "handle")
  PROVE  (FixedInHandler(q)' <=> FixedInHandler(q)) /\ (FixedAdmitted(q)' <=> FixedAdmitted(q))
BY DEF FixedInHandler, FixedAdmitted, Fixed!Queued

\* A request that the receiving thread gives up is closed
LEMMA FixedRejected ==
  ASSUME FixedIInv, NEW h \in FixedRequests, h = fixedHeld,
         Fixed!Close({h}), fixedHeld' = NoRequest,
         UNCHANGED <<fixedKilled, requests, pc, item>>
  PROVE  Fixed!Contract!Next
<1> USE FixedRequestsAssumption DEF FixedIInv, FixedTypes, Apart, Fixed!Close
<1>1. Fixed!Stage(h) = "received"
  BY DEF Fixed!Stage
<1>2. Fixed!Stage(h)' = "closed"
  BY DEF Fixed!Stage
<1>3. \A q \in FixedRequests \ {h} : Fixed!Stage(q)' = Fixed!Stage(q)
  BY SamePlaces, FixedSameStage
<1> QED
  BY <1>1, <1>2, <1>3, FixedOneMoves, Zenon
  DEF Fixed!Contract!Reject, Fixed!Contract!Next

LEMMA FixedStepContract ==
  ASSUME FixedIInv, [Fixed!Next]_Fixed!vars
  PROVE  [Fixed!Contract!Next]_Fixed!Contract!svars
<1> USE FixedRequestsAssumption DEF FixedIInv, FixedTypes, FixedInHand, Apart,
      Fixed!mainVars, Fixed!workerVars
<1>q. Fixed!Queued \subseteq FixedRequests /\ Fixed!Queued = Elements(requests)
  BY QueuedTyped
<1>1. CASE UNCHANGED Fixed!vars
  <2>1. \A q \in FixedRequests : Fixed!Stage(q)' = Fixed!Stage(q)
    BY <1>1, SamePlaces, FixedSameStage DEF Fixed!vars
  <2> QED BY <1>1, <2>1, FixedNoneMoves DEF Fixed!vars
<1>2. ASSUME NEW r \in FixedRequests, Fixed!ReceiveNew(r) PROVE Fixed!Contract!Next
  <2>1. Fixed!Stage(r) = "unseen" /\ Fixed!Stage(r)' = "received"
    BY <1>2 DEF Fixed!ReceiveNew, Fixed!Receive, Fixed!Stage
  <2>2. \A q \in FixedRequests \ {r} : Fixed!Stage(q)' = Fixed!Stage(q)
    BY <1>2, SamePlaces, FixedSameStage DEF Fixed!ReceiveNew, Fixed!Receive
  <2>3. UNCHANGED fixedKilled
    BY <1>2 DEF Fixed!ReceiveNew, Fixed!Receive
  <2> QED
    BY <2>1, <2>2, <2>3, FixedOneMoves, Zenon
    DEF Fixed!Contract!Receive, Fixed!Contract!Next
<1>3. CASE Fixed!MainStep
  <2>1. CASE fixedMain = "verify" /\ Fixed!Close({fixedHeld}) /\ fixedHeld' = NoRequest
             /\ UNCHANGED fixedKilled
    BY <1>3, <2>1, FixedRejected DEF Fixed!MainStep
  <2>2. CASE UNCHANGED <<fixedHeld, fixedClosed, fixedKilled>>
    <3>1. \A q \in FixedRequests : Fixed!Stage(q)' = Fixed!Stage(q)
      BY <1>3, <2>2, SamePlaces, FixedSameStage DEF Fixed!MainStep
    <3> QED BY <2>2, <3>1, FixedNoneMoves
  <2> QED BY <1>3, <2>1, <2>2 DEF Fixed!MainStep, Fixed!Verify, Fixed!Ended, Fixed!GoOn
<1>4. CASE Fixed!Admit
  <2>1. CASE fixedKilled /\ Fixed!Close({fixedHeld}) /\ Fixed!GoOn("serve")
             /\ UNCHANGED requests
    BY <1>4, <2>1, FixedRejected DEF Fixed!Admit, Fixed!GoOn
  <2>2. CASE ~fixedKilled /\ Fixed!Put
    <3> SUFFICES ASSUME NEW h \in FixedRequests, h = fixedHeld PROVE Fixed!Contract!Next
      BY <1>4 DEF Fixed!Admit
    <3>1. /\ requests' = Append(requests, h) /\ fixedHeld' = NoRequest
          /\ UNCHANGED <<fixedClosed, pc, item, fixedKilled>>
      BY <1>4, <2>2 DEF Fixed!Admit, Fixed!Put, Fixed!GoOn
    <3>2. Fixed!Queued' = Fixed!Queued \cup {h}
      <4>1. Elements(requests') = Elements(requests) \cup {h}
        BY <3>1, <1>q, Appended
      <4> QED BY <4>1, <1>q DEF Fixed!Queued, Elements
    <3>3. Fixed!Stage(h) = "received"
      BY DEF Fixed!Stage
    <3>4. Fixed!Stage(h)' = "admitted"
      BY <3>1, <3>2 DEF Fixed!Stage
    <3>5. \A q \in FixedRequests \ {h} : Fixed!Stage(q)' = Fixed!Stage(q)
      BY <3>1, <3>2, FixedSameStage DEF FixedInHandler, FixedAdmitted
    <3> QED
      BY <2>2, <3>1, <3>3, <3>4, <3>5, FixedOneMoves, Zenon
      DEF Fixed!Contract!Admit, Fixed!Contract!Next
  <2>3. CASE UNCHANGED <<fixedHeld, fixedClosed, requests>>
    <3>1. \A q \in FixedRequests : Fixed!Stage(q)' = Fixed!Stage(q)
      BY <1>4, <2>3, SamePlaces, FixedSameStage DEF Fixed!Admit
    <3> QED BY <1>4, <3>1, FixedNoneMoves DEF Fixed!Admit
  <2> QED BY <1>4, <2>1, <2>2, <2>3 DEF Fixed!Admit
<1>5. CASE Fixed!Interrupt
  <2>1. \A q \in FixedRequests : Fixed!Stage(q)' = Fixed!Stage(q)
    BY <1>5, SamePlaces, FixedSameStage DEF Fixed!Interrupt
  <2> QED BY <1>5, <2>1, FixedNoneMoves DEF Fixed!Interrupt
<1>6. CASE Fixed!Kill
  <2>0. fixedKilled' = TRUE /\ Fixed!Queued' = {} /\ UNCHANGED <<fixedHeld, pc, item>>
    BY <1>6 DEF Fixed!Kill, Fixed!Queued
  <2>1. ASSUME NEW q \in Fixed!Queued
        PROVE  Fixed!Stage(q) = "admitted" /\ Fixed!Stage(q)' = "closed"
    BY <1>6, <1>q DEF Fixed!Kill, Fixed!Close, Fixed!Stage
  <2>2. ASSUME NEW q \in FixedRequests \ Fixed!Queued PROVE Fixed!Stage(q)' = Fixed!Stage(q)
    BY <1>6, <2>0, FixedSameStage DEF Fixed!Kill, Fixed!Close, FixedInHandler, FixedAdmitted
  <2>3. Fixed!Queued \in SUBSET {r \in FixedRequests : FixedStages[r] = "admitted"}
    BY <2>1, <1>q DEF FixedStages
  <2>4. FixedStages' = [r \in FixedRequests |->
                         IF r \in Fixed!Queued THEN "closed" ELSE FixedStages[r]]
    BY <2>1, <2>2, <1>q DEF FixedStages
  <2> QED BY <2>0, <2>3, <2>4 DEF Fixed!Contract!Kill, Fixed!Contract!Next, FixedStages
<1>7. ASSUME NEW w \in Workers, Fixed!WorkerStep(w)
      PROVE  [Fixed!Contract!Next]_Fixed!Contract!svars
  <2>1. CASE Fixed!Loop(w) \/ Fixed!Expire(w) \/ Fixed!GetTimeout(w) \/ Fixed!Renew(w)
             \/ Fixed!Acknowledge(w)
    <3>1. /\ UNCHANGED <<fixedKilled, fixedHeld, fixedClosed, requests, item>>
          /\ \A v \in Workers : (pc'[v] = "handle") <=> (pc[v] = "handle")
      BY <2>1 DEF Fixed!Loop, Fixed!Expire, Fixed!GetTimeout, Fixed!Renew,
           Fixed!Acknowledge, Fixed!Goto
    <3>2. \A q \in FixedRequests : Fixed!Stage(q)' = Fixed!Stage(q)
      BY <3>1, SamePlaces, FixedSameStage
    <3> QED BY <3>1, <3>2, FixedNoneMoves
  <2>2. CASE Fixed!Get(w)
    <3> SUFFICES ASSUME NEW h \in FixedRequests, h = Head(requests)
                 PROVE  UNCHANGED Fixed!Contract!svars
      BY <2>2 DEF Fixed!Get
    <3>1. /\ item' = [item EXCEPT ![w] = h] /\ pc[w] = "get" /\ item[w] = NoRequest
          /\ pc' = [pc EXCEPT ![w] = "got"]
          /\ UNCHANGED <<fixedKilled, fixedHeld, fixedClosed>>
      BY <2>2 DEF Fixed!Get, Fixed!Goto
    <3>2. h \in Fixed!Queued /\ Fixed!Queued' = Fixed!Queued \ {h}
      <4>1. h \in Elements(requests) /\ Elements(requests') = Elements(requests) \ {h}
        BY <2>2, Dequeued DEF Fixed!Get
      <4> QED BY <4>1, <1>q DEF Fixed!Queued, Elements
    <3>3. ASSUME NEW q \in FixedRequests
          PROVE  /\ FixedInHandler(q)' <=> FixedInHandler(q)
                 /\ FixedAdmitted(q)' <=> FixedAdmitted(q)
      BY <3>1, <3>2 DEF FixedInHandler, FixedAdmitted
    <3>4. \A q \in FixedRequests : Fixed!Stage(q)' = Fixed!Stage(q)
      BY <3>1, <3>3, FixedSameStage
    <3> QED BY <3>1, <3>4, FixedNoneMoves
  <2>3. CASE Fixed!Check(w)
    <3> SUFFICES ASSUME NEW r \in FixedRequests, r = item[w] PROVE Fixed!Contract!Next
      BY <2>3 DEF Fixed!Check
    <3>1. /\ ~fixedKilled /\ pc[w] = "got" /\ pc' = [pc EXCEPT ![w] = "handle"]
          /\ UNCHANGED <<fixedKilled, fixedHeld, fixedClosed, requests, item>>
      BY <2>3 DEF Fixed!Check, Fixed!Goto
    <3>2. Fixed!Stage(r) = "admitted" /\ Fixed!Stage(r)' = "handled"
      BY <3>1 DEF Fixed!Stage
    <3>3. \A q \in FixedRequests \ {r} : Fixed!Stage(q)' = Fixed!Stage(q)
      BY <3>1, FixedSameStage DEF FixedInHandler, FixedAdmitted, Fixed!Queued
    <3> QED
      BY <3>1, <3>2, <3>3, FixedOneMoves, Zenon
      DEF Fixed!Contract!Begin, Fixed!Contract!Next
  <2>4. CASE Fixed!Cancel(w) \/ Fixed!Handle(w)
    <3> SUFFICES ASSUME NEW r \in FixedRequests, r = item[w] PROVE Fixed!Contract!Next
      BY <2>4 DEF Fixed!Cancel, Fixed!Handle
    <3>1. /\ fixedClosed' = [q \in FixedRequests |->
                               IF q = r THEN fixedClosed[q] + 1 ELSE fixedClosed[q]]
          /\ item' = [item EXCEPT ![w] = NoRequest]
          /\ UNCHANGED <<fixedKilled, fixedHeld, requests>>
          /\ pc' \in {[pc EXCEPT ![w] = "returned"], [pc EXCEPT ![w] = "ack"]}
      BY <2>4 DEF Fixed!Cancel, Fixed!Handle, Fixed!Goto, Fixed!Close
    <3>2. Fixed!Stage(r)' = "closed"
      BY <3>1 DEF Fixed!Stage
    <3>3. \A q \in FixedRequests \ {r} : Fixed!Stage(q)' = Fixed!Stage(q)
      <4>1. ASSUME NEW q \in FixedRequests \ {r}
            PROVE  /\ FixedInHandler(q)' <=> FixedInHandler(q)
                   /\ FixedAdmitted(q)' <=> FixedAdmitted(q)
        <5>1. \A v \in Workers : /\ item'[v] = q <=> item[v] = q
                                 /\ item[v] = q => pc'[v] = pc[v]
          BY <3>1, FixedRequestsAssumption
        <5> QED BY <3>1, <5>1 DEF FixedInHandler, FixedAdmitted, Fixed!Queued
      <4> QED BY <3>1, <4>1, FixedSameStage
    <3>4. CASE Fixed!Handle(w)
      <4>1. Fixed!Stage(r) = "handled"
        BY <3>4 DEF Fixed!Handle, Fixed!Stage
      <4> QED
        BY <4>1, <3>1, <3>2, <3>3, FixedOneMoves, Zenon
        DEF Fixed!Contract!End, Fixed!Contract!Next
    <3>5. CASE Fixed!Cancel(w)
      <4>1. fixedKilled' = TRUE /\ Fixed!Stage(r) = "admitted"
        BY <3>5 DEF Fixed!Cancel, Fixed!Stage
      <4>2. {r} \in SUBSET {q \in FixedRequests : FixedStages[q] = "admitted"}
        BY <4>1 DEF FixedStages
      <4>3. FixedStages' = [q \in FixedRequests |->
                             IF q \in {r} THEN "closed" ELSE FixedStages[q]]
        BY <3>2, <3>3 DEF FixedStages
      <4> QED BY <4>1, <4>2, <4>3 DEF Fixed!Contract!Kill, Fixed!Contract!Next, FixedStages
    <3> QED BY <2>4, <3>4, <3>5
  <2> QED BY <1>7, <2>1, <2>2, <2>3, <2>4 DEF Fixed!WorkerStep
<1> QED
  BY <1>1, <1>2, <1>3, <1>4, <1>5, <1>6, <1>7 DEF Fixed!Next

\* A state in which nothing was received begins the contract, killed or not
LEMMA FixedContractBegins ==
  ASSUME fixedKilled \in BOOLEAN, fixedHeld = NoRequest, requests = <<>>,
         fixedClosed = [r \in FixedRequests |-> 0], item = [w \in Workers |-> NoRequest]
  PROVE  Fixed!Contract!Init
<1>1. ASSUME NEW r \in FixedRequests PROVE Fixed!Stage(r) = "unseen"
  <2>1. /\ fixedClosed[r] = 0 /\ fixedHeld # r /\ r \notin Fixed!Queued
        /\ \A w \in Workers : item[w] # r
    BY FixedRequestsAssumption DEF Fixed!Queued
  <2> QED BY <2>1 DEF Fixed!Stage
<1> QED BY <1>1 DEF Fixed!Contract!Init

\* The fixed servers close each request once, after its handler if it has begun one, and
\* begin no handler once kill() was called, wherever kill() meets the request: in the hand
\* of the receiving thread, in the queue or in the hand of a worker.
THEOREM FixedContractKept == Fixed!Spec => FixedKeepsContract
<1>1. Fixed!Init => Fixed!Contract!Init
  BY FixedContractBegins DEF Fixed!Init, Fixed!MainInit
<1>2. Fixed!Init => FixedIInv
  BY FixedInitially
<1>3. FixedIInv /\ [Fixed!Next]_Fixed!vars => FixedIInv'
  BY FixedInductive
<1>4. FixedIInv /\ [Fixed!Next]_Fixed!vars => [Fixed!Contract!Next]_Fixed!Contract!svars
  BY FixedStepContract
<1> QED
  BY <1>1, <1>2, <1>3, <1>4, PTL
  DEF Fixed!Spec, FixedKeepsContract, Fixed!KeepsContract, Fixed!Contract!Spec

-----------------------------------------------------------------------------
(* Counting.  Here alone the workers must be finitely many.                *)

\* The workers whose request is still to be acknowledged
Owing == {w \in Workers : pc[w] \in {"got", "handle", "ack"}}

Counted == unfinished = Len(requests) + Cardinality(Owing)

LEMMA OwingCount ==
  ASSUME IsFiniteSet(Workers)
  PROVE  IsFiniteSet(Owing) /\ Cardinality(Owing) \in Nat
BY FS_Subset, FS_CardinalityType DEF Owing

\* One worker more or less
LEMMA OneMore ==
  ASSUME IsFiniteSet(Workers), NEW w \in Workers, w \notin Owing, Owing' = Owing \cup {w}
  PROVE  Cardinality(Owing)' = Cardinality(Owing) + 1
BY OwingCount, FS_AddElement

LEMMA OneLess ==
  ASSUME IsFiniteSet(Workers), NEW w \in Workers, w \in Owing, Owing' = Owing \ {w}
  PROVE  Cardinality(Owing)' = Cardinality(Owing) - 1
BY OwingCount, FS_RemoveElement

LEMMA CountedStep ==
  ASSUME IsFiniteSet(Workers), FixedIInv, Counted, [Fixed!Next]_Fixed!vars
  PROVE  Counted'
<1> USE DEF FixedIInv, FixedTypes, Fixed!mainVars, Fixed!workerVars, Counted
<1>0. Cardinality(Owing) \in Nat /\ Len(requests) \in Nat
  BY OwingCount
<1>1. CASE UNCHANGED Fixed!vars
  BY <1>1 DEF Fixed!vars, Owing
<1>2. CASE Fixed!MainStep \/ Fixed!Interrupt \/ \E r \in FixedRequests : Fixed!ReceiveNew(r)
  BY <1>2 DEF Fixed!MainStep, Fixed!Verify, Fixed!Ended, Fixed!Interrupt,
       Fixed!ReceiveNew, Fixed!Receive, Owing
<1>3. CASE Fixed!Admit
  <2>1. Owing' = Owing
    BY <1>3 DEF Fixed!Admit, Owing
  <2>2. CASE Fixed!Put
    <3>1. fixedHeld \in FixedRequests
      BY <1>3 DEF Fixed!Admit, FixedInHand
    <3>2. Len(requests') = Len(requests) + 1
      BY <2>2, <3>1 DEF Fixed!Put
    <3> QED BY <1>0, <2>1, <2>2, <3>2 DEF Fixed!Put
  <2>3. CASE UNCHANGED <<requests, unfinished>>
    BY <2>1, <2>3
  <2> QED BY <1>3, <2>2, <2>3 DEF Fixed!Admit
<1>4. CASE Fixed!Kill
  <2>1. Owing' = Owing /\ Len(requests') = 0
    BY <1>4 DEF Fixed!Kill, Owing
  <2> QED BY <1>0, <1>4, <2>1 DEF Fixed!Kill
<1>5. ASSUME NEW w \in Workers, Fixed!WorkerStep(w) PROVE Counted'
  <2>1. CASE Fixed!Loop(w) \/ Fixed!Expire(w) \/ Fixed!GetTimeout(w) \/ Fixed!Renew(w)
             \/ Fixed!Check(w) \/ Fixed!Handle(w)
    <3>1. Owing' = Owing /\ UNCHANGED <<requests, unfinished>>
      BY <2>1 DEF Fixed!Loop, Fixed!Expire, Fixed!GetTimeout, Fixed!Renew,
           Fixed!Check, Fixed!Handle, Fixed!Goto, Owing
    <3> QED BY <3>1
  <2>2. CASE Fixed!Get(w)
    <3>1. w \notin Owing /\ Owing' = Owing \cup {w}
      BY <2>2 DEF Fixed!Get, Fixed!Goto, Owing
    <3>2. Len(requests') = Len(requests) - 1 /\ UNCHANGED unfinished
      BY <2>2 DEF Fixed!Get
    <3>3. Cardinality(Owing)' = Cardinality(Owing) + 1
      BY <3>1, OneMore
    <3> QED BY <1>0, <3>2, <3>3
  <2>3. CASE Fixed!Cancel(w) \/ Fixed!Acknowledge(w)
    <3>1. w \in Owing /\ Owing' = Owing \ {w}
      BY <2>3 DEF Fixed!Cancel, Fixed!Acknowledge, Fixed!Goto, Owing
    <3>2. unfinished' = unfinished - 1 /\ UNCHANGED requests
      BY <2>3 DEF Fixed!Cancel, Fixed!Acknowledge
    <3>3. Cardinality(Owing)' = Cardinality(Owing) - 1
      BY <3>1, OneLess
    <3> QED BY <1>0, <3>2, <3>3
  <2> QED BY <1>5, <2>1, <2>2, <2>3 DEF Fixed!WorkerStep
<1> QED BY <1>1, <1>2, <1>3, <1>4, <1>5 DEF Fixed!Next

\* The instance has operators of FiniteSets of its own
LEMMA FixedCardinality == ASSUME NEW S PROVE Fixed!Cardinality(S) = Cardinality(S)
BY DEF Fixed!Cardinality, Cardinality

LEMMA CountedAtFirst ==
  ASSUME Owing = {}, requests = <<>>, unfinished = 0
  PROVE  Counted
BY FS_EmptySet DEF Counted

LEMMA CountIsExact ==
  ASSUME IsFiniteSet(Workers), FixedIInv, Counted
  PROVE  Acknowledged
<1>1. Fixed!Acknowledged
  BY FixedCardinality DEF Counted, Owing, Fixed!Acknowledged
<1>2. unfinished \in Nat
  BY OwingCount DEF Counted, FixedIInv, FixedTypes
<1>3. Fixed!TypeOK
  BY <1>2 DEF Fixed!TypeOK, Fixed!MainTypeOK, FixedIInv, FixedTypes
<1> QED BY <1>1, <1>3 DEF Acknowledged

\* requests.join() of the fixed servers waits for exactly what is queued or in hand,
\* whatever stops, expirations, recycling and exceptions have come before.
THEOREM JoinIsExact == ASSUME IsFiniteSet(Workers) PROVE Fixed!Spec => []Acknowledged
<1>1. Fixed!Init => Counted
  BY CountedAtFirst DEF Fixed!Init, Owing
<1>2. FixedIInv /\ Counted /\ [Fixed!Next]_Fixed!vars => Counted'
  BY CountedStep
<1>3. FixedIInv /\ Counted => Acknowledged
  BY CountIsExact
<1> QED BY <1>1, <1>2, <1>3, FixedInitially, FixedInductive, PTL DEF Fixed!Spec

-----------------------------------------------------------------------------
(* The two kinds of server side by side, as ServersSpec has them: one is   *)
(* at work and the other, killed before it received anything, may still    *)
(* take steps.                                                             *)

LEMMA DynKilledFirst == DynWasKilled => IInv /\ Contract!Init
<1> SUFFICES ASSUME DynWasKilled PROVE IInv /\ Contract!Init
  OBVIOUS
<1>1. IInv
  BY RequestsAssumption
  DEF DynWasKilled, IInv, TypeOK, InHand, Begun, Pending, Handled, Taken, Killed
<1>2. Contract!Init
  BY ContractBegins DEF DynWasKilled
<1> QED BY <1>1, <1>2

LEMMA FixedKilledFirst == FixedWasKilled => FixedIInv /\ Counted /\ Fixed!Contract!Init
<1> SUFFICES ASSUME FixedWasKilled PROVE FixedIInv /\ Counted /\ Fixed!Contract!Init
  OBVIOUS
<1>1. requests \in Seq(FixedRequests) /\ Once(requests) /\ Fixed!Queued = {}
  BY DEF FixedWasKilled, Once, Fixed!Queued
<1>2. FixedIInv
  BY <1>1 DEF FixedWasKilled, FixedIInv, FixedTypes, FixedInHand, Apart
<1>3. Counted
  BY CountedAtFirst DEF FixedWasKilled, Owing
<1>4. Fixed!Contract!Init
  BY FixedContractBegins DEF FixedWasKilled
<1> QED BY <1>2, <1>3, <1>4

LEMMA BothBegin ==
  ServersInit => /\ IInv /\ Contract!Init
                 /\ FixedIInv /\ Counted /\ Fixed!Contract!Init
<1>1. Init => IInv /\ Contract!Init
  BY Initially, ContractBegins DEF Init, MainInit, Pool!Init
<1>2. Fixed!Init => FixedIInv /\ Counted /\ Fixed!Contract!Init
  BY FixedInitially, FixedContractBegins, CountedAtFirst DEF Fixed!Init, Fixed!MainInit, Owing
<1> QED BY <1>1, <1>2, DynKilledFirst, FixedKilledFirst DEF ServersInit

\* A step of one is a step of it and leaves the other where it is
LEMMA EachSteps ==
  [ServersNext]_<<fixedVars, vars>> => [Next]_vars /\ [Fixed!Next]_Fixed!vars
BY DEF ServersNext, fixedVars, Fixed!vars, Fixed!workerVars

\* Next to a fixed server, the dynamic servers keep the contract.
THEOREM ServersContract == ServersSpec => KeepsContract /\ FixedKeepsContract
<1>1. IInv /\ [Next]_vars => IInv' /\ [Contract!Next]_Contract!svars
  BY Inductive, StepContract
<1>2. FixedIInv /\ [Fixed!Next]_Fixed!vars
        => FixedIInv' /\ [Fixed!Contract!Next]_Fixed!Contract!svars
  BY FixedInductive, FixedStepContract
<1>3. ServersSpec => KeepsContract
  BY BothBegin, EachSteps, <1>1, PTL DEF ServersSpec, KeepsContract, Contract!Spec
<1>4. ServersSpec => FixedKeepsContract
  BY BothBegin, EachSteps, <1>2, PTL
  DEF ServersSpec, FixedKeepsContract, Fixed!KeepsContract, Fixed!Contract!Spec
<1> QED BY <1>3, <1>4

\* Next to a dynamic server, the count of a fixed server is what its join() must wait for.
THEOREM ServersCount == ASSUME IsFiniteSet(Workers) PROVE ServersSpec => []Acknowledged
<1>1. FixedIInv /\ Counted /\ [Fixed!Next]_Fixed!vars => FixedIInv' /\ Counted'
  BY FixedInductive, CountedStep
<1>2. FixedIInv /\ Counted => Acknowledged
  BY CountIsExact
<1> QED BY <1>1, <1>2, BothBegin, EachSteps, PTL DEF ServersSpec
=============================================================================
