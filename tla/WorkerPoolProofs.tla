-------------------------- MODULE WorkerPoolProofs --------------------------
(***************************************************************************)
(* Theorems about WorkerPool, for any tasks, ids, kills, priorities, queue *)
(* size, limit of workers and max_tasks, with or without failing starts.   *)
(***************************************************************************)
EXTENDS WorkerPool, FiniteSetTheorems, TLAPS

\* A kill call never puts one WorkerExit twice: what it still has to put is
\* not queued.
Fresh ==
  \A k \in Kills, n \in 1 .. Cardinality(Workers) :
    <<k, n>> \in tasks => killer[k].at = "put" /\ n > killer[k].nb

\* What is queued was accepted, and is not worked on yet
Queued == \A t \in Tasks : t \in tasks => status[t] = "accepted"

\* An accepted task is in the queue or in the hand of a worker that is on the
\* point of admitting it; one that has begun is in the hand of its worker.
Whereabouts ==
  \A t \in Tasks :
    /\ status[t] = "accepted" =>
         t \in tasks \/ \E w \in Workers : pc[w] = "got" /\ item[w] = t
    /\ status[t] = "claimed" =>
         \E w \in Workers : pc[w] \in {"grow", "body"} /\ item[w] = t
    /\ status[t] = "running" =>
         \E w \in Workers : pc[w] = "running" /\ item[w] = t

\* A worker with an item between get() and the end of its callable
Busy(w) == pc[w] \in {"got", "grow", "body", "running"}

\* The status that a task has while its worker is at p
StatusAt(p) == IF p = "got" THEN "accepted"
               ELSE IF p = "running" THEN "running" ELSE "claimed"

\* A task in a hand is in no other hand, and not in the queue
Hands ==
  \A w \in Workers : Busy(w) =>
    /\ item[w] \in Items /\ (pc[w] # "got" => item[w] \in Tasks)
    /\ item[w] \in Tasks =>
         /\ item[w] \notin tasks
         /\ status[item[w]] = StatusAt(pc[w])
         /\ \A x \in Workers : Busy(x) /\ item[x] = item[w] => x = w

Drained == exit => tasks = {}

IInv ==
  /\ TypeOK /\ Accounting
  /\ Fresh /\ Queued /\ Hands /\ Whereabouts /\ Drained /\ Attended

-----------------------------------------------------------------------------
(* The sets that Accounting counts.                                        *)

LEMMA FiniteItems == IsFiniteSet(Items)
<1>1. IsFiniteSet(1 .. Cardinality(Workers))
  BY WorkersAssumption, FS_CardinalityType, FS_Interval
<1>2. IsFiniteSet(Exits)
  BY <1>1, ItemsAssumption, FS_Product DEF Exits
<1> QED
  BY <1>2, ItemsAssumption, FS_Union DEF Items

\* The counted sets are finite, and there are no more threads than ids.
LEMMA FiniteCounted ==
  ASSUME TypeOK
  PROVE  /\ IsFiniteSet(Live) /\ IsFiniteSet(Admitted) /\ IsFiniteSet(Holding)
         /\ IsFiniteSet(tasks)
         /\ Cardinality(Live) \in 0 .. Cardinality(Workers)
         /\ Cardinality(Admitted) \in Nat /\ Cardinality(Holding) \in Nat
         /\ Cardinality(tasks) \in Nat /\ Cardinality(Workers) \in Nat
<1>1. /\ Live \subseteq Workers /\ Admitted \subseteq Workers
      /\ Holding \subseteq Workers
  BY DEF Live, Admitted, Holding
<1>2. /\ IsFiniteSet(Live) /\ IsFiniteSet(Admitted) /\ IsFiniteSet(Holding)
      /\ Cardinality(Live) <= Cardinality(Workers)
  BY <1>1, WorkersAssumption, FS_Subset
<1>3. IsFiniteSet(tasks)
  BY FiniteItems, FS_Subset DEF TypeOK
<1> QED
  BY <1>2, <1>3, WorkersAssumption, FS_CardinalityType

\* What a move of one worker does to the counted sets.
LEMMA MoveSets ==
  ASSUME TypeOK, NEW w \in Workers, NEW p \in Pc, p # "absent",
         pc[w] # "absent", pc' = [pc EXCEPT ![w] = p]
  PROVE  /\ pc' \in [Workers -> Pc]
         /\ Live' = Live
         /\ Admitted' = IF p \in {"grow", "body", "running", "ack", "ackDie"}
                        THEN Admitted \cup {w} ELSE Admitted \ {w}
         /\ Holding' = IF p \in {"got", "discard", "grow", "body", "running",
                                 "ack", "ackDie"}
                       THEN Holding \cup {w} ELSE Holding \ {w}
<1>1. pc' \in [Workers -> Pc] /\ pc'[w] = p
      /\ \A x \in Workers : x # w => pc'[x] = pc[x]
  BY DEF TypeOK
<1>2. Live' = Live
  BY <1>1 DEF Live
<1>3. Admitted' = IF p \in {"grow", "body", "running", "ack", "ackDie"}
                  THEN Admitted \cup {w} ELSE Admitted \ {w}
  BY <1>1 DEF Admitted
<1>4. Holding' = IF p \in {"got", "discard", "grow", "body", "running",
                           "ack", "ackDie"}
                 THEN Holding \cup {w} ELSE Holding \ {w}
  BY <1>1 DEF Holding, Admitted
<1> QED
  BY <1>1, <1>2, <1>3, <1>4

\* Threads started beside the others: none of them has an item yet.
LEMMA StartSets ==
  ASSUME TypeOK, NEW S \in SUBSET Absent,
         pc' \in [Workers -> Pc],
         \A x \in Workers : IF x \in S THEN pc'[x] = "top"
                            ELSE \/ pc'[x] = pc[x]
                                 \/ pc[x] = "grow" /\ pc'[x] = "body"
  PROVE  /\ Live' = Live \cup S /\ Admitted' = Admitted /\ Holding' = Holding
         /\ Cardinality(Live') = Cardinality(Live) + Cardinality(S)
         /\ Cardinality(S) \in Nat
         /\ S # {} => Cardinality(S) > 0
<1>1. Live' = Live \cup S /\ Live \cap S = {} /\ S \subseteq Workers
  BY DEF Live, Absent
<1>2. Admitted' = Admitted
  BY DEF Admitted, Absent, Live
<1>3. Holding' = Holding
  BY <1>2 DEF Holding, Absent, Live
<1>4. IsFiniteSet(S) /\ Cardinality(S) \in Nat
      /\ (S # {} => Cardinality(S) # 0)
  BY <1>1, WorkersAssumption, FS_Subset, FS_CardinalityType, FS_EmptySet
<1>5. Cardinality(Live') = Cardinality(Live) + Cardinality(S)
  <2>1. Cardinality(Live \cup S)
           = Cardinality(Live) + Cardinality(S) - Cardinality(Live \cap S)
    BY <1>4, FiniteCounted, FS_Union
  <2>2. Cardinality(Live \cap S) = 0
    BY <1>1, FS_EmptySet
  <2>3. Cardinality(Live) \in Nat
    BY FiniteCounted
  <2> QED
    BY <1>1, <1>4, <2>1, <2>2, <2>3
<1>6. S # {} => Cardinality(S) > 0
  BY <1>4
<1> QED
  BY <1>1, <1>2, <1>3, <1>4, <1>5, <1>6

\* A worker that leaves, and the threads started in its place.
LEMMA RetireSets ==
  ASSUME TypeOK, NEW w \in Workers, pc[w] = "exit",
         NEW S \in SUBSET (Absent \cup {w}), pc' = Moved(w, "absent", S)
  PROVE  /\ pc' \in [Workers -> Pc]
         /\ Admitted' = Admitted /\ Holding' = Holding
         /\ Cardinality(Live') = Cardinality(Live) - 1 + Cardinality(S)
         /\ Cardinality(S) \in Nat
         /\ Cardinality(Live) > 0
<1>1. /\ pc' \in [Workers -> Pc]
      /\ \A x \in Workers : pc'[x] = IF x \in S THEN "top"
                                     ELSE IF x = w THEN "absent" ELSE pc[x]
  BY DEF Moved, TypeOK, Pc
<1>2. Live' = (Live \ {w}) \cup S /\ (Live \ {w}) \cap S = {} /\ w \in Live
      /\ S \subseteq Workers
  BY <1>1 DEF Live, Absent
<1>3. Admitted' = Admitted
  BY <1>1 DEF Admitted, Absent, Live
<1>4. Holding' = Holding
  BY <1>1, <1>3 DEF Holding, Absent, Live
<1>5. IsFiniteSet(S) /\ Cardinality(S) \in Nat
  BY <1>2, WorkersAssumption, FS_Subset, FS_CardinalityType
<1>6. IsFiniteSet(Live \ {w}) /\ Cardinality(Live \ {w}) = Cardinality(Live) - 1
  BY <1>2, FiniteCounted, FS_RemoveElement
<1>7. Cardinality(Live \ {w}) \in Nat
  BY <1>6, FS_CardinalityType
<1>8. Cardinality(Live) \in Nat
  BY FiniteCounted
<1>9. Cardinality(Live') = Cardinality(Live \ {w}) + Cardinality(S)
  <2>1. Cardinality((Live \ {w}) \cup S)
           = Cardinality(Live \ {w}) + Cardinality(S)
             - Cardinality((Live \ {w}) \cap S)
    BY <1>5, <1>6, FS_Union
  <2>2. Cardinality((Live \ {w}) \cap S) = 0
    BY <1>2, FS_EmptySet
  <2> QED
    BY <1>2, <1>5, <1>7, <2>1, <2>2
<1> QED
  BY <1>1, <1>3, <1>4, <1>5, <1>6, <1>7, <1>8, <1>9

\* Counting the threads that add() starts keeps Accounting.
LEMMA StartCounted ==
  ASSUME TypeOK, Accounting, NEW S \in SUBSET Absent, Start(S, workers),
         pc' \in [Workers -> Pc],
         \A x \in Workers : IF x \in S THEN pc'[x] = "top"
                            ELSE \/ pc'[x] = pc[x]
                                 \/ pc[x] = "grow" /\ pc'[x] = "body"
  PROVE  /\ workers' = Cardinality(Live') /\ workers' \in Nat
         /\ killEvent' \in BOOLEAN /\ (killEvent' <=> workers' = 0)
         /\ Admitted' = Admitted /\ Holding' = Holding
         /\ nbTasks' \in [Workers -> 0 .. MaxTasks]
         /\ workers' >= workers /\ (S # {} => workers' > 0)
<1>1. /\ Admitted' = Admitted /\ Holding' = Holding
      /\ Cardinality(Live') = Cardinality(Live) + Cardinality(S)
      /\ Cardinality(S) \in Nat /\ (S # {} => Cardinality(S) > 0)
      /\ (S = {} => Cardinality(S) = 0)
  BY StartSets, FS_EmptySet
<1>2. workers = Cardinality(Live) /\ workers \in Nat /\ (killEvent <=> workers = 0)
      /\ killEvent \in BOOLEAN
  BY DEF Accounting, TypeOK
<1>3. workers' = workers + Cardinality(S)
      /\ killEvent' = IF workers' = 0 THEN TRUE
                      ELSE IF S # {} THEN FALSE ELSE killEvent
  BY DEF Start
<1>4. workers' = Cardinality(Live') /\ workers' \in Nat
      /\ workers' >= workers /\ (S # {} => workers' > 0)
  BY <1>1, <1>2, <1>3
<1>5. killEvent' \in BOOLEAN /\ (killEvent' <=> workers' = 0)
  <2>1. CASE S = {}
    <3>1. workers' = workers
      BY <1>1, <1>2, <1>3, <2>1
    <3> QED
      BY <1>2, <1>3, <2>1, <3>1
  <2>2. CASE S # {}
    <3>1. workers' # 0
      BY <1>4, <2>2
    <3> QED
      BY <1>3, <2>2, <3>1
  <2> QED
    BY <2>1, <2>2
<1>6. nbTasks' \in [Workers -> 0 .. MaxTasks]
  BY ParameterAssumption DEF Start, TypeOK
<1> QED
  BY <1>1, <1>4, <1>5, <1>6

-----------------------------------------------------------------------------
(* Each step keeps the invariant.                                          *)

LEMMA InitInv == Init => IInv
<1> SUFFICES ASSUME Init PROVE IInv
  OBVIOUS
<1>1. Cardinality(Workers) \in Nat
  BY WorkersAssumption, FS_CardinalityType
<1>2. TypeOK
  <2>1. nbTasks \in [Workers -> 0 .. MaxTasks]
    BY ParameterAssumption DEF Init
  <2>2. killer \in [Kills -> [at : {"idle", "count", "put"},
                             nb : 0 .. Cardinality(Workers)]]
    BY <1>1 DEF Init
  <2>3. /\ rank \in [Items -> Nat] /\ item \in [Workers -> Items \cup {NoItem}]
        /\ pc \in [Workers -> Pc] /\ status \in [Tasks -> Status]
        /\ earlier \in [Tasks -> SUBSET Tasks]
    BY DEF Init, Status, Pc
  <2>4. /\ tasks \subseteq Items /\ sequence \in Nat /\ unfinished \in Nat
        /\ workers \in Nat /\ working \in Nat
        /\ exit \in BOOLEAN /\ killEvent \in BOOLEAN
        /\ maxWorkers \in 1 .. Cardinality(Workers)
        /\ waiting \subseteq Stoppers \cup Workers
    BY WorkersAssumption DEF Init
  <2> QED
    BY <2>1, <2>2, <2>3, <2>4 DEF TypeOK
<1>3. Live = {} /\ Admitted = {} /\ Holding = {}
  BY DEF Init, Live, Admitted, Holding
<1>4. Accounting
  BY <1>3, FS_EmptySet DEF Init, Accounting
<1>5. Fresh /\ Queued /\ Hands /\ Whereabouts /\ Drained /\ Attended
  BY DEF Init, Fresh, Queued, Hands, Busy, Whereabouts, Drained, Attended
<1> QED
  BY <1>2, <1>4, <1>5 DEF IInv

\* run() is called.
LEMMA CallInv ==
  ASSUME IInv, NEW t \in Tasks, Call(t)
  PROVE  IInv'
<1> USE DEF IInv
<1>1. /\ UNCHANGED <<tasks, unfinished, exit, killEvent, workers, working,
                     maxWorkers, pc, item, nbTasks, killer, waiting>>
      /\ status[t] = "new" /\ status' = [status EXCEPT ![t] = "putting"]
  BY DEF Call
<1>2. TypeOK'
  <2>1. rank' \in [Items -> Nat] /\ sequence' \in Nat
    BY DEF Call, TypeOK, Items
  <2>2. status' \in [Tasks -> Status] /\ earlier' \in [Tasks -> SUBSET Tasks]
    BY DEF Call, TypeOK, Status
  <2> QED
    BY <1>1, <2>1, <2>2 DEF TypeOK
<1>3. Accounting' /\ Fresh' /\ Drained' /\ Attended'
  BY <1>1 DEF Accounting, Live, Admitted, Holding, Fresh, Drained, Attended
<1>4. Queued' /\ Whereabouts'
  BY <1>1 DEF Queued, Whereabouts, TypeOK
<1>5. Hands'
  <2>1. \A w \in Workers : Busy(w) => item[w] # t
    BY <1>1 DEF Hands, StatusAt
  <2>2. \A u \in Tasks : u # t => status'[u] = status[u]
    BY <1>1 DEF TypeOK
  <2> QED
    BY <1>1, <2>1, <2>2 DEF Hands, Busy
<1> QED
  BY <1>2, <1>3, <1>4, <1>5

\* A submission raises.
LEMMA PutRefusedInv ==
  ASSUME IInv, NEW t \in Tasks, PutRefused(t)
  PROVE  IInv'
<1> USE DEF IInv
<1>1. /\ UNCHANGED <<tasks, rank, sequence, unfinished, exit, killEvent, workers,
                     working, maxWorkers, pc, item, nbTasks, killer, waiting>>
      /\ status[t] = "putting" /\ status' = [status EXCEPT ![t] = "refused"]
  BY DEF PutRefused, pool
<1>2. TypeOK'
  <2>1. status' \in [Tasks -> Status] /\ earlier' \in [Tasks -> SUBSET Tasks]
    BY DEF PutRefused, TypeOK, Status
  <2> QED
    BY <1>1, <2>1 DEF TypeOK
<1>3. Accounting' /\ Fresh' /\ Drained' /\ Attended'
  BY <1>1 DEF Accounting, Live, Admitted, Holding, Fresh, Drained, Attended
<1>4. Queued' /\ Whereabouts'
  BY <1>1 DEF Queued, Whereabouts, TypeOK
<1>5. Hands'
  <2>1. \A w \in Workers : Busy(w) => item[w] # t
    BY <1>1 DEF Hands, StatusAt
  <2>2. \A u \in Tasks : u # t => status'[u] = status[u]
    BY <1>1 DEF TypeOK
  <2> QED
    BY <1>1, <2>1, <2>2 DEF Hands, Busy
<1> QED
  BY <1>2, <1>3, <1>4, <1>5

\* What enqueueing a new item does to the queue.
LEMMA EnqueueCounted ==
  ASSUME TypeOK, NEW i \in Items, NEW b \in BOOLEAN, i \notin tasks,
         Enqueue(i, b)
  PROVE  /\ tasks' = tasks \cup {i} /\ tasks' \subseteq Items
         /\ rank' \in [Items -> Nat] /\ sequence' \in Nat
         /\ unfinished' = unfinished + 1 /\ unfinished' \in Nat
         /\ Cardinality(tasks') = Cardinality(tasks) + 1
<1>1. tasks' = tasks \cup {i} /\ tasks' \subseteq Items
      /\ unfinished' = unfinished + 1 /\ unfinished' \in Nat
  BY DEF Enqueue, TypeOK
<1>2. rank' \in [Items -> Nat] /\ sequence' \in Nat
  BY DEF Enqueue, TypeOK
<1>3. Cardinality(tasks') = Cardinality(tasks) + 1
  BY <1>1, FiniteCounted, FS_AddElement
<1> QED
  BY <1>1, <1>2, <1>3

\* _put() of a task, with the first worker it may start.
LEMMA PutInv ==
  ASSUME IInv, NEW t \in Tasks, Put(t)
  PROVE  IInv'
<1> USE DEF IInv
<1>1. status[t] = "putting" /\ ~exit /\ t \notin tasks /\ t \in Items
  BY DEF Put, Queued, TypeOK, Items
<1>2. PICK S \in IF NeedsWorker THEN AddSets(1, 0, Absent) \ {{}} ELSE {{}} :
        /\ Start(S, workers)
        /\ pc' = [x \in Workers |-> IF x \in S THEN "top" ELSE pc[x]]
        /\ \/ /\ Enqueue(t, IsQPriority)
              /\ status' = [status EXCEPT ![t] = "accepted"]
           \/ /\ Full /\ S # {}
              /\ UNCHANGED <<tasks, unfinished, rank, sequence, status>>
  BY DEF Put
<1>3. /\ S \in SUBSET Absent
      /\ NeedsWorker => S # {}
  BY <1>2 DEF AddSets
<1>4. /\ pc' \in [Workers -> Pc]
      /\ \A x \in Workers : IF x \in S THEN pc'[x] = "top" ELSE pc'[x] = pc[x]
  BY <1>2 DEF TypeOK, Pc
<1>5. /\ workers' = Cardinality(Live') /\ workers' \in Nat
      /\ killEvent' \in BOOLEAN /\ (killEvent' <=> workers' = 0)
      /\ Admitted' = Admitted /\ Holding' = Holding
      /\ nbTasks' \in [Workers -> 0 .. MaxTasks]
      /\ workers' >= workers /\ (S # {} => workers' > 0)
  BY <1>2, <1>3, <1>4, StartCounted
<1>6. UNCHANGED <<exit, working, maxWorkers, item, killer, waiting, earlier>>
  BY DEF Put
<1>7. workers' > 0
  BY <1>3, <1>5 DEF NeedsWorker, TypeOK
<1>8. CASE Enqueue(t, IsQPriority) /\ status' = [status EXCEPT ![t] = "accepted"]
  <2>1. /\ tasks' = tasks \cup {t} /\ tasks' \subseteq Items
        /\ rank' \in [Items -> Nat] /\ sequence' \in Nat
        /\ unfinished' = unfinished + 1 /\ unfinished' \in Nat
        /\ Cardinality(tasks') = Cardinality(tasks) + 1
    BY <1>1, <1>8, EnqueueCounted, ParameterAssumption
  <2>2. status' \in [Tasks -> Status]
    BY <1>8 DEF TypeOK, Status
  <2>3. TypeOK'
    BY <1>4, <1>5, <1>6, <2>1, <2>2 DEF TypeOK
  <2>4. Accounting'
    <3>1. Cardinality(tasks) \in Nat /\ Cardinality(Holding) \in Nat
      BY FiniteCounted
    <3>2. unfinished' = Cardinality(tasks') + Cardinality(Holding')
      BY <1>5, <2>1, <3>1 DEF Accounting
    <3> QED
      BY <1>5, <1>6, <3>2 DEF Accounting
  <2>5. Fresh'
    <3>1. t \notin Exits
      BY ItemsAssumption
    <3>2. \A k \in Kills, n \in 1 .. Cardinality(Workers) : <<k, n>> # t
      BY <3>1 DEF Exits
    <3> QED
      BY <1>6, <2>1, <3>2 DEF Fresh
  <2>6. Queued' /\ Drained' /\ Attended'
    BY <1>1, <1>6, <1>7, <1>8, <2>1 DEF Queued, Drained, Attended, TypeOK
  <2>7. Whereabouts'
    BY <1>1, <1>3, <1>4, <1>6, <1>8, <2>1 DEF Whereabouts, TypeOK, Absent, Live
  <2>8. Hands'
    <3>1. \A w \in Workers : Busy(w) => item[w] # t
      BY <1>1 DEF Hands, StatusAt
    <3>2. \A u \in Tasks : u # t => status'[u] = status[u]
      BY <1>8 DEF TypeOK
    <3>3. \A w \in Workers : Busy(w)' => Busy(w) /\ pc'[w] = pc[w]
      BY <1>4 DEF Busy
    <3> QED
      BY <1>6, <2>1, <3>1, <3>2, <3>3 DEF Hands
  <2> QED
    BY <2>3, <2>4, <2>5, <2>6, <2>7, <2>8
<1>9. CASE UNCHANGED <<tasks, unfinished, rank, sequence, status>>
  <2>1. TypeOK'
    BY <1>4, <1>5, <1>6, <1>9 DEF TypeOK
  <2>2. Accounting'
    BY <1>5, <1>6, <1>9 DEF Accounting
  <2>3. Fresh' /\ Queued' /\ Drained' /\ Attended'
    BY <1>6, <1>7, <1>9 DEF Fresh, Queued, Drained, Attended
  <2>4. Whereabouts'
    BY <1>3, <1>4, <1>6, <1>9 DEF Whereabouts, Absent, Live
  <2>5. Hands'
    <3>1. \A w \in Workers : Busy(w)' => Busy(w) /\ pc'[w] = pc[w]
      BY <1>4 DEF Busy
    <3> QED
      BY <1>6, <1>9, <3>1 DEF Hands
  <2> QED
    BY <2>1, <2>2, <2>3, <2>4, <2>5
<1> QED
  BY <1>2, <1>8, <1>9

\* add() called from outside the pool.
LEMMA AddInv ==
  ASSUME IInv, NEW nb \in 1 .. Cardinality(Workers), Add(nb)
  PROVE  IInv'
<1> USE DEF IInv
<1>1. PICK S \in AddSets(nb, workers, Absent) :
        /\ Start(S, workers)
        /\ pc' = [x \in Workers |-> IF x \in S THEN "top" ELSE pc[x]]
  BY DEF Add
<1>2. S \in SUBSET Absent
  BY DEF AddSets
<1>3. /\ pc' \in [Workers -> Pc]
      /\ \A x \in Workers : IF x \in S THEN pc'[x] = "top" ELSE pc'[x] = pc[x]
  BY <1>1 DEF TypeOK, Pc
<1>4. /\ workers' = Cardinality(Live') /\ workers' \in Nat
      /\ killEvent' \in BOOLEAN /\ (killEvent' <=> workers' = 0)
      /\ Admitted' = Admitted /\ Holding' = Holding
      /\ nbTasks' \in [Workers -> 0 .. MaxTasks]
      /\ workers' >= workers
  BY <1>1, <1>2, <1>3, StartCounted
<1>5. UNCHANGED <<tasks, rank, sequence, unfinished, exit, working, maxWorkers,
                  item, status, killer, waiting, earlier>>
  BY DEF Add
<1>6. TypeOK'
  BY <1>3, <1>4, <1>5 DEF TypeOK
<1>7. Accounting'
  BY <1>4, <1>5 DEF Accounting
<1>8. Fresh' /\ Queued' /\ Drained'
  BY <1>5 DEF Fresh, Queued, Drained
<1>9. Attended'
  BY <1>4, <1>5 DEF Attended, TypeOK
<1>10. Whereabouts'
  BY <1>2, <1>3, <1>5 DEF Whereabouts, Absent, Live
<1>11. Hands'
  <2>1. \A w \in Workers : Busy(w)' => Busy(w) /\ pc'[w] = pc[w]
    BY <1>3 DEF Busy
  <2> QED
    BY <1>5, <2>1 DEF Hands
<1> QED
  BY <1>6, <1>7, <1>8, <1>9, <1>10, <1>11

\* A worker grows the pool before it runs its task.
LEMMA GrowInv ==
  ASSUME IInv, NEW w \in Workers, Grow(w)
  PROVE  IInv'
<1> USE DEF IInv
<1>1. PICK S \in IF AddAllowed THEN AddSets(1, workers, Absent) ELSE {{}} :
        Start(S, workers) /\ pc' = Moved(w, "body", S)
  BY DEF Grow
<1>2. S \in SUBSET Absent /\ pc[w] = "grow" /\ w \notin S
  BY DEF AddSets, Absent, Live, Grow
<1>3. /\ pc' \in [Workers -> Pc]
      /\ \A x \in Workers : IF x \in S THEN pc'[x] = "top"
                            ELSE \/ pc'[x] = pc[x]
                                 \/ pc[x] = "grow" /\ pc'[x] = "body"
  BY <1>1, <1>2 DEF Moved, TypeOK, Pc
<1>4. /\ workers' = Cardinality(Live') /\ workers' \in Nat
      /\ killEvent' \in BOOLEAN /\ (killEvent' <=> workers' = 0)
      /\ Admitted' = Admitted /\ Holding' = Holding
      /\ nbTasks' \in [Workers -> 0 .. MaxTasks]
      /\ workers' >= workers
  BY <1>1, <1>2, <1>3, StartCounted
<1>5. UNCHANGED <<tasks, rank, sequence, unfinished, exit, working, maxWorkers,
                  item, status, killer, waiting, earlier>>
  BY DEF Grow
<1>6. TypeOK'
  BY <1>3, <1>4, <1>5 DEF TypeOK
<1>7. Accounting'
  BY <1>4, <1>5 DEF Accounting
<1>8. Fresh' /\ Queued' /\ Drained'
  BY <1>5 DEF Fresh, Queued, Drained
<1>9. Attended'
  BY <1>4, <1>5 DEF Attended, TypeOK
<1>10. Whereabouts'
  BY <1>2, <1>3, <1>5 DEF Whereabouts, Absent, Live
<1>11. Hands'
  <2>1. \A x \in Workers : Busy(x)' => /\ Busy(x) /\ StatusAt(pc'[x]) = StatusAt(pc[x])
                                       /\ (pc'[x] # "got" <=> pc[x] # "got")
    BY <1>3 DEF Busy, StatusAt
  <2> QED
    BY <1>5, <2>1 DEF Hands
<1> QED
  BY <1>6, <1>7, <1>8, <1>9, <1>10, <1>11

\* A worker leaves the pool, and replaces itself if tasks are queued.
LEMMA RetireInv ==
  ASSUME IInv, NEW w \in Workers, Retire(w)
  PROVE  IInv'
<1> USE DEF IInv
<1>1. PICK S \in IF NeedsReplacement
                 THEN AddSets(1, workers - 1, Absent \cup {w}) ELSE {{}} :
        Start(S, workers - 1) /\ pc' = Moved(w, "absent", S)
  BY DEF Retire
<1>2. S \in SUBSET (Absent \cup {w}) /\ pc[w] = "exit"
  BY DEF AddSets, Retire
<1>3. /\ pc' \in [Workers -> Pc]
      /\ Admitted' = Admitted /\ Holding' = Holding
      /\ Cardinality(Live') = Cardinality(Live) - 1 + Cardinality(S)
      /\ Cardinality(S) \in Nat /\ Cardinality(Live) > 0
  BY <1>1, <1>2, RetireSets
<1>4. S = {} => Cardinality(S) = 0
  BY FS_EmptySet
<1>5. UNCHANGED <<tasks, rank, sequence, unfinished, exit, working, maxWorkers,
                  item, status, killer, waiting, earlier>>
  BY DEF Retire
<1>6. /\ workers = Cardinality(Live) /\ workers \in Nat
      /\ (killEvent <=> workers = 0) /\ killEvent \in BOOLEAN
  BY DEF Accounting, TypeOK
<1>7. /\ workers' = workers - 1 + Cardinality(S)
      /\ killEvent' = IF workers' = 0 THEN TRUE
                      ELSE IF S # {} THEN FALSE ELSE killEvent
      /\ nbTasks' = [x \in Workers |-> IF x \in S THEN 0 ELSE nbTasks[x]]
  BY <1>1 DEF Start
<1>8. workers' = Cardinality(Live') /\ workers' \in Nat
  BY <1>3, <1>6, <1>7
<1>9. killEvent' \in BOOLEAN /\ (killEvent' <=> workers' = 0)
  <2>1. killEvent = FALSE
    BY <1>3, <1>6
  <2> QED
    BY <1>7, <2>1
<1>10. nbTasks' \in [Workers -> 0 .. MaxTasks]
  BY <1>7, ParameterAssumption DEF TypeOK
<1>11. TypeOK'
  BY <1>3, <1>5, <1>8, <1>9, <1>10 DEF TypeOK
<1>12. Accounting'
  BY <1>3, <1>5, <1>8, <1>9 DEF Accounting
<1>13. Fresh' /\ Queued' /\ Drained'
  BY <1>5 DEF Fresh, Queued, Drained
<1>14. Attended'
  <2> SUFFICES ASSUME ~StartMayFail, ~exit, tasks # {} PROVE workers' > 0
    BY <1>5 DEF Attended
  <2>1. S \in AddSets(1, workers - 1, Absent \cup {w})
    BY DEF NeedsReplacement
  <2>2. Cardinality(S) = 1 \/ workers - 1 + Cardinality(S) >= maxWorkers
    BY <2>1 DEF AddSets
  <2>3. maxWorkers >= 1 /\ maxWorkers \in Int
    BY FiniteCounted DEF TypeOK
  <2> QED
    BY <1>3, <1>6, <1>7, <1>8, <2>2, <2>3
<1>15. Whereabouts'
  <2>1. \A x \in Workers : pc[x] \in {"got", "grow", "body", "running"}
                             => pc'[x] = pc[x]
    BY <1>1, <1>2 DEF Moved, Absent, Live
  <2> QED
    BY <1>5, <2>1 DEF Whereabouts
<1>16. Hands'
  <2>1. \A x \in Workers : Busy(x)' => Busy(x) /\ pc'[x] = pc[x]
    BY <1>1, <1>2 DEF Moved, Busy
  <2> QED
    BY <1>5, <2>1 DEF Hands
<1> QED
  BY <1>11, <1>12, <1>13, <1>14, <1>15, <1>16

\* A worker that holds nothing goes around its loop.
LEMMA AroundInv ==
  ASSUME IInv, NEW w \in Workers, pc[w] \in {"top", "get"},
         NEW p \in {"top", "get", "exit"}, pc' = [pc EXCEPT ![w] = p],
         UNCHANGED <<pool, item, nbTasks, status, killer, waiting, earlier>>
  PROVE  IInv'
<1> USE DEF IInv
<1>1. UNCHANGED <<tasks, rank, sequence, unfinished, exit, killEvent, workers,
                  working, maxWorkers, item, nbTasks, status, killer, waiting,
                  earlier>>
  BY DEF pool
<1>2. /\ pc' \in [Workers -> Pc] /\ Live' = Live
      /\ Admitted' = Admitted \ {w} /\ Holding' = Holding \ {w}
  BY MoveSets DEF Pc
<1>3. w \notin Admitted /\ w \notin Holding
  BY DEF Admitted, Holding
<1>4. Admitted' = Admitted /\ Holding' = Holding
  BY <1>2, <1>3
<1>5. TypeOK' /\ Accounting'
  BY <1>1, <1>2, <1>4 DEF TypeOK, Accounting
<1>6. Fresh' /\ Queued' /\ Drained' /\ Attended'
  BY <1>1 DEF Fresh, Queued, Drained, Attended
<1>7. Whereabouts'
  BY <1>1 DEF Whereabouts, TypeOK
<1>8. Hands'
  <2>1. \A x \in Workers : Busy(x)' => Busy(x) /\ pc'[x] = pc[x]
    BY DEF Busy, TypeOK
  <2> QED
    BY <1>1, <2>1 DEF Hands
<1> QED
  BY <1>5, <1>6, <1>7, <1>8

\* The loop condition, and a get() that times out.
LEMMA LoopInv ==
  ASSUME IInv, NEW w \in Workers, Loop(w) \/ GetTimeout(w)
  PROVE  IInv'
<1>1. CASE Loop(w)
  <2>1. PICK p \in {"get", "exit"} : pc' = [pc EXCEPT ![w] = p]
    BY <1>1 DEF Loop
  <2> QED
    BY <1>1, <2>1, AroundInv DEF Loop
<1>2. CASE GetTimeout(w)
  BY <1>2, AroundInv DEF GetTimeout
<1> QED
  BY <1>1, <1>2

\* An item leaves the queue for the hand of a worker.
LEMMA GetInv ==
  ASSUME IInv, NEW w \in Workers, Get(w)
  PROVE  IInv'
<1> USE DEF IInv
<1>1. PICK i \in tasks :
        /\ tasks' = tasks \ {i}
        /\ rank' = [rank EXCEPT ![i] = 0]
        /\ item' = [item EXCEPT ![w] = i]
        /\ earlier' = [t \in Tasks |-> IF t = i THEN {} ELSE earlier[t] \ {i}]
  BY DEF Get
<1>2. /\ pc[w] = "get" /\ pc' = [pc EXCEPT ![w] = "got"]
      /\ UNCHANGED <<sequence, unfinished, exit, killEvent, workers, working,
                     maxWorkers, nbTasks, status, killer, waiting>>
  BY DEF Get
<1>3. /\ pc' \in [Workers -> Pc] /\ Live' = Live
      /\ Admitted' = Admitted \ {w} /\ Holding' = Holding \cup {w}
  BY <1>2, MoveSets DEF Pc
<1>4. w \notin Admitted /\ w \notin Holding
  BY <1>2 DEF Admitted, Holding
<1>5. Admitted' = Admitted
  BY <1>3, <1>4
<1>6. TypeOK'
  <2>1. /\ tasks' \subseteq Items /\ rank' \in [Items -> Nat]
        /\ item' \in [Workers -> Items \cup {NoItem}]
        /\ earlier' \in [Tasks -> SUBSET Tasks]
    BY <1>1 DEF TypeOK
  <2> QED
    BY <1>2, <1>3, <2>1 DEF TypeOK
<1>7. Accounting'
  <2>1. Cardinality(tasks') = Cardinality(tasks) - 1
    BY <1>1, FiniteCounted, FS_RemoveElement
  <2>2. Cardinality(Holding') = Cardinality(Holding) + 1
    BY <1>3, <1>4, FiniteCounted, FS_AddElement
  <2>3. Cardinality(tasks) \in Nat /\ Cardinality(Holding) \in Nat
    BY FiniteCounted
  <2>4. unfinished' = Cardinality(tasks') + Cardinality(Holding')
    BY <1>2, <2>1, <2>2, <2>3 DEF Accounting
  <2> QED
    BY <1>2, <1>3, <1>5, <2>4 DEF Accounting
<1>8. Fresh' /\ Queued' /\ Drained' /\ Attended'
  BY <1>1, <1>2 DEF Fresh, Queued, Drained, Attended
<1>9. Whereabouts'
  <2>1. pc'[w] = "got" /\ item'[w] = i
    BY <1>1, <1>2 DEF TypeOK
  <2>2. \A x \in Workers : x # w => pc'[x] = pc[x] /\ item'[x] = item[x]
    BY <1>1, <1>2 DEF TypeOK
  <2> QED
    BY <1>1, <1>2, <2>1, <2>2 DEF Whereabouts
<1>10. Hands'
  <2>1. /\ pc'[w] = "got" /\ item'[w] = i /\ Busy(w)' /\ ~Busy(w)
        /\ \A x \in Workers : x # w =>
             pc'[x] = pc[x] /\ item'[x] = item[x] /\ (Busy(x)' <=> Busy(x))
    BY <1>1, <1>2 DEF TypeOK, Busy
  <2>2. i \in Items /\ (i \in Tasks => status[i] = "accepted")
    BY DEF TypeOK, Queued
  <2>3. i \in Tasks => \A x \in Workers : Busy(x) => item[x] # i
    BY DEF Hands
  <2> QED
    BY <1>1, <1>2, <2>1, <2>2, <2>3 DEF Hands, StatusAt
<1> QED
  BY <1>6, <1>7, <1>8, <1>9, <1>10

\* A task is counted as worked on.
LEMMA AdmitInv ==
  ASSUME IInv, NEW w \in Workers, Admit(w)
  PROVE  IInv'
<1> USE DEF IInv
<1>1. /\ pc[w] = "got" /\ working' = working + 1
      /\ status' = [status EXCEPT ![item[w]] = "claimed"]
      /\ UNCHANGED <<tasks, rank, sequence, unfinished, exit, killEvent, workers,
                     maxWorkers, item, nbTasks, killer, waiting, earlier>>
  BY DEF Admit
<1>2. PICK p \in {"grow", "body"} : pc' = [pc EXCEPT ![w] = p]
  BY DEF Admit
<1>3. /\ pc' \in [Workers -> Pc] /\ Live' = Live
      /\ Admitted' = Admitted \cup {w} /\ Holding' = Holding \cup {w}
  BY <1>1, <1>2, MoveSets DEF Pc
<1>4. w \notin Admitted /\ w \in Holding
  BY <1>1 DEF Admitted, Holding
<1>5. TypeOK'
  <2>1. status' \in [Tasks -> Status]
    BY <1>1 DEF TypeOK, Status
  <2>2. working' \in Nat
    BY <1>1 DEF TypeOK
  <2> QED
    BY <1>1, <1>3, <2>1, <2>2 DEF TypeOK
<1>6. Accounting'
  <2>1. Cardinality(Admitted') = Cardinality(Admitted) + 1
    BY <1>3, <1>4, FiniteCounted, FS_AddElement
  <2>2. Holding' = Holding
    BY <1>3, <1>4
  <2> QED
    BY <1>1, <1>3, <2>1, <2>2 DEF Accounting
<1>7. Fresh' /\ Drained' /\ Attended'
  BY <1>1 DEF Fresh, Drained, Attended
<1>8. /\ item[w] \in Tasks /\ item[w] \notin tasks
      /\ \A x \in Workers : x # w /\ Busy(x) => item[x] # item[w]
  <2>1. item[w] \notin Exits
    BY DEF Admit, LeavesItem
  <2> QED
    BY <1>1, <2>1 DEF Hands, Busy, Items
<1>9. /\ pc'[w] = p /\ Busy(w)'
      /\ \A x \in Workers : x # w => pc'[x] = pc[x] /\ (Busy(x)' <=> Busy(x))
  BY <1>2 DEF Busy, TypeOK
<1>10. /\ status'[item[w]] = "claimed"
       /\ \A t \in Tasks : t # item[w] => status'[t] = status[t]
  BY <1>1, <1>8 DEF TypeOK
<1>11. Queued'
  BY <1>1, <1>8, <1>10 DEF Queued
<1>12. Whereabouts'
  BY <1>1, <1>2, <1>8, <1>9, <1>10 DEF Whereabouts
<1>13. Hands'
  BY <1>1, <1>2, <1>8, <1>9, <1>10 DEF Hands, StatusAt, Items
<1> QED
  BY <1>5, <1>6, <1>7, <1>11, <1>12, <1>13

\* An item is left: a WorkerExit, or any item of a stopped pool.
LEMMA LeaveInv ==
  ASSUME IInv, NEW w \in Workers, Leave(w)
  PROVE  IInv'
<1> USE DEF IInv
<1>1. /\ pc[w] = "got" /\ pc' = [pc EXCEPT ![w] = "discard"]
      /\ status' = [t \in Tasks |-> IF t = item[w] THEN "cancelled" ELSE status[t]]
      /\ item' = [item EXCEPT ![w] = NoItem]
      /\ UNCHANGED <<tasks, rank, sequence, unfinished, exit, killEvent, workers,
                     working, maxWorkers, nbTasks, killer, waiting, earlier>>
  BY DEF Leave, pool
<1>2. /\ pc' \in [Workers -> Pc] /\ Live' = Live
      /\ Admitted' = Admitted \ {w} /\ Holding' = Holding \cup {w}
  BY <1>1, MoveSets DEF Pc
<1>3. Admitted' = Admitted /\ Holding' = Holding
  BY <1>1, <1>2 DEF Admitted, Holding
<1>4. TypeOK'
  <2>1. status' \in [Tasks -> Status] /\ item' \in [Workers -> Items \cup {NoItem}]
    BY <1>1 DEF TypeOK, Status
  <2> QED
    BY <1>1, <1>2, <2>1 DEF TypeOK
<1>5. Accounting' /\ Fresh' /\ Drained' /\ Attended'
  BY <1>1, <1>2, <1>3 DEF Accounting, Fresh, Drained, Attended
<1>6. item[w] \in Tasks => /\ item[w] \notin tasks
                          /\ \A x \in Workers : x # w /\ Busy(x) => item[x] # item[w]
  BY <1>1 DEF Hands, Busy
<1>7. /\ ~Busy(w)'
      /\ \A x \in Workers : x # w =>
           pc'[x] = pc[x] /\ item'[x] = item[x] /\ (Busy(x)' <=> Busy(x))
  BY <1>1 DEF Busy, TypeOK
<1>8. Queued'
  BY <1>1, <1>6 DEF Queued
<1>9. Whereabouts'
  BY <1>1, <1>7 DEF Whereabouts
<1>10. Hands'
  BY <1>1, <1>6, <1>7 DEF Hands
<1> QED
  BY <1>4, <1>5, <1>8, <1>9, <1>10

\* The callable is entered.
LEMMA StartBodyInv ==
  ASSUME IInv, NEW w \in Workers, StartBody(w)
  PROVE  IInv'
<1> USE DEF IInv
<1>1. /\ pc[w] = "body" /\ pc' = [pc EXCEPT ![w] = "running"]
      /\ status' = [status EXCEPT ![item[w]] = "running"]
      /\ UNCHANGED <<tasks, rank, sequence, unfinished, exit, killEvent, workers,
                     working, maxWorkers, item, killer, waiting, earlier>>
  BY DEF StartBody, pool
<1>2. /\ pc' \in [Workers -> Pc] /\ Live' = Live
      /\ Admitted' = Admitted \cup {w} /\ Holding' = Holding \cup {w}
  BY <1>1, MoveSets DEF Pc
<1>3. Admitted' = Admitted /\ Holding' = Holding
  BY <1>1, <1>2 DEF Admitted, Holding
<1>4. /\ item[w] \in Tasks /\ item[w] \notin tasks
      /\ \A x \in Workers : x # w /\ Busy(x) => item[x] # item[w]
  BY <1>1 DEF Hands, Busy
<1>5. /\ pc'[w] = "running" /\ Busy(w)'
      /\ \A x \in Workers : x # w => pc'[x] = pc[x] /\ (Busy(x)' <=> Busy(x))
  BY <1>1 DEF Busy, TypeOK
<1>6. /\ status'[item[w]] = "running"
      /\ \A t \in Tasks : t # item[w] => status'[t] = status[t]
  BY <1>1, <1>4 DEF TypeOK
<1>7. TypeOK'
  <2>1. status' \in [Tasks -> Status]
    BY <1>1 DEF TypeOK, Status
  <2>2. nbTasks' \in [Workers -> 0 .. MaxTasks]
    <3>1. nbTasks' = [nbTasks EXCEPT ![w] = IF @ < MaxTasks THEN @ + 1 ELSE @]
      BY DEF StartBody
    <3>2. nbTasks[w] \in 0 .. MaxTasks
      BY DEF TypeOK
    <3>3. (IF nbTasks[w] < MaxTasks THEN nbTasks[w] + 1 ELSE nbTasks[w])
            \in 0 .. MaxTasks
      BY <3>2, ParameterAssumption
    <3> QED
      BY <3>1, <3>3 DEF TypeOK
  <2> QED
    BY <1>1, <1>2, <2>1, <2>2 DEF TypeOK
<1>8. Accounting' /\ Fresh' /\ Drained' /\ Attended'
  BY <1>1, <1>2, <1>3 DEF Accounting, Fresh, Drained, Attended
<1>9. Queued'
  BY <1>1, <1>4, <1>6 DEF Queued
<1>10. Whereabouts'
  BY <1>1, <1>4, <1>5, <1>6 DEF Whereabouts
<1>11. Hands'
  BY <1>1, <1>4, <1>5, <1>6 DEF Hands, StatusAt, Items
<1> QED
  BY <1>7, <1>8, <1>9, <1>10, <1>11

\* The callable and its callbacks are over.
LEMMA FinishBodyInv ==
  ASSUME IInv, NEW w \in Workers, FinishBody(w)
  PROVE  IInv'
<1> USE DEF IInv
<1>1. /\ pc[w] = "running"
      /\ status' = [status EXCEPT ![item[w]] = "done"]
      /\ item' = [item EXCEPT ![w] = NoItem]
      /\ UNCHANGED <<tasks, rank, sequence, unfinished, exit, killEvent, workers,
                     working, maxWorkers, nbTasks, killer, waiting, earlier>>
  BY DEF FinishBody, pool
<1>2. PICK p \in {"ack", "ackDie"} : pc' = [pc EXCEPT ![w] = p]
  BY DEF FinishBody
<1>3. /\ pc' \in [Workers -> Pc] /\ Live' = Live
      /\ Admitted' = Admitted \cup {w} /\ Holding' = Holding \cup {w}
  BY <1>1, <1>2, MoveSets DEF Pc
<1>4. Admitted' = Admitted /\ Holding' = Holding
  BY <1>1, <1>3 DEF Admitted, Holding
<1>5. /\ item[w] \in Tasks /\ item[w] \notin tasks
      /\ \A x \in Workers : x # w /\ Busy(x) => item[x] # item[w]
  BY <1>1 DEF Hands, Busy
<1>6. /\ ~Busy(w)'
      /\ \A x \in Workers : x # w =>
           pc'[x] = pc[x] /\ item'[x] = item[x] /\ (Busy(x)' <=> Busy(x))
  BY <1>1, <1>2 DEF Busy, TypeOK
<1>7. /\ status'[item[w]] = "done"
      /\ \A t \in Tasks : t # item[w] => status'[t] = status[t]
  BY <1>1, <1>5 DEF TypeOK
<1>8. TypeOK'
  <2>1. status' \in [Tasks -> Status] /\ item' \in [Workers -> Items \cup {NoItem}]
    BY <1>1 DEF TypeOK, Status
  <2> QED
    BY <1>1, <1>3, <2>1 DEF TypeOK
<1>9. Accounting' /\ Fresh' /\ Drained' /\ Attended'
  BY <1>1, <1>3, <1>4 DEF Accounting, Fresh, Drained, Attended
<1>10. Queued'
  BY <1>1, <1>5, <1>7 DEF Queued
<1>11. Whereabouts'
  BY <1>1, <1>6, <1>7 DEF Whereabouts
<1>12. Hands'
  BY <1>1, <1>5, <1>6, <1>7 DEF Hands
<1> QED
  BY <1>8, <1>9, <1>10, <1>11, <1>12

\* The acknowledgement of an item, in the inner finally.
LEMMA AckInv ==
  ASSUME IInv, NEW w \in Workers, Ack(w) \/ Discard(w)
  PROVE  IInv'
<1> USE DEF IInv
<1>1. /\ pc[w] \in {"ack", "ackDie", "discard"}
      /\ working' = IF pc[w] = "discard" THEN working ELSE working - 1
      /\ unfinished' = unfinished - 1
      /\ UNCHANGED <<tasks, rank, sequence, exit, killEvent, workers, maxWorkers,
                     item, nbTasks, status, killer, waiting, earlier>>
  BY DEF Ack, Discard
<1>2. PICK p \in {"top", "exit"} : pc' = [pc EXCEPT ![w] = p]
  BY DEF Ack, Discard
<1>3. /\ pc' \in [Workers -> Pc] /\ Live' = Live
      /\ Admitted' = Admitted \ {w} /\ Holding' = Holding \ {w}
  BY <1>1, <1>2, MoveSets DEF Pc
<1>4. w \in Holding /\ (w \in Admitted <=> pc[w] # "discard")
  BY <1>1 DEF Holding, Admitted
<1>5. /\ Cardinality(Holding') = Cardinality(Holding) - 1
      /\ Cardinality(Admitted') = IF pc[w] = "discard" THEN Cardinality(Admitted)
                                  ELSE Cardinality(Admitted) - 1
      /\ Cardinality(Holding') \in Nat /\ Cardinality(Admitted') \in Nat
  BY <1>3, <1>4, FiniteCounted, FS_RemoveElement, FS_CardinalityType
<1>6. unfinished' = Cardinality(tasks) + Cardinality(Holding')
      /\ working' = Cardinality(Admitted')
  <2>1. /\ Cardinality(tasks) \in Nat /\ Cardinality(Holding) \in Nat
        /\ Cardinality(Admitted) \in Nat
    BY FiniteCounted
  <2>2. unfinished = Cardinality(tasks) + Cardinality(Holding)
        /\ working = Cardinality(Admitted)
    BY DEF Accounting
  <2> QED
    BY <1>1, <1>5, <2>1, <2>2
<1>7. unfinished' \in Nat /\ working' \in Nat
  BY <1>5, <1>6, FiniteCounted
<1>8. TypeOK' /\ Accounting'
  <2>1. TypeOK'
    BY <1>1, <1>3, <1>7 DEF TypeOK
  <2>2. Accounting'
    BY <1>1, <1>3, <1>6 DEF Accounting
  <2> QED
    BY <2>1, <2>2
<1>9. Fresh' /\ Queued' /\ Drained' /\ Attended'
  BY <1>1 DEF Fresh, Queued, Drained, Attended
<1>10. /\ ~Busy(w)' /\ ~Busy(w)
       /\ \A x \in Workers : x # w => pc'[x] = pc[x] /\ (Busy(x)' <=> Busy(x))
  BY <1>1, <1>2 DEF Busy, TypeOK
<1>11. Whereabouts'
  BY <1>1, <1>10 DEF Whereabouts
<1>12. Hands'
  BY <1>1, <1>10 DEF Hands
<1> QED
  BY <1>8, <1>9, <1>11, <1>12

\* kill() and set_max_workers(), up to the WorkerExits they are to put.
LEMMA AskInv ==
  ASSUME IInv, NEW k \in Kills, Kill(k) \/ SetMaxWorkers(k) \/ KillExcess(k)
  PROVE  IInv'
<1> USE DEF IInv
<1>1. UNCHANGED <<tasks, rank, sequence, unfinished, exit, killEvent, workers,
                  working, pc, item, nbTasks, status, waiting, earlier>>
  BY DEF Kill, SetMaxWorkers, KillExcess, pool
<1>2. workers \in 0 .. Cardinality(Workers) /\ Cardinality(Workers) \in Nat
  BY FiniteCounted DEF Accounting
<1>3. PICK p \in {"count", "put"}, nb \in 0 .. Cardinality(Workers) :
        killer' = [killer EXCEPT ![k] = [at |-> p, nb |-> nb]]
  <2>1. CASE Kill(k)
    <3>1. PICK nb \in 1 .. Cardinality(Workers) :
            killer' = [killer EXCEPT ![k] =
                         [at |-> "put", nb |-> Least(nb, workers)]]
      BY <2>1 DEF Kill
    <3>2. Least(nb, workers) \in 0 .. Cardinality(Workers)
      BY <1>2 DEF Least
    <3> QED
      BY <3>1, <3>2
  <2>2. CASE SetMaxWorkers(k)
    <3>1. PICK nb \in MaxChoices :
            killer' = [killer EXCEPT ![k] = [at |-> "count", nb |-> Excess(nb)]]
      BY <2>2 DEF SetMaxWorkers
    <3>2. Excess(nb) \in 0 .. Cardinality(Workers)
      BY <1>2, WorkersAssumption DEF Excess
    <3> QED
      BY <3>1, <3>2
  <2>3. CASE KillExcess(k)
    <3>1. killer[k].nb \in 0 .. Cardinality(Workers)
      BY DEF TypeOK
    <3>2. Least(killer[k].nb, workers) \in 0 .. Cardinality(Workers)
      BY <1>2, <3>1 DEF Least
    <3> QED
      BY <2>3, <3>2 DEF KillExcess
  <2> QED
    BY <2>1, <2>2, <2>3
<1>4. killer' \in [Kills -> [at : {"idle", "count", "put"},
                            nb : 0 .. Cardinality(Workers)]]
      /\ \A j \in Kills : j # k => killer'[j] = killer[j]
  BY <1>3 DEF TypeOK
<1>5. maxWorkers' \in 1 .. Cardinality(Workers)
  BY WorkersAssumption DEF Kill, SetMaxWorkers, KillExcess, pool, TypeOK
<1>6. TypeOK'
  BY <1>1, <1>4, <1>5 DEF TypeOK
<1>7. Accounting' /\ Queued' /\ Drained' /\ Attended' /\ Whereabouts' /\ Hands'
  BY <1>1 DEF Accounting, Live, Admitted, Holding, Queued, Drained, Attended,
              Whereabouts, Hands, Busy
<1>8. killer[k].at # "put"
  BY DEF Kill, SetMaxWorkers, KillExcess
<1>9. Fresh'
  BY <1>1, <1>4, <1>8 DEF Fresh
<1> QED
  BY <1>6, <1>7, <1>9

\* One WorkerExit is put, or given up because the pool is stopped.
LEMMA KillPutInv ==
  ASSUME IInv, NEW k \in Kills, KillPut(k)
  PROVE  IInv'
<1> USE DEF IInv
<1>1. /\ killer[k].at = "put" /\ killer[k].nb > 0
      /\ UNCHANGED <<exit, killEvent, workers, working, maxWorkers, pc, item,
                     nbTasks, status, waiting, earlier>>
  BY DEF KillPut
<1>2. killer[k].nb \in 1 .. Cardinality(Workers)
      /\ killer[k] \in [at : {"idle", "count", "put"},
                        nb : 0 .. Cardinality(Workers)]
      /\ Cardinality(Workers) \in Nat
  BY <1>1, FiniteCounted DEF TypeOK
<1>3. Admitted' = Admitted /\ Holding' = Holding /\ Live' = Live
  BY <1>1 DEF Admitted, Holding, Live
<1>4. PICK n \in 0 .. Cardinality(Workers) :
        /\ n < killer[k].nb
        /\ killer' = [killer EXCEPT ![k].nb = n]
  <2>1. killer[k].nb - 1 \in 0 .. Cardinality(Workers)
        /\ killer[k].nb - 1 < killer[k].nb
        /\ 0 \in 0 .. Cardinality(Workers)
    BY <1>2
  <2> QED
    BY <1>1, <2>1 DEF KillPut
<1>5. killer' \in [Kills -> [at : {"idle", "count", "put"},
                            nb : 0 .. Cardinality(Workers)]]
      /\ killer'[k].at = "put" /\ killer'[k].nb = n
      /\ \A j \in Kills : j # k => killer'[j] = killer[j]
  BY <1>1, <1>4 DEF TypeOK
<1>6. CASE ~exit /\ Enqueue(<<k, killer[k].nb>>, FALSE)
  <2> DEFINE i == <<k, killer[k].nb>>
  <2>1. i \in Exits /\ i \in Items /\ i \notin Tasks /\ i \notin tasks
    BY <1>2, ItemsAssumption DEF Exits, Items, Fresh
  <2>2. /\ tasks' = tasks \cup {i} /\ tasks' \subseteq Items
        /\ rank' \in [Items -> Nat] /\ sequence' \in Nat
        /\ unfinished' = unfinished + 1 /\ unfinished' \in Nat
        /\ Cardinality(tasks') = Cardinality(tasks) + 1
    BY <1>6, <2>1, EnqueueCounted
  <2>3. TypeOK'
    BY <1>1, <1>5, <2>2 DEF TypeOK
  <2>4. Accounting'
    <3>1. Cardinality(tasks) \in Nat /\ Cardinality(Holding) \in Nat
      BY FiniteCounted
    <3>2. unfinished' = Cardinality(tasks') + Cardinality(Holding')
      BY <1>3, <2>2, <3>1 DEF Accounting
    <3> QED
      BY <1>1, <1>3, <3>2 DEF Accounting
  <2>5. Fresh'
    <3> SUFFICES ASSUME NEW j \in Kills, NEW m \in 1 .. Cardinality(Workers),
                        <<j, m>> \in tasks'
                 PROVE  killer'[j].at = "put" /\ m > killer'[j].nb
      BY DEF Fresh
    <3>1. CASE j = k
      <4>1. m = killer[k].nb \/ <<j, m>> \in tasks
        BY <2>2
      <4>2. m >= killer[k].nb
        BY <1>2, <3>1, <4>1 DEF Fresh
      <4> QED
        BY <1>2, <1>4, <1>5, <3>1, <4>2
    <3>2. CASE j # k
      BY <1>5, <2>2, <3>2 DEF Fresh
    <3> QED
      BY <3>1, <3>2
  <2>6. Queued' /\ Drained' /\ Attended'
    BY <1>1, <1>6, <2>1, <2>2 DEF Queued, Drained, Attended
  <2>7. Whereabouts' /\ Hands'
    BY <1>1, <2>1, <2>2 DEF Whereabouts, Hands, Busy
  <2> QED
    BY <2>3, <2>4, <2>5, <2>6, <2>7
<1>7. CASE UNCHANGED <<tasks, unfinished, rank, sequence>>
  <2>1. TypeOK' /\ Accounting'
    BY <1>1, <1>3, <1>5, <1>7 DEF TypeOK, Accounting
  <2>2. Fresh'
    <3> SUFFICES ASSUME NEW j \in Kills, NEW m \in 1 .. Cardinality(Workers),
                        <<j, m>> \in tasks
                 PROVE  killer'[j].at = "put" /\ m > killer'[j].nb
      BY <1>7 DEF Fresh
    <3>1. killer[j].at = "put" /\ m > killer[j].nb
      BY DEF Fresh
    <3>2. CASE j = k
      BY <1>2, <1>4, <1>5, <3>1, <3>2
    <3> QED
      BY <1>5, <3>1, <3>2
  <2>3. Queued' /\ Drained' /\ Attended' /\ Whereabouts' /\ Hands'
    BY <1>1, <1>7 DEF Queued, Drained, Attended, Whereabouts, Hands, Busy
  <2> QED
    BY <2>1, <2>2, <2>3
<1> QED
  BY <1>6, <1>7 DEF KillPut

\* killall() drains the queue.
LEMMA KillAllInv ==
  ASSUME IInv, NEW c \in Stoppers \cup Workers, NEW wait \in BOOLEAN,
         KillAll(c, wait)
  PROVE  IInv'
<1> USE DEF IInv
<1>1. /\ exit' = TRUE /\ tasks' = {}
      /\ status' = [t \in Tasks |-> IF t \in tasks THEN "cancelled" ELSE status[t]]
      /\ unfinished' = unfinished - Cardinality(tasks)
      /\ UNCHANGED <<sequence, killEvent, workers, working, maxWorkers, pc, item,
                     nbTasks, killer>>
  BY DEF KillAll
<1>2. Admitted' = Admitted /\ Holding' = Holding /\ Live' = Live
  BY <1>1 DEF Admitted, Holding, Live
<1>3. unfinished' = Cardinality(Holding) /\ unfinished' \in Nat
  <2>1. Cardinality(tasks) \in Nat /\ Cardinality(Holding) \in Nat
    BY FiniteCounted
  <2> QED
    BY <1>1, <2>1 DEF Accounting
<1>4. TypeOK'
  <2>1. rank' \in [Items -> Nat] /\ waiting' \subseteq Stoppers \cup Workers
        /\ earlier' \in [Tasks -> SUBSET Tasks]
    BY DEF KillAll, TypeOK
  <2>2. status' \in [Tasks -> Status]
    BY <1>1 DEF TypeOK, Status
  <2> QED
    BY <1>1, <1>3, <2>1, <2>2 DEF TypeOK
<1>5. Accounting'
  <2>1. Cardinality(tasks') = 0
    BY <1>1, FS_EmptySet
  <2>2. Cardinality(Holding) \in Nat
    BY FiniteCounted
  <2>3. unfinished' = Cardinality(tasks') + Cardinality(Holding')
    BY <1>2, <1>3, <2>1, <2>2
  <2> QED
    BY <1>1, <1>2, <2>3 DEF Accounting
<1>6. Fresh' /\ Queued' /\ Drained' /\ Attended'
  BY <1>1 DEF Fresh, Queued, Drained, Attended
<1>7. Whereabouts'
  BY <1>1 DEF Whereabouts
<1>8. Hands'
  BY <1>1 DEF Hands, Busy
<1> QED
  BY <1>4, <1>5, <1>6, <1>7, <1>8

\* killall() returns.
LEMMA KillAllReturnInv ==
  ASSUME IInv, NEW c \in Stoppers \cup Workers, KillAllReturn(c)
  PROVE  IInv'
<1> USE DEF IInv
<1>1. /\ UNCHANGED <<tasks, rank, sequence, unfinished, exit, killEvent, workers,
                     working, maxWorkers, pc, item, nbTasks, status, killer, earlier>>
      /\ waiting' \subseteq waiting
  BY DEF KillAllReturn, pool
<1>2. TypeOK'
  BY <1>1 DEF TypeOK
<1>3. Accounting' /\ Fresh' /\ Queued' /\ Drained' /\ Attended'
  BY <1>1 DEF Accounting, Live, Admitted, Holding, Fresh, Queued, Drained, Attended
<1>4. Whereabouts' /\ Hands'
  BY <1>1 DEF Whereabouts, Hands, Busy
<1> QED
  BY <1>2, <1>3, <1>4

\* Every step keeps the invariant.
LEMMA StepInv == IInv /\ [Next]_vars => IInv'
<1> SUFFICES ASSUME IInv, [Next]_vars PROVE IInv'
  OBVIOUS
<1>1. CASE UNCHANGED vars
  <2>1. UNCHANGED <<tasks, rank, sequence, unfinished, exit, killEvent, workers,
                    working, maxWorkers, pc, item, nbTasks, status, killer,
                    waiting, earlier>>
    BY <1>1 DEF vars, pool
  <2> QED
    BY <2>1 DEF IInv, TypeOK, Accounting, Live, Admitted, Holding, Fresh, Queued,
                Hands, Busy, Whereabouts, Drained, Attended
<1>2. ASSUME NEW t \in Tasks, Submit(t) PROVE IInv'
  BY <1>2, CallInv, PutRefusedInv, PutInv DEF Submit
<1>3. ASSUME NEW w \in Workers, Work(w) PROVE IInv'
  BY <1>3, LoopInv, GetInv, AdmitInv, LeaveInv, GrowInv, StartBodyInv,
     FinishBodyInv, AckInv, RetireInv DEF Work
<1>4. ASSUME NEW k \in Kills, Control(k) PROVE IInv'
  BY <1>4, AskInv, KillPutInv DEF Control
<1>5. ASSUME NEW nb \in 1 .. Cardinality(Workers), Add(nb) PROVE IInv'
  BY <1>5, AddInv
<1>6. ASSUME NEW c \in Stoppers \cup Workers,
             KillAllReturn(c) \/ \E wait \in BOOLEAN : KillAll(c, wait)
      PROVE  IInv'
  BY <1>6, KillAllInv, KillAllReturnInv
<1> QED
  BY <1>1, <1>2, <1>3, <1>4, <1>5, <1>6 DEF Next

\* The inductive invariant of the pool.
THEOREM Invariant == Spec => []IInv
BY InitInv, StepInv, PTL DEF Spec

-----------------------------------------------------------------------------
(* What follows from it.                                                   *)

\* The variables of the pool keep their types.
THEOREM TypeCorrect == Spec => []TypeOK
BY Invariant, PTL DEF IInv

\* workers, working, unfinished_tasks and kill_event say what the threads and
\* the queue are, whatever starts fail and callables raise.
THEOREM CountersAreRight == Spec => []Accounting
BY Invariant, PTL DEF IInv

\* No unfinished task: nothing queued, nothing in a hand.
LEMMA NothingLeft ==
  ASSUME IInv, unfinished = 0
  PROVE  /\ tasks = {} /\ Holding = {}
         /\ \A t \in Tasks : status[t] \notin {"accepted", "claimed", "running"}
<1>1. Cardinality(tasks) \in Nat /\ Cardinality(Holding) \in Nat
      /\ IsFiniteSet(tasks) /\ IsFiniteSet(Holding)
  BY FiniteCounted DEF IInv
<1>2. Cardinality(tasks) = 0 /\ Cardinality(Holding) = 0
  BY <1>1 DEF IInv, Accounting
<1>3. tasks = {} /\ Holding = {}
  BY <1>1, <1>2, FS_EmptySet
<1>4. \A w \in Workers : pc[w] \notin {"got", "grow", "body", "running"}
  BY <1>3 DEF Holding, Admitted
<1> QED
  BY <1>3, <1>4 DEF IInv, Whereabouts

\* killable() tells the truth about every accepted task, those between their
\* dequeue and their admission included.
THEOREM KillableMeansIdle == Spec => []KillableIsIdle
<1>1. IInv => KillableIsIdle
  <2> SUFFICES ASSUME IInv, unfinished = 0, NEW t \in Tasks
               PROVE  status[t] \in {"new", "putting"} \cup Settled
    BY DEF KillableIsIdle, Killable
  <2>1. status[t] \in Status
    BY DEF IInv, TypeOK
  <2> QED
    BY <2>1, NothingLeft DEF Status, Settled
<1> QED
  BY <1>1, Invariant, PTL

\* kill_event is set when no thread is left.
LEMMA NoneLive == ASSUME IInv, killEvent PROVE Live = {}
<1>1. IsFiniteSet(Live) /\ Cardinality(Live) = 0
  BY FiniteCounted DEF IInv, Accounting
<1> QED
  BY <1>1, FS_EmptySet

\* When killall(None) may return, the pool is over.
THEOREM StoppedMeansQuiet == Spec => []StoppedIsQuiet
<1>1. IInv => StoppedIsQuiet
  <2> SUFFICES ASSUME IInv, exit, killEvent
               PROVE  /\ Live = {} /\ tasks = {} /\ unfinished = 0
                      /\ \A t \in Tasks :
                           status[t] \notin {"accepted", "claimed", "running"}
    BY DEF StoppedIsQuiet
  <2>1. Live = {}
    BY NoneLive
  <2>2. tasks = {} /\ Holding = {}
    BY <2>1 DEF IInv, Drained, Live, Holding, Admitted
  <2>3. unfinished = 0
    BY <2>2, FS_EmptySet DEF IInv, Accounting
  <2> QED
    BY <2>1, <2>2, <2>3, NothingLeft
<1> QED
  BY <1>1, Invariant, PTL

\* And it stays over: no call and no thread starts a worker any more.
THEOREM StoppedForGood == Spec => StopIsFinal
<1>1. IInv /\ [Next]_vars => (exit /\ killEvent => exit' /\ killEvent')
  <2> SUFFICES ASSUME IInv, [Next]_vars, exit, killEvent
               PROVE  exit' /\ killEvent'
    OBVIOUS
  <2>1. \A w \in Workers : pc[w] = "absent"
    BY NoneLive DEF Live
  <2>2. CASE UNCHANGED vars
    BY <2>2 DEF vars, pool
  <2>3. ASSUME NEW t \in Tasks, Submit(t) PROVE exit' /\ killEvent'
    BY <2>3 DEF Submit, Call, PutRefused, Put, pool
  <2>4. ASSUME NEW w \in Workers, Work(w) PROVE FALSE
    BY <2>1, <2>4
       DEF Work, Loop, Get, GetTimeout, Admit, Leave, Grow, StartBody,
           FinishBody, Ack, Discard, Retire
  <2>5. ASSUME NEW k \in Kills, Control(k) PROVE exit' /\ killEvent'
    BY <2>5 DEF Control, Kill, SetMaxWorkers, KillExcess, KillPut, pool
  <2>6. ASSUME NEW nb \in 1 .. Cardinality(Workers), Add(nb) PROVE FALSE
    BY <2>6 DEF Add, AddAllowed
  <2>7. ASSUME NEW c \in Stoppers \cup Workers,
               KillAllReturn(c) \/ \E wait \in BOOLEAN : KillAll(c, wait)
        PROVE  exit' /\ killEvent'
    BY <2>7 DEF KillAllReturn, KillAll, pool
  <2> QED
    BY <2>2, <2>3, <2>4, <2>5, <2>6, <2>7 DEF Next
<1> QED
  BY <1>1, Invariant, PTL DEF Spec, StopIsFinal

\* When threads start, a queued task always has a worker to run it.
THEOREM QueuedIsAttended == Spec => []Attended
BY Invariant, PTL DEF IInv

-----------------------------------------------------------------------------
(* WorkerPool implements PoolContract.                                     *)

\* One task changes in the eyes of the contract, and no other.
LEMMA OneChange ==
  ASSUME NEW t \in Tasks, NEW s, ContractState'[t] = s,
         \A u \in Tasks : u # t => status'[u] = status[u]
  PROVE  ContractState' = [ContractState EXCEPT ![t] = s]
BY DEF ContractState

\* The steps of a submission: pending, then accepted or refused.
LEMMA SubmitContract ==
  ASSUME IInv, NEW t \in Tasks, Submit(t)
  PROVE  [Contract!Next]_<<ContractState, exit>>
<1> USE DEF IInv, TypeOK
<1>1. CASE Call(t)
  BY <1>1 DEF Call, ContractState
<1>2. CASE PutRefused(t)
  <2>1. ContractState[t] = "pending" /\ exit' = exit
    BY <1>2 DEF PutRefused, ContractState, pool
  <2>2. ContractState' = [ContractState EXCEPT ![t] = "refused"]
    <3>1. status'[t] = "refused" /\ \A u \in Tasks : u # t => status'[u] = status[u]
      BY <1>2 DEF PutRefused
    <3>2. ContractState'[t] = "refused"
      BY <3>1 DEF ContractState
    <3> QED
      BY <3>1, <3>2, OneChange
  <2> QED
    BY <2>1, <2>2 DEF Contract!Next, Contract!Refuse, Contract!Change
<1>3. CASE Put(t)
  <2>1. ContractState[t] = "pending" /\ exit' = exit /\ ~exit
    BY <1>3 DEF Put, ContractState
  <2>2. CASE status' = [status EXCEPT ![t] = "accepted"]
    <3>1. status'[t] = "accepted" /\ \A u \in Tasks : u # t => status'[u] = status[u]
      BY <2>2
    <3>2. ContractState'[t] = "accepted"
      BY <3>1 DEF ContractState
    <3>3. ContractState' = [ContractState EXCEPT ![t] = "accepted"]
      BY <3>1, <3>2, OneChange
    <3> QED
      BY <2>1, <3>3 DEF Contract!Next, Contract!Accept, Contract!Change
  <2>3. CASE status' = status
    BY <2>1, <2>3 DEF ContractState
  <2> QED
    BY <1>3, <2>2, <2>3 DEF Put
<1> QED
  BY <1>1, <1>2, <1>3 DEF Submit

\* The steps of a worker: a task is begun, finished, or left after a stop.
LEMMA WorkContract ==
  ASSUME IInv, NEW w \in Workers, Work(w)
  PROVE  [Contract!Next]_<<ContractState, exit>>
<1> USE DEF IInv, TypeOK
<1>1. CASE Admit(w)
  <2>1. /\ item[w] \in Tasks /\ status[item[w]] = "accepted" /\ ~exit /\ exit' = exit
        /\ status' = [status EXCEPT ![item[w]] = "claimed"]
    BY <1>1 DEF Admit, LeavesItem, Hands, Busy, StatusAt, Items
  <2>2. /\ status'[item[w]] = "claimed"
        /\ \A u \in Tasks : u # item[w] => status'[u] = status[u]
    BY <2>1
  <2>3. ContractState[item[w]] = "accepted" /\ ContractState'[item[w]] = "begun"
    BY <2>1, <2>2 DEF ContractState
  <2>4. ContractState' = [ContractState EXCEPT ![item[w]] = "begun"]
    BY <2>1, <2>2, <2>3, OneChange
  <2> QED
    BY <2>1, <2>3, <2>4 DEF Contract!Next, Contract!Begin, Contract!Change
<1>2. CASE Leave(w) /\ item[w] \in Tasks
  <2>1. /\ status[item[w]] = "accepted" /\ exit /\ exit' = exit
        /\ status' = [t \in Tasks |-> IF t = item[w] THEN "cancelled" ELSE status[t]]
    BY <1>2, ItemsAssumption
       DEF Leave, LeavesItem, Hands, Busy, StatusAt, pool
  <2>2. /\ status'[item[w]] = "cancelled"
        /\ \A u \in Tasks : u # item[w] => status'[u] = status[u]
    BY <1>2, <2>1
  <2>3. ContractState[item[w]] = "accepted" /\ ContractState'[item[w]] = "cancelled"
    BY <1>2, <2>1, <2>2 DEF ContractState
  <2>4. ContractState' = [ContractState EXCEPT ![item[w]] = "cancelled"]
    BY <1>2, <2>2, <2>3, OneChange
  <2> QED
    BY <1>2, <2>1, <2>3, <2>4 DEF Contract!Next, Contract!Cancel, Contract!Change
<1>3. CASE Leave(w) /\ item[w] \notin Tasks
  <2>1. exit' = exit /\ \A u \in Tasks : status'[u] = status[u]
    BY <1>3 DEF Leave, pool
  <2> QED
    BY <2>1 DEF ContractState
<1>4. CASE StartBody(w)
  <2>1. /\ item[w] \in Tasks /\ status[item[w]] = "claimed" /\ exit' = exit
        /\ status' = [status EXCEPT ![item[w]] = "running"]
    BY <1>4 DEF StartBody, Hands, Busy, StatusAt, pool
  <2>2. \A u \in Tasks : ContractState'[u] = ContractState[u]
    BY <2>1 DEF ContractState
  <2> QED
    BY <2>1, <2>2 DEF ContractState
<1>5. CASE FinishBody(w)
  <2>1. /\ item[w] \in Tasks /\ status[item[w]] = "running" /\ exit' = exit
        /\ status' = [status EXCEPT ![item[w]] = "done"]
    BY <1>5 DEF FinishBody, Hands, Busy, StatusAt, pool
  <2>2. /\ status'[item[w]] = "done"
        /\ \A u \in Tasks : u # item[w] => status'[u] = status[u]
    BY <2>1
  <2>3. ContractState[item[w]] = "begun" /\ ContractState'[item[w]] = "done"
    BY <2>1, <2>2 DEF ContractState
  <2>4. ContractState' = [ContractState EXCEPT ![item[w]] = "done"]
    BY <2>1, <2>2, <2>3, OneChange
  <2> QED
    BY <2>1, <2>3, <2>4 DEF Contract!Next, Contract!Finish, Contract!Change
<1>6. ASSUME UNCHANGED <<status, exit>> PROVE [Contract!Next]_<<ContractState, exit>>
  BY <1>6 DEF ContractState
<1> QED
  BY <1>1, <1>2, <1>3, <1>4, <1>5, <1>6
     DEF Work, Loop, Get, GetTimeout, Grow, Ack, Discard, Retire, pool

\* killall() is a stop that cancels what is queued.
LEMMA StopContract ==
  ASSUME IInv, NEW c \in Stoppers \cup Workers, NEW wait \in BOOLEAN,
         KillAll(c, wait)
  PROVE  [Contract!Next]_<<ContractState, exit>>
<1> USE DEF IInv, TypeOK
<1> DEFINE C == tasks \cap Tasks
<1>1. /\ exit' = TRUE
      /\ status' = [t \in Tasks |-> IF t \in C THEN "cancelled" ELSE status[t]]
  BY DEF KillAll
<1>2. C \in SUBSET {t \in Tasks : ContractState[t] = "accepted"}
  BY DEF Queued, ContractState
<1>3. ContractState' = [t \in Tasks |-> IF t \in C THEN "cancelled"
                                       ELSE ContractState[t]]
  <2>1. \A t \in Tasks : status'[t] = IF t \in C THEN "cancelled" ELSE status[t]
    BY <1>1
  <2>2. \A t \in Tasks : ContractState'[t] = IF t \in C THEN "cancelled"
                                             ELSE ContractState[t]
    BY <2>1 DEF ContractState
  <2> QED
    BY <2>2 DEF ContractState
<1> QED
  BY <1>1, <1>2, <1>3 DEF Contract!Next, Contract!Stop

\* The pool implements its contract, whatever kills, failed starts, recycled
\* workers and raising callables come in between.
THEOREM ContractKept == Spec => KeepsContract
<1>1. Init => Contract!Init
  BY DEF Init, Contract!Init, ContractState
<1>2. IInv /\ [Next]_vars => [Contract!Next]_<<ContractState, exit>>
  <2> SUFFICES ASSUME IInv, [Next]_vars
               PROVE  [Contract!Next]_<<ContractState, exit>>
    OBVIOUS
  <2>1. ASSUME UNCHANGED <<status, exit>>
        PROVE  [Contract!Next]_<<ContractState, exit>>
    BY <2>1 DEF ContractState
  <2>2. CASE UNCHANGED vars
    BY <2>1, <2>2 DEF vars, pool
  <2>3. ASSUME NEW t \in Tasks, Submit(t)
        PROVE  [Contract!Next]_<<ContractState, exit>>
    BY <2>3, SubmitContract
  <2>4. ASSUME NEW w \in Workers, Work(w)
        PROVE  [Contract!Next]_<<ContractState, exit>>
    BY <2>4, WorkContract
  <2>5. ASSUME NEW k \in Kills, Control(k)
        PROVE  [Contract!Next]_<<ContractState, exit>>
    BY <2>1, <2>5 DEF Control, Kill, SetMaxWorkers, KillExcess, KillPut, pool
  <2>6. ASSUME NEW nb \in 1 .. Cardinality(Workers), Add(nb)
        PROVE  [Contract!Next]_<<ContractState, exit>>
    BY <2>1, <2>6 DEF Add
  <2>7. ASSUME NEW c \in Stoppers \cup Workers,
               KillAllReturn(c) \/ \E wait \in BOOLEAN : KillAll(c, wait)
        PROVE  [Contract!Next]_<<ContractState, exit>>
    <3>1. CASE KillAllReturn(c)
      BY <2>1, <3>1 DEF KillAllReturn, pool
    <3> QED
      BY <2>7, <3>1, StopContract
  <2> QED
    BY <2>2, <2>3, <2>4, <2>5, <2>6, <2>7 DEF Next
<1> QED
  BY <1>1, <1>2, Invariant, PTL
     DEF Spec, KeepsContract, Contract!Spec, Contract!cvars

-----------------------------------------------------------------------------
(* The limit: while workers outnumber it, enough of them are leaving or    *)
(* have a WorkerExit to come.  Each WorkerExit is owed to the kill call    *)
(* that has it to put, then in the queue, then in a hand, and its worker   *)
(* leaves with it: LimitInv says that none is dropped on the way.          *)

Leaving == {w \in Workers : pc[w] \in {"discard", "ackDie", "exit"}}

Owed == {x \in Exits : \/ x \in tasks
                       \/ \E w \in Workers : item[w] = x
                       \/ x[2] <= killer[x[1]].nb}

Covered == ~exit => workers <= maxWorkers + Cardinality(Leaving) + Cardinality(Owed)

\* A hand is empty but between get() and the end of the callable
Empty == \A w \in Workers : ~Busy(w) => item[w] = NoItem

\* A kill call that was not made owes nothing
Unmade == \A k \in Kills : killer[k].at = "idle" => killer[k].nb = 0

LimitInv == Empty /\ Unmade /\ Covered

LEMMA FiniteLimit ==
  ASSUME NEW L \in SUBSET Workers, NEW O \in SUBSET Exits
  PROVE  /\ IsFiniteSet(L) /\ Cardinality(L) \in Nat
         /\ IsFiniteSet(O) /\ Cardinality(O) \in Nat
<1>1. IsFiniteSet(Exits)
  BY FiniteItems, FS_Subset DEF Items
<1> QED
  BY <1>1, WorkersAssumption, FS_Subset, FS_CardinalityType

LEMMA Limits ==
  ASSUME TypeOK
  PROVE  Cardinality(Workers) \in Nat /\ workers \in Nat /\ maxWorkers \in Nat
<1>1. Cardinality(Workers) \in Nat
  BY WorkersAssumption, FS_CardinalityType
<1> QED
  BY <1>1 DEF TypeOK

LEMMA LimitSets ==
  /\ Leaving \in SUBSET Workers /\ Leaving' \in SUBSET Workers
  /\ Owed \in SUBSET Exits /\ Owed' \in SUBSET Exits
BY DEF Leaving, Owed

\* A step after which no fewer are leaving or owed, and no more are too many
LEMMA StillCovered ==
  ASSUME TypeOK, TypeOK', Covered, exit => exit',
         Leaving \subseteq Leaving', Owed \subseteq Owed',
         \/ workers' <= workers /\ maxWorkers' = maxWorkers
         \/ workers' <= maxWorkers'
  PROVE  Covered'
<1>1. /\ Cardinality(Leaving) <= Cardinality(Leaving')
      /\ Cardinality(Owed) <= Cardinality(Owed')
  BY LimitSets, FiniteLimit, FS_Subset
<1>2. /\ Cardinality(Leaving) \in Nat /\ Cardinality(Leaving') \in Nat
      /\ Cardinality(Owed) \in Nat /\ Cardinality(Owed') \in Nat
  BY LimitSets, FiniteLimit
<1>3. /\ workers \in Nat /\ workers' \in Nat /\ maxWorkers \in Int /\ maxWorkers' \in Int
  BY DEF TypeOK
<1> QED
  BY <1>1, <1>2, <1>3 DEF Covered

\* The workers that a kill call has still to end
LEMMA OwedBy ==
  ASSUME TypeOK', NEW k \in Kills, NEW n \in 0 .. Cardinality(Workers), killer'[k].nb = n
  PROVE  n <= Cardinality(Owed')
<1> DEFINE O == {k} \X (1 .. n)
<1>1. Cardinality(Workers) \in Nat /\ n \in Nat
  BY WorkersAssumption, FS_CardinalityType
<1>2. O \subseteq Owed'
  <2> SUFFICES ASSUME NEW i \in 1 .. n PROVE <<k, i>> \in Owed'
    OBVIOUS
  <2>1. <<k, i>> \in Exits /\ <<k, i>>[1] = k /\ <<k, i>>[2] = i /\ i <= n
    BY <1>1 DEF Exits
  <2> QED
    BY <2>1 DEF Owed
<1>3. Cardinality(O) = n
  <2>1. IsFiniteSet(1 .. n) /\ Cardinality(1 .. n) = n
    BY <1>1, FS_Interval
  <2>2. IsFiniteSet({k}) /\ Cardinality({k}) = 1
    BY FS_Singleton
  <2>3. Cardinality(O) = 1 * n
    BY <2>1, <2>2, FS_Product
  <2> QED
    BY <1>1, <2>3
<1>4. Cardinality(O) <= Cardinality(Owed')
  BY <1>2, LimitSets, FiniteLimit, FS_Subset
<1> QED
  BY <1>3, <1>4

\* Threads that start end up within the limit
LEMMA Within ==
  ASSUME TypeOK, NEW nb, NEW n \in Int, NEW A, NEW S \in AddSets(nb, n, A), Start(S, n)
  PROVE  (S # {} => workers' <= maxWorkers) /\ (S = {} => workers' = n)
<1>1. S = {} => Cardinality(S) = 0
  BY FS_EmptySet
<1> QED
  BY <1>1 DEF AddSets, Start

\* A step that takes a WorkerExit neither from the queue nor from a hand nor from a
\* kill call owes no less
LEMMA OwedGrows ==
  ASSUME tasks \cap Exits \subseteq tasks',
         \A w \in Workers : item[w] \in Exits => item'[w] = item[w],
         \A k \in Kills : killer'[k] = killer[k]
  PROVE  Owed \subseteq Owed'
<1>1. \A x \in Exits : x[1] \in Kills
  BY DEF Exits
<1> QED
  BY <1>1 DEF Owed

LEMMA TaskIsNoExit == \A t \in Tasks : t \notin Exits
BY ItemsAssumption

LEMMA LimitBegins == Init => LimitInv
<1> SUFFICES ASSUME Init PROVE LimitInv
  OBVIOUS
<1>1. Empty /\ Unmade
  BY DEF Init, Empty, Unmade
<1>2. workers = 0 /\ maxWorkers \in Nat
  BY WorkersAssumption, FS_CardinalityType DEF Init
<1>3. Cardinality(Leaving) \in Nat /\ Cardinality(Owed) \in Nat
  BY LimitSets, FiniteLimit
<1>4. Covered
  BY <1>2, <1>3 DEF Covered
<1> QED
  BY <1>1, <1>4 DEF LimitInv

\* Submissions
LEMMA SubmitLimit ==
  ASSUME IInv, IInv', LimitInv, NEW t \in Tasks, Submit(t)
  PROVE  LimitInv'
<1>t. TypeOK /\ TypeOK'
  BY DEF IInv
<1>1. UNCHANGED <<exit, maxWorkers, item, killer>> /\ tasks \subseteq tasks'
  BY DEF Submit, Call, PutRefused, Put, Enqueue, pool
<1>2. Owed \subseteq Owed'
  BY <1>1, OwedGrows
<1>3. /\ \A w \in Workers : pc'[w] = pc[w] \/ (pc[w] = "absent" /\ pc'[w] = "top")
      /\ workers' = workers \/ workers' <= maxWorkers
  <2>1. CASE Call(t) \/ PutRefused(t)
    BY <2>1 DEF Call, PutRefused, pool
  <2>2. CASE Put(t)
    <3>1. PICK S \in IF NeedsWorker THEN AddSets(1, 0, Absent) \ {{}} ELSE {{}} :
            /\ Start(S, workers)
            /\ pc' = [x \in Workers |-> IF x \in S THEN "top" ELSE pc[x]]
      BY <2>2 DEF Put
    <3>2. CASE NeedsWorker
      <4>1. S \in AddSets(1, 0, Absent) /\ workers = 0 /\ S # {}
        BY <3>1, <3>2 DEF NeedsWorker
      <4>2. workers' <= maxWorkers
        BY <1>t, <3>1, <4>1, Within
      <4>3. S \subseteq Absent
        BY <4>1 DEF AddSets
      <4> QED
        BY <3>1, <4>2, <4>3 DEF Absent, Live
    <3>3. CASE ~NeedsWorker
      <4>1. S = {} /\ Cardinality(S) = 0
        BY <3>1, <3>3, FS_EmptySet
      <4> QED
        BY <1>t, <3>1, <4>1 DEF Start, TypeOK
    <3> QED
      BY <3>2, <3>3
  <2> QED
    BY <2>1, <2>2 DEF Submit
<1>4. Leaving \subseteq Leaving'
  BY <1>3 DEF Leaving
<1>5. Covered'
  BY <1>t, <1>1, <1>2, <1>3, <1>4, StillCovered DEF LimitInv, TypeOK
<1>6. Empty' /\ Unmade'
  BY <1>1, <1>3 DEF LimitInv, Empty, Unmade, Busy
<1> QED
  BY <1>5, <1>6 DEF LimitInv

\* Workers between two items, and those that take one, work on it or leave
LEMMA WorkLimit ==
  ASSUME IInv, IInv', LimitInv, NEW w \in Workers, Work(w), ~Retire(w), ~Grow(w)
  PROVE  LimitInv'
<1>t. TypeOK /\ TypeOK'
  BY DEF IInv
<1>u. UNCHANGED <<exit, maxWorkers, killer, workers>>
  BY DEF Work, Loop, Get, GetTimeout, Admit, Leave, StartBody, FinishBody, Ack, Discard, pool
<1>1. CASE Loop(w) \/ GetTimeout(w) \/ Admit(w) \/ StartBody(w) \/ Ack(w) \/ Discard(w)
  <2>1. UNCHANGED <<tasks, item>>
    BY <1>1 DEF Loop, GetTimeout, Admit, StartBody, Ack, Discard, pool
  <2>2. \E p \in Pc : /\ pc' = [pc EXCEPT ![w] = p]
                      /\ pc[w] \in {"discard", "ackDie", "exit"} => p = "exit"
                      /\ pc[w] \in {"got", "body"} <=> p \in {"grow", "body", "running"}
                      /\ p # "got" /\ pc[w] \notin {"grow", "running"}
    BY <1>1 DEF Loop, GetTimeout, Admit, StartBody, Ack, Discard, Pc
  <2>3. Leaving \subseteq Leaving'
    BY <1>t, <2>2 DEF Leaving, TypeOK
  <2>4. \A x \in Workers : Busy(x)' <=> Busy(x)
    BY <1>t, <2>2 DEF Busy, TypeOK
  <2>5. Owed \subseteq Owed'
    BY <1>u, <2>1, OwedGrows
  <2>6. Covered'
    BY <1>t, <1>u, <2>3, <2>5, StillCovered DEF LimitInv, TypeOK
  <2> QED
    BY <1>u, <2>1, <2>4, <2>6 DEF LimitInv, Empty, Unmade
<1>2. CASE Get(w)
  <2>1. PICK i \in tasks : tasks' = tasks \ {i} /\ item' = [item EXCEPT ![w] = i]
    BY <1>2 DEF Get
  <2>2. pc[w] = "get" /\ pc' = [pc EXCEPT ![w] = "got"]
    BY <1>2 DEF Get
  <2>3. item[w] = NoItem
    BY <2>2 DEF LimitInv, Empty, Busy
  <2>4. item'[w] = i /\ \A x \in Workers : item[x] \in Exits => item'[x] = item[x]
    BY <1>t, <2>1, <2>3, ItemsAssumption DEF TypeOK, Items
  <2>5. Owed \subseteq Owed'
    BY <1>u, <2>1, <2>4 DEF Owed
  <2>6. Leaving \subseteq Leaving'
    BY <2>2 DEF Leaving
  <2>7. Covered'
    BY <1>t, <1>u, <2>5, <2>6, StillCovered DEF LimitInv, TypeOK
  <2>8. Empty'
    BY <1>t, <2>1, <2>2 DEF LimitInv, Empty, Busy, TypeOK
  <2> QED
    BY <1>u, <2>7, <2>8 DEF LimitInv, Unmade
<1>3. CASE FinishBody(w)
  <2>1. /\ pc[w] = "running" /\ item' = [item EXCEPT ![w] = NoItem] /\ tasks' = tasks
        /\ \E p \in {"ack", "ackDie"} : pc' = [pc EXCEPT ![w] = p]
    BY <1>3 DEF FinishBody, pool
  <2>2. item[w] \notin Exits
    BY <2>1, TaskIsNoExit DEF IInv, Hands, Busy
  <2>3. Owed \subseteq Owed'
    BY <1>u, <2>1, <2>2, OwedGrows
  <2>4. Leaving \subseteq Leaving'
    BY <2>1 DEF Leaving
  <2>5. Covered'
    BY <1>t, <1>u, <2>3, <2>4, StillCovered DEF LimitInv, TypeOK
  <2>6. Empty'
    BY <1>t, <2>1 DEF LimitInv, Empty, Busy, TypeOK
  <2> QED
    BY <1>u, <2>5, <2>6 DEF LimitInv, Unmade
<1>4. CASE Leave(w)
  <2>1. /\ pc[w] = "got" /\ item' = [item EXCEPT ![w] = NoItem] /\ tasks' = tasks
        /\ pc' = [pc EXCEPT ![w] = "discard"]
    BY <1>4 DEF Leave, pool
  <2>2. Owed \subseteq Owed' \cup {item[w]}
    BY <1>t, <1>u, <2>1 DEF Owed, TypeOK
  <2>3. Leaving' = Leaving \cup {w} /\ w \notin Leaving
    BY <1>t, <2>1 DEF Leaving, TypeOK
  <2>4. Cardinality(Leaving') = Cardinality(Leaving) + 1
    BY <2>3, LimitSets, FiniteLimit, FS_AddElement
  <2>5. Cardinality(Owed) <= Cardinality(Owed') + 1
    <3>1. IsFiniteSet(Owed') /\ Cardinality(Owed') \in Nat /\ Cardinality(Owed) \in Nat
      BY LimitSets, FiniteLimit
    <3>2. /\ IsFiniteSet(Owed' \cup {item[w]})
          /\ Cardinality(Owed' \cup {item[w]}) \in {Cardinality(Owed'), Cardinality(Owed') + 1}
      BY <3>1, FS_AddElement
    <3>3. Cardinality(Owed) <= Cardinality(Owed' \cup {item[w]})
      BY <2>2, <3>2, FS_Subset
    <3> QED
      BY <3>1, <3>2, <3>3
  <2>6. /\ Cardinality(Leaving) \in Nat /\ Cardinality(Owed) \in Nat
        /\ Cardinality(Owed') \in Nat /\ workers \in Nat /\ maxWorkers \in Nat
    BY <1>t, Limits, LimitSets, FiniteLimit
  <2>7. Covered'
    BY <1>u, <2>4, <2>5, <2>6 DEF LimitInv, Covered
  <2>8. Empty'
    BY <1>t, <2>1 DEF LimitInv, Empty, Busy, TypeOK
  <2> QED
    BY <1>u, <2>7, <2>8 DEF LimitInv, Unmade
<1> QED
  BY <1>1, <1>2, <1>3, <1>4 DEF Work

\* add(), by a caller or by a worker that has just admitted a task
LEMMA AddLimit ==
  ASSUME IInv, IInv', LimitInv,
         (\E nb \in 1 .. Cardinality(Workers) : Add(nb)) \/ (\E w \in Workers : Grow(w))
  PROVE  LimitInv'
<1>t. TypeOK /\ TypeOK'
  BY DEF IInv
<1>1. UNCHANGED <<exit, maxWorkers, killer, tasks, item>>
  BY DEF Add, Grow
<1> DEFINE Steps == \A w \in Workers : \/ pc'[w] = pc[w]
                                       \/ pc[w] = "absent" /\ pc'[w] = "top"
                                       \/ pc[w] = "grow" /\ pc'[w] = "body"
           Fits  == workers' = workers \/ workers' <= maxWorkers
<1>2. Steps /\ Fits
  <2>1. ASSUME NEW nb, NEW S \in AddSets(nb, workers, Absent), Start(S, workers)
        PROVE  S \subseteq Absent /\ (workers' = workers \/ workers' <= maxWorkers)
    <3>1. S \subseteq Absent
      BY <2>1 DEF AddSets
    <3>2. workers \in Int
      BY <1>t, Limits
    <3>3. (S # {} => workers' <= maxWorkers) /\ (S = {} => workers' = workers)
      BY <1>t, <2>1, <3>2, Within
    <3> QED
      BY <3>1, <3>3
  <2>2. ASSUME NEW nb \in 1 .. Cardinality(Workers), Add(nb)
        PROVE  Steps /\ Fits
    BY <2>1, <2>2 DEF Add, Absent, Live
  <2>3. ASSUME NEW w \in Workers, Grow(w)
        PROVE  Steps /\ Fits
    <3>1. PICK S \in IF AddAllowed THEN AddSets(1, workers, Absent) ELSE {{}} :
            Start(S, workers) /\ pc' = Moved(w, "body", S) /\ pc[w] = "grow"
      BY <2>3 DEF Grow
    <3>2. S \subseteq Absent /\ (workers' = workers \/ workers' <= maxWorkers)
      <4>1. CASE S = {}
        BY <1>t, <3>1, <4>1, FS_EmptySet DEF Start, TypeOK
      <4>2. CASE S # {}
        BY <2>1, <3>1, <4>2
      <4> QED
        BY <4>1, <4>2
    <3> QED
      BY <3>1, <3>2 DEF Moved, Absent, Live
  <2> QED
    BY <2>2, <2>3
<1>3. Leaving \subseteq Leaving'
  BY <1>2 DEF Leaving
<1>4. Owed \subseteq Owed'
  BY <1>1, OwedGrows
<1>5. Covered'
  BY <1>t, <1>1, <1>2, <1>3, <1>4, StillCovered DEF LimitInv, TypeOK
<1>6. Empty' /\ Unmade'
  BY <1>1, <1>2 DEF LimitInv, Empty, Unmade, Busy
<1> QED
  BY <1>5, <1>6 DEF LimitInv

\* A worker that has left, and the one it starts in its place
LEMMA RetireLimit ==
  ASSUME IInv, IInv', LimitInv, NEW w \in Workers, Retire(w)
  PROVE  LimitInv'
<1>t. TypeOK /\ TypeOK'
  BY DEF IInv
<1>1. UNCHANGED <<exit, maxWorkers, killer, tasks, item>> /\ pc[w] = "exit"
  BY DEF Retire
<1>2. PICK S \in IF NeedsReplacement
                 THEN AddSets(1, workers - 1, Absent \cup {w}) ELSE {{}} :
        Start(S, workers - 1) /\ pc' = Moved(w, "absent", S)
  BY DEF Retire
<1>3. S \subseteq Absent \cup {w}
  BY <1>2 DEF AddSets
<1>4. \A x \in Workers : \/ pc'[x] = pc[x] /\ x # w
                         \/ pc[x] \in {"absent", "exit"} /\ pc'[x] \in {"absent", "top"}
  BY <1>1, <1>2, <1>3 DEF Moved, Absent, Live
<1>5. Owed \subseteq Owed'
  BY <1>1, OwedGrows
<1>6. /\ Cardinality(Owed) <= Cardinality(Owed')
      /\ Cardinality(Owed) \in Nat /\ Cardinality(Owed') \in Nat
      /\ Cardinality(Leaving) \in Nat /\ Cardinality(Leaving') \in Nat
      /\ workers \in Nat /\ workers' \in Nat /\ maxWorkers \in Nat
  <2>1. /\ Cardinality(Owed) \in Nat /\ Cardinality(Owed') \in Nat /\ IsFiniteSet(Owed')
        /\ Cardinality(Leaving) \in Nat /\ Cardinality(Leaving') \in Nat
    BY LimitSets, FiniteLimit
  <2>2. Cardinality(Owed) <= Cardinality(Owed')
    BY <1>5, <2>1, FS_Subset
  <2>3. workers \in Nat /\ workers' \in Nat /\ maxWorkers \in Nat
    BY <1>t, Limits DEF TypeOK
  <2> QED
    BY <2>1, <2>2, <2>3
<1>7. Covered'
  <2>1. CASE S = {}
    <3>1. workers' = workers - 1
      BY <1>2, <1>6, <2>1, FS_EmptySet DEF Start
    <3>2. Leaving' = Leaving \ {w} /\ w \in Leaving
      BY <1>1, <1>2, <2>1 DEF Leaving, Moved
    <3>3. Cardinality(Leaving') = Cardinality(Leaving) - 1
      BY <3>2, LimitSets, FiniteLimit, FS_RemoveElement
    <3> QED
      BY <1>1, <1>6, <3>1, <3>3 DEF LimitInv, Covered
  <2>2. CASE S # {}
    <3>1. S \in AddSets(1, workers - 1, Absent \cup {w})
      BY <1>2, <2>2
    <3>n. workers - 1 \in Int
      BY <1>6
    <3>2. workers' <= maxWorkers
      BY <1>t, <1>2, <2>2, <3>n, <3>1, Within
    <3> QED
      BY <1>1, <1>6, <3>2 DEF Covered
  <2> QED
    BY <2>1, <2>2
<1>8. Empty' /\ Unmade'
  BY <1>1, <1>4 DEF LimitInv, Empty, Unmade, Busy
<1> QED
  BY <1>7, <1>8 DEF LimitInv

\* kill() and set_max_workers(): what is too much is owed, unless it left meanwhile
LEMMA ControlLimit ==
  ASSUME IInv, IInv', LimitInv, NEW k \in Kills, Control(k)
  PROVE  LimitInv'
<1>t. TypeOK /\ TypeOK'
  BY DEF IInv
<1>1. UNCHANGED <<exit, workers, pc, item>> /\ Leaving' = Leaving
  BY DEF Control, Kill, SetMaxWorkers, KillExcess, KillPut, pool, Leaving
<1>n. /\ workers \in 0 .. Cardinality(Workers) /\ maxWorkers \in Nat /\ maxWorkers' \in Nat
      /\ Cardinality(Workers) \in Nat
      /\ killer[k].nb \in 0 .. Cardinality(Workers)
      /\ killer \in [Kills -> [at : {"idle", "count", "put"}, nb : 0 .. Cardinality(Workers)]]
      /\ Cardinality(Leaving) \in Nat /\ Cardinality(Owed') \in Nat
  <2>1. workers \in 0 .. Cardinality(Workers) /\ Cardinality(Workers) \in Nat
    BY <1>t, FiniteCounted, Limits DEF IInv, Accounting
  <2>2. maxWorkers \in Nat /\ maxWorkers' \in Nat
    BY <1>t, <2>1 DEF TypeOK
  <2>3. killer \in [Kills -> [at : {"idle", "count", "put"}, nb : 0 .. Cardinality(Workers)]]
    BY <1>t DEF TypeOK
  <2>4. killer[k].nb \in 0 .. Cardinality(Workers)
    BY <2>3
  <2>5. Cardinality(Leaving) \in Nat /\ Cardinality(Owed') \in Nat
    BY LimitSets, FiniteLimit
  <2> QED
    BY <2>1, <2>2, <2>3, <2>4, <2>5
<1>2. CASE Kill(k)
  <2>0. killer[k].at = "idle" /\ killer[k].nb = 0
    BY <1>2 DEF Kill, LimitInv, Unmade
  <2>1. /\ tasks' = tasks /\ maxWorkers' = maxWorkers /\ killer[k].nb = 0
        /\ \E m \in 0 .. Cardinality(Workers) :
             killer' = [killer EXCEPT ![k] = [at |-> "put", nb |-> m]]
    <3>1. PICK nb \in 1 .. Cardinality(Workers) :
            killer' = [killer EXCEPT ![k] = [at |-> "put", nb |-> Least(nb, workers)]]
      BY <1>2 DEF Kill
    <3>2. Least(nb, workers) \in 0 .. Cardinality(Workers)
      BY <1>n DEF Least
    <3>3. tasks' = tasks /\ maxWorkers' = maxWorkers
      BY <1>2 DEF Kill, pool
    <3> QED
      BY <2>0, <3>1, <3>2, <3>3
  <2>2. \A j \in Kills : /\ killer'[j].nb >= killer[j].nb
                         /\ killer'[j].at = "idle" => killer'[j] = killer[j]
    BY <1>n, <2>1
  <2>3. Owed \subseteq Owed'
    <3>1. \A x \in Exits : x[1] \in Kills /\ x[2] \in Nat
      BY <1>n DEF Exits
    <3>2. \A j \in Kills : killer[j].nb \in Nat /\ killer'[j].nb \in Nat
      BY <1>t, <1>n DEF TypeOK
    <3> QED
      BY <1>1, <2>1, <2>2, <3>1, <3>2 DEF Owed
  <2>4. Covered'
    BY <1>t, <1>1, <2>1, <2>3, StillCovered DEF LimitInv, TypeOK
  <2> QED
    BY <1>1, <2>2, <2>4 DEF LimitInv, Empty, Unmade, Busy
<1>3. CASE SetMaxWorkers(k)
  <2>1. PICK m \in MaxChoices :
          /\ maxWorkers' = m
          /\ killer' = [killer EXCEPT ![k] = [at |-> "count", nb |-> Excess(m)]]
    BY <1>3 DEF SetMaxWorkers
  <2>2. Excess(m) \in 0 .. Cardinality(Workers) /\ workers <= m + Excess(m) /\ m \in Nat
    BY <1>n, <2>1 DEF Excess
  <2>3. killer'[k] = [at |-> "count", nb |-> Excess(m)]
    BY <1>n, <2>1
  <2>4. killer'[k].nb = Excess(m) /\ killer'[k].at = "count"
    BY <2>3
  <2>5. Excess(m) <= Cardinality(Owed')
    BY <1>t, <2>2, <2>4, OwedBy
  <2>6. Covered'
    BY <1>1, <1>n, <2>1, <2>2, <2>5 DEF Covered
  <2>7. Unmade'
    BY <1>n, <2>1, <2>4 DEF LimitInv, Unmade
  <2> QED
    BY <1>1, <2>6, <2>7 DEF LimitInv, Empty, Busy
<1>4. CASE KillExcess(k)
  <2> DEFINE m == Least(killer[k].nb, workers)
  <2>1. maxWorkers' = maxWorkers /\ tasks' = tasks
        /\ killer' = [killer EXCEPT ![k] = [at |-> "put", nb |-> m]]
    BY <1>4 DEF KillExcess, pool
  <2>2. m \in 0 .. Cardinality(Workers) /\ (m = workers \/ m = killer[k].nb)
    BY <1>n DEF Least
  <2> HIDE DEF m
  <2>3. killer'[k] = [at |-> "put", nb |-> m] /\ \A j \in Kills \ {k} : killer'[j] = killer[j]
    BY <1>n, <2>1
  <2>4. killer'[k].nb = m /\ killer'[k].at = "put"
    BY <2>3
  <2>5. CASE m = workers
    <3>1. workers <= Cardinality(Owed')
      BY <1>t, <2>2, <2>4, <2>5, OwedBy
    <3> QED
      BY <1>1, <1>n, <2>1, <2>3, <2>4, <3>1 DEF LimitInv, Covered, Empty, Unmade, Busy
  <2>6. CASE m = killer[k].nb
    <3>1. \A j \in Kills : killer'[j].nb = killer[j].nb
      BY <2>3, <2>4, <2>6
    <3>2. \A x \in Exits : x[1] \in Kills
      BY DEF Exits
    <3>3. Owed \subseteq Owed'
      BY <1>1, <2>1, <3>1, <3>2 DEF Owed
    <3>4. Covered'
      BY <1>t, <1>1, <2>1, <3>3, StillCovered DEF LimitInv, TypeOK
    <3> QED
      BY <1>1, <2>3, <2>4, <3>4 DEF LimitInv, Empty, Unmade, Busy
  <2> QED
    BY <2>2, <2>5, <2>6
<1>5. CASE KillPut(k)
  <2>1. maxWorkers' = maxWorkers /\ killer[k].at = "put"
    BY <1>5 DEF KillPut
  <2>2. Unmade' /\ Empty'
    <3>1. \E m \in 0 .. Cardinality(Workers) : killer' = [killer EXCEPT ![k].nb = m]
      <4>1. killer[k].nb > 0 /\ \/ killer' = [killer EXCEPT ![k].nb = killer[k].nb - 1]
                                \/ killer' = [killer EXCEPT ![k].nb = 0]
        BY <1>5 DEF KillPut
      <4>2. killer[k].nb - 1 \in 0 .. Cardinality(Workers) /\ 0 \in 0 .. Cardinality(Workers)
        BY <1>n, <4>1
      <4> QED
        BY <4>1, <4>2
    <3>2. killer'[k].at = "put" /\ \A j \in Kills \ {k} : killer'[j] = killer[j]
      BY <1>n, <2>1, <3>1
    <3> QED
      BY <1>1, <3>2 DEF LimitInv, Empty, Unmade, Busy
  <2>3. CASE exit
    BY <1>1, <2>2, <2>3 DEF LimitInv, Covered
  <2>4. CASE ~exit
    <3>1. /\ tasks' = tasks \cup {<<k, killer[k].nb>>}
          /\ killer' = [killer EXCEPT ![k].nb = killer[k].nb - 1]
      BY <1>5, <2>4 DEF KillPut, Enqueue
    <3>2. killer'[k].nb = killer[k].nb - 1 /\ \A j \in Kills \ {k} : killer'[j] = killer[j]
      BY <1>n, <3>1
    <3>3. ASSUME NEW x \in Exits, x \in Owed PROVE x \in Owed'
      <4>1. PICK j \in Kills, n \in 1 .. Cardinality(Workers) : x = <<j, n>>
        BY DEF Exits
      <4>2. x[1] = j /\ x[2] = n
        BY <4>1
      <4>3. CASE j = k /\ n <= killer[k].nb
        <5>1. n = killer[k].nb \/ n <= killer[k].nb - 1
          BY <1>n, <4>3
        <5> QED
          BY <3>1, <3>2, <4>1, <4>2, <4>3, <5>1 DEF Owed
      <4>4. CASE ~(j = k /\ n <= killer[k].nb)
        BY <1>1, <3>1, <3>2, <3>3, <4>2, <4>4 DEF Owed
      <4> QED
        BY <4>3, <4>4
    <3>4. Owed \subseteq Owed'
      BY <3>3, LimitSets
    <3>5. Covered'
      BY <1>t, <1>1, <2>1, <3>4, StillCovered DEF LimitInv, TypeOK
    <3> QED
      BY <2>2, <3>5 DEF LimitInv
  <2> QED
    BY <2>3, <2>4
<1> QED
  BY <1>2, <1>3, <1>4, <1>5 DEF Control

LEMMA StepLimit == IInv /\ IInv' /\ LimitInv /\ [Next]_vars => LimitInv'
<1> SUFFICES ASSUME IInv, IInv', LimitInv, [Next]_vars PROVE LimitInv'
  OBVIOUS
<1>1. CASE UNCHANGED vars
  BY <1>1 DEF vars, pool, LimitInv, Empty, Unmade, Covered, Leaving, Owed, Busy
<1>2. ASSUME NEW t \in Tasks, Submit(t) PROVE LimitInv'
  BY <1>2, SubmitLimit
<1>3. ASSUME NEW w \in Workers, Work(w) PROVE LimitInv'
  BY <1>3, WorkLimit, AddLimit, RetireLimit
<1>4. ASSUME NEW k \in Kills, Control(k) PROVE LimitInv'
  BY <1>4, ControlLimit
<1>5. ASSUME NEW nb \in 1 .. Cardinality(Workers), Add(nb) PROVE LimitInv'
  BY <1>5, AddLimit
<1>6. ASSUME NEW c \in Stoppers \cup Workers,
             KillAllReturn(c) \/ \E wait \in BOOLEAN : KillAll(c, wait)
      PROVE  LimitInv'
  <2>1. CASE KillAllReturn(c)
    BY <2>1 DEF KillAllReturn, pool, LimitInv, Empty, Unmade, Covered, Leaving, Owed, Busy
  <2>2. ASSUME NEW wait \in BOOLEAN, KillAll(c, wait) PROVE LimitInv'
    BY <2>2 DEF KillAll, LimitInv, Empty, Unmade, Covered, Busy
  <2> QED
    BY <1>6, <2>1, <2>2
<1> QED
  BY <1>1, <1>2, <1>3, <1>4, <1>5, <1>6 DEF Next

\* set_max_workers(): while workers outnumber the limit, enough of them are on their way
\* out or have a WorkerExit to come, whatever limits, starts and stops came in between.
THEOREM ShrinkIsCovered == Spec => []ShrinkCovered
<1>1. LimitInv => ShrinkCovered
  BY DEF LimitInv, Covered, ShrinkCovered, Leaving, Owed
<1>2. IInv /\ [Next]_vars => IInv'
  BY StepInv
<1> QED
  BY <1>1, <1>2, InitInv, LimitBegins, StepLimit, PTL DEF Spec

-----------------------------------------------------------------------------
(* The order: numbers are given in order, and a task that has its number   *)
(* is behind all that was queued when its submission began.                *)

Numbered(t) == t \in tasks \/ (IsQPriority /\ status[t] = "putting")

InOrder == \A i \in Items : rank[i] < sequence

StillQueued == \A t \in Tasks : earlier[t] \subseteq tasks \ {t}

Behind == \A t \in Tasks : Numbered(t) => \A a \in earlier[t] : rank[a] < rank[t]

OrderInv == InOrder /\ StillQueued /\ Behind

LEMMA OrderBegins == Init => OrderInv
BY DEF Init, OrderInv, InOrder, StillQueued, Behind

\* A step that queues and numbers nothing
LEMMA SameOrder ==
  ASSUME OrderInv, UNCHANGED <<tasks, rank, sequence>>,
         \A t \in Tasks : earlier'[t] = earlier[t] \/ earlier'[t] = {},
         \A t \in Tasks : status'[t] = "putting" => status[t] = "putting"
  PROVE  OrderInv'
<1>1. InOrder'
  BY DEF OrderInv, InOrder
<1>2. StillQueued'
  BY DEF OrderInv, StillQueued
<1>3. Behind'
  BY DEF OrderInv, Behind, Numbered
<1> QED
  BY <1>1, <1>2, <1>3 DEF OrderInv

LEMMA CallOrder ==
  ASSUME IInv, OrderInv, NEW t \in Tasks, Call(t)
  PROVE  OrderInv'
<1>t. TypeOK /\ t \notin tasks
  BY DEF IInv, Queued, Call
<1>1. /\ tasks' = tasks /\ status' = [status EXCEPT ![t] = "putting"]
      /\ earlier' = [earlier EXCEPT ![t] = tasks \cap Tasks]
  BY DEF Call
<1>2. StillQueued'
  BY <1>t, <1>1 DEF OrderInv, StillQueued, TypeOK
<1>3. CASE ~IsQPriority
  <2>1. rank' = rank /\ sequence' = sequence
    BY <1>3 DEF Call
  <2>2. InOrder'
    BY <2>1 DEF OrderInv, InOrder
  <2>3. Behind'
    BY <1>t, <1>1, <1>3, <2>1 DEF OrderInv, Behind, Numbered, TypeOK
  <2> QED
    BY <1>2, <2>2, <2>3 DEF OrderInv
<1>4. CASE IsQPriority
  <2>1. rank' = [rank EXCEPT ![t] = sequence] /\ sequence' = sequence + 1
    BY <1>4 DEF Call
  <2>2. rank'[t] = sequence /\ \A i \in Items \ {t} : rank'[i] = rank[i]
    BY <1>t, <2>1 DEF TypeOK, Items
  <2>3. InOrder'
    BY <1>t, <2>1, <2>2 DEF OrderInv, InOrder, TypeOK
  <2>4. ASSUME NEW u \in Tasks, Numbered(u)', NEW a \in earlier'[u]
        PROVE  rank'[a] < rank'[u]
    <3>1. a \in tasks /\ a \in Items \ {t}
      BY <1>t, <1>1, <1>2, <2>4 DEF StillQueued, TypeOK
    <3>2. CASE u = t
      BY <2>2, <3>1, <3>2 DEF OrderInv, InOrder
    <3>3. CASE u # t
      <4>1. Numbered(u) /\ a \in earlier[u] /\ u \in Items \ {t}
        BY <1>t, <1>1, <2>4, <3>3 DEF Numbered, TypeOK, Items
      <4> QED
        BY <2>2, <3>1, <4>1 DEF OrderInv, Behind
    <3> QED
      BY <3>2, <3>3
  <2> QED
    BY <1>2, <2>3, <2>4 DEF OrderInv, Behind
<1> QED
  BY <1>3, <1>4

\* What is put last is behind everything that is queued
LEMMA EnqueueOrder ==
  ASSUME TypeOK, OrderInv, NEW i \in Items, NEW numbered \in BOOLEAN,
         Enqueue(i, numbered), i \notin tasks, earlier' = earlier,
         i \in Tasks => (numbered = IsQPriority /\ status[i] = "putting"),
         \A t \in Tasks : status'[t] = "putting" => status[t] = "putting"
  PROVE  OrderInv'
<1>1. tasks' = tasks \cup {i}
  BY DEF Enqueue
<1>2. \A u \in Tasks : \A a \in earlier[u] : a \in tasks /\ a \in Items \ {i}
  BY DEF OrderInv, StillQueued, TypeOK
<1>3. StillQueued'
  BY <1>1 DEF OrderInv, StillQueued
<1>4. CASE numbered
  <2>1. rank' = rank /\ sequence' = sequence
    BY <1>4 DEF Enqueue
  <2>2. \A u \in Tasks : Numbered(u)' => Numbered(u)
    BY <1>1, <1>4 DEF Numbered
  <2> QED
    BY <1>3, <2>1, <2>2 DEF OrderInv, InOrder, Behind
<1>5. CASE ~numbered
  <2>1. rank' = [rank EXCEPT ![i] = sequence] /\ sequence' = sequence + 1
    BY <1>5 DEF Enqueue
  <2>2. rank'[i] = sequence /\ \A j \in Items \ {i} : rank'[j] = rank[j]
    BY <2>1 DEF TypeOK
  <2>3. InOrder'
    BY <2>1, <2>2 DEF OrderInv, InOrder, TypeOK
  <2>4. ASSUME NEW u \in Tasks, Numbered(u)', NEW a \in earlier'[u]
        PROVE  rank'[a] < rank'[u]
    <3>1. a \in earlier[u] /\ a \in Items \ {i} /\ rank'[a] = rank[a]
      BY <1>2, <2>2, <2>4
    <3>2. CASE u = i
      BY <2>2, <3>1, <3>2 DEF OrderInv, InOrder
    <3>3. CASE u # i
      <4>1. Numbered(u) /\ u \in Items \ {i}
        BY <1>1, <2>4, <3>3 DEF Numbered, Items
      <4> QED
        BY <2>2, <3>1, <4>1 DEF OrderInv, Behind
    <3> QED
      BY <3>2, <3>3
  <2> QED
    BY <1>3, <2>3, <2>4 DEF OrderInv, Behind
<1> QED
  BY <1>4, <1>5

\* What leaves the queue loses its number and is before nobody any more
LEMMA TakenOrder ==
  ASSUME TypeOK, OrderInv, NEW S \in SUBSET tasks,
         tasks' = tasks \ S, sequence' = sequence,
         \A i \in Items : rank'[i] = IF i \in S THEN 0 ELSE rank[i],
         \A t \in Tasks : earlier'[t] = {} \/ (t \notin S /\ earlier'[t] = earlier[t] \ S),
         \A t \in Tasks : status'[t] = "putting" => status[t] = "putting"
  PROVE  OrderInv'
<1>1. InOrder'
  BY DEF OrderInv, InOrder, TypeOK
<1>2. StillQueued'
  BY DEF OrderInv, StillQueued
<1>3. ASSUME NEW u \in Tasks, Numbered(u)', NEW a \in earlier'[u]
      PROVE  rank'[a] < rank'[u]
  <2>1. u \notin S /\ a \in earlier[u] \ S /\ Numbered(u)
    BY <1>3 DEF Numbered
  <2>2. u \in Items /\ a \in Items
    BY <2>1 DEF OrderInv, StillQueued, TypeOK, Items
  <2>3. rank[a] < rank[u]
    BY <2>1 DEF OrderInv, Behind
  <2> QED
    BY <2>1, <2>2, <2>3
<1> QED
  BY <1>1, <1>2, <1>3 DEF OrderInv, Behind

LEMMA GetOrder ==
  ASSUME IInv, OrderInv, NEW w \in Workers, Get(w)
  PROVE  OrderInv'
<1>t. TypeOK
  BY DEF IInv
<1>1. PICK i \in tasks :
        /\ tasks' = tasks \ {i} /\ rank' = [rank EXCEPT ![i] = 0]
        /\ earlier' = [t \in Tasks |-> IF t = i THEN {} ELSE earlier[t] \ {i}]
  BY DEF Get
<1>2. sequence' = sequence /\ status' = status
  BY DEF Get
<1>3. \A j \in Items : rank'[j] = IF j \in {i} THEN 0 ELSE rank[j]
  BY <1>t, <1>1 DEF TypeOK
<1>4. \A t \in Tasks : earlier'[t] = {} \/ (t \notin {i} /\ earlier'[t] = earlier[t] \ {i})
  BY <1>1
<1> QED
  BY <1>t, <1>1, <1>2, <1>3, <1>4, TakenOrder

LEMMA SubmitOrder ==
  ASSUME IInv, OrderInv, NEW t \in Tasks, Submit(t)
  PROVE  OrderInv'
<1>t. TypeOK /\ t \in Items
  BY DEF IInv, Items
<1>1. CASE PutRefused(t)
  BY <1>t, <1>1, SameOrder DEF PutRefused, pool, TypeOK
<1>2. CASE Put(t)
  <2>1. earlier' = earlier /\ status[t] = "putting" /\ t \notin tasks
    BY <1>2 DEF Put, IInv, Queued
  <2>2. CASE Enqueue(t, IsQPriority) /\ status' = [status EXCEPT ![t] = "accepted"]
    <3>1. \A u \in Tasks : status'[u] = "putting" => status[u] = "putting"
      BY <1>t, <2>2 DEF TypeOK
    <3>2. IsQPriority \in BOOLEAN
      BY ParameterAssumption
    <3> QED
      BY <1>t, <2>1, <2>2, <3>1, <3>2, EnqueueOrder
  <2>3. CASE UNCHANGED <<tasks, unfinished, rank, sequence, status>>
    BY <2>1, <2>3, SameOrder
  <2> QED
    BY <1>2, <2>2, <2>3 DEF Put
<1> QED
  BY <1>1, <1>2, CallOrder DEF Submit

LEMMA ControlOrder ==
  ASSUME IInv, OrderInv, NEW k \in Kills, Control(k)
  PROVE  OrderInv'
<1>t. TypeOK
  BY DEF IInv
<1>1. earlier' = earlier /\ status' = status
  BY DEF Control, Kill, SetMaxWorkers, KillExcess, KillPut
<1>2. CASE Kill(k) \/ SetMaxWorkers(k) \/ KillExcess(k)
  BY <1>1, <1>2, SameOrder DEF Kill, SetMaxWorkers, KillExcess, pool
<1>3. CASE KillPut(k) /\ ~exit
  <2> DEFINE x == <<k, killer[k].nb>>
  <2>1. Enqueue(x, FALSE) /\ killer[k].nb > 0
    BY <1>3 DEF KillPut
  <2>2. killer[k].nb \in 1 .. Cardinality(Workers)
    BY <1>t, <2>1 DEF TypeOK
  <2>3. x \in Exits /\ x \notin tasks
    BY <2>2 DEF Exits, IInv, Fresh
  <2>4. x \in Items /\ x \notin Tasks
    BY <2>3, TaskIsNoExit DEF Items
  <2> QED
    BY <1>t, <1>1, <2>1, <2>3, <2>4, EnqueueOrder
<1>4. CASE KillPut(k) /\ exit
  BY <1>1, <1>4, SameOrder DEF KillPut
<1> QED
  BY <1>2, <1>3, <1>4 DEF Control

LEMMA StepOrder == IInv /\ OrderInv /\ [Next]_vars => OrderInv'
<1> SUFFICES ASSUME IInv, OrderInv, [Next]_vars PROVE OrderInv'
  OBVIOUS
<1>t. TypeOK
  BY DEF IInv
<1>1. CASE UNCHANGED vars
  BY <1>1, SameOrder DEF vars, pool
<1>2. ASSUME NEW t \in Tasks, Submit(t) PROVE OrderInv'
  BY <1>2, SubmitOrder
<1>3. ASSUME NEW w \in Workers, Work(w), ~Get(w) PROVE OrderInv'
  <2>1. UNCHANGED <<tasks, rank, sequence, earlier>>
    BY <1>3 DEF Work, Loop, GetTimeout, Admit, Leave, Grow, StartBody, FinishBody, Ack,
                Discard, Retire, pool
  <2>2. \A t \in Tasks : status'[t] = "putting" => status[t] = "putting"
    <3>1. \/ status' = status
          \/ \E s \in {"claimed", "running", "done"} : status' = [status EXCEPT ![item[w]] = s]
          \/ status' = [t \in Tasks |-> IF t = item[w] THEN "cancelled" ELSE status[t]]
      BY <1>3 DEF Work, Loop, GetTimeout, Admit, Leave, Grow, StartBody, FinishBody, Ack,
                  Discard, Retire
    <3> QED
      BY <1>t, <3>1 DEF TypeOK
  <2> QED
    BY <2>1, <2>2, SameOrder
<1>4. ASSUME NEW k \in Kills, Control(k) PROVE OrderInv'
  BY <1>4, ControlOrder
<1>5. ASSUME NEW nb \in 1 .. Cardinality(Workers), Add(nb) PROVE OrderInv'
  BY <1>5, SameOrder DEF Add
<1>6. ASSUME NEW c \in Stoppers \cup Workers, NEW wait \in BOOLEAN, KillAll(c, wait)
      PROVE  OrderInv'
  <2>1. /\ tasks' = tasks \ tasks /\ sequence' = sequence
        /\ \A i \in Items : rank'[i] = IF i \in tasks THEN 0 ELSE rank[i]
        /\ \A t \in Tasks : earlier'[t] = {}
        /\ \A t \in Tasks : status'[t] = "putting" => status[t] = "putting"
    BY <1>6 DEF KillAll
  <2> QED
    BY <1>t, <2>1, TakenOrder
<1>7. ASSUME NEW c \in Stoppers \cup Workers, KillAllReturn(c) PROVE OrderInv'
  BY <1>7, SameOrder DEF KillAllReturn, pool
<1> QED
  BY <1>1, <1>2, <1>3, <1>4, <1>5, <1>6, <1>7, GetOrder DEF Next

\* Only a get() takes one task and leaves another behind
LEMMA OnlyGetTakes ==
  ASSUME TypeOK, [Next]_vars, NEW t \in tasks, t \notin tasks', ~exit'
  PROVE  \E w \in Workers : Get(w)
<1>1. ASSUME NEW u \in Tasks, Submit(u) PROVE FALSE
  BY <1>1 DEF Submit, Call, PutRefused, Put, Enqueue, pool
<1>2. ASSUME NEW w \in Workers, Work(w), ~Get(w) PROVE FALSE
  BY <1>2 DEF Work, Loop, GetTimeout, Admit, Leave, Grow, StartBody, FinishBody, Ack,
              Discard, Retire, pool
<1>3. ASSUME NEW k \in Kills, Control(k) PROVE FALSE
  BY <1>3 DEF Control, Kill, SetMaxWorkers, KillExcess, KillPut, Enqueue, pool
<1>4. ASSUME NEW nb \in 1 .. Cardinality(Workers), Add(nb) PROVE FALSE
  BY <1>4 DEF Add
<1>5. ASSUME NEW c \in Stoppers \cup Workers,
             KillAllReturn(c) \/ \E wait \in BOOLEAN : KillAll(c, wait)
      PROVE  FALSE
  BY <1>5 DEF KillAllReturn, KillAll, pool
<1>6. CASE UNCHANGED vars
  BY <1>6 DEF vars, pool
<1> QED
  BY <1>1, <1>2, <1>3, <1>4, <1>5, <1>6 DEF Next

\* get(): equal priorities preserve submission order. A task never overtakes one of the
\* same or a lower qpriority value that was queued when its own submission began.
THEOREM SubmissionsKeepOrder == Spec => SubmissionOrder
<1> DEFINE Overtakes(t, a) == /\ t \notin tasks' /\ ~exit' /\ a \in earlier[t] /\ a \in tasks'
                              /\ ~(IsQPriority /\ Prio[a] > Prio[t])
<1>1. ASSUME IInv, OrderInv, [Next]_vars,
             NEW t \in tasks \cap Tasks, NEW a \in Tasks, Overtakes(t, a)
      PROVE  FALSE
  <2>1. PICK w \in Workers : Get(w)
    BY <1>1, OnlyGetTakes DEF IInv
  <2>2. IsFirst(t)
    BY <1>1, <2>1 DEF Get
  <2>3. a \in tasks \ {t} /\ rank[a] < rank[t]
    BY <1>1 DEF OrderInv, StillQueued, Behind, Numbered
  <2>4. rank[a] \in Nat /\ rank[t] \in Nat
    BY <1>1 DEF IInv, TypeOK, Items
  <2>5. Before(t, a)
    BY <2>2, <2>3 DEF IsFirst
  <2>6. Priority(t) < Priority(a)
    BY <2>3, <2>4, <2>5 DEF Before
  <2>7. IsQPriority /\ Prio[t] < Prio[a]
    BY <2>6 DEF Priority
  <2>8. Prio[t] \in Int /\ Prio[a] \in Int
    BY ParameterAssumption
  <2> QED
    BY <1>1, <2>7, <2>8
<1>2. IInv /\ OrderInv /\ [Next]_vars =>
        \A t \in tasks \cap Tasks, a \in Tasks :
          /\ t \notin tasks' /\ ~exit' /\ a \in earlier[t] /\ a \in tasks'
          => IsQPriority /\ Prio[a] > Prio[t]
  BY <1>1
<1>3. Spec => []OrderInv
  BY Invariant, OrderBegins, StepOrder, PTL DEF Spec
<1> QED
  BY <1>2, <1>3, Invariant, PTL DEF Spec, SubmissionOrder
=============================================================================
