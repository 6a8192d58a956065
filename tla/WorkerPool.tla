----------------------------- MODULE WorkerPool -----------------------------
(***************************************************************************)
(* sonicprobe.libs.workerpool: a pool of threads fed by one queue.         *)
(*                                                                         *)
(* A step is one critical section of count_lock, one call on the queue, or *)
(* one unlocked read of pool.exit.  Every queue operation but tasks.get()  *)
(* is made with count_lock held, and a get() that falls inside such a      *)
(* section commutes with it, so a section is one step.  (Inside the drain  *)
(* of killall() it only decides who discards which task.)                  *)
(*                                                                         *)
(* Threads are named by their xid: id_list is the set of ids not in use.   *)
(* An item of the queue is a task or a WorkerExit; the WorkerExit that     *)
(* kill call k still has n of to put, this one included, is <<k, n>>.      *)
(*                                                                         *)
(* Operators marked "Variant" are not part of the model: each is a defect  *)
(* that a property is shown to detect.                                     *)
(***************************************************************************)
EXTENDS Integers, FiniteSets

CONSTANTS
  Tasks,        \* calls of run() / run_args(), each made at most once
  Workers,      \* ids a worker thread can have
  Kills,        \* calls of kill() / set_max_workers(), each made at most once
  Stoppers,     \* threads outside the pool that call killall()
  External,     \* "no parent": the task is submitted from outside the pool
  Parent,       \* Parent[t]: the task whose callable submits t, or External
  Prio,         \* Prio[t]: the qpriority given with t
  NoItem,       \* a worker's hand is empty
  IsQPriority,  \* the queue is a PriorityQueue
  QueueMax,     \* maxsize of the queue, 0 when unbounded
  InitialMax,   \* max_workers at construction
  MaxChoices,   \* arguments of set_max_workers()
  MaxTasks,     \* max_tasks, 0 for None
  LifeTime,     \* life_time is set: a worker may find itself expired
  StartMayFail  \* Thread.start() may raise

DEFAULT_EXIT_PRIORITY == -9999

Exits == Kills \X (1 .. Cardinality(Workers))
Items == Tasks \cup Exits

ASSUME WorkersAssumption ==
  /\ IsFiniteSet(Workers)
  /\ MaxChoices \subseteq 1 .. Cardinality(Workers)
  /\ InitialMax \in 1 .. Cardinality(Workers)

ASSUME ItemsAssumption ==
  /\ IsFiniteSet(Tasks) /\ IsFiniteSet(Kills)
  /\ Tasks \cap Exits = {}
  /\ NoItem \notin Items
  /\ Stoppers \cap Workers = {}

ASSUME ParameterAssumption ==
  /\ External \notin Tasks
  /\ Parent \in [Tasks -> Tasks \cup {External}]
  /\ Prio \in [Tasks -> Int]
  /\ QueueMax \in Nat /\ MaxTasks \in Nat
  /\ {IsQPriority, LifeTime, StartMayFail} \subseteq BOOLEAN

VARIABLES
  \* ---- the pool object
  tasks,       \* items in the queue
  rank,        \* order of an item: arrival, or its number in a PriorityQueue
  sequence,    \* next rank
  unfinished,  \* tasks.unfinished_tasks
  exit, killEvent, workers, working, maxWorkers,
  \* ---- the threads
  pc,          \* where each worker is in run()
  item,        \* what it took from the queue
  nbTasks,     \* its nb_tasks, counted up to MaxTasks
  status,      \* each submission, then its callable
  killer,      \* each kill call: where it is, how many exits are left to put
  waiting,     \* threads inside kill_event.wait(None)
  \* ---- history
  earlier      \* earlier[t]: tasks queued before t's call that still are

pool == <<tasks, rank, sequence, unfinished, exit, killEvent, workers, working,
          maxWorkers>>
vars == <<pool, pc, item, nbTasks, status, killer, waiting, earlier>>

Status == {"new", "putting", "accepted", "claimed", "running", "done",
           "cancelled", "refused"}
Pc == {"absent", "top", "get", "got", "grow", "body", "running", "ack",
       "ackDie", "discard", "exit"}

Live     == {w \in Workers : pc[w] # "absent"}
Admitted == {w \in Workers :
               pc[w] \in {"grow", "body", "running", "ack", "ackDie"}}
Holding  == {w \in Workers : pc[w] = "got" \/ pc[w] = "discard"}
            \cup Admitted

TypeOK ==
  /\ tasks \subseteq Items
  /\ rank \in [Items -> Nat] /\ sequence \in Nat
  /\ unfinished \in Nat /\ workers \in Nat /\ working \in Nat
  /\ exit \in BOOLEAN /\ killEvent \in BOOLEAN
  /\ maxWorkers \in 1 .. Cardinality(Workers)
  /\ pc \in [Workers -> Pc]
  /\ item \in [Workers -> Items \cup {NoItem}]
  /\ nbTasks \in [Workers -> 0 .. MaxTasks]
  /\ status \in [Tasks -> Status]
  /\ killer \in [Kills -> [at : {"idle", "count", "put"},
                           nb : 0 .. Cardinality(Workers)]]
  /\ waiting \subseteq Stoppers \cup Workers
  /\ earlier \in [Tasks -> SUBSET Tasks]

Init ==
  /\ tasks = {} /\ rank = [i \in Items |-> 0] /\ sequence = 1
  /\ unfinished = 0 /\ workers = 0 /\ working = 0
  /\ exit = FALSE /\ killEvent = TRUE
  /\ maxWorkers = InitialMax
  /\ pc = [w \in Workers |-> "absent"]
  /\ item = [w \in Workers |-> NoItem]
  /\ nbTasks = [w \in Workers |-> 0]
  /\ status = [t \in Tasks |-> "new"]
  /\ killer = [k \in Kills |-> [at |-> "idle", nb |-> 0]]
  /\ waiting = {}
  /\ earlier = [t \in Tasks |-> {}]

-----------------------------------------------------------------------------
(* The queue.  A Queue orders items by arrival, a PriorityQueue by         *)
(* (priority, number).                                                     *)

Full == QueueMax > 0 /\ Cardinality(tasks) >= QueueMax

Priority(i) == IF ~IsQPriority THEN 0
               ELSE IF i \in Tasks THEN Prio[i] ELSE DEFAULT_EXIT_PRIORITY

\* Variant: entries compared by priority alone
BeforeByPriority(i, j) == i # j /\ Priority(i) <= Priority(j)

Before(i, j) == \/ Priority(i) < Priority(j)
                \/ Priority(i) = Priority(j) /\ rank[i] < rank[j]

IsFirst(i) == i \in tasks /\ \A j \in tasks \ {i} : Before(i, j)

\* put_nowait(i) of an item that already has its number, or gets it now
Enqueue(i, numbered) ==
  /\ ~Full
  /\ tasks' = tasks \cup {i}
  /\ unfinished' = unfinished + 1
  /\ IF numbered
     THEN UNCHANGED <<rank, sequence>>
     ELSE rank' = [rank EXCEPT ![i] = sequence] /\ sequence' = sequence + 1

\* Variant: no task counted as worked on, and nothing queued
NothingWorkedOn == working = 0 /\ tasks = {}

\* killable()
Killable == unfinished = 0

-----------------------------------------------------------------------------
(* Thread creation.                                                        *)

\* Variant: add() on a stopped pool
AlwaysAllowed == TRUE

AddAllowed == ~exit

\* The sets of threads one call of add(nb) may start when n workers are
\* counted and the ids in A are free: it stops at the limit, and at the
\* first start that raises, whose bookkeeping it undoes.
AddSets(nb, n, A) ==
  {S \in SUBSET A :
     /\ Cardinality(S) <= nb
     /\ S # {} => n + Cardinality(S) <= maxWorkers
     /\ \/ StartMayFail
        \/ Cardinality(S) = nb
        \/ n + Cardinality(S) >= maxWorkers}

Absent == Workers \ Live

\* Variant: a start that raises leaves its worker counted
StartWithoutRollback(S, n) ==
  /\ workers' = IF S = {} /\ n < maxWorkers THEN n + 1 ELSE n + Cardinality(S)
  /\ killEvent' = (killEvent /\ workers' = 0)
  /\ nbTasks' = [x \in Workers |-> IF x \in S THEN 0 ELSE nbTasks[x]]

\* Variant: a new thread does not clear kill_event
StartUncleared(S, n) ==
  /\ workers' = n + Cardinality(S)
  /\ killEvent' = (killEvent \/ workers' = 0)
  /\ nbTasks' = [x \in Workers |-> IF x \in S THEN 0 ELSE nbTasks[x]]

\* Count the threads in S among n others and let them run; no thread left
\* sets kill_event, a new one clears it
Start(S, n) ==
  /\ workers' = n + Cardinality(S)
  /\ killEvent' = IF workers' = 0 THEN TRUE
                  ELSE IF S # {} THEN FALSE ELSE killEvent
  /\ nbTasks' = [x \in Workers |-> IF x \in S THEN 0 ELSE nbTasks[x]]

\* pc after w moved to p and the threads in S were started
Moved(w, p, S) ==
  [x \in Workers |-> IF x \in S THEN "top" ELSE IF x = w THEN p ELSE pc[x]]

Add(nb) ==
  /\ AddAllowed
  /\ \E S \in AddSets(nb, workers, Absent) :
       /\ Start(S, workers)
       /\ pc' = [x \in Workers |-> IF x \in S THEN "top" ELSE pc[x]]
  /\ UNCHANGED <<tasks, rank, sequence, unfinished, exit, working, maxWorkers,
                 item, status, killer, waiting, earlier>>

-----------------------------------------------------------------------------
(* Submission: _run() and the loop of _put().                              *)

Call(t) ==
  /\ status[t] = "new"
  /\ Parent[t] # External => status[Parent[t]] = "running"
  /\ status' = [status EXCEPT ![t] = "putting"]
  /\ IF IsQPriority
     THEN rank' = [rank EXCEPT ![t] = sequence] /\ sequence' = sequence + 1
     ELSE UNCHANGED <<rank, sequence>>
  /\ earlier' = [earlier EXCEPT ![t] = tasks \cap Tasks]
  /\ UNCHANGED <<tasks, unfinished, exit, killEvent, workers, working,
                 maxWorkers, pc, item, nbTasks, killer, waiting>>

\* Variant: a submission leaves it to add() to start workers
NeverNeeded == FALSE

NeedsWorker == workers = 0

\* The pool is stopped, or the first worker could not be started
PutRefused(t) ==
  /\ status[t] = "putting"
  /\ exit \/ (NeedsWorker /\ StartMayFail)
  /\ status' = [status EXCEPT ![t] = "refused"]
  /\ earlier' = [earlier EXCEPT ![t] = {}]
  /\ UNCHANGED <<pool, pc, item, nbTasks, killer, waiting>>

\* One iteration that is not refused: start a worker if there is none, then
\* enqueue, or sleep and try again if the queue is full
Put(t) ==
  /\ status[t] = "putting" /\ ~exit
  /\ \E S \in IF NeedsWorker THEN AddSets(1, 0, Absent) \ {{}} ELSE {{}} :
       /\ Start(S, workers)
       /\ pc' = [x \in Workers |-> IF x \in S THEN "top" ELSE pc[x]]
       /\ \/ /\ Enqueue(t, IsQPriority)
             /\ status' = [status EXCEPT ![t] = "accepted"]
          \/ /\ Full /\ S # {}
             /\ UNCHANGED <<tasks, unfinished, rank, sequence, status>>
  /\ UNCHANGED <<exit, working, maxWorkers, item, killer, waiting, earlier>>

-----------------------------------------------------------------------------
(* WorkerThread.run().                                                     *)

MaxTasksReached(w) == MaxTasks > 0 /\ nbTasks[w] >= MaxTasks

\* `while not self.pool.exit`, expired() and max_tasks_reached()
Loop(w) ==
  /\ pc[w] = "top"
  /\ \/ /\ ~exit /\ ~MaxTasksReached(w)
        /\ pc' = [pc EXCEPT ![w] = "get"]
     \/ /\ exit \/ LifeTime \/ MaxTasksReached(w)
        /\ pc' = [pc EXCEPT ![w] = "exit"]
  /\ UNCHANGED <<pool, item, nbTasks, status, killer, waiting, earlier>>

Get(w) ==
  /\ pc[w] = "get"
  /\ \E i \in tasks :
       /\ IsFirst(i)
       /\ tasks' = tasks \ {i}
       /\ rank' = [rank EXCEPT ![i] = 0]
       /\ item' = [item EXCEPT ![w] = i]
       /\ earlier' = [t \in Tasks |-> IF t = i THEN {} ELSE earlier[t] \ {i}]
  /\ pc' = [pc EXCEPT ![w] = "got"]
  /\ UNCHANGED <<sequence, unfinished, exit, killEvent, workers, working,
                 maxWorkers, nbTasks, status, killer, waiting>>

GetTimeout(w) ==
  /\ pc[w] = "get" /\ tasks = {}
  /\ pc' = [pc EXCEPT ![w] = "top"]
  /\ UNCHANGED <<pool, item, nbTasks, status, killer, waiting, earlier>>

\* Variant: only a WorkerExit is left
LeavesWorkerExit(i) == i \in Exits

LeavesItem(i) == exit \/ i \in Exits

\* First section: leave on exit or WorkerExit, else count the task as worked on
Admit(w) ==
  /\ pc[w] = "got" /\ ~LeavesItem(item[w])
  /\ working' = working + 1
  /\ status' = [status EXCEPT ![item[w]] = "claimed"]
  /\ LET grow == /\ tasks # {} \/ working' >= workers
                 /\ workers < maxWorkers
     IN  pc' = [pc EXCEPT ![w] = IF grow THEN "grow" ELSE "body"]
  /\ UNCHANGED <<tasks, rank, sequence, unfinished, exit, killEvent, workers,
                 maxWorkers, item, nbTasks, killer, waiting, earlier>>

Leave(w) ==
  /\ pc[w] = "got" /\ LeavesItem(item[w])
  /\ pc' = [pc EXCEPT ![w] = "discard"]
  /\ status' = [t \in Tasks |-> IF t = item[w] THEN "cancelled" ELSE status[t]]
  /\ item' = [item EXCEPT ![w] = NoItem]
  /\ UNCHANGED <<pool, nbTasks, killer, waiting, earlier>>

\* `if grow: self.pool.add()`; what add() raises is logged
Grow(w) ==
  /\ pc[w] = "grow"
  /\ \E S \in IF AddAllowed THEN AddSets(1, workers, Absent) ELSE {{}} :
       /\ Start(S, workers)
       /\ pc' = Moved(w, "body", S)
  /\ UNCHANGED <<tasks, rank, sequence, unfinished, exit, working, maxWorkers,
                 item, status, killer, waiting, earlier>>

StartBody(w) ==
  /\ pc[w] = "body"
  /\ pc' = [pc EXCEPT ![w] = "running"]
  /\ nbTasks' = [nbTasks EXCEPT ![w] = IF @ < MaxTasks THEN @ + 1 ELSE @]
  /\ status' = [status EXCEPT ![item[w]] = "running"]
  /\ UNCHANGED <<pool, item, killer, waiting, earlier>>

\* func, callback and complete are over.  An Exception or SystemExit is
\* logged and the loop goes on; any other BaseException ends the thread.
FinishBody(w) ==
  /\ pc[w] = "running" /\ w \notin waiting
  /\ \A t \in Tasks : Parent[t] = item[w] => status[t] # "putting"
  /\ \E p \in {"ack", "ackDie"} : pc' = [pc EXCEPT ![w] = p]
  /\ status' = [status EXCEPT ![item[w]] = "done"]
  /\ item' = [item EXCEPT ![w] = NoItem]
  /\ UNCHANGED <<pool, nbTasks, killer, waiting, earlier>>

\* The inner finally, after a task that was worked on
Ack(w) ==
  /\ pc[w] \in {"ack", "ackDie"}
  /\ working' = working - 1
  /\ unfinished' = unfinished - 1
  /\ pc' = [pc EXCEPT ![w] = IF pc[w] = "ack" THEN "top" ELSE "exit"]
  /\ UNCHANGED <<tasks, rank, sequence, exit, killEvent, workers, maxWorkers,
                 item, nbTasks, status, killer, waiting, earlier>>

\* The inner finally, after an item that was left
Discard(w) ==
  /\ pc[w] = "discard"
  /\ unfinished' = unfinished - 1
  /\ pc' = [pc EXCEPT ![w] = "exit"]
  /\ UNCHANGED <<tasks, rank, sequence, exit, killEvent, workers, working,
                 maxWorkers, item, nbTasks, status, killer, waiting, earlier>>

\* Variant: a worker that leaves is never replaced
NeverReplaced == FALSE

NeedsReplacement == ~exit /\ tasks # {}

\* The outer finally: give the id back and, if work is queued, replace itself
Retire(w) ==
  /\ pc[w] = "exit"
  /\ \E S \in IF NeedsReplacement
              THEN AddSets(1, workers - 1, Absent \cup {w}) ELSE {{}} :
       /\ Start(S, workers - 1)
       /\ pc' = Moved(w, "absent", S)
  /\ UNCHANGED <<tasks, rank, sequence, unfinished, exit, working, maxWorkers,
                 item, status, killer, waiting, earlier>>

-----------------------------------------------------------------------------
(* kill(), set_max_workers() and killall().                                *)

Least(a, b) == IF a < b THEN a ELSE b

\* Variant: one too few
ExcessButOne(nb) == IF workers > nb THEN workers - nb - 1 ELSE 0

Excess(nb) == IF workers > nb THEN workers - nb ELSE 0

Kill(k) ==
  /\ killer[k].at = "idle"
  /\ \E nb \in 1 .. Cardinality(Workers) :
       killer' = [killer EXCEPT ![k] = [at |-> "put", nb |-> Least(nb, workers)]]
  /\ UNCHANGED <<pool, pc, item, nbTasks, status, waiting, earlier>>

SetMaxWorkers(k) ==
  /\ killer[k].at = "idle"
  /\ \E nb \in MaxChoices :
       /\ maxWorkers' = nb
       /\ killer' = [killer EXCEPT ![k] =
             [at |-> "count", nb |-> Excess(nb)]]
  /\ UNCHANGED <<tasks, rank, sequence, unfinished, exit, killEvent, workers,
                 working, pc, item, nbTasks, status, waiting, earlier>>

\* kill(excess), called by set_max_workers() after it released count_lock
KillExcess(k) ==
  /\ killer[k].at = "count"
  /\ killer' = [killer EXCEPT ![k] =
                  [at |-> "put", nb |-> Least(killer[k].nb, workers)]]
  /\ UNCHANGED <<pool, pc, item, nbTasks, status, waiting, earlier>>

\* One _put(stopping=True): False on exit, a retry when full
KillPut(k) ==
  /\ killer[k].at = "put" /\ killer[k].nb > 0
  /\ \/ /\ ~exit
        /\ Enqueue(<<k, killer[k].nb>>, FALSE)
        /\ killer' = [killer EXCEPT ![k].nb = @ - 1]
     \/ /\ exit
        /\ killer' = [killer EXCEPT ![k].nb = 0]
        /\ UNCHANGED <<tasks, unfinished, rank, sequence>>
  /\ UNCHANGED <<exit, killEvent, workers, working, maxWorkers, pc, item,
                 nbTasks, status, waiting, earlier>>

\* Variant: no refusal to a worker that would wait for its own pool
AnyCaller(c, wait) == c \in Workers => pc[c] = "running"

MayKillAll(c, wait) == c \in Workers => pc[c] = "running" /\ ~wait

\* killall(wait) called by thread c: set exit and drain the queue; with
\* wait = None go on to kill_event.wait(), which a worker may not do.
KillAll(c, wait) ==
  /\ c \notin waiting
  /\ MayKillAll(c, wait)
  /\ exit' = TRUE
  /\ tasks' = {}
  /\ rank' = [i \in Items |-> IF i \in tasks THEN 0 ELSE rank[i]]
  /\ unfinished' = unfinished - Cardinality(tasks)
  /\ status' = [t \in Tasks |-> IF t \in tasks THEN "cancelled" ELSE status[t]]
  /\ earlier' = [t \in Tasks |-> {}]
  /\ waiting' = IF wait THEN waiting \cup {c} ELSE waiting
  /\ UNCHANGED <<sequence, killEvent, workers, working, maxWorkers, pc, item,
                 nbTasks, killer>>

KillAllReturn(c) ==
  /\ c \in waiting /\ killEvent
  /\ waiting' = waiting \ {c}
  /\ UNCHANGED <<pool, pc, item, nbTasks, status, killer, earlier>>

-----------------------------------------------------------------------------

Submit(t) == Call(t) \/ PutRefused(t) \/ Put(t)

Work(w) == \/ Loop(w) \/ Get(w) \/ GetTimeout(w) \/ Admit(w) \/ Leave(w)
           \/ Grow(w) \/ StartBody(w) \/ FinishBody(w) \/ Ack(w)
           \/ Discard(w) \/ Retire(w)

Control(k) == Kill(k) \/ SetMaxWorkers(k) \/ KillExcess(k) \/ KillPut(k)

Next ==
  \/ \E t \in Tasks : Submit(t)
  \/ \E w \in Workers : Work(w)
  \/ \E k \in Kills : Control(k)
  \/ \E nb \in 1 .. Cardinality(Workers) : Add(nb)
  \/ \E c \in Stoppers \cup Workers :
       KillAllReturn(c) \/ \E wait \in BOOLEAN : KillAll(c, wait)

Spec == Init /\ [][Next]_vars

\* Threads run and callables terminate.  Nobody has to submit, kill or stop,
\* and a producer facing a full queue only polls: weak fairness, no queueing.
Fairness ==
  /\ \A t \in Tasks : WF_vars(Put(t) \/ PutRefused(t))
  /\ \A w \in Workers : WF_vars(Work(w))
  /\ \A k \in Kills : WF_vars(KillExcess(k) \/ KillPut(k))
  /\ \A c \in Stoppers \cup Workers : WF_vars(KillAllReturn(c))

FairSpec == Spec /\ Fairness

-----------------------------------------------------------------------------
(* Safety.                                                                 *)

Settled == {"done", "cancelled", "refused"}

\* The counters that kill(), grow, killable() and killall() decide from say
\* what the threads and the queue are, at every point where count_lock is
\* free: no start that fails, callable that raises, drain or early exit
\* leaves a phantom worker, a lost acknowledgement or a stale kill_event.
Accounting ==
  /\ workers = Cardinality(Live)
  /\ working = Cardinality(Admitted)
  /\ unfinished = Cardinality(tasks) + Cardinality(Holding)
  /\ killEvent <=> workers = 0

\* When killable() says so, no accepted task is queued, between its dequeue
\* and its callable, or before the end of its completion callback.
KillableIsIdle ==
  Killable => \A t \in Tasks : status[t] \in {"new", "putting"} \cup Settled

\* Once killall(None) may return, the pool is over: no thread is left to run
\* anything, nothing is queued and every task that was accepted is settled.
StoppedIsQuiet ==
  exit /\ killEvent =>
    /\ Live = {} /\ tasks = {} /\ unfinished = 0
    /\ \A t \in Tasks : status[t] \notin {"accepted", "claimed", "running"}

\* A queued task always has a live worker, whatever kills, recycling and
\* BaseExceptions retire, as long as no Thread.start() fails.
Attended == ~StartMayFail /\ ~exit /\ tasks \cap Tasks # {} => workers > 0

\* What killall(None) has waited for is for good: no add(), replacement, growth
\* or submission starts a thread on a pool that has stopped.
StopIsFinal == [][exit /\ killEvent => exit' /\ killEvent']_vars

\* While workers outnumber the limit set_max_workers() left, enough of them
\* are leaving, or will receive one of the WorkerExits queued or still to be
\* queued, even when limits change and workers retire in the meantime.
ShrinkCovered ==
  LET leaving == {w \in Workers : pc[w] \in {"discard", "ackDie", "exit"}}
      owed == {x \in Exits : \/ x \in tasks
                             \/ \E w \in Workers : item[w] = x
                             \/ x[2] <= killer[x[1]].nb}
  IN  ~exit => workers <= maxWorkers + Cardinality(leaving) + Cardinality(owed)

\* The pool keeps its contract: an accepted task runs exactly once, or was
\* cancelled by killall() and never runs; nothing is accepted or begun after.
ContractState ==
  [t \in Tasks |-> CASE status[t] \in {"new", "putting"} -> "pending"
                     [] status[t] \in {"claimed", "running"} -> "begun"
                     [] OTHER -> status[t]]

Contract == INSTANCE PoolContract WITH state <- ContractState, stopped <- exit

KeepsContract == Contract!Spec

\* A task taken from the queue leaves behind no task of the same or a lower
\* qpriority value that was already queued when its submission began: "equal
\* priorities preserve submission order".
SubmissionOrder ==
  [][\A t \in tasks \cap Tasks, a \in Tasks :
        /\ t \notin tasks' /\ ~exit' /\ a \in earlier[t] /\ a \in tasks'
        => IsQPriority /\ Prio[a] > Prio[t]]_vars

-----------------------------------------------------------------------------
(* Liveness, under FairSpec.                                               *)

\* An accepted task is run to its end or, if the pool is stopped, cancelled.
AcceptedSettles ==
  \A t \in Tasks : status[t] = "accepted" ~> status[t] \in {"done", "cancelled"}

\* A submission returns or raises; a full queue does not hold it forever.
SubmitReturns ==
  \A t \in Tasks : status[t] = "putting" ~> status[t] # "putting"

\* killall(None) returns.
KillAllReturns ==
  \A c \in Stoppers \cup Workers : c \in waiting ~> c \notin waiting

\* set_max_workers() takes effect.
Shrinks == (workers > maxWorkers) ~> (workers <= maxWorkers)
=============================================================================
