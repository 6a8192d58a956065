------------------------------- MODULE RWLock -------------------------------
(***************************************************************************)
(* sonicprobe.libs.moresynchro.RWLock: a reentrant readers-writer lock     *)
(* with timeouts that prefers writers, over one condition variable.        *)
(*                                                                         *)
(* A step is one passage through the condition's lock: from its acquire to *)
(* its release, or to the wait() that releases it, or from the return of   *)
(* wait() to the next of these.  Operators marked "Variant" are not part   *)
(* of the model: each is a defect that a property is shown to detect.      *)
(***************************************************************************)
EXTENDS Integers, Sequences, SequencesExt

CONSTANTS Threads, NoThread,
          MaxDepth   \* bound: how deep a thread nests its acquisitions

ASSUME ThreadsAssumption == NoThread \notin Threads /\ MaxDepth \in Nat \ {0}

VARIABLES
  readers,           \* __readers: acquisitions of each reader, 0 if no entry
  writer,            \* __writer
  writer_lock_count, \* __writer_lock_count
  pending_writers,   \* __pending_writers
  pc,                \* each thread: "idle", or in wait() of a call, or awoken
  timed              \* its call may end by a timeout or an interruption

vars == <<readers, writer, writer_lock_count, pending_writers, pc, timed>>

Pc == {"idle", "readWait", "readAwake", "writeWait", "writeAwake"}

TypeOK ==
  /\ readers \in [Threads -> Nat]
  /\ writer \in Threads \cup {NoThread}
  /\ writer_lock_count \in Nat
  /\ pending_writers \in Seq(Threads)
  /\ pc \in [Threads -> Pc]
  /\ timed \in [Threads -> BOOLEAN]

Init ==
  /\ readers = [t \in Threads |-> 0]
  /\ writer = NoThread /\ writer_lock_count = 0
  /\ pending_writers = <<>>
  /\ pc = [t \in Threads |-> "idle"]
  /\ timed = [t \in Threads |-> FALSE]

-----------------------------------------------------------------------------

\* pc once notify_all() has been called and t has moved to p
Notified(t, p) ==
  [u \in Threads |-> CASE u = t -> p
                       [] u # t /\ pc[u] = "readWait" -> "readAwake"
                       [] u # t /\ pc[u] = "writeWait" -> "writeAwake"
                       [] OTHER -> pc[u]]

\* Variant: readers overlook the writers that wait
ReadableNow(t) == writer = NoThread

\* Writers are given priority, but not over a thread that reads already
Readable(t) == writer = NoThread /\ (pending_writers = <<>> \/ readers[t] > 0)

\* Variant: a writer enters beside readers
WritableBesideReaders(t, pending) == writer = NoThread /\ Head(pending) = t

Writable(t, pending) ==
  /\ \A u \in Threads : readers[u] = 0
  /\ writer = NoThread
  /\ Head(pending) = t

Nesting(t) == readers[t] < MaxDepth /\ (writer = t => writer_lock_count < MaxDepth)

\* The writer takes the lock again, for reading or writing
Reenter(t) ==
  /\ pc[t] = "idle" /\ Nesting(t)
  /\ writer = t
  /\ writer_lock_count' = writer_lock_count + 1
  /\ UNCHANGED <<readers, writer, pending_writers, pc, timed>>

GrantRead(t) ==
  /\ readers' = [readers EXCEPT ![t] = @ + 1]
  /\ pc' = [pc EXCEPT ![t] = "idle"]
  /\ UNCHANGED <<writer, writer_lock_count, pending_writers>>

\* acquire_read(); a timeout <= 0 that finds the lock taken changes nothing
AcquireRead(t) ==
  /\ pc[t] = "idle" /\ Nesting(t)
  /\ writer # t
  /\ timed' \in {[timed EXCEPT ![t] = b] : b \in BOOLEAN}
  /\ \/ Readable(t) /\ GrantRead(t)
     \/ /\ ~Readable(t)
        /\ pc' = [pc EXCEPT ![t] = "readWait"]
        /\ UNCHANGED <<readers, writer, writer_lock_count, pending_writers>>

\* The loop of acquire_read() after wait() returned; one that was interrupted
\* ends there, whatever the state of the lock
RetryRead(t) ==
  /\ pc[t] = "readAwake"
  /\ \/ Readable(t) /\ GrantRead(t)
     \/ /\ \/ ~Readable(t) /\ pc' = [pc EXCEPT ![t] = "readWait"]
           \/ timed[t] /\ pc' = [pc EXCEPT ![t] = "idle"]
        /\ UNCHANGED <<readers, writer, writer_lock_count, pending_writers>>
  /\ UNCHANGED timed

GrantWrite(t, pending) ==
  /\ writer' = t
  /\ writer_lock_count' = 1
  /\ pending_writers' = Tail(pending)
  /\ pc' = [pc EXCEPT ![t] = "idle"]
  /\ UNCHANGED readers

Position(t, pending) == CHOOSE i \in 1 .. Len(pending) : pending[i] = t

\* Variant: the wait is given up without a notification
AbandonQuietly(t, pending) ==
  /\ pending_writers' = RemoveAt(pending, Position(t, pending))
  /\ pc' = [pc EXCEPT ![t] = "idle"]
  /\ UNCHANGED <<readers, writer, writer_lock_count>>

\* Variant: the writer is left among those that wait
AbandonStillPending(t, pending) ==
  /\ pending_writers' = pending
  /\ pc' = Notified(t, "idle")
  /\ UNCHANGED <<readers, writer, writer_lock_count>>

\* The finally of acquire_write() when the lock was not obtained
Abandon(t, pending) ==
  /\ pending_writers' = RemoveAt(pending, Position(t, pending))
  /\ pc' = Notified(t, "idle")
  /\ UNCHANGED <<readers, writer, writer_lock_count>>

\* acquire_write(); promotion of a reader is refused and changes nothing
AcquireWrite(t) ==
  /\ pc[t] = "idle"
  /\ writer # t /\ readers[t] = 0
  /\ timed' \in {[timed EXCEPT ![t] = b] : b \in BOOLEAN}
  /\ LET pending == Append(pending_writers, t)
     IN  \/ Writable(t, pending) /\ GrantWrite(t, pending)
         \/ /\ ~Writable(t, pending)
            /\ \/ /\ pending_writers' = pending
                  /\ pc' = [pc EXCEPT ![t] = "writeWait"]
                  /\ UNCHANGED <<readers, writer, writer_lock_count>>
               \/ timed'[t] /\ Abandon(t, pending)

RetryWrite(t) ==
  /\ pc[t] = "writeAwake"
  /\ \/ Writable(t, pending_writers) /\ GrantWrite(t, pending_writers)
     \/ /\ ~Writable(t, pending_writers)
        /\ pc' = [pc EXCEPT ![t] = "writeWait"]
        /\ UNCHANGED <<readers, writer, writer_lock_count, pending_writers>>
     \/ timed[t] /\ Abandon(t, pending_writers)
  /\ UNCHANGED timed

\* wait(remaining) returns unnotified, or is interrupted
WaitOver(t) ==
  /\ timed[t] /\ pc[t] \in {"readWait", "writeWait"}
  /\ pc' = [pc EXCEPT ![t] = IF @ = "readWait" THEN "readAwake" ELSE "writeAwake"]
  /\ UNCHANGED <<readers, writer, writer_lock_count, pending_writers, timed>>

ReleaseWrite(t) ==
  /\ pc[t] = "idle" /\ writer = t
  /\ writer_lock_count' = writer_lock_count - 1
  /\ IF writer_lock_count' = 0
     THEN writer' = NoThread /\ pc' = Notified(t, "idle")
     ELSE UNCHANGED <<writer, pc>>
  /\ UNCHANGED <<readers, pending_writers, timed>>

Reads(t) == readers[t] > 0

ReleaseRead(t) ==
  /\ pc[t] = "idle" /\ writer # t /\ Reads(t)
  /\ readers' = [readers EXCEPT ![t] = @ - 1]
  /\ pc' = IF \A u \in Threads : readers'[u] = 0
           THEN Notified(t, "idle") ELSE pc
  /\ UNCHANGED <<writer, writer_lock_count, pending_writers, timed>>

-----------------------------------------------------------------------------

Retry(t) == RetryRead(t) \/ RetryWrite(t) \/ WaitOver(t)
Release(t) == ReleaseRead(t) \/ ReleaseWrite(t)

Next == \E t \in Threads :
          Reenter(t) \/ AcquireRead(t) \/ AcquireWrite(t) \/ Retry(t) \/ Release(t)

Spec == Init /\ [][Next]_vars

\* A thread that woke up eventually gets the condition's lock.  A thread that
\* holds the lock releases it in full again and again: the proviso of the
\* class comment, "which they eventually should free".
FinalRelease(t) == Release(t) /\ readers'[t] = 0 /\ writer' # t

Fairness == \A t \in Threads : /\ WF_vars(RetryRead(t) \/ RetryWrite(t))
                               /\ WF_vars(Release(t))
                               /\ SF_vars(FinalRelease(t))

FairSpec == Spec /\ Fairness

-----------------------------------------------------------------------------
(* Safety.                                                                 *)

\* A writer excludes every reader, itself included, and is counted exactly
\* while it holds the lock.
Exclusion ==
  /\ writer # NoThread => \A t \in Threads : readers[t] = 0
  /\ writer # NoThread <=> writer_lock_count > 0

\* No thread sleeps in wait() while its request could be granted: whatever
\* release, timeout or interruption made it possible has woken the thread.
NoLostWakeup ==
  \A t \in Threads :
    /\ pc[t] = "readWait" => ~Readable(t)
    /\ pc[t] = "writeWait" => ~Writable(t, pending_writers)

OnceEach(s) == \A i, j \in 1 .. Len(s) : s[i] = s[j] => i = j

InAcquireWrite == {t \in Threads : pc[t] \in {"writeWait", "writeAwake"}}

\* The writers that hold up new readers are the threads inside
\* acquire_write(), once each: none stays behind after a timeout.
PendingAreWaiting ==
  ToSet(pending_writers) = InAcquireWrite /\ OnceEach(pending_writers)

\* The lock keeps the contract of a readers-writer lock, through nested
\* acquisitions, re-entry of the writer and abandoned waits.
Holds == [t \in Threads |-> IF writer = t THEN "write"
                            ELSE IF readers[t] > 0 THEN "read" ELSE "none"]

Contract == INSTANCE LockContract WITH holds <- Holds

KeepsContract == Contract!Spec

-----------------------------------------------------------------------------
(* Liveness, under FairSpec.                                               *)

\* A writer that waits without a timeout gets the lock: neither readers, who
\* may nest, nor other writers, who may come again or give up, starve it.
WriterServed ==
  \A t \in Threads :
    pc[t] \in {"writeWait", "writeAwake"} /\ ~timed[t] ~> writer = t
=============================================================================
