---------------------------- MODULE RWLockProofs ----------------------------
(***************************************************************************)
(* Theorems about RWLock, for any set of threads and any depth of nesting. *)
(***************************************************************************)
EXTENDS RWLock, SequenceTheorems, TLAPS

-----------------------------------------------------------------------------
(* Sequences without repetition, as __pending_writers is.                  *)

\* Appending a new element keeps each element once.
LEMMA AppendOnce ==
  ASSUME NEW T, NEW s \in Seq(T), OnceEach(s), NEW e \in T, e \notin ToSet(s)
  PROVE  /\ Append(s, e) \in Seq(T)
         /\ OnceEach(Append(s, e))
         /\ ToSet(Append(s, e)) = ToSet(s) \cup {e}
         /\ Append(s, e) # <<>>
         /\ Len(Append(s, e)) = Len(s) + 1
         /\ Append(s, e)[Len(s) + 1] = e
<1> DEFINE a == Append(s, e)
<1>1. /\ a \in Seq(T) /\ a # <<>>
      /\ Len(a) = Len(s) + 1
      /\ \A i \in 1 .. Len(s) : a[i] = s[i]
      /\ a[Len(s) + 1] = e
  BY AppendProperties
<1>2. Len(s) \in Nat /\ DOMAIN s = 1 .. Len(s) /\ DOMAIN a = 1 .. Len(s) + 1
  BY <1>1, LenProperties
<1> HIDE DEF a
<1>3. \A i \in 1 .. Len(s) : s[i] # e
  BY <1>2 DEF ToSet
<1>4. \A i \in 1 .. Len(s) + 1 : i \in 1 .. Len(s) \/ i = Len(s) + 1
  BY <1>2
<1>5. OnceEach(a)
  BY <1>1, <1>2, <1>3, <1>4 DEF OnceEach
<1>6. ToSet(a) = ToSet(s) \cup {e}
  <2>1. ToSet(a) \subseteq ToSet(s) \cup {e}
    BY <1>1, <1>2, <1>4 DEF ToSet
  <2>2. ToSet(s) \subseteq ToSet(a)
    <3> SUFFICES ASSUME NEW i \in 1 .. Len(s) PROVE s[i] \in ToSet(a)
      BY <1>2 DEF ToSet
    <3>1. i \in DOMAIN a /\ a[i] = s[i]
      BY <1>1, <1>2
    <3> QED
      BY <3>1 DEF ToSet
  <2>3. e \in ToSet(a)
    <3>1. Len(s) + 1 \in DOMAIN a
      BY <1>2
    <3> QED
      BY <1>1, <3>1 DEF ToSet
  <2> QED
    BY <2>1, <2>2, <2>3
<1> QED
  BY <1>1, <1>5, <1>6 DEF a

\* r is s without its k-th element
Without(r, s, k) ==
  /\ Len(r) = Len(s) - 1
  /\ \A i \in 1 .. Len(s) - 1 : r[i] = IF i < k THEN s[i] ELSE s[i + 1]

\* A sequence that lost one of its elements, which occurred once.
LEMMA LostOne ==
  ASSUME NEW T, NEW s \in Seq(T), OnceEach(s), NEW k \in 1 .. Len(s),
         NEW r \in Seq(T), Without(r, s, k)
  PROVE  OnceEach(r) /\ ToSet(r) = ToSet(s) \ {s[k]}
<1>1. /\ Len(s) \in Nat /\ DOMAIN s = 1 .. Len(s)
      /\ DOMAIN r = 1 .. Len(s) - 1
  BY LenProperties DEF Without
<1> DEFINE from(i) == IF i < k THEN i ELSE i + 1
<1>2. \A i \in 1 .. Len(s) - 1 :
         from(i) \in 1 .. Len(s) /\ from(i) # k /\ r[i] = s[from(i)]
  BY <1>1 DEF Without
<1>3. \A i, j \in 1 .. Len(s) - 1 : from(i) = from(j) => i = j
  BY <1>1
<1>4. \A j \in 1 .. Len(s) : j # k => \E i \in 1 .. Len(s) - 1 : from(i) = j
  <2> SUFFICES ASSUME NEW j \in 1 .. Len(s), j # k
               PROVE  \E i \in 1 .. Len(s) - 1 : from(i) = j
    OBVIOUS
  <2>1. CASE j < k
    <3>1. j \in 1 .. Len(s) - 1 /\ from(j) = j
      BY <1>1, <2>1
    <3> QED
      BY <3>1
  <2>2. CASE j > k
    <3>1. j - 1 \in 1 .. Len(s) - 1 /\ from(j - 1) = j
      BY <1>1, <2>2
    <3> QED
      BY <3>1
  <2> QED
    BY <1>1, <2>1, <2>2
<1> HIDE DEF from
<1>5. OnceEach(r)
  <2> SUFFICES ASSUME NEW i \in 1 .. Len(s) - 1, NEW j \in 1 .. Len(s) - 1,
                      r[i] = r[j]
               PROVE  i = j
    BY DEF OnceEach, Without
  <2>1. /\ from(i) \in 1 .. Len(s) /\ from(j) \in 1 .. Len(s)
        /\ s[from(i)] = s[from(j)]
    BY <1>2
  <2>2. from(i) = from(j)
    BY <2>1 DEF OnceEach
  <2> QED
    BY <1>3, <2>2
<1>6. ToSet(r) \subseteq ToSet(s) \ {s[k]}
  BY <1>1, <1>2 DEF ToSet, OnceEach
<1>7. ToSet(s) \ {s[k]} \subseteq ToSet(r)
  <2> SUFFICES ASSUME NEW j \in 1 .. Len(s), s[j] # s[k] PROVE s[j] \in ToSet(r)
    BY <1>1 DEF ToSet
  <2>1. PICK i \in 1 .. Len(s) - 1 : from(i) = j
    BY <1>4
  <2> QED
    BY <1>1, <1>2, <2>1 DEF ToSet
<1> QED
  BY <1>5, <1>6, <1>7

\* What RemoveAt returns.
LEMMA RemoveAtProperties ==
  ASSUME NEW T, NEW s \in Seq(T), NEW k \in 1 .. Len(s)
  PROVE  RemoveAt(s, k) \in Seq(T) /\ Without(RemoveAt(s, k), s, k)
<1>1. Len(s) \in Nat /\ \A i \in 1 .. Len(s) : s[i] \in T
  BY LenProperties, ElementOfSeq
<1>2. PICK a \in Seq(T) : /\ a = SubSeq(s, 1, k - 1)
                          /\ Len(a) = k - 1
                          /\ \A i \in 1 .. k - 1 : a[i] = s[i]
  <2>1. 1 \in Int /\ k - 1 \in Int /\ \A i \in 1 .. k - 1 : s[i] \in T
    BY <1>1
  <2> DEFINE a == SubSeq(s, 1, k - 1)
  <2>2. /\ a \in Seq(T) /\ Len(a) = IF 1 <= k - 1 THEN (k - 1) - 1 + 1 ELSE 0
        /\ \A i \in 1 .. (k - 1) - 1 + 1 : a[i] = s[1 + i - 1]
    BY <2>1, SubSeqProperties
  <2> HIDE DEF a
  <2>3. Len(a) = k - 1
    BY <2>2
  <2>4. ASSUME NEW i \in 1 .. k - 1 PROVE a[i] = s[i]
    <3>1. i \in 1 .. (k - 1) - 1 + 1 /\ 1 + i - 1 = i
      OBVIOUS
    <3> QED
      BY <2>2, <3>1
  <2> QED
    BY <2>2, <2>3, <2>4 DEF a
<1>3. PICK b \in Seq(T) : /\ b = SubSeq(s, k + 1, Len(s))
                          /\ Len(b) = Len(s) - k
                          /\ \A i \in 1 .. Len(s) - k : b[i] = s[k + i]
  <2>1. k + 1 \in Int /\ Len(s) \in Int /\ \A i \in k + 1 .. Len(s) : s[i] \in T
    BY <1>1
  <2> DEFINE b == SubSeq(s, k + 1, Len(s))
  <2>2. /\ b \in Seq(T)
        /\ Len(b) = IF k + 1 <= Len(s) THEN Len(s) - (k + 1) + 1 ELSE 0
        /\ \A i \in 1 .. Len(s) - (k + 1) + 1 : b[i] = s[(k + 1) + i - 1]
    BY <2>1, SubSeqProperties
  <2> HIDE DEF b
  <2>3. Len(b) = Len(s) - k
    BY <1>1, <2>2
  <2>4. ASSUME NEW i \in 1 .. Len(s) - k PROVE b[i] = s[k + i]
    <3>1. i \in 1 .. Len(s) - (k + 1) + 1 /\ (k + 1) + i - 1 = k + i
      BY <1>1
    <3> QED
      BY <2>2, <3>1
  <2> QED
    BY <2>2, <2>3, <2>4 DEF b
<1>4. RemoveAt(s, k) = a \o b
  BY <1>2, <1>3 DEF RemoveAt
<1>5. Len(a) = k - 1 /\ Len(b) = Len(s) - k /\ Len(a) + Len(b) = Len(s) - 1
  <2>1. Len(a) = k - 1
    BY <1>2
  <2>2. Len(b) = Len(s) - k
    BY <1>3
  <2> QED
    BY <1>1, <2>1, <2>2
<1>6. PICK r \in Seq(T) : /\ r = RemoveAt(s, k)
                          /\ Len(r) = Len(s) - 1
                          /\ \A i \in 1 .. Len(s) - 1 :
                               r[i] = IF i <= k - 1 THEN a[i] ELSE b[i - (k - 1)]
  <2> DEFINE r == a \o b
  <2>1. /\ r \in Seq(T) /\ Len(r) = Len(a) + Len(b)
        /\ \A i \in 1 .. Len(a) + Len(b) :
             r[i] = IF i <= Len(a) THEN a[i] ELSE b[i - Len(a)]
    BY ConcatProperties
  <2> HIDE DEF r
  <2>2. \A i \in 1 .. Len(s) - 1 :
           r[i] = IF i <= k - 1 THEN a[i] ELSE b[i - (k - 1)]
    BY <1>5, <2>1
  <2> QED
    BY <1>4, <1>5, <2>1, <2>2 DEF r
<1>7. ASSUME NEW i \in 1 .. Len(s) - 1
      PROVE  r[i] = IF i < k THEN s[i] ELSE s[i + 1]
  <2>1. CASE i < k
    <3>1. i \in 1 .. k - 1 /\ i <= k - 1
      BY <2>1
    <3> QED
      BY <1>2, <1>6, <2>1, <3>1
  <2>2. CASE ~ (i < k)
    <3>1. i - (k - 1) \in 1 .. Len(s) - k /\ ~ (i <= k - 1)
      BY <1>1, <2>2
    <3>2. k + (i - (k - 1)) = i + 1
      OBVIOUS
    <3>3. r[i] = b[i - (k - 1)]
      BY <1>6, <3>1
    <3>4. b[i - (k - 1)] = s[i + 1]
      BY <1>3, <3>1, <3>2
    <3> QED
      BY <2>2, <3>3, <3>4
  <2> QED
    BY <2>1, <2>2
<1> QED
  BY <1>6, <1>7 DEF Without

\* list.remove() of a thread that waits takes that thread out, and no other.
LEMMA RemoveOnce ==
  ASSUME NEW T, NEW s \in Seq(T), OnceEach(s), NEW e \in ToSet(s)
  PROVE  /\ RemoveAt(s, Position(e, s)) \in Seq(T)
         /\ OnceEach(RemoveAt(s, Position(e, s)))
         /\ ToSet(RemoveAt(s, Position(e, s))) = ToSet(s) \ {e}
<1>1. DOMAIN s = 1 .. Len(s)
  BY LenProperties
<1>2. PICK k \in 1 .. Len(s) : k = Position(e, s) /\ s[k] = e
  BY <1>1 DEF ToSet, Position
<1>3. PICK r \in Seq(T) : r = RemoveAt(s, k) /\ Without(r, s, k)
  BY <1>2, RemoveAtProperties
<1>4. Without(r, s, k) => OnceEach(r) /\ ToSet(r) = ToSet(s) \ {s[k]}
  BY ONLY OnceEach(s), LostOne, Zenon
<1> QED
  BY <1>2, <1>3, <1>4

\* The first element leaves, and no other.
LEMMA TailOnce ==
  ASSUME NEW T, NEW s \in Seq(T), OnceEach(s), s # <<>>
  PROVE  /\ Tail(s) \in Seq(T) /\ OnceEach(Tail(s))
         /\ ToSet(Tail(s)) = ToSet(s) \ {Head(s)}
<1>1. Len(s) \in Nat \ {0}
  BY EmptySeq
<1>2. PICK r \in Seq(T) : r = Tail(s) /\ Without(r, s, 1)
  <2> DEFINE r == Tail(s)
  <2>1. /\ r \in Seq(T) /\ Len(r) = Len(s) - 1
        /\ \A i \in 1 .. Len(r) : r[i] = s[i + 1]
    BY HeadTailProperties
  <2> HIDE DEF r
  <2> QED
    <3>1. Without(r, s, 1)
      BY <1>1, <2>1 DEF Without
    <3> QED
      BY <2>1, <3>1 DEF r
<1>3. 1 \in 1 .. Len(s) /\ Head(s) = s[1]
  BY <1>1
<1>4. \A k \in 1 .. Len(s) :
        Without(r, s, k) => OnceEach(r) /\ ToSet(r) = ToSet(s) \ {s[k]}
  BY ONLY OnceEach(s), LostOne, Zenon
<1>5. OnceEach(r) /\ ToSet(r) = ToSet(s) \ {s[1]}
  BY <1>2, <1>3, <1>4, Zenon
<1> QED
  BY <1>2, <1>3, <1>5

-----------------------------------------------------------------------------
(* The inductive invariant.                                                *)

IInv == TypeOK /\ Exclusion /\ PendingAreWaiting /\ NoLostWakeup

\* What notify_all() does to each thread.
LEMMA NotifiedProperties ==
  ASSUME TypeOK, NEW t \in Threads
  PROVE  /\ Notified(t, "idle") \in [Threads -> Pc]
         /\ Notified(t, "idle")[t] = "idle"
         /\ \A u \in Threads :
              /\ Notified(t, "idle")[u] \notin {"readWait", "writeWait"}
              /\ u # t => (Notified(t, "idle")[u] \in {"writeWait", "writeAwake"}
                           <=> pc[u] \in {"writeWait", "writeAwake"})
BY DEF Notified, TypeOK, Pc

\* The invariant holds at construction.
LEMMA InitInv == Init => IInv
<1> SUFFICES ASSUME Init PROVE IInv
  OBVIOUS
<1>1. TypeOK
  BY ThreadsAssumption, EmptySeq DEF Init, TypeOK, Pc
<1>2. Exclusion /\ NoLostWakeup
  BY DEF Init, Exclusion, NoLostWakeup
<1>3. PendingAreWaiting
  <2>1. ToSet(pending_writers) = {} /\ Len(pending_writers) = 0
    BY DEF Init, ToSet
  <2>2. InAcquireWrite = {}
    BY DEF Init, InAcquireWrite
  <2> QED
    BY <2>1, <2>2 DEF PendingAreWaiting, OnceEach
<1> QED
  BY <1>1, <1>2, <1>3 DEF IInv

\* The writer enters again.
LEMMA ReenterInv ==
  ASSUME IInv, NEW t \in Threads, Reenter(t)
  PROVE  IInv'
<1> USE DEF IInv, TypeOK
<1>1. TypeOK'
  BY DEF Reenter
<1>2. Exclusion' /\ NoLostWakeup'
  BY ThreadsAssumption
     DEF Reenter, Exclusion, NoLostWakeup, Readable, Writable
<1>3. PendingAreWaiting'
  BY DEF Reenter, PendingAreWaiting, InAcquireWrite
<1> QED
  BY <1>1, <1>2, <1>3

\* A read lock is granted to a thread that is not the writer.
LEMMA GrantReadInv ==
  ASSUME IInv, NEW t \in Threads, Readable(t), GrantRead(t),
         pc[t] \in {"idle", "readAwake"}, timed' \in [Threads -> BOOLEAN]
  PROVE  IInv'
<1> USE DEF IInv, TypeOK
<1>1. TypeOK'
  <2>1. pc' \in [Threads -> Pc] /\ readers' \in [Threads -> Nat]
    BY DEF GrantRead, Pc
  <2> QED
    BY <2>1 DEF GrantRead
<1>2. Exclusion'
  BY DEF GrantRead, Exclusion, Readable
<1>3. PendingAreWaiting'
  <2>1. InAcquireWrite' = InAcquireWrite
    BY DEF GrantRead, InAcquireWrite
  <2> QED
    BY <2>1 DEF GrantRead, PendingAreWaiting
<1>4. NoLostWakeup'
  <2> SUFFICES ASSUME NEW u \in Threads
               PROVE  /\ pc'[u] = "readWait" => ~Readable(u)'
                      /\ pc'[u] = "writeWait" => ~Writable(u, pending_writers)'
    BY DEF NoLostWakeup
  <2>1. readers'[t] > 0 /\ u # t => readers'[u] = readers[u] /\ pc'[u] = pc[u]
    BY DEF GrantRead
  <2>2. pc'[t] = "idle" /\ readers'[t] # 0
    BY DEF GrantRead
  <2> QED
    BY <2>1, <2>2 DEF GrantRead, NoLostWakeup, Readable, Writable
<1> QED
  BY <1>1, <1>2, <1>3, <1>4

\* A thread that cannot read yet goes to sleep, or gives up.
LEMMA NoReadInv ==
  ASSUME IInv, NEW t \in Threads, pc[t] \in {"idle", "readAwake"},
         \/ ~Readable(t) /\ pc' = [pc EXCEPT ![t] = "readWait"]
         \/ pc' = [pc EXCEPT ![t] = "idle"],
         UNCHANGED <<readers, writer, writer_lock_count, pending_writers>>,
         timed' \in [Threads -> BOOLEAN]
  PROVE  IInv'
<1> USE DEF IInv, TypeOK
<1>1. TypeOK'
  <2>1. pc' \in [Threads -> Pc]
    BY DEF Pc
  <2>2. /\ readers' = readers /\ writer' = writer
        /\ writer_lock_count' = writer_lock_count
        /\ pending_writers' = pending_writers
    OBVIOUS
  <2> QED
    BY <2>1, <2>2
<1>2. Exclusion' /\ NoLostWakeup'
  BY DEF Exclusion, NoLostWakeup, Readable, Writable
<1>3. PendingAreWaiting'
  <2>1. InAcquireWrite' = InAcquireWrite
    BY DEF InAcquireWrite
  <2> QED
    BY <2>1 DEF PendingAreWaiting
<1> QED
  BY <1>1, <1>2, <1>3

\* The write lock is granted, to a thread that just arrived or that waited.
LEMMA GrantWriteInv ==
  ASSUME IInv, NEW t \in Threads, NEW pending \in Seq(Threads),
         OnceEach(pending), ToSet(pending) = InAcquireWrite \cup {t},
         pending # <<>>, Writable(t, pending), GrantWrite(t, pending),
         timed' \in [Threads -> BOOLEAN]
  PROVE  IInv'
<1> USE DEF IInv, TypeOK
<1>1. /\ pending_writers' \in Seq(Threads) /\ OnceEach(pending_writers')
      /\ ToSet(pending_writers') = (InAcquireWrite \cup {t}) \ {t}
  BY TailOnce DEF GrantWrite, Writable
<1>2. pc' \in [Threads -> Pc]
  BY DEF GrantWrite, Pc
<1>3. TypeOK'
  BY <1>1, <1>2 DEF GrantWrite
<1>4. Exclusion' /\ NoLostWakeup'
  BY ThreadsAssumption
     DEF GrantWrite, Writable, Exclusion, NoLostWakeup, Readable
<1>5. PendingAreWaiting'
  <2>1. InAcquireWrite' = (InAcquireWrite \cup {t}) \ {t}
    BY DEF GrantWrite, InAcquireWrite
  <2> QED
    BY <1>1, <2>1 DEF PendingAreWaiting
<1> QED
  BY <1>3, <1>4, <1>5

\* A wait for the write lock is given up, and everybody is notified.
LEMMA AbandonInv ==
  ASSUME IInv, NEW t \in Threads, NEW pending \in Seq(Threads),
         OnceEach(pending), ToSet(pending) = InAcquireWrite \cup {t},
         Abandon(t, pending), timed' \in [Threads -> BOOLEAN]
  PROVE  IInv'
<1> USE DEF IInv
<1>1. /\ pending_writers' \in Seq(Threads) /\ OnceEach(pending_writers')
      /\ ToSet(pending_writers') = (InAcquireWrite \cup {t}) \ {t}
  BY RemoveOnce DEF Abandon
<1>2. /\ pc' \in [Threads -> Pc] /\ pc'[t] = "idle"
      /\ \A u \in Threads :
           /\ pc'[u] \notin {"readWait", "writeWait"}
           /\ u # t => (pc'[u] \in {"writeWait", "writeAwake"}
                        <=> pc[u] \in {"writeWait", "writeAwake"})
  BY NotifiedProperties DEF Abandon
<1>3. TypeOK'
  BY <1>1, <1>2 DEF Abandon, TypeOK
<1>4. Exclusion' /\ NoLostWakeup'
  BY <1>2 DEF Abandon, Exclusion, NoLostWakeup
<1>5. PendingAreWaiting'
  <2>1. InAcquireWrite' = (InAcquireWrite \cup {t}) \ {t}
    BY <1>2 DEF InAcquireWrite
  <2> QED
    BY <1>1, <2>1 DEF PendingAreWaiting
<1> QED
  BY <1>3, <1>4, <1>5

\* acquire_read(), its first passage.
LEMMA AcquireReadInv ==
  ASSUME IInv, NEW t \in Threads, AcquireRead(t)
  PROVE  IInv'
<1>1. timed' \in [Threads -> BOOLEAN] /\ pc[t] = "idle"
  BY DEF AcquireRead, IInv, TypeOK
<1>2. CASE Readable(t) /\ GrantRead(t)
  BY <1>1, <1>2, GrantReadInv
<1>3. CASE /\ ~Readable(t)
           /\ pc' = [pc EXCEPT ![t] = "readWait"]
           /\ UNCHANGED <<readers, writer, writer_lock_count, pending_writers>>
  BY <1>1, <1>3, NoReadInv
<1> QED
  BY <1>2, <1>3 DEF AcquireRead

\* acquire_read(), after a wait.
LEMMA RetryReadInv ==
  ASSUME IInv, NEW t \in Threads, RetryRead(t)
  PROVE  IInv'
<1>1. timed' \in [Threads -> BOOLEAN] /\ pc[t] = "readAwake"
  BY DEF RetryRead, IInv, TypeOK
<1>2. CASE Readable(t) /\ GrantRead(t)
  BY <1>1, <1>2, GrantReadInv
<1>3. CASE /\ \/ ~Readable(t) /\ pc' = [pc EXCEPT ![t] = "readWait"]
              \/ timed[t] /\ pc' = [pc EXCEPT ![t] = "idle"]
           /\ UNCHANGED <<readers, writer, writer_lock_count, pending_writers>>
  BY <1>1, <1>3, NoReadInv
<1> QED
  BY <1>2, <1>3 DEF RetryRead

\* acquire_write(), its first passage: the thread joins __pending_writers.
LEMMA AcquireWriteInv ==
  ASSUME IInv, NEW t \in Threads, AcquireWrite(t)
  PROVE  IInv'
<1> DEFINE pending == Append(pending_writers, t)
<1>1. timed' \in [Threads -> BOOLEAN] /\ pc[t] = "idle"
  BY DEF AcquireWrite, IInv, TypeOK
<1>2. pending_writers \in Seq(Threads) /\ OnceEach(pending_writers)
      /\ ToSet(pending_writers) = InAcquireWrite /\ t \notin InAcquireWrite
  BY <1>1 DEF IInv, TypeOK, PendingAreWaiting, InAcquireWrite
<1>3. /\ pending \in Seq(Threads) /\ OnceEach(pending) /\ pending # <<>>
      /\ ToSet(pending) = InAcquireWrite \cup {t}
      /\ Len(pending) = Len(pending_writers) + 1
      /\ pending[Len(pending_writers) + 1] = t
  BY <1>2, AppendOnce
<1>4. \/ Writable(t, pending) /\ GrantWrite(t, pending)
      \/ /\ ~Writable(t, pending)
         /\ pending_writers' = pending
         /\ pc' = [pc EXCEPT ![t] = "writeWait"]
         /\ UNCHANGED <<readers, writer, writer_lock_count>>
      \/ Abandon(t, pending)
  BY DEF AcquireWrite
<1>5. \A u \in Threads : Head(pending) = u =>
           u = t \/ (pending_writers # <<>> /\ Head(pending_writers) = u)
  BY <1>2 DEF pending
<1> HIDE DEF pending
<1>6. CASE Writable(t, pending) /\ GrantWrite(t, pending)
  BY <1>1, <1>3, <1>6, GrantWriteInv
<1>7. CASE Abandon(t, pending)
  BY <1>1, <1>3, <1>7, AbandonInv
<1>8. CASE /\ ~Writable(t, pending)
           /\ pending_writers' = pending
           /\ pc' = [pc EXCEPT ![t] = "writeWait"]
           /\ UNCHANGED <<readers, writer, writer_lock_count>>
  <2> USE DEF IInv
  <2>1. pc' \in [Threads -> Pc]
    BY <1>8 DEF TypeOK, Pc
  <2>2. TypeOK'
    BY <1>1, <1>3, <1>8, <2>1 DEF TypeOK
  <2>3. Exclusion'
    BY <1>8 DEF Exclusion
  <2>4. NoLostWakeup'
    <3> SUFFICES ASSUME NEW u \in Threads
                 PROVE  /\ pc'[u] = "readWait" => ~Readable(u)'
                        /\ pc'[u] = "writeWait" => ~Writable(u, pending_writers)'
      BY DEF NoLostWakeup
    <3>1. CASE u = t
      BY <1>8, <3>1 DEF TypeOK, Writable
    <3>2. CASE u # t
      <4>1. pc'[u] = pc[u]
        BY <1>8, <3>2 DEF TypeOK
      <4>2. pc[u] = "readWait" => ~Readable(u)'
        BY <1>3, <1>8 DEF NoLostWakeup, Readable
      <4>3. pc[u] = "writeWait" => ~Writable(u, pending_writers)'
        BY <1>5, <1>8, <3>2 DEF NoLostWakeup, Writable
      <4> QED
        BY <4>1, <4>2, <4>3
    <3> QED
      BY <3>1, <3>2
  <2>5. PendingAreWaiting'
    <3>1. InAcquireWrite' = InAcquireWrite \cup {t}
      BY <1>8 DEF TypeOK, InAcquireWrite
    <3> QED
      BY <1>3, <1>8, <3>1 DEF PendingAreWaiting
  <2> QED
    BY <2>2, <2>3, <2>4, <2>5
<1> QED
  BY <1>4, <1>6, <1>7, <1>8

\* acquire_write(), after a wait: the thread is in __pending_writers.
LEMMA RetryWriteInv ==
  ASSUME IInv, NEW t \in Threads, RetryWrite(t)
  PROVE  IInv'
<1>1. timed' \in [Threads -> BOOLEAN] /\ pc[t] = "writeAwake"
  BY DEF RetryWrite, IInv, TypeOK
<1>2. /\ pending_writers \in Seq(Threads) /\ OnceEach(pending_writers)
      /\ ToSet(pending_writers) = InAcquireWrite \cup {t}
      /\ pending_writers # <<>>
  <2>1. t \in InAcquireWrite /\ ToSet(pending_writers) = InAcquireWrite
    BY <1>1 DEF IInv, PendingAreWaiting, InAcquireWrite
  <2>2. ToSet(<<>>) = {}
    BY DEF ToSet
  <2> QED
    BY <2>1, <2>2 DEF IInv, TypeOK, PendingAreWaiting
<1>3. CASE Writable(t, pending_writers) /\ GrantWrite(t, pending_writers)
  BY <1>1, <1>2, <1>3, GrantWriteInv
<1>4. CASE Abandon(t, pending_writers)
  BY <1>1, <1>2, <1>4, AbandonInv
<1>5. CASE /\ ~Writable(t, pending_writers)
           /\ pc' = [pc EXCEPT ![t] = "writeWait"]
           /\ UNCHANGED <<readers, writer, writer_lock_count, pending_writers>>
  <2> USE DEF IInv
  <2>1. pc' \in [Threads -> Pc]
    BY <1>5 DEF TypeOK, Pc
  <2>2. TypeOK'
    BY <1>1, <1>5, <2>1 DEF TypeOK
  <2>3. Exclusion' /\ NoLostWakeup'
    BY <1>5 DEF TypeOK, Exclusion, NoLostWakeup, Readable, Writable
  <2>4. InAcquireWrite' = InAcquireWrite
    BY <1>1, <1>5 DEF TypeOK, InAcquireWrite
  <2>5. PendingAreWaiting'
    BY <1>5, <2>4 DEF PendingAreWaiting
  <2> QED
    BY <2>2, <2>3, <2>5
<1> QED
  BY <1>3, <1>4, <1>5 DEF RetryWrite

\* wait() returns.
LEMMA WaitOverInv ==
  ASSUME IInv, NEW t \in Threads, WaitOver(t)
  PROVE  IInv'
<1> USE DEF IInv
<1>1. pc' \in [Threads -> Pc]
  BY DEF WaitOver, TypeOK, Pc
<1>2. TypeOK'
  BY <1>1 DEF WaitOver, TypeOK
<1>3. Exclusion' /\ NoLostWakeup'
  BY DEF WaitOver, TypeOK, Exclusion, NoLostWakeup, Readable, Writable
<1>4. InAcquireWrite' = InAcquireWrite
  BY DEF WaitOver, TypeOK, InAcquireWrite
<1>5. PendingAreWaiting'
  BY <1>4 DEF WaitOver, PendingAreWaiting
<1> QED
  BY <1>2, <1>3, <1>5

\* release() by the writer.
LEMMA ReleaseWriteInv ==
  ASSUME IInv, NEW t \in Threads, ReleaseWrite(t)
  PROVE  IInv'
<1> USE DEF IInv
<1>1. writer # NoThread /\ writer_lock_count > 0 /\ writer_lock_count \in Nat
      /\ pc[t] = "idle"
  BY ThreadsAssumption DEF ReleaseWrite, Exclusion, TypeOK
<1>2. CASE writer_lock_count - 1 = 0
  <2>1. /\ writer' = NoThread /\ writer_lock_count' = 0
        /\ pc' = Notified(t, "idle")
        /\ UNCHANGED <<readers, pending_writers, timed>>
    BY <1>2 DEF ReleaseWrite
  <2>2. TypeOK'
    BY <2>1, NotifiedProperties DEF TypeOK
  <2>3. Exclusion' /\ NoLostWakeup'
    BY <2>1, NotifiedProperties DEF Exclusion, NoLostWakeup
  <2>4. InAcquireWrite' = InAcquireWrite
    BY <1>1, <2>1, NotifiedProperties DEF InAcquireWrite
  <2>5. PendingAreWaiting'
    BY <2>1, <2>4 DEF PendingAreWaiting
  <2> QED
    BY <2>2, <2>3, <2>5
<1>3. CASE writer_lock_count - 1 # 0
  <2>1. /\ writer' = writer /\ writer_lock_count' = writer_lock_count - 1
        /\ pc' = pc
        /\ UNCHANGED <<readers, pending_writers, timed>>
    BY <1>3 DEF ReleaseWrite
  <2>2. TypeOK'
    BY <1>1, <1>3, <2>1 DEF TypeOK
  <2>3. Exclusion'
    BY <1>1, <1>3, <2>1 DEF Exclusion
  <2>4. NoLostWakeup' /\ PendingAreWaiting'
    BY <2>1 DEF NoLostWakeup, Readable, Writable, PendingAreWaiting, InAcquireWrite
  <2> QED
    BY <2>2, <2>3, <2>4
<1> QED
  BY <1>2, <1>3

\* release() by a reader.
LEMMA ReleaseReadInv ==
  ASSUME IInv, NEW t \in Threads, ReleaseRead(t)
  PROVE  IInv'
<1> USE DEF IInv
<1>1. /\ readers' \in [Threads -> Nat] /\ pc[t] = "idle"
      /\ \A u \in Threads : u # t => readers'[u] = readers[u]
      /\ UNCHANGED <<writer, writer_lock_count, pending_writers, timed>>
      /\ writer = NoThread
  BY DEF ReleaseRead, Reads, Exclusion, TypeOK
<1>2. CASE \A u \in Threads : readers'[u] = 0
  <2>1. pc' = Notified(t, "idle")
    BY <1>2 DEF ReleaseRead
  <2>2. TypeOK'
    BY <1>1, <2>1, NotifiedProperties DEF TypeOK
  <2>3. Exclusion' /\ NoLostWakeup'
    BY <1>1, <2>1, NotifiedProperties DEF Exclusion, NoLostWakeup
  <2>4. InAcquireWrite' = InAcquireWrite
    BY <1>1, <2>1, NotifiedProperties DEF InAcquireWrite
  <2>5. PendingAreWaiting'
    BY <1>1, <2>4 DEF PendingAreWaiting
  <2> QED
    BY <2>2, <2>3, <2>5
<1>3. CASE ~ \A u \in Threads : readers'[u] = 0
  <2>1. pc' = pc
    BY <1>3 DEF ReleaseRead
  <2>2. TypeOK' /\ Exclusion' /\ PendingAreWaiting'
    BY <1>1, <2>1 DEF TypeOK, Exclusion, PendingAreWaiting, InAcquireWrite
  <2>3. NoLostWakeup'
    BY <1>1, <1>3, <2>1 DEF NoLostWakeup, Readable, Writable
  <2> QED
    BY <2>2, <2>3
<1> QED
  BY <1>2, <1>3

\* Every step keeps the invariant.
LEMMA StepInv == IInv /\ [Next]_vars => IInv'
<1> SUFFICES ASSUME IInv, [Next]_vars PROVE IInv'
  OBVIOUS
<1>1. CASE UNCHANGED vars
  BY <1>1 DEF vars, IInv, TypeOK, Exclusion, PendingAreWaiting, InAcquireWrite,
              NoLostWakeup, Readable, Writable
<1>2. ASSUME NEW t \in Threads,
             \/ Reenter(t) \/ AcquireRead(t) \/ AcquireWrite(t)
             \/ Retry(t) \/ Release(t)
      PROVE  IInv'
  BY <1>2, ReenterInv, AcquireReadInv, RetryReadInv, AcquireWriteInv,
     RetryWriteInv, WaitOverInv, ReleaseReadInv, ReleaseWriteInv
     DEF Retry, Release
<1> QED
  BY <1>1, <1>2 DEF Next

\* The four facts together are an invariant of the lock: none is inductive by
\* itself.
THEOREM Invariant == Spec => []IInv
BY InitInv, StepInv, PTL DEF Spec

-----------------------------------------------------------------------------
(* What follows from it.                                                   *)

\* RWLock's variables keep their types; the count of a writer never drops
\* below zero, __pending_writers never becomes anything but threads.
THEOREM TypeCorrect == Spec => []TypeOK
BY Invariant, PTL DEF IInv

\* A writer excludes every reader, in every interleaving of any number of
\* threads, and however deep they nest.
THEOREM MutualExclusion == Spec => []Exclusion
BY Invariant, PTL DEF IInv

\* No release, timeout or interruption leaves a thread asleep whose request
\* it made grantable.
THEOREM NoneSleepsInVain == Spec => []NoLostWakeup
BY Invariant, PTL DEF IInv

\* No writer that gave up keeps readers out.
THEOREM NoGhostWriter == Spec => []PendingAreWaiting
BY Invariant, PTL DEF IInv

-----------------------------------------------------------------------------
(* RWLock implements LockContract.                                         *)

\* One thread's hold changes, and no other.
LEMMA OneHoldChanges ==
  ASSUME NEW t \in Threads, NEW h, Holds'[t] = h,
         \A u \in Threads : u # t => Holds'[u] = Holds[u]
  PROVE  Holds' = [Holds EXCEPT ![t] = h]
BY DEF Holds

\* A step of the lock is one of the contract, or changes nobody's hold.
LEMMA StepContract ==
  ASSUME IInv, Next
  PROVE  [Contract!Next]_Holds
<1> USE DEF IInv, TypeOK
<1>1. PICK t \in Threads : \/ Reenter(t) \/ AcquireRead(t) \/ AcquireWrite(t)
                          \/ Retry(t) \/ Release(t)
  BY DEF Next
<1>2. ASSUME UNCHANGED <<readers, writer>> PROVE Holds' = Holds
  BY <1>2 DEF Holds
<1>3. ASSUME Readable(t), GrantRead(t) PROVE [Contract!Next]_Holds
  <2>1. \A u \in Threads : Holds[u] # "write"
    BY <1>3, ThreadsAssumption DEF Readable, Holds
  <2>2. Holds' = [Holds EXCEPT ![t] = "read"]
    <3>1. readers'[t] > 0 /\ \A u \in Threads : u # t => readers'[u] = readers[u]
      BY <1>3 DEF GrantRead
    <3>2. writer = NoThread /\ writer' = NoThread
      BY <1>3 DEF Readable, GrantRead
    <3>3. Holds'[t] = "read" /\ \A u \in Threads : u # t => Holds'[u] = Holds[u]
      BY <3>1, <3>2, ThreadsAssumption DEF Holds
    <3> QED
      BY <3>3, OneHoldChanges
  <2> QED
    BY <2>1, <2>2 DEF Contract!Next, Contract!Read
<1>4. ASSUME NEW pending, Writable(t, pending), GrantWrite(t, pending)
      PROVE  [Contract!Next]_Holds
  <2>1. \A u \in Threads : Holds[u] = "none"
    BY <1>4, ThreadsAssumption DEF Writable, Holds
  <2>2. Holds' = [Holds EXCEPT ![t] = "write"]
    <3>1. Holds'[t] = "write"
      BY <1>4 DEF GrantWrite, Holds
    <3>2. \A u \in Threads : u # t => Holds'[u] = Holds[u]
      BY <1>4, ThreadsAssumption DEF Writable, GrantWrite, Holds
    <3> QED
      BY <3>1, <3>2, OneHoldChanges
  <2> QED
    BY <2>1, <2>2 DEF Contract!Next, Contract!Write
<1>5. ASSUME ReleaseRead(t) PROVE [Contract!Next]_Holds
  <2>1. writer = NoThread /\ writer' = NoThread
    BY <1>5 DEF ReleaseRead, Reads, Exclusion
  <2>2. CASE readers[t] = 1
    <3>1. Holds[t] = "read"
      BY <2>1, <2>2, ThreadsAssumption DEF Holds
    <3>2. Holds' = [Holds EXCEPT ![t] = "none"]
      <4>1. readers'[t] = 0 /\ \A u \in Threads : u # t => readers'[u] = readers[u]
        BY <1>5, <2>2 DEF ReleaseRead
      <4>2. Holds'[t] = "none" /\ \A u \in Threads : u # t => Holds'[u] = Holds[u]
        BY <2>1, <4>1, ThreadsAssumption DEF Holds
      <4> QED
        BY <4>2, OneHoldChanges
    <3> QED
      BY <3>1, <3>2 DEF Contract!Next, Contract!Release
  <2>3. CASE readers[t] # 1
    BY <1>5, <2>1, <2>3 DEF ReleaseRead, Reads, Holds
  <2> QED
    BY <2>2, <2>3
<1>6. ASSUME ReleaseWrite(t) PROVE [Contract!Next]_Holds
  <2>1. writer # NoThread /\ \A u \in Threads : readers[u] = 0
    BY <1>6, ThreadsAssumption DEF ReleaseWrite, Exclusion
  <2>2. CASE writer' = NoThread
    <3>1. Holds[t] = "write"
      BY <1>6 DEF ReleaseWrite, Holds
    <3>2. Holds' = [Holds EXCEPT ![t] = "none"]
      <4>1. writer = t /\ readers' = readers
        BY <1>6 DEF ReleaseWrite
      <4>2. Holds'[t] = "none" /\ \A u \in Threads : u # t => Holds'[u] = Holds[u]
        BY <2>1, <2>2, <4>1, ThreadsAssumption DEF Holds
      <4> QED
        BY <4>2, OneHoldChanges
    <3> QED
      BY <3>1, <3>2 DEF Contract!Next, Contract!Release
  <2>3. CASE writer' # NoThread
    BY <1>2, <1>6, <2>3 DEF ReleaseWrite
  <2> QED
    BY <2>2, <2>3
<1>7. ASSUME UNCHANGED <<readers, writer>> PROVE [Contract!Next]_Holds
  BY <1>2, <1>7
<1> QED
  BY <1>1, <1>3, <1>4, <1>5, <1>6, <1>7
     DEF Reenter, AcquireRead, AcquireWrite, Retry, RetryRead, RetryWrite,
         WaitOver, Release, Abandon

\* The lock implements its contract: whoever nests, waits, re-enters or gives
\* up, threads read together and write alone.
THEOREM ContractKept == Spec => KeepsContract
<1>1. Init => Contract!Init
  BY ThreadsAssumption DEF Init, Contract!Init, Holds
<1>2. IInv /\ [Next]_vars => [Contract!Next]_Holds
  <2> SUFFICES ASSUME IInv, [Next]_vars PROVE [Contract!Next]_Holds
    OBVIOUS
  <2>1. CASE UNCHANGED vars
    BY <2>1 DEF vars, Holds
  <2> QED
    BY <2>1, StepContract
<1> QED
  BY <1>1, <1>2, Invariant, PTL DEF Spec, KeepsContract, Contract!Spec
=============================================================================
