---------------------------- MODULE KeystoreProofs ----------------------------
(***************************************************************************)
(* Proofs about Keystore: who owns what, what the dicts retain, who sleeps *)
(* and who may block whom, for any threads, names and depth.               *)
(***************************************************************************)
EXTENDS Keystore, FiniteSetTheorems, TLAPS

\* The calls on a section
SectionCalls == Operations \cup Acquires

\* The threads inside _acquire_section() of n, and inside _acquire_global()
InSection(n) == {t \in Threads : at[t] = "section" /\ call[t].name = n}
InGlobal     == {t \in Threads : at[t] = "global"}

-----------------------------------------------------------------------------
(* The inductive invariant.                                                *)

\* A thread that waits is in a call of the kind that waits there, and one that
\* waits for a section refers to the lock object that the section has now.
Placed ==
  \A t \in Threads :
    /\ t \in asleep => at[t] # "idle"
    /\ at[t] = "enter" => call[t] \in Calls
    /\ at[t] = "global" => call[t] \in Globals
    /\ at[t] = "section" => /\ call[t] \in SectionCalls
                            /\ call[t].name \in DOMAIN waiters
                            /\ section_lock[t] = lock[call[t].name]

\* The registries count the threads that wait
Counts ==
  /\ \A n \in DOMAIN waiters : waiters[n] = Cardinality(InSection(n))
  /\ globalWaiters = Cardinality(InGlobal)

\* A lock object is the lock of one section and there is one for every section
\* that exists, is owned or is waited for, and for no other.
Retained ==
  /\ \A m, n \in DOMAIN lock : lock[m] = lock[n] => m = n
  /\ data \subseteq DOMAIN lock /\ DOMAIN owners \subseteq DOMAIN lock
  /\ DOMAIN waiters \subseteq DOMAIN lock
  /\ \A n \in DOMAIN lock :
       n \in data \/ n \in DOMAIN owners \/ \E t \in InSection(n) : TRUE

\* What a thread acquired, the lock object it holds and the registered owner agree
Owned ==
  /\ SectionExclusion
  /\ \A n \in DOMAIN owners : granted[owners[n][1]][n] = owners[n][2]
  /\ \A n \in DOMAIN lock, t \in Threads : held[lock[n]][t] = granted[t][n]

\* The owner of the store owns all that is owned
StoreOwned ==
  /\ globalOwner # NoThread => \A n \in DOMAIN owners : owners[n][1] = globalOwner
  /\ globalOwner = NoThread <=> globalDepth = 0

IInv == TypeOK /\ Placed /\ Counts /\ Retained /\ Owned /\ StoreOwned /\ NoLostWakeup

-----------------------------------------------------------------------------
(* The calls.                                                              *)

LEMMA CallTypes ==
  ASSUME NEW c \in Calls
  PROVE  /\ c.timed \in BOOLEAN
         /\ c.op = "global" => c \in Globals
         /\ c.op # "global" => c \in SectionCalls
BY KeystoreAssumption DEF Calls, SectionCalls, Operations, Acquires, Globals

LEMMA SectionCallTypes ==
  ASSUME NEW c \in SectionCalls
  PROVE  /\ c \in Calls /\ c.op # "global" /\ c.name \in Names
         /\ c.op = "acquire" => c.exists \in BOOLEAN
BY KeystoreAssumption DEF Calls, SectionCalls, Operations, Acquires

LEMMA GlobalTypes ==
  ASSUME NEW c \in Globals
  PROVE  c \in Calls /\ c.op = "global"
BY DEF Calls, Globals

-----------------------------------------------------------------------------
(* Threads that come and go.                                               *)

\* The others inside a call
Others(t, n)    == InSection(n) \ {t}
OthersGlobal(t) == InGlobal \ {t}

LEMMA ReturnMoves ==
  ASSUME TypeOK, NEW t \in Threads, NEW b \in BOOLEAN, Return(t, b)
  PROVE  /\ at' \in [Threads -> {"idle", "enter", "section", "global"}]
         /\ call' \in [Threads -> Calls \cup {NoCall}]
         /\ section_lock' \in [Threads -> Locks \cup {NoLock}]
         /\ asleep' \subseteq asleep /\ (b => asleep' = {}) /\ (~b => asleep' = asleep)
         /\ at'[t] = "idle"
         /\ \A u \in Threads \ {t} : /\ at'[u] = at[u] /\ call'[u] = call[u]
                                     /\ section_lock'[u] = section_lock[u]
BY DEF TypeOK, Return

LEMMA SleepMoves ==
  ASSUME TypeOK, NEW t \in Threads, NEW p \in {"enter", "section", "global"},
         NEW c \in Calls, NEW l \in Locks \cup {NoLock}, Sleep(t, p, c, l)
  PROVE  /\ at' \in [Threads -> {"idle", "enter", "section", "global"}]
         /\ call' \in [Threads -> Calls \cup {NoCall}]
         /\ section_lock' \in [Threads -> Locks \cup {NoLock}]
         /\ asleep' = asleep \cup {t} /\ asleep' \subseteq Threads
         /\ at'[t] = p /\ call'[t] = c /\ section_lock'[t] = l
         /\ \A u \in Threads \ {t} : /\ at'[u] = at[u] /\ call'[u] = call[u]
                                     /\ section_lock'[u] = section_lock[u]
BY DEF TypeOK, Sleep

\* t alone moves
Alone(t) == \A u \in Threads \ {t} : at'[u] = at[u] /\ call'[u] = call[u]

LEMMA Members ==
  ASSUME NEW t \in Threads, Alone(t)
  PROVE  /\ InGlobal' = IF at'[t] = "global" THEN OthersGlobal(t) \cup {t} ELSE OthersGlobal(t)
         /\ \A n : InSection(n)' = IF at'[t] = "section" /\ call'[t].name = n
                                   THEN Others(t, n) \cup {t} ELSE Others(t, n)
BY DEF Alone, InGlobal, OthersGlobal, InSection, Others

LEMMA Elsewhere ==
  ASSUME NEW t \in Threads
  PROVE  /\ at[t] # "global" => OthersGlobal(t) = InGlobal
         /\ \A n : at[t] # "section" \/ call[t].name # n => Others(t, n) = InSection(n)
BY DEF InGlobal, OthersGlobal, InSection, Others

LEMMA Finite ==
  ASSUME IsFiniteSet(Threads), NEW t \in Threads
  PROVE  /\ IsFiniteSet(OthersGlobal(t)) /\ Cardinality(OthersGlobal(t)) \in Nat
         /\ Cardinality(OthersGlobal(t) \cup {t}) = Cardinality(OthersGlobal(t)) + 1
         /\ \A n : /\ IsFiniteSet(Others(t, n)) /\ Cardinality(Others(t, n)) \in Nat
                   /\ Cardinality(Others(t, n) \cup {t}) = Cardinality(Others(t, n)) + 1
                   /\ Cardinality(Others(t, n)) = 0 <=> Others(t, n) = {}
<1>1. \A S \in SUBSET Threads : IsFiniteSet(S) /\ Cardinality(S) \in Nat
                                /\ (Cardinality(S) = 0 <=> S = {})
                                /\ (t \notin S => Cardinality(S \cup {t}) = Cardinality(S) + 1)
  BY FS_Subset, FS_CardinalityType, FS_EmptySet, FS_AddElement
<1>2. OthersGlobal(t) \in SUBSET Threads /\ t \notin OthersGlobal(t)
  BY DEF OthersGlobal, InGlobal
<1>3. \A n : Others(t, n) \in SUBSET Threads /\ t \notin Others(t, n)
  BY DEF Others, InSection
<1> QED BY <1>1, <1>2, <1>3

-----------------------------------------------------------------------------
(* The registries, as t leaves them and before the others move.            *)

\* L is a dict of locks that the threads other than t agree with
Locking(t, L) ==
  /\ DOMAIN L \subseteq Names /\ L \in [DOMAIN L -> Locks]
  /\ \A m, n \in DOMAIN L : L[m] = L[n] => m = n
  /\ \A u \in Threads \ {t} : at[u] = "section" => /\ call[u].name \in DOMAIN L
                                                   /\ section_lock[u] = L[call[u].name]

\* W counts the waiters other than t
Counting(t, W) ==
  /\ W \in [DOMAIN W -> Nat]
  /\ \A m \in DOMAIN W : W[m] = Cardinality(Others(t, m))
  /\ \A u \in Threads \ {t} : at[u] = "section" => call[u].name \in DOMAIN W

LEMMA LockingNow ==
  ASSUME IInv, NEW t \in Threads
  PROVE  Locking(t, lock)
BY DEF IInv, TypeOK, Placed, Retained, Locking

LEMMA LockingWith ==
  ASSUME IInv, NEW t \in Threads, NEW n \in Names, NEW l \in Ensured(n)
  PROVE  /\ l \in Locks /\ Locking(t, With(n, l))
         /\ DOMAIN With(n, l) = DOMAIN lock \cup {n} /\ With(n, l)[n] = l
         /\ \A m \in DOMAIN lock : With(n, l)[m] = lock[m]
<1> DEFINE L == With(n, l)
<1>0. DOMAIN lock \subseteq Names /\ lock \in [DOMAIN lock -> Locks]
  BY DEF IInv, TypeOK
<1>1. /\ l \in Locks
      /\ n \in DOMAIN lock => l = lock[n]
      /\ n \notin DOMAIN lock => \A m \in DOMAIN lock : lock[m] # l
  BY <1>0 DEF Ensured
<1>2. /\ L \in [DOMAIN lock \cup {n} -> Locks] /\ L[n] = l
      /\ \A m \in DOMAIN lock \ {n} : L[m] = lock[m]
  BY <1>0, <1>1 DEF With, Put
<1>3. /\ L \in [DOMAIN L -> Locks] /\ DOMAIN L = DOMAIN lock \cup {n} /\ L[n] = l
      /\ \A m \in DOMAIN lock : L[m] = lock[m]
  BY <1>1, <1>2
<1> HIDE DEF L
<1>4. Locking(t, L)
  BY <1>0, <1>1, <1>3 DEF Locking, IInv, Placed, Retained
<1> QED BY <1>1, <1>3, <1>4 DEF L

LEMMA CountingNow ==
  ASSUME IInv, NEW t \in Threads, at[t] # "section"
  PROVE  Counting(t, waiters)
<1>1. \A m : Others(t, m) = InSection(m)
  BY Elsewhere
<1> QED BY <1>1 DEF IInv, TypeOK, Placed, Counts, Counting

LEMMA CountingWith ==
  ASSUME IsFiniteSet(Threads), IInv, NEW t \in Threads, NEW n \in Names,
         at[t] = "section" => call[t].name = n,
         NEW k \in Nat, k = Cardinality(Others(t, n))
  PROVE  /\ Counting(t, Counted(n, k)) /\ DOMAIN Counted(n, k) = DOMAIN waiters \cup {n}
         /\ Counted(n, k)[n] = k
<1> DEFINE W == Counted(n, k)
<1>1. /\ W \in [DOMAIN waiters \cup {n} -> Nat] /\ W[n] = k
      /\ \A m \in DOMAIN waiters \ {n} : W[m] = waiters[m]
  BY DEF Counted, Put, IInv, TypeOK
<1>2. W \in [DOMAIN W -> Nat] /\ DOMAIN W = DOMAIN waiters \cup {n}
  BY <1>1
<1> HIDE DEF W
<1>3. \A m : m # n => Others(t, m) = InSection(m)
  BY Elsewhere
<1>4. Counting(t, W)
  BY <1>1, <1>2, <1>3 DEF Counting, IInv, Placed, Counts
<1> QED BY <1>1, <1>2, <1>4 DEF W

\* _cleanup_section() retains what is still wanted and nothing else
LEMMA Cleaned ==
  ASSUME IsFiniteSet(Threads), NEW t \in Threads, NEW n \in Names, NEW L, NEW W,
         Locking(t, L), Counting(t, W), DOMAIN W \subseteq DOMAIN L,
         data' \subseteq DOMAIN L, DOMAIN owners' \subseteq DOMAIN L,
         \A m \in DOMAIN L \ {n} : m \in data' \cup DOMAIN owners' \/ Others(t, m) # {},
         n \in DOMAIN W \/ Others(t, n) = {},
         Cleanup(n, L, W)
  PROVE  /\ Locking(t, lock') /\ Counting(t, waiters')
         /\ DOMAIN waiters' \subseteq DOMAIN lock'
         /\ data' \subseteq DOMAIN lock' /\ DOMAIN owners' \subseteq DOMAIN lock'
         /\ \A m \in DOMAIN lock' : m \in data' \cup DOMAIN owners' \/ Others(t, m) # {}
         /\ DOMAIN lock' \subseteq DOMAIN L /\ \A m \in DOMAIN lock' : lock'[m] = L[m]
<1>0. \A m : Cardinality(Others(t, m)) = 0 <=> Others(t, m) = {}
  BY Finite
<1>1. CASE Unused(n, data', owners', W)
  <2>1. lock' = Without(L, n) /\ waiters' = Without(W, n)
    BY <1>1 DEF Cleanup
  <2>2. Others(t, n) = {} /\ n \notin data' /\ n \notin DOMAIN owners'
    BY <1>0, <1>1 DEF Unused, Counting
  <2>3. /\ lock' \in [DOMAIN L \ {n} -> Locks]
        /\ \A m \in DOMAIN L \ {n} : lock'[m] = L[m]
    BY <2>1 DEF Locking, Without, Restrict
  <2>4. /\ waiters' \in [DOMAIN W \ {n} -> Nat]
        /\ \A m \in DOMAIN W \ {n} : waiters'[m] = W[m]
    BY <2>1 DEF Counting, Without, Restrict
  <2>5. \A u \in Threads \ {t} : at[u] = "section" => call[u].name # n
    BY <2>2 DEF Others, InSection
  <2>6. Locking(t, lock')
    BY <2>3, <2>5 DEF Locking
  <2>7. Counting(t, waiters')
    BY <2>4, <2>5 DEF Counting
  <2> QED BY <2>2, <2>3, <2>4, <2>6, <2>7
<1>2. CASE ~Unused(n, data', owners', W)
  <2>1. lock' = L /\ waiters' = W
    BY <1>2 DEF Cleanup
  <2>2. n \in data' \cup DOMAIN owners' \/ Others(t, n) # {}
    BY <1>0, <1>2 DEF Unused, Counting
  <2> QED BY <2>1, <2>2
<1> QED BY <1>1, <1>2

-----------------------------------------------------------------------------
(* What a step of t leaves true of the threads.                            *)

\* A call that is over leaves the registries with what is still wanted
LEMMA Returned ==
  ASSUME IsFiniteSet(Threads), IInv, NEW t \in Threads, NEW b \in BOOLEAN, Return(t, b),
         t \notin asleep,
         \/ at[t] # "global" /\ globalWaiters' = globalWaiters
         \/ globalWaiters' = Cardinality(OthersGlobal(t)),
         Locking(t, lock'), Counting(t, waiters'), DOMAIN waiters' \subseteq DOMAIN lock',
         data' \subseteq DOMAIN lock', DOMAIN owners' \subseteq DOMAIN lock',
         \A m \in DOMAIN lock' : m \in data' \cup DOMAIN owners' \/ Others(t, m) # {}
  PROVE  Placed' /\ Counts' /\ Retained'
<1>1. /\ asleep' \subseteq asleep /\ at'[t] = "idle" /\ Alone(t)
      /\ \A u \in Threads \ {t} : section_lock'[u] = section_lock[u]
  BY ReturnMoves DEF IInv, Alone
<1>2. /\ InGlobal' = OthersGlobal(t) /\ \A n : InSection(n)' = Others(t, n)
      /\ at[t] # "global" => OthersGlobal(t) = InGlobal
  BY <1>1, Members, Elsewhere
<1>3. Placed'
  <2> SUFFICES ASSUME NEW u \in Threads, u # t
               PROVE  /\ u \in asleep' => at'[u] # "idle"
                      /\ at'[u] = "enter" => call'[u] \in Calls
                      /\ at'[u] = "global" => call'[u] \in Globals
                      /\ at'[u] = "section" => /\ call'[u] \in SectionCalls
                                               /\ call'[u].name \in DOMAIN waiters'
                                               /\ section_lock'[u] = lock'[call'[u].name]
    BY <1>1 DEF Placed
  <2> QED BY <1>1 DEF IInv, Placed, Alone, Locking, Counting
<1>4. Counts'
  BY <1>2 DEF IInv, Counts, Counting
<1>5. Retained'
  BY <1>2 DEF Retained, Locking
<1> QED BY <1>3, <1>4, <1>5

\* What keeps a thread that sleeps from going on: a step without notify_all()
\* makes nothing available.
LEMMA StillBlocked ==
  ASSUME IInv, NEW u \in asleep, at'[u] = at[u], call'[u] = call[u],
         section_lock'[u] = section_lock[u],
         globalOwner' = globalOwner, globalWaiters' = 0 => globalWaiters = 0,
         \A l \in Locks, v \in Threads : held'[l][v] = 0 => held[l][v] = 0,
         data \subseteq data', DOMAIN owners \subseteq DOMAIN owners',
         \A n \in DOMAIN owners' : owners'[n][1] = u => n \in DOMAIN owners /\ owners[n][1] = u,
         \A n \in DOMAIN owners : owners'[n][1] = u <=> owners[n][1] = u
  PROVE  MustWait(u)'
<1>0. /\ u \in Threads /\ at[u] \in {"enter", "section", "global"}
      /\ at[u] = "section" => call[u] \in SectionCalls /\ section_lock[u] \in Locks
  BY SectionCallTypes DEF IInv, TypeOK, Placed, Retained
<1>1. OwnsSection(u)' => OwnsSection(u)
  BY DEF OwnsSection
<1>2. CanEnter(u)' => CanEnter(u)
  BY <1>1 DEF CanEnter
<1>3. CASE at[u] = "enter"
  <2>1. ~MayEnter(u, call[u])
    BY <1>3 DEF IInv, NoLostWakeup, MustWait
  <2> QED BY <1>2, <1>3, <2>1 DEF MayEnter, MustWait
<1>4. CASE at[u] = "section"
  <2>1. /\ ~Free(u, section_lock[u])
        /\ call[u].op = "acquire" /\ call[u].exists => call[u].name \in data
    BY <1>4 DEF IInv, NoLostWakeup, MustWait
  <2> QED BY <1>0, <1>2, <1>4, <2>1 DEF Free, MustWait
<1>5. CASE at[u] = "global"
  <2>1. ~Available(u) /\ ~OwnsSection(u)
    BY <1>5 DEF IInv, NoLostWakeup, MustWait
  <2> QED BY <1>1, <1>5, <2>1 DEF Available, MustWait
<1> QED BY <1>0, <1>3, <1>4, <1>5

-----------------------------------------------------------------------------
(* An iteration of _acquire_section(), the first or after a wait.          *)

Ready(t, c, l, k) ==
  /\ c \in SectionCalls
  /\ at[t] # "global" /\ t \notin asleep
  /\ at[t] = "section" => call[t].name = c.name
  /\ l \in Ensured(c.name)
  /\ k = Cardinality(Others(t, c.name))

LEMMA ReadyTypes ==
  ASSUME IsFiniteSet(Threads), NEW t \in Threads, NEW c, NEW l, NEW k, Ready(t, c, l, k)
  PROVE  c.name \in Names /\ c \in Calls /\ k \in Nat /\ c.op # "global"
BY SectionCallTypes, Finite DEF Ready

\* The lock object of the section, which is new if the section had none
LEMMA ReadyLock ==
  ASSUME IInv, NEW n \in Names, NEW l \in Ensured(n)
  PROVE  \A u \in Threads : held[l][u] = granted[u][n]
<1>1. /\ held \in [Locks -> [Threads -> Nat]] /\ granted \in [Threads -> [Names -> Nat]]
  BY DEF IInv, TypeOK
<1>2. CASE n \in DOMAIN lock
  BY <1>2 DEF IInv, Owned, Ensured
<1>3. CASE n \notin DOMAIN lock
  <2>1. \A u \in Threads : held[l][u] = 0
    BY <1>3 DEF Ensured
  <2>2. \A u \in Threads : ~(granted[u][n] > 0)
    BY <1>3 DEF IInv, Owned, SectionExclusion, Retained
  <2> QED BY <1>1, <2>1, <2>2
<1> QED BY <1>2, <1>3

LEMMA SectionCleaned ==
  ASSUME IsFiniteSet(Threads), IInv, NEW t \in Threads, NEW c, NEW l, NEW k,
         Ready(t, c, l, k), NEW n, n = c.name,
         data' \ {n} = data \ {n}, DOMAIN owners' \ {n} = DOMAIN owners \ {n},
         Cleanup(n, With(n, l), Counted(n, k))
  PROVE  /\ Locking(t, lock') /\ Counting(t, waiters')
         /\ DOMAIN waiters' \subseteq DOMAIN lock'
         /\ data' \subseteq DOMAIN lock' /\ DOMAIN owners' \subseteq DOMAIN lock'
         /\ \A m \in DOMAIN lock' : m \in data' \cup DOMAIN owners' \/ Others(t, m) # {}
         /\ \A m \in DOMAIN lock' : IF m = n THEN lock'[m] = l
                                    ELSE m \in DOMAIN lock /\ lock'[m] = lock[m]
<1> DEFINE L == With(n, l)
           W == Counted(n, k)
<1>0. n \in Names /\ k \in Nat /\ l \in Ensured(n) /\ k = Cardinality(Others(t, n))
      /\ (at[t] = "section" => call[t].name = n)
  BY ReadyTypes DEF Ready
<1>1. /\ Locking(t, L) /\ DOMAIN L = DOMAIN lock \cup {n} /\ L[n] = l
      /\ \A m \in DOMAIN lock : L[m] = lock[m]
  BY <1>0, LockingWith
<1>2. Counting(t, W) /\ DOMAIN W = DOMAIN waiters \cup {n}
  BY <1>0, CountingWith
<1> HIDE DEF L, W
<1>3. \A m \in DOMAIN L \ {n} : m \in data' \cup DOMAIN owners' \/ Others(t, m) # {}
  <2> SUFFICES ASSUME NEW m \in DOMAIN lock, m # n
               PROVE  m \in data' \cup DOMAIN owners' \/ Others(t, m) # {}
    BY <1>1
  <2>1. Others(t, m) = InSection(m)
    BY <1>0, Elsewhere
  <2> QED BY <2>1 DEF IInv, Retained
<1>4. /\ DOMAIN W \subseteq DOMAIN L /\ data' \subseteq DOMAIN L
      /\ DOMAIN owners' \subseteq DOMAIN L /\ n \in DOMAIN W
  BY <1>1, <1>2 DEF IInv, Retained
<1>5. Cleanup(n, L, W)
  BY DEF L, W
<1>6. /\ Locking(t, lock') /\ Counting(t, waiters')
      /\ DOMAIN waiters' \subseteq DOMAIN lock'
      /\ data' \subseteq DOMAIN lock' /\ DOMAIN owners' \subseteq DOMAIN lock'
      /\ \A m \in DOMAIN lock' : m \in data' \cup DOMAIN owners' \/ Others(t, m) # {}
      /\ DOMAIN lock' \subseteq DOMAIN L /\ \A m \in DOMAIN lock' : lock'[m] = L[m]
  BY <1>0, <1>1, <1>2, <1>3, <1>4, <1>5, Cleaned
<1> QED BY <1>1, <1>6

\* Who owns what is not touched
LEMMA SameOwners ==
  ASSUME IInv, UNCHANGED <<held, owners, granted>>, DOMAIN lock' \subseteq Names,
         \A m \in DOMAIN lock' : \/ m \in DOMAIN lock /\ lock'[m] = lock[m]
                                 \/ \A u \in Threads : held[lock'[m]][u] = granted[u][m]
  PROVE  Owned'
BY DEF IInv, Owned, SectionExclusion

\* Given up, at a deadline or because the section is gone
LEMMA GivenUp ==
  ASSUME IsFiniteSet(Threads), IInv, NEW t \in Threads, NEW c, NEW l, NEW k,
         Ready(t, c, l, k), NEW n, n = c.name, Return(t, FALSE),
         UNCHANGED <<data, held, owners, granted, globals>>,
         Cleanup(n, With(n, l), Counted(n, k))
  PROVE  IInv'
<1>0. n \in Names /\ l \in Ensured(n) /\ t \notin asleep /\ at[t] # "global"
  BY ReadyTypes DEF Ready
<1>1. /\ Locking(t, lock') /\ Counting(t, waiters')
      /\ DOMAIN waiters' \subseteq DOMAIN lock'
      /\ data' \subseteq DOMAIN lock' /\ DOMAIN owners' \subseteq DOMAIN lock'
      /\ \A m \in DOMAIN lock' : m \in data' \cup DOMAIN owners' \/ Others(t, m) # {}
      /\ \A m \in DOMAIN lock' : IF m = n THEN lock'[m] = l
                                 ELSE m \in DOMAIN lock /\ lock'[m] = lock[m]
  BY SectionCleaned
<1>2. Placed' /\ Counts' /\ Retained'
  BY <1>0, <1>1, Returned DEF globals
<1>3. TypeOK'
  <2>1. /\ at' \in [Threads -> {"idle", "enter", "section", "global"}]
        /\ call' \in [Threads -> Calls \cup {NoCall}]
        /\ section_lock' \in [Threads -> Locks \cup {NoLock}] /\ asleep' \subseteq asleep
    BY ReturnMoves DEF IInv
  <2>2. /\ DOMAIN lock' \subseteq Names /\ lock' \in [DOMAIN lock' -> Locks]
        /\ DOMAIN waiters' \subseteq Names /\ waiters' \in [DOMAIN waiters' -> Nat]
    BY <1>1 DEF Locking, Counting
  <2> QED BY <2>1, <2>2 DEF IInv, TypeOK, globals
<1>4. Owned'
  <2>1. \A u \in Threads : held[l][u] = granted[u][n]
    BY <1>0, ReadyLock
  <2> QED BY <1>1, <2>1, SameOwners DEF Locking
<1>5. StoreOwned'
  BY DEF IInv, StoreOwned, globals
<1>6. NoLostWakeup'
  <2> SUFFICES ASSUME NEW u \in asleep' PROVE MustWait(u)'
    BY DEF NoLostWakeup
  <2>1. u \in asleep /\ at'[u] = at[u] /\ call'[u] = call[u] /\ section_lock'[u] = section_lock[u]
    BY <1>0, ReturnMoves DEF IInv, TypeOK
  <2> QED BY <2>1, StillBlocked DEF globals
<1> QED BY <1>2, <1>3, <1>4, <1>5, <1>6 DEF IInv

\* The operation is done, and with the section released all wake up
LEMMA Operated ==
  ASSUME IsFiniteSet(Threads), IInv, NEW t \in Threads, NEW c, NEW l, NEW k,
         Ready(t, c, l, k), NEW n, n = c.name, Return(t, TRUE), Operate(c),
         UNCHANGED <<held, owners, granted, globals>>,
         Cleanup(n, With(n, l), Counted(n, k))
  PROVE  IInv'
<1>0. n \in Names /\ l \in Ensured(n) /\ t \notin asleep /\ at[t] # "global"
  BY ReadyTypes DEF Ready
<1>1. data' \subseteq Names /\ data' \ {n} = data \ {n}
  BY <1>0 DEF Operate, IInv, TypeOK
<1>2. /\ Locking(t, lock') /\ Counting(t, waiters')
      /\ DOMAIN waiters' \subseteq DOMAIN lock'
      /\ data' \subseteq DOMAIN lock' /\ DOMAIN owners' \subseteq DOMAIN lock'
      /\ \A m \in DOMAIN lock' : m \in data' \cup DOMAIN owners' \/ Others(t, m) # {}
      /\ \A m \in DOMAIN lock' : IF m = n THEN lock'[m] = l
                                 ELSE m \in DOMAIN lock /\ lock'[m] = lock[m]
  BY <1>1, SectionCleaned
<1>3. Placed' /\ Counts' /\ Retained'
  BY <1>0, <1>2, Returned DEF globals
<1>4. asleep' = {}
  BY DEF Return
<1>5. TypeOK'
  <2>1. /\ at' \in [Threads -> {"idle", "enter", "section", "global"}]
        /\ call' \in [Threads -> Calls \cup {NoCall}]
        /\ section_lock' \in [Threads -> Locks \cup {NoLock}]
    BY ReturnMoves DEF IInv
  <2>2. /\ DOMAIN lock' \subseteq Names /\ lock' \in [DOMAIN lock' -> Locks]
        /\ DOMAIN waiters' \subseteq Names /\ waiters' \in [DOMAIN waiters' -> Nat]
    BY <1>2 DEF Locking, Counting
  <2> QED BY <1>1, <1>4, <2>1, <2>2 DEF IInv, TypeOK, globals
<1>6. Owned'
  <2>1. \A u \in Threads : held[l][u] = granted[u][n]
    BY <1>0, ReadyLock
  <2> QED BY <1>2, <2>1, SameOwners DEF Locking
<1>7. StoreOwned'
  BY DEF IInv, StoreOwned, globals
<1>8. NoLostWakeup'
  BY <1>4 DEF NoLostWakeup
<1> QED BY <1>3, <1>5, <1>6, <1>7, <1>8 DEF IInv

\* The section is acquired, once more if it is a thread's that owns it
LEMMA Acquired ==
  ASSUME IsFiniteSet(Threads), IInv, NEW t \in Threads, NEW c, NEW l, NEW k,
         Ready(t, c, l, k), c.op = "acquire", Free(t, l), UNCHANGED globals,
         Got(t, c, l, With(c.name, l), k)
  PROVE  IInv'
<1> DEFINE n == c.name
           depth == IF n \in DOMAIN owners THEN owners[n][2] ELSE 0
<1>0. /\ n \in Names /\ l \in Ensured(n) /\ l \in Locks /\ t \notin asleep
      /\ at[t] # "global" /\ c.exists \in BOOLEAN
      /\ \A m \in DOMAIN lock \ {n} : lock[m] # l
  BY ReadyTypes, SectionCallTypes DEF Ready, Ensured, IInv, TypeOK, Retained
<1>1. /\ held' = [held EXCEPT ![l][t] = @ + 1]
      /\ owners' = Put(owners, n, <<t, depth + 1>>)
      /\ granted' = [granted EXCEPT ![t][n] = @ + 1]
      /\ data' = IF c.exists THEN data ELSE data \cup {n}
      /\ Cleanup(n, With(n, l), Counted(n, k))
      /\ Return(t, FALSE)
  BY DEF Got
<1> HIDE DEF n
<1>a. \A u \in Threads : held[l][u] = granted[u][n]
  BY <1>0, ReadyLock
<1>b. /\ \A u \in Threads \ {t} : granted[u][n] = 0
      /\ globalOwner \in {NoThread, t}
  BY <1>a DEF Free, CanEnter
<1>c. /\ held \in [Locks -> [Threads -> Nat]] /\ granted \in [Threads -> [Names -> Nat]]
      /\ owners \in [DOMAIN owners -> Threads \X (Nat \ {0})] /\ DOMAIN owners \subseteq Names
  BY DEF IInv, TypeOK
<1>d. granted[t][n] = depth /\ depth \in Nat
      /\ (n \in DOMAIN owners => owners[n] = <<t, depth>>)
  <2>1. CASE n \in DOMAIN owners
    <3>1. /\ owners[n][1] \in Threads /\ owners[n][2] \in Nat \ {0}
          /\ owners[n] = <<owners[n][1], owners[n][2]>>
      BY <1>c, <2>1
    <3>2. granted[owners[n][1]][n] = owners[n][2]
      BY <2>1 DEF IInv, Owned
    <3>3. owners[n][1] = t
      BY <1>b, <3>1, <3>2
    <3> QED BY <2>1, <3>1, <3>2, <3>3
  <2>2. CASE n \notin DOMAIN owners
    <3>1. ~(granted[t][n] > 0)
      BY <1>0, <2>2 DEF IInv, Owned, SectionExclusion
    <3> QED BY <1>0, <1>c, <2>2, <3>1
  <2> QED BY <2>1, <2>2
<1> HIDE DEF depth
<1>e. /\ DOMAIN owners' = DOMAIN owners \cup {n}
      /\ owners' \in [DOMAIN owners' -> Threads \X (Nat \ {0})]
      /\ owners'[n] = <<t, depth + 1>>
      /\ \A m \in DOMAIN owners \ {n} : owners'[m] = owners[m]
  BY <1>1, <1>c, <1>d DEF Put
<1>f. /\ granted' \in [Threads -> [Names -> Nat]] /\ granted'[t][n] = depth + 1
      /\ \A u \in Threads, m \in Names : u # t \/ m # n => granted'[u][m] = granted[u][m]
  BY <1>0, <1>1, <1>c, <1>d
<1>g. /\ held' \in [Locks -> [Threads -> Nat]] /\ held'[l][t] = depth + 1
      /\ \A u \in Threads, j \in Locks : u # t \/ j # l => held'[j][u] = held[j][u]
  BY <1>0, <1>1, <1>a, <1>c, <1>d
<1>h. data' \subseteq Names /\ data' \ {n} = data \ {n} /\ data \subseteq data'
  BY <1>0, <1>1 DEF IInv, TypeOK
<1>2. /\ Locking(t, lock') /\ Counting(t, waiters')
      /\ DOMAIN waiters' \subseteq DOMAIN lock'
      /\ data' \subseteq DOMAIN lock' /\ DOMAIN owners' \subseteq DOMAIN lock'
      /\ \A m \in DOMAIN lock' : m \in data' \cup DOMAIN owners' \/ Others(t, m) # {}
      /\ \A m \in DOMAIN lock' : IF m = n THEN lock'[m] = l
                                 ELSE m \in DOMAIN lock /\ lock'[m] = lock[m]
  BY <1>1, <1>e, <1>h, SectionCleaned DEF n
<1>3. Placed' /\ Counts' /\ Retained'
  BY <1>0, <1>1, <1>2, Returned DEF globals
<1>4. TypeOK'
  <2>1. /\ at' \in [Threads -> {"idle", "enter", "section", "global"}]
        /\ call' \in [Threads -> Calls \cup {NoCall}]
        /\ section_lock' \in [Threads -> Locks \cup {NoLock}] /\ asleep' \subseteq asleep
    BY <1>1, ReturnMoves DEF IInv
  <2>2. /\ DOMAIN lock' \subseteq Names /\ lock' \in [DOMAIN lock' -> Locks]
        /\ DOMAIN waiters' \subseteq Names /\ waiters' \in [DOMAIN waiters' -> Nat]
    BY <1>2 DEF Locking, Counting
  <2> QED BY <1>0, <1>c, <1>e, <1>f, <1>g, <1>h, <2>1, <2>2 DEF IInv, TypeOK, globals
<1>5. Owned'
  <2>1. SectionExclusion'
    BY <1>c, <1>e, <1>f, <1>b DEF IInv, Owned, SectionExclusion
  <2>2. \A m \in DOMAIN owners' : granted'[owners'[m][1]][m] = owners'[m][2]
    BY <1>0, <1>c, <1>e, <1>f DEF IInv, Owned
  <2>3. \A m \in DOMAIN lock', u \in Threads : held'[lock'[m]][u] = granted'[u][m]
    BY <1>0, <1>2, <1>a, <1>d, <1>f, <1>g DEF IInv, TypeOK, Owned, Locking
  <2> QED BY <2>1, <2>2, <2>3 DEF Owned
<1>6. StoreOwned'
  BY <1>b, <1>e DEF IInv, StoreOwned, globals
<1>7. NoLostWakeup'
  <2> SUFFICES ASSUME NEW u \in asleep' PROVE MustWait(u)'
    BY DEF NoLostWakeup
  <2>1. /\ u \in asleep /\ u \in Threads /\ u # t
        /\ at'[u] = at[u] /\ call'[u] = call[u] /\ section_lock'[u] = section_lock[u]
    BY <1>0, <1>1, ReturnMoves DEF IInv, TypeOK
  <2>2. \A j \in Locks, v \in Threads : held'[j][v] = 0 => held[j][v] = 0
    BY <1>d, <1>g
  <2>3. \A m \in DOMAIN owners' : owners'[m][1] = u => m \in DOMAIN owners /\ owners[m][1] = u
    BY <1>e, <2>1
  <2>4. \A m \in DOMAIN owners : owners'[m][1] = u <=> owners[m][1] = u
    BY <1>d, <1>e, <2>1
  <2> QED BY <1>e, <1>h, <2>1, <2>2, <2>3, <2>4, StillBlocked DEF globals
<1> QED BY <1>3, <1>4, <1>5, <1>6, <1>7 DEF IInv

\* The thread waits for the section
LEMMA Waits ==
  ASSUME IsFiniteSet(Threads), IInv, NEW t \in Threads, NEW c, NEW l, NEW k,
         Ready(t, c, l, k), NEW n, n = c.name,
         ~Free(t, l), ~(c.op = "acquire" /\ c.exists /\ n \notin data),
         Sleep(t, "section", c, l), lock' = With(n, l), waiters' = Counted(n, k + 1),
         UNCHANGED <<data, held, owners, granted, globals>>
  PROVE  IInv'
<1>0. /\ n \in Names /\ c \in Calls /\ c \in SectionCalls /\ k \in Nat
      /\ l \in Ensured(n) /\ k = Cardinality(Others(t, n)) /\ t \notin asleep /\ at[t] # "global"
      /\ at[t] = "section" => call[t].name = n
  BY ReadyTypes DEF Ready
<1>1. /\ l \in Locks /\ Locking(t, lock') /\ DOMAIN lock' = DOMAIN lock \cup {n}
      /\ lock'[n] = l /\ \A m \in DOMAIN lock : lock'[m] = lock[m]
  BY <1>0, LockingWith
<1>2. /\ waiters' \in [DOMAIN waiters' -> Nat] /\ DOMAIN waiters' = DOMAIN waiters \cup {n}
      /\ waiters'[n] = k + 1 /\ \A m \in DOMAIN waiters \ {n} : waiters'[m] = waiters[m]
  BY <1>0 DEF Counted, Put, IInv, TypeOK
<1>3. /\ at' \in [Threads -> {"idle", "enter", "section", "global"}]
      /\ call' \in [Threads -> Calls \cup {NoCall}]
      /\ section_lock' \in [Threads -> Locks \cup {NoLock}]
      /\ asleep' = asleep \cup {t} /\ asleep' \subseteq Threads
      /\ at'[t] = "section" /\ call'[t] = c /\ section_lock'[t] = l
      /\ \A u \in Threads \ {t} : /\ at'[u] = at[u] /\ call'[u] = call[u]
                                  /\ section_lock'[u] = section_lock[u]
  BY <1>0, <1>1, SleepMoves DEF IInv
<1>4. /\ InGlobal' = InGlobal /\ InSection(n)' = Others(t, n) \cup {t}
      /\ \A m : m # n => InSection(m)' = InSection(m)
  BY <1>0, <1>3, Members, Elsewhere DEF Alone
<1>5. TypeOK'
  BY <1>0, <1>1, <1>2, <1>3 DEF IInv, TypeOK, Locking, globals
<1>6. Placed'
  BY <1>0, <1>1, <1>2, <1>3 DEF IInv, Placed, Locking
<1>7. Counts'
  <2>1. Cardinality(InSection(n)') = k + 1
    BY <1>0, <1>4, Finite
  <2> QED BY <1>2, <1>4, <2>1 DEF IInv, Counts, globals
<1>8. Retained'
  BY <1>0, <1>1, <1>2, <1>4 DEF IInv, Retained, Locking
<1>9. Owned'
  <2>1. \A u \in Threads : held[l][u] = granted[u][n]
    BY <1>0, ReadyLock
  <2> QED BY <1>1, <2>1, SameOwners DEF Locking
<1>10. StoreOwned'
  BY DEF IInv, StoreOwned, globals
<1>11. NoLostWakeup'
  <2>1. ASSUME NEW u \in asleep PROVE MustWait(u)'
    <3>1. u \in Threads /\ u # t
      BY <1>0 DEF IInv, TypeOK
    <3> QED BY <1>3, <3>1, StillBlocked DEF globals
  <2>2. MustWait(t)'
    BY <1>3 DEF MustWait, Free, CanEnter, OwnsSection, globals
  <2> QED BY <1>3, <2>1, <2>2 DEF NoLostWakeup
<1> QED BY <1>5, <1>6, <1>7, <1>8, <1>9, <1>10, <1>11 DEF IInv

LEMMA SectionStep ==
  ASSUME IsFiniteSet(Threads), IInv, NEW t \in Threads, NEW c, NEW l, NEW k,
         Ready(t, c, l, k), Section(t, c, l, With(c.name, l), k)
  PROVE  IInv'
<1> DEFINE n == c.name
           gone == c.op = "acquire" /\ c.exists /\ n \notin data
<1>1. CASE /\ gone \/ c.timed
           /\ Return(t, FALSE)
           /\ UNCHANGED <<data, held, owners, granted>>
           /\ Cleanup(n, With(n, l), Counted(n, k))
  BY <1>1, GivenUp DEF Section
<1>2. CASE ~gone /\ Free(t, l) /\ Got(t, c, l, With(n, l), k)
  <2>1. CASE c.op = "acquire"
    BY <1>2, <2>1, Acquired DEF Section
  <2>2. CASE c.op # "acquire"
    <3>1. /\ Operate(c) /\ UNCHANGED <<held, owners, granted>>
          /\ Cleanup(n, With(n, l), Counted(n, k)) /\ Return(t, TRUE)
      BY <1>2, <2>2 DEF Got
    <3> QED BY <3>1, Operated DEF Section
  <2> QED BY <2>1, <2>2
<1>3. CASE /\ ~gone /\ ~Free(t, l)
           /\ Sleep(t, "section", c, l)
           /\ lock' = With(n, l) /\ waiters' = Counted(n, k + 1)
           /\ UNCHANGED <<data, held, owners, granted>>
  BY <1>3, Waits DEF Section
<1> QED BY <1>1, <1>2, <1>3 DEF Section

-----------------------------------------------------------------------------
(* The other steps of a call on a section.                                 *)

\* A thread that is in neither kind of wait for something owned
Outside(t) == at[t] \in {"idle", "enter"} /\ t \notin asleep

\* The call is over before it did anything
LEMMA LeftAlone ==
  ASSUME IsFiniteSet(Threads), IInv, NEW t \in Threads, Outside(t), Return(t, FALSE),
         UNCHANGED <<store, globals>>
  PROVE  IInv'
<1>1. /\ at' \in [Threads -> {"idle", "enter", "section", "global"}]
      /\ call' \in [Threads -> Calls \cup {NoCall}]
      /\ section_lock' \in [Threads -> Locks \cup {NoLock}] /\ asleep' = asleep
      /\ \A u \in Threads \ {t} : /\ at'[u] = at[u] /\ call'[u] = call[u]
                                  /\ section_lock'[u] = section_lock[u]
  BY ReturnMoves DEF IInv
<1>2. Placed' /\ Counts' /\ Retained'
  <2>1. Locking(t, lock) /\ Counting(t, waiters) /\ \A m : Others(t, m) = InSection(m)
    BY LockingNow, CountingNow, Elsewhere DEF Outside
  <2>2. /\ lock' = lock /\ waiters' = waiters /\ data' = data /\ owners' = owners
        /\ globalWaiters' = globalWaiters
    BY DEF store, globals
  <2>3. Locking(t, lock') /\ Counting(t, waiters')
    BY <2>1, <2>2
  <2>4. /\ DOMAIN waiters' \subseteq DOMAIN lock' /\ data' \subseteq DOMAIN lock'
        /\ DOMAIN owners' \subseteq DOMAIN lock'
        /\ \A m \in DOMAIN lock' : m \in data' \cup DOMAIN owners' \/ Others(t, m) # {}
    BY <2>1, <2>2 DEF IInv, Retained
  <2> QED BY <2>2, <2>3, <2>4, Returned DEF Outside
<1>3. TypeOK'
  BY <1>1 DEF IInv, TypeOK, store, globals
<1>4. Owned' /\ StoreOwned'
  BY DEF IInv, Owned, SectionExclusion, StoreOwned, store, globals
<1>5. NoLostWakeup'
  <2> SUFFICES ASSUME NEW u \in asleep PROVE MustWait(u)'
    BY <1>1 DEF NoLostWakeup
  <2>1. u \in Threads /\ u # t
    BY DEF Outside, IInv, TypeOK
  <2> QED BY <1>1, <2>1, StillBlocked DEF store, globals
<1> QED BY <1>2, <1>3, <1>4, <1>5 DEF IInv

\* The thread waits in _enter()
LEMMA WaitsToEnter ==
  ASSUME IsFiniteSet(Threads), IInv, NEW t \in Threads, Outside(t), NEW c \in Calls,
         ~MayEnter(t, c), Sleep(t, "enter", c, NoLock), UNCHANGED <<store, globals>>
  PROVE  IInv'
<1>1. /\ at' \in [Threads -> {"idle", "enter", "section", "global"}]
      /\ call' \in [Threads -> Calls \cup {NoCall}]
      /\ section_lock' \in [Threads -> Locks \cup {NoLock}]
      /\ asleep' = asleep \cup {t} /\ asleep' \subseteq Threads
      /\ at'[t] = "enter" /\ call'[t] = c
      /\ \A u \in Threads \ {t} : /\ at'[u] = at[u] /\ call'[u] = call[u]
                                  /\ section_lock'[u] = section_lock[u]
  BY SleepMoves DEF IInv
<1>2. InGlobal' = InGlobal /\ \A m : InSection(m)' = InSection(m)
  BY <1>1, Members, Elsewhere DEF Alone, Outside
<1>3. TypeOK'
  BY <1>1 DEF IInv, TypeOK, store, globals
<1>4. Placed'
  BY <1>1 DEF IInv, Placed, store
<1>5. Counts' /\ Retained'
  BY <1>2 DEF IInv, Counts, Retained, store, globals
<1>6. Owned' /\ StoreOwned'
  BY DEF IInv, Owned, SectionExclusion, StoreOwned, store, globals
<1>7. NoLostWakeup'
  <2>1. ASSUME NEW u \in asleep PROVE MustWait(u)'
    <3>1. u \in Threads /\ u # t
      BY DEF Outside, IInv, TypeOK
    <3> QED BY <1>1, <3>1, StillBlocked DEF store, globals
  <2>2. MustWait(t)'
    BY <1>1 DEF MustWait, MayEnter, CanEnter, OwnsSection, store, globals
  <2> QED BY <1>1, <2>1, <2>2 DEF NoLostWakeup
<1> QED BY <1>3, <1>4, <1>5, <1>6, <1>7 DEF IInv

\* An operation that takes no lock
LEMMA Unguarded ==
  ASSUME IsFiniteSet(Threads), IInv, NEW t \in Threads, Outside(t), NEW c \in SectionCalls,
         NEW n, n = c.name, c.op # "acquire", NEW l \in Ensured(n), Operate(c),
         UNCHANGED <<held, owners, granted, globals>>,
         Cleanup(n, IF c.op = "create" THEN With(n, l) ELSE lock, waiters),
         Return(t, c.op = "delete")
  PROVE  IInv'
<1> DEFINE L == IF c.op = "create" THEN With(n, l) ELSE lock
<1>0. n \in Names
  BY SectionCallTypes
<1>1. /\ data' \subseteq Names /\ data' \ {n} = data \ {n}
      /\ c.op # "create" => data' \subseteq data
      /\ c.op # "delete" => data \subseteq data'
  BY <1>0 DEF Operate, IInv, TypeOK
<1>2. /\ Locking(t, L) /\ DOMAIN L \subseteq DOMAIN lock \cup {n}
      /\ DOMAIN lock \subseteq DOMAIN L
      /\ c.op = "create" => n \in DOMAIN L
      /\ \A m \in DOMAIN L : IF m \in DOMAIN lock THEN L[m] = lock[m] ELSE m = n /\ L[m] = l
  <2>1. CASE c.op = "create"
    <3>1. L = With(n, l)
      BY <2>1
    <3>2. /\ Locking(t, With(n, l)) /\ DOMAIN With(n, l) = DOMAIN lock \cup {n}
          /\ With(n, l)[n] = l /\ \A m \in DOMAIN lock : With(n, l)[m] = lock[m]
      BY <1>0, LockingWith
    <3> HIDE DEF L
    <3> QED BY <2>1, <3>1, <3>2
  <2>2. CASE c.op # "create"
    <3>1. L = lock
      BY <2>2
    <3> HIDE DEF L
    <3> QED BY <2>2, <3>1, LockingNow
  <2> QED BY <2>1, <2>2
<1> HIDE DEF L
<1>3. Counting(t, waiters) /\ \A m : Others(t, m) = InSection(m)
  BY CountingNow, Elsewhere DEF Outside
<1>4. /\ Locking(t, lock') /\ Counting(t, waiters')
      /\ DOMAIN waiters' \subseteq DOMAIN lock'
      /\ data' \subseteq DOMAIN lock' /\ DOMAIN owners' \subseteq DOMAIN lock'
      /\ \A m \in DOMAIN lock' : m \in data' \cup DOMAIN owners' \/ Others(t, m) # {}
      /\ DOMAIN lock' \subseteq DOMAIN L /\ \A m \in DOMAIN lock' : lock'[m] = L[m]
  <2>1. DOMAIN waiters \subseteq DOMAIN L /\ data' \subseteq DOMAIN L
        /\ DOMAIN owners' \subseteq DOMAIN L
    BY <1>1, <1>2 DEF IInv, Retained
  <2>2. \A m \in DOMAIN L \ {n} : m \in data' \cup DOMAIN owners' \/ Others(t, m) # {}
    BY <1>1, <1>2, <1>3 DEF IInv, Retained
  <2>3. n \in DOMAIN waiters \/ Others(t, n) = {}
    BY <1>3 DEF InSection, IInv, Placed
  <2>4. Cleanup(n, L, waiters)
    BY DEF L
  <2> QED BY <1>0, <1>2, <1>3, <2>1, <2>2, <2>3, <2>4, Cleaned
<1>5. Placed' /\ Counts' /\ Retained'
  BY <1>4, Returned DEF Outside, globals
<1>6. /\ at' \in [Threads -> {"idle", "enter", "section", "global"}]
      /\ call' \in [Threads -> Calls \cup {NoCall}]
      /\ section_lock' \in [Threads -> Locks \cup {NoLock}] /\ asleep' \subseteq asleep
      /\ c.op = "delete" => asleep' = {}
      /\ c.op # "delete" => asleep' = asleep
      /\ \A u \in Threads \ {t} : /\ at'[u] = at[u] /\ call'[u] = call[u]
                                  /\ section_lock'[u] = section_lock[u]
  BY ReturnMoves DEF IInv
<1>7. TypeOK'
  <2>1. /\ DOMAIN lock' \subseteq Names /\ lock' \in [DOMAIN lock' -> Locks]
        /\ DOMAIN waiters' \subseteq Names /\ waiters' \in [DOMAIN waiters' -> Nat]
    BY <1>4 DEF Locking, Counting
  <2> QED BY <1>1, <1>6, <2>1 DEF IInv, TypeOK, globals
<1>8. Owned'
  <2>1. \A u \in Threads : held[l][u] = granted[u][n]
    BY <1>0, ReadyLock
  <2> QED BY <1>2, <1>4, <2>1, SameOwners DEF Locking
<1>9. StoreOwned'
  BY DEF IInv, StoreOwned, globals
<1>10. NoLostWakeup'
  <2> SUFFICES ASSUME NEW u \in asleep', c.op # "delete" PROVE MustWait(u)'
    BY <1>6 DEF NoLostWakeup
  <2>1. u \in asleep /\ u \in Threads /\ u # t
    BY <1>6 DEF Outside, IInv, TypeOK
  <2> QED BY <1>1, <1>6, <2>1, StillBlocked DEF globals
<1> QED BY <1>5, <1>7, <1>8, <1>9, <1>10 DEF IInv

LEMMA OnSectionStep ==
  ASSUME IsFiniteSet(Threads), IInv, NEW t \in Threads, Outside(t), NEW c \in SectionCalls,
         OnSection(t, c)
  PROVE  IInv'
<1> DEFINE n == c.name
           missing == IF c.op = "acquire" THEN c.exists /\ n \notin data
                      ELSE c.op = "remove" /\ n \notin data
           guarded == IF c.op = "acquire" THEN TRUE
                      ELSE c.lock /\ (c.op = "create" \/ n \in DOMAIN lock)
<1>0. n \in Names
  BY SectionCallTypes
<1>1. CASE missing /\ Return(t, FALSE) /\ UNCHANGED <<store, globals>>
  BY <1>1, LeftAlone
<1>2. CASE \E l \in Ensured(n) : Section(t, c, l, With(n, l), Waiting(n))
  <2> PICK l \in Ensured(n) : Section(t, c, l, With(n, l), Waiting(n))
    BY <1>2
  <2>1. Waiting(n) = Cardinality(Others(t, n))
    <3>1. Others(t, n) = InSection(n)
      BY Elsewhere DEF Outside
    <3>2. CASE n \in DOMAIN waiters
      BY <3>1, <3>2 DEF Waiting, IInv, Counts
    <3>3. CASE n \notin DOMAIN waiters
      <4>1. InSection(n) = {}
        BY <3>3 DEF IInv, Placed, InSection
      <4> QED BY <3>1, <3>3, <4>1, FS_EmptySet DEF Waiting
    <3> QED BY <3>2, <3>3
  <2>2. Ready(t, c, l, Waiting(n))
    BY <2>1 DEF Ready, Outside
  <2> QED BY <2>2, SectionStep
<1>3. CASE /\ ~missing /\ ~guarded
           /\ Operate(c)
           /\ UNCHANGED <<held, owners, granted, globals>>
           /\ \E l \in Ensured(n) :
                Cleanup(n, IF c.op = "create" THEN With(n, l) ELSE lock, waiters)
           /\ Return(t, c.op = "delete")
  <2> PICK l \in Ensured(n) : Cleanup(n, IF c.op = "create" THEN With(n, l) ELSE lock, waiters)
    BY <1>3
  <2> QED BY <1>3, Unguarded
<1> QED BY <1>1, <1>2, <1>3 DEF OnSection

-----------------------------------------------------------------------------
(* The steps about the whole store, and the release of a section.          *)

LEMMA GlobalStep ==
  ASSUME IsFiniteSet(Threads), IInv, NEW t \in Threads, at[t] # "section", t \notin asleep,
         NEW c \in Globals, NEW k, k = Cardinality(OthersGlobal(t)), Global(t, c, k)
  PROVE  IInv'
<1>0. /\ k \in Nat /\ c \in Calls
      /\ data' = data /\ lock' = lock /\ held' = held /\ owners' = owners
      /\ waiters' = waiters /\ granted' = granted
  BY Finite, GlobalTypes DEF Global, store
<1>1. /\ Locking(t, lock) /\ Counting(t, waiters) /\ \A m : Others(t, m) = InSection(m)
  BY LockingNow, CountingNow, Elsewhere
<1>2. CASE /\ globalWaiters' = k /\ ReturnGlobal(t)
           /\ \/ Available(t) /\ globalOwner' = t /\ globalDepth' = globalDepth + 1
              \/ UNCHANGED <<globalOwner, globalDepth>>
  <2>1. /\ at' \in [Threads -> {"idle", "enter", "section", "global"}]
        /\ call' \in [Threads -> Calls \cup {NoCall}]
        /\ section_lock' \in [Threads -> Locks \cup {NoLock}] /\ asleep' = {}
    BY <1>2, ReturnMoves DEF IInv, ReturnGlobal
  <2>2. Placed' /\ Counts' /\ Retained'
    <3>1. Locking(t, lock') /\ Counting(t, waiters')
      BY <1>0, <1>1
    <3>2. /\ DOMAIN waiters' \subseteq DOMAIN lock' /\ data' \subseteq DOMAIN lock'
          /\ DOMAIN owners' \subseteq DOMAIN lock'
          /\ \A m \in DOMAIN lock' : m \in data' \cup DOMAIN owners' \/ Others(t, m) # {}
      BY <1>0, <1>1 DEF IInv, Retained
    <3> QED BY <1>2, <3>1, <3>2, Returned DEF ReturnGlobal
  <2>3. TypeOK'
    BY <1>0, <1>2, <2>1 DEF IInv, TypeOK
  <2>4. Owned'
    BY <1>0 DEF IInv, Owned, SectionExclusion
  <2>5. StoreOwned'
    BY <1>0, <1>2, KeystoreAssumption DEF IInv, TypeOK, StoreOwned, Available
  <2>6. NoLostWakeup'
    BY <2>1 DEF NoLostWakeup
  <2> QED BY <2>2, <2>3, <2>4, <2>5, <2>6 DEF IInv
<1>3. CASE /\ ~Available(t) /\ ~Refused(t)
           /\ globalWaiters' = k + 1
           /\ Sleep(t, "global", c, NoLock)
           /\ UNCHANGED <<globalOwner, globalDepth>>
  <2>1. /\ at' \in [Threads -> {"idle", "enter", "section", "global"}]
        /\ call' \in [Threads -> Calls \cup {NoCall}]
        /\ section_lock' \in [Threads -> Locks \cup {NoLock}]
        /\ asleep' = asleep \cup {t} /\ asleep' \subseteq Threads
        /\ at'[t] = "global" /\ call'[t] = c
        /\ \A u \in Threads \ {t} : /\ at'[u] = at[u] /\ call'[u] = call[u]
                                    /\ section_lock'[u] = section_lock[u]
    BY <1>0, <1>3, SleepMoves DEF IInv
  <2>2. InGlobal' = OthersGlobal(t) \cup {t} /\ \A m : InSection(m)' = InSection(m)
    BY <1>1, <2>1, Members DEF Alone
  <2>3. TypeOK'
    BY <1>0, <1>3, <2>1 DEF IInv, TypeOK
  <2>4. Placed'
    BY <1>0, <2>1 DEF IInv, Placed
  <2>5. Counts'
    <3>1. Cardinality(InGlobal') = k + 1
      BY <2>2, Finite
    <3> QED BY <1>0, <1>3, <2>2, <3>1 DEF IInv, Counts
  <2>6. Retained' /\ Owned' /\ StoreOwned'
    BY <1>0, <1>3, <2>2 DEF IInv, Retained, Owned, SectionExclusion, StoreOwned
  <2>7. NoLostWakeup'
    <3>1. ASSUME NEW u \in asleep PROVE MustWait(u)'
      <4>1. u \in Threads /\ u # t
        BY DEF IInv, TypeOK
      <4>2. globalWaiters' # 0
        BY <1>0, <1>3
      <4> QED BY <1>0, <1>3, <2>1, <4>1, <4>2, StillBlocked
    <3>2. MustWait(t)'
      BY <1>0, <1>3, <2>1 DEF MustWait, Available, Refused, OwnsSection
    <3> QED BY <2>1, <3>1, <3>2 DEF NoLostWakeup
  <2> QED BY <2>3, <2>4, <2>5, <2>6, <2>7 DEF IInv
<1> QED BY <1>2, <1>3 DEF Global

LEMMA UnlockStep ==
  ASSUME IsFiniteSet(Threads), IInv, NEW t \in Threads, Unlock(t)
  PROVE  IInv'
<1>0. /\ data' = data /\ lock' = lock /\ held' = held /\ owners' = owners
      /\ waiters' = waiters /\ granted' = granted /\ globalWaiters' = globalWaiters
      /\ at[t] = "idle" /\ t \notin asleep /\ globalOwner = t
      /\ globalDepth' = globalDepth - 1
      /\ globalOwner' = IF globalDepth' = 0 THEN NoThread ELSE t
      /\ Return(t, globalDepth' = 0)
  BY DEF Unlock, store, IInv, Placed
<1>1. globalDepth \in Nat \ {0} /\ t # NoThread
  BY <1>0, KeystoreAssumption DEF IInv, TypeOK, StoreOwned
<1>2. /\ at' \in [Threads -> {"idle", "enter", "section", "global"}]
      /\ call' \in [Threads -> Calls \cup {NoCall}]
      /\ section_lock' \in [Threads -> Locks \cup {NoLock}] /\ asleep' \subseteq asleep
      /\ globalDepth' = 0 => asleep' = {}
      /\ \A u \in Threads \ {t} : /\ at'[u] = at[u] /\ call'[u] = call[u]
                                  /\ section_lock'[u] = section_lock[u]
  BY <1>0, ReturnMoves DEF IInv
<1>3. Placed' /\ Counts' /\ Retained'
  <2>1. Locking(t, lock) /\ Counting(t, waiters) /\ \A m : Others(t, m) = InSection(m)
    BY <1>0, LockingNow, CountingNow, Elsewhere
  <2>2. Locking(t, lock') /\ Counting(t, waiters')
    BY <1>0, <2>1
  <2>3. /\ DOMAIN waiters' \subseteq DOMAIN lock' /\ data' \subseteq DOMAIN lock'
        /\ DOMAIN owners' \subseteq DOMAIN lock'
        /\ \A m \in DOMAIN lock' : m \in data' \cup DOMAIN owners' \/ Others(t, m) # {}
    BY <1>0, <2>1 DEF IInv, Retained
  <2> QED BY <1>0, <2>2, <2>3, Returned
<1>4. TypeOK'
  <2>1. globalDepth' \in Nat /\ globalOwner' \in Threads \cup {NoThread}
    BY <1>0, <1>1
  <2>2. /\ lock' \in [DOMAIN lock' -> Locks] /\ owners' \in [DOMAIN owners' -> Threads \X (Nat \ {0})]
        /\ waiters' \in [DOMAIN waiters' -> Nat] /\ asleep' \subseteq Threads
    BY <1>0, <1>2 DEF IInv, TypeOK
  <2> QED BY <1>0, <1>2, <2>1, <2>2 DEF IInv, TypeOK
<1>5. Owned'
  BY <1>0 DEF IInv, Owned, SectionExclusion
<1>6. StoreOwned'
  BY <1>0, <1>1 DEF IInv, StoreOwned
<1>7. NoLostWakeup'
  <2> SUFFICES ASSUME NEW u \in asleep', globalDepth' # 0 PROVE MustWait(u)'
    BY <1>2 DEF NoLostWakeup
  <2>1. u \in asleep /\ u \in Threads /\ u # t
    BY <1>0, <1>2 DEF IInv, TypeOK
  <2>2. globalOwner' = globalOwner
    BY <1>0
  <2> QED BY <1>0, <1>2, <2>1, <2>2, StillBlocked
<1> QED BY <1>3, <1>4, <1>5, <1>6, <1>7 DEF IInv

\* Threads wake up, at their deadlines, or nothing happens
LEMMA OnlyWoken ==
  ASSUME IInv, data' = data, lock' = lock, held' = held, owners' = owners,
         waiters' = waiters, granted' = granted, globalOwner' = globalOwner,
         globalDepth' = globalDepth, globalWaiters' = globalWaiters,
         at' = at, call' = call, section_lock' = section_lock, asleep' \subseteq asleep
  PROVE  IInv'
<1>1. InGlobal' = InGlobal /\ \A n : InSection(n)' = InSection(n)
  BY DEF InGlobal, InSection
<1>2. TypeOK'
  BY DEF IInv, TypeOK
<1>3. Placed' /\ Counts' /\ Retained'
  BY <1>1 DEF IInv, Placed, Counts, Retained
<1>4. Owned' /\ StoreOwned'
  BY DEF IInv, Owned, SectionExclusion, StoreOwned
<1>5. NoLostWakeup'
  <2> SUFFICES ASSUME NEW u \in asleep' PROVE MustWait(u)'
    BY DEF NoLostWakeup
  <2> QED BY StillBlocked
<1> QED BY <1>2, <1>3, <1>4, <1>5 DEF IInv

LEMMA ReleaseStep ==
  ASSUME IsFiniteSet(Threads), IInv, NEW t \in Threads, NEW n \in Names, Release(t, n)
  PROVE  IInv'
<1>0. /\ at[t] = "idle" /\ t \notin asleep /\ n \in DOMAIN lock /\ n \in DOMAIN owners
      /\ owners[n][1] = t /\ data' = data /\ UNCHANGED globals
      /\ held' = [held EXCEPT ![lock[n]][t] = @ - 1]
      /\ owners' = Released(n)
      /\ granted' = [granted EXCEPT ![t][n] = @ - 1]
      /\ Cleanup(n, lock, waiters) /\ Return(t, TRUE)
  BY DEF Release, IInv, Placed
<1>a. /\ held \in [Locks -> [Threads -> Nat]] /\ granted \in [Threads -> [Names -> Nat]]
      /\ owners \in [DOMAIN owners -> Threads \X (Nat \ {0})] /\ DOMAIN owners \subseteq Names
      /\ lock[n] \in Locks /\ \A m \in DOMAIN lock : m # n => lock[m] # lock[n]
  BY <1>0 DEF IInv, TypeOK, Retained
<1> DEFINE d == owners[n][2]
<1>b. /\ d \in Nat \ {0} /\ owners[n] = <<t, d>> /\ granted[t][n] = d
      /\ held[lock[n]][t] = d
      /\ \A u \in Threads : held[lock[n]][u] = granted[u][n]
      /\ \A u \in Threads \ {t} : granted[u][n] = 0
  <2>1. d \in Nat \ {0} /\ owners[n] = <<t, d>>
    BY <1>0, <1>a
  <2>2. granted[t][n] = d /\ \A u \in Threads : held[lock[n]][u] = granted[u][n]
    BY <1>0 DEF IInv, Owned
  <2>3. \A u \in Threads \ {t} : ~(granted[u][n] > 0)
    BY <1>0 DEF IInv, Owned, SectionExclusion
  <2> QED BY <1>a, <2>1, <2>2, <2>3
<1> HIDE DEF d
<1>c. /\ granted' \in [Threads -> [Names -> Nat]] /\ granted'[t][n] = d - 1
      /\ \A u \in Threads, m \in Names : u # t \/ m # n => granted'[u][m] = granted[u][m]
  <2>1. granted' = [granted EXCEPT ![t] = [granted[t] EXCEPT ![n] = d - 1]] /\ d - 1 \in Nat
    BY <1>0, <1>b
  <2> QED BY <1>a, <1>b, <2>1
<1>d. /\ held' \in [Locks -> [Threads -> Nat]] /\ held'[lock[n]][t] = d - 1
      /\ \A u \in Threads, j \in Locks : u # t \/ j # lock[n] => held'[j][u] = held[j][u]
  <2>1. /\ held' = [held EXCEPT ![lock[n]] = [held[lock[n]] EXCEPT ![t] = d - 1]]
        /\ d - 1 \in Nat
    <3>1. held' = [held EXCEPT ![lock[n]][t] = @ - 1]
      BY <1>0
    <3> QED BY <1>b, <3>1
  <2> QED BY <1>a, <1>b, <2>1
<1>e. /\ DOMAIN owners' = IF d = 1 THEN DOMAIN owners \ {n} ELSE DOMAIN owners
      /\ owners' \in [DOMAIN owners' -> Threads \X (Nat \ {0})]
      /\ d # 1 => owners'[n] = <<t, d - 1>>
      /\ \A m \in DOMAIN owners \ {n} : owners'[m] = owners[m]
  <2>1. CASE d = 1
    BY <1>0, <1>a, <2>1 DEF d, Released, Without, Restrict
  <2>2. CASE d # 1
    <3>1. owners' = [owners EXCEPT ![n] = [owners[n] EXCEPT ![2] = @ - 1]]
      BY <1>0, <2>2 DEF d, Released
    <3>2. [owners[n] EXCEPT ![2] = @ - 1] = <<t, d - 1>>
      BY <1>b
    <3>3. <<t, d - 1>> \in Threads \X (Nat \ {0})
      BY <1>b, <2>2
    <3> HIDE DEF d
    <3> QED BY <1>0, <1>a, <2>2, <3>1, <3>2, <3>3
  <2> QED BY <2>1, <2>2
<1>1. /\ Locking(t, lock) /\ Counting(t, waiters) /\ \A m : Others(t, m) = InSection(m)
  BY <1>0, LockingNow, CountingNow, Elsewhere
<1>2. /\ Locking(t, lock') /\ Counting(t, waiters')
      /\ DOMAIN waiters' \subseteq DOMAIN lock'
      /\ data' \subseteq DOMAIN lock' /\ DOMAIN owners' \subseteq DOMAIN lock'
      /\ \A m \in DOMAIN lock' : m \in data' \cup DOMAIN owners' \/ Others(t, m) # {}
      /\ DOMAIN lock' \subseteq DOMAIN lock /\ \A m \in DOMAIN lock' : lock'[m] = lock[m]
  <2>1. /\ DOMAIN waiters \subseteq DOMAIN lock /\ data' \subseteq DOMAIN lock
        /\ DOMAIN owners' \subseteq DOMAIN lock
    BY <1>0, <1>e DEF IInv, Retained
  <2>2. \A m \in DOMAIN lock \ {n} : m \in data' \cup DOMAIN owners' \/ Others(t, m) # {}
    BY <1>0, <1>1, <1>e DEF IInv, Retained
  <2>3. n \in DOMAIN waiters \/ Others(t, n) = {}
    BY <1>1 DEF InSection, IInv, Placed
  <2> QED BY <1>0, <1>1, <2>1, <2>2, <2>3, Cleaned
<1>3. Placed' /\ Counts' /\ Retained'
  BY <1>0, <1>2, Returned DEF globals
<1>4. asleep' = {}
  BY <1>0 DEF Return
<1>5. TypeOK'
  <2>1. /\ at' \in [Threads -> {"idle", "enter", "section", "global"}]
        /\ call' \in [Threads -> Calls \cup {NoCall}]
        /\ section_lock' \in [Threads -> Locks \cup {NoLock}]
    BY <1>0, ReturnMoves DEF IInv
  <2>2. /\ DOMAIN lock' \subseteq Names /\ lock' \in [DOMAIN lock' -> Locks]
        /\ DOMAIN waiters' \subseteq Names /\ waiters' \in [DOMAIN waiters' -> Nat]
    BY <1>2 DEF Locking, Counting
  <2>3. DOMAIN owners' \subseteq Names
    BY <1>a, <1>e
  <2> QED BY <1>0, <1>c, <1>d, <1>e, <1>4, <2>1, <2>2, <2>3 DEF IInv, TypeOK, globals
<1>6. Owned'
  <2>1. SectionExclusion'
    BY <1>a, <1>b, <1>c, <1>e DEF IInv, Owned, SectionExclusion
  <2>2. \A m \in DOMAIN owners' : granted'[owners'[m][1]][m] = owners'[m][2]
    BY <1>a, <1>b, <1>c, <1>e DEF IInv, Owned
  <2>3. ASSUME NEW m \in DOMAIN lock', NEW u \in Threads
        PROVE  held'[lock'[m]][u] = granted'[u][m]
    <3>1. m \in DOMAIN lock /\ lock'[m] = lock[m] /\ lock[m] \in Locks /\ m \in Names
      BY <1>2 DEF IInv, TypeOK
    <3>2. held[lock[m]][u] = granted[u][m]
      BY <3>1 DEF IInv, Owned
    <3>3. CASE m = n /\ u = t
      BY <1>c, <1>d, <3>1, <3>3
    <3>4. CASE ~(m = n /\ u = t)
      BY <1>a, <1>c, <1>d, <3>1, <3>2, <3>4
    <3> QED BY <3>3, <3>4
  <2> QED BY <2>1, <2>2, <2>3 DEF Owned
<1>7. StoreOwned'
  BY <1>0, <1>b, <1>e DEF IInv, StoreOwned, globals
<1>8. NoLostWakeup'
  BY <1>4 DEF NoLostWakeup
<1> QED BY <1>3, <1>5, <1>6, <1>7, <1>8 DEF IInv

-----------------------------------------------------------------------------

LEMMA Initially == ASSUME Init PROVE IInv
<1>1. /\ data = {} /\ DOMAIN lock = {} /\ DOMAIN owners = {} /\ DOMAIN waiters = {}
      /\ lock \in [DOMAIN lock -> Locks] /\ waiters \in [DOMAIN waiters -> Nat]
      /\ owners \in [DOMAIN owners -> Threads \X (Nat \ {0})]
  BY DEF Init
<1>2. /\ held = [l \in Locks |-> [t \in Threads |-> 0]]
      /\ granted = [t \in Threads |-> [n \in Names |-> 0]]
      /\ globalOwner = NoThread /\ globalDepth = 0 /\ globalWaiters = 0
      /\ at = [t \in Threads |-> "idle"] /\ asleep = {}
      /\ call = [t \in Threads |-> NoCall] /\ section_lock = [t \in Threads |-> NoLock]
  BY DEF Init
<1>3. TypeOK
  BY <1>1, <1>2 DEF TypeOK
<1>4. Placed /\ Retained /\ NoLostWakeup
  BY <1>1, <1>2 DEF Placed, Retained, NoLostWakeup
<1>5. Counts
  <2>1. InGlobal = {}
    BY <1>2 DEF InGlobal
  <2> QED BY <1>1, <1>2, <2>1, FS_EmptySet DEF Counts
<1>6. Owned /\ StoreOwned
  BY <1>1, <1>2 DEF Owned, SectionExclusion, StoreOwned
<1> QED BY <1>3, <1>4, <1>5, <1>6 DEF IInv

LEMMA EnterStep ==
  ASSUME IsFiniteSet(Threads), IInv, NEW t \in Threads, Outside(t), NEW c \in Calls, Enter(t, c)
  PROVE  IInv'
<1>1. CASE MayEnter(t, c) /\ c.op = "global" /\ Global(t, c, globalWaiters)
  <2>1. globalWaiters = Cardinality(OthersGlobal(t))
    BY Elsewhere DEF Outside, IInv, Counts
  <2>2. c \in Globals
    BY <1>1, CallTypes
  <2> QED BY <1>1, <2>1, <2>2, GlobalStep DEF Outside
<1>2. CASE MayEnter(t, c) /\ c.op # "global" /\ OnSection(t, c)
  <2>1. c \in SectionCalls
    BY <1>2, CallTypes
  <2> QED BY <1>2, <2>1, OnSectionStep
<1>3. CASE ~MayEnter(t, c) /\ Sleep(t, "enter", c, NoLock) /\ UNCHANGED <<store, globals>>
  BY <1>3, WaitsToEnter
<1>4. CASE c.timed /\ Return(t, FALSE) /\ UNCHANGED <<store, globals>>
  BY <1>4, LeftAlone
<1> QED BY <1>1, <1>2, <1>3, <1>4 DEF Enter

LEMMA RetrySectionStep ==
  ASSUME IsFiniteSet(Threads), IInv, NEW t \in Threads, RetrySection(t)
  PROVE  IInv'
<1> DEFINE c == call[t]
           n == call[t].name
           l == section_lock[t]
           k == waiters[n] - 1
<1>1. /\ at[t] = "section" /\ t \notin asleep /\ Section(t, c, l, lock, k)
      /\ c \in SectionCalls /\ n \in DOMAIN waiters /\ n \in DOMAIN lock /\ l = lock[n]
  BY DEF RetrySection, IInv, Placed, Retained
<1>2. With(n, l) = lock
  <2>1. lock \in [DOMAIN lock -> Locks]
    BY DEF IInv, TypeOK
  <2> QED BY <1>1, <2>1 DEF With, Put
<1>3. k = Cardinality(Others(t, n))
  <2>1. InSection(n) = Others(t, n) \cup {t}
    BY <1>1 DEF InSection, Others
  <2>2. /\ Cardinality(Others(t, n)) \in Nat
        /\ Cardinality(InSection(n)) = Cardinality(Others(t, n)) + 1
    BY <2>1, Finite
  <2>3. waiters[n] = Cardinality(InSection(n))
    BY <1>1 DEF IInv, Counts
  <2> QED BY <2>2, <2>3
<1>4. Ready(t, c, l, k)
  BY <1>1, <1>3 DEF Ready, Ensured
<1> QED BY <1>1, <1>2, <1>4, SectionStep

LEMMA Inductive ==
  ASSUME IsFiniteSet(Threads), IInv, [Next]_vars
  PROVE  IInv'
<1>1. CASE UNCHANGED vars
  BY <1>1, OnlyWoken DEF vars, store, globals, threads
<1>2. ASSUME NEW t \in Threads, Call(t) PROVE IInv'
  <2>1. PICK c \in Calls : Enter(t, c)
    BY <1>2 DEF Call
  <2>2. Outside(t)
    BY <1>2 DEF Call, Outside, IInv, Placed
  <2> QED BY <2>1, <2>2, EnterStep
<1>3. ASSUME NEW t \in Threads, RetryEnter(t) PROVE IInv'
  <2>1. Outside(t) /\ call[t] \in Calls /\ Enter(t, call[t])
    BY <1>3 DEF RetryEnter, Outside, IInv, Placed
  <2> QED BY <2>1, EnterStep
<1>4. ASSUME NEW t \in Threads, RetrySection(t) PROVE IInv'
  BY <1>4, RetrySectionStep
<1>5. ASSUME NEW t \in Threads, RetryGlobal(t) PROVE IInv'
  <2>1. /\ at[t] = "global" /\ t \notin asleep /\ call[t] \in Globals
        /\ Global(t, call[t], globalWaiters - 1)
    BY <1>5 DEF RetryGlobal, IInv, Placed
  <2>2. globalWaiters - 1 = Cardinality(OthersGlobal(t))
    <3>1. InGlobal = OthersGlobal(t) \cup {t}
      BY <2>1 DEF InGlobal, OthersGlobal
    <3>2. /\ Cardinality(OthersGlobal(t)) \in Nat
          /\ Cardinality(InGlobal) = Cardinality(OthersGlobal(t)) + 1
      BY <3>1, Finite
    <3>3. globalWaiters = Cardinality(InGlobal)
      BY DEF IInv, Counts
    <3> QED BY <3>2, <3>3
  <2> QED BY <2>1, <2>2, GlobalStep
<1>6. ASSUME NEW t \in Threads, WaitOver(t) PROVE IInv'
  BY <1>6, OnlyWoken DEF WaitOver, store, globals
<1> QED
  BY <1>1, <1>2, <1>3, <1>4, <1>5, <1>6, UnlockStep, ReleaseStep DEF Next, Step, Retry

LEMMA Invariant == ASSUME IsFiniteSet(Threads) PROVE Spec => []IInv
<1>1. Init => IInv
  BY Initially
<1>2. IInv /\ [Next]_vars => IInv'
  BY Inductive
<1> QED BY <1>1, <1>2, PTL DEF Spec

\* A section has one owner, whatever deletions, waits and re-creations of it there were,
\* and while a thread owns the store nobody else owns a section of it.
THEOREM OneOwner == ASSUME IsFiniteSet(Threads) PROVE Spec => []Exclusion
<1>1. IInv => Exclusion
  <2> SUFFICES ASSUME IInv PROVE Exclusion
    OBVIOUS
  <2>1. ASSUME globalOwner # NoThread, NEW t \in Threads \ {globalOwner}, NEW n \in Names
        PROVE  granted[t][n] = 0
    <3>1. granted[t][n] \in Nat
      BY DEF IInv, TypeOK
    <3>2. ~(granted[t][n] > 0)
      BY <2>1 DEF IInv, Owned, SectionExclusion, StoreOwned
    <3> QED BY <3>1, <3>2
  <2>2. GlobalExclusion
    BY <2>1 DEF GlobalExclusion
  <2> QED BY <2>2 DEF IInv, Owned, Exclusion
<1> QED BY <1>1, Invariant, PTL

\* _cleanup_section() keeps the lock of a section, deleted or not, as long as it is owned
\* or waited for, keeps nothing longer, and counts the waiters exactly.
THEOREM Cleans == ASSUME IsFiniteSet(Threads) PROVE Spec => []NoResidue
<1>1. IInv => NoResidue
  <2> SUFFICES ASSUME IInv PROVE NoResidue
    OBVIOUS
  <2> DEFINE waited == {call[t].name : t \in {u \in Threads : at[u] = "section"}}
  <2>1. \A n : n \in waited <=> \E t \in InSection(n) : TRUE
    BY DEF InSection
  <2>2. waited \subseteq DOMAIN lock
    BY DEF IInv, Placed, Retained
  <2>3. DOMAIN lock = data \cup DOMAIN owners \cup waited
    BY <2>1, <2>2 DEF IInv, Retained
  <2>4. /\ DOMAIN waiters \subseteq DOMAIN lock
        /\ \A n \in DOMAIN waiters : waiters[n] =
             Cardinality({t \in Threads : at[t] = "section" /\ call[t].name = n})
    BY DEF IInv, Retained, Counts, InSection
  <2> QED BY <2>3, <2>4 DEF NoResidue
<1> QED BY <1>1, Invariant, PTL

\* A notify_all() reaches a thread in wait() before its call can go on or return: each
\* call that makes something available, a deletion and a refused or timed out request for
\* the whole store included, ends with one.
THEOREM NobodyOverslept == ASSUME IsFiniteSet(Threads) PROVE Spec => []NoLostWakeup
<1>1. IInv => NoLostWakeup
  BY DEF IInv
<1> QED BY <1>1, Invariant, PTL

\* When every thread sleeps, the owners of sections among them wait for sections of each
\* other: neither the requests for the whole store nor their refusal make a deadlock.
THEOREM BlockedByCrossing ==
  ASSUME IsFiniteSet(Threads), Threads # {} PROVE Spec => []OnlyCrossingsBlock
<1>1. IInv => OnlyCrossingsBlock
  <2> SUFFICES ASSUME IInv, asleep = Threads PROVE Crossed
    BY DEF OnlyCrossingsBlock
  <2>0. \A t \in Threads : MustWait(t) /\ at[t] \in {"enter", "section", "global"}
    BY DEF IInv, NoLostWakeup, TypeOK, Placed
  <2>h. ASSUME NEW t \in Threads, at[t] = "section", CanEnter(t)
        PROVE  /\ call[t].name \in DOMAIN owners
               /\ owners[call[t].name][1] \in Threads \ {t}
    <3> DEFINE n == call[t].name
    <3>1. ~Free(t, section_lock[t])
      BY <2>0, <2>h DEF MustWait
    <3>2. PICK u \in Threads \ {t} : held[section_lock[t]][u] # 0
      BY <2>h, <3>1 DEF Free
    <3>3. n \in DOMAIN lock /\ section_lock[t] = lock[n] /\ n \in Names
      BY <2>h DEF IInv, Placed, Retained, TypeOK
    <3>4. granted[u][n] # 0 /\ granted[u][n] \in Nat
      BY <3>2, <3>3 DEF IInv, Owned, TypeOK
    <3>5. n \in DOMAIN owners /\ owners[n] = <<u, granted[u][n]>>
      BY <3>3, <3>4 DEF IInv, Owned, SectionExclusion
    <3> QED BY <3>5
  <2>1. globalOwner = NoThread
    <3> SUFFICES ASSUME NEW g \in Threads, g = globalOwner, g # NoThread PROVE FALSE
      BY DEF IInv, TypeOK
    <3>1. CanEnter(g) /\ \A n \in DOMAIN owners : owners[n][1] = g
      BY DEF CanEnter, IInv, StoreOwned
    <3>2. CASE at[g] = "enter"
      BY <2>0, <3>1, <3>2 DEF MustWait, MayEnter
    <3>3. CASE at[g] = "section"
      BY <2>h, <3>1, <3>3
    <3>4. CASE at[g] = "global"
      BY <2>0, <3>1, <3>4 DEF MustWait, Available
    <3> QED BY <2>0, <3>2, <3>3, <3>4
  <2> DEFINE C == {t \in Threads : OwnsSection(t)}
  <2>2. ASSUME NEW t \in C
        PROVE  /\ at[t] = "section" /\ call[t].name \in DOMAIN owners
               /\ owners[call[t].name][1] \in C \ {t}
    <3>1. CanEnter(t)
      BY <2>1 DEF CanEnter
    <3>2. at[t] = "section"
      BY <2>0, <2>1, <3>1 DEF MustWait, MayEnter
    <3>3. call[t].name \in DOMAIN owners /\ owners[call[t].name][1] \in Threads \ {t}
      BY <2>h, <3>1, <3>2
    <3> QED BY <3>2, <3>3 DEF OwnsSection
  <2>3. C # {}
    <3> SUFFICES ASSUME C = {} PROVE FALSE
      OBVIOUS
    <3>1. DOMAIN owners = {}
      BY DEF OwnsSection, IInv, TypeOK
    <3>2. \A t \in Threads : at[t] # "global"
      BY <2>0, <2>1, <3>1 DEF MustWait, Available
    <3>3. InGlobal = {}
      BY <3>2 DEF InGlobal
    <3>4. globalWaiters = 0
      BY <3>3, FS_EmptySet DEF IInv, Counts
    <3>5. \A t \in Threads : CanEnter(t)
      BY <2>1, <3>4 DEF CanEnter
    <3>6. \A t \in Threads : at[t] # "section"
      BY <2>h, <3>1, <3>5
    <3>7. \A t \in Threads : at[t] # "enter"
      BY <2>0, <2>1, <3>5 DEF MustWait, MayEnter
    <3> QED BY <2>0, <3>2, <3>6, <3>7
  <2> HIDE DEF C
  <2>4. C \in (SUBSET Threads) \ {{}}
    BY <2>3 DEF C
  <2> QED BY <2>2, <2>4 DEF Crossed
<1> QED BY <1>1, Invariant, PTL
=============================================================================
