------------------------------ MODULE Keystore ------------------------------
(***************************************************************************)
(* sonicprobe.libs.keystore.Keystore: named sections of memory, with       *)
(* reentrant ownership of a section and of the whole store.                *)
(*                                                                         *)
(* All is done with the mutex of one condition variable, which only        *)
(* wait() gives up: a step runs from the mutex's acquisition, or from the  *)
(* return of a wait(), to its release or to the next wait().  The dicts    *)
(* __lock, __owners and __waiters are functions on the names they have an  *)
(* entry for.  Of the contents of a section only its existence matters.    *)
(* Operators marked "Variant" are not part of the model: each is a defect  *)
(* that a property is shown to detect.                                     *)
(***************************************************************************)
EXTENDS Integers, FiniteSets, Functions

CONSTANTS
  Threads, NoThread,
  Names,
  Kinds,     \* operations the callers use
  Locks,     \* RLock objects; as many as can be referred to at a time
  NoLock,
  MaxDepth   \* bound: nested acquisitions of one lock

ASSUME KeystoreAssumption ==
  /\ NoThread \notin Threads /\ NoLock \notin Locks
  /\ Kinds \subseteq {"create", "use", "remove", "delete"}
  /\ MaxDepth \in Nat \ {0}

VARIABLES
  data,          \* names of the sections that exist
  lock,          \* __lock: the RLock of a name
  held,          \* held[l][t]: how often thread t holds RLock l
  owners,        \* __owners: thread and count of a section that is owned
  waiters,       \* __waiters: threads inside _acquire_section()
  globalOwner, globalDepth, globalWaiters,
  at,            \* the wait() each thread is in or returns from, or "idle"
  asleep,        \* threads inside wait() that no notify_all() has reached
  call,          \* the call each thread is in
  section_lock,  \* the variable of that name in _acquire_section()
  granted        \* history: acquisitions a thread has not released

store   == <<data, lock, held, owners, waiters, granted>>
globals == <<globalOwner, globalDepth, globalWaiters>>
threads == <<at, asleep, call, section_lock>>
vars    == <<store, globals, threads>>

\* get(), exists(), purge() and the like are "use", add() and set() "create".
\* `lock` is their argument; `exists` is that of acquire() and try_acquire().
\* A timed call has a deadline that may pass, or may be interrupted.
Operations == [op : Kinds, name : Names, lock : BOOLEAN, timed : BOOLEAN]
Acquires   == [op : {"acquire"}, name : Names, exists : BOOLEAN, timed : BOOLEAN]
Globals    == [op : {"global"}, timed : BOOLEAN]
NoCall     == [op |-> "none"]
Calls      == Operations \cup Acquires \cup Globals

TypeOK ==
  /\ data \subseteq Names
  /\ DOMAIN lock \subseteq Names /\ lock \in [DOMAIN lock -> Locks]
  /\ held \in [Locks -> [Threads -> Nat]]
  /\ DOMAIN owners \subseteq Names
  /\ owners \in [DOMAIN owners -> Threads \X (Nat \ {0})]
  /\ DOMAIN waiters \subseteq Names /\ waiters \in [DOMAIN waiters -> Nat]
  /\ globalOwner \in Threads \cup {NoThread}
  /\ globalDepth \in Nat /\ globalWaiters \in Nat
  /\ at \in [Threads -> {"idle", "enter", "section", "global"}]
  /\ asleep \subseteq Threads
  /\ call \in [Threads -> Calls \cup {NoCall}]
  /\ section_lock \in [Threads -> Locks \cup {NoLock}]
  /\ granted \in [Threads -> [Names -> Nat]]

Init ==
  /\ data = {} /\ lock = <<>> /\ owners = <<>> /\ waiters = <<>>
  /\ held = [l \in Locks |-> [t \in Threads |-> 0]]
  /\ globalOwner = NoThread /\ globalDepth = 0 /\ globalWaiters = 0
  /\ at = [t \in Threads |-> "idle"] /\ asleep = {}
  /\ call = [t \in Threads |-> NoCall]
  /\ section_lock = [t \in Threads |-> NoLock]
  /\ granted = [t \in Threads |-> [n \in Names |-> 0]]

-----------------------------------------------------------------------------

\* t's call is over; with notify_all() if the flag is set
Return(t, notify) ==
  /\ at' = [at EXCEPT ![t] = "idle"]
  /\ call' = [call EXCEPT ![t] = NoCall]
  /\ section_lock' = [section_lock EXCEPT ![t] = NoLock]
  /\ asleep' = IF notify THEN {} ELSE asleep

\* t enters wait() at p
Sleep(t, p, c, l) ==
  /\ at' = [at EXCEPT ![t] = p]
  /\ call' = [call EXCEPT ![t] = c]
  /\ section_lock' = [section_lock EXCEPT ![t] = l]
  /\ asleep' = asleep \cup {t}

OwnsSection(t) == \E n \in DOMAIN owners : owners[n][1] = t

\* Variant: threads go on entering while one waits for the whole store
CanEnterBefore(t) == globalOwner \in {NoThread, t}

CanEnter(t) ==
  IF globalOwner # NoThread THEN globalOwner = t
  ELSE globalWaiters = 0 \/ OwnsSection(t)

\* What _enter() waits for
MayEnter(t, c) ==
  IF c.op = "global" THEN globalOwner \in {NoThread, t} ELSE CanEnter(t)

\* Variant: the threads that wait for the lock are overlooked
UnusedBut(n, D, O, W) == n \notin D /\ n \notin DOMAIN O

Unused(n, D, O, W) ==
  /\ n \notin D /\ n \notin DOMAIN O
  /\ n \in DOMAIN W => W[n] = 0

\* A dict with v as the entry of n, and without one
Put(f, n, v)  == [m \in DOMAIN f \cup {n} |-> IF m = n THEN v ELSE f[m]]
Without(f, n) == Restrict(f, DOMAIN f \ {n})

\* _cleanup_section(n), the last thing a call does to L and W
Cleanup(n, L, W) ==
  LET gone == Unused(n, data', owners', W)
  IN  /\ lock' = IF gone THEN Without(L, n) ELSE L
      /\ waiters' = IF gone THEN Without(W, n) ELSE W

\* The lock objects _ensure_lock(n) may return
Ensured(n) ==
  IF n \in DOMAIN lock THEN {lock[n]}
  ELSE {l \in Locks : /\ \A m \in DOMAIN lock : lock[m] # l
                      /\ \A t \in Threads : section_lock[t] # l /\ held[l][t] = 0}

\* Variant: who owns the store is not looked at again after a wait
FreeAnyway(t, l) == \A u \in Threads \ {t} : held[l][u] = 0

\* Variant: acquire(False) is taken to succeed
FreeByEntry(t, l) == CanEnter(t)

\* Can _acquire_section() go on: _can_enter() and section_lock.acquire(False)
Free(t, l) == CanEnter(t) /\ \A u \in Threads \ {t} : held[l][u] = 0

-----------------------------------------------------------------------------
(* The operations on a section, and its acquisition.                       *)

\* What the operation itself does to the sections
Operate(c) ==
  data' = CASE c.op = "create" -> data \cup {c.name}
            [] c.op = "delete" -> data \ {c.name}
            [] OTHER -> data

\* The dict __lock with l as the lock of n, __waiters with one more or less
With(n, l) == Put(lock, n, l)
Waiting(n) == IF n \in DOMAIN waiters THEN waiters[n] ELSE 0
Counted(n, k) == Put(waiters, n, k)

\* _acquire_section() has got l, of which L is the dict, and n had k waiters:
\* either acquire() returns, or the operation is done and the section released
Got(t, c, l, L, k) ==
  LET n == c.name
      depth == IF n \in DOMAIN owners THEN owners[n][2] ELSE 0
  IN  IF c.op = "acquire"
      THEN /\ held' = [held EXCEPT ![l][t] = @ + 1]
           /\ owners' = Put(owners, n, <<t, depth + 1>>)
           /\ granted' = [granted EXCEPT ![t][n] = @ + 1]
           /\ data' = IF c.exists THEN data ELSE data \cup {n}
           /\ Cleanup(n, L, Counted(n, k))
           /\ Return(t, FALSE)
      ELSE /\ Operate(c)
           /\ UNCHANGED <<held, owners, granted>>
           /\ Cleanup(n, L, Counted(n, k))
           /\ Return(t, TRUE)

\* One iteration of _acquire_section()
Section(t, c, l, L, k) ==
  LET n == c.name
      gone == c.op = "acquire" /\ c.exists /\ n \notin data
  IN  /\ \/ /\ gone \/ c.timed
            /\ Return(t, FALSE)
            /\ UNCHANGED <<data, held, owners, granted>>
            /\ Cleanup(n, L, Counted(n, k))
         \/ ~gone /\ Free(t, l) /\ Got(t, c, l, L, k)
         \/ /\ ~gone /\ ~Free(t, l)
            /\ Sleep(t, "section", c, l)
            /\ lock' = L /\ waiters' = Counted(n, k + 1)
            /\ UNCHANGED <<data, held, owners, granted>>
      /\ UNCHANGED globals

\* _section_guard() and the operation, or _acquire_named()
OnSection(t, c) ==
  LET n == c.name
      missing == IF c.op = "acquire" THEN c.exists /\ n \notin data
                 ELSE c.op = "remove" /\ n \notin data
      guarded == IF c.op = "acquire" THEN TRUE
                 ELSE c.lock /\ (c.op = "create" \/ n \in DOMAIN lock)
  IN  \/ missing /\ Return(t, FALSE) /\ UNCHANGED <<store, globals>>
      \/ /\ ~missing /\ guarded
         /\ \E l \in Ensured(n) : Section(t, c, l, With(n, l), Waiting(n))
      \/ /\ ~missing /\ ~guarded
         /\ Operate(c)
         /\ UNCHANGED <<held, owners, granted, globals>>
         /\ \E l \in Ensured(n) :
              Cleanup(n, IF c.op = "create" THEN With(n, l) ELSE lock, waiters)
         /\ Return(t, c.op = "delete")

RetrySection(t) ==
  /\ at[t] = "section" /\ t \notin asleep
  /\ Section(t, call[t], section_lock[t], lock, waiters[call[t].name] - 1)

\* __owners once the owner of n has released it once
Released(n) == IF owners[n][2] = 1 THEN Without(owners, n)
               ELSE [owners EXCEPT ![n][2] = @ - 1]

Release(t, n) ==
  /\ at[t] = "idle"
  /\ n \in DOMAIN lock /\ n \in DOMAIN owners /\ owners[n][1] = t
  /\ held' = [held EXCEPT ![lock[n]][t] = @ - 1]
  /\ owners' = Released(n)
  /\ granted' = [granted EXCEPT ![t][n] = @ - 1]
  /\ UNCHANGED <<data, globals>>
  /\ Cleanup(n, lock, waiters)
  /\ Return(t, TRUE)

-----------------------------------------------------------------------------
(* The whole store.                                                        *)

\* Variant: a thread that owns a section waits like any other
NeverRefused(t) == FALSE

Refused(t) == OwnsSection(t)

Available(t) ==
  /\ globalOwner \in {NoThread, t}
  /\ \A n \in DOMAIN owners : owners[n][1] = t

\* Variant: the end of a request for the whole store wakes up nobody
ReturnQuietly(t) == Return(t, FALSE)

\* The finally of _acquire_global()
ReturnGlobal(t) == Return(t, TRUE)

\* One iteration of _acquire_global(), with k other threads in it
Global(t, c, k) ==
  /\ \/ /\ Available(t)
        /\ globalOwner' = t /\ globalDepth' = globalDepth + 1
        /\ globalWaiters' = k
        /\ ReturnGlobal(t)
     \/ /\ c.timed \/ (~Available(t) /\ Refused(t))
        /\ globalWaiters' = k
        /\ ReturnGlobal(t)
        /\ UNCHANGED <<globalOwner, globalDepth>>
     \/ /\ ~Available(t) /\ ~Refused(t)
        /\ globalWaiters' = k + 1
        /\ Sleep(t, "global", c, NoLock)
        /\ UNCHANGED <<globalOwner, globalDepth>>
  /\ UNCHANGED store

RetryGlobal(t) ==
  /\ at[t] = "global" /\ t \notin asleep
  /\ Global(t, call[t], globalWaiters - 1)

Unlock(t) ==
  /\ at[t] = "idle" /\ globalOwner = t
  /\ globalDepth' = globalDepth - 1
  /\ globalOwner' = IF globalDepth' = 0 THEN NoThread ELSE t
  /\ Return(t, globalDepth' = 0)
  /\ UNCHANGED <<store, globalWaiters>>

-----------------------------------------------------------------------------

\* _enter(), and the rest of the call if it need not wait
Enter(t, c) ==
  \/ /\ MayEnter(t, c)
     /\ IF c.op = "global" THEN Global(t, c, globalWaiters) ELSE OnSection(t, c)
  \/ /\ \/ ~MayEnter(t, c) /\ Sleep(t, "enter", c, NoLock)
        \/ c.timed /\ Return(t, FALSE)
     /\ UNCHANGED <<store, globals>>

Nesting(t, c) ==
  /\ c.op = "acquire" => granted[t][c.name] < MaxDepth
  /\ c.op = "global" /\ globalOwner = t => globalDepth < MaxDepth

Call(t) == at[t] = "idle" /\ \E c \in Calls : Nesting(t, c) /\ Enter(t, c)

RetryEnter(t) == at[t] = "enter" /\ t \notin asleep /\ Enter(t, call[t])

\* wait(remaining) returns unnotified, or is interrupted
WaitOver(t) ==
  /\ t \in asleep /\ call[t].timed
  /\ asleep' = asleep \ {t}
  /\ UNCHANGED <<store, globals, at, call, section_lock>>

Retry(t) == RetryEnter(t) \/ RetrySection(t) \/ RetryGlobal(t)

Step(t) ==
  \/ Call(t) \/ Retry(t) \/ WaitOver(t) \/ Unlock(t)
  \/ \E n \in Names : Release(t, n)

Next == \E t \in Threads : Step(t)

Spec == Init /\ [][Next]_vars

\* A thread that woke up eventually gets the mutex.  A thread that owns sections
\* releases them, and again and again the last of them.
FinalRelease(t) ==
  \E n \in Names : Release(t, n) /\ \A m \in Names : granted'[t][m] = 0

Fairness == \A t \in Threads : /\ WF_vars(Retry(t))
                               /\ WF_vars(\E n \in Names : Release(t, n))
                               /\ SF_vars(FinalRelease(t))

FairSpec == Spec /\ Fairness

-----------------------------------------------------------------------------
(* Safety.                                                                 *)

\* A section has one owner, the thread whose acquisitions it has not released
\* yet, whatever deletions, waits and re-creations of the section there were.
SectionExclusion ==
  \A n \in Names, t \in Threads :
    granted[t][n] > 0 => n \in DOMAIN owners /\ owners[n] = <<t, granted[t][n]>>

\* While a thread owns the store no other owns a section, even if it was inside a
\* call when the store was taken.
GlobalExclusion ==
  globalOwner # NoThread =>
    \A t \in Threads \ {globalOwner}, n \in Names : granted[t][n] = 0

\* What is acquired is not shared: the registries are of the right types, and name
\* one owner for what each thread has acquired.
Exclusion == TypeOK /\ SectionExclusion /\ GlobalExclusion

\* "A deleted section retains its lock until its last owner/waiter leaves",
\* and nothing is retained afterwards.
NoResidue ==
  LET waited == {call[t].name : t \in {u \in Threads : at[u] = "section"}}
  IN  /\ DOMAIN lock = data \cup DOMAIN owners \cup waited
      /\ DOMAIN waiters \subseteq DOMAIN lock
      /\ \A n \in DOMAIN waiters : waiters[n] =
           Cardinality({t \in Threads : at[t] = "section" /\ call[t].name = n})

\* The call of t, which is in wait(), can neither go on nor return
MustWait(t) ==
  CASE at[t] = "enter"   -> ~MayEnter(t, call[t])
    [] at[t] = "section" -> /\ ~Free(t, section_lock[t])
                            /\ call[t].op = "acquire" /\ call[t].exists =>
                                 call[t].name \in data
    [] at[t] = "global"  -> ~Available(t) /\ ~OwnsSection(t)

\* No thread sleeps in wait() when its call could go on or return.
NoLostWakeup == \A t \in asleep : MustWait(t)

\* Threads that own sections wait for sections of each other
Crossed ==
  \E C \in (SUBSET Threads) \ {{}} :
    \A t \in C : /\ at[t] = "section" /\ call[t].name \in DOMAIN owners
                 /\ owners[call[t].name][1] \in C \ {t}

\* Nobody is left to wake the others up only if callers cross sections: the
\* store, sections and promotion to the store never block each other.
OnlyCrossingsBlock == asleep = Threads => Crossed

-----------------------------------------------------------------------------
(* Liveness, under FairSpec.                                               *)

\* Threads that come and go in sections do not keep one that waits for the
\* whole store waiting for ever: it, or another, gets it.
GlobalServed ==
  \A t \in Threads :
    at[t] = "global" ~> at[t] # "global" \/ globalOwner # NoThread \/ Crossed
=============================================================================
