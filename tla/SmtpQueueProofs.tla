-------------------------- MODULE SmtpQueueProofs --------------------------
(***************************************************************************)
(* Theorems about SmtpQueue, for any records, levels and number of purges  *)
(* at the same time.                                                       *)
(***************************************************************************)
EXTENDS SmtpQueue, TLAPS

\* What is queued or in a batch was emitted, on that level
Filed ==
  \A l \in Levels :
    /\ queue[l] \subseteq {r \in emitted : Level[r] = l}
    /\ \A p \in Purgers : batch[p][l] \subseteq {r \in emitted : Level[r] = l}

\* A record is in one place at a time
OnePlace ==
  \A l \in Levels :
    /\ queue[l] \cap mailed = {}
    /\ \A p \in Purgers :
         /\ queue[l] \cap batch[p][l] = {}
         /\ batch[p][l] \cap mailed = {}
         /\ \A q \in Purgers : p # q => batch[p][l] \cap batch[q][l] = {}

IInv ==
  /\ TypeOK /\ Filed /\ OnePlace
  /\ mailed \subseteq emitted
  /\ NoneForgotten /\ NoneTwice

\* Nothing is queued at construction.
LEMMA InitInv == Init => IInv
BY DEF Init, IInv, TypeOK, Filed, OnePlace, NoneForgotten, NoneTwice, Empty

\* emit() puts a record in the queue, and nowhere else.
LEMMA EmitInv ==
  ASSUME IInv, NEW r \in Records, Emit(r)
  PROVE  IInv'
<1> USE RecordsAssumption DEF IInv
<1>1. TypeOK'
  BY DEF Emit, TypeOK
<1>2. \A l \in Levels :
         queue'[l] = IF l = Level[r] THEN queue[l] \cup {r} ELSE queue[l]
  BY DEF Emit, TypeOK
<1>3. Filed'
  BY <1>2 DEF Emit, Filed
<1>4. r \notin mailed /\ \A l \in Levels, p \in Purgers : r \notin batch[p][l]
  BY DEF Emit, Filed
<1>5. OnePlace'
  BY <1>2, <1>4 DEF Emit, OnePlace
<1>6. mailed' \subseteq emitted' /\ NoneTwice'
  BY DEF Emit, NoneTwice
<1>7. NoneForgotten'
  <2> SUFFICES ASSUME NEW s \in emitted'
               PROVE  \/ s \in queue'[Level[s]]
                      \/ \E p \in Purgers : s \in batch'[p][Level[s]]
                      \/ s \in mailed' \/ s \in dropped'
    BY DEF NoneForgotten
  <2>1. s \in Records /\ Level[s] \in Levels
    BY DEF Emit, TypeOK
  <2>2. CASE s = r
    BY <1>2, <2>1, <2>2
  <2>3. CASE s # r
    BY <1>2, <2>1, <2>3 DEF Emit, NoneForgotten
  <2> QED
    BY <2>2, <2>3
<1> QED
  BY <1>1, <1>3, <1>5, <1>6, <1>7

\* purge() takes the whole queue, which nobody else has.
LEMMA ExchangeInv ==
  ASSUME IInv, NEW p \in Purgers, Exchange(p)
  PROVE  IInv'
<1> USE RecordsAssumption DEF IInv
<1>1. TypeOK'
  BY DEF Exchange, TypeOK, Empty
<1>2. /\ \A l \in Levels : queue'[l] = {} /\ batch'[p][l] = queue[l]
      /\ \A l \in Levels : batch[p][l] = {}
      /\ \A q \in Purgers : q # p => batch'[q] = batch[q]
      /\ UNCHANGED <<emitted, mailed, twice, dropped>>
  BY DEF Exchange, TypeOK, Empty, Remaining
<1>3. Filed' /\ OnePlace' /\ mailed' \subseteq emitted' /\ NoneTwice'
  <2>1. Filed'
    BY <1>2 DEF Filed
  <2>2. OnePlace'
    <3> SUFFICES ASSUME NEW l \in Levels, NEW q \in Purgers, NEW u \in Purgers
                 PROVE  /\ batch'[q][l] \cap mailed' = {}
                        /\ q # u => batch'[q][l] \cap batch'[u][l] = {}
      BY <1>2 DEF OnePlace
    <3> QED
      BY <1>2 DEF OnePlace
  <2> QED
    BY <1>2, <2>1, <2>2 DEF NoneTwice
<1>4. NoneForgotten'
  BY <1>2 DEF NoneForgotten, TypeOK
<1> QED
  BY <1>1, <1>3, <1>4

\* One mail: the records of one level are handed over for the first time.
LEMMA SendInv ==
  ASSUME IInv, NEW p \in Purgers, NEW l \in Levels, Send(p, l)
  PROVE  IInv'
<1> USE RecordsAssumption DEF IInv
<1>1. TypeOK'
  BY DEF Send, TypeOK
<1>2. /\ batch'[p][l] = {}
      /\ \A k \in Levels : k # l => batch'[p][k] = batch[p][k]
      /\ \A q \in Purgers : q # p => batch'[q] = batch[q]
      /\ UNCHANGED <<queue, emitted, dropped>>
      /\ mailed' = mailed \cup batch[p][l]
  BY DEF Send, TypeOK
<1>3. mailed \cap batch[p][l] = {} /\ batch[p][l] \subseteq emitted
  BY DEF OnePlace, Filed
<1>4. NoneTwice' /\ mailed' \subseteq emitted'
  BY <1>2, <1>3 DEF Send, NoneTwice
<1>5. \A q \in Purgers, k \in Levels : batch'[q][k] \subseteq batch[q][k]
  BY <1>2
<1>6. Filed'
  BY <1>2, <1>5 DEF Filed
<1>7. OnePlace'
  <2>1. \A k \in Levels : k # l => queue[k] \cap batch[p][l] = {}
                          /\ \A q \in Purgers : batch[q][k] \cap batch[p][l] = {}
    BY DEF Filed
  <2>2. \A q \in Purgers : q # p => batch[q][l] \cap batch[p][l] = {}
    BY DEF OnePlace
  <2>3. queue[l] \cap batch[p][l] = {}
    BY DEF OnePlace
  <2>4. \A k \in Levels : queue'[k] \cap mailed' = {}
    BY <1>2, <2>1, <2>3 DEF OnePlace
  <2>5. \A k \in Levels, q \in Purgers : batch'[q][k] \cap mailed' = {}
    BY <1>2, <1>5, <2>1, <2>2 DEF OnePlace
  <2> QED
    BY <1>2, <1>5, <2>4, <2>5 DEF OnePlace
<1>8. NoneForgotten'
  <2> SUFFICES ASSUME NEW s \in emitted
               PROVE  \/ s \in queue[Level[s]]
                      \/ \E q \in Purgers : s \in batch'[q][Level[s]]
                      \/ s \in mailed' \/ s \in dropped
    BY <1>2 DEF NoneForgotten
  <2>1. Level[s] \in Levels
    BY DEF TypeOK
  <2>2. ASSUME NEW q \in Purgers, s \in batch[q][Level[s]]
        PROVE  s \in batch'[q][Level[s]] \/ s \in mailed'
    BY <1>2, <2>1, <2>2
  <2> QED
    BY <1>2, <2>2 DEF NoneForgotten
<1> QED
  BY <1>1, <1>4, <1>6, <1>7, <1>8

\* A purge that raises: what it had left is dropped.
LEMMA AbortInv ==
  ASSUME IInv, NEW p \in Purgers, NEW l \in Levels, Abort(p, l)
  PROVE  IInv'
<1> USE RecordsAssumption DEF IInv
<1>1. /\ \A k \in Levels : batch'[p][k] = {}
      /\ \A q \in Purgers : q # p => batch'[q] = batch[q]
      /\ UNCHANGED <<queue, emitted, mailed, twice>>
      /\ dropped' = dropped \cup UNION {batch[p][k] : k \in Levels}
  BY DEF Abort, TypeOK, Empty
<1>2. TypeOK'
  <2>1. batch' \in [Purgers -> [Levels -> SUBSET Records]]
    BY DEF Abort, TypeOK, Empty
  <2>2. UNION {batch[p][k] : k \in Levels} \subseteq Records
    BY DEF TypeOK
  <2> QED
    BY <1>1, <2>1, <2>2 DEF TypeOK
<1>3. Filed' /\ OnePlace' /\ mailed' \subseteq emitted' /\ NoneTwice'
  <2>1. \A q \in Purgers, k \in Levels : batch'[q][k] \subseteq batch[q][k]
    BY <1>1
  <2> QED
    BY <1>1, <2>1 DEF Filed, OnePlace, NoneTwice
<1>4. NoneForgotten'
  <2> SUFFICES ASSUME NEW s \in emitted
               PROVE  \/ s \in queue[Level[s]]
                      \/ \E q \in Purgers : s \in batch'[q][Level[s]]
                      \/ s \in mailed \/ s \in dropped'
    BY <1>1 DEF NoneForgotten
  <2>1. Level[s] \in Levels
    BY DEF TypeOK
  <2>2. ASSUME NEW q \in Purgers, s \in batch[q][Level[s]]
        PROVE  s \in batch'[q][Level[s]] \/ s \in dropped'
    BY <1>1, <2>1, <2>2
  <2> QED
    BY <1>1, <2>2 DEF NoneForgotten
<1> QED
  BY <1>2, <1>3, <1>4

\* Every step keeps the invariant.
LEMMA StepInv == IInv /\ [Next]_vars => IInv'
<1> SUFFICES ASSUME IInv, [Next]_vars PROVE IInv'
  OBVIOUS
<1>1. CASE UNCHANGED vars
  BY <1>1 DEF vars, IInv, TypeOK, Filed, OnePlace, NoneForgotten, NoneTwice
<1>2. CASE Next
  BY <1>2, EmitInv, ExchangeInv, SendInv, AbortInv DEF Next
<1> QED
  BY <1>1, <1>2

\* The inductive invariant of the handler.
LEMMA Invariant == Spec => []IInv
BY InitInv, StepInv, PTL DEF Spec

\* However many threads emit and purge at the same time, an emitted record is
\* queued, with a purge, mailed, or was with a purge that could not format.
THEOREM NothingForgotten == Spec => []NoneForgotten
BY Invariant, PTL DEF IInv

\* No record is mailed by two purges.
THEOREM NothingTwice == Spec => []NoneTwice
BY Invariant, PTL DEF IInv
=============================================================================
