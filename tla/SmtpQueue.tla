----------------------------- MODULE SmtpQueue -----------------------------
(***************************************************************************)
(* sonicprobe.sp_logging.QueueSMTPHandler.QueueSMTPHandler: records are    *)
(* queued by level and mailed by purge().  emit() and the exchange of the  *)
(* queue in purge() hold the handler's lock and are one step each; the     *)
(* sending is outside it, one step per level.  Operators marked "Variant"  *)
(* are not part of the model: each is a defect that a property is shown to *)
(* detect.                                                                 *)
(***************************************************************************)
CONSTANTS Records, Levels, Level, Purgers,
          Malformed   \* records whose format() raises

ASSUME RecordsAssumption ==
  Level \in [Records -> Levels] /\ Malformed \subseteq Records

VARIABLES
  queue,    \* queue[l]: records queued for level l
  emitted,  \* records whose emit() has returned
  batch,    \* batch[p]: the queue that purge call p took
  mailed,   \* records handed to sendmail() or, failing that, handleError()
  twice,    \* records handed over more than once
  dropped   \* records in the hands of a purge that raised

vars == <<queue, emitted, batch, mailed, twice, dropped>>

Empty == [l \in Levels |-> {}]

TypeOK ==
  /\ queue \in [Levels -> SUBSET Records]
  /\ batch \in [Purgers -> [Levels -> SUBSET Records]]
  /\ {emitted, mailed, twice, dropped} \subseteq SUBSET Records

Init ==
  /\ queue = Empty
  /\ batch = [p \in Purgers |-> Empty]
  /\ emitted = {} /\ mailed = {} /\ twice = {} /\ dropped = {}

Emit(r) ==
  /\ r \notin emitted
  /\ queue' = [queue EXCEPT ![Level[r]] = @ \cup {r}]
  /\ emitted' = emitted \cup {r}
  /\ UNCHANGED <<batch, mailed, twice, dropped>>

Remaining(p) == {l \in Levels : batch[p][l] # {}}

\* Variant: the queue is read, and emptied once its records are sent
ExchangeLate(p) ==
  /\ Remaining(p) = {}
  /\ batch' = [batch EXCEPT ![p] = queue]
  /\ UNCHANGED <<queue, emitted, mailed, twice, dropped>>

Exchange(p) ==
  /\ Remaining(p) = {}
  /\ batch' = [batch EXCEPT ![p] = queue]
  /\ queue' = Empty
  /\ UNCHANGED <<emitted, mailed, twice, dropped>>

\* Variant: a failure to send or to quit ends the purge
SendOrStop(p, l) ==
  /\ batch[p][l] # {}
  /\ batch' = [batch EXCEPT ![p] = Empty]
  /\ mailed' = mailed \cup batch[p][l]
  /\ twice' = twice \cup (mailed \cap batch[p][l])
  /\ UNCHANGED <<queue, emitted, dropped>>

\* One mail for level l; a failure to send or to quit goes on with the next
Send(p, l) ==
  /\ batch[p][l] # {} /\ batch[p][l] \cap Malformed = {}
  /\ batch' = [batch EXCEPT ![p][l] = {}]
  /\ mailed' = mailed \cup batch[p][l]
  /\ twice' = twice \cup (mailed \cap batch[p][l])
  /\ UNCHANGED <<queue, emitted, dropped>>

\* format() raises out of purge(), which ends with what it still had to send
Abort(p, l) ==
  /\ batch[p][l] \cap Malformed # {}
  /\ dropped' = dropped \cup UNION {batch[p][k] : k \in Levels}
  /\ batch' = [batch EXCEPT ![p] = Empty]
  /\ UNCHANGED <<queue, emitted, mailed, twice>>

Next == \/ \E r \in Records : Emit(r)
        \/ \E p \in Purgers : Exchange(p) \/ \E l \in Levels : Send(p, l) \/ Abort(p, l)

Spec == Init /\ [][Next]_vars

-----------------------------------------------------------------------------

\* Every record that was emitted waits in the queue, is in the hands of a purge
\* that has yet to reach its level, was handed to the mailer, or was with a
\* purge that met a record it could not format: nothing else, purges and
\* emissions at the same time included, loses one ("Echange de la file sous le
\* verrou").
NoneForgotten ==
  \A r \in emitted : \/ r \in queue[Level[r]]
                     \/ \E p \in Purgers : r \in batch[p][Level[r]]
                     \/ r \in mailed \/ r \in dropped

\* Two purges at once never mail the same record.
NoneTwice == twice = {}
=============================================================================
