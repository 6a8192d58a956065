------------------------- MODULE SmtpQueueUnlocked -------------------------
(***************************************************************************)
(* sonicprobe.sp_logging.handlers.QueueSMTPHandler: the handler of         *)
(* SmtpQueue without its lock.  logging.Handler.handle() still serialises  *)
(* emissions, but purge() exchanges the queue in two steps, and shares     *)
(* with the emitters the lists it copied the dict of.  A list is named by  *)
(* the record for which it was created.  No record is malformed here: what *)
(* follows from one is in SmtpQueue.                                       *)
(***************************************************************************)
CONSTANTS Records, Levels, Level, Purgers,
          None,         \* not a record
          QuitMayFail   \* smtp.quit() may raise after a mail

VARIABLES
  queues,    \* self.queues: the list of each level, or None
  lists,     \* the records in each list
  emitting,  \* the record inside emit(), or None
  at,        \* where emit() is: "create" or "append"
  emitted, batch, mailed,   \* as in SmtpQueue; batch[p] is p's copied dict
  copied     \* purge calls between the copy and the assignment

vars == <<queues, lists, emitting, at, emitted, batch, mailed, copied>>

Empty == [l \in Levels |-> None]

Init ==
  /\ queues = Empty /\ lists = [r \in Records |-> {}]
  /\ emitting = None /\ at = "append"
  /\ batch = [p \in Purgers |-> Empty]
  /\ emitted = {} /\ mailed = {} /\ copied = {}

EmitCheck(r) ==
  /\ emitting = None /\ r \notin emitted
  /\ emitting' = r
  /\ at' = IF queues[Level[r]] = None THEN "create" ELSE "append"
  /\ UNCHANGED <<queues, lists, emitted, batch, mailed, copied>>

EmitCreate(r) ==
  /\ emitting = r /\ at = "create"
  /\ queues' = [queues EXCEPT ![Level[r]] = r]
  /\ at' = "append"
  /\ UNCHANGED <<lists, emitting, emitted, batch, mailed, copied>>

\* KeyError, and no emission, if the dict was exchanged since the check
EmitAppend(r) ==
  /\ emitting = r /\ at = "append"
  /\ emitting' = None
  /\ LET list == queues[Level[r]]
     IN  IF list = None
         THEN UNCHANGED <<lists, emitted>>
         ELSE /\ lists' = [lists EXCEPT ![list] = @ \cup {r}]
              /\ emitted' = emitted \cup {r}
  /\ UNCHANGED <<queues, at, batch, mailed, copied>>

\* isEmpty(), then dict(self.queues)
Copy(p) ==
  /\ p \notin copied /\ batch[p] = Empty /\ queues # Empty
  /\ batch' = [batch EXCEPT ![p] = queues]
  /\ copied' = copied \cup {p}
  /\ UNCHANGED <<queues, lists, emitting, at, emitted, mailed>>

Reset(p) ==
  /\ p \in copied
  /\ queues' = Empty
  /\ copied' = copied \ {p}
  /\ UNCHANGED <<lists, emitting, at, emitted, batch, mailed>>

\* Nothing is sent for an empty list; an error of quit() is raised out of
\* purge()
Send(p, l) ==
  /\ p \notin copied /\ batch[p][l] # None
  /\ mailed' = mailed \cup lists[batch[p][l]]
  /\ \/ batch' = [batch EXCEPT ![p][l] = None]
     \/ /\ QuitMayFail /\ lists[batch[p][l]] # {}
        /\ batch' = [batch EXCEPT ![p] = Empty]
  /\ UNCHANGED <<queues, lists, emitting, at, emitted, copied>>

Next ==
  \/ \E r \in Records : EmitCheck(r) \/ EmitCreate(r) \/ EmitAppend(r)
  \/ \E p \in Purgers : Copy(p) \/ Reset(p) \/ \E l \in Levels : Send(p, l)

Spec == Init /\ [][Next]_vars

\* As SmtpQueue!NoneForgotten: what was emitted is in a list that the handler
\* or a running purge still refers to, or was handed to the mailer.
NoneForgotten ==
  \A r \in emitted :
    \/ r \in mailed
    \/ \E list \in {queues[l] : l \in Levels}
                   \cup {batch[p][l] : p \in Purgers, l \in Levels} :
         list # None /\ r \in lists[list]
=============================================================================
