------------------------- MODULE SqliteTransactions -------------------------
(***************************************************************************)
(* sonicprobe.libs.sqlite_transactions: transactions of one strict AnySQL  *)
(* connection to SQLite, shared by threads.                                *)
(*                                                                         *)
(* _transaction() holds a reentrant lock from its first line to its last,  *)
(* so that one thread at a time has contexts open; those it enters inside  *)
(* the first one join it.  An asynchronous exception (KeyboardInterrupt)   *)
(* may arrive between any two statements.                                  *)
(* Operators marked "Variant" are not part of the model: each is a defect  *)
(* that a property is shown to detect.                                     *)
(***************************************************************************)
EXTENDS Naturals

CONSTANTS
  Threads, NoThread,
  Writes,      \* statements that change the database; each is executed once
  MaxDepth     \* bound: contexts of a thread that are open at once

ASSUME SqliteAssumption == NoThread \notin Threads

VARIABLES
  owner,       \* of the lock
  depth,       \* contexts it has open
  pc,          \* where the outermost of them is
  snapshot,    \* its read_only argument
  active, read_only, failed,
  changed,     \* connection.driver_connection is not _driver any more
  tx,          \* SQLite has a transaction open on _driver
  dirty,       \* what that transaction has written
  durable,     \* what SQLite has committed
  mine,        \* history: writes since the outermost context was entered
  returned,    \* history: those of outermost contexts that returned
  raised,      \* history: those of outermost contexts that raised
  cut,         \* history: an interrupt came just before the try statement, or in
               \* its except or finally clause
  joined,      \* history: writes in contexts that joined the _active it left
  astray       \* history: writes sent through a driver other than _driver

control == <<owner, depth, pc, snapshot>>
flags   == <<active, read_only, failed, changed>>
sqlite  == <<tx, dirty, durable>>
history == <<mine, returned, raised, cut, joined, astray>>
vars    == <<control, flags, sqlite, history>>

Init ==
  /\ owner = NoThread /\ depth = 0 /\ pc = "out" /\ snapshot = FALSE
  /\ active = FALSE /\ read_only = FALSE /\ failed = FALSE /\ changed = FALSE
  /\ tx = FALSE /\ dirty = {} /\ durable = {}
  /\ mine = {} /\ returned = {} /\ raised = {} /\ cut = FALSE
  /\ joined = {} /\ astray = {}

-----------------------------------------------------------------------------
(* Entering.                                                               *)

\* A failed domain or a changed driver refuses the caller, which changes nothing
Enter(t, readOnly) ==
  /\ owner = NoThread /\ ~failed /\ ~changed
  /\ ~active \/ readOnly \/ ~read_only
  /\ owner' = t /\ depth' = 1 /\ snapshot' = readOnly /\ mine' = {}
  /\ pc' = IF active THEN "joined" ELSE "begin"
  /\ UNCHANGED <<flags, sqlite, returned, raised, cut, joined, astray>>

\* A context inside another one of the same thread
Nest(readOnly) ==
  /\ pc \in {"body", "joined"} /\ depth < MaxDepth /\ ~failed /\ ~changed
  /\ readOnly \/ ~read_only
  /\ depth' = depth + 1
  /\ UNCHANGED <<owner, pc, snapshot, flags, sqlite, history>>

\* It ends, normally or by an exception that the body around it catches
Unnest ==
  /\ pc \in {"body", "joined"} /\ depth > 1
  /\ depth' = depth - 1
  /\ UNCHANGED <<owner, pc, snapshot, flags, sqlite, history>>

Release == owner' = NoThread /\ depth' = 0 /\ pc' = "out" /\ UNCHANGED snapshot

Raise == /\ Release /\ raised' = raised \cup mine
         /\ UNCHANGED <<mine, returned, joined, astray>>

\* Variant: a transaction that is open already is taken for the own one
BeginUnlessOpen ==
  /\ pc = "begin"
  /\ \/ tx' = TRUE /\ pc' = "begun" /\ UNCHANGED <<owner, depth, snapshot, history>>
     \/ tx' \in {tx, TRUE} /\ Raise /\ UNCHANGED cut
  /\ UNCHANGED <<flags, dirty, durable>>

\* BEGIN [IMMEDIATE] raises when a transaction is open, and may when another
\* process writes; an interrupt may follow it
Begin ==
  /\ pc = "begin"
  /\ \/ ~tx /\ tx' = TRUE /\ pc' = "begun" /\ UNCHANGED <<owner, depth, snapshot, history>>
     \/ tx' \in {tx, TRUE} /\ Raise /\ UNCHANGED cut
  /\ UNCHANGED <<flags, dirty, durable>>

Mark ==
  /\ pc = "begun"
  /\ active' = TRUE /\ pc' = "marked"
  /\ UNCHANGED <<owner, depth, snapshot, read_only, failed, changed, sqlite, history>>

\* The interrupt comes before the try statement, whose finally resets _active
InterruptMarked ==
  /\ pc = "marked"
  /\ Release /\ cut' = TRUE /\ read_only' \in {read_only, snapshot}
  /\ UNCHANGED <<active, failed, changed, sqlite, mine, returned, raised, joined, astray>>

Try ==
  /\ pc = "marked"
  /\ read_only' = snapshot /\ pc' = "body"
  /\ UNCHANGED <<owner, depth, snapshot, active, failed, changed, sqlite, history>>

-----------------------------------------------------------------------------
(* The caller's block.                                                     *)

\* Without a transaction, in a connection of isolation_level None, each statement
\* commits itself
Execute(w) ==
  /\ IF tx THEN dirty' = dirty \cup {w} /\ UNCHANGED durable
     ELSE durable' = durable \cup {w} /\ UNCHANGED dirty
  /\ UNCHANGED astray

\* Through the connection once its driver is replaced: outside of the transaction, and
\* committed or not as the caller has it
ExecuteAstray(w) ==
  /\ changed /\ astray' = astray \cup {w}
  /\ durable' \in {durable, durable \cup {w}} /\ UNCHANGED dirty

\* The caller has the driver, or takes the connection it was given
Write(w) ==
  /\ pc \in {"body", "joined"} /\ w \notin mine \cup returned \cup raised
  /\ Execute(w) \/ ExecuteAstray(w)
  /\ mine' = mine \cup {w}
  /\ joined' = IF pc = "joined" THEN joined \cup {w} ELSE joined
  /\ UNCHANGED <<control, flags, tx, returned, raised, cut>>

\* Errors for which SQLite itself rolls back; the caller may go on
Forget == tx' = FALSE /\ dirty' = {} /\ UNCHANGED durable

StatementUndoesAll ==
  /\ pc \in {"body", "joined"} /\ tx
  /\ Forget
  /\ UNCHANGED <<control, flags, history>>

\* Somebody calls reconnect() on the connection
Reconnect ==
  /\ ~changed /\ changed' = TRUE
  /\ UNCHANGED <<control, active, read_only, failed, sqlite, history>>

\* The end of a context that joined what an interrupt left, normally or by an
\* exception: nothing is committed or rolled back
Leave ==
  /\ pc = "joined" /\ depth = 1
  /\ \/ /\ Release /\ returned' = returned \cup mine
        /\ UNCHANGED <<mine, raised, joined, astray>>
     \/ Raise
  /\ UNCHANGED <<flags, sqlite, cut>>

\* The block ends, and the driver is still the one of BEGIN; or it raises
EndBody ==
  /\ pc = "body" /\ depth = 1
  /\ \/ ~changed /\ pc' = "commit"
     \/ pc' = "rollback"
  /\ UNCHANGED <<owner, depth, snapshot, flags, sqlite, history>>

-----------------------------------------------------------------------------
(* Ending.                                                                 *)

\* Variant: only one of the two flags is reset
ResetReadOnly == read_only' = FALSE /\ UNCHANGED active

\* The finally clause, interrupted or not
Reset == active' = FALSE /\ read_only' = FALSE
CutShort == active' \in {active, FALSE} /\ UNCHANGED read_only /\ cut' = TRUE

\* Variant: a COMMIT that raises goes unnoticed
CommitUnnoticed ==
  /\ pc = "commit"
  /\ \/ tx /\ tx' = FALSE /\ durable' = durable \cup dirty /\ dirty' = {}
     \/ Forget
  /\ pc' = "committed"
  /\ UNCHANGED <<owner, depth, snapshot, flags, history>>

\* COMMIT succeeds; raises with the transaction still open, undone, or absent; or
\* succeeds and is followed by an interrupt
Commit ==
  /\ pc = "commit"
  /\ \/ /\ tx /\ tx' = FALSE /\ durable' = durable \cup dirty /\ dirty' = {}
        /\ pc' \in {"committed", "rollback"}
     \/ pc' = "rollback" /\ (Forget \/ UNCHANGED sqlite)
  /\ UNCHANGED <<owner, depth, snapshot, flags, history>>

Return ==
  /\ pc = "committed"
  /\ \/ /\ Reset /\ Release
        /\ returned' = returned \cup mine /\ UNCHANGED <<mine, raised, joined, cut, astray>>
     \/ CutShort /\ Raise
  /\ UNCHANGED <<failed, changed, sqlite>>

\* Variant: a ROLLBACK that fails is forgotten
RollbackUnnoticed ==
  /\ pc = "rollback"
  /\ (tx /\ Forget) \/ UNCHANGED sqlite
  /\ Reset /\ Raise /\ UNCHANGED <<failed, changed, cut>>

\* ROLLBACK succeeds, or raises an Exception, which marks the domain as failed; it
\* may be interrupted, before or after it took effect
Rollback ==
  /\ pc = "rollback"
  /\ \/ tx /\ Forget /\ Reset /\ UNCHANGED <<failed, cut>>
     \/ failed' = TRUE /\ UNCHANGED <<sqlite, cut>> /\ Reset
     \/ ((tx /\ Forget) \/ UNCHANGED sqlite) /\ failed' \in {failed, TRUE} /\ CutShort
  /\ Raise /\ UNCHANGED changed

Next ==
  \/ \E t \in Threads, readOnly \in BOOLEAN : Enter(t, readOnly)
  \/ \E readOnly \in BOOLEAN : Nest(readOnly)
  \/ \E w \in Writes : Write(w)
  \/ Unnest \/ Begin \/ Mark \/ InterruptMarked \/ Try
  \/ StatementUndoesAll \/ Reconnect \/ Leave \/ EndBody
  \/ Commit \/ Return \/ Rollback

Spec == Init /\ [][Next]_vars

-----------------------------------------------------------------------------
(* Properties.                                                             *)

\* A context that returned to its caller is committed as a whole, unless it joined
\* the _active that an interrupt left, which nobody commits; one that raised has
\* left nothing in the database but what it sent through another driver, unless the
\* domain refuses to be used any more, or an interrupt has come where the code cannot
\* answer it.  Only after such an interrupt is there an _active to be joined.
OutcomeIsTrue ==
  /\ returned \ joined \subseteq durable
  /\ raised \cap durable \subseteq astray \/ failed \/ cut
  /\ joined # {} => cut

\* What a transaction could not roll back is never committed by a later one: only the
\* writes of the context that is open become durable.
CommitsItsOwn == [][durable' \ durable \subseteq mine']_vars
=============================================================================
