------------------------------ MODULE SqlProofs ------------------------------
(***************************************************************************)
(* Proofs about the transactions of sqlite_transactions, for any number of *)
(* threads and writes and any nesting of contexts, and about the           *)
(* connections of anysql, for any number of statements, of cursors and of  *)
(* connections made.                                                       *)
(***************************************************************************)
EXTENDS MCSql, TLAPS

-----------------------------------------------------------------------------
(* SqliteTransactions: the inductive invariant.                            *)

\* What has been written in contexts that have ended
Past == returned \cup raised

\* The lock is held while a context is open
Held == owner = NoThread => pc = "out"

\* A write is executed once: what SQLite has comes from the context that is open, or
\* from one of the past, and never from both.
Origins ==
  /\ dirty \cup durable \cup astray \subseteq Past \cup IF pc = "out" THEN {} ELSE mine
  /\ pc # "out" => mine \cap Past = {}

\* What is to be committed is neither committed nor left over after its transaction
Apart ==
  /\ dirty \cap durable = {}
  /\ ~tx => dirty = {}

\* The transaction that SQLite has open is that of the context, from BEGIN to its end
Own ==
  /\ pc \in {"begin", "begun", "marked"} => mine = {}
  /\ pc \in {"begun", "marked"} => dirty = {}
  /\ pc \in {"body", "commit"} => dirty \subseteq mine
  /\ pc \in {"body", "commit", "rollback"} => (tx => mine \ astray \subseteq dirty)
  /\ pc = "committed" => mine \subseteq durable

\* A context that has written elsewhere does not get to its COMMIT
Astray ==
  /\ pc = "body" /\ ~changed => mine \cap astray = {}
  /\ pc = "commit" => mine \cap astray = {}

\* The _active that is found when no context is open was left by an interrupt, and what is
\* written in a context that finds it is remembered
LeftOver ==
  /\ pc = "out" /\ active => cut
  /\ pc \in {"begin", "begun"} => ~active
  /\ pc = "joined" => cut /\ mine \subseteq joined

IInv == Held /\ Origins /\ Apart /\ Own /\ Astray /\ LeftOver /\ OutcomeIsTrue

-----------------------------------------------------------------------------

LEMMA Initially == Init => IInv
BY DEF Init, IInv, Held, Past, Origins, Apart, Own, Astray, LeftOver, OutcomeIsTrue

LEMMA Inductive == IInv /\ [Next]_vars => IInv'
<1> SUFFICES ASSUME IInv, [Next]_vars PROVE IInv'
  OBVIOUS
<1> USE SqliteAssumption DEF IInv, Held, Past, Origins, Apart, Own, Astray, LeftOver, OutcomeIsTrue,
      vars, control, flags, sqlite, history
<1>1. CASE UNCHANGED vars
  BY <1>1
<1>2. ASSUME NEW t \in Threads, NEW readOnly \in BOOLEAN, Enter(t, readOnly) PROVE IInv'
  BY <1>2 DEF Enter
<1>3. ASSUME NEW readOnly \in BOOLEAN, Nest(readOnly) PROVE IInv'
  BY <1>3 DEF Nest
<1>4. ASSUME NEW w \in Writes, Write(w) PROVE IInv'
  <2>1. CASE Execute(w) /\ tx
    BY <1>4, <2>1 DEF Write, Execute
  <2>2. CASE Execute(w) /\ ~tx
    BY <1>4, <2>2 DEF Write, Execute
  <2>3. CASE ExecuteAstray(w)
    BY <1>4, <2>3 DEF Write, ExecuteAstray
  <2> QED BY <1>4, <2>1, <2>2, <2>3 DEF Write
<1>5. CASE Unnest
  BY <1>5 DEF Unnest
<1>6. CASE Begin
  BY <1>6 DEF Begin, Raise, Release
<1>7. CASE Mark
  BY <1>7 DEF Mark
<1>8. CASE InterruptMarked
  BY <1>8 DEF InterruptMarked, Release
<1>9. CASE Try
  BY <1>9 DEF Try
<1>10. CASE StatementUndoesAll
  BY <1>10 DEF StatementUndoesAll, Forget
<1>11. CASE Reconnect
  BY <1>11 DEF Reconnect
<1>12. CASE Leave
  BY <1>12 DEF Leave, Release, Raise
<1>13. CASE EndBody
  BY <1>13 DEF EndBody
<1>14. CASE Commit
  BY <1>14 DEF Commit, Forget
<1>15. CASE Return
  <2>1. CASE Reset
    BY <1>15, <2>1 DEF Return, Reset, Release, Raise, CutShort
  <2>2. CASE CutShort /\ Raise
    BY <1>15, <2>2 DEF Return, Release, Raise, CutShort
  <2> QED BY <1>15, <2>1, <2>2 DEF Return
<1>16. CASE Rollback
  <2>1. CASE tx /\ Forget /\ Reset /\ UNCHANGED <<failed, cut>>
    BY <1>16, <2>1 DEF Rollback, Forget, Reset, Release, Raise
  <2>2. CASE failed' = TRUE /\ UNCHANGED <<sqlite, cut>> /\ Reset
    BY <1>16, <2>2 DEF Rollback, Reset, Release, Raise
  <2>3. CASE ((tx /\ Forget) \/ UNCHANGED sqlite) /\ failed' \in {failed, TRUE} /\ CutShort
    BY <1>16, <2>3 DEF Rollback, Forget, Release, Raise, CutShort
  <2> QED BY <1>16, <2>1, <2>2, <2>3 DEF Rollback
<1> QED
  BY <1>1, <1>2, <1>3, <1>4, <1>5, <1>6, <1>7, <1>8, <1>9, <1>10, <1>11, <1>12, <1>13,
     <1>14, <1>15, <1>16 DEF Next

LEMMA Invariant == Spec => []IInv
<1>1. IInv /\ [Next]_vars => IInv'
  BY Inductive
<1> QED BY <1>1, Initially, PTL DEF Spec

-----------------------------------------------------------------------------

\* _transaction(): a context that returned is committed as a whole, unless it joined what
\* an interrupt left; one that raised has left nothing but what it sent through another
\* driver, unless the domain is marked as failed or an interrupt came where the code cannot
\* answer it; and no context joins what another one left but after such an interrupt.
THEOREM OutcomesAreTrue == Spec => []OutcomeIsTrue
<1>1. IInv => OutcomeIsTrue
  BY DEF IInv
<1>2. Spec => []IInv
  BY Invariant
<1> QED BY <1>1, <1>2, PTL

\* _transaction(): whatever an earlier one could not roll back, no later COMMIT writes it.
THEOREM NothingForeignIsCommitted == Spec => CommitsItsOwn
<1> DEFINE Fits == durable' \ durable \subseteq mine'
<1>1. ASSUME IInv, [Next]_vars PROVE [Fits]_vars
  <2> USE DEF control, flags, sqlite, history
  <2>1. CASE UNCHANGED vars
    BY <2>1
  <2>2. CASE \E t \in Threads, readOnly \in BOOLEAN : Enter(t, readOnly)
    BY <2>2 DEF Enter
  <2>3. ASSUME NEW w \in Writes, Write(w) PROVE Fits
    BY <2>3 DEF Write, Execute, ExecuteAstray
  <2>4. CASE Commit
    BY <2>4, <1>1 DEF Commit, Forget, IInv, Own
  <2>5. CASE Unnest \/ Begin \/ Mark \/ InterruptMarked \/ Try \/ StatementUndoesAll
             \/ Reconnect \/ Leave \/ EndBody \/ Return \/ Rollback
    BY <2>5 DEF Unnest, Begin, Mark, InterruptMarked, Try, StatementUndoesAll, Forget,
      Reconnect, Leave, EndBody, Return, Rollback
  <2>6. CASE \E readOnly \in BOOLEAN : Nest(readOnly)
    BY <2>6 DEF Nest
  <2> QED BY <2>1, <2>2, <2>3, <2>4, <2>5, <2>6, <1>1 DEF Next
<1>2. Spec => []IInv
  BY Invariant
<1> QED BY <1>1, <1>2, PTL DEF Spec, CommitsItsOwn

-----------------------------------------------------------------------------
(* AnySql: the inductive invariant.  A statement that returned and is not  *)
(* committed yet is pending on its connection, unless that one is not the  *)
(* current one any more, or the caller is about to hear of a failure.      *)

Connections == 1 .. MaxConnections

\* What the thread may be doing
Steps ==
  {[op |-> "idle"], [op |-> "commit"]}
    \cup [op : {"fetch", "fetch again"}, cursor : Cursors]
    \cup [op : {"query", "query again"}, cursor : Cursors, statement : Statements]

Querying == {"query", "query again"}

ConnectionTypes ==
  /\ auto_reconnect \in BOOLEAN /\ autocommit \in BOOLEAN /\ asked \in BOOLEAN
  /\ conn \in Connections /\ raw \in [Cursors -> Connections]
  /\ step \in Steps
  /\ pending \in [Connections -> SUBSET Statements]
  /\ commits \in [Statements -> Nat]
  /\ ran \in [Statements -> Connections \cup {0}] /\ open \subseteq Statements
  /\ acked \in [Statements -> Connections \cup {0}]

\* Nothing is of a connection to come, and only a reconnection makes a second one
Order ==
  /\ \A c \in Cursors : raw[c] <= conn
  /\ \A s \in Statements : ran[s] <= conn
  /\ auto_reconnect \/ asked \/ conn = 1
  /\ step.op \in {"query again", "fetch again", "commit"} => auto_reconnect

\* A statement that has not returned is neither acknowledged nor open, and one that is
\* being executed has not returned
Unreturned ==
  /\ \A s \in Statements : ran[s] = 0 => acked[s] = 0 /\ s \notin open
  /\ step.op \in Querying => ran[step.statement] = 0

\* What returned waits for the commit on the current connection, if it works and nothing
\* has failed
Kept ==
  /\ step.op = "idle" =>
       \A s \in open : ran[s] = conn /\ conn \in alive => commits[s] > 0 \/ s \in pending[conn]
  /\ step.op \in {"query again", "fetch again"} => \A s \in open : ran[s] # conn

\* Without autocommit a statement is in one transaction or committed, and nowhere while it
\* is executed; with it no transaction is open
InOnePlace ==
  /\ autocommit => \A k \in Connections : pending[k] = {}
  /\ ~autocommit =>
       /\ \A s \in Statements : commits[s] <= 1
       /\ \A k \in Connections : \A s \in pending[k] :
            commits[s] = 0 /\ \A j \in Connections \ {k} : s \notin pending[j]
       /\ step.op \in Querying =>
            /\ commits[step.statement] = 0
            /\ \A k \in Connections : step.statement \notin pending[k]

ConnectionIInv ==
  /\ ConnectionTypes /\ Order /\ Unreturned /\ Kept /\ InOnePlace
  /\ Connection!CommitKeeps /\ Connection!TwiceOnlyIfReplayed

-----------------------------------------------------------------------------

LEMMA StepFields ==
  ASSUME step \in Steps
  PROVE  /\ step.op \in {"idle", "commit", "fetch", "fetch again"} \cup Querying
         /\ step.op \notin {"idle", "commit"} => step.cursor \in Cursors
         /\ step.op \in Querying => step.statement \in Statements
<1>1. CASE step = [op |-> "idle"] \/ step = [op |-> "commit"]
  <2>1. step.op = "idle" \/ step.op = "commit"
    BY <1>1
  <2> QED BY <2>1 DEF Querying
<1>2. CASE step \in [op : {"fetch", "fetch again"}, cursor : Cursors]
  BY <1>2 DEF Querying
<1>3. CASE step \in [op : {"query", "query again"}, cursor : Cursors, statement : Statements]
  BY <1>3 DEF Querying
<1> QED BY <1>1, <1>2, <1>3 DEF Steps

\* What the thread goes on to do
LEMMA IdleStep == [op |-> "idle"] \in Steps /\ [op |-> "idle"].op = "idle"
BY DEF Steps

LEMMA CommitStep == [op |-> "commit"] \in Steps /\ [op |-> "commit"].op = "commit"
BY DEF Steps

LEMMA FetchStep ==
  ASSUME NEW c \in Cursors, step' = [op |-> "fetch", cursor |-> c]
  PROVE  step' \in Steps /\ step'.op = "fetch"
BY DEF Steps

LEMMA QueryStep ==
  ASSUME NEW c \in Cursors, NEW s \in Statements,
         step' = [op |-> "query", cursor |-> c, statement |-> s]
  PROVE  step' \in Steps /\ step'.op = "query" /\ step'.statement = s
BY DEF Steps

LEMMA AgainStep ==
  ASSUME step \in Steps, step.op \in {"query", "fetch"},
         step' = [step EXCEPT !.op = IF @ = "query" THEN "query again" ELSE "fetch again"]
  PROVE  /\ step' \in Steps /\ step'.op \in {"query again", "fetch again"}
         /\ step'.op = "query again" => step.op = "query" /\ step'.statement = step.statement
<1>1. CASE step = [op |-> "idle"] \/ step = [op |-> "commit"]
  <2>1. step.op = "idle" \/ step.op = "commit"
    BY <1>1, IdleStep, CommitStep, Zenon
  <2> QED BY <2>1
<1>2. CASE step \in [op : {"fetch", "fetch again"}, cursor : Cursors]
  BY <1>2 DEF Steps
<1>3. CASE step \in [op : {"query", "query again"}, cursor : Cursors, statement : Statements]
  BY <1>3 DEF Steps
<1> QED BY <1>1, <1>2, <1>3 DEF Steps

LEMMA ConnectionInitially == Connection!Init => ConnectionIInv
<1> SUFFICES ASSUME Connection!Init PROVE ConnectionIInv
  OBVIOUS
<1> USE ConnectionsAssumption DEF Connection!Init, Connection!Idle,
      Connection!Connections, Connections
<1>1. step = [op |-> "idle"] /\ step.op = "idle" /\ step \in Steps
  BY IdleStep
<1>2. ConnectionTypes
  <2>1. 1 \in Connections
    OBVIOUS
  <2>2. conn \in Connections /\ raw \in [Cursors -> Connections]
    BY <2>1
  <2>3. pending \in [Connections -> SUBSET Statements] /\ commits \in [Statements -> Nat]
    OBVIOUS
  <2>4. /\ ran \in [Statements -> Connections \cup {0}] /\ open \subseteq Statements
        /\ acked \in [Statements -> Connections \cup {0}]
    OBVIOUS
  <2> QED BY <1>1, <2>2, <2>3, <2>4 DEF ConnectionTypes
<1>3. Order /\ Unreturned /\ Kept
  BY <1>1 DEF Order, Unreturned, Kept, Querying
<1>4. InOnePlace /\ Connection!CommitKeeps /\ Connection!TwiceOnlyIfReplayed
  BY <1>1 DEF InOnePlace, Querying, Connection!CommitKeeps, Connection!TwiceOnlyIfReplayed
<1> QED BY <1>2, <1>3, <1>4 DEF ConnectionIInv

\* Neither what was reported nor how often a statement took effect gets worse
LEMMA ReportsStay ==
  ASSUME ConnectionTypes, Connection!CommitKeeps, Connection!TwiceOnlyIfReplayed,
         commits' \in [Statements -> Nat],
         \A q \in Statements :
           /\ commits'[q] >= commits[q] /\ acked'[q] = acked[q]
           /\ acked[q] # 0 => ran'[q] = ran[q]
           /\ commits'[q] > 1 => commits[q] > 1 \/ (auto_reconnect /\ autocommit),
         UNCHANGED <<auto_reconnect, autocommit>>, asked => asked'
  PROVE  Connection!CommitKeeps' /\ Connection!TwiceOnlyIfReplayed'
<1>1. Connection!CommitKeeps'
  BY DEF ConnectionTypes, Connection!CommitKeeps
<1>2. Connection!TwiceOnlyIfReplayed'
  BY DEF Connection!TwiceOnlyIfReplayed
<1> QED BY <1>1, <1>2

\* An effect of one statement, and a transaction that is committed
LEMMA OneEffect ==
  ASSUME commits \in [Statements -> Nat], NEW s \in Statements,
         commits' = [q \in Statements |-> IF q \in {s} THEN commits[q] + 1 ELSE commits[q]]
  PROVE  /\ commits' \in [Statements -> Nat] /\ commits'[s] = commits[s] + 1
         /\ \A q \in Statements \ {s} : commits'[q] = commits[q]
         /\ \A q \in Statements : commits'[q] >= commits[q]
OBVIOUS

LEMMA ConnectionInductive ==
  ASSUME ConnectionIInv, [Connection!Next]_Connection!vars
  PROVE  ConnectionIInv'
<1> USE ConnectionsAssumption DEF Connections, Connection!Connections, Connection!config,
      Connection!server, Connection!history, Connection!Idle
<1>f. /\ ConnectionTypes /\ Order /\ Unreturned /\ Kept /\ InOnePlace
      /\ Connection!CommitKeeps /\ Connection!TwiceOnlyIfReplayed
  BY DEF ConnectionIInv
<1>n. /\ step.op \in {"idle", "commit", "fetch", "fetch again"} \cup Querying
      /\ step.op \notin {"idle", "commit"} => step.cursor \in Cursors
      /\ step.op \in Querying => step.statement \in Statements
  BY <1>f, StepFields DEF ConnectionTypes
<1>i. step' = [op |-> "idle"] => step' \in Steps /\ step'.op = "idle"
  BY IdleStep
<1>c. step' = [op |-> "commit"] => step' \in Steps /\ step'.op = "commit"
  BY CommitStep
<1>t. /\ conn \in Nat /\ raw \in [Cursors -> Nat] /\ ran \in [Statements -> Nat]
      /\ 0 \notin Connections /\ \A k \in Connections : k \in Nat
  BY <1>f DEF ConnectionTypes
<1>o. (\A c \in Cursors : raw[c] <= conn) /\ \A s \in Statements : ran[s] <= conn
  BY <1>f DEF Order
<1>1. CASE UNCHANGED Connection!vars
  BY <1>1, <1>f DEF Connection!vars, ConnectionIInv, ConnectionTypes, Order, Unreturned, Kept,
       InOnePlace, Connection!CommitKeeps, Connection!TwiceOnlyIfReplayed
<1>2. ASSUME NEW c \in Cursors, Connection!Fetch(c) PROVE ConnectionIInv'
  <2>1. step' \in Steps /\ step'.op = "fetch"
    BY <1>2, FetchStep DEF Connection!Fetch
  <2>2. UNCHANGED <<auto_reconnect, autocommit, conn, raw, alive, pending, commits, ran, open,
                    acked, asked>>
    BY <1>2 DEF Connection!Fetch
  <2> QED
    BY <1>f, <2>1, <2>2
    DEF ConnectionIInv, ConnectionTypes, Order, Unreturned, Kept, InOnePlace, Querying,
        Connection!CommitKeeps, Connection!TwiceOnlyIfReplayed
<1>3. ASSUME NEW c \in Cursors, Connection!NewCursor(c) PROVE ConnectionIInv'
  <2>1. UNCHANGED <<auto_reconnect, autocommit, conn, step, alive, pending, commits, ran, open,
                    acked, asked>>
    BY <1>3 DEF Connection!NewCursor
  <2>2. raw' = [raw EXCEPT ![c] = conn]
    BY <1>3 DEF Connection!NewCursor
  <2>3. ConnectionTypes'
    BY <1>f, <2>1, <2>2 DEF ConnectionTypes
  <2>4. \A d \in Cursors : raw'[d] <= conn
    BY <1>t, <1>o, <2>2
  <2>5. Order'
    BY <1>f, <2>1, <2>4 DEF Order
  <2> QED
    BY <1>f, <2>1, <2>3, <2>5
    DEF ConnectionIInv, Unreturned, Kept, InOnePlace, Connection!CommitKeeps,
        Connection!TwiceOnlyIfReplayed
<1>4. ASSUME NEW c \in Cursors, NEW s \in Statements, Connection!Query(c, s)
      PROVE  ConnectionIInv'
  <2>0. /\ step.op = "idle" /\ ran[s] = 0 /\ commits[s] = 0
        /\ \A k \in Connections : s \notin pending[k]
        /\ UNCHANGED <<auto_reconnect, autocommit, conn, raw>>
    BY <1>4, IdleStep DEF Connection!Query
  <2>k. raw[c] \in Connections /\ raw[c] <= conn /\ acked[s] = 0
    BY <1>f, <2>0 DEF ConnectionTypes, Order, Unreturned
  <2>1. CASE Connection!Executed(raw[c], s) /\ Connection!Returned(s, raw[c])
    <3>1. /\ step' \in Steps /\ step'.op = "idle" /\ alive' = alive
          /\ ran' = [ran EXCEPT ![s] = raw[c]] /\ open' = open \cup {s}
          /\ UNCHANGED <<acked, asked>>
      BY <2>1, <1>i DEF Connection!Executed, Connection!Returned
    <3>2. Order' /\ Unreturned'
      BY <1>f, <2>0, <2>k, <3>1 DEF ConnectionTypes, Querying, Order, Unreturned
    <3>r. \A q \in Statements : acked'[q] = acked[q] /\ (acked[q] # 0 => ran'[q] = ran[q])
      BY <1>t, <2>k, <3>1
    <3>3. CASE autocommit
      <4>1. /\ pending' = pending
            /\ commits' = [q \in Statements |->
                             IF q \in {s} THEN commits[q] + 1 ELSE commits[q]]
        BY <2>1, <3>3 DEF Connection!Executed, Connection!Committed
      <4>2. /\ commits' \in [Statements -> Nat] /\ commits'[s] = 1
            /\ \A q \in Statements \ {s} : commits'[q] = commits[q]
            /\ \A q \in Statements : commits'[q] >= commits[q]
        BY <1>f, <2>0, <4>1, OneEffect DEF ConnectionTypes
      <4>3. ConnectionTypes'
        BY <1>f, <2>0, <2>k, <3>1, <4>1, <4>2 DEF ConnectionTypes
      <4>4. Kept' /\ InOnePlace'
        BY <1>f, <2>0, <3>1, <3>3, <4>1, <4>2 DEF ConnectionTypes, Kept, InOnePlace
      <4>5. Connection!CommitKeeps' /\ Connection!TwiceOnlyIfReplayed'
        <5>1. \A q \in Statements : commits'[q] > 1 => commits[q] > 1
          BY <4>2
        <5> QED BY <1>f, <2>0, <3>1, <3>r, <4>2, <5>1, ReportsStay
      <4> QED BY <3>2, <4>3, <4>4, <4>5 DEF ConnectionIInv
    <3>4. CASE ~autocommit
      <4>1. /\ commits' = commits
            /\ pending' = [pending EXCEPT ![raw[c]] = pending[raw[c]] \cup {s}]
        BY <2>1, <3>4 DEF Connection!Executed
      <4>2. ConnectionTypes'
        BY <1>f, <2>0, <2>k, <3>1, <4>1 DEF ConnectionTypes
      <4>3. Kept'
        BY <1>f, <2>0, <2>k, <3>1, <4>1 DEF ConnectionTypes, Kept
      <4>4. InOnePlace'
        BY <1>f, <2>0, <2>k, <3>1, <3>4, <4>1 DEF ConnectionTypes, Querying, InOnePlace
      <4>5. Connection!CommitKeeps' /\ Connection!TwiceOnlyIfReplayed'
        BY <1>f, <2>0, <3>1, <3>r, <4>1, ReportsStay DEF ConnectionTypes
      <4> QED BY <3>2, <4>2, <4>3, <4>4, <4>5 DEF ConnectionIInv
    <3> QED BY <3>3, <3>4
  <2>2. CASE Connection!ExecuteRaises(raw[c], s) /\ UNCHANGED Connection!history
             /\ step' = [op |-> "query", cursor |-> c, statement |-> s]
    <3>1. step' \in Steps /\ step'.op = "query" /\ step'.statement = s
      BY <2>2, QueryStep
    <3>2. /\ pending' \in [Connections -> SUBSET Statements]
          /\ \A j \in Connections : pending'[j] \subseteq pending[j]
      BY <1>f, <2>2, <2>k DEF Connection!ExecuteRaises, Connection!Break, ConnectionTypes
    <3>3. \/ commits' = commits
          \/ autocommit /\ commits' = [q \in Statements |->
                                        IF q \in {s} THEN commits[q] + 1 ELSE commits[q]]
      BY <2>2, <1>f DEF Connection!ExecuteRaises, Connection!Committed, ConnectionTypes
    <3>4. /\ commits' \in [Statements -> Nat] /\ (~autocommit => commits' = commits)
          /\ \A q \in Statements :
               commits'[q] >= commits[q] /\ (commits'[q] > 1 => commits[q] > 1)
      <4>1. CASE commits' = commits
        BY <1>f, <4>1 DEF ConnectionTypes
      <4>2. CASE autocommit /\ commits' = [q \in Statements |->
                                        IF q \in {s} THEN commits[q] + 1 ELSE commits[q]]
        BY <1>f, <2>0, <4>2, OneEffect DEF ConnectionTypes
      <4> QED BY <3>3, <4>1, <4>2
    <3>5. UNCHANGED <<ran, open, acked, asked>>
      BY <2>2
    <3>6. ConnectionTypes' /\ Order' /\ Unreturned' /\ Kept'
      BY <1>f, <2>0, <3>1, <3>2, <3>4, <3>5
      DEF ConnectionTypes, Querying, Order, Unreturned, Kept
    <3>7. InOnePlace'
      BY <1>f, <2>0, <3>1, <3>2, <3>4 DEF ConnectionTypes, Querying, InOnePlace
    <3>8. Connection!CommitKeeps' /\ Connection!TwiceOnlyIfReplayed'
      BY <1>f, <2>0, <3>4, <3>5, ReportsStay
    <3> QED BY <3>6, <3>7, <3>8 DEF ConnectionIInv
  <2> QED BY <1>4, <2>1, <2>2 DEF Connection!Query
<1>5. CASE Connection!Recover
  <2>0. UNCHANGED <<auto_reconnect, autocommit, pending, commits, ran, acked, asked>>
    BY <1>5 DEF Connection!Recover, Connection!Raised, Connection!TryAgainOn
  <2>r. Connection!CommitKeeps' /\ Connection!TwiceOnlyIfReplayed'
    BY <1>f, <2>0 DEF Connection!CommitKeeps, Connection!TwiceOnlyIfReplayed
  <2>1. CASE Connection!Raised /\ UNCHANGED <<conn, raw, alive>>
    <3>1. step' \in Steps /\ step'.op = "idle" /\ open' = {}
      BY <2>1, <1>i DEF Connection!Raised
    <3> QED
      BY <1>f, <2>0, <2>1, <2>r, <3>1
      DEF ConnectionIInv, ConnectionTypes, Querying, Order, Unreturned, Kept, InOnePlace
  <2>2. ASSUME NEW k \in Connections, auto_reconnect, Connection!Connect(k),
               Connection!TryAgainOn(k)
        PROVE  ConnectionIInv'
    <3>1. /\ step' \in Steps /\ step'.op \in {"query again", "fetch again"}
          /\ step'.op = "query again" => step.op = "query" /\ step'.statement = step.statement
      BY <1>f, <1>5, <2>2, AgainStep
      DEF Connection!Recover, Connection!TryAgainOn, ConnectionTypes
    <3>2. /\ conn' = conn + 1 /\ conn' = k /\ raw' = [raw EXCEPT ![step.cursor] = k]
          /\ open' = open
      BY <2>2 DEF Connection!Connect, Connection!TryAgainOn
    <3>3. raw' \in [Cursors -> Connections] /\ \A c \in Cursors : raw'[c] <= conn'
      <4>1. raw' \in [Cursors -> Connections]
        BY <1>f, <3>2 DEF ConnectionTypes
      <4>2. ASSUME NEW c \in Cursors PROVE raw'[c] <= conn'
        <5>1. raw'[c] = conn' \/ raw'[c] = raw[c]
          BY <1>t, <3>2
        <5>2. raw[c] \in Nat /\ raw[c] <= conn
          BY <1>t, <1>o
        <5> QED BY <1>t, <3>2, <5>1, <5>2
      <4> QED BY <4>1, <4>2
    <3>4. ConnectionTypes'
      BY <1>f, <2>0, <3>1, <3>2, <3>3 DEF ConnectionTypes
    <3>5. Order'
      BY <1>f, <1>t, <2>0, <2>2, <3>2, <3>3 DEF Order
    <3>6. Unreturned' /\ InOnePlace'
      BY <1>f, <2>0, <3>1, <3>2 DEF ConnectionTypes, Querying, Unreturned, InOnePlace
    <3>7. Kept'
      <4>1. \A q \in Statements : ran[q] # conn'
        BY <1>t, <1>o, <3>2
      <4> QED BY <1>f, <2>0, <3>1, <3>2, <4>1 DEF ConnectionTypes, Kept
    <3> QED BY <2>r, <3>4, <3>5, <3>6, <3>7 DEF ConnectionIInv
  <2> QED BY <1>5, <2>1, <2>2 DEF Connection!Recover
<1>6. CASE Connection!QueryAgain
  <2> SUFFICES ASSUME NEW s \in Statements, s = step.statement,
                      NEW k \in Connections, k = raw[step.cursor]
               PROVE  ConnectionIInv'
    BY <1>6, <1>f, <1>n DEF Connection!QueryAgain, Querying, ConnectionTypes
  <2>0. /\ step.op = "query again" /\ auto_reconnect
        /\ UNCHANGED <<auto_reconnect, autocommit, conn, raw>>
    BY <1>6, <1>f DEF Connection!QueryAgain, Order
  <2>i. step' \in Steps /\ step'.op = "idle"
    BY <1>6, <1>i DEF Connection!QueryAgain, Connection!Returned, Connection!Raised
  <2>k. k <= conn /\ ran[s] = 0 /\ acked[s] = 0
    BY <1>f, <1>n, <2>0 DEF Order, Unreturned, Querying
  <2>n. /\ \A q \in open : ran[q] # conn
        /\ ~autocommit => commits[s] = 0 /\ \A j \in Connections : s \notin pending[j]
    BY <1>f, <2>0 DEF Querying, Kept, InOnePlace
  <2>1. CASE Connection!Executed(k, s) /\ Connection!Returned(s, k)
    <3>1. /\ ran' = [ran EXCEPT ![s] = k] /\ open' = open \cup {s} /\ k \in alive
          /\ UNCHANGED <<acked, asked, alive>>
      BY <2>1 DEF Connection!Executed, Connection!Returned
    <3>2. Order'
      BY <1>f, <1>t, <2>0, <2>i, <2>k, <3>1 DEF Order
    <3>u. Unreturned'
      BY <1>f, <1>t, <2>i, <3>1 DEF Querying, Unreturned
    <3>r. \A q \in Statements : acked'[q] = acked[q] /\ (acked[q] # 0 => ran'[q] = ran[q])
      BY <1>t, <2>k, <3>1
    <3>3. CASE autocommit
      <4>1. /\ pending' = pending
            /\ commits' = [q \in Statements |->
                             IF q \in {s} THEN commits[q] + 1 ELSE commits[q]]
        BY <2>1, <3>3 DEF Connection!Executed, Connection!Committed
      <4>2. /\ commits' \in [Statements -> Nat] /\ commits'[s] > 0
            /\ \A q \in Statements : commits'[q] >= commits[q]
        BY <1>f, <4>1, OneEffect DEF ConnectionTypes
      <4>3. ConnectionTypes'
        BY <1>f, <2>0, <2>i, <3>1, <4>1, <4>2 DEF ConnectionTypes
      <4>4. Kept'
        BY <1>f, <2>0, <2>i, <2>n, <3>1, <4>2 DEF ConnectionTypes, Kept
      <4>5. InOnePlace'
        BY <1>f, <2>0, <3>3, <4>1 DEF InOnePlace
      <4>6. Connection!CommitKeeps' /\ Connection!TwiceOnlyIfReplayed'
        BY <1>f, <2>0, <3>1, <3>3, <3>r, <4>2, ReportsStay
      <4> QED BY <3>2, <3>u, <4>3, <4>4, <4>5, <4>6 DEF ConnectionIInv
    <3>4. CASE ~autocommit
      <4>1. commits' = commits /\ pending' = [pending EXCEPT ![k] = pending[k] \cup {s}]
        BY <2>1, <3>4 DEF Connection!Executed
      <4>2. ConnectionTypes'
        BY <1>f, <2>0, <2>i, <3>1, <4>1 DEF ConnectionTypes
      <4>3. Kept'
        BY <1>f, <2>0, <2>i, <2>n, <3>1, <4>1 DEF ConnectionTypes, Kept
      <4>4. InOnePlace'
        <5>1. ASSUME NEW j \in Connections, NEW q \in pending'[j]
              PROVE  commits'[q] = 0 /\ \A l \in Connections \ {j} : q \notin pending'[l]
          <6>1. CASE q = s
            BY <1>f, <2>n, <3>4, <4>1, <5>1, <6>1 DEF ConnectionTypes
          <6>2. CASE q # s
            BY <1>f, <3>4, <4>1, <5>1, <6>2 DEF ConnectionTypes, InOnePlace
          <6> QED BY <6>1, <6>2
        <5> QED BY <1>f, <2>0, <2>i, <3>4, <4>1, <5>1 DEF Querying, InOnePlace
      <4>5. Connection!CommitKeeps' /\ Connection!TwiceOnlyIfReplayed'
        <5>1. /\ commits' \in [Statements -> Nat]
              /\ \A q \in Statements : /\ commits'[q] >= commits[q]
                                       /\ commits'[q] > 1 => commits[q] > 1
          BY <1>f, <4>1 DEF ConnectionTypes
        <5> QED BY <1>f, <2>0, <3>1, <3>r, <5>1, ReportsStay
      <4> QED BY <3>2, <3>u, <4>2, <4>3, <4>4, <4>5 DEF ConnectionIInv
    <3> QED BY <3>3, <3>4
  <2>2. CASE Connection!ExecuteRaises(k, s) /\ Connection!Raised
    <3>1. open' = {} /\ UNCHANGED <<ran, acked, asked>>
      BY <2>2 DEF Connection!Raised
    <3>2. /\ pending' \in [Connections -> SUBSET Statements]
          /\ \A j \in Connections : pending'[j] \subseteq pending[j]
      BY <1>f, <2>2 DEF Connection!ExecuteRaises, Connection!Break, ConnectionTypes
    <3>3. \/ commits' = commits
          \/ autocommit /\ commits' = [q \in Statements |->
                                        IF q \in {s} THEN commits[q] + 1 ELSE commits[q]]
      BY <1>f, <2>2 DEF Connection!ExecuteRaises, Connection!Committed, ConnectionTypes
    <3>4. /\ commits' \in [Statements -> Nat] /\ (~autocommit => commits' = commits)
          /\ \A q \in Statements : commits'[q] >= commits[q]
      <4>1. CASE commits' = commits
        BY <1>f, <4>1 DEF ConnectionTypes
      <4>2. CASE autocommit /\ commits' = [q \in Statements |->
                                        IF q \in {s} THEN commits[q] + 1 ELSE commits[q]]
        BY <1>f, <4>2, OneEffect DEF ConnectionTypes
      <4> QED BY <3>3, <4>1, <4>2
    <3>5. ConnectionTypes' /\ Order' /\ Unreturned' /\ Kept'
      BY <1>f, <2>0, <2>i, <3>1, <3>2, <3>4
      DEF ConnectionTypes, Querying, Order, Unreturned, Kept
    <3>6. InOnePlace'
      BY <1>f, <2>0, <2>i, <3>2, <3>4 DEF ConnectionTypes, Querying, InOnePlace
    <3>7. Connection!CommitKeeps' /\ Connection!TwiceOnlyIfReplayed'
      BY <1>f, <2>0, <3>1, <3>4, ReportsStay DEF ConnectionTypes
    <3> QED BY <3>5, <3>6, <3>7 DEF ConnectionIInv
  <2> QED BY <1>6, <2>1, <2>2 DEF Connection!QueryAgain
<1>7. CASE Connection!FetchAgain
  <2>1. /\ step' \in Steps /\ step'.op = "idle" /\ step.op = "fetch again"
        /\ open' \in {open, {}} /\ UNCHANGED <<ran, acked, asked>>
    BY <1>7, <1>i DEF Connection!FetchAgain, Connection!Raised
  <2>2. UNCHANGED <<auto_reconnect, autocommit, conn, raw, alive, pending, commits>>
    BY <1>7 DEF Connection!FetchAgain
  <2>3. ConnectionTypes' /\ Order' /\ Unreturned' /\ Kept' /\ InOnePlace'
    BY <1>f, <2>1, <2>2 DEF ConnectionTypes, Querying, Order, Unreturned, Kept, InOnePlace
  <2> QED
    BY <1>f, <2>1, <2>2, <2>3
    DEF ConnectionIInv, Connection!CommitKeeps, Connection!TwiceOnlyIfReplayed
<1>8. CASE Connection!Commit
  <2>0. step.op = "idle" /\ UNCHANGED <<auto_reconnect, autocommit, conn, raw>>
    BY <1>8, IdleStep DEF Connection!Commit
  <2> DEFINE Moved ==
        /\ pending' = [pending EXCEPT ![conn] = {}]
        /\ commits' = [q \in Statements |->
                        IF q \in pending[conn] THEN commits[q] + 1 ELSE commits[q]]
  <2>m. ASSUME Moved
        PROVE  /\ pending' \in [Connections -> SUBSET Statements]
               /\ commits' \in [Statements -> Nat]
               /\ \A q \in Statements : commits'[q] >= commits[q]
               /\ \A q \in pending[conn] : commits'[q] > 0
               /\ \A q \in Statements : commits'[q] > 1 =>
                    commits[q] > 1 \/ (auto_reconnect /\ autocommit)
    BY <1>f, <2>m DEF ConnectionTypes, InOnePlace
  <2>p. ASSUME Moved, step'.op \notin Querying PROVE InOnePlace'
    BY <1>f, <2>0, <2>p DEF ConnectionTypes, InOnePlace
  <2>1. CASE Connection!CommitDone(conn) /\ Connection!CommitReturns
    <3>1. conn \in alive /\ Moved
      BY <2>1 DEF Connection!CommitDone, Connection!Committed
    <3>2. /\ acked' = [q \in Statements |-> IF q \in open THEN conn ELSE acked[q]]
          /\ open' = {} /\ UNCHANGED <<ran, asked>>
          /\ step' \in Steps /\ step'.op = "idle"
      BY <2>0, <2>1, <1>i DEF Connection!CommitReturns
    <3> HIDE DEF Moved
    <3>3. ConnectionTypes' /\ Order' /\ Unreturned' /\ Kept'
      BY <1>f, <2>0, <2>m, <3>1, <3>2 DEF ConnectionTypes, Querying, Order, Unreturned, Kept
    <3>4. InOnePlace'
      BY <2>p, <3>1, <3>2 DEF Querying
    <3>5. Connection!TwiceOnlyIfReplayed'
      BY <1>f, <2>0, <2>m, <3>1 DEF Connection!TwiceOnlyIfReplayed
    <3>6. Connection!CommitKeeps'
      BY <1>f, <2>0, <2>m, <3>1, <3>2
      DEF ConnectionTypes, Order, Unreturned, Kept, Connection!CommitKeeps
    <3> QED BY <3>3, <3>4, <3>5, <3>6 DEF ConnectionIInv
  <2>2. CASE Connection!CommitRaises(conn)
             /\ IF auto_reconnect
                THEN step' = [op |-> "commit"] /\ UNCHANGED Connection!history
                ELSE Connection!Raised
    <3>1. /\ step' \in Steps /\ UNCHANGED <<ran, acked, asked>>
          /\ \/ step'.op = "commit" /\ auto_reconnect /\ open' = open
             \/ step'.op = "idle" /\ open' = {}
      BY <2>2, <1>i, <1>c DEF Connection!Raised
    <3>2. CASE Moved
      <4> HIDE DEF Moved
      <4>1. ConnectionTypes' /\ Order' /\ Unreturned' /\ Kept'
        BY <1>f, <2>0, <2>m, <3>1, <3>2 DEF ConnectionTypes, Querying, Order, Unreturned, Kept
      <4>2. InOnePlace'
        BY <2>p, <3>1, <3>2 DEF Querying
      <4>3. Connection!CommitKeeps' /\ Connection!TwiceOnlyIfReplayed'
        BY <1>f, <2>0, <2>m, <3>1, <3>2, ReportsStay DEF ConnectionTypes
      <4> QED BY <4>1, <4>2, <4>3 DEF ConnectionIInv
    <3>3. CASE commits' = commits /\ pending' \in {pending, [pending EXCEPT ![conn] = {}]}
      <4>1. /\ pending' \in [Connections -> SUBSET Statements]
            /\ \A j \in Connections : pending'[j] \subseteq pending[j]
        BY <1>f, <3>3 DEF ConnectionTypes
      <4>2. ConnectionTypes' /\ Order' /\ Unreturned' /\ Kept'
        BY <1>f, <2>0, <3>1, <3>3, <4>1 DEF ConnectionTypes, Querying, Order, Unreturned, Kept
      <4>3. InOnePlace'
        BY <1>f, <2>0, <3>1, <3>3, <4>1 DEF ConnectionTypes, Querying, InOnePlace
      <4>4. Connection!CommitKeeps' /\ Connection!TwiceOnlyIfReplayed'
        BY <1>f, <2>0, <3>1, <3>3 DEF Connection!CommitKeeps, Connection!TwiceOnlyIfReplayed
      <4> QED BY <4>2, <4>3, <4>4 DEF ConnectionIInv
    <3> QED
      BY <2>2, <3>2, <3>3
      DEF Connection!CommitRaises, Connection!Break, Connection!Committed
  <2> QED BY <1>8, <2>1, <2>2 DEF Connection!Commit
<1>9. CASE Connection!CommitAgain
  <2>0. step.op = "commit" /\ auto_reconnect
    BY <1>f, <1>9 DEF Connection!CommitAgain, Order
  <2>1. UNCHANGED <<auto_reconnect, autocommit, raw, pending, commits, ran, asked>>
    BY <1>9 DEF Connection!CommitAgain, Connection!CommitReturns, Connection!Raised
  <2>2. step' \in Steps /\ step'.op = "idle" /\ open' = {}
    BY <1>9, <1>i DEF Connection!CommitAgain, Connection!CommitReturns, Connection!Raised
  <2>3. \/ /\ conn' = conn + 1 /\ conn' \in Connections
           /\ acked' = [q \in Statements |-> IF q \in open THEN conn' ELSE acked[q]]
        \/ conn' = conn /\ acked' = acked
    BY <1>9
    DEF Connection!CommitAgain, Connection!Connect, Connection!CommitReturns, Connection!Raised
  <2>4. ConnectionTypes' /\ Unreturned'
    BY <1>f, <2>1, <2>2, <2>3 DEF ConnectionTypes, Querying, Unreturned
  <2>5. Order'
    BY <1>f, <1>t, <2>0, <2>1, <2>2, <2>3 DEF Order
  <2>6. Kept' /\ InOnePlace'
    BY <1>f, <2>1, <2>2 DEF Querying, Kept, InOnePlace
  <2>7. Connection!CommitKeeps' /\ Connection!TwiceOnlyIfReplayed'
    BY <1>f, <2>0, <2>1, <2>3
    DEF ConnectionTypes, Order, Connection!CommitKeeps, Connection!TwiceOnlyIfReplayed
  <2> QED BY <2>4, <2>5, <2>6, <2>7 DEF ConnectionIInv
<1>10. CASE Connection!Rollback
  <2>1. /\ pending' \in [Connections -> SUBSET Statements]
        /\ \A j \in Connections : pending'[j] \subseteq pending[j]
    BY <1>f, <1>10 DEF Connection!Rollback, ConnectionTypes
  <2>2. /\ open' = {}
        /\ UNCHANGED <<auto_reconnect, autocommit, conn, raw, step, commits>>
        /\ UNCHANGED <<ran, acked, asked>>
    BY <1>10 DEF Connection!Rollback
  <2>3. ConnectionTypes' /\ Order' /\ Unreturned' /\ Kept'
    BY <1>f, <2>1, <2>2 DEF ConnectionTypes, Order, Unreturned, Kept
  <2>4. InOnePlace'
    BY <1>f, <2>1, <2>2 DEF ConnectionTypes, InOnePlace
  <2> QED
    BY <1>f, <2>2, <2>3, <2>4
    DEF ConnectionIInv, Connection!CommitKeeps, Connection!TwiceOnlyIfReplayed
<1>11. CASE Connection!Reconnect
  <2>1. /\ conn' = conn + 1 /\ conn' \in Connections /\ asked' = TRUE
        /\ UNCHANGED <<auto_reconnect, autocommit, raw, step, pending, commits>>
        /\ UNCHANGED <<ran, open, acked>>
    BY <1>11 DEF Connection!Reconnect, Connection!Connect
  <2>2. step.op = "idle"
    BY <1>11, IdleStep DEF Connection!Reconnect
  <2>3. ConnectionTypes' /\ Order' /\ Unreturned' /\ InOnePlace'
    BY <1>f, <2>1, <2>2 DEF ConnectionTypes, Querying, Order, Unreturned, InOnePlace
  <2>4. Kept'
    BY <1>f, <2>1, <2>2 DEF ConnectionTypes, Order, Kept
  <2> QED
    BY <1>f, <2>1, <2>3, <2>4
    DEF ConnectionIInv, Connection!CommitKeeps, Connection!TwiceOnlyIfReplayed
<1>12. ASSUME NEW k \in Connections, Connection!LinkBreaks(k) PROVE ConnectionIInv'
  <2>1. /\ pending' = [pending EXCEPT ![k] = {}] /\ alive' = alive \ {k}
        /\ UNCHANGED <<auto_reconnect, autocommit, conn, raw, step, commits>>
        /\ UNCHANGED <<ran, open, acked, asked>>
    BY <1>12 DEF Connection!LinkBreaks, Connection!Break
  <2>2. ConnectionTypes' /\ Order' /\ Unreturned' /\ Kept'
    BY <1>f, <2>1 DEF ConnectionTypes, Order, Unreturned, Kept
  <2>3. InOnePlace'
    BY <1>f, <2>1 DEF ConnectionTypes, InOnePlace
  <2> QED
    BY <1>f, <2>1, <2>2, <2>3
    DEF ConnectionIInv, Connection!CommitKeeps, Connection!TwiceOnlyIfReplayed
<1> QED
  BY <1>1, <1>2, <1>3, <1>4, <1>5, <1>6, <1>7, <1>8, <1>9, <1>10, <1>11, <1>12
  DEF Connection!Next

-----------------------------------------------------------------------------

\* commit() of anysql: what it reports as committed is, unless it was asked to reconnect or
\* had to; and a statement takes effect once, unless it commits itself and is tried again.
THEOREM ReportsAreTrue == Connection!Spec => []CommitsAsReported
<1>1. ConnectionIInv /\ [Connection!Next]_Connection!vars => ConnectionIInv'
  BY ConnectionInductive
<1>2. ConnectionIInv => CommitsAsReported
  BY DEF ConnectionIInv, CommitsAsReported
<1> QED BY <1>1, <1>2, ConnectionInitially, PTL DEF Connection!Spec

-----------------------------------------------------------------------------
(* The two modules side by side, as SqlSpec has them: what holds of either *)
(* holds of a behaviour in which one of them is at work.                   *)

LEMMA EachPartSteps ==
  [SqlNext]_<<part, connectionVars, vars>> => [Connection!Next]_Connection!vars /\ [Next]_vars
BY DEF SqlNext, connectionVars, Connection!vars, Connection!config, Connection!server,
  Connection!history

LEMMA EachPart == SqlSpec => Connection!Spec /\ Spec
BY EachPartSteps, PTL DEF SqlSpec, SqlInit, Connection!Spec, Spec

\* Both modules of the library at work side by side: what commit() reports is committed, a
\* context that returned is, unless it joined what an interrupt left, and nothing else was
\* committed with them.
THEOREM SqlIsTrue ==
  SqlSpec => []CommitsAsReported /\ []OutcomeIsTrue /\ CommitsItsOwn
BY EachPart, ReportsAreTrue, OutcomesAreTrue, NothingForeignIsCommitted
=============================================================================
