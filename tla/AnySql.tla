------------------------------- MODULE AnySql -------------------------------
(***************************************************************************)
(* sonicprobe.libs.anysql: one connection and the cursors its caller makes *)
(* of it, used by one thread.  With auto_reconnect a call that fails on a  *)
(* broken link connects again and is tried once more, on the new driver    *)
(* connection.                                                             *)
(*                                                                         *)
(* Driver connections are numbered in the order they are made.  A link may *)
(* break at any time, also after the server has done what it was asked;    *)
(* the server then rolls back what is not committed.                       *)
(* Operators marked "Variant" are not part of the model: each is a defect  *)
(* that a property is shown to detect.                                     *)
(***************************************************************************)
EXTENDS Naturals

CONSTANTS
  Statements,      \* each is given to query() or querymany() at most once
  Cursors,
  MaxConnections   \* bound: driver connections made

Connections == 1 .. MaxConnections

VARIABLES
  auto_reconnect,
  autocommit,     \* of the session: each statement commits itself
  conn,           \* __dbapi2_conn
  raw,            \* __dbapi2_cursor of each cursor: the connection it is of
  step,           \* what the thread is doing: "idle", or a call that failed
  alive,          \* the links that work
  pending,        \* statements in the open transaction of a connection
  commits,        \* how often the server has committed a statement
  ran,            \* history: the connection a query that returned had run on; 0: none
  open,           \* history: queries that returned since the last commit, rollback or error
  acked,          \* history: the connection of the commit() that returned after it; 0
  asked           \* history: the caller has called reconnect()

config  == <<auto_reconnect, autocommit>>
server  == <<alive, pending, commits>>
history == <<ran, open, acked, asked>>
vars    == <<config, conn, raw, step, server, history>>

Idle == [op |-> "idle"]

Init ==
  /\ auto_reconnect \in BOOLEAN /\ autocommit \in BOOLEAN
  /\ conn = 1 /\ raw = [c \in Cursors |-> 1]
  /\ step = Idle
  /\ alive = {1}
  /\ pending = [k \in Connections |-> {}]
  /\ commits = [s \in Statements |-> 0]
  /\ ran = [s \in Statements |-> 0] /\ open = {}
  /\ acked = [s \in Statements |-> 0] /\ asked = FALSE

-----------------------------------------------------------------------------
(* The drivers and the servers, as far as anysql.py sees them.             *)

Committed(S) == [s \in Statements |-> IF s \in S THEN commits[s] + 1 ELSE commits[s]]

Break(k) == alive' = alive \ {k} /\ pending' = [pending EXCEPT ![k] = {}]

Executed(k, s) ==
  /\ k \in alive
  /\ IF autocommit THEN commits' = Committed({s}) /\ UNCHANGED pending
     ELSE pending' = [pending EXCEPT ![k] = @ \cup {s}] /\ UNCHANGED commits
  /\ UNCHANGED alive

\* An error of the statement, for which the server may abort the transaction, a
\* link found dead, or one that breaks before or after the statement ran
ExecuteRaises(k, s) ==
  \/ UNCHANGED server
  \/ k \in alive /\ pending' = [pending EXCEPT ![k] = {}] /\ UNCHANGED <<alive, commits>>
  \/ k \in alive /\ Break(k) /\ commits' \in {commits, Committed(IF autocommit THEN {s} ELSE {})}

CommitDone(k) ==
  /\ k \in alive
  /\ commits' = Committed(pending[k]) /\ pending' = [pending EXCEPT ![k] = {}]
  /\ UNCHANGED alive

\* A transaction the server refuses stays open or is rolled back
CommitRaises(k) ==
  \/ UNCHANGED server
  \/ k \in alive /\ pending' = [pending EXCEPT ![k] = {}] /\ UNCHANGED <<alive, commits>>
  \/ k \in alive /\ Break(k) /\ commits' \in {commits, Committed(pending[k])}

\* The backends ask the driver, which may not know yet that the link is dead
IsConnected(answer) == conn \in alive => answer

\* connect_by_uri() of the backend may raise
Connect(k) == k = conn + 1 /\ conn' = k /\ alive' = alive \cup {k}

-----------------------------------------------------------------------------
(* cursor.query(), querymany() and fetch*().                               *)

Returned(s, k) ==
  /\ step' = Idle
  /\ ran' = [ran EXCEPT ![s] = k] /\ open' = open \cup {s}
  /\ UNCHANGED <<acked, asked>>

\* What the transaction held is void to a caller who sees an error
Raised == step' = Idle /\ open' = {} /\ UNCHANGED <<ran, acked, asked>>

Query(c, s) ==
  /\ step = Idle /\ ran[s] = 0 /\ commits[s] = 0
  /\ \A k \in Connections : s \notin pending[k]
  /\ \/ Executed(raw[c], s) /\ Returned(s, raw[c])
     \/ ExecuteRaises(raw[c], s)
        /\ step' = [op |-> "query", cursor |-> c, statement |-> s] /\ UNCHANGED history
  /\ UNCHANGED <<config, conn, raw>>

\* Rows come from the server while the link is good
Fetch(c) ==
  /\ step = Idle /\ raw[c] \notin alive
  /\ step' = [op |-> "fetch", cursor |-> c]
  /\ UNCHANGED <<config, conn, raw, server, history>>

TryAgainOn(k) ==
  /\ raw' = [raw EXCEPT ![step.cursor] = k]
  /\ step' = [step EXCEPT !.op = IF @ = "query" THEN "query again" ELSE "fetch again"]
  /\ UNCHANGED history

\* Variant: the failure is taken for a broken link, whatever the caller asked
RecoverAlways ==
  /\ step.op \in {"query", "fetch"}
  /\ \/ Raised /\ UNCHANGED <<conn, raw, alive>>
     \/ \E k \in Connections : Connect(k) /\ TryAgainOn(k)
  /\ UNCHANGED <<config, pending, commits>>

\* The except clause: raise, or reconnect() and take a cursor of its connection
Recover ==
  /\ step.op \in {"query", "fetch"}
  /\ \/ /\ ~auto_reconnect \/ \E answer \in BOOLEAN : IsConnected(answer)
        /\ Raised /\ UNCHANGED <<conn, raw, alive>>
     \/ /\ auto_reconnect /\ IsConnected(FALSE)
        /\ \E k \in Connections : Connect(k) /\ TryAgainOn(k)
  /\ UNCHANGED <<config, pending, commits>>

QueryAgain ==
  /\ step.op = "query again"
  /\ LET k == raw[step.cursor] s == step.statement IN
       \/ Executed(k, s) /\ Returned(s, k)
       \/ ExecuteRaises(k, s) /\ Raised
  /\ UNCHANGED <<config, conn, raw>>

\* A cursor that has executed nothing: no row, or an error
FetchAgain ==
  /\ step.op = "fetch again"
  /\ Raised \/ (step' = Idle /\ UNCHANGED history)
  /\ UNCHANGED <<config, conn, raw, server>>

-----------------------------------------------------------------------------
(* connection.                                                             *)

CommitReturns ==
  /\ acked' = [s \in Statements |-> IF s \in open THEN conn' ELSE acked[s]]
  /\ open' = {} /\ step' = Idle /\ UNCHANGED <<ran, asked>>

\* Variant: the failure goes unnoticed
CommitSwallowed ==
  /\ step = Idle
  /\ CommitDone(conn) \/ CommitRaises(conn)
  /\ CommitReturns
  /\ UNCHANGED <<config, conn, raw>>

Commit ==
  /\ step = Idle
  /\ \/ CommitDone(conn) /\ UNCHANGED conn /\ CommitReturns
     \/ /\ CommitRaises(conn) /\ UNCHANGED conn
        /\ IF auto_reconnect THEN step' = [op |-> "commit"] /\ UNCHANGED history
           ELSE Raised
  /\ UNCHANGED <<config, raw>>

\* Any failure of a commit replaces the connection, and the new one is committed
CommitAgain ==
  /\ step.op = "commit"
  /\ \/ \E k \in Connections :
          Connect(k) /\ CommitReturns
     \/ Raised /\ UNCHANGED <<conn, alive>>
  /\ UNCHANGED <<config, raw, pending, commits>>

Rollback ==
  /\ step = Idle
  /\ \/ conn \in alive /\ pending' = [pending EXCEPT ![conn] = {}]
     \/ UNCHANGED pending
  /\ open' = {}
  /\ UNCHANGED <<config, conn, raw, step, alive, commits, ran, acked, asked>>

\* reconnect(), called by the user of the connection
Reconnect ==
  /\ step = Idle
  /\ \E k \in Connections : Connect(k)
  /\ asked' = TRUE
  /\ UNCHANGED <<config, raw, step, pending, commits, ran, open, acked>>

\* cursor()
NewCursor(c) ==
  /\ step = Idle /\ raw[c] # conn
  /\ raw' = [raw EXCEPT ![c] = conn]
  /\ UNCHANGED <<config, conn, step, server, history>>

LinkBreaks(k) ==
  /\ k \in alive /\ Break(k)
  /\ UNCHANGED <<config, conn, raw, step, commits, history>>

Next ==
  \/ \E c \in Cursors : Fetch(c) \/ NewCursor(c) \/ \E s \in Statements : Query(c, s)
  \/ Recover \/ QueryAgain \/ FetchAgain
  \/ Commit \/ CommitAgain \/ Rollback \/ Reconnect
  \/ \E k \in Connections : LinkBreaks(k)

Spec == Init /\ [][Next]_vars

-----------------------------------------------------------------------------
(* Properties.                                                             *)

\* A commit() that returns made durable every statement that had succeeded on the
\* connection it commits; it commits another one than the statement ran on only
\* with auto_reconnect, or after a reconnect() that the caller asked for.
CommitKeeps ==
  \A s \in Statements :
    acked[s] # 0 => \/ commits[s] > 0
                    \/ acked[s] # ran[s] /\ (auto_reconnect \/ asked)

\* The statement that is tried again may have been executed: it is committed
\* twice only with auto_reconnect, in a session where it commits itself.
TwiceOnlyIfReplayed ==
  \A s \in Statements : commits[s] > 1 => auto_reconnect /\ autocommit
=============================================================================
