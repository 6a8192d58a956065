------------------------------- MODULE MCSql --------------------------------
(***************************************************************************)
(* An instance for TLC of the two SQL modules, one or the other at work in *)
(* a behaviour.                                                            *)
(***************************************************************************)
EXTENDS SqliteTransactions

CONSTANTS Statements, Cursors, MaxConnections

ASSUME ConnectionsAssumption == MaxConnections \in Nat \ {0}

VARIABLES
  part,
  auto_reconnect, autocommit, conn, raw, step, alive, pending, commits, ran, open,
  acked, asked

connectionVars == <<auto_reconnect, autocommit, conn, raw, step, alive, pending, commits,
                    ran, open, acked, asked>>

Connection == INSTANCE AnySql

SqlInit == part \in {"connection", "transactions"} /\ Connection!Init /\ Init

SqlNext ==
  \/ part = "connection" /\ Connection!Next /\ UNCHANGED <<part, vars>>
  \/ part = "transactions" /\ Next /\ UNCHANGED <<part, connectionVars>>

SqlSpec == SqlInit /\ [][SqlNext]_<<part, connectionVars, vars>>

\* See AnySql: what is reported as committed is, and it is committed once, but where the
\* caller chose to reconnect.
CommitsAsReported == Connection!CommitKeeps /\ Connection!TwiceOnlyIfReplayed
=============================================================================
