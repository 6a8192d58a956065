--------------------------- MODULE PidFileProofs ---------------------------
(***************************************************************************)
(* Proofs about the PID-file lock, for any number of processes, which die, *)
(* restart under the same PID and fail at any point.                       *)
(***************************************************************************)
EXTENDS PidFile, TLAPS

\* The file of p is there, and who reads it judges p, which lives
Kept(p) ==
  /\ file = p
  /\ \A q \in Procs \ {p} :
       /\ pc[q] = "judge" => seen[q] = p
       /\ pc[q] \notin {"unlink", "remove"}

NoneAtVerify == \A p \in Procs : pc[p] = "verify" => p \notin temps

IInv ==
  /\ TypeOK
  /\ \A p \in Procs : Linked(p) /\ early[p] = {} => Kept(p)
  /\ NoneAtVerify

-----------------------------------------------------------------------------

LEMMA Initially == Init => IInv
BY DEF Init, IInv, TypeOK, Pc, Linked, NoneAtVerify

\* What a step of one process does to the variables that are not history.
LEMMA TypeStep ==
  ASSUME TypeOK, NEW p \in Procs, Claim(p) \/ Step(p) \/ Die(p) \/ Restart(p)
  PROVE  /\ file' \in Procs \cup {NoFile}
         /\ temps' \subseteq Procs
         /\ pc' \in [Procs -> Pc]
         /\ seen' \in [Procs -> Procs \cup {NoFile}]
         /\ \A q \in Procs \ {p} : pc'[q] = pc[q] /\ seen'[q] = seen[q]
BY DEF TypeOK, Pc, Goto, Claim, Step, ReadPid, Judge, UnlinkStale, WriteTemp, Link,
       Clean, Verify, Fail, ReadOwn, Remove, Die, Restart

\* The history is of the processes that have just linked their files.
LEMMA HistoryStep ==
  ASSUME TypeOK, Remember
  PROVE  /\ early' \in [Procs -> SUBSET Procs]
         /\ \A p \in Procs : Linked(p)' =>
              early'[p] = IF Linked(p) THEN early[p] ELSE Acting(p)
BY DEF TypeOK, Remember, Acting

\* A process whose file is kept keeps it as long as it is linked: the others
\* find the file there, and find that its process lives.
LEMMA KeptStep ==
  ASSUME TypeOK, NEW p \in Procs, Linked(p), Kept(p),
         NEW r \in Procs, Claim(r) \/ Step(r) \/ Die(r) \/ Restart(r), Linked(p)'
  PROVE  Kept(p)'
<1> USE ProcsAssumption
<1>1. CASE r = p
  BY <1>1, TypeStep DEF Kept, Linked, TypeOK, Goto, Claim, Step, ReadPid, Judge, UnlinkStale,
     WriteTemp, Link, Clean, Verify, Fail, ReadOwn, Remove, Die, Restart
<1>2. CASE r # p
  <2>1. /\ file' = file
        /\ pc'[r] = "judge" => seen'[r] = p
        /\ pc'[r] \notin {"unlink", "remove"}
    <3>1. CASE Claim(r) \/ Die(r) \/ Restart(r)
      BY <3>1, <1>2 DEF Kept, TypeOK, Goto, Claim, Die, Restart
    <3>2. CASE ReadPid(r)
      BY <3>2, <1>2 DEF Kept, TypeOK, Goto, ReadPid
    <3>3. CASE Judge(r)
      BY <3>3, <1>2 DEF Kept, Linked, TypeOK, Goto, Judge, Stale
    <3>4. CASE UnlinkStale(r) \/ Remove(r)
      BY <3>4, <1>2 DEF Kept, TypeOK, Goto, UnlinkStale, Remove
    <3>5. CASE WriteTemp(r) \/ Link(r) \/ Clean(r) \/ Verify(r) \/ Fail(r) \/ ReadOwn(r)
      BY <3>5, <1>2 DEF Kept, TypeOK, Goto, WriteTemp, Link, Clean, Verify, Fail, ReadOwn
    <3> QED BY <3>1, <3>2, <3>3, <3>4, <3>5 DEF Step
  <2>2. \A q \in Procs \ {p, r} : pc'[q] = pc[q] /\ seen'[q] = seen[q]
    BY TypeStep
  <2> QED BY <2>1, <2>2 DEF Kept
<1> QED BY <1>1, <1>2

\* A process that links its file while no other is acting on what it read.
LEMMA LinkStep ==
  ASSUME TypeOK, NEW p \in Procs, ~Linked(p), Acting(p) = {},
         NEW r \in Procs, Claim(r) \/ Step(r) \/ Die(r) \/ Restart(r), Linked(p)'
  PROVE  Kept(p)'
<1>1. r = p
  BY TypeStep DEF Linked
<1>2. Link(p)
  BY <1>1 DEF TypeOK, Linked, Goto, Claim, Step, ReadPid, Judge, UnlinkStale,
     WriteTemp, Link, Clean, Verify, Fail, ReadOwn, Remove, Die, Restart
<1>3. file' = p
  BY <1>2 DEF Link, Goto, Linked, TypeOK
<1>4. \A q \in Procs \ {p} : pc'[q] \notin {"judge", "unlink", "remove"}
  BY <1>1, TypeStep DEF Acting
<1> QED BY <1>3, <1>4 DEF Kept

-----------------------------------------------------------------------------

LEMMA Inductive == IInv /\ [Next]_vars => IInv'
<1> SUFFICES ASSUME IInv, [Next]_vars PROVE IInv'
  OBVIOUS
<1>1. CASE UNCHANGED vars
  BY <1>1 DEF vars, IInv, TypeOK, Linked, Kept, NoneAtVerify
<1>2. ASSUME NEW r \in Procs, Claim(r) \/ Step(r) \/ Die(r) \/ Restart(r), Remember
      PROVE  IInv'
  <2>1. TypeOK
    BY DEF IInv
  <2>2. TypeOK'
    BY <2>1, <1>2, TypeStep, HistoryStep DEF TypeOK
  <2>3. ASSUME NEW p \in Procs, Linked(p)', early'[p] = {} PROVE Kept(p)'
    <3>1. CASE Linked(p)
      <4>1. early[p] = {}
        BY <3>1, <2>1, <2>3, <1>2, HistoryStep
      <4>2. Kept(p)
        BY <4>1, <3>1 DEF IInv
      <4> QED BY <4>2, <3>1, <2>1, <2>3, <1>2, KeptStep
    <3>2. CASE ~Linked(p)
      <4>1. Acting(p) = {}
        BY <3>2, <2>1, <2>3, <1>2, HistoryStep
      <4> QED BY <4>1, <3>2, <2>1, <2>3, <1>2, LinkStep
    <3> QED BY <3>1, <3>2
  <2>4. NoneAtVerify'
    BY <1>2 DEF IInv, TypeOK, NoneAtVerify, Goto, Claim, Step, ReadPid, Judge, UnlinkStale,
       WriteTemp, Link, Clean, Verify, Fail, ReadOwn, Remove, Die, Restart
  <2> QED BY <2>2, <2>3, <2>4 DEF IInv
<1> QED BY <1>1, <1>2 DEF Next

LEMMA Invariant == Spec => []IInv
BY Initially, Inductive, PTL DEF Spec

-----------------------------------------------------------------------------

\* lock_pidfile() and unlock_pidfile(): the file of a process that linked it
\* stays its own until it removes it or fails, unless another had read the path
\* before and had not yet acted on it.
THEOREM OwnFileIsKept == Spec => []OwnerKeepsFile
<1>1. IInv => OwnerKeepsFile
  BY DEF IInv, Kept, OwnerKeepsFile
<1> QED BY <1>1, Invariant, PTL

\* Of any number of processes that claim the PID file two own it together only
\* if one of them linked it while another was acting on what it had read.
THEOREM AtMostOneOwner ==
  Spec => [](\A p, q \in Procs : Owns(p) /\ Owns(q) /\ p # q
                                 => early[p] # {} \/ early[q] # {})
<1> DEFINE One == \A p, q \in Procs : Owns(p) /\ Owns(q) /\ p # q
                                      => early[p] # {} \/ early[q] # {}
<1>1. IInv => One
  BY DEF IInv, Kept, Linked, Owns
<1> QED BY <1>1, Invariant, PTL

\* take_file_lock() and lock_pidfile() remove the temporary file however the claim ends.
THEOREM TemporariesAreRemoved == Spec => NoTemporaryLeft
<1> DEFINE Left == \A p \in Procs :
             pc[p] # pc'[p] /\ pc'[p] \in {"verify", "failed"} /\ p \in temps'
             => pc[p] = "write" /\ p \in temps
<1>1. ASSUME IInv, [Next]_vars PROVE [Left]_vars
  <2>1. CASE UNCHANGED vars
    BY <2>1
  <2>2. ASSUME NEW p \in Procs, Claim(p) \/ Step(p) \/ Die(p) \/ Restart(p) PROVE Left
    BY <2>2, <1>1 DEF IInv, TypeOK, NoneAtVerify, Goto, Claim, Step, ReadPid, Judge,
      UnlinkStale, WriteTemp, Link, Clean, Verify, Fail, ReadOwn, Remove, Die, Restart
  <2> QED BY <2>1, <2>2, <1>1 DEF Next
<1> QED BY <1>1, Invariant, PTL DEF Spec, NoTemporaryLeft
=============================================================================
