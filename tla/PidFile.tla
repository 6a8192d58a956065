------------------------------ MODULE PidFile ------------------------------
(***************************************************************************)
(* The PID-file lock of sonicprobe.libs.daemonize.  Processes of one       *)
(* program claim one path; each system call on it is a step.  A process is *)
(* named by its PID, and the content of a file is the PID it was written   *)
(* with.  A process may die at any point, without unlocking, and the       *)
(* program may be started again under the same PID.  A system call may     *)
(* fail, but of the two attempts to remove a temporary file one succeeds.  *)
(* Operators marked "Variant" are not part of the model: each is a defect  *)
(* that a property is shown to detect.                                     *)
(***************************************************************************)
EXTENDS FiniteSets

CONSTANTS Procs, NoFile

ASSUME ProcsAssumption == NoFile \notin Procs

VARIABLES
  file,   \* content of the PID file, or NoFile
  temps,  \* processes whose <pidfile>.<pid> exists
  pc,     \* where each process is
  seen,   \* the PID it read from the PID file, until it has judged it
  early   \* history: who was acting on what it had read of the path when this
          \* process linked its file there

vars == <<file, temps, pc, seen, early>>

Pc == {"out", "read", "judge", "unlink", "write", "link", "clean", "cleanOnly",
       "verify", "failed", "owner", "remove", "dead"}

TypeOK ==
  /\ file \in Procs \cup {NoFile}
  /\ temps \subseteq Procs
  /\ pc \in [Procs -> Pc]
  /\ seen \in [Procs -> Procs \cup {NoFile}]
  /\ early \in [Procs -> SUBSET Procs]

Init ==
  /\ file = NoFile /\ temps = {}
  /\ pc = [p \in Procs |-> "out"]
  /\ seen = [p \in Procs |-> NoFile]
  /\ early = [p \in Procs |-> {}]

Goto(p, from, to) == pc[p] = from /\ pc' = [pc EXCEPT ![p] = to]

-----------------------------------------------------------------------------
(* remove_if_stale_pidfile(): what fails is logged, and the claim goes on   *)

Claim(p) == Goto(p, "out", "read") /\ UNCHANGED <<file, temps, seen>>

\* The file may not be read, or hold no number
ReadPid(p) ==
  /\ \/ /\ file # NoFile /\ Goto(p, "read", "judge")
        /\ seen' = [seen EXCEPT ![p] = file]
     \/ Goto(p, "read", "write") /\ UNCHANGED seen
  /\ UNCHANGED <<file, temps>>

\* Variant: any PID file that is there is stale
AlwaysStale(q) == TRUE

\* /proc/<pid> is absent, or is of a program that is not ours
Stale(q) == pc[q] = "dead"

\* What is in /proc may not be read
Judge(p) ==
  /\ \/ Goto(p, "judge", "unlink") /\ Stale(seen[p])
     \/ Goto(p, "judge", "write")
  /\ seen' = [seen EXCEPT ![p] = NoFile]
  /\ UNCHANGED <<file, temps>>

\* Whatever file is there now, unless it may not be removed
UnlinkStale(p) ==
  /\ Goto(p, "unlink", "write")
  /\ file' \in {NoFile, file}
  /\ UNCHANGED <<temps, seen>>

-----------------------------------------------------------------------------
(* lock_pidfile() and take_file_lock()                                     *)

\* Variant: the temporary file is left when it cannot be completed
WriteOrLeave(p) ==
  /\ \E to \in {"link", "failed"} : Goto(p, "write", to)
  /\ temps' = temps \cup {p}
  /\ UNCHANGED <<file, seen>>

\* open() may fail and leave nothing; write() or chmod() may fail after it
WriteTemp(p) ==
  /\ \/ Goto(p, "write", "failed") /\ UNCHANGED temps
     \/ /\ \E to \in {"link", "cleanOnly"} : Goto(p, "write", to)
        /\ temps' = temps \cup {p}
  /\ UNCHANGED <<file, seen>>

\* Variant: the PID file is renamed over what is there
Rename(p) ==
  /\ Goto(p, "link", "clean")
  /\ file' = p
  /\ UNCHANGED <<temps, seen>>

\* os.link() fails if the file exists, and may fail otherwise
Link(p) ==
  /\ \/ file = NoFile /\ Goto(p, "link", "clean") /\ file' = p
     \/ Goto(p, "link", "cleanOnly") /\ UNCHANGED file
  /\ UNCHANGED <<temps, seen>>

\* os.unlink(own_file) of take_file_lock(); when it fails, the finally of
\* lock_pidfile() removes the temporary and the claim fails, its file linked
Clean(p) ==
  /\ \/ \E to \in {"verify", "failed"} : Goto(p, "clean", to)
     \/ Goto(p, "cleanOnly", "failed")
  /\ temps' = temps \ {p}
  /\ UNCHANGED <<file, seen>>

\* Read the file back: if it may not be read, or holds another content, the
\* claim has failed and the file is left as it is
Verify(p) ==
  /\ \/ file = p /\ Goto(p, "verify", "owner")
     \/ Goto(p, "verify", "failed")
  /\ UNCHANGED <<file, temps, seen>>

\* PidfileLockError or OSError reaches the caller, who may claim again
Fail(p) == Goto(p, "failed", "out") /\ UNCHANGED <<file, temps, seen>>

-----------------------------------------------------------------------------
(* unlock_pidfile(): what fails is logged, and the file stays              *)

ReadOwn(p) ==
  /\ \/ file = p /\ Goto(p, "owner", "remove")
     \/ Goto(p, "owner", "out")
  /\ UNCHANGED <<file, temps, seen>>

Remove(p) ==
  /\ Goto(p, "remove", "out")
  /\ file' \in {NoFile, file}
  /\ UNCHANGED <<temps, seen>>

-----------------------------------------------------------------------------

Die(p) ==
  /\ pc[p] # "dead"
  /\ pc' = [pc EXCEPT ![p] = "dead"]
  /\ seen' = [seen EXCEPT ![p] = NoFile]
  /\ UNCHANGED <<file, temps>>

Restart(p) == Goto(p, "dead", "out") /\ UNCHANGED <<file, temps, seen>>

Step(p) ==
  \/ ReadPid(p) \/ Judge(p) \/ UnlinkStale(p) \/ WriteTemp(p) \/ Link(p)
  \/ Clean(p) \/ Verify(p) \/ Fail(p) \/ ReadOwn(p) \/ Remove(p)

\* p has linked its file, and has neither removed it nor failed since
Linked(p) == pc[p] \in {"clean", "verify", "owner", "remove"}

\* The other processes that have read the path and may remove what is there
Acting(p) == {q \in Procs \ {p} : pc[q] \in {"judge", "unlink", "remove"}}

Remember ==
  early' = [p \in Procs |-> IF ~Linked(p)' THEN {}
                            ELSE IF Linked(p) THEN early[p] ELSE Acting(p)]

Next ==
  /\ \E p \in Procs : Claim(p) \/ Step(p) \/ Die(p) \/ Restart(p)
  /\ Remember

Spec == Init /\ [][Next]_vars

-----------------------------------------------------------------------------

\* lock_pidfile() has returned to p, and p has not unlocked
Owns(p) == pc[p] \in {"owner", "remove"}

\* Of the processes that claim the file at the same time at most one gets it
\* ("un seul acquiert le meme fichier").
OneOwner == \A p, q \in Procs : Owns(p) /\ Owns(q) => p = q

\* From os.link() to unlock_pidfile() a file is that of the process that linked
\* it, whatever processes die, come back under the same PID or fail, unless
\* another had read the path and not yet acted on it when the file was linked.
\* It follows that two processes own the file only when one of them linked it
\* in that window.
OwnerKeepsFile == \A p \in Procs : Linked(p) /\ early[p] = {} => file = p

\* "Temporary files are removed even when writing or setting permissions
\* fails": the only one a claim leaves behind is one it could not open, left by
\* a process that died with the same PID.
NoTemporaryLeft ==
  [][\A p \in Procs :
        pc[p] # pc'[p] /\ pc'[p] \in {"verify", "failed"} /\ p \in temps'
        => pc[p] = "write" /\ p \in temps]_vars
=============================================================================
