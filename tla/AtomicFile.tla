----------------------------- MODULE AtomicFile -----------------------------
(***************************************************************************)
(* sonicprobe.helpers.file_w_tmp(): replaces a file by one that was        *)
(* written and synced under another name, or adds one to a directory.      *)
(*                                                                         *)
(* A file is known by its writer; `written` is what a reader sees of it,   *)
(* and `synced` what is still there after the machine stopped.             *)
(* Operators marked "Variant" are not part of the model: each is a defect  *)
(* that a property is shown to detect.                                     *)
(***************************************************************************)
EXTENDS Integers, FiniteSets

CONSTANTS
  Writers,     \* calls of file_w_tmp()
  Adding,      \* those whose path is a directory: each adds a file of its own
  Size,       \* how many lines each of them writes
  Old          \* what was at the path of the others: a file, or nothing

ASSUME AtomicFileAssumption == Old \notin Writers /\ Size \in Nat

VARIABLES
  pc, raised,
  written, synced,     \* lines of each file
  name,                \* where it is: "none", "temporary", "staging" or "published"
  target,              \* the file at the path
  staging,             \* writers whose private directory is there
  cut,                 \* history: writers whose cleanup failed, or that an interrupt hit
                       \* where none follows it
  durable              \* the machine was not stopped

vars == <<pc, raised, written, synced, name, target, staging, cut, durable>>

Init ==
  /\ pc = [w \in Writers |-> "start"] /\ raised = [w \in Writers |-> FALSE]
  /\ written = [w \in Writers |-> 0] /\ synced = [w \in Writers |-> 0]
  /\ name = [w \in Writers |-> "none"]
  /\ target = Old /\ staging = {} /\ cut = {} /\ durable = TRUE

Goto(w, label) == pc' = [pc EXCEPT ![w] = label]

-----------------------------------------------------------------------------

\* tempfile.mkdtemp() in the directory, for what is only to be seen when it is ready
Stage(w) ==
  /\ pc[w] = "start" /\ w \in Adding
  /\ staging' = staging \cup {w} /\ Goto(w, "create")
  /\ UNCHANGED <<raised, written, synced, name, target, cut, durable>>

\* NamedTemporaryFile()
Create(w) ==
  /\ pc[w] = IF w \in Adding THEN "create" ELSE "start"
  /\ name' = [name EXCEPT ![w] = IF w \in Adding THEN "staging" ELSE "temporary"]
  /\ Goto(w, "write")
  /\ UNCHANGED <<raised, written, synced, target, staging, cut, durable>>

Write(w) ==
  /\ pc[w] = "write"
  /\ IF written[w] < Size THEN written' = [written EXCEPT ![w] = @ + 1] /\ UNCHANGED pc
     ELSE Goto(w, "sync") /\ UNCHANGED written
  /\ UNCHANGED <<raised, synced, name, target, staging, cut, durable>>

\* Variant: the buffers are not flushed to the disk
SyncNothing(w) ==
  /\ pc[w] = "sync" /\ Goto(w, "publish")
  /\ UNCHANGED <<raised, written, synced, name, target, staging, cut, durable>>

\* flush_sync_file_object()
Sync(w) ==
  /\ pc[w] = "sync" /\ Goto(w, "publish")
  /\ synced' = [synced EXCEPT ![w] = written[w]]
  /\ UNCHANGED <<raised, written, name, target, staging, cut, durable>>

\* os.rename(), after the owner and the mode of the file at the path were copied
Publish(w) ==
  /\ pc[w] = "publish"
  /\ name' = [name EXCEPT ![w] = "published"]
  /\ target' = IF w \in Adding THEN target ELSE w
  /\ Goto(w, "return")
  /\ UNCHANGED <<raised, written, synced, staging, cut, durable>>

\* The end of the try statement, and of a call that has no private directory
Return(w) ==
  /\ pc[w] = "return" /\ Goto(w, IF w \in Adding THEN "unstage" ELSE "done")
  /\ UNCHANGED <<raised, written, synced, name, target, staging, cut, durable>>

\* A system call fails, or a line that is written, or an interrupt comes inside a try
\* statement: the first calls have made nothing yet, the others are followed by a cleanup
Raise(w) ==
  /\ pc[w] \in {"start", "create", "write", "sync", "publish"}
  /\ raised' = [raised EXCEPT ![w] = TRUE]
  /\ Goto(w, CASE pc[w] = "start" -> "done"
              [] pc[w] = "create" \/ (pc[w] = "publish" /\ w \in Adding) -> "unstage"
              [] OTHER -> "unlink")
  /\ UNCHANGED <<written, synced, name, target, staging, cut, durable>>

\* It comes between the creation of the temporary file or directory and the try statement,
\* or between the two try statements, and what was made is left; or once the file is renamed
Interrupt(w) ==
  /\ \/ pc[w] = "create"
     \/ pc[w] = "write" /\ written[w] = 0 /\ w \notin Adding
     \/ pc[w] = "publish" /\ w \notin Adding
     \/ pc[w] = "return"
  /\ raised' = [raised EXCEPT ![w] = TRUE] /\ cut' = cut \cup {w}
  /\ Goto(w, IF pc[w] = "return" /\ w \in Adding THEN "unstage" ELSE "done")
  /\ UNCHANGED <<written, synced, name, target, staging, durable>>

\* os.unlink() of the temporary file, which also follows a rename that failed.  It may
\* fail: the file is left, but in the private directory, which goes next
Unlink(w) ==
  /\ pc[w] = "unlink"
  /\ \/ name' = [name EXCEPT ![w] = "none"] /\ UNCHANGED cut
     \/ cut' = cut \cup ({w} \ Adding) /\ UNCHANGED name
  /\ Goto(w, IF w \in Adding THEN "unstage" ELSE "done")
  /\ UNCHANGED <<raised, written, synced, target, staging, durable>>

\* shutil.rmtree() of the private directory and of what is in it.  It may fail, or an
\* interrupt come before or after it: the call raises, and the directory may be left,
\* empty or not
Unstage(w) ==
  LET emptied == [name EXCEPT ![w] = IF @ = "staging" THEN "none" ELSE @] IN
  /\ pc[w] = "unstage" /\ Goto(w, "done")
  /\ \/ staging' = staging \ {w} /\ name' = emptied /\ UNCHANGED <<raised, cut>>
     \/ /\ \/ UNCHANGED staging /\ name' \in {name, emptied}
           \/ staging' = staging \ {w} /\ name' = emptied
        /\ raised' = [raised EXCEPT ![w] = TRUE] /\ cut' = cut \cup {w}
  /\ UNCHANGED <<written, synced, target, durable>>

Die(w) ==
  /\ pc[w] \notin {"start", "done", "dead"}
  /\ Goto(w, "dead")
  /\ UNCHANGED <<raised, written, synced, name, target, staging, cut, durable>>

\* The machine stops, and with it every writer; what was not synced is lost
PowerOff ==
  /\ durable /\ durable' = FALSE
  /\ pc' = [w \in Writers |-> "dead"]
  /\ written' = synced
  /\ UNCHANGED <<raised, synced, name, target, staging, cut>>

Next ==
  \/ PowerOff
  \/ \E w \in Writers :
       \/ Stage(w) \/ Create(w) \/ Write(w) \/ Sync(w) \/ Publish(w) \/ Return(w)
       \/ Raise(w) \/ Interrupt(w) \/ Unlink(w) \/ Unstage(w) \/ Die(w)

Spec == Init /\ [][Next]_vars

-----------------------------------------------------------------------------
(* Properties.                                                             *)

\* Whoever reads the path, or the directory, whenever and even after the machine stopped,
\* finds the old file or all of a new one.  A call that returned left the new one there,
\* unless another did later, and nothing else; one that raised left nothing anywhere,
\* unless its cleanup failed or an interrupt came where none follows it.
FileIsWhole ==
  /\ \A w \in Writers : name[w] = "published" => written[w] = Size
  /\ target = Old \/ name[target] = "published"
  /\ \A w \in Writers :
       pc[w] = "done" =>
         IF raised[w] THEN w \notin cut => name[w] = "none" /\ w \notin staging
         ELSE name[w] = "published" /\ w \notin staging /\ (w \notin Adding => target # Old)
=============================================================================
