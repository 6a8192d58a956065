# Formal models of sonicprobe

TLA+ models of the concurrent and failure-prone parts of the sonicprobe library,
the TLC runs that check them on small instances, and TLAPS proofs of the results
that matter most.  Paths below are relative to `sonicprobe/` in the repository.

## 1. The system

sonicprobe is a library: nothing in it runs by itself.  Daemons import it and use
its threads, locks, servers and parsers.  What they share is memory in one process
(the thread objects), the file system (the PID file, temporary files), SQL and SMTP
servers.

| Component | State it keeps | Operations | Works with | What is hard |
| --- | --- | --- | --- | --- |
| `libs/workerpool.py` `WorkerPool`, `WorkerThread` | queue, `workers`, `working`, `max_workers`, `exit`, `kill_event`, free ids; each thread's loop | `run`, `run_args`, `add`, `kill`, `set_max_workers`, `killable`, `killall` | a `queue.Queue` or `PriorityQueue`; callables that may call the pool again; the dynamic servers | interleaving of submissions, retirements and stops; failed thread starts; BaseExceptions; bounded queues |
| `libs/moresynchro.py` `RWLock` | readers, writer and its count, pending writers | `acquire_read`, `acquire_write`, `release` | one condition variable | lost wakeups, timeouts, nesting, starvation |
| `libs/moresynchro.py` `ListLock` | owner and count per element | `try_acquire`, `release` | | ownership |
| `libs/keystore.py` `Keystore` | sections, their locks, owners and waiters, global owner | about 20 accessors, `acquire`/`release`, `lock`/`unlock` | one condition variable, one `RLock` per section | deletion under waiters, promotion to global ownership, wakeups |
| `libs/threading_tcp_server.py`, `libs/threading_udp_server.py` (identical but for the protocol) | pending requests or a bounded queue, `_killed` | `handle_request`, `kill`, worker loop | dynamic ones own a `WorkerPool`; fixed ones their own threads | a stop racing an admission or a worker; every request closed exactly once |
| `libs/daemonize.py` | the PID file and its temporary | `lock_pidfile`, `unlock_pidfile`, `daemonize`, context managers | the file system and `/proc`, other processes | TOCTOU, crashes, PID reuse |
| `sp_logging/QueueSMTPHandler.py`, `sp_logging/handlers.py` | queue of records per level | `emit`, `purge` | `logging`'s handler lock, an SMTP server | purge against emit, transport errors |
| `libs/sqlite_transactions.py` | lock, `_active`, `_read_only`, `_failed` | `transaction`, `read_snapshot` | a SQLite connection | failure of BEGIN, COMMIT, ROLLBACK |
| `libs/anysql.py`, `libs/BackSQL/*`, `libs/sqltls.py` | connection, cursor, parameters for replay | `query`, `reconnect`, `commit`, ... | SQL drivers | replay after a broken connection |
| `helpers.py` | none | `file_w_tmp`, `linesubst`, base 64, conversions | the file system | a crash between write and rename; quoting; reads cut anywhere |
| `libs/xbstream.py` | the chunk being read, counts per path | `read`, `process` | a read and a write callback | short reads and writes, empty and truncated chunks |
| `libs/xys.py` | compiled schemas | `load`, `validate` | YAML | keys that overlap, mutation in place, aliases and cycles |
| `libs/argpolicy.py` | compiled policies | `validate_args`, `validate_env` | | options, values, `--` and repetitions interleaved |
| `libs/mysql_config_parser.py` | sections | `read`, `read_file`, `parse_mysql_options` | the file system | include cycles, links; which section wins |
| `libs/urisup.py` | none | `uri_split*`, `uri_unsplit*`, `uri_help_split`, ... | | escapes and delimiters that move between parts |
| `libs/network.py`, `validator/*` | none | checks of addresses, dates, e-mails, countries | | boundary cases |
| `libs/openvpn.py`, `libs/sp_serial.py`, `libs/gencert*.py`, `libs/xml2dict.py`, `libs/http_json_server.py` | connections | thin clients and glue | external services | I/O |

What makes each core component correct:

- **WorkerPool**: the counters always say what the threads and the queue are; a task
  accepted is run exactly once or, after a stop, cancelled; `killable()` is never true
  while a task is anywhere in the pool; a queued task has a worker; submissions,
  `killall()` and `set_max_workers()` complete; a limit lowered is reached.
- **RWLock**: exclusion under nesting; nobody sleeps while its request could be granted;
  a writer that gave up blocks nobody; writers are not starved.
- **Keystore**: exclusion of sections and of the global owner, one lock object per
  section as long as anyone uses it, no registry entry left behind, no lost wakeup.
- **Servers**: every accepted request is closed exactly once, processed or not, whenever
  `kill()` comes; the accepting thread and the workers end.
- **PID file**: one owner; a file is never taken from the process that linked it; no
  temporary file is left.
- **SMTP handlers**: no emitted record is forgotten or mailed twice.
- **SQL**: what is reported as committed is, and once; what is reported as failed is not;
  what could not be rolled back is not committed by the next transaction.
- **`file_w_tmp`**: at any moment, and after any stop of the process or the machine, the
  path is the old file or all of a new one; a call that raised leaves nothing, if it could
  clean up.
- **xbstream**: the chunks come out whole, in order and each counted once.
- **Parsers** (XYS, argpolicy, option files, URIs, `linesubst`, base 64): the loops of the
  code, with their flags, slices and early exits, compute what a declarative definition
  says, on every input of a small set.

## 2. The modules

| Module | Models | Role |
| --- | --- | --- |
| `WorkerPool` | `libs/workerpool.py` | the pool, its callers and its threads |
| `PoolContract` | | what the pool promises to its callers; `WorkerPool` implements it |
| `MCWorkerPool` | | instances for TLC |
| `WorkerPoolProofs` | | inductive invariant, safety theorems, refinement |
| `RWLock` | `libs/moresynchro.py`, `RWLock` | the lock and its threads |
| `LockContract` | | a readers-writer lock; `RWLock` implements it |
| `RWLockProofs` | | inductive invariant, safety theorems, refinement |
| `Keystore`, `MCKeystore` | `libs/keystore.py` | sections, their owners and the owner of the store |
| `KeystoreProofs` | | inductive invariant, the four safety theorems |
| `ServerMain` | `libs/threading_tcp_server.py`, `libs/threading_udp_server.py` | the receiving thread, common to both kinds of servers |
| `FixedServer` | the fixed servers | extends `ServerMain` with the queue and its threads |
| `DynServer` | the dynamic servers | extends `ServerMain`, uses `PoolContract` |
| `ServerContract` | | what a server promises of each request; `FixedServer` and `DynServer` implement it |
| `MCServers` | | both servers in one instance for TLC |
| `ServersProofs` | | inductive invariants, both refinements, the queue's count; each server alone and both side by side |
| `PidFile` | `libs/daemonize.py`, PID file | one system call per step, crashes and restarts |
| `PidFileProofs` | | inductive invariant, safety theorems |
| `SmtpQueue`, `MCSmtpQueue` | `sp_logging/QueueSMTPHandler.py` | emissions and concurrent purges |
| `SmtpQueueProofs` | | invariants |
| `SmtpQueueUnlocked`, `MCSmtpQueueUnlocked` | `sp_logging/handlers.py` | the same handler without its lock |
| `AnySql` | `libs/anysql.py` | one connection and its cursors on links that break |
| `SqliteTransactions` | `libs/sqlite_transactions.py` | the transactions of threads that share a connection |
| `MCSql` | | the two SQL modules in one instance for TLC |
| `SqlProofs` | | inductive invariants of both, their properties alone and side by side |
| `AtomicFile` | `helpers.py`, `file_w_tmp` | one system call per step, crashes and power cuts |
| `XbStream` | `libs/xbstream.py` | the reader, one callback per step |
| `LibraryMachines` | | `AtomicFile`, `XbStream` and the functions of `ArgPolicy`, `Helpers` and `UriSup` side by side |
| `LibraryProofs` | | inductive invariants of `AtomicFile` and `XbStream`, their properties; what policies accept, what lines and streams become, and that trees and URIs come back |
| `ArgPolicy`, `OptionFiles`, `Xys`, `UriSup`, `Helpers` | `libs/argpolicy.py`, `libs/mysql_config_parser.py`, `libs/xys.py`, `libs/urisup.py`, `helpers.py` | functions, and what each should compute |
| `MCLibrary` | | the inputs of the functions, and the chunks of the archives |

`MCServers`, `MCSql` and `MCLibrary` put independent components side by side: the initial
state chooses one, which then runs alone.  They extend the module whose properties are
also proved, and take the others by `INSTANCE`.

Operators whose comment begins with "Variant" are not used by the models: each is a
plausible defect of the operator that follows it, and shows that a property detects it.

### WorkerPool

A step is one critical section of `count_lock`, one queue operation made outside it
(`tasks.get`), or one unlocked read of `exit`.  `pc` follows a thread through
`WorkerThread.run()`:

    top -> get -> got -> [grow] -> body -> running -> ack | ackDie -> top | exit
                      -> discard -> exit -> absent (retired) or top (restarted)

`got` is the window between `tasks.get()` and the section that counts the task as
worked on; `ackDie` is the path of a BaseException that is neither an `Exception` nor
`SystemExit`; `discard` is a WorkerExit or a task found after a stop.  Threads are named
by their `xid`, so `id_list` is the complement of the live names.  A submission has its
own program counter in `status`: `new`, `putting` (inside `_put`, perhaps polling a full
queue), then `accepted`, or `refused` by an exception; then the life of its callable.
A `kill()` is a number of WorkerExits still to be put; `set_max_workers()` sets the limit
and counts in one section and calls `kill()`, which counts again, in another.

A PriorityQueue orders by (priority, sequence number drawn in `_run`); a plain Queue by
arrival.  `earlier` is history: the tasks in the queue when a submission began, with
which `SubmissionOrder` compares the order of the dequeues.

Nested calls are modelled by `Parent`: a task with a parent is submitted by the parent's
callable, which then does not end before the submission has returned.  `killall` can be
called by outside threads and from callables (`killall(0)`; a blocking call is refused).

Not in the model: the `xid` parameter of `add()` (no caller gives it), a `start()` that
raises although its thread runs, names, garbage collection, the wall clock (the default
priority of a PriorityQueue is `time.time()`: the model takes any priorities as given),
and `wait` deadlines (`killall(wait)` with a finite wait returns at any time and leaves
the same state as `killall(0)`).

### RWLock

A step is one passage through the condition's lock: from its acquisition to its release
or to the `wait()` that releases it.  `timed` says that a call has a deadline or may be
interrupted: it can then end in the step in which it finds the lock taken, and when it
wakes up.  `notify_all()` moves every waiter to the awake state (`Notified`), which a
thread leaves only by taking the condition's lock again, so awakened threads compete with
new calls in any order.

### Keystore

All of the store is behind the mutex of one condition variable, so a step is a passage
through it: from its acquisition, or the return of a `wait()`, to its release or the next
`wait()`.  The bookkeeping is where the hazards are, and is kept whole: `__lock`,
`__owners` and `__waiters` are functions whose domain varies, because an entry that is
missing, left over or made anew is what may go wrong; RLocks have an identity, and a new
one is any that nobody refers to.  Of a section only its existence is kept, so the
accessors fall into four kinds (`Operations`): those that create it, use it, remove it
(an error if it is absent) and delete it.  `granted` is history: what a thread has
acquired and not released, against which `SectionExclusion` compares the bookkeeping.
`timed` is as in `RWLock`.  The polling that replaces a timed acquisition of the mutex
changes no state and is left out.

### ServerMain, FixedServer, DynServer

The TCP and UDP modules are the same text but for the names of the protocol; the rows of
the map name one of the two.  A request is followed from `get_request()` to
`shutdown_request()`, whose calls `closed` counts.  `verify_request()` may accept, refuse
or raise.  `socketserver`'s `process_request_thread()` is external: it runs the handler,
survives its Exceptions and always closes the request.

In `FixedServer` a step is one critical section of `_request_lock`, one queue operation,
or one unlocked read of `_killed`.  `kill()` is one step, because it holds the lock that
every other step which depends on it takes; a worker that reads `_killed` or takes a
request while `kill()` drains the queue behaves as just before or after it.  A thread and
the one it starts in its place share a name, since the old one only returns.  `lost` is a
thread that died of a BaseException of its handler, or could not start its successor.

In `DynServer` the pool is what `PoolContract` says, no more: the refinement checked and
proved for `WorkerPool` is what makes the composition meaningful.  `kill()` is three
steps, because the pool is stopped and the requests are closed outside the lock, and
there may be several calls.  `run()` may also raise when the request is already in the
pool (an interruption), the case for which the code removes it from `_pending_requests`.

### PidFile

Processes are PIDs and the content of a file is the PID written in it.  `Die` may happen
at any point, and `Restart` gives the PID to a new process of the same program.  A
process that is dead, or runs another program, is `Stale`.  Each system call may fail:
what fails in `remove_if_stale_pidfile` and `unlock_pidfile` is logged and passed over, and
in the claim itself it goes to the caller.  A failed `Verify` leaves the process alive,
its file linked and itself no owner.  Excluded is only that both attempts to remove a
temporary file fail, in the directory where the process has just made it.

`early` is history: the processes that were acting on what they had read of the path
(`Acting`: judging it, about to unlink it, about to remove it as their own) when another
linked its file there.  It is what `OwnerKeepsFile` needs to say when a file can be lost.

### SmtpQueue and SmtpQueueUnlocked

`emit` and the exchange of the queue hold the handler lock and are one step each; the
mails of a purge go out level by level outside it.  A mail is handed to `sendmail()` or,
failing that, to `handleError()`; the models do not tell these apart, and a failing
`quit()` changes nothing.  A record whose `format()` raises ends the purge, and what it
had not sent is `dropped`.  `SmtpQueueUnlocked` is the older class of the same name in
`sp_logging/handlers.py`: two threads share lists that the purge copied the dict of, so
lists have an identity (the record for which they were created).

### AnySql and SqliteTransactions

In `AnySql` the driver connections are numbered in the order in which they are made, and
each link may break at any time: while idle, or during a call before or after the server
has done what it was asked.  A step is one driver call, so `step` says where in the
`except` clauses the thread is.  `commits` counts how often the server committed a
statement, which is what a replay can get wrong; `ran`, `open` and `acked` are history,
from which `CommitKeeps` says what a `commit()` that returned has promised.  The back ends
are external: what a driver may answer is over-approximated (a link that is dead may be
reported as good, an error may or may not abort the transaction).

In `SqliteTransactions` the reentrant lock makes every step that of the owner.  `pc` is
the statement of `_transaction()` that the outermost context has reached; an exception of
BEGIN, of the body, of COMMIT and of ROLLBACK each has its branch, and an asynchronous
interrupt may come between any two statements.  `cut` marks those that come where the code
has no answer: before the `try`, so that `_active` stays set and its transaction open, or
inside the `except` and `finally` clauses.  Contexts entered afterwards join the `_active`
that was left; what they write is in `joined`, and in `returned` or `raised` as they end.
`OutcomeIsTrue` excepts what is in `joined`, and says that there is such a context only
after such an interrupt (section 4).
The body writes with the driver of BEGIN or with the connection it was given, which after
a `reconnect()` has another driver (`ExecuteAstray`): `astray` is what went there.

### AtomicFile and XbStream

A file of `AtomicFile` is known by its writer; `written` is how much of it a reader sees
and `synced` how much survives `PowerOff`, which reduces the first to the second.  The
rename is taken to be durable at once: the code synchronises the file, not its directory,
and a rename that is lost leaves the old file, which the property allows.  A call whose
path is a directory (`Adding`) stages its file in a private directory.  Removing a
temporary file or directory may fail, and an interrupt may come where no `except` or
`finally` clause follows it, or when the file is published already; `cut` has the calls to
which this happened, of which `FileIsWhole` does not say that they left nothing.  A call
without a path, whose temporary file is its result, is not modelled.

`XbStream` counts bytes.  An archive is a sequence of chunks of which a first part can be
read, so that it may be truncated anywhere; what the reader finds at an offset is a header
if a chunk begins there (`Offset`, a recursive function over the chunks).  In the run the
lengths of header, sizes and checksum are small constants.

### ArgPolicy, OptionFiles, Xys, UriSup, Helpers

Each translates the loops of its source into functions and folds over the same data, and
states beside them what they should compute without loops: `ArgsAsDescribed`,
`InclusionIsExact`, `MostSpecificWins`, `DocumentAsDescribed`, `UriComesBack`,
`SubstByPieces`.  Regular expressions and modifiers written by users are functions given
by constants.  A character is an element; the only one outside ASCII is a superscript
digit, for which `isdigit()` and `int()` disagree.  In `UriSup` an escape (`%` and two
digits) is one sign, the alphabet and the escape of each character are constants, and so
are the texts that are addresses; `UriAssumption` says what is true of them in the code
(`quote()` gives each character an escape of its own, and no address has a character that
would end it).  A `%` that begins no escape is a sign too, which the code lets through;
the run leaves out texts in which it stands before two digits.  In `Xys` two validator
keys are one if they have the same parameters, while the code tells their objects apart:
no document of the run has two.  In `OptionFiles` a directive may name a file that is not
there, is not valid or is active, and a directory that cannot be listed.

## 3. The runs

| Run | Instance | Shows |
| --- | --- | --- |
| `worker_pool_safety` | 2 workers, 3 tasks (one nested in another), `PriorityQueue(2)`, 2 kill calls, 1 stopper, expiry, `max_tasks` 1, failing starts | counters, `killable()`, quiet stop, shrinking, order |
| `worker_pool_live` | 2 workers, 2 tasks, `Queue(1)`, 1 kill call, 1 stopper, threads start | refinement of `PoolContract`; nothing is left waiting |
| `rwlock` | 3 threads, nesting 2 | wakeups, pending writers, refinement of `LockContract`, writers served |
| `keystore` | 3 threads, 2 sections, 3 RLocks, every kind of operation, no nesting | exclusion, bookkeeping, wakeups, what can block whom |
| `keystore_live` | 3 threads, 1 section, nesting 2, deletions | the store is not starved by owners of sections |
| `servers` | fixed: 2 workers, 4 requests, `max_requests` 2, expiry, losses, interruption; dynamic: 3 requests, 2 calls of `kill()` | refinement of `ServerContract` by both, joinable queue, requests and `kill()` end |
| `pidfile` | 3 processes, failures, crashes, restarts | when a linked file can be lost, no temporary left |
| `pidfile_stale` | the same | violation of `OneOwner`: finding 1 |
| `smtp_queue` | 4 records on 2 levels, 1 malformed, 2 purges | nothing forgotten, nothing twice |
| `smtp_queue_unlocked` | 4 records on 2 levels, 1 purge | violation of `NoneForgotten`: finding 2 |
| `sql` | 2 statements, 2 cursors, 3 driver connections, with and without `auto_reconnect` and autocommit; 2 threads, 3 writes, nesting 2 | what is reported as committed or undone is so; nothing foreign is committed |
| `library` | the inputs of `MCLibrary`; archives of up to 2 chunks, truncated anywhere; 2 writers of one path and 1 of a directory, 2 lines each | each function against its reference; the reader; whole files |

Bounds.  Two workers are enough for one to retire, leave or be replaced while the other
works, and for the limit to be lowered and raised; three tasks fill a queue of two and
leave one polling, and give two tasks of one priority with a third of another; two kill
calls give a `set_max_workers()` between the count of another and its exits.  One worker
less loses the races, and the proofs of section 5 cover every size for the properties
they state.  Every submission and every kill call happens at most once per behaviour;
a worker name, on the contrary, is reused without bound.  Symmetry is used on worker and
kill names in the safety run only.  Three threads are needed in `rwlock` for a reader, a
writer that gives up and a second reader; nesting 2 tells a first acquisition from a
nested one.  Three processes in `pidfile` give an owner, a claimant and a crashed one.
In `keystore` three threads give an owner, a waiter and one that deletes or asks for the
store; two sections are what owners can cross; a waiter, an owner and a new section need
three RLocks at once.  Nesting is left to `keystore_live`, where it is what may starve
the store.  In `servers` four requests fill the queue of two beside one in the hand
of the receiving thread and one in a worker's.

In `sql` three connections are two reconnections, so that a cursor can be two behind; three
writes and two threads give a transaction that fails, one that follows it and one that
joins what was left.  In `library` the inputs are chosen for the neighbours that can
disturb a branch: three arguments for an option, its value and what follows; three option
files with a limit of two, so that a chain of different files can be too long, beside a
link that names one of them again; two optional key patterns beside a literal key
and three fields; texts of four characters of which most are delimiters.  They are written
out in `MCLibrary`.

Type invariants: those of `WorkerPool` and `RWLock`, and `Exclusion` of the latter, are
proved and not repeated in the runs.

Four runs exclude deadlock checking.  In `keystore` the threads may come to a stop by
acquiring sections in opposite orders without a timeout, as with any lock;
`OnlyCrossingsBlock` says that this is the only way.  In `servers` a server that was
killed stops; in `sql` a domain that failed refuses everything, and connections and
writes are used up; in `library` an input is looked at, and the machines end.

### Fairness

`WorkerPool`: weak fairness of each worker's steps (threads run, callables end, a `get()`
with a timeout returns), of a submission's next attempt, of a kill's next put and of the
return from `kill_event.wait()`.  Nothing obliges anyone to submit, kill or stop.  Weak
fairness of a producer's put is enough for `SubmitReturns` only because submissions are
finitely many: the code promises no fairness between producers.  `LifeTime` is off in the
live run: a `life_time` shorter than the time a worker needs to reach its next `get()`
would make every worker expire before it takes a task, for ever.  Nested submissions are
off too: a callable that submits into its own full queue may never return, which
`docs/CONCURRENCY_REVIEW.md` states as a rule of use.

`RWLock`: weak fairness of awakened threads and of releases, and strong fairness of the
release that frees a thread's last acquisition.  The last is the proviso of the class
comment ("which they eventually should free"): a reader that nests for ever starves the
writers by design.

`Keystore`: the same, of the threads that were woken up and of the release of sections
(`FinalRelease`).  `GlobalServed` excepts crossed sections, which nobody resolves.

`FixedServer`: weak fairness of each thread (handlers return, `get()` with a timeout
returns), and strong fairness of a worker's way past its age check: `max_life_time` is a
second or more, and a thread that expired each time before it looked at the queue would
serve nobody.  `DynServer`: weak fairness of each thread and of the pool's Begin or Drop
of an accepted request, which `AcceptedSettles` shows of `WorkerPool`.  Nothing obliges
anyone to call `kill()`; once it is called, it returns.

## 4. Findings

1. `libs/daemonize.py:55` (and 110): a PID file is judged stale by what was read from it,
   and then whatever file is at the path is unlinked.  Two processes that start on the
   same stale file can both own it: A and B read it and judge it stale, A unlinks it,
   writes and links its own and returns; B unlinks A's file and links its own.
   `pidfile_stale` is that behaviour.  `OwnerKeepsFile` says what is left: a file is
   lost only to a process that had read the path before the file was linked there and had
   not yet acted on what it read.  A stale file at the start is not needed for that.  A
   reader of a live owner's file, which unlocks and exits before it is judged, unlinks
   the file of whoever claims next; and so does an `unlock_pidfile` that has read its own
   file, if that is removed and another linked before its `os.unlink`.
2. `sp_logging/handlers.py:48-49`: the queues are copied and reset without the handler
   lock, the defect that `docs/CONCURRENCY_REVIEW.md:19` lists as corrected; the
   correction is in `sp_logging/QueueSMTPHandler.py` only.

A limit met while modelling, of which no document says otherwise: the receiving thread of
a fixed server that is interrupted (KeyboardInterrupt) while it waits for room in the
queue (`libs/threading_tcp_server.py:223`) leaves the request in its hand open; the
dynamic server closes it.  `EveryRequestEnds` and `KillEnds` of
`FixedServer` name the exception (`Abandoned`).

Others, met while modelling:

- `commit()` with `auto_reconnect` (`libs/anysql.py:431`) reconnects after any failure and
  commits the new, empty connection: it returns although the work is lost.
  The repository's `README.md:110-115` keeps automatic recovery as the historical default;
  `CommitKeeps` excepts it.
- A cursor made before a reconnection stays on its old connection, which `commit()` no
  longer reaches; and a `fetch*()` after a reconnection finds a cursor without rows.
- An interrupt between line 59 of `libs/sqlite_transactions.py` and the `try` (line 61)
  leaves `_active` set and the transaction open.  Later contexts join it, return to their
  callers, and nobody commits what they wrote, although `docs/sqlite-transactions.md:33`
  says "Commit happens once on success".  `OutcomeIsTrue` holds these writes apart
  (`joined`); its first conjunct without them, `returned \subseteq durable`, is violated
  by BEGIN, that interrupt, and a context that writes and returns.
- A process whose claim fails after `os.link` (`libs/daemonize.py:143`), or whose unlock
  fails, leaves a file with its own PID: as long as it lives it blocks every claim, its own
  included.
- An interrupt between `tempfile` and the `try` of `_write_synced_temp`, or between the two
  `try` statements of `file_w_tmp`, leaves the temporary file; after `os.rename`, inside
  the `try`, the call raises although the file is published (`helpers.py:397-414`).
- The check for a file that includes itself (`libs/mysql_config_parser.py:161`) decides only
  which error is raised: without it the limit on the depth would refuse the same files.
- `linesubst` drops a `{` at the end of a line; base 64 of a file is whole only if its
  `read()` returns full blocks; `get_nb_workers` calls `digit()`, which strings do not have.

## 5. What is proved

The theorems hold for every value of the constants allowed by the named assumptions
(finite sets of workers, tasks and calls; a limit between one and the number of names).

- **WorkerPoolProofs.** The inductive invariant `IInv` is the type invariant and
  `Accounting`, strengthened with where everything is: an unused item is nowhere
  (`Fresh`), a queued task is accepted and in nobody's hand (`Queued`), a held item is in
  one hand, whose `pc` agrees with its status (`Hands`, `Whereabouts`), after a stop the
  queue stays empty (`Drained`), and a queued task has a worker (`Attended`).  Counters
  are cardinalities of sets of threads, so the proof of each action says which thread
  joins or leaves which set.  From it: `TypeCorrect`, `CountersAreRight`,
  `KillableMeansIdle` (no unfinished item means no thread holds one and none is queued),
  `StoppedMeansQuiet` (no thread left means no item held), `StoppedForGood` (that state lasts: no add(),
  replacement or growth starts a thread on a stopped pool), `QueuedIsAttended`, and
  `ContractKept`, the refinement of `PoolContract`, one case per action.
  Two more invariants are inductive beside it.  `LimitInv` follows a WorkerExit: it is owed
  by the kill call that has it to put, then queued, then in a hand, and its worker leaves
  with it.  A step may raise `workers` only up to `maxWorkers`, and otherwise loses neither
  a worker that leaves nor an exit that is owed, but the retired worker is counted no more
  (`StillCovered`; the two steps that do lose one are argued by cardinalities); from it
  `ShrinkIsCovered`.  `OrderInv`: numbers are given in order, and a task that has its
  number is behind all that was queued when its submission began and still is; from it
  `SubmissionsKeepOrder`, since only a `get()` takes one task and leaves another.
- **RWLockProofs.** `IInv` is the conjunction of the type invariant, `Exclusion`,
  `PendingAreWaiting` and `NoLostWakeup`: the four need each other (that an abandoned
  writer's removal leaves the other pending writers is a fact on sequences without
  repetition).  From it the four invariants and the refinement of `LockContract`.
- **SmtpQueueProofs.** `NoneForgotten` and `NoneTwice` for any number of records, levels
  and purges; the latter from the disjointness of the queue, the batches and what was
  mailed.
- **PidFileProofs.** `OwnerKeepsFile` is not inductive: what decides is what the others have
  read.  `IInv` adds, of a process that linked its file while nobody was acting on the
  path, that whoever judges the path has read its PID, and nobody is about to unlink it
  (`Kept`).  One lemma shows that a kept file stays kept, whatever another process does
  (`KeptStep`: it lives, so nobody finds it stale), one that a link makes it so
  (`LinkStep`).  From it `AtMostOneOwner`: two processes own the file together only if one
  of them has linked it in that window; and `NoTemporaryLeft`.
- **KeystoreProofs.** For any finite set of threads (whose waiters can then be counted)
  and any names, locks, calls and depth.  `IInv` relates the registries to the threads:
  a thread that waits for a section refers to the lock object that the section has now
  (`Placed`), the counters of waiters are the numbers of threads that wait (`Counts`), no
  two sections have one lock object and an entry of `__lock` is justified by a section, an
  owner or a waiter (`Retained`), what a thread was granted, the RLock it holds and the
  registered owner agree (`Owned`), and the owner of the store owns all that is owned
  (`StoreOwned`).  `NoLostWakeup` is part of it: that a step disturbs no sleeper is what the
  others are needed for.  From it `OneOwner`, `Cleans`, `NobodyOverslept` and
  `BlockedByCrossing`: if everybody sleeps, the store has no owner (who could go on), some
  section has one (or somebody could enter), and each of these waits for a section of
  another.
- **ServersProofs.** `ServerContract` is implemented by the dynamic servers, with the
  pool known by `PoolContract` only, which `WorkerPoolProofs` shows of `WorkerPool`.
  `IInv` says who may close a request: the receiving thread has one in hand that nobody
  else has seen (`InHand`), a pending one is open and no call of `kill()` has it
  (`Pending`), a handled one is no longer pending (`Handled`), and those a call of `kill()`
  has taken are open and in no other call (`Taken`).  It is implemented by the fixed servers
  too: `FixedIInv` says that a request is in one place at most, the hand of the receiving
  thread, the queue or the hand of one worker, and open while it is there; two lemmas say
  what the queue does to sequences without repetition.  `Acknowledged` is proved apart, as a
  count of the workers that owe an acknowledgement, which must be finitely many.
  `ServersContract` and `ServersCount` say the same of the specification of the run, in
  which both servers are side by side.
- **LibraryProofs.** `XbStream`, for archives of any number of chunks of any sizes, where
  lengths are natural numbers and a header is never empty (`Framed`).  The reader is in one
  chunk, of which it knows the size as far as it has read it (`InChunk`), and writes it when
  it has all of it (`Copying`); that the next chunk begins where this one ends, and that two
  chunks begin at different offsets, is what tells it apart from a reader that is out of
  step (`InHand`, `NothingInStep`).  The count changes with the set of chunks handed over,
  by one chunk at a time.  The offsets are a recursive function: that it exists, adds the
  length of each chunk and grows is proved by induction, from the least element of a set of
  natural numbers (`Least`, `Induction`, `SumExists`, `Layout`, `Ordered`).
  `ArgPolicy`: what the loops accept is what the entries of a policy describe
  (`PoliciesAreExact`), for every policy that compiles and any arguments, whose plain ones
  do not begin with a dash, and whose names have one (`Normalize`).  Each of the three loops
  of `validate()` is a recursive function that a lemma shows to exist (`Iterates`): the
  inner one stops at an option, at the end or when its option is served (`Stops`), the one
  for `allow=True` finds an option that is denied (`Scanned`), and after each round of the
  outer one either the arguments are known not to be legal or every option so far stands
  where its rule allows it, and `seen` has the names of all of them (`ParseIsLegal`).  The
  case that needs care is an option with more values than its rule takes: the round that
  meets it succeeds, and only the next one, which begins at a plain argument, fails.
  `Helpers` (`HelpersAreExact`): lines made of any pieces, with variables of any values,
  mean what their pieces mean; streams of any bytes and any size of read the code does not
  refuse (three and more), with blanks anywhere in what is decoded and reads of any lengths
  but zero, come back as they were.  The scan of a line is a fold over its characters
  (`Folds`), so that one part may be run after the other (`RunAppend`): each piece takes
  the scan from normal state to normal state and adds what it means (`PieceRuns`), where a
  `}` inside a name may be pending (`NameRuns`), and a line that takes the shortcut would
  come out of the scan the same or be left open (`ShortcutIsNone`).  Base 64 is coding by
  groups: whole groups are coded apart (`Groups`, `CodedApart`), what is read at a time is
  whole groups (`FileIsEncoded`), and decoding inverts (`EncodedIsDecoded`); after each read
  what is decoded is the whole groups so far and what is kept back is the rest (`SoFar`,
  `ReadsDecoded`).
  `UriSup` (`UrisAreExact`): trees whose parts are texts of any alphabet, and URIs that are
  any sequences of signs.  The argument is that joining can be undone at each delimiter: a
  text is cut at the first sign of a class (`FirstIs`, `EndsAt`, `MarkEnds`), and what is
  joined before it has none of that class (`CodeClasses`), because encoding leaves only
  allowed characters and escapes, which are no characters.  From there up: assignments and
  their pairs (`QueryComesBack`, where the scan for `&` is a fold, `AssignedAppend`), user,
  password, host and port (`PartsComeBack`, with a host in brackets that may have `:`
  in it), authority and path (`HierComesBack`), query and fragment (`RestComesBack`), the
  scheme or that there is none (`SchemeComesBack`, `NoScheme`), and so the tree of what
  is encoded (`CodedComesBack`, for every tree of `CodedTrees` whose path can stand where it
  is, `PathStands`).  Encoding yields such a tree and decoding undoes it (`TreeEncodes`), so
  a tree comes back (`TreeReturns`); what is split from any URI that is valid is a tree that
  can be encoded (`TreeSplit`, `TreeDecodes`), so a URI does (`UriReturns`).  The cases that
  need care are a path that begins with `//` or has a `:` in its first segment, and a host
  that is an IPv4 address although it was given as a name: `HostEncodes`, `PathEncodes`.
  `AtomicFile`: only what is whole and synced is published (`Safe`), which needs to
  say where the file of a call is at each of its steps (`Whereabouts`), and which calls
  were cut short.  Assumes that what
  was at the path is none of the writers' files.
- **SqlProofs.** Both properties of `SqliteTransactions`: what SQLite has comes from the
  open context or from a past one, never from both (`Origins`), the open transaction is
  that of the context from BEGIN to its end (`Own`), an
  `_active` that is found while no context is open was left by an interrupt (`LeftOver`),
  and a context that has written through another driver does not get to its COMMIT
  (`Astray`).  `CommitsAsReported` of `AnySql`, for
  any number of connections but one at least: `ConnectionIInv` says that nothing is of a
  connection to come (`Order`), that a statement which has not returned is neither open nor
  acknowledged (`Unreturned`), that one which returned waits for its commit on the current
  connection, unless that has failed (`Kept`), and that without autocommit a statement is
  in one transaction or committed, never both (`InOnePlace`).  `SqlIsTrue` says all three of
  the specification of the run.

Assumptions beside those on the sizes of the instances: `KeystoreAssumption` (the
kinds of operations, and that no thread or lock is the absence of one),
`ConnectionsAssumption`, `FixedRequestsAssumption`, `StreamAssumption` and `UriAssumption`.
TLC evaluates each of them on the instances it checks.

Only model-checked: liveness (every property after the word Liveness in a module, and
`EveryRequestEnds`, `KillEnds`), which is out of tlapm's reach; and `OptionFilesExact` and
`SchemasExact`, whose modules, `OptionFiles` and `Xys`, are written with RECURSIVE
operators, for documents and inclusions nested to any depth, which tlapm does not take.

## 6. Not modelled

- `ListLock`: one lock around a dictionary; every operation is a single section of it.
- Of `helpers.py` the conversions of a few lines and the wrappers of the standard library.
- `libs/network.py` and `validator/`: tests of one value against a regular expression, a
  table or the standard library, whose specification would be the expression again.
- `daemonize()` itself (fork, setsid, descriptors): a sequence of system calls.
- Of `libs/anysql.py` the registration of back ends, the conversion of rows and the URIs of
  databases; the back ends and `libs/sqltls.py` are glue over the drivers.
- Of XYS lists of several schemas of which some are no mapping, floats, and YAML parsing;
  of argpolicy the regular-expression engine and the limits on lengths; of urisup integers
  in trees and characters outside ASCII.

Further work: a
network that loses and reorders in front of the UDP servers.

Left out for good: the drivers, sockets, serial lines and certificates behind the thin
clients, and the packaging.
