# A TLA+ verification project for Unix-System-Programming

The repository collects the programs of a Unix system programming course: the
author's own labs (`week05*` .. `week08*`: file tools, `fork` exercises, pipes and
a small shell) and the sources of *Advanced Programming in the UNIX Environment*
they are built on (`apue.3e/`), which hold most of the code: a multi-process
database library, a network print spooler, an open-file server, System V
semaphore, pipe, pty and signal code, and threaded examples.

This directory models the parts of that code whose correctness depends on the
order of events: several processes or threads, file locks, signals, crashes. Every
definition is translated from the source; `PROJECT.json` maps it to its lines.

## 1. The system

| component | state | operations | what is hard | what makes it correct |
|---|---|---|---|---|
| `apue.3e/db` database library | index file (free list, hash chains, records), data file, `fcntl` locks, one `DB` per process | fetch, store (insert, replace, store), delete, rewind, nextrec, open | many processes on two files; lists rewritten one pointer at a time; deaths between writes; truncation in `db_open` | every record is on one list; calls are atomic; locks exclude and do not deadlock |
| `apue.3e/printer` (`printd.c`, `print.c`, `util.c`) | spool directory, job file, job list, worker list | submit, queue, print, retry, cancel, re-read configuration, restart | four kinds of threads; signals; a stop between two file operations; answers that do not come | an accepted document stays and is printed, a rejected one is not, no copy too many |
| `apue.3e/threads/mutex2.c`, `mutex3.c` | counted objects in a hash table | alloc, hold, find, release | a release racing a find; two locks and their order | counts match references; nothing is used after it was freed; no deadlock |
| `apue.3e/lib/semaph.c` | a System V set of three members, undo values | create, open, wait, signal, close, remove | creation, removal and exits between system calls | users keep their set; one unit stays one unit; the last close removes |
| `week08Lab2` pipelines and shell (`3pipe.c`, `pipeloop.c`, `myShell2.c`) | descriptors, pipes of bounded capacity, children | read a line, execute, redirect, run a pipeline | full pipes; who holds which end; the order of waiting | output is what the line means; readers get their end of file; the shell comes back clean |
| `apue.3e/ipc2/opend`, `ipc2/open`, `lib/sendfd.c`, `recvfd.c` | client table, poll or select set, the sockets | connect, request, answer, hang-up | table index against poll index; a client that dies in the middle | each request gets its own answer; every connection is watched |
| `apue.3e/sockets` uptime service | connections, datagrams, a child per connection | connect with retries, serve, time out | a server that starts late, crashes or cannot fork; lost datagrams | one line for each client, and an end for each |
| `apue.3e/daemons`, `lib/daemonize.c` | dispositions, masks, lock and pid file | start, lock, take SIGHUP and SIGTERM | signals at any step; a process killed between lock and pid | one daemon; SIGHUP re-reads and ends none |
| `apue.3e/threads/rwlock.c`, `condvar.c` | job queue, message list | insert, append, find, remove; put, take | pointers kept after an unlock; a signal after an unlock | the queue is a list; no message is lost or handled twice |
| `apue.3e/exercises/fmemopen.c` | memory, size, position | open with a mode, read, write, seek | null bytes at the end; six modes | a readable stream is a file; it stays inside its memory |
| `apue.3e/lib/tellwait.c`, `ipc1/tellwait.c` and four programs | signal masks, a flag, pipes, record locks | TELL, WAIT | signals between a test and a wait | the two processes alternate, and both end |
| `apue.3e/signals`, `lib/sleep.c`, `lib/signal.c` | dispositions, mask, pending signals, handlers that run | sleep, abort, system, pause, longjmp ... | a signal between any two calls | a program ends as it means to and leaves things as it found them |
| `apue.3e/pty`, `lib/ptyfork.c`, `lib/ttymodes.c` | two copying processes, a terminal's mode | copy both ways, end | who ends whom, with which exit handler | the terminal is given back; no output is lost |
| `apue.3e/lib/popen.c` | descriptors, `childpid[]` | popen, pclose | ends that children inherit | no command holds another one's stream; pclose returns |
| `apue.3e/advio/rot13c2.c` | eight buffers with asynchronous I/O | read, translate, write | completions in any order | every block is written once, in its place |
| `apue.3e/ipc1/pipe4.c`, `add2.c` | two pipes | write a line, read the answer | ends that stay open; a process that is killed | an answer for each line, and both end |
| `apue.3e/threads/barrier.c` | numbers, a barrier | sort a part, merge | a merge before all have sorted | the output is the sorted input |
| `apue.3e/threadctl/suspend.c`, `timeout.c`, `detach.c` | a flag under a lock; a recursive mutex | sigwait, wait; call later or now | lost wakeups; a function that takes the caller's lock | a quit ends the wait; one call, in time |
| library demonstrations, fork exercises, earlier labs, support library, build files | - | sequential calls of the C library | - | - |

The components meet in few places. The printer uses the record lock of
`lib/lockreg.c` to stay a single instance, the open server and its clients use
`lib/sendfd.c`, the examples with two processes use `lib/tellwait.c`, and the pty
program uses `lib/ttymodes.c`. No program links the database, the printer and the
server together, so the models compose within a component and not across them.

`PROJECT.json` has the full list of components with their files, the hazards of
each at its line, and the line range behind every definition.

## 2. The modules

| module | extends | what it is |
|---|---|---|
| `DbCalls` | | the calls of the database and their results |
| `DbStore` | `DbCalls` | abstract: a map on which each call acts in one step |
| `Db` | `DbCalls` | the library, a system call per step |
| `DbProps` | `Db` | its invariants and the mapping to `DbStore` |
| `DbProofs` | `DbProps` | proofs about its locks and its two files |
| `DbListProofs` | `DbProofs` | proofs about its lists, and that it implements `DbStore` |
| `FooTable` | | state, allocation and callers common to both versions |
| `FooRefs` | | abstract: references and a table, one step per call |
| `FooMutex2`, `FooMutex3` | `FooTable` | the two versions, each mapped to `FooRefs` |
| `FooTableProofs` | `FooTable` | the invariant of both versions, and what each kind of step does to it |
| `FooMutex2Proofs`, `FooMutex3Proofs` | `MCFoo`, `FooMutex3`; `FooTableProofs` | proofs about counts, memory and locks, and that each version implements `FooRefs` |
| `Command` | | kernel: descriptors, pipes, files, child processes |
| `Pipeline` | `Command` | `execute_pipeline` |
| `Shell` | `Pipeline` | the prompt loop, `execute`, redirections |
| `PrintQueue` | | spool directory, job list, printer thread |
| `Printd` | `PrintQueue` | print commands, client threads, main and signal thread, restarts |
| `PrintdProps` | `Printd` | what the service owes its users |
| `PrintdProofs` | `PrintdProps` | proofs about numbers, files and paper |
| `Semaph` | | `semaph.c` and its users |
| `Opend` | | `opend` with either loop, and the clients of `open` |
| `Uptime` | | the three uptime servers and their clients |
| `Daemon` | | daemons that start, lock, and take signals |
| `JobList`, `JobQueue` | | abstract list of jobs; the linked queue that implements it |
| `MsgQueue` | | the message list of `condvar.c` |
| `MemFile`, `Fmemopen` | | abstract file of bounded size; the memory stream that implements it |
| `TellWait` | | both versions of TELL and WAIT with four programs |
| `Signals` | | the signal programs as lists of calls over one model of the kernel |
| `Pty`, `Popen`, `Rot13`, `Coprocess`, `Barrier`, `SigWait`, `Timeout` | | one program each |
| `MCDb`, `MCFoo`, `MCShell` | one of the above | instances for TLC |
| `MCProcesses` | `MCShell` | the programs of a process and its children or threads, side by side |
| `MCServices` | `Semaph` | the services and shared structures, side by side |
| `ProcessesProofs` | `MCProcesses` | proofs about the shell, TELL and WAIT, popen, pty, rot13, the barrier, the coprocess, sigwait and timeout |
| `ServicesProofs` | `MCServices` | proofs about semaphores, daemons, uptime, messages, jobs, memory streams and the open server |

`PrintdProps`, `Semaph` and `TellWait` need no module for their instances: their configurations
give the constants model values.

`MCProcesses` and `MCServices` put modules that share nothing into one instance:
`running` says which of them a behaviour is about, the others keep their initial
values. A property of the instance is the conjunction of those of its modules;
each module states its own specification, fairness and properties. The bounds
that the proofs are about are constants of the two modules, with their values in
the configurations.

### Database (`Db`)

`ptr`, `rec` and `dat` are the files: chain pointers, index records and data
records at offsets that are numbered instead of measured. `readers` and `writer`
are the kernel's locks on the byte ranges the library uses. `db[p]` is the `DB`
structure of a process, `pc[p]` the place in `db_fetch`, `db_store`, `db_delete`
or `db_nextrec`. A step is one system call (`lseek` to the end and `write` are
two), so every interleaving of system calls is there. `Crash` is the end of a
process: the kernel drops its locks and the files stay as they are.
`CrashMidway = FALSE` leaves out the deaths at the positions `Midway`, between the
first and the last write of `_db_dodelete`, and no others: a replacement may die
after its deletion and before the new record is linked. Lengths of
keys and data matter only as equal or different (`_db_findfree`, the in-place
branch of `db_store`). The text format of a record, `db_open` and `db_close` are
not modelled.

### Counted objects (`FooMutex2`, `FooMutex3`)

Objects are addresses that can be allocated again after `free`; `fh` is the hash
table, `f_lock` and `hashlock` the mutexes. `ref` are pointer variables of the
callers, each holding one counted reference: that is the contract of `foo_hold`
and `foo_rele`. A step is a critical section between two lock operations.

### Shell (`Command`, `Pipeline`, `Shell`)

`Command` is the kernel as the shell uses it: open files with counted
references, pipes that hold a bounded number of items, a descriptor table per
process, `fork` copying it, `wait`. A child reads its input to the end, then
writes a bounded output, or writes first. `Pipeline` has a step per system call
of `execute_pipeline`. `Shell` takes lines of every branch of `main`; words are
atoms, so `parse` and `glob` are not there, but the loop that takes the
redirections out of `argv` is (`Split`). Patterns are: a command of a pipeline is
executed with its pattern as typed (`myShell2.c:328`, `ChildExec`), where the
comment above says that it is expanded. `Piped`, the meaning of a pipeline, follows
the comment, and `OutputRight` leaves out the lines for which the two differ
(`Unexpanded`); `MCShell` has such a line.

### Print service (`PrintQueue`, `Printd`)

A document is a sequence of parts named by its client, so that a mixed or cut
document can be told from a whole one. A control file is absent, empty (created
and not written) or full. Steps are system calls and the critical sections of
`joblock`, `workerlock` and `configlock`; the signal of `jobwait` comes after the
unlock, as in `add_job`. The worker list is the linked list with its stale head,
which `client_cleanup` frees (`printd.c:594`). `malloc` may give the freed memory to
the next worker, which is then its own `next`, and the loops over the list do not
end (`Endless`); that takes three clients, which the theorems cover and the runs do
not. Freed memory that is given to something else than a worker is not modelled,
but for the crash it may cause.
`printer_status` is reduced to its outcomes: success, no success although the
printer printed (timeout, unknown answer), no success and no print. IPP and HTTP
text, the configuration file and a failing `accept` are left out. `Stop` is every
end of the daemon (`exit` after SIGTERM or a bad configuration, or a crash):
memory goes, `SPOOLDIR` stays. `unsaved` records that the daemon stopped while
the job file was behind the numbers in use; the properties except finding 3 are
stated up to that. `again` records whose success nobody recorded.

### Semaphores (`Semaph`)

`key` is the identifier of the set that exists under the key, `val` its three
values, `undo` what the kernel adds at the exit of each process. `Semop` is the
atomic array operation with SEM_UNDO, `Setval` clears undo values as the kernel
does. The users take the semaphore around a critical section.

### Open server (`Opend`)

`client` is `client[]` with its free entries, `pollfd` is `pollfd[]` with the
`revents` of the last poll, `allset` and `rset` the sets of the other loop. A step
of the server is one pass over one entry, so clients send, hang up or die while
what poll returned grows old. `in` and `out` are the bytes under way, cut into the
pieces of a read; `recv_fd` puts the answer together as the code does. The uid
that the hang-up leaves at a wrong index (`loop.poll.c:84`) is in the model: it
reaches only the log.

### Uptime, daemons (`Uptime`, `Daemon`)

`Uptime` has `ruptimed.c` (the server answers), `ruptimed-fd.c` (a child becomes
the program, and a child whose exec fails goes on as a server with the
connection), and `ruptimed-dg.c`. When such a child dies the model ends the whole
service, where the code's parent goes on. A datagram client arms its alarm and then
waits (`ruptime-dg.c:23`): an alarm in between (`"rung"`) ends nothing. `MaxFaults`
bounds crashes, failing forks and lost datagrams. `Daemon` has copies of `reread.c` and `reread2.c` that start,
daemonize, lock, truncate and write the pid file, and install what they do with
signals, one call per step; `killer` remembers what ended a copy and where.

### Queues and memory streams (`JobQueue`, `MsgQueue`, `Fmemopen`)

The job queue is touched only under its lock, so a function is a step, and what a
thread has found is a pointer that it uses after the unlock. `condvar.c` signals
after the unlock: `Signal` is a step of its own. `Fmemopen` has the two sizes, the
position and the flags of a stream, and the buffer, which the caller sees; a run
opens one stream after another on the same memory.

### Turns, signals (`TellWait`, `Signals`)

A program is the sequence of what each process does. In `TellWait` a WAIT is the
test, `sigsuspend`, the clearing of the flag and the restoring of the mask, each a
step; `Cases` chooses the programs and the build. In `Signals` a process is a stack
of frames, each at a place in the code of a function or handler; a signal that is
not blocked pushes a frame, `longjmp` cuts the stack, a `sigsuspend` or a slow
call that is interrupted goes on behind it. A signal that is handled before the
`pause` or `read` that waits for it ends nothing: `sleep1`, `read1` and `child`
(`Prone`) may then wait for ever (`Lost`).

### One program each (`Pty`, `Popen`, `Rot13`, `Coprocess`, `Barrier`, `SigWait`, `Timeout`)

`Pty` counts bytes, since each stream is first in, first out, and has the exit
handlers of both copies of the process; an `atexit` that fails ends it with the
terminal raw (`"unset"`). `Popen` has the descriptors of the program
and those each child inherits; an `fclose` that fails leaves its child unwaited
for. In `Rot13` an operation is under way until
`Complete`, and a write takes what is in the buffer then. `Coprocess` has the ends
of two pipes in two processes, and `cut`, those that were killed or, the child, did
not become `add2`. A sort in
`Barrier` is any rearrangement of the part that `complong` accepts, or the part as it
was where `heapsort` fails, which the thread does not notice (`unsorted`); the merge
takes one number per step. `SigWait`
and `Timeout` have the two threads, the lock, and the signals or the clock.

## 3. Runs

| run | instance | properties |
|---|---|---|
| `db_onechain` | two processes, two calls each, every operation on one key, and fetch, store and delete on another one of its chain, two lengths; one may die anywhere but between the first and the last write of a deletion | `ListsPartition`, `KeysPlaced`, `ImplementsStore` |
| `db_three` | two processes that store and delete on two chains, one that also steps through the file | `DataOwned`, `NoLockCycle`, `Exclusion`, `NextIntact`, `ChainChangedByOwner`, `CallsReturn` |
| `db_crash_delete` | one process dies anywhere, one steps through the file | `NextIntact`, violated |
| `foo` | three threads, three variables, two objects, two ids of one chain, in both versions; with `mutex3.c` two calls at a time | `CountRight`, `NoLeak`, `NoUseAfterFree`, `NoUseAfterFree3`, `NoDeadlock`, `ImplementsRefs` |
| `printd` | two clients, two parts each, two faults of any kind | `AcceptedKept`, `JobOnce`, `PaperRight`, `RejectedNotPrinted`, `AcceptedPrinted` |
| `printd_numbers` | one fault | `AllKept`, violated |
| `printd_workers` | one fault | `AllCancelled`, violated |
| `semaph_open` | two creators and an opener, three calls | `OneAtATime`, violated |
| `shell_fullpipe` | a command writes more than the pipe holds | `LineReturns`, violated |
| `tellwait` | `devzero.c` with signals, six loops | `BothEnd`, violated |
| `processes` | the shell with one line of every branch after another; TELL and WAIT; 15 signal programs, three signals; pty with every option; popen with three commands and a fault; rot13 with two buffers; three lines for the coprocess; two threads that sort two numbers each; four signals for sigwait; timeout with thirds of a second | `OutputRight`, `ReaderGetsEof`, `PromptClean`, `TurnsKept`, `SignalsHandled`, `TerminalKept`, `StreamsPrivate`, `TransformsRight`, `ProgramsEnd` |
| `services` | the semaphore with two creators, one of which may die, and an opener that may shut down; the open server with two clients, four calls and both loops; the uptime servers with two clients and two faults; two daemons, three starts, two signals; two threads and three jobs or messages; streams of up to three bytes, three calls each | `CountRight`, `UsersKept`, `NothingLeft`, `AnswersMatch`, `UptimeRight`, `OneDaemon`, `MessagesKept`, `MemoryRight`, `ImplementsJobList`, `ReadableIsFile`, `ServicesAnswer` |

**What the two suites show.** In `processes`: a line of the shell writes what its
meaning says, unless it is a pipeline with a pattern, and comes back to a clean
prompt; readers get their end of file; the two processes of TELL and WAIT take
turns; no signal, however early, makes a program end otherwise than it means to;
the terminal is cooked again whoever ends pty, unless `atexit` failed; no command
holds the stream of another; what is translated, sorted or answered is complete and
in order, where no `heapsort` failed and nothing was cut off; and everything ends,
except `sleep1`, `read1` and `child` when their signal came before the call that
waits for it (what `sleep2`, `sleep` and `read2` avoid). In `services`: counts and
units of a semaphore survive exits; a request has its own answer and the server
watches every connection; a client of uptime has one line or has waited long
enough; one daemon runs and the pid file names it; messages are handled once and
none waits while all threads sleep; the linked queue is a list; a memory stream
that is read is a file, and one that is only written leaves a string; and what is
asked for is answered, except to a datagram client whose alarm went off before its
`recvfrom` and whose answer was lost.

**Types.** No run checks a type invariant of its own. The types of every component
with a proof in section 5 are proved (they are parts of the inductive invariants);
those of the other modules are fixed by their properties.

**Bounds.** `MaxCalls` bounds the calls of one process (all calls, in `Semaph`,
`Opend`). Two calls each let a
process meet what another one left behind (a freed record, a removed set) while
a third list or lock is in use; the hazards listed need two actors and one
earlier call. In `db_three` one call each is enough, because the third process
and the second chain add the interleavings that matter there (free list, append
points, lock chains). In `db_onechain` a process does not die between the first and
the last write of `_db_dodelete` (`CrashMidway = FALSE`): `db_crash_delete` shows
what happens there. It does die between the deletion and the link of a replacement,
and the key is then gone, as `DbStore` allows (section 5, Calls). With `mutex3.c` two calls are in progress at a time: its
one lock leaves no step in which three differ from two. A pipe holds two items and
commands write up to two,
or three (`shell_fullpipe`). `MaxFaults` bounds the faults of a run
of the print service; two faults cover a failure of the printer followed by a
crash, a crash during a recovery, a signal with a dying client. Three identifiers
are never used up in these runs. `BIGCOUNT` is 4 instead of 10000; only its being
above the number of users matters, and that is assumed by name. `NALLOC` is 1
instead of 10, so that the tables of the open server grow with every client; four
calls let a client that was answered ask again behind another one's hang-up.
Two copies of a daemon and three starts let one start beside a running copy and
after a killed one. Two buffers of two bytes and seven bytes of input give rot13
each buffer twice and a short last block. Three signals reach a handler, a second
one inside it, and one after it.

**Deadlock** is checked in the database runs (`Finished` marks their legal end)
and in `foo`, which never ends. In the other runs the programs really stop (the
input ends; the clients are through; a creator that exits between `semget` and
SETVAL leaves a `sem_open` waiting), so their configurations turn it off and what
must not stop is stated as liveness.

**Fairness.** All of it is weak, but for one lock. `Db`: a process in a call is
scheduled again, and a lock that stays grantable is granted (POSIX queues
F_SETLKW). Calls begin when the caller likes. `Shell`: the shell and each child
run. `Printd`: threads run, a client that is not killed goes on sending, an exit
that was decided happens, and the daemon is started again; faults, signals and new
clients are never forced. That `AcceptedPrinted` holds rests on `MaxFaults`: a
printer that fails for ever prints nothing. `Semaph`: a process inside a call or
with the semaphore in hand goes on; semop grants a lock that stays free. `Opend`:
the server and a client that waits go on; no client has to ask or to leave.
`Uptime`: a server that is up serves; that it is started is up to others, and a
client comes to an end without it. `Daemon`, `TellWait`, `Signals`: a process
runs, and a signal that is not blocked is acted upon; nobody has to send one.
`Pty`, `Popen`, `Coprocess`: each process runs; users and commands that read
nothing may stop. `Rot13`: the system carries out every operation. `SigWait`: the
thread has strong fairness, since main may wake up for no reason and take the
lock any number of times.

## 4. Findings

1. `week08Lab2/3pipe.c:66`: each stage is waited for before the next one is
   started. Output that does not fit into the pipe stops the line for ever
   (`shell_fullpipe`).
2. `db.c:489`: a process that dies inside a deletion lets `db_nextrec` return a
   live key with blanked data, against the comment at line 842
   (`db_crash_delete`).
3. `printd.c:696`: the next job number is saved when the printer thread takes a
   job, and not when a number is given out. After a stop before that the number
   is given out again, and `creat` empties the accepted document
   (`printd_numbers`).
4. `printd.c:544`: `add_worker` sets the head of the list only when it is empty,
   so `kill_workers` cancels one worker instead of all (`printd_workers`).
5. `semaph.c:193`: `sem_open` counts itself without the lock although
   `sem_close` decides on the counter under it (`semaph_open`).
6. `lib/tellwait.c:43`: WAIT restores the mask of the process, so from the second
   WAIT on a signal that comes between the test and `sigsuspend` is lost.
   `devzero.c` waits in a loop and is linked with this version by
   `ipc1/Makefile`; both of its processes sleep for ever (`tellwait`). With the
   pipes of `ipc1/tellwait.c` they end (`processes`).

Seen while reading, without a run: a set that is removed while `sem_create` waits
for its lock gives EIDRM, and the process exits where the comment at
`semaph.c:119` has it create the set again (action `Fail`). `printd.c:447` takes
a timeout for the end of a document. `myShell2.c:328` expands patterns into
`expanded_argv` and executes `argv`; a dangling `<` or `>` (192, 197), a blank
line (142) and the last line without a newline (128) are misread.
`lib/sleep.c:41` restores the caller's action while an alarm that came just after
another signal is still pending; line 44 lets it through, and it ends a caller
without a handler (`MCProcesses` leaves that caller out). A SIGHUP between the restored default and the block of
`reread.c:72` to 79 ends the daemon. A failing exec in `ruptimed-fd.c:48` leaves a
second server that holds the connection. `timeout.c:119` tests a condition that
was never set, and `suspend.c:64` lets a second SIGQUIT through that came in the
meantime. A replacement by a record of another length deletes the old record
(`db.c:713`) and links the new one later (730): a process that dies in between has
lost the key. `sleep1.c`, `read1.c` and `child.c` lose a signal that comes before
`pause` or `read`, and `ruptime-dg.c:23` an alarm that comes before `recvfrom`; each
then waits for what may never come. An `atexit` that fails after the terminal was
made raw (`pty/main.c:91`) ends `pty` with the terminal raw. A child of `pty` that
cannot read its input exits (`loop.c:19`) without the SIGTERM that the comment at
`sig_term` says it sends. `pclose` returns without `waitpid` when `fclose` fails
(`popen.c:109`). `barrier.c:47` does not look at what `heapsort` returns.
`client_cleanup` frees the worker that the head of the list still points to
(`printd.c:594`). The loops of the open server read at most MAXLINE bytes (`loop.poll.c:73`)
and take each read for a request, and `open/main.c:13` lets a name fill MAXLINE:
such a request comes in two pieces, the first is answered "not null terminated"
(`request.c:9`), the rest as a request of its own, and the next `csopen` of the
client reads that second answer instead of its own. With the name "long" of `Opend`
TLC shows it; the run and the proof leave that name out (`OpenAssumption`).

## 5. Proofs

All proofs are for any number of processes or threads, objects and records, and
any behaviour of the specification, without the bounds of the runs. Every
inductive invariant was first checked by TLC on an instance of the kind section 3
lists.

### Database

The argument has four layers, each of which uses the invariants below it.
Assumptions: `NHash` is positive and `Hash` maps keys to chains; `NoProc` is no
process; `Requests` are calls; `Procs` is finite (for the count in
`ListsPartition`); no key and no data is `Blank` (`_db_dodelete` fills a record
with spaces, and `db_nextrec` passes over every key of spaces).

*Locks* (`DbProofs`, with deaths anywhere). `IInv` says which byte range each
program position holds, and of each lock which position its holder is at. Both
directions are needed: `Exclusion` follows from "position implies lock", but
keeping it when a lock is dropped needs "lock implies position" (a process drops
only its own section). `FetchPath` is there because a reader's lock is not a
writer's.
- `LockDiscipline`: `Spec => []IInv`.
- `MutualExclusion`: `Spec => []Exclusion`.
- `DeadlockFree`: `Spec => []NoLockCycle`, by the order chain, free list, data,
  index tail.

*Files* (`DbProofs`, with deaths anywhere). `FileInv`: every pointer is to a
record or ends a list, no two index records have the same data record, and what a
`DB` structure says about the record at `idxoff` is so. A data record that has been
appended and is not referred to yet belongs to one process (`Appended`). The files
only grow, each at the hands of the holder of its append point, which is why the
offsets the others remember stay good (`Grows`, `OthersKept`).
- `FilesSound`: `Spec => []FileInv`.
- `DataRecordsOwned`: `Spec => []DataOwned`.

*Lists* (`DbListProofs`). A list is what is reached from its head: the least set of
records closed under the pointers (`Reach`), with the pointers as the owner of the
list means them (`After`): between the two writes that take a record out of its
chain, the pointer before it already counts as running past it. That closed sets
replace recursion is what makes the lists provable; the lemmas `ReachUnfold`,
`ReachUnlink`, `ReachSame` and their neighbours carry all steps. `ListInv` says that
lists do not meet, that no record is reached by two pointers of one list, that each
list holds what belongs there, which record each position has in hand, and that a
call that walks a chain is on it. These theorems have the hypothesis
`~CrashMidway`: no process dies at the positions `Midway`, between the first write of
a deletion and its last. Without it they are false, as `db_crash_delete` shows; deaths
anywhere else are covered, those of a replacement that has deleted and not yet linked
among them.
- `ListsSound`: `Spec => []ListInv`.
- `ListsArePartition`, `EveryKeyPlaced`, `NextrecIntact`: `ListsPartition`,
  `KeysPlaced` and `NextIntact` are invariants.
- `OwnerChanges`: `Spec => ChainChangedByOwner`, an action property: a chain's
  keys and data change only in a step of the process that has it write locked.

*Calls* (`DbListProofs`, the same hypothesis). `CallInv` adds what kind of call is
at which position. Each step is shown to be either a step of `DbStore` or a stutter:
a fetch acts when it reads the data, a failing call when its search ends, a deletion
when the data is blanked, a replacement of the same length when the data is
overwritten, an insertion when the new record is linked. A replacement by another
length acts twice: it blanks the old data (`Remove` of `DbStore`) long before it links
the new record (`Store`). Between the two the key is out of the map, and `DbStore`
lets no other call act on it (`Undisturbed`): nobody sees that, since the chain is
write locked. Only a death between the two is seen: the key is gone. The theorem says
this and no more of such a replacement. What remains is that a step leaves the value
of every other key alone: the other chains have the same records with the same data.
- `CallsSound`: the conjunction of the four invariants is one.
- `CallsTakeEffectAtOnce`: `~CrashMidway => (Spec => ImplementsStore)`.

### Counted objects

Assumptions: the named ones of `FooTable` (finite `Refs`, `Hash` into `Buckets`, the
null values apart). `FooTableProofs` states the invariant once for both versions,
with the positions that hold `hashlock` and the lock in the object as parameters:
`FooInv` adds to the type invariant and `CountRight` what each position knows of its
object (`Mine`), who holds which lock (`LocksAt`), that objects being built or torn
down belong to one thread (`PrivateApart`, `Owned`), and that the table holds living
objects. The count alone is not inductive: the second test of `foo_rele` in
`mutex2.c` is right only because an object with count 1 and both locks held has one
reference and is in the table. The lemmas of that module are one per kind of step
(a reference is taken, dropped, moved; the chain gains or loses an object; only
locks change).

For `FooMutex2` and `FooMutex3`, each:
- `CountsReferences`: `CountRight`; `NothingLeaks`: `NoLeak`; `MemorySafe`:
  `NoUseAfterFree` are invariants.
- `CallsAtomic`: `Spec => ImplementsRefs`. The table of `FooRefs` is read off the
  chains, `newer` off their order (`fh` is a list with the newest object first, so
  that `foo_find` finds the newest). `foo_alloc` acts when it inserts, `foo_find`
  when it takes its reference or reaches the end, `foo_rele` when it drops the
  reference or takes the object out.

For `FooMutex2` also `TypeCorrect`, `TableSound` (an object is on the chain of its
id, once, and nothing freed is on a chain) and `DeadlockFree` (`NoDeadlock`; in
`mutex3.c` nobody waits for a lock in an object). `BothMemorySafe` is the same as
`MemorySafe` for the instance of the run, in which either version may be the one
that runs: no object is used after its end in either.

### Print service

`PrintdProofs`, for any number of clients, parts and faults of every kind, with ends
and starts of the daemon at any step. Assumptions: the clients are finitely many and
none of them is the value that marks a missing file (`ClientsAssumption`), a document
has a part (`PartsAssumption`), `NULL` is no client (`PrintdAssumption`).

The invariant is `IInv`: `SpoolInv`, until the daemon has stopped with numbers in use
that the job file does not cover (finding 3; a new daemon then hands out a number a
second time, and none of this holds). The core of `SpoolInv` is that a job number is
in one place: with the thread of one client, on the list, with the printer thread,
among the directory entries that `build_qonstart` has not seen, or nowhere any more
(`PlacesOK`, `ThreadOK`). Who has the number is the only one to touch its two files,
and that is why every step disturbs little: a step of a client's thread is an
`OwnStep`, a step of the printer thread a `PrinterFrame`, and each of the two has one
lemma that carries the invariant. `NumbersOK` gives the thread that takes the next
number a number without files; it survives a restart because every file's number is
below the one on disk. `JobOnce` alone is not inductive: that `replace_job` and the
scan of the directory put no number on the list twice needs the places of all
numbers. What is on paper follows from `DataOK` (a data file has parts of one
document, and a document is in the file of one number) and `PaperOK`: after a copy
is out, either the data file is gone or about to be removed, or the success was not
recorded (`again`).
- `SpoolSound`: `Spec => []IInv`.
- `JobsOnce`, `PaperIsRight`, `RejectedStay`: `JobOnce`, `PaperRight` and
  `RejectedNotPrinted` are invariants.
- `AcceptedStay`: `Slow = {} => (Spec => []AcceptedKept)`. `Slow` are the clients that
  may pause for longer than the daemon waits. The hypothesis is the code's own
  limit: `client_thread` takes such a pause for the end of the document
  (`printd.c:447`), so a slow client's document is accepted although it is cut. The
  other theorems hold with slow clients too.

### Semaphores

`ServicesProofs`, for any number of processes, calls, exits and removals. Assumption:
`BIGCOUNT` is above the number of processes, which are finitely many
(`BigAssumption`). Each step of `semop` moves units between the set and the undo
values of the caller, and an exit gives back what the undo values say, so the sum
of the two is kept by every step (`Conserves`); the invariant says what the undo
values of a process are at each position (`UndoIs`), and the counters follow. The
one exception is SETVAL, which clears undo values: it comes while the caller has
the lock of a set that nobody has initialized, so there is nothing to clear but its
own. `RemoveIs` and `Attends` are for the end of a set: who removes it knows that
nobody uses it, and a set that exists has somebody who will close it, unless a
process died or failed.
- `SemaphoresSound`: `Spec => []SemInv`.
- `CountersRight`, `UsersKeepTheirSet`, `NoSetLeft`: `CountRight`, `UsersKept` and
  `NothingLeft` are invariants.

### Daemons, uptime, messages, jobs

All in `ServicesProofs`.

*Daemons.* Any number of copies of either version, starts, signals and kills, at any
step. Assumption: the words that mark an empty pid file are no copies. The invariant
says what has been done at each position: the lock is held from `already_running`
on, only its holder writes the file, and SIGHUP has its default action only before
the copy ignores it or between the lines 72 and 79 of `reread.c`. Its first draft was
not inductive because of an error in the model, since corrected: a copy that was
killed inside a handler could still finish the handler.
- `OnlyOneDaemon`: `Spec => []OneDaemon`.

*Uptime.* Any clients and faults, the three servers. Assumption: MAXSLEEP is a power
of 2 (128 in the code). A client that is in the queue or with the server has had no
line and no end of file; what it has slept is one second less than the next wait,
which divides MAXSLEEP, so the doubling meets the bound exactly.
- `UptimeAnswers`: `UptimeRight` is an invariant.

*Messages.* Any threads and messages; there is a thread, and `NULL` is no message.
What is on the list is what is reached from `workq` through the links (`Reach`, the
least closed set, as for the database): the queue is a stack, and links that are
left in a message that was taken do not lead back to it. `SomebodyLooks` is the part
that a lost wakeup would break: a list that is not empty has a signal to come or a
thread that is past its test.
- `MessagesAreKept`: `MessagesKept` is an invariant.

*Jobs.* Any finite set of jobs, any threads. The abstract `JobList` is a sequence
with insertion at the front, append and removal. `Job!Forward`, the sequence that
the links from `q_head` describe, is the one that both directions of links, the two
ends and the NULLs at them belong to (`OnList`); that there is at most one is the
lemma `LinksLead`. A thread finds only jobs with its own `j_id`, and no other thread
takes these, so the one it found is still on the list when it removes it after the
unlock.
- `LinksAreList`: `Spec => ImplementsJobList`.

### Memory streams

`ServicesProofs`, for memory of any size and data of any length. Assumption: bytes
are not the null byte, there are finitely many sizes. The invariant has the order of
position, size and capacity in each mode, and that the text has no null byte before
its end where the stream appends; `find_end` is the place behind the text.
- `StreamsInside`: `MemoryRight` is an invariant.
- `StreamsAreFiles`: `Spec => ReadableIsFile`. The file of `MemFile` is the first
  `size` bytes of the memory; an open, a read, a write and a seek each is the same
  call on the file, or fails and changes nothing.

### Open server

`ServicesProofs`, for any number of clients, files and calls and any `NALLOC`, with
either loop, and with clients that hang up or are killed anywhere. Assumption
(`OpenAssumption`): the clients are finitely many, and no name is longer than one
read of the server takes (see section 4 for such a name). The invariant `OpenInv`
has three parts.
- The tables agree with the connections: an accepted connection has one descriptor,
  one entry of `client[]`, and one of `pollfd[]` or a place in `allset` below `maxi`
  (`FdsRight`, `TableRight`), and a connection that waits has none (`BacklogRight`).
- What the last poll or select reported is still true for the entries that the loop
  has not reached (`PollRight`, `SelectRight`): only the server itself reads or
  closes, and it moves `pollfd[]` together with the index. Without this part the
  loop could block in a read or close a connection that is in use.
- A client that waits has one request on its way, or being handled, or one answer,
  in the pieces in which it is sent, and no other (`CallRight`).
- `AnswersAreRight`: `AnswersMatch` is an invariant.

### TELL and WAIT, popen, pty

`ProcessesProofs`.

*TELL and WAIT.* The four programs, over signals and over pipes, with any `NLOOPS`
(`devzero.c` over pipes only: finding 6). What a process has heard the other one has
told it; from that the order of the prints, the locks of `deadlock.c` and
`mandatory.c`, and for `devzero.c` the count that each update finds.
- `TurnsAreKept`: `TurnsKept` is an invariant.

*popen.* Any number of descriptors and of commands, with failing pipes, forks,
fdopens and fcloses. A child closes the streams in its copy of `childpid[]`; that this is enough
needs that `childpid[]` names exactly the streams that are open, and that no entry
of a closed one is left when a later child is given its descriptor.
- `StreamsArePrivate`: `StreamsPrivate` is an invariant.

*pty.* Any input and output, every option. `PtyInv` says what each of the two
processes will do when it exits: who has the exit handler knows that the terminal is
raw, and the copy that the fork made of `ttystate` says so too; SIGTERM comes from a
copier that is on its way through its own exit handler. That is why the terminal is
cooked also when the signal comes before `loop.c:32` has installed its handler: the
copier resets it. The end of a program whose `atexit` failed (`"unset"`) is the one
that leaves it raw. For the output, what was shown and what is still between the
command and the terminal add up to what was written, and a read finds the end only
when nothing is left.
- `TerminalIsKept`: `TerminalKept` is an invariant.

### rot13, barrier, coprocess, sigwait, timeout

`ProcessesProofs`.

*rot13.* Any number and size of buffers, any input (`RotAssumption`: a buffer holds a
byte). Operations complete in any order, so nothing can be said of the output from the
order of the steps. `RotInv` says instead what each buffer holds from its `aiocb`
alone (`ReadRight`, `WriteRight`), that each byte that has been begun is written or in
the block of one buffer (`Covered`), and that the one block that may be short is the
last, whose buffer is not used again (`LastRight`).

*barrier.* Any number of threads and of numbers (`SortAssumption`: there is a thread,
with a number to sort). `SortInv`: the main thread merges only when all threads have
returned from the barrier, since `AtBarrier` counts all but the last; a thread behind
its sort has a sorted part, unless its `heapsort` failed (`unsorted`); the numbers are the given ones rearranged; and the merged
numbers are those of the places before `next`, and where nothing is `unsorted` none
is greater than one that is left.

*coprocess.* Any lines. `CoInv`: the line that was asked is in the first pipe, with the
child, or its answer is in the second pipe, or it went down with a child that was
cut off (killed, or not become `add2`). So an answer that is read belongs to the line that waits for it.
- `TransformsAreRight`: `TransformsRight`, which is about these three, is an invariant.

*sigwait, timeout.* Any number of signals; any delay and any parts of a second
(`TimeAssumption`). These are two of the four parts of `SignalsHandled`.
- `QuitEndsTheWait`: `QuitEndsWait` of `SigWait` is an invariant.
- `RetryIsMadeOnce`: `RetryOnce` of `Timeout` is an invariant.

### The shell

`ProcessesProofs`, for any lines, and pipelines of up to `MaxPipes + 1` commands for
any `MaxPipes`. Assumptions: `LinesAssumption` (a pipeline has a command),
`CapAssumption` (a pipe holds something). The invariant gives the whole descriptor
table of the shell and of its child at each position (`LineRight`, `StagesRight`,
`CommandRight`): in a pipeline the pipes are at descriptors 3 and 4, and 5 and 6, in
turn, and the read end of the last one is closed before the one after next is made.
The tables say who can write to a pipe.
- `PromptIsClean`: `PromptClean` is an invariant.
- `ReaderIsToldTheEnd`: `ReaderGetsEof` is an invariant.

### Model-checked only

- Liveness (`CallsReturn`, `LineReturns`, `AcceptedPrinted`, `ProgramsEnd`,
  `ServicesAnswer`) and everything else that needs fairness or ENABLED, which the
  prover does not reach.
- `OutputRight`: what a line means is a fold over its commands, and the contents of
  the pipes are sequences that are built up along it.
- `EndsAsMeant` and `LeftAsFound` of `Signals`, the other two parts of
  `SignalsHandled`: the signal programs are stacks of frames of any depth, each with
  a place in the code of its own.

Induction over data is not at hand as a theorem of the library. Where a proof needs
induction over numbers it takes the least counterexample (`LeastNat`, from the
well-foundedness of the numbers), and where it needs the elements of a linked list,
the least closed set.

## 6. Not modelled, and the plan

Worth proving next: `SignalsHandled`, one program at a time; the contents of the
pipes for `OutputRight`.

Worth modelling next: `db_open` (the truncation before the whole-file lock, with a
second opener), the reading of the printer's answer in pieces (`readmore`,
`printer_status`), and the characters of a line of the shell.

Left out for good:
- the start of the open server (options, arguments), which comes before its loop,
  and the version with a server per client, which has no table;
- `initsrv1.c`, `initsrv2.c` and the look-up of addresses;
- programs that show one library call each, the fork exercises, the first versions
  of the shell, error reporting, build and data files. They are sequential, and
  their behaviour is that of the C library.
