------------------------------ MODULE TellWait ------------------------------
(***************************************************************************)
(* TELL and WAIT, which a parent and its child use to take turns: with     *)
(* signals (apue.3e/lib/tellwait.c) and with pipes (apue.3e/ipc1/          *)
(* tellwait.c), and the four programs that are built on them.  A program   *)
(* is the sequence of what each of the two processes does.                 *)
(***************************************************************************)
EXTENDS Integers, Sequences, FiniteSets

CONSTANTS
  Cases,      \* the pairs of a build, "signals" or "pipes", and a program
  NLOOPS      \* of devzero.c, an even number

VARIABLES
  build, program,
  op,         \* the index of what each process does next
  at,         \* where it is within that: "start", "suspend", "asleep", ...
  sigflag, pending, blocked,
  pipe,       \* how many bytes are in the pipe to a process
  counter,    \* the shared memory, or the number of lines of output
  locks,      \* the process that has locked a byte of the file, or "none"
  failed      \* the processes that ended with an error, or wrote before their turn

signals == <<sigflag, pending, blocked>>
shared == <<counter, locks, failed>>
vars == <<build, program, op, at, signals, pipe, shared>>

Procs == {"parent", "child"}
Other(p) == IF p = "parent" THEN "child" ELSE "parent"

-----------------------------------------------------------------------------
(* The programs                                                            *)

devzero(p) ==
  LET turn == IF p = "parent" THEN <<"update", "tell", "wait">>
                              ELSE <<"wait", "update", "tell">>
  IN [n \in 1 .. 3 * (NLOOPS \div 2) |-> turn[((n - 1) % 3) + 1]]

tellwait2(p) == IF p = "parent" THEN <<"print", "tell">> ELSE <<"wait", "print">>

deadlock(p) ==
  IF p = "parent" THEN <<"lock1", "tell", "wait", "lock0">>
                  ELSE <<"lock0", "tell", "wait", "lock1">>

mandatory(p) == IF p = "parent" THEN <<"lockfile", "tell", "waitpid">> ELSE <<"wait", "probe">>

Script(p) ==
  CASE program = "devzero" -> devzero(p)
    [] program = "tellwait2" -> tellwait2(p)
    [] program = "deadlock" -> deadlock(p)
    [] program = "mandatory" -> mandatory(p)

Ended(p) == op[p] > Len(Script(p))
Does(p, what) == at[p] = "start" /\ ~Ended(p) /\ Script(p)[op[p]] = what
Goto(p, l) == at' = [at EXCEPT ![p] = l]
Continue(p) == op' = [op EXCEPT ![p] = @ + 1] /\ Goto(p, "start")
(* exit, which gives back the locks                                        *)
Exit(p) == op' = [op EXCEPT ![p] = Len(Script(p)) + 1] /\ Goto(p, "start")

-----------------------------------------------------------------------------
(* TELL_WAIT blocks the two signals, or makes the pipes, before the fork.  *)
TELL_WAIT ==
  /\ sigflag = [p \in Procs |-> FALSE]
  /\ pending = [p \in Procs |-> FALSE]
  /\ blocked = [p \in Procs |-> TRUE]
PipesEmpty == pipe = [p \in Procs |-> 0]

(* TELL_PARENT and TELL_CHILD                                              *)
TellBySignal(p) ==
  /\ build = "signals" /\ Does(p, "tell")
  /\ pending' = [pending EXCEPT ![Other(p)] = TRUE]
  /\ Continue(p)
  /\ UNCHANGED <<build, program, sigflag, blocked, pipe, shared>>

TellByPipe(p) ==
  /\ build = "pipes" /\ Does(p, "tell")
  /\ pipe' = [pipe EXCEPT ![Other(p)] = @ + 1]
  /\ Continue(p)
  /\ UNCHANGED <<build, program, signals, shared>>

(* WAIT_PARENT and WAIT_CHILD: the flag is tested ...                      *)
Test(p) ==
  /\ build = "signals" /\ Does(p, "wait")
  /\ Goto(p, IF sigflag[p] THEN "clear" ELSE "suspend")
  /\ UNCHANGED <<build, program, op, signals, pipe, shared>>

(* ... sigsuspend sleeps with an empty mask until the handler has run ...  *)
Suspend(p) ==
  /\ at[p] = "suspend"
  /\ Goto(p, "asleep")
  /\ UNCHANGED <<build, program, op, signals, pipe, shared>>

sig_usr(p) ==
  /\ pending[p] /\ (~blocked[p] \/ at[p] = "asleep")
  /\ pending' = [pending EXCEPT ![p] = FALSE]
  /\ sigflag' = [sigflag EXCEPT ![p] = TRUE]
  /\ Goto(p, IF at[p] = "asleep" THEN "start" ELSE at[p])
  /\ UNCHANGED <<build, program, op, blocked, pipe, shared>>

(* ... the flag is reset, and then the mask is what it was before          *)
(* TELL_WAIT: from here on the signals are no longer blocked.              *)
Clear(p) ==
  /\ at[p] = "clear"
  /\ sigflag' = [sigflag EXCEPT ![p] = FALSE]
  /\ Goto(p, "unmask")
  /\ UNCHANGED <<build, program, op, pending, blocked, pipe, shared>>

Unmask(p) ==
  /\ at[p] = "unmask"
  /\ blocked' = [blocked EXCEPT ![p] = FALSE]
  /\ Continue(p)
  /\ UNCHANGED <<build, program, sigflag, pending, pipe, shared>>

\* Mutant: one pipe is used for both directions.
WaitOnOnePipe(p) ==
  /\ build = "pipes" /\ Does(p, "wait")
  /\ \E q \in Procs : pipe[q] > 0 /\ pipe' = [pipe EXCEPT ![q] = @ - 1]
  /\ Continue(p)
  /\ UNCHANGED <<build, program, signals, shared>>

WaitOnPipe(p) ==
  /\ build = "pipes" /\ Does(p, "wait") /\ pipe[p] > 0
  /\ pipe' = [pipe EXCEPT ![p] = @ - 1]
  /\ Continue(p)
  /\ UNCHANGED <<build, program, signals, shared>>

-----------------------------------------------------------------------------
(* What the programs do between the calls                                  *)

(* update, with the value that is expected of it                           *)
Update(p) ==
  /\ Does(p, "update")
  /\ LET i == 2 * ((op[p] - 1) \div 3) + (IF p = "parent" THEN 0 ELSE 1)
     IN IF counter = i
        THEN Continue(p) /\ UNCHANGED failed
        ELSE Exit(p) /\ failed' = failed \cup {p}
  /\ counter' = counter + 1
  /\ UNCHANGED <<build, program, signals, pipe, locks>>

(* The parent prints first.                                                *)
charatatime(p) ==
  /\ Does(p, "print")
  /\ failed' = IF p = "child" /\ counter = 0 THEN failed \cup {p} ELSE failed
  /\ counter' = counter + 1
  /\ Continue(p)
  /\ UNCHANGED <<build, program, signals, pipe, locks>>

(* lockabyte: a process that would wait for one that waits for it gets     *)
(* EDEADLK, and ends.                                                      *)
Byte(p) == IF Script(p)[op[p]] = "lock0" THEN 0 ELSE 1
Asks(p) == ~Ended(p) /\ Script(p)[op[p]] \in {"lock0", "lock1"}
Free(p) == [b \in 0 .. 1 |-> IF locks[b] = p THEN "none" ELSE locks[b]]
Waiting(p) == at[p] = "locked"

lockabyte(p) ==
  /\ Asks(p)
  /\ CASE locks[Byte(p)] \in {"none", p} ->
            /\ Continue(p)
            /\ locks' = IF op[p] = Len(Script(p)) THEN Free(p)
                        ELSE [locks EXCEPT ![Byte(p)] = p]
            /\ UNCHANGED failed
       [] locks[Byte(p)] = Other(p) /\ ~Waiting(Other(p)) ->
            ~Waiting(p) /\ Goto(p, "locked") /\ UNCHANGED <<op, locks, failed>>
       [] locks[Byte(p)] = Other(p) /\ Waiting(Other(p)) ->
            Exit(p) /\ locks' = Free(p) /\ failed' = failed \cup {p}
  /\ UNCHANGED <<build, program, signals, pipe, counter>>

(* mandatory: the parent locks the file, and the child must be refused.    *)
LockFile(p) ==
  /\ Does(p, "lockfile")
  /\ locks' = [b \in 0 .. 1 |-> p]
  /\ Continue(p)
  /\ UNCHANGED <<build, program, signals, pipe, counter, failed>>

Probe(p) ==
  /\ Does(p, "probe")
  /\ failed' = IF \E b \in 0 .. 1 : locks[b] = Other(p) THEN failed ELSE failed \cup {p}
  /\ Continue(p)
  /\ UNCHANGED <<build, program, signals, pipe, counter, locks>>

WaitPid(p) ==
  /\ Does(p, "waitpid") /\ Ended(Other(p))
  /\ Continue(p)
  /\ locks' = Free(p)
  /\ UNCHANGED <<build, program, signals, pipe, counter, failed>>

-----------------------------------------------------------------------------
Init ==
  /\ \E c \in Cases : build = c[1] /\ program = c[2]
  /\ op = [p \in Procs |-> 1] /\ at = [p \in Procs |-> "start"]
  /\ TELL_WAIT /\ PipesEmpty
  /\ counter = 0 /\ locks = [b \in 0 .. 1 |-> "none"] /\ failed = {}

Step(p) ==
  \/ TellBySignal(p) \/ Test(p) \/ Suspend(p) \/ sig_usr(p) \/ Clear(p) \/ Unmask(p)
  \/ TellByPipe(p) \/ WaitOnPipe(p)
  \/ Update(p) \/ charatatime(p) \/ lockabyte(p) \/ LockFile(p) \/ Probe(p) \/ WaitPid(p)

Next == \E p \in Procs : Step(p)

Spec == Init /\ [][Next]_vars

(* Each process runs, and a signal that is not blocked is delivered.       *)
FairSpec == Spec /\ \A p \in Procs : WF_vars(Step(p))

-----------------------------------------------------------------------------
(* The two take turns: each update finds the count it expects, the child   *)
(* finds the lock of the parent, and when both wait for the lock of the    *)
(* other one exactly one of them is told so.                               *)
AllEnded == \A p \in Procs : Ended(p)
TurnsKept ==
  IF program = "deadlock" THEN AllEnded => Cardinality(failed) = 1 ELSE failed = {}

(* Both come to their end: no WAIT sleeps on after its TELL.               *)
Busy(p) == ~Ended(p)
BothEnd == \A p \in Procs : Busy(p) ~> ~Busy(p)

(* The case of devzero.c as ipc1/Makefile builds it: with the TELL and     *)
(* WAIT of the library, which use signals.                                 *)
SignalDevzero == {<<"signals", "devzero">>}

=============================================================================
