---------------------------- MODULE MCProcesses -----------------------------
(* The programs of one process and its children, with the bounds of each.  *)
(* They share nothing: a behaviour is a behaviour of one of them, the one  *)
(* that is running, and the others keep the values they start with.        *)
EXTENDS MCShell

CONSTANTS
  MaxInput, MaxOutput,      \* of Pty
  Pids, maxfd, MaxFaults,   \* of Popen
  NLOOPS,                   \* of TellWait
  NBUF, BSZ, MaxSize,       \* of Rot13
  NTHR, TNUM, Numbers,      \* of Barrier
  Inputs, Wrong,            \* the lines of Coprocess
  MaxTyped,                 \* the signals of SigWait
  SECTONSEC, Delay, MaxTime \* of Timeout

(* Children are numbered in the order of their forks, and descriptors 0 to *)
(* 2 are open.                                                             *)
ASSUME PopenAssumption ==
  /\ IsFiniteSet(Pids) /\ Pids = 1 .. Cardinality(Pids)
  /\ maxfd \in Nat /\ maxfd > 2

ASSUME LoopsAssumption == NLOOPS \in Nat

ASSUME RotAssumption == NBUF \in Nat /\ BSZ \in Nat \ {0} /\ MaxSize \in Nat

(* There is a thread, and a number for it.                                 *)
ASSUME SortAssumption == NTHR \in Nat \ {0} /\ TNUM \in Nat \ {0} /\ Numbers \subseteq Nat

ASSUME TimeAssumption == SECTONSEC \in Nat \ {0} /\ Delay \in Nat

VARIABLES
  running,  \* one of Programs
  \* of TellWait
  build, program, op, at, sigflag, pending, blocked, pipe, counter, locks, failed,
  \* of Signals
  sig_program, frames, disp, mask, sig_pending, old, oldmask, alarmed,
  jmpbuf, flag, sig_child, ending, sent,
  \* of Pty
  opt, ppc, cpc, cmd, driver, tty, ttystate, atexit, handler, sigcaught,
  term, input, eof, typed, pty_sent, made, output, shown,
  \* of Popen
  fds, childpid, forked, pop_child, type, holds, copy, closing, faults,
  \* of Rot13
  size, length, rot_op, last, data, aio, aiolist, off, numop, i, rot_at, rot_output,
  \* of Barrier
  given, nums, snums, unsorted, tpc, mpc, next,
  \* of Coprocess
  co_ppc, co_cpc, co_parent, co_child, fd1, fd2, co_line, args, asked, co_shown, cut,
  \* of SigWait
  main, thread, lock, quitflag, waiting, sw_blocked, sw_pending, sw_sent, quits,
  \* of Timeout
  now, to_main, helper, owner, depth, when, to_wait, wake, tips, calls

-----------------------------------------------------------------------------
turnVars == <<build, program, op, at, sigflag, pending, blocked, pipe, counter, locks, failed>>
sigVars == <<sig_program, frames, disp, mask, sig_pending, old, oldmask, alarmed,
             jmpbuf, flag, sig_child, ending, sent>>
ptyVars == <<opt, ppc, cpc, cmd, driver, tty, ttystate, atexit, handler, sigcaught,
             term, input, eof, typed, pty_sent, made, output, shown>>
popVars == <<fds, childpid, forked, pop_child, type, holds, copy, closing, faults>>
rotVars == <<size, length, rot_op, last, data, aio, aiolist, off, numop, i, rot_at, rot_output>>
barVars == <<given, nums, snums, unsorted, tpc, mpc, next>>
coVars == <<co_ppc, co_cpc, co_parent, co_child, fd1, fd2, co_line, args, asked, co_shown, cut>>
waitVars == <<main, thread, lock, quitflag, waiting, sw_blocked, sw_pending, sw_sent, quits>>
timeVars == <<now, to_main, helper, owner, depth, when, to_wait, wake, tips, calls>>

Programs == {"shell", "tellwait", "signals", "pty", "popen", "rot13",
             "barrier", "coprocess", "sigwait", "timeout"}

(* The library has the version with signals.  devzero.c waits more than    *)
(* once, which only the pipes allow for: SignalDevzero is the other case.  *)
TurnPrograms == {"devzero", "tellwait2", "deadlock", "mandatory"}
Turns == ({"signals", "pipes"} \X TurnPrograms) \ {<<"signals", "devzero">>}

(* A caller of sleep without a handler of its own (sleeper_dfl) is left    *)
(* out: the alarm of sleep may end it.                                     *)
SignalPrograms ==
  {"sleep1", "sleeper", "tsleep2", "read1", "read2", "suspend1", "suspend2", "critical",
   "abort_ign", "abort_catch", "abort_dfl", "mask", "sigtstp", "systest2", "child"}

PtyOptions == [interactive : BOOLEAN, ignoreeof : BOOLEAN, driver : BOOLEAN]

Turn == INSTANCE TellWait WITH Cases <- Turns
Sig == INSTANCE Signals WITH Programs <- SignalPrograms, MaxSignals <- 3,
  program <- sig_program, pending <- sig_pending, child <- sig_child
Pty == INSTANCE Pty WITH Options <- PtyOptions, sent <- pty_sent
Pop == INSTANCE Popen WITH child <- pop_child
Rot == INSTANCE Rot13 WITH op <- rot_op, at <- rot_at, output <- rot_output
Bar == INSTANCE Barrier
Co == INSTANCE Coprocess WITH Lines <- Inputs,
  ppc <- co_ppc, cpc <- co_cpc, parent <- co_parent, child <- co_child, line <- co_line, shown <- co_shown
Wait == INSTANCE SigWait WITH MaxSignals <- MaxTyped,
  blocked <- sw_blocked, pending <- sw_pending, sent <- sw_sent
Time == INSTANCE Timeout WITH main <- to_main

-----------------------------------------------------------------------------
MCInit ==
  /\ running \in Programs
  /\ Init
  /\ Turn!Init /\ (running # "tellwait" => build = "pipes" /\ program = "devzero")
  /\ Sig!Init /\ (running # "signals" => sig_program = "sleeper")
  /\ Pty!Init /\ (running # "pty" => opt = [interactive |-> TRUE, ignoreeof |-> FALSE, driver |-> FALSE])
  /\ Pop!Init
  /\ Rot!Init /\ (running # "rot13" => size = 0)
  /\ Bar!Init /\ (running # "barrier" => \A n \in DOMAIN given : given[n] = 0)
  /\ Co!Init /\ Wait!Init
  /\ Time!Init /\ (running # "timeout" => now = 0)

Runs(name) ==
  /\ running = name /\ UNCHANGED running
  /\ IF name = "shell" THEN TRUE ELSE UNCHANGED vars
  /\ IF name = "tellwait" THEN TRUE ELSE UNCHANGED turnVars
  /\ IF name = "signals" THEN TRUE ELSE UNCHANGED sigVars
  /\ IF name = "pty" THEN TRUE ELSE UNCHANGED ptyVars
  /\ IF name = "popen" THEN TRUE ELSE UNCHANGED popVars
  /\ IF name = "rot13" THEN TRUE ELSE UNCHANGED rotVars
  /\ IF name = "barrier" THEN TRUE ELSE UNCHANGED barVars
  /\ IF name = "coprocess" THEN TRUE ELSE UNCHANGED coVars
  /\ IF name = "sigwait" THEN TRUE ELSE UNCHANGED waitVars
  /\ IF name = "timeout" THEN TRUE ELSE UNCHANGED timeVars

MCNext ==
  \/ Runs("shell") /\ Next
  \/ Runs("tellwait") /\ Turn!Next
  \/ Runs("signals") /\ Sig!Next
  \/ Runs("pty") /\ Pty!Next
  \/ Runs("popen") /\ Pop!Next
  \/ Runs("rot13") /\ Rot!Next
  \/ Runs("barrier") /\ Bar!Next
  \/ Runs("coprocess") /\ Co!Next
  \/ Runs("sigwait") /\ Wait!Next
  \/ Runs("timeout") /\ Time!Next

all == <<running, vars, turnVars, sigVars, ptyVars, popVars, rotVars,
         barVars, coVars, waitVars, timeVars>>

(* The fairness of each module                                             *)
MCSpec ==
  /\ MCInit /\ [][MCNext]_all
  /\ WF_all(Runs("shell") /\ ShellStep) /\ WF_all(Runs("shell") /\ ChildStep)
  /\ \A p \in Turn!Procs : WF_all(Runs("tellwait") /\ Turn!Step(p))
  /\ WF_all(Runs("signals") /\ Sig!Step)
  /\ WF_all(Runs("pty") /\ Pty!ParentStep) /\ WF_all(Runs("pty") /\ Pty!CopierStep)
  /\ WF_all(Runs("popen") /\ Pop!Reap)
  /\ \A pid \in Pids : WF_all(Runs("popen") /\ Pop!Run(pid))
  /\ WF_all(Runs("rot13") /\ Rot!Step)
  /\ \A b \in Rot!Buf : WF_all(Runs("rot13") /\ Rot!Complete(b))
  /\ WF_all(Runs("barrier") /\ Bar!Step)
  /\ WF_all(Runs("coprocess") /\ Co!ParentStep) /\ WF_all(Runs("coprocess") /\ Co!ChildStep)
  /\ WF_all(Runs("sigwait") /\ Wait!MainStep) /\ SF_all(Runs("sigwait") /\ Wait!ThreadStep)
  /\ WF_all(Runs("timeout") /\ Time!MainStep) /\ WF_all(Runs("timeout") /\ Time!timeout_helper)

-----------------------------------------------------------------------------
(* The properties of the modules.  In TellWait the two take turns.         *)
TurnsKept == Turn!TurnsKept

(* A program ends as it means to, whatever signals come, and leaves the    *)
(* actions, the mask and the alarm as it found them; a quit ends the wait  *)
(* of suspend.c, and timeout.c calls its function once and in time.        *)
SignalsHandled ==
  Sig!EndsAsMeant /\ Sig!LeftAsFound /\ Wait!QuitEndsWait /\ Time!RetryOnce

(* pty gives the terminal back as it was, and shows all of the output.     *)
TerminalKept == Pty!TerminalRestored /\ Pty!OutputComplete

(* No command holds a stream of another one, and childpid[] is right.      *)
StreamsPrivate == Pop!StreamsPrivate

(* The output is what the input asks for, in its order: the translated     *)
(* bytes; the sorted numbers, where every heapsort worked (barrier.c does  *)
(* not look); an answer of the coprocess to each line, unless one of the   *)
(* two was cut off: killed, or never become add2.                          *)
TransformsRight == Rot!Rot13Right /\ Bar!SortRight /\ Co!CoprocessRight

(* What begins comes to its end, in each program: LineReturns, BothEnd,    *)
(* ProgramsEnd, PtyEnds, PcloseReturns, Rot13Ends and those of the thread  *)
(* programs; the two processes of TellWait and of the coprocess apart.     *)
(* Three programs of Signals may not end, and are excepted once it has     *)
(* happened: sleep1, read1 and child lose a signal that comes before the   *)
(* pause or the read it should end.                                        *)
BusyIn(p) ==
  CASE running = "shell" -> Busy
    [] running = "tellwait" -> Turn!Busy(p)
    [] running = "signals" -> Sig!Busy
    [] running = "pty" -> Pty!Busy
    [] running = "popen" -> Pop!Busy
    [] running = "rot13" -> Rot!Busy
    [] running = "barrier" -> Bar!Busy
    [] running = "coprocess" -> Co!Busy(p)
    [] running = "sigwait" -> Wait!Busy
    [] running = "timeout" -> Time!Busy
ProgramsEnd == \A p \in {"parent", "child"} : BusyIn(p) ~> ~BusyIn(p)

=============================================================================
