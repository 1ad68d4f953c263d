-------------------------------- MODULE Pty ---------------------------------
(***************************************************************************)
(* The pty program of apue.3e/pty: a command on a pseudo terminal, a       *)
(* parent that copies what the command writes to standard output, a copier *)
(* that copies standard input to the command, the user's terminal in raw   *)
(* mode (lib/ttymodes.c), and perhaps a driver in the place of the user.   *)
(* Data are counted: every stream is first in, first out.                  *)
(***************************************************************************)
EXTENDS Integers

CONSTANTS
  Options,      \* the command lines: interactive, ignoreeof, driver
  MaxInput, MaxOutput   \* bounds on what is typed and what the command writes

VARIABLES
  opt,
  ppc, cpc,     \* where the parent and the copier are
  cmd, driver,  \* "none", "starting", "running", "ended"
  tty,          \* the mode of the user's terminal: "cooked" or "raw"
  ttystate,     \* of each process, which fork copies
  atexit,       \* the processes that reset the terminal when they exit
  handler, sigcaught,
  term,         \* SIGTERM is on its way to the parent
  input, eof,   \* what waits to be read from standard input, and its end
  typed, sent,  \* how much was typed, and how much reached the command
  made, output, \* how much the command wrote, and how much of it waits
  shown         \* how much reached standard output

terminal == <<tty, ttystate, atexit>>
signals == <<handler, sigcaught, term>>
inputs == <<input, eof, typed, sent>>
outputs == <<made, output, shown>>
others == <<cmd, driver>>
vars == <<opt, ppc, cpc, others, terminal, signals, inputs, outputs>>

Gone == {"exited", "failed", "killed", "unset"}

-----------------------------------------------------------------------------
(* lib/ttymodes.c, for process p.  A change that sticks only in part is    *)
(* undone.  pty does not use the cbreak mode.                              *)

tty_raw(p) ==
  \/ /\ ttystate[p] = "RESET"
     /\ tty' = "raw" /\ ttystate' = [ttystate EXCEPT ![p] = "RAW"]
  \/ UNCHANGED <<tty, ttystate>>

tty_reset(p) ==
  IF ttystate[p] = "RESET" THEN UNCHANGED <<tty, ttystate>>
  ELSE tty' = "cooked" /\ ttystate' = [ttystate EXCEPT ![p] = "RESET"]

tty_atexit(p) ==
  IF p \in atexit THEN tty_reset(p) ELSE UNCHANGED <<tty, ttystate>>

-----------------------------------------------------------------------------
(* main.c                                                                  *)

(* pty_fork, or its failure                                                *)
pty_fork ==
  /\ ppc = "start"
  /\ \/ cmd' = "starting" /\ ppc' = IF opt.interactive /\ ~opt.driver THEN "raw" ELSE "driver"
     \/ ppc' = "error" /\ UNCHANGED cmd
  /\ UNCHANGED <<opt, cpc, driver, terminal, signals, inputs, outputs>>

(* Its child: the command is executed on the pseudo terminal, or an error  *)
(* message is written there.                                               *)
Exec ==
  /\ cmd = "starting"
  /\ \/ cmd' = "running" /\ UNCHANGED <<made, output>>
     \/ cmd' = "ended" /\ made' = made + 1 /\ output' = output + 1
  /\ UNCHANGED <<opt, ppc, cpc, driver, terminal, signals, inputs, shown>>

\* Mutant: the terminal is not reset on exit.
RawModeUnset ==
  /\ ppc = "raw"
  /\ tty_raw("parent")
  /\ ppc' \in IF tty' = "raw" THEN {"driver", "unset"} ELSE {"error"}
  /\ UNCHANGED <<opt, cpc, others, atexit, signals, inputs, outputs>>

(* The user's terminal to raw mode, to be reset on exit; where atexit      *)
(* fails pty ends there and then, and nothing resets it: "unset".          *)
RawMode ==
  /\ ppc = "raw"
  /\ tty_raw("parent")
  /\ ppc' \in IF tty' = "raw" THEN {"driver", "unset"} ELSE {"error"}
  /\ atexit' = IF ppc' = "driver" THEN {"parent"} ELSE atexit
  /\ UNCHANGED <<opt, cpc, others, signals, inputs, outputs>>

(* driver.c: standard input and output are a pipe to the driver.           *)
do_driver ==
  /\ ppc = "driver"
  /\ IF opt.driver
     THEN \/ driver' = "running" /\ ppc' = "fork"
          \/ ppc' = "error" /\ UNCHANGED driver
     ELSE ppc' = "fork" /\ UNCHANGED driver
  /\ UNCHANGED <<opt, cpc, cmd, terminal, signals, inputs, outputs>>

(* exit and err_sys run tty_atexit.                                        *)
Exit ==
  /\ ppc \in {"exit", "error"}
  /\ tty_atexit("parent")
  /\ ppc' = IF ppc = "exit" THEN "exited" ELSE "failed"
  /\ UNCHANGED <<opt, cpc, others, atexit, signals, inputs, outputs>>

-----------------------------------------------------------------------------
(* loop.c: the parent                                                      *)

(* The copier inherits the state of the terminal and what exit does.       *)
LoopFork ==
  /\ ppc = "fork"
  /\ \/ /\ ppc' = "install" /\ cpc' = "reading"
        /\ ttystate' = [ttystate EXCEPT !.copier = ttystate.parent]
        /\ atexit' = IF "parent" \in atexit THEN atexit \cup {"copier"} ELSE atexit
     \/ ppc' = "error" /\ UNCHANGED <<cpc, ttystate, atexit>>
  /\ UNCHANGED <<opt, others, tty, signals, inputs, outputs>>

Install ==
  /\ ppc = "install"
  /\ handler' = TRUE
  /\ ppc' = "loop"
  /\ UNCHANGED <<opt, cpc, others, terminal, sigcaught, term, inputs, outputs>>

Read ==
  /\ ppc = "loop" /\ ppc' = "reading"
  /\ UNCHANGED <<opt, cpc, others, terminal, signals, inputs, outputs>>

(* read returns data, or the end when the command has closed the terminal. *)
GotOutput ==
  /\ ppc = "reading"
  /\ \/ output > 0 /\ output' = output - 1 /\ ppc' = "writing"
     \/ output = 0 /\ cmd = "ended" /\ ppc' = "tell" /\ UNCHANGED output
  /\ UNCHANGED <<opt, cpc, others, terminal, signals, inputs, made, shown>>

(* A driver that has ended reads no more.                                  *)
Write ==
  /\ ppc = "writing"
  /\ IF driver = "ended" THEN ppc' = "killed" /\ UNCHANGED shown
     ELSE ppc' = "loop" /\ shown' = shown + 1
  /\ UNCHANGED <<opt, cpc, others, terminal, signals, inputs, made, output>>

(* SIGTERM: before there is a handler it kills; it interrupts a read, and  *)
(* perhaps a write, which then is an error; at other places sig_term only  *)
(* sets the flag.                                                          *)
sig_term ==
  /\ term /\ ppc \notin Gone
  /\ term' = FALSE
  /\ IF handler
     THEN /\ sigcaught' = TRUE
          /\ \/ ppc' = IF ppc = "reading" THEN "tell" ELSE ppc
             \/ ppc = "writing" /\ ppc' = "error"
     ELSE ppc' = "killed" /\ UNCHANGED sigcaught
  /\ UNCHANGED <<opt, cpc, others, terminal, handler, inputs, outputs>>

(* After the loop the copier is killed, unless it sent the signal.         *)
Tell ==
  /\ ppc = "tell"
  /\ cpc' = IF ~sigcaught /\ cpc \notin Gone THEN "killed" ELSE cpc
  /\ ppc' = "exit"
  /\ UNCHANGED <<opt, others, terminal, signals, inputs, outputs>>

(* loop.c: the copier.  A read that fails ends it, and it does not tell    *)
(* the parent, though the comment on sig_term says so.  A write to the     *)
(* terminal of a command that has ended may fail.                          *)
CopierRead ==
  /\ cpc = "reading"
  /\ \/ input > 0 /\ input' = input - 1 /\ cpc' = "writing"
     \/ input = 0 /\ (eof \/ driver = "ended")
        /\ cpc' = (IF opt.ignoreeof THEN "exit" ELSE "notify") /\ UNCHANGED input
     \/ cpc' = "exit" /\ UNCHANGED input
  /\ UNCHANGED <<opt, ppc, others, terminal, signals, eof, typed, sent, outputs>>

CopierWrite ==
  /\ cpc = "writing"
  /\ \/ cpc' = "reading" /\ sent' = sent + 1
     \/ cmd = "ended" /\ cpc' = "exit" /\ UNCHANGED sent
  /\ UNCHANGED <<opt, ppc, others, terminal, signals, input, eof, typed, outputs>>

Notify ==
  /\ cpc = "notify"
  /\ term' = (ppc \notin Gone)
  /\ cpc' = "exit"
  /\ UNCHANGED <<opt, ppc, others, terminal, handler, sigcaught, inputs, outputs>>

(* The exit of the copier resets the terminal too.                         *)
CopierExit ==
  /\ cpc = "exit"
  /\ tty_atexit("copier")
  /\ cpc' = "exited"
  /\ UNCHANGED <<opt, ppc, others, atexit, signals, inputs, outputs>>

-----------------------------------------------------------------------------
(* The user or the driver, and the command                                 *)

Type ==
  /\ typed < MaxInput /\ ~eof /\ driver # "ended"
  /\ input' = input + 1 /\ typed' = typed + 1
  /\ UNCHANGED <<opt, ppc, cpc, others, terminal, signals, eof, sent, outputs>>

Eof ==
  /\ ~eof /\ ~opt.driver
  /\ eof' = TRUE
  /\ UNCHANGED <<opt, ppc, cpc, others, terminal, signals, input, typed, sent, outputs>>

DriverEnds ==
  /\ driver = "running" /\ driver' = "ended"
  /\ UNCHANGED <<opt, ppc, cpc, cmd, terminal, signals, inputs, outputs>>

CommandWrites ==
  /\ cmd = "running" /\ made < MaxOutput
  /\ made' = made + 1 /\ output' = output + 1
  /\ UNCHANGED <<opt, ppc, cpc, others, terminal, signals, inputs, shown>>

CommandEnds ==
  /\ cmd = "running" /\ cmd' = "ended"
  /\ UNCHANGED <<opt, ppc, cpc, driver, terminal, signals, inputs, outputs>>

-----------------------------------------------------------------------------
Init ==
  /\ opt \in Options
  /\ ppc = "start" /\ cpc = "none" /\ cmd = "none" /\ driver = "none"
  /\ tty = "cooked" /\ ttystate = [parent |-> "RESET", copier |-> "RESET"] /\ atexit = {}
  /\ handler = FALSE /\ sigcaught = FALSE /\ term = FALSE
  /\ input = 0 /\ eof = FALSE /\ typed = 0 /\ sent = 0
  /\ made = 0 /\ output = 0 /\ shown = 0

ParentStep ==
  \/ pty_fork \/ RawMode \/ do_driver \/ LoopFork \/ Install \/ Read \/ GotOutput \/ Write
  \/ sig_term \/ Tell \/ Exit
CopierStep == CopierRead \/ CopierWrite \/ Notify \/ CopierExit

Next ==
  \/ ParentStep \/ CopierStep \/ Exec
  \/ Type \/ Eof \/ DriverEnds \/ CommandWrites \/ CommandEnds

Spec == Init /\ [][Next]_vars

(* The two processes run; the user, the driver and the command may stop.   *)
FairSpec == Spec /\ WF_vars(ParentStep) /\ WF_vars(CopierStep)

-----------------------------------------------------------------------------
(* The user gets the terminal back as it was, whichever of the two ends    *)
(* first and how: also where SIGTERM kills the parent before it has its    *)
(* handler; only where atexit fails it is left raw.  And it stays raw      *)
(* while the two copy.                                                     *)
TerminalRestored ==
  /\ ppc \in Gone \ {"unset"} /\ cpc \in Gone \cup {"none"} => tty = "cooked"
  /\ ppc \in {"exited", "failed"} => tty = "cooked"
  /\ atexit # {} /\ ppc \notin Gone /\ cpc \notin Gone => tty = "raw"

(* Everything the command wrote reaches standard output, unless the end of *)
(* the input ended pty first; with -i it never does.                       *)
OutputComplete ==
  /\ ppc = "exited" /\ ~sigcaught => cmd = "ended" /\ shown = made
  /\ opt.ignoreeof => ~sigcaught

(* When the command has ended pty ends, and leaves no copier behind unless *)
(* the parent failed.                                                      *)
Busy ==
  /\ cmd = "ended"
  /\ ppc \notin Gone \/ (ppc = "exited" /\ cpc \notin Gone \cup {"none"})
PtyEnds == Busy ~> ~Busy

=============================================================================
