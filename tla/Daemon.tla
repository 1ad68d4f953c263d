------------------------------- MODULE Daemon -------------------------------
(***************************************************************************)
(* The daemons of apue.3e/daemons: copies of reread.c ("thread") and of    *)
(* reread2.c ("handlers") that become daemons (lib/daemonize.c), of which  *)
(* one may run (single.c, advio/lockfile.c), and the signals they get.     *)
(***************************************************************************)
EXTENDS Integers, Sequences, FiniteSets

CONSTANTS
  Daemons,
  Builds,      \* of "thread" and "handlers"
  MaxStarts,   \* bound on how often copies are started
  MaxSignals   \* bound on the signals sent

VARIABLES
  build, pc,
  disp,        \* what each copy does with HUP and TERM: "dfl", "ign", "handler"
  blocked,     \* its signals are blocked
  pending,
  stack,       \* the handlers that run, the last on top, and how far they are
  logging,     \* the lock of syslog is held
  owner,       \* who has the lock on LOCKFILE, or "none"
  pidfile,     \* what is in it: "empty" or a copy
  reread,      \* the last SIGHUP has been acted upon
  killer,      \* what killed the copy, and where: <<signal, pc>>
  starts, signals

lock == <<owner, pidfile>>
handling == <<disp, blocked, pending, stack, logging, reread>>
vars == <<build, pc, handling, lock, killer, starts, signals>>

Signos == {"HUP", "TERM"}
Gone == {"none", "exited", "killed"}
Alive(d) == pc[d] \notin Gone
Running(d) == pc[d] = "run"
At(d, here) == pc[d] = here /\ stack[d] = <<>>
Goto(d, there) == pc' = [pc EXCEPT ![d] = there]
Unlocked(d) == owner' = IF owner = d THEN "none" ELSE owner

(* The end of a process gives up its lock; the file stays as it is.        *)
Ends(d, how) ==
  /\ Goto(d, how) /\ Unlocked(d)
  /\ UNCHANGED pidfile

-----------------------------------------------------------------------------
(* lib/daemonize.c.  A child starts with no signal pending.                *)

Fork(d, here, there) ==
  /\ At(d, here)
  /\ \/ Goto(d, there) /\ pending' = [pending EXCEPT ![d] = {}]
     \/ Goto(d, "exited") /\ UNCHANGED pending
  /\ UNCHANGED <<build, disp, blocked, stack, logging, reread, lock, killer, starts, signals>>

Action(d, here, there, signo, what) ==
  /\ At(d, here) /\ Goto(d, there)
  /\ disp' = [disp EXCEPT ![d][signo] = what]
  /\ pending' = IF what = "ign" THEN [pending EXCEPT ![d] = @ \ {signo}] ELSE pending
  /\ UNCHANGED <<build, blocked, stack, logging, reread, lock, killer, starts, signals>>

IgnoreHup(d) == Action(d, "setsid", "fork", "HUP", "ign")

(* All descriptors are closed, and 0, 1 and 2 have to be /dev/null.        *)
Attach(d) ==
  /\ At(d, "attach")
  /\ Goto(d, "lock") \/ Goto(d, "exited")
  /\ UNCHANGED <<build, handling, lock, killer, starts, signals>>

daemonize(d) ==
  \/ Fork(d, "start", "setsid") \/ IgnoreHup(d) \/ Fork(d, "fork", "attach") \/ Attach(d)

-----------------------------------------------------------------------------
(* single.c: already_running                                               *)

\* Mutant: the answer of lockfile is not looked at.
LockUnchecked(d) ==
  /\ At(d, "lock")
  /\ owner' = IF owner = "none" THEN d ELSE owner
  /\ Goto(d, "truncate")
  /\ UNCHANGED <<build, handling, pidfile, killer, starts, signals>>

(* lockfile: F_SETLK, which does not wait                                  *)
Lock(d) ==
  /\ At(d, "lock")
  /\ IF owner = "none" THEN owner' = d /\ Goto(d, "truncate")
     ELSE Goto(d, "exited") /\ UNCHANGED owner
  /\ UNCHANGED <<build, handling, pidfile, killer, starts, signals>>

Truncate(d) ==
  /\ At(d, "truncate") /\ Goto(d, "write")
  /\ pidfile' = "empty"
  /\ UNCHANGED <<build, handling, owner, killer, starts, signals>>

WritePid(d) ==
  /\ At(d, "write") /\ Goto(d, IF build[d] = "thread" THEN "restore" ELSE "sigterm")
  /\ pidfile' = d
  /\ UNCHANGED <<build, handling, owner, killer, starts, signals>>

already_running(d) == Lock(d) \/ Truncate(d) \/ WritePid(d)

-----------------------------------------------------------------------------
(* reread.c: SIGHUP back to its default, all signals blocked, and a thread *)
(* that waits for them, or the end where no thread can be made             *)

RestoreHup(d) == Action(d, "restore", "block", "HUP", "dfl")

Block(d) ==
  /\ At(d, "block") /\ Goto(d, "create")
  /\ blocked' = [blocked EXCEPT ![d] = TRUE]
  /\ UNCHANGED <<build, disp, pending, stack, logging, reread, lock, killer, starts, signals>>

Create(d) ==
  /\ At(d, "create")
  /\ \/ Goto(d, "run") /\ UNCHANGED lock
     \/ Ends(d, "exited")
  /\ UNCHANGED <<build, handling, killer, starts, signals>>

(* thr_fn: sigwait takes one signal.                                       *)
thr_fn(d, signo) ==
  /\ build[d] = "thread" /\ Running(d) /\ signo \in pending[d]
  /\ pending' = [pending EXCEPT ![d] = @ \ {signo}]
  /\ IF signo = "HUP"
     THEN reread' = [reread EXCEPT ![d] = TRUE] /\ UNCHANGED <<pc, lock>>
     ELSE Ends(d, "exited") /\ UNCHANGED reread
  /\ UNCHANGED <<build, disp, blocked, stack, logging, killer, starts, signals>>

-----------------------------------------------------------------------------
(* reread2.c: a handler for each of the two, which keeps the other away    *)

CatchTerm(d) == Action(d, "sigterm", "sighup", "TERM", "handler")
CatchHup(d) == Action(d, "sighup", "run", "HUP", "handler")

Masked(d) == IF stack[d] = <<>> THEN {} ELSE Signos

(* Each handler first writes to the log, which it can not do while the one *)
(* below it does.                                                          *)
Handling(d) == Alive(d) /\ stack[d] # <<>>
Top(d) == stack[d][Len(stack[d])]
LogStart(d) ==
  /\ Handling(d) /\ Top(d).at = "start" /\ ~logging[d]
  /\ logging' = [logging EXCEPT ![d] = TRUE]
  /\ stack' = [stack EXCEPT ![d][Len(stack[d])].at = "logging"]
  /\ UNCHANGED <<build, pc, disp, blocked, pending, reread, lock, killer, starts, signals>>

Act(d) ==
  /\ Handling(d) /\ Top(d).at = "logging"
  /\ logging' = [logging EXCEPT ![d] = FALSE]
  /\ stack' = [stack EXCEPT ![d] = SubSeq(@, 1, Len(@) - 1)]
  /\ IF Top(d).of = "HUP"
     THEN reread' = [reread EXCEPT ![d] = TRUE] /\ UNCHANGED <<pc, lock>>
     ELSE Ends(d, "exited") /\ UNCHANGED reread
  /\ UNCHANGED <<build, disp, blocked, pending, killer, starts, signals>>

-----------------------------------------------------------------------------
(* Signals and starts                                                      *)

Deliver(d, signo) ==
  /\ Alive(d) /\ signo \in pending[d] /\ ~blocked[d] /\ signo \notin Masked(d)
  /\ pending' = [pending EXCEPT ![d] = @ \ {signo}]
  /\ IF disp[d][signo] = "dfl"
     THEN /\ Ends(d, "killed") /\ killer' = [killer EXCEPT ![d] = <<signo, pc[d]>>]
          /\ UNCHANGED stack
     ELSE /\ stack' = [stack EXCEPT ![d] = Append(@, [of |-> signo, at |-> "start"])]
          /\ UNCHANGED <<pc, lock, killer>>
  /\ UNCHANGED <<build, disp, blocked, logging, reread, starts, signals>>

Send(d, signo) ==
  /\ Alive(d) /\ signals < MaxSignals /\ signals' = signals + 1
  /\ pending' = IF disp[d][signo] = "ign" THEN pending ELSE [pending EXCEPT ![d] = @ \cup {signo}]
  /\ reread' = [reread EXCEPT ![d] = @ /\ signo # "HUP"]
  /\ UNCHANGED <<build, pc, disp, blocked, stack, logging, lock, killer, starts>>

Kill(d) ==
  /\ Alive(d) /\ signals < MaxSignals /\ signals' = signals + 1
  /\ Ends(d, "killed") /\ killer' = [killer EXCEPT ![d] = <<"KILL", pc[d]>>]
  /\ UNCHANGED <<build, handling, starts>>

Fresh(d) ==
  /\ disp' = [disp EXCEPT ![d] = [signo \in Signos |-> "dfl"]]
  /\ blocked' = [blocked EXCEPT ![d] = FALSE] /\ pending' = [pending EXCEPT ![d] = {}]
  /\ stack' = [stack EXCEPT ![d] = <<>>] /\ logging' = [logging EXCEPT ![d] = FALSE]
  /\ reread' = [reread EXCEPT ![d] = TRUE] /\ killer' = [killer EXCEPT ![d] = <<>>]

Start(d) ==
  /\ ~Alive(d) /\ starts < MaxStarts /\ starts' = starts + 1
  /\ Goto(d, "start") /\ Fresh(d)
  /\ UNCHANGED <<build, lock, signals>>

-----------------------------------------------------------------------------
Init ==
  /\ build \in [Daemons -> Builds]
  /\ pc = [d \in Daemons |-> "none"]
  /\ disp = [d \in Daemons |-> [signo \in Signos |-> "dfl"]]
  /\ blocked = [d \in Daemons |-> FALSE] /\ pending = [d \in Daemons |-> {}]
  /\ stack = [d \in Daemons |-> <<>>] /\ logging = [d \in Daemons |-> FALSE]
  /\ reread = [d \in Daemons |-> TRUE] /\ killer = [d \in Daemons |-> <<>>]
  /\ owner = "none" /\ pidfile = "empty" /\ starts = 0 /\ signals = 0

Step(d) ==
  \/ daemonize(d) \/ already_running(d)
  \/ RestoreHup(d) \/ Block(d) \/ Create(d) \/ (\E signo \in Signos : thr_fn(d, signo))
  \/ CatchTerm(d) \/ CatchHup(d) \/ LogStart(d) \/ Act(d)
  \/ \E signo \in Signos : Deliver(d, signo)

Next ==
  \E d \in Daemons : Step(d) \/ Start(d) \/ Kill(d) \/ \E signo \in Signos : Send(d, signo)

Spec == Init /\ [][Next]_vars

FairSpec == Spec /\ \A d \in Daemons : WF_vars(Step(d))

-----------------------------------------------------------------------------
(* At most one copy is past already_running, and the file says which, also *)
(* after others were killed anywhere; and SIGHUP ends no copy that runs,   *)
(* nor one that still ignores it: for reread.c it does between the restored*)
(* default and the blocked signals.                                        *)
Past(d) == pc[d] \in {"truncate", "write", "restore", "block", "create", "sigterm", "sighup", "run"}
OneDaemon ==
  /\ \A d, e \in Daemons : Past(d) /\ Past(e) => d = e
  /\ \A d \in Daemons : Running(d) => pidfile = d
  /\ \A d \in Daemons : killer[d] # <<>> /\ killer[d][1] = "HUP" => killer[d][2] \in {"start", "setsid", "block"}

(* A copy that runs acts upon each signal.                                 *)
Has(d, signo) == signo \in pending[d] \/ \E n \in DOMAIN stack[d] : stack[d][n].of = signo
Busy(d, signo) == Running(d) /\ Has(d, signo) /\ (signo = "HUP" => ~reread[d])
SignalsActed == \A d \in Daemons, signo \in Signos : Busy(d, signo) ~> ~Busy(d, signo)

=============================================================================
