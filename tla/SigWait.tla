------------------------------ MODULE SigWait -------------------------------
(***************************************************************************)
(* apue.3e/threadctl/suspend.c: all signals are blocked, one thread takes  *)
(* them with sigwait, and the main thread waits for its flag under a lock. *)
(***************************************************************************)
EXTENDS Integers

CONSTANTS MaxSignals      \* bound on the signals that are sent

VARIABLES
  main, thread,           \* where the two threads are
  lock,                   \* its owner, or "none"
  quitflag, waiting,      \* waiting: main is in pthread_cond_wait
  blocked,                \* whether SIGINT and SIGQUIT are blocked
  pending, sent, quits    \* quits: SIGQUITs that sigwait has returned

vars == <<main, thread, lock, quitflag, waiting, blocked, pending, sent, quits>>

Ended == main \in {"exited", "killed"}
Running == ~Ended

-----------------------------------------------------------------------------
(* The thread                                                              *)

Sigwait ==
  /\ Running /\ thread = "sigwait"
  /\ \E s \in pending :
       /\ pending' = pending \ {s}
       /\ thread' = IF s = "QUIT" THEN "lock" ELSE "sigwait"
       /\ quits' = IF s = "QUIT" THEN quits + 1 ELSE quits
  /\ UNCHANGED <<main, lock, quitflag, waiting, blocked, sent>>

SetFlag ==
  /\ Running
  /\ \/ /\ thread = "lock" /\ lock = "none"
        /\ thread' = "unlock" /\ lock' = "thread" /\ quitflag' = 1
     \/ /\ thread = "unlock"
        /\ thread' = "signal" /\ lock' = "none" /\ UNCHANGED quitflag
  /\ UNCHANGED <<main, waiting, blocked, pending, sent, quits>>

CondSignal ==
  /\ Running /\ thread = "signal" /\ thread' = "returned" /\ waiting' = FALSE
  /\ UNCHANGED <<main, lock, quitflag, blocked, pending, sent, quits>>

-----------------------------------------------------------------------------
(* The main thread                                                         *)

BlockAndCreate ==
  /\ \/ main = "mask" /\ main' = "create" /\ blocked' = TRUE /\ UNCHANGED thread
     \/ main = "create" /\ main' = "lock" /\ thread' = "sigwait" /\ UNCHANGED blocked
  /\ UNCHANGED <<lock, quitflag, waiting, pending, sent, quits>>

MainLock ==
  /\ main = "lock" /\ ~waiting /\ lock = "none" /\ main' = "test" /\ lock' = "main"
  /\ UNCHANGED <<thread, quitflag, waiting, blocked, pending, sent, quits>>

(* pthread_cond_wait gives up the lock and waits in one step, and takes    *)
(* the lock again; it may also return for no reason.                       *)
Test ==
  /\ main = "test" /\ lock' = "none"
  /\ IF quitflag = 0
     THEN main' = "lock" /\ waiting' = TRUE
     ELSE main' = "clear" /\ UNCHANGED waiting
  /\ UNCHANGED <<thread, quitflag, blocked, pending, sent, quits>>

Spurious ==
  /\ Running /\ waiting /\ waiting' = FALSE
  /\ UNCHANGED <<main, thread, lock, quitflag, blocked, pending, sent, quits>>

(* The old mask lets a signal through that came meanwhile, and its action  *)
(* is the default one.                                                     *)
Clear ==
  /\ main = "clear" /\ main' = "unmask" /\ quitflag' = 0
  /\ UNCHANGED <<thread, lock, waiting, blocked, pending, sent, quits>>

Unmask ==
  /\ main = "unmask" /\ blocked' = FALSE
  /\ main' = IF pending = {} THEN "exit" ELSE "killed"
  /\ UNCHANGED <<thread, lock, quitflag, waiting, pending, sent, quits>>

Exit ==
  /\ main = "exit" /\ main' = "exited"
  /\ UNCHANGED <<thread, lock, quitflag, waiting, blocked, pending, sent, quits>>

-----------------------------------------------------------------------------
(* The user types the interrupt or the quit character.                     *)
Send(s) ==
  /\ Running /\ sent < MaxSignals /\ sent' = sent + 1
  /\ IF blocked THEN pending' = pending \cup {s} /\ UNCHANGED main
     ELSE main' = "killed" /\ UNCHANGED pending
  /\ UNCHANGED <<thread, lock, quitflag, waiting, blocked, quits>>

Init ==
  /\ main = "mask" /\ thread = "none" /\ lock = "none" /\ quitflag = 0 /\ waiting = FALSE
  /\ blocked = FALSE /\ pending = {} /\ sent = 0 /\ quits = 0

MainStep == BlockAndCreate \/ MainLock \/ Test \/ Clear \/ Unmask \/ Exit
ThreadStep == Sigwait \/ SetFlag \/ CondSignal

Next == MainStep \/ ThreadStep \/ Spurious \/ \E s \in {"INT", "QUIT"} : Send(s)

Spec == Init /\ [][Next]_vars

(* Both threads run, and the thread gets a lock that is free again and     *)
(* again though main may wake up for no reason each time.                  *)
FairSpec == Spec /\ WF_vars(MainStep) /\ SF_vars(ThreadStep)

-----------------------------------------------------------------------------
(* No signal ends the program while it works, an interrupt does not end    *)
(* the wait, and a quit does; the flag is clear again at the end.          *)
QuitEndsWait ==
  /\ main \in {"clear", "unmask", "exit", "exited"} => quits = 1
  /\ main \in {"create", "lock", "test", "clear", "unmask"} => blocked
  /\ main \in {"exit", "exited"} => quitflag = 0

(* The quit that sigwait has taken ends the wait; its wakeup is not lost.  *)
Busy == Running /\ quits > 0

=============================================================================
