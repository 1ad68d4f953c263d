------------------------------ MODULE Timeout -------------------------------
(***************************************************************************)
(* apue.3e/threadctl/timeout.c: a function that is called at a given time  *)
(* by a detached thread (detach.c), or at once when that cannot be done.   *)
(* The function takes a mutex that the caller of timeout may hold.         *)
(***************************************************************************)
EXTENDS Integers

CONSTANTS SECTONSEC,      \* the parts of a second
          Delay,          \* seconds until the retry
          MaxTime         \* bound on the clock

VARIABLES
  now,                    \* CLOCK_REALTIME, in parts of a second
  main, helper,
  owner, depth,           \* of mutex
  when,                   \* when to retry
  to_wait,                \* of the to_info, a second and its parts
  wake,                   \* until when the helper sleeps
  tips, calls             \* to_info structures allocated; calls of retry

vars == <<now, main, helper, owner, depth, when, to_wait, wake, tips, calls>>

Time(n) == [sec |-> n \div SECTONSEC, nsec |-> n % SECTONSEC]
Parts(t) == t.sec * SECTONSEC + t.nsec
Later(t, u) == t.sec > u.sec \/ (t.sec = u.sec /\ t.nsec > u.nsec)
Running == main # "exited"

-----------------------------------------------------------------------------
(* mutex is recursive: its owner may take it again.                        *)
CanLock(p) == owner \in {"none", p}
Lock(p) == CanLock(p) /\ owner' = p /\ depth' = depth + 1
Unlock(p) == depth' = depth - 1 /\ owner' = IF depth = 1 THEN "none" ELSE p

MainLock ==
  /\ main = "lock" /\ Lock("main") /\ main' = "check"
  /\ UNCHANGED <<now, helper, when, to_wait, wake, tips, calls>>

(* condition is never given a value.                                       *)
Check ==
  /\ main = "check"
  /\ \/ main' = "timeout" /\ when' = Time(now + Delay * SECTONSEC)
     \/ main' = "unlock" /\ UNCHANGED when
  /\ UNCHANGED <<now, helper, owner, depth, to_wait, wake, tips, calls>>

(* The difference of two times, with a second taken for the parts.         *)
Difference(t, u) ==
  IF t.nsec >= u.nsec
  THEN [sec |-> t.sec - u.sec, nsec |-> t.nsec - u.nsec]
  ELSE [sec |-> t.sec - u.sec - 1, nsec |-> SECTONSEC - u.nsec + t.nsec]

(* malloc fails, or the time has come: the function is called now.         *)
timeout ==
  /\ main = "timeout"
  /\ \/ main' = "call" /\ UNCHANGED <<to_wait, tips>>
     \/ /\ Later(when, Time(now)) /\ main' = "makethread"
        /\ tips' = tips + 1 /\ to_wait' = Difference(when, Time(now))
  /\ UNCHANGED <<now, helper, owner, depth, when, wake, calls>>

(* The thread is made, and may be slow to start; or it is not.             *)
makethread ==
  /\ main = "makethread"
  /\ \/ main' = "unlock" /\ helper' = "start" /\ UNCHANGED tips
     \/ main' = "call" /\ tips' = tips - 1 /\ UNCHANGED helper
  /\ UNCHANGED <<now, owner, depth, when, to_wait, wake, calls>>

retry ==
  /\ \/ main = "call" /\ Lock("main") /\ main' = "called" /\ calls' = calls + 1
     \/ main = "called" /\ Unlock("main") /\ main' = "unlock" /\ UNCHANGED calls
  /\ UNCHANGED <<now, helper, when, to_wait, wake, tips>>

MainUnlock ==
  /\ main = "unlock" /\ Unlock("main") /\ main' = "exit"
  /\ UNCHANGED <<now, helper, when, to_wait, wake, tips, calls>>

(* The end of the process is the end of its threads.                       *)
Exit ==
  /\ main = "exit" /\ main' = "exited"
  /\ UNCHANGED <<now, helper, owner, depth, when, to_wait, wake, tips, calls>>

timeout_helper ==
  /\ Running
  /\ \/ /\ helper = "start" /\ helper' = "sleep" /\ wake' = now + Parts(to_wait)
        /\ UNCHANGED <<owner, depth, tips, calls>>
     \/ /\ helper = "sleep" /\ now >= wake /\ Lock("helper") /\ helper' = "called"
        /\ calls' = calls + 1 /\ UNCHANGED <<wake, tips>>
     \/ /\ helper = "called" /\ Unlock("helper") /\ helper' = "free" /\ UNCHANGED <<wake, tips, calls>>
     \/ /\ helper = "free" /\ tips' = tips - 1 /\ helper' = "returned"
        /\ UNCHANGED <<owner, depth, wake, calls>>
  /\ UNCHANGED <<now, main, when, to_wait>>

Tick ==
  /\ Running /\ now < MaxTime /\ now' = now + 1
  /\ UNCHANGED <<main, helper, owner, depth, when, to_wait, wake, tips, calls>>

-----------------------------------------------------------------------------
Init ==
  /\ now \in 0 .. SECTONSEC - 1 /\ main = "lock" /\ helper = "none" /\ owner = "none" /\ depth = 0
  /\ when = Time(0) /\ to_wait = Time(0) /\ wake = 0 /\ tips = 0 /\ calls = 0

MainStep == MainLock \/ Check \/ timeout \/ makethread \/ retry \/ MainUnlock \/ Exit

Next == MainStep \/ timeout_helper \/ Tick

Spec == Init /\ [][Next]_vars

FairSpec == Spec /\ WF_vars(MainStep) /\ WF_vars(timeout_helper)

-----------------------------------------------------------------------------
(* The function is called once at most, by the helper not before its time; *)
(* the wait has fewer parts than a second has and is not longer than asked *)
(* for; and what was allocated is freed once.                              *)
RetryOnce ==
  /\ calls <= 1 /\ (helper # "none" => main # "call")
  /\ (main = "exited" /\ when # Time(0) /\ helper = "none" => calls = 1)
  /\ (helper \in {"called", "free", "returned"} => now >= Parts(when))
  /\ to_wait.sec >= 0 /\ to_wait.nsec \in 0 .. SECTONSEC - 1
  /\ Parts(to_wait) <= Delay * SECTONSEC
  /\ tips = (IF main = "makethread" \/ helper \in {"start", "sleep", "called", "free"} THEN 1 ELSE 0)

(* The caller comes out of timeout although it holds the mutex.            *)
Busy == depth > 0 /\ main \notin {"exited", "lock"}

=============================================================================
