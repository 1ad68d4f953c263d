------------------------------ MODULE Signals -------------------------------
(***************************************************************************)
(* The signal programs of apue.3e/signals and the sleep of apue.3e/lib.    *)
(* A program, a function it calls and a handler are sequences of           *)
(* instructions, one for each call whose place among the others matters;   *)
(* signals arrive between any two of them.  A process is a stack of        *)
(* frames, the last of which runs.                                         *)
(***************************************************************************)
EXTENDS Integers, Sequences

CONSTANTS
  Programs,     \* the programs to run
  MaxSignals    \* bound on the signals that others send

VARIABLES
  program,
  frames,       \* the code each call or handler runs, its place in it, whether
                \* it sleeps there, and the mask its return restores
  disp,         \* "dfl", "ign" or the name of a handler
  mask, pending,
  old, oldmask, \* what sigaction and sigprocmask gave back
  alarmed, jmpbuf, flag,
  child,        \* "none", "running", "ended", "reaped"
  ending,       \* "none", "stop", or what ended the process: "exit", "error", a signal
  sent          \* the signals others sent, in their order

kernel == <<disp, mask, pending, alarmed>>
vars == <<program, frames, kernel, old, oldmask, jmpbuf, flag, child, ending, sent>>

Signos == {"ALRM", "INT", "QUIT", "USR1", "TSTP", "CHLD", "ABRT"}

-----------------------------------------------------------------------------
(* The code.  "swap" and "block" keep the old value, "restore" and         *)
(* "resetmask" set it again.  A sleep of the caller is "work".             *)

signal(sig, h) == <<"catch", sig, h>>

sleep1 == <<signal("ALRM", "returns"), <<"alarm">>, <<"pause">>, <<"noalarm">>>>

(* setjmp returns a second time at the call of alarm(0).                   *)
sleep2 == <<signal("ALRM", "sleep2_alrm"), <<"setjmp", 5>>, <<"alarm">>, <<"pause">>, <<"noalarm">>>>
sleep2_alrm == <<<<"longjmp">>>>

\* Mutant: the alarm is set before SIGALRM is blocked.
sleep_open ==
  <<<<"swap", "ALRM", "returns">>, <<"alarm">>, <<"block", {"ALRM"}>>, <<"sigsuspend", {}>>,
    <<"noalarm">>, <<"restore", "ALRM">>, <<"resetmask">>>>

sleep ==
  <<<<"swap", "ALRM", "returns">>, <<"block", {"ALRM"}>>, <<"alarm">>, <<"sigsuspend", {}>>,
    <<"noalarm">>, <<"restore", "ALRM">>, <<"resetmask">>>>

(* Two callers: with a handler of their own for SIGALRM, and without       *)
sleeper == <<signal("INT", "returns"), signal("ALRM", "own"), <<"call", "sleep">>, <<"work">>, <<"exit">>>>
sleeper_dfl == <<signal("INT", "returns"), <<"call", "sleep">>, <<"work">>, <<"exit">>>>

tsleep2 == <<signal("INT", "sig_int"), <<"call", "sleep2">>, <<"work">>, <<"exit">>>>
sig_int == <<<<"work">>, <<"work">>>>

read1 == <<signal("ALRM", "returns"), <<"alarm">>, <<"read">>, <<"noalarm">>, <<"exit">>>>

(* After the second return of setjmp comes err_quit.                       *)
read2 ==
  <<signal("ALRM", "sleep2_alrm"), <<"setjmp", 6>>, <<"alarm">>, <<"read">>, <<"goto", 7>>,
    <<"error">>, <<"noalarm">>, <<"exit">>>>

suspend1 ==
  <<signal("INT", "returns"), <<"block", {"INT"}>>, <<"work">>, <<"sigsuspend", {"USR1"}>>,
    <<"work">>, <<"resetmask">>, <<"work">>, <<"exit">>>>

suspend2 ==
  <<signal("INT", "returns"), signal("QUIT", "quitflag"), <<"block", {"QUIT"}>>,
    <<"test", 6>>, <<"again", {}>>, <<"flag", FALSE>>, <<"resetmask">>, <<"exit">>>>
quitflag == <<<<"flag", TRUE>>>>

critical ==
  <<signal("QUIT", "sig_quit"), <<"block", {"QUIT"}>>, <<"work">>, <<"resetmask">>,
    <<"work">>, <<"exit">>>>
sig_quit == <<signal("QUIT", "dfl")>>

(* abort for a caller that ignores, catches or leaves alone SIGABRT.  The  *)
(* second action is set after the handler has returned.                    *)
\* Mutant: the second action is not the default.
abort_caught ==
  <<<<"notign", "ABRT">>, <<"setmask", Signos \ {"ABRT"}>>, <<"kill", "ABRT">>,
    <<"setmask", Signos \ {"ABRT"}>>, <<"kill", "ABRT">>, <<"exit">>>>

abort ==
  <<<<"notign", "ABRT">>, <<"setmask", Signos \ {"ABRT"}>>, <<"kill", "ABRT">>,
    signal("ABRT", "dfl"), <<"setmask", Signos \ {"ABRT"}>>, <<"kill", "ABRT">>, <<"exit">>>>
abort_ign == <<signal("ABRT", "ign"), <<"block", {"ABRT"}>>, <<"call", "abort">>>>
abort_catch == <<signal("ABRT", "returns"), <<"call", "abort">>>>
abort_dfl == <<<<"work">>, <<"call", "abort">>>>

mask_main ==
  <<signal("USR1", "sig_usr1"), signal("ALRM", "returns"), <<"sigsetjmp", 6>>, <<"flag", TRUE>>,
    <<"pauses">>, <<"work">>, <<"exit">>>>
sig_usr1 == <<<<"test", 3>>, <<"return">>, <<"alarm">>, <<"work">>, <<"flag", FALSE>>, <<"siglongjmp">>>>

sigtstp == <<signal("TSTP", "ign"), signal("TSTP", "sig_tstp"), <<"read">>, <<"exit">>>>
sig_tstp ==
  <<<<"unblock", {"TSTP"}>>, signal("TSTP", "dfl"), <<"kill", "TSTP">>, signal("TSTP", "sig_tstp")>>

system ==
  <<<<"swap", "INT", "ign">>, <<"swap", "QUIT", "ign">>, <<"block", {"CHLD"}>>, <<"fork">>,
    <<"waitpid">>, <<"restore", "INT">>, <<"restore", "QUIT">>, <<"resetmask">>>>
systest2 ==
  <<signal("INT", "returns"), signal("CHLD", "returns"), <<"call", "system">>, <<"work">>, <<"exit">>>>

child_main == <<signal("CHLD", "sig_cld"), <<"fork">>, <<"pause">>, <<"exit">>>>
sig_cld == <<signal("CHLD", "sig_cld"), <<"waitpid">>>>

Code ==
  [sleep1 |-> sleep1, sleep2 |-> sleep2, sleep2_alrm |-> sleep2_alrm, sleep |-> sleep,
   sleeper |-> sleeper, sleeper_dfl |-> sleeper_dfl, tsleep2 |-> tsleep2, sig_int |-> sig_int,
   read1 |-> read1, read2 |-> read2, suspend1 |-> suspend1, suspend2 |-> suspend2,
   quitflag |-> quitflag, critical |-> critical, sig_quit |-> sig_quit, abort |-> abort,
   abort_ign |-> abort_ign, abort_catch |-> abort_catch, abort_dfl |-> abort_dfl, mask |-> mask_main,
   sig_usr1 |-> sig_usr1, sigtstp |-> sigtstp, sig_tstp |-> sig_tstp, system |-> system,
   systest2 |-> systest2, child |-> child_main, sig_cld |-> sig_cld,
   returns |-> <<>>, own |-> <<>>, err_sys |-> <<<<"error">>>>]

(* What others send: the terminal, and who uses kill                       *)
Sent ==
  CASE program \in {"sleeper", "sleeper_dfl", "tsleep2", "suspend1"} -> {"INT"}
    [] program \in {"suspend2", "systest2"} -> {"INT", "QUIT"}
    [] program = "critical" -> {"QUIT"}
    [] program = "mask" -> {"USR1"}
    [] program = "sigtstp" -> {"TSTP"}
    [] OTHER -> {}

-----------------------------------------------------------------------------
Depth == Len(frames)
Top == frames[Depth]
Running == ending = "none" /\ frames # <<>>
Returning == Running /\ Top.at > Len(Code[Top.run])
Instr == IF Running /\ ~Returning THEN Code[Top.run][Top.at] ELSE <<"none">>
Op(what) == Instr[1] = what
Frame(code, keep) == [run |-> code, at |-> 1, asleep |-> FALSE, keep |-> keep]
At(n) == [frames EXCEPT ![Depth].at = n, ![Depth].asleep = FALSE]
Onward == frames' = At(Top.at + 1)
Ends(how) == ending' = how /\ UNCHANGED frames

(* The mask in force: sigsuspend sleeps with its argument.                 *)
Suspended == Top.asleep /\ Instr[1] \in {"sigsuspend", "again"}
InForce == IF Suspended THEN Instr[2] ELSE mask

(* What sleeps until a handler has run, and what goes on sleeping          *)
Woken ==
  IF Top.asleep /\ Op("again") THEN At(Top.at - 1)
  ELSE IF Top.asleep /\ Instr[1] \in {"pause", "sigsuspend"} THEN At(Top.at + 1) ELSE frames

(* A read that SIGALRM interrupts fails; for other signals it is restarted *)
(* (lib/signal.c), as waitpid is by its loop.                              *)
Interrupts(sig) == Top.asleep /\ Op("read") /\ sig = "ALRM"

(* A signal is acted upon: the process ends or stops, or a handler runs    *)
(* with the signal blocked.                                                *)
Deliver(sig, back) ==
  CASE disp[sig] = "ign" \/ (disp[sig] = "dfl" /\ sig = "CHLD") ->
         frames' = back /\ UNCHANGED <<mask, ending>>
    [] disp[sig] = "dfl" /\ sig # "CHLD" ->
         /\ ending' = IF sig = "TSTP" THEN "stop" ELSE sig
         /\ frames' = back /\ UNCHANGED mask
    [] OTHER ->
         /\ frames' = Append(IF Interrupts(sig) THEN [back EXCEPT ![Depth] = Frame("err_sys", <<>>)]
                             ELSE back, Frame(disp[sig], <<mask>>))
         /\ mask' = InForce \cup {sig}
         /\ UNCHANGED ending

Handle(sig) ==
  /\ Running /\ sig \in pending \ InForce
  /\ pending' = pending \ {sig}
  /\ Deliver(sig, IF disp[sig] \in {"dfl", "ign"} THEN frames ELSE Woken)
  /\ UNCHANGED <<program, disp, alarmed, old, oldmask, jmpbuf, flag, child, sent>>

-----------------------------------------------------------------------------
(* The instructions                                                        *)

Disposition ==
  /\ Instr[1] \in {"catch", "swap", "restore", "notign"}
  /\ LET sig == Instr[2] IN
     /\ disp' = [disp EXCEPT ![sig] = CASE Instr[1] \in {"catch", "swap"} -> Instr[3]
                                        [] Op("restore") -> old[sig]
                                        [] Op("notign") -> IF @ = "ign" THEN "dfl" ELSE @]
     /\ old' = IF Op("swap") THEN [old EXCEPT ![sig] = disp[sig]] ELSE old
     /\ pending' = IF disp'[sig] = "ign" THEN pending \ {sig} ELSE pending
  /\ Onward
  /\ UNCHANGED <<program, mask, alarmed, oldmask, jmpbuf, flag, child, ending, sent>>

SetMask ==
  /\ Instr[1] \in {"block", "unblock", "setmask", "resetmask"}
  /\ mask' = CASE Op("block") -> mask \cup Instr[2]
               [] Op("unblock") -> mask \ Instr[2]
               [] Op("setmask") -> Instr[2]
               [] Op("resetmask") -> oldmask
  /\ oldmask' = IF Op("block") THEN mask ELSE oldmask
  /\ Onward
  /\ UNCHANGED <<program, disp, pending, alarmed, old, jmpbuf, flag, child, ending, sent>>

Alarm ==
  /\ Instr[1] \in {"alarm", "noalarm"}
  /\ alarmed' = Op("alarm")
  /\ Onward
  /\ UNCHANGED <<program, disp, mask, pending, old, oldmask, jmpbuf, flag, child, ending, sent>>

FallAsleep ==
  /\ Instr[1] \in {"pause", "pauses", "sigsuspend", "again", "read", "waitpid"} /\ ~Top.asleep
  /\ frames' = [frames EXCEPT ![Depth].asleep = TRUE]
  /\ UNCHANGED <<program, kernel, old, oldmask, jmpbuf, flag, child, ending, sent>>

Input ==
  /\ Op("read") /\ Top.asleep
  /\ Onward
  /\ UNCHANGED <<program, kernel, old, oldmask, jmpbuf, flag, child, ending, sent>>

Reap ==
  /\ Op("waitpid") /\ Top.asleep /\ child # "running"
  /\ child' = "reaped"
  /\ Onward
  /\ UNCHANGED <<program, kernel, old, oldmask, jmpbuf, flag, ending, sent>>

Jump ==
  /\ Instr[1] \in {"setjmp", "sigsetjmp", "longjmp", "siglongjmp", "goto"}
  /\ CASE Instr[1] \in {"setjmp", "sigsetjmp"} ->
            jmpbuf' = [depth |-> Depth, at |-> Instr[2], mask |-> mask] /\ Onward /\ UNCHANGED mask
       [] Instr[1] \in {"longjmp", "siglongjmp"} ->
            /\ frames' = SubSeq([frames EXCEPT ![jmpbuf.depth].at = jmpbuf.at,
                                               ![jmpbuf.depth].asleep = FALSE], 1, jmpbuf.depth)
            /\ mask' = IF Op("siglongjmp") THEN jmpbuf.mask ELSE mask
            /\ UNCHANGED jmpbuf
       [] Op("goto") -> frames' = At(Instr[2]) /\ UNCHANGED <<jmpbuf, mask>>
  /\ UNCHANGED <<program, disp, pending, alarmed, old, oldmask, flag, child, ending, sent>>

Flag ==
  /\ Instr[1] \in {"flag", "test"}
  /\ flag' = IF Op("flag") THEN Instr[2] ELSE flag
  /\ frames' = At(IF Op("test") /\ flag THEN Instr[2] ELSE Top.at + 1)
  /\ UNCHANGED <<program, kernel, old, oldmask, jmpbuf, child, ending, sent>>

(* A signal to itself that is not blocked arrives before kill returns.     *)
Kill ==
  /\ Op("kill")
  /\ Instr[2] \notin mask
  /\ Deliver(Instr[2], At(Top.at + 1))
  /\ UNCHANGED <<program, disp, pending, alarmed, old, oldmask, jmpbuf, flag, child, sent>>

(* Where fork fails, system does not wait.                                 *)
Fork ==
  /\ Op("fork")
  /\ \/ child' = "running" /\ Onward
     \/ program = "systest2" /\ frames' = At(Top.at + 2) /\ UNCHANGED child
  /\ UNCHANGED <<program, kernel, old, oldmask, jmpbuf, flag, ending, sent>>

Call ==
  /\ Op("call")
  /\ frames' = Append(At(Top.at + 1), Frame(Instr[2], <<>>))
  /\ UNCHANGED <<program, kernel, old, oldmask, jmpbuf, flag, child, ending, sent>>

Work ==
  /\ Op("work") \/ Op("exit") \/ Op("error")
  /\ IF Op("work") THEN Onward /\ UNCHANGED ending ELSE Ends(Instr[1])
  /\ UNCHANGED <<program, kernel, old, oldmask, jmpbuf, flag, child, sent>>

Return ==
  /\ Returning \/ Op("return")
  /\ IF Depth = 1 THEN Ends("exit") /\ UNCHANGED mask
     ELSE /\ frames' = SubSeq(frames, 1, Depth - 1)
          /\ mask' = IF Top.keep = <<>> THEN mask ELSE Top.keep[1]
          /\ UNCHANGED ending
  /\ UNCHANGED <<program, disp, pending, alarmed, old, oldmask, jmpbuf, flag, child, sent>>

-----------------------------------------------------------------------------
(* The world outside                                                       *)

Arrive(sig) == pending' = IF disp[sig] = "ign" THEN pending ELSE pending \cup {sig}
Alive == ending \in {"none", "stop"}

Raise(sig) ==
  /\ Alive /\ Len(sent) < MaxSignals
  /\ Arrive(sig)
  /\ sent' = Append(sent, sig)
  /\ UNCHANGED <<program, frames, disp, mask, alarmed, old, oldmask, jmpbuf, flag, child, ending>>

AlarmFires ==
  /\ Alive /\ alarmed
  /\ Arrive("ALRM")
  /\ alarmed' = FALSE
  /\ UNCHANGED <<program, frames, disp, mask, old, oldmask, jmpbuf, flag, child, ending, sent>>

ChildEnds ==
  /\ Alive /\ child = "running"
  /\ Arrive("CHLD")
  /\ child' = "ended"
  /\ UNCHANGED <<program, frames, disp, mask, alarmed, old, oldmask, jmpbuf, flag, ending, sent>>

Continued ==
  /\ ending = "stop" /\ ending' = "none"
  /\ UNCHANGED <<program, frames, kernel, old, oldmask, jmpbuf, flag, child, sent>>

-----------------------------------------------------------------------------
Init ==
  /\ program \in Programs
  /\ frames = <<Frame(program, <<>>)>>
  /\ disp = [sig \in Signos |-> "dfl"] /\ mask = {} /\ pending = {} /\ alarmed = FALSE
  /\ old = disp /\ oldmask = {}
  /\ jmpbuf = [depth |-> 0, at |-> 0, mask |-> {}]
  /\ flag = FALSE /\ child = "none" /\ ending = "none" /\ sent = <<>>

Step ==
  \/ \E sig \in Signos : Handle(sig)
  \/ Disposition \/ SetMask \/ Alarm \/ FallAsleep \/ Reap \/ Jump \/ Flag \/ Kill \/ Fork
  \/ Call \/ Work \/ Return
  \/ AlarmFires \/ ChildEnds \/ Continued

Next == Step \/ Input \/ \E sig \in Sent : Raise(sig)

Spec == Init /\ [][Next]_vars

(* The process runs, a signal that is not blocked is acted upon, an alarm  *)
(* goes off, a child ends; nobody need send anything.                      *)
FairSpec == Spec /\ WF_vars(Step)

-----------------------------------------------------------------------------
(* A program ends as it means to, whatever signals come between two of its *)
(* calls: abort by SIGABRT, the others by exit.  suspend2 goes on only     *)
(* when SIGQUIT came; critical is ended by the second one at the earliest; *)
(* SIGQUIT does not end the caller of system while the command runs; and   *)
(* before a handler is there a signal may end what it finds.               *)
Early == \E n \in DOMAIN Code[program] : n = frames[1].at /\ Code[program][n][1] = "catch"
Times(sig) == Len(SelectSeq(sent, LAMBDA s : s = sig))
EndsAsMeant ==
  Alive \/ Early \/
    CASE program \in {"abort_ign", "abort_catch", "abort_dfl"} -> ending = "ABRT"
      [] program \in {"read1", "read2"} -> ending \in {"exit", "error"}
      [] program = "suspend2" -> ending = "exit" /\ Times("QUIT") > 0
      [] program = "critical" -> ending = "exit" \/ (ending = "QUIT" /\ Times("QUIT") > 1)
      [] program = "systest2" -> ending = "exit" \/ (ending = "QUIT" /\ child # "running")
      [] program = "child" -> ending = "exit" /\ child = "reaped"
      [] OTHER -> ending = "exit"

(* After sleep, system and the critical regions the actions and the mask   *)
(* are what they were, after sleep no alarm is left, and SIGTSTP is caught *)
(* again when the process was continued.                                   *)
Past(p, n) == program = p /\ Depth = 1 /\ frames[1].at >= n
LeftAsFound ==
  /\ Past("sleeper", 4) => disp["ALRM"] = "own" /\ mask = {} /\ ~alarmed
  /\ Past("systest2", 4) => disp["INT"] = "returns" /\ disp["QUIT"] = "dfl" /\ mask = {}
  /\ Past("suspend1", 7) \/ Past("suspend2", 8) \/ Past("mask", 6) => mask = {}
  /\ Past("sigtstp", 3) => disp["TSTP"] = "sig_tstp" /\ mask = {}

(* sleep1, read1 and child do not block the signal they wait for.  When it *)
(* comes before pause or read sleeps, nothing is left to wake them: sleep1 *)
(* and child hang for ever, read1 until there is input.                    *)
Prone == {"sleep1", "read1", "child"}
Lost ==
  /\ Running /\ Top.asleep /\ Instr[1] \in {"pause", "read"}
  /\ ~alarmed /\ child # "running" /\ pending = {}

(* A program that waits for an alarm or a child, or aborts, comes to its   *)
(* end however early the signal comes; so does suspend2 once SIGQUIT was   *)
(* sent.  The programs of Prone end, or hang because the signal is lost.   *)
(* suspend1, mask and sigtstp wait for what others need not send.          *)
Prompt == {"sleeper", "tsleep2", "read2", "critical",
           "abort_ign", "abort_catch", "abort_dfl", "systest2"}
Busy ==
  /\ Alive
  /\ \/ frames[1].at > 1 /\ program \in Prompt
     \/ frames[1].at > 1 /\ program \in Prone /\ ~Lost
     \/ program = "suspend2" /\ Times("QUIT") > 0
ProgramsEnd == Busy ~> ~Busy

=============================================================================
