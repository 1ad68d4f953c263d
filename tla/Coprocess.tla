----------------------------- MODULE Coprocess ------------------------------
(***************************************************************************)
(* The coprocess of apue.3e/ipc1/pipe4.c and add2.c: the parent writes a   *)
(* line to one pipe and reads the answer from another; the child adds the  *)
(* two numbers of a line.  A line is its place in the input.               *)
(***************************************************************************)
EXTENDS Integers, Sequences

CONSTANTS Lines,      \* the lines of the input, 1 .. n
          Wrong       \* those that are not two numbers

VARIABLES
  ppc, cpc,           \* where the parent and the child are
  parent, child,      \* the ends of the pipes that they hold
  fd1, fd2,           \* what is in the pipes
  line,               \* line[] of the parent
  args,               \* line[] of the child
  asked, shown,       \* lines read from the input; what the parent put out
  cut                 \* those of the two that were killed, or did not become add2

vars == <<ppc, cpc, parent, child, fd1, fd2, line, args, asked, shown, cut>>

Ends == {"fd1 read", "fd1 write", "fd2 read", "fd2 write"}
Open(end) == end \in parent \cup child
Answer(l) == <<IF l \in Wrong THEN "invalid args" ELSE "sum", l>>
Message(m) == <<m, 0>>

-----------------------------------------------------------------------------
(* The parent                                                              *)

Fork ==
  /\ ppc = "start" /\ ppc' = "close" /\ cpc' = "close"
  /\ parent' = Ends /\ child' = Ends
  /\ UNCHANGED <<fd1, fd2, line, args, asked, shown, cut>>

ParentClose ==
  /\ ppc = "close"
  /\ IF "fd1 read" \in parent
     THEN parent' = parent \ {"fd1 read"} /\ UNCHANGED ppc
     ELSE parent' = parent \ {"fd2 write"} /\ ppc' = "fgets"
  /\ UNCHANGED <<cpc, child, fd1, fd2, line, args, asked, shown, cut>>

ParentExit == ppc' = "exited" /\ parent' = {}

(* fgets gets a line, or the end of the input.                             *)
Fgets ==
  /\ ppc = "fgets"
  /\ IF asked + 1 \in Lines
     THEN asked' = asked + 1 /\ line' = asked' /\ ppc' = "write" /\ UNCHANGED parent
     ELSE ParentExit /\ UNCHANGED <<asked, line>>
  /\ UNCHANGED <<cpc, child, fd1, fd2, args, shown, cut>>

(* Without a reader the write raises SIGPIPE, and sig_pipe exits.          *)
ParentWrite ==
  /\ ppc = "write"
  /\ IF Open("fd1 read")
     THEN fd1' = Append(fd1, line) /\ ppc' = "read" /\ UNCHANGED <<parent, shown>>
     ELSE ParentExit /\ shown' = Append(shown, Message("SIGPIPE caught")) /\ UNCHANGED fd1
  /\ UNCHANGED <<cpc, child, fd2, line, args, asked, cut>>

(* A read takes what there is, or the end when no one can write.           *)
ParentRead ==
  /\ ppc = "read"
  /\ \/ /\ fd2 # <<>>
        /\ shown' = shown \o fd2 /\ fd2' = <<>> /\ ppc' = "fgets"
        /\ UNCHANGED parent
     \/ /\ fd2 = <<>> /\ ~Open("fd2 write")
        /\ shown' = Append(shown, Message("child closed pipe")) /\ ParentExit
        /\ UNCHANGED fd2
  /\ UNCHANGED <<cpc, child, fd1, line, args, asked, cut>>

-----------------------------------------------------------------------------
(* The child                                                               *)

(* It closes the ends of the parent, has its own on 0 and 1, and executes  *)
(* add2.                                                                   *)
ChildClose ==
  /\ cpc = "close"
  /\ IF "fd1 write" \in child
     THEN child' = child \ {"fd1 write"} /\ UNCHANGED cpc
     ELSE child' = child \ {"fd2 read"} /\ cpc' = "read"
  /\ UNCHANGED <<ppc, parent, fd1, fd2, line, args, asked, shown, cut>>

(* dup2 or execl fails: the child ends with an error.                      *)
ExecFails ==
  /\ cpc = "close" /\ "fd1 write" \notin child
  /\ cpc' = "exited" /\ child' = {} /\ cut' = {"child"} \cup cut
  /\ UNCHANGED <<ppc, parent, fd1, fd2, line, args, asked, shown>>

(* sscanf looks at the first two words of what was read.                   *)
Add2Read ==
  /\ cpc = "read"
  /\ \/ fd1 # <<>> /\ args' = Head(fd1) /\ fd1' = <<>> /\ cpc' = "write" /\ UNCHANGED child
     \/ fd1 = <<>> /\ ~Open("fd1 write") /\ cpc' = "exited" /\ child' = {} /\ UNCHANGED <<fd1, args>>
  /\ UNCHANGED <<ppc, parent, fd2, line, asked, shown, cut>>

(* add2 has the default action for SIGPIPE.                                *)
Add2Write ==
  /\ cpc = "write"
  /\ IF Open("fd2 read")
     THEN fd2' = Append(fd2, Answer(args)) /\ cpc' = "read" /\ UNCHANGED child
     ELSE cpc' = "exited" /\ child' = {} /\ UNCHANGED fd2
  /\ UNCHANGED <<ppc, parent, fd1, line, args, asked, shown, cut>>

(* Someone kills one of them.                                              *)
Killed ==
  /\ \/ /\ cpc \in {"close", "read", "write"} /\ cpc' = "exited" /\ child' = {}
        /\ cut' = cut \cup {"child"} /\ UNCHANGED <<ppc, parent>>
     \/ /\ ppc \in {"close", "fgets", "write", "read"} /\ ParentExit
        /\ cut' = cut \cup {"parent"} /\ UNCHANGED <<cpc, child>>
  /\ UNCHANGED <<fd1, fd2, line, args, asked, shown>>

-----------------------------------------------------------------------------
Init ==
  /\ ppc = "start" /\ cpc = "none" /\ parent = {} /\ child = {} /\ fd1 = <<>> /\ fd2 = <<>>
  /\ line = 0 /\ args = 0 /\ asked = 0 /\ shown = <<>> /\ cut = {}

ParentStep == Fork \/ ParentClose \/ Fgets \/ ParentWrite \/ ParentRead
ChildStep == ChildClose \/ ExecFails \/ Add2Read \/ Add2Write

Next == ParentStep \/ ChildStep \/ Killed

Spec == Init /\ [][Next]_vars

FairSpec == Spec /\ WF_vars(ParentStep) /\ WF_vars(ChildStep)

-----------------------------------------------------------------------------
(* Every answer is shown once and in its place; a line has none only while *)
(* it waits or when one of the two was cut off: killed, or not able to     *)
(* become add2.  The parent says that the child is gone only when that was *)
(* cut off, as its last word.                                              *)
CoprocessRight ==
  LET answered == {n \in DOMAIN shown : shown[n][2] # 0} IN
  /\ \A n \in answered : shown[n] = Answer(n)
  /\ \A l \in (1 .. asked) \ answered :
       (l = asked /\ ppc \in {"write", "read"}) \/ (ppc = "exited" /\ cut # {})
  /\ \A n \in DOMAIN shown \ answered :
       n = Len(shown) /\ ppc = "exited" /\ cut = {"child"}

(* Both processes end; the child when the parent has closed its pipe.      *)
Busy(p) == IF p = "parent" THEN ppc # "exited" ELSE cpc \notin {"none", "exited"}

=============================================================================
