------------------------------- MODULE Popen --------------------------------
(***************************************************************************)
(* popen and pclose of apue.3e/lib/popen.c (and ipc1/popen.c), for a       *)
(* program that has several streams at a time.  An end of a pipe is held   *)
(* by the program and by the children that inherited it; a command of      *)
(* type "w" ends at the end of its input, one of type "r" when it likes.   *)
(***************************************************************************)
EXTENDS Integers, FiniteSets

CONSTANTS
  Pids,        \* the children, in the order of their forks: 1, 2, ...
  maxfd,       \* the number of descriptors
  MaxFaults    \* bound on failures of fork, fdopen and fclose

VARIABLES
  fds,         \* the end of a pipe each descriptor of the program is, or None
  childpid,    \* childpid[], by descriptor; 0 for no child
  forked,      \* how many children were made
  child,       \* of each: "none", "forked", "running", "ended", "reaped"
  type,        \* "r" or "w"
  holds,       \* the ends each child holds
  copy,        \* its copy of fds and childpid
  closing,     \* the child that pclose waits for, or 0
  faults

vars == <<fds, childpid, forked, child, type, holds, copy, closing, faults>>

Fd == 0 .. maxfd - 1
None == <<0, "none">>
Std == <<0, "std">>                 \* what 0, 1 and 2 are
End(pid, side) == <<pid, side>>    \* an end of the pipe of child pid
Mine(pid) == IF type[pid] = "r" THEN End(pid, "write") ELSE End(pid, "read")
Stream(pid) == IF type[pid] = "r" THEN End(pid, "read") ELSE End(pid, "write")
Open(f) == {fd \in Fd : f[fd] # None}
Lowest(f) == CHOOSE fd \in Fd \ Open(f) : \A g \in Fd \ Open(f) : fd <= g
Ends(f) == {f[fd] : fd \in {g \in Fd : f[g] \notin {None, Std}}}
Fault == faults < MaxFaults /\ faults' = faults + 1

-----------------------------------------------------------------------------
(* pipe: the two lowest descriptors.  When fork or fdopen fails, what is   *)
(* open then stays open.                                                   *)
popen(t) ==
  /\ closing = 0 /\ forked + 1 \in Pids
  /\ LET pid == forked + 1
         r == Lowest(fds)
         half == [fds EXCEPT ![r] = End(pid, "read")]
         w == Lowest(half)
         both == [half EXCEPT ![w] = End(pid, "write")]
         fd == IF t = "r" THEN r ELSE w
         other == IF t = "r" THEN w ELSE r
     IN IF maxfd - Cardinality(Open(fds)) < 2
        THEN UNCHANGED vars
        ELSE \/ /\ Fault /\ fds' = both /\ forked' = pid
                /\ UNCHANGED <<childpid, child, type, holds, copy>>
             \/ /\ forked' = pid
                /\ child' = [child EXCEPT ![pid] = "forked"]
                /\ type' = [type EXCEPT ![pid] = t]
                /\ holds' = [holds EXCEPT ![pid] = Ends(both)]
                /\ copy' = [copy EXCEPT ![pid] = [fds |-> both, childpid |-> childpid]]
                /\ fds' = [both EXCEPT ![other] = None]
                /\ \/ childpid' = [childpid EXCEPT ![fd] = pid] /\ UNCHANGED faults
                   \/ Fault /\ UNCHANGED childpid
  /\ UNCHANGED closing

(* The child: its end of the pipe becomes its standard input or output,    *)
(* the descriptors in childpid[] are closed, and the command is executed.  *)
Child(pid) ==
  /\ child[pid] = "forked"
  /\ child' = [child EXCEPT ![pid] = "running"]
  /\ LET c == copy[pid]
         kept == [fd \in Fd |-> IF c.fds[fd] \in {Stream(pid), Mine(pid)} \/ c.childpid[fd] > 0
                                THEN None ELSE c.fds[fd]]
     IN holds' = [holds EXCEPT ![pid] = Ends(kept) \cup {Mine(pid)}]
  /\ UNCHANGED <<fds, childpid, forked, type, copy, closing, faults>>

(* A command of type "w" ends when nobody holds the write end of its pipe. *)
Eof(pid) ==
  /\ Stream(pid) \notin Ends(fds)
  /\ \A p \in Pids : Stream(pid) \notin holds[p]

Exit(pid) ==
  /\ child[pid] = "running" /\ (type[pid] = "w" => Eof(pid))
  /\ child' = [child EXCEPT ![pid] = "ended"]
  /\ holds' = [holds EXCEPT ![pid] = {}]
  /\ UNCHANGED <<fds, childpid, forked, type, copy, closing, faults>>

\* Mutant: the entry of the descriptor stays.
pclose_keeps(fd) ==
  /\ closing = 0 /\ childpid[fd] # 0 /\ fds[fd] # None
  /\ \/ closing' = childpid[fd] /\ UNCHANGED faults
     \/ Fault /\ UNCHANGED closing
  /\ fds' = [fds EXCEPT ![fd] = None]
  /\ UNCHANGED <<childpid, forked, child, type, holds, copy>>

(* pclose: childpid[] forgets the child, fclose, and then waitpid, unless  *)
(* fclose could not write what was left: the descriptor is closed then all *)
(* the same, and nobody waits for the child.  What popen has not opened is *)
(* refused.                                                                *)
pclose(fd) ==
  /\ closing = 0 /\ childpid[fd] # 0 /\ fds[fd] # None
  /\ \/ closing' = childpid[fd] /\ UNCHANGED faults
     \/ Fault /\ UNCHANGED closing
  /\ childpid' = [childpid EXCEPT ![fd] = 0]
  /\ fds' = [fds EXCEPT ![fd] = None]
  /\ UNCHANGED <<forked, child, type, holds, copy>>

Reap ==
  /\ closing # 0 /\ child[closing] = "ended"
  /\ child' = [child EXCEPT ![closing] = "reaped"]
  /\ closing' = 0
  /\ UNCHANGED <<fds, childpid, forked, type, holds, copy, faults>>

-----------------------------------------------------------------------------
Init ==
  /\ fds = [fd \in Fd |-> IF fd <= 2 THEN Std ELSE None]
  /\ childpid = [fd \in Fd |-> 0] /\ forked = 0
  /\ child = [pid \in Pids |-> "none"] /\ type = [pid \in Pids |-> "r"]
  /\ holds = [pid \in Pids |-> {}]
  /\ copy = [pid \in Pids |-> [fds |-> fds, childpid |-> childpid]]
  /\ closing = 0 /\ faults = 0

Run(pid) == Child(pid) \/ Exit(pid)

Next ==
  \/ \E t \in {"r", "w"} : popen(t)
  \/ \E fd \in Fd : pclose(fd)
  \/ Reap
  \/ \E pid \in Pids : Run(pid)

Spec == Init /\ [][Next]_vars

(* The children run; a command ends when it has come to its end of file.   *)
FairSpec == Spec /\ WF_vars(Reap) /\ \A pid \in Pids : WF_vars(Run(pid))

-----------------------------------------------------------------------------
(* A command holds no stream of another one, which would keep that one     *)
(* from the end of its input; and what childpid[] says of a descriptor is  *)
(* the child behind it.                                                    *)
Streams == {fds[fd] : fd \in {g \in Fd : childpid[g] # 0}}
StreamsPrivate ==
  /\ \A pid \in Pids : child[pid] = "running" => holds[pid] \cap Streams = {}
  /\ \A fd \in Fd : childpid[fd] # 0 =>
       /\ fds[fd] = Stream(childpid[fd])
       /\ child[childpid[fd]] \notin {"none", "reaped"}

(* pclose comes back, though other streams stay open.                      *)
Busy == closing # 0
PcloseReturns == Busy ~> ~Busy

=============================================================================
