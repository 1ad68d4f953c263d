------------------------------- MODULE Uptime -------------------------------
(***************************************************************************)
(* The uptime service of apue.3e/sockets: a server that answers each       *)
(* connection itself (ruptimed.c), by a child that becomes the uptime      *)
(* program (ruptimed-fd.c), or that answers datagrams (ruptimed-dg.c), and *)
(* the clients ruptime.c and ruptime-dg.c.  The answer is one line.        *)
(***************************************************************************)
EXTENDS Integers, Sequences, Functions
CONSTANTS
  Clients,
  Builds,      \* of "stream", "fd" and "dgram"
  MAXSLEEP,    \* a power of 2
  MaxFaults    \* bound on crashes, failures of fork and exec, and lost datagrams

VARIABLES
  build,
  srv, cur,    \* "down", "idle", "work", "close"; and the client it serves
  held,        \* the clients whose connection a child that failed to exec keeps open
  queue,       \* the connections or datagrams that wait
  cst,         \* "start", "asleep", "waiting", "rung", "done", "failed", "killed"
  numsec, slept,
  line, eof, got,
  faults, stopped   \* the faults so far; the server once crashed or could not fork

server == <<srv, cur, held, queue, stopped>>
clients == <<cst, numsec, slept, got>>
vars == <<build, server, clients, line, eof, faults>>

Fault == faults < MaxFaults /\ faults' = faults + 1
Ended == {"done", "failed", "killed"}

-----------------------------------------------------------------------------
(* The servers                                                             *)

(* main and initserver: the address may be used again after a crash.       *)
Start ==
  /\ srv = "down"
  /\ srv' = "idle"
  /\ UNCHANGED <<build, cur, held, queue, stopped, clients, line, eof, faults>>

Exits ==
  /\ srv' = "down" /\ stopped' = TRUE
  /\ queue' = <<>> /\ held' = {}
  /\ eof' = [c \in Clients |-> cst[c] = "waiting" \/ eof[c]]

(* accept and recvfrom                                                     *)
Accept ==
  /\ srv = "idle" /\ queue # <<>>
  /\ cur' = Head(queue) /\ queue' = Tail(queue)
  /\ srv' = "work"
  /\ UNCHANGED <<build, held, stopped, clients, line, eof, faults>>

(* serve of ruptimed.c: popen, or the text of its error, to the client     *)
ServeStream ==
  /\ build = "stream" /\ srv = "work"
  /\ line' = [line EXCEPT ![cur] = @ + 1]
  /\ srv' = "close"
  /\ UNCHANGED <<build, cur, held, queue, stopped, clients, eof, faults>>

(* close; for ruptimed-fd.c, the end of the child for which it has waited  *)
Close ==
  /\ srv = "close"
  /\ eof' = [eof EXCEPT ![cur] = TRUE]
  /\ srv' = "idle"
  /\ UNCHANGED <<build, cur, held, queue, stopped, clients, line, faults>>

(* serve of ruptimed-fd.c: fork fails, and the server exits; exec fails,   *)
(* and the child goes on as a server, the client at its standard output,   *)
(* while its parent waits for it, with no end here: the child alone does   *)
(* not die, only all of the servers together; or uptime writes to the      *)
(* client.                                                                 *)
ServeFd ==
  /\ build = "fd" /\ srv = "work"
  /\ \/ Fault /\ Exits /\ UNCHANGED line
     \/ Fault /\ srv' = "idle" /\ held' = held \cup {cur} /\ UNCHANGED <<queue, stopped, eof, line>>
     \/ /\ line' = [line EXCEPT ![cur] = @ + 1]
        /\ srv' = "close"
        /\ UNCHANGED <<faults, held, queue, stopped, eof>>
  /\ UNCHANGED <<build, cur, clients>>

(* serve of ruptimed-dg.c: the answer may be lost.                         *)
ServeDgram ==
  /\ build = "dgram" /\ srv = "work"
  /\ \/ line' = [line EXCEPT ![cur] = @ + 1] /\ UNCHANGED faults
     \/ Fault /\ UNCHANGED line
  /\ srv' = "idle"
  /\ UNCHANGED <<build, cur, held, queue, stopped, clients, eof>>

Crash ==
  /\ srv # "down" /\ Fault
  /\ Exits
  /\ UNCHANGED <<build, cur, clients, line>>

-----------------------------------------------------------------------------
(* The clients                                                             *)

\* Mutant: after a failure the wait is halved.
connect_retry_short(c) ==
  /\ build # "dgram" /\ cst[c] = "start"
  /\ IF srv # "down"
     THEN cst' = [cst EXCEPT ![c] = "waiting"] /\ queue' = Append(queue, c)
          /\ UNCHANGED <<numsec, slept>>
     ELSE /\ cst' = [cst EXCEPT ![c] = IF numsec[c] <= MAXSLEEP \div 4 THEN "asleep" ELSE "failed"]
          /\ slept' = [slept EXCEPT ![c] = @ + (IF numsec[c] <= MAXSLEEP \div 4 THEN numsec[c] ELSE 0)]
          /\ numsec' = [numsec EXCEPT ![c] = 2 * @]
          /\ UNCHANGED queue
  /\ UNCHANGED <<build, srv, cur, held, stopped, got, line, eof, faults>>

(* connect_retry of clconn2.c                                              *)
connect_retry(c) ==
  /\ build # "dgram" /\ cst[c] = "start"
  /\ IF srv # "down"
     THEN cst' = [cst EXCEPT ![c] = "waiting"] /\ queue' = Append(queue, c)
          /\ UNCHANGED <<numsec, slept>>
     ELSE /\ cst' = [cst EXCEPT ![c] = IF numsec[c] <= MAXSLEEP \div 2 THEN "asleep" ELSE "failed"]
          /\ slept' = [slept EXCEPT ![c] = @ + (IF numsec[c] <= MAXSLEEP \div 2 THEN numsec[c] ELSE 0)]
          /\ numsec' = [numsec EXCEPT ![c] = 2 * @]
          /\ UNCHANGED queue
  /\ UNCHANGED <<build, srv, cur, held, stopped, got, line, eof, faults>>

Wake(c) ==
  /\ cst[c] = "asleep"
  /\ cst' = [cst EXCEPT ![c] = "start"]
  /\ UNCHANGED <<build, server, numsec, slept, got, line, eof, faults>>

(* print_uptime of ruptime.c                                               *)
print_uptime(c) ==
  /\ build # "dgram" /\ cst[c] = "waiting"
  /\ IF line[c] > 0
     THEN /\ line' = [line EXCEPT ![c] = @ - 1] /\ got' = [got EXCEPT ![c] = @ + 1]
          /\ UNCHANGED cst
     ELSE /\ eof[c]
          /\ cst' = [cst EXCEPT ![c] = "done"]
          /\ UNCHANGED <<line, got>>
  /\ UNCHANGED <<build, server, numsec, slept, eof, faults>>

(* print_uptime of ruptime-dg.c: the request may be lost, also because     *)
(* nobody listens.                                                         *)
Request(c) ==
  /\ build = "dgram" /\ cst[c] = "start"
  /\ cst' = [cst EXCEPT ![c] = "waiting"]
  /\ \/ srv # "down" /\ queue' = Append(queue, c) /\ UNCHANGED faults
     \/ srv = "down" /\ UNCHANGED <<queue, faults>>
     \/ Fault /\ UNCHANGED queue
  /\ UNCHANGED <<build, srv, cur, held, stopped, numsec, slept, got, line, eof>>

(* recvfrom returns, or SIGALRM interrupts it, also when the answer is     *)
(* late only.  A SIGALRM that comes after alarm and before recvfrom only   *)
(* runs the handler, and recvfrom then waits without an alarm: "rung".     *)
Receive(c) ==
  /\ build = "dgram"
  /\ \/ /\ cst[c] \in {"waiting", "rung"} /\ line[c] > 0
        /\ line' = [line EXCEPT ![c] = @ - 1] /\ got' = [got EXCEPT ![c] = @ + 1]
        /\ cst' = [cst EXCEPT ![c] = "done"]
     \/ /\ cst[c] = "waiting"
        /\ \E s \in {"failed", "rung"} : cst' = [cst EXCEPT ![c] = s]
        /\ UNCHANGED <<line, got>>
  /\ UNCHANGED <<build, server, numsec, slept, eof, faults>>

Killed(c) ==
  /\ cst[c] \in {"waiting", "rung"}
  /\ cst' = [cst EXCEPT ![c] = "killed"]
  /\ UNCHANGED <<build, server, numsec, slept, got, line, eof, faults>>

-----------------------------------------------------------------------------
Init ==
  /\ build \in Builds
  /\ srv = "down" /\ cur = CHOOSE c \in Clients : TRUE
  /\ held = {} /\ queue = <<>> /\ stopped = FALSE
  /\ cst = [c \in Clients |-> "start"]
  /\ numsec = [c \in Clients |-> 1] /\ slept = [c \in Clients |-> 0]
  /\ line = [c \in Clients |-> 0] /\ eof = [c \in Clients |-> FALSE]
  /\ got = [c \in Clients |-> 0]
  /\ faults = 0

Serve == Accept \/ ServeStream \/ ServeFd \/ ServeDgram \/ Close
Ask(c) == connect_retry(c) \/ Wake(c) \/ print_uptime(c) \/ Request(c) \/ Receive(c)

Next == Start \/ Serve \/ Crash \/ \E c \in Clients : Ask(c) \/ Killed(c)

Spec == Init /\ [][Next]_vars

(* The server serves while it is up; that it is started is up to others.   *)
FairSpec == Spec /\ WF_vars(Serve) /\ \A c \in Clients : WF_vars(Ask(c))

-----------------------------------------------------------------------------
(* A client that ends well has the one line, unless the server died under  *)
(* it; and one that gives up connecting has waited for all of MAXSLEEP - 1 *)
(* seconds.                                                                *)
AnswersRight ==
  \A c \in Clients :
    /\ cst[c] = "done" => got[c] = 1 \/ (stopped /\ got[c] = 0)
    /\ cst[c] = "failed" /\ build # "dgram" => slept[c] = MAXSLEEP - 1

(* A client whose alarm went off before it was in recvfrom waits for ever  *)
(* when its request or its answer was lost, or nobody listens.             *)
Lost(c) ==
  cst[c] = "rung" /\ line[c] = 0 /\ c \notin Range(queue) /\ ~(srv = "work" /\ cur = c)

(* Every client comes to an end, whether the server is there, dies, or     *)
(* loses datagrams, except those a child that could not exec holds and     *)
(* those that have lost their alarm and then their answer.                 *)
Busy(c) == cst[c] \notin Ended /\ c \notin held /\ ~Lost(c)
ClientsEnd == \A c \in Clients : Busy(c) ~> ~Busy(c)

=============================================================================
