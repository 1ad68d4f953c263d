----------------------------- MODULE MCServices -----------------------------
(* The programs in which several processes or threads share something,     *)
(* with the bounds of each.  They share nothing with each other: a         *)
(* behaviour is a behaviour of one of them, the one that is running, and   *)
(* the others keep the values they start with.                             *)
EXTENDS Semaph

CONSTANTS
  p1, p2, p3,   \* the processes of Semaph
  c1, c2,       \* the clients of Opend and of Uptime
  d1, d2,       \* the copies of Daemon
  Clients, Files, Names, Quitters, NALLOC, MaxOpens,   \* of Opend
  MAXSLEEP, MaxFaults,                                 \* of Uptime
  Daemons, MaxStarts, MaxSignals,                      \* of Daemon
  Threads, NULL, Jobs, MaxJobs, Msgs,                  \* of JobQueue and MsgQueue
  Bytes, Sizes, MaxLen, MaxUses                        \* of Fmemopen

(* MAXSLEEP is a power of 2: all of its divisors but 1 are even.           *)
ASSUME SleepAssumption ==
  /\ MAXSLEEP \in Nat \ {0}
  /\ \A d, e \in 1 .. MAXSLEEP : d * e = MAXSLEEP /\ d # 1 => d % 2 = 0

(* What the pid file and its lock hold besides a copy is no copy.          *)
ASSUME DaemonAssumption == {"none", "empty"} \cap Daemons = {}

(* Strings are written, to streams of finitely many sizes.                 *)
ASSUME MemoryAssumption ==
  /\ Bytes # {} /\ 0 \notin Bytes /\ MaxLen \in Nat
  /\ Sizes \subseteq Nat /\ \E n \in Sizes : \A k \in Sizes : k <= n

(* There is a thread, and NULL is no message.                              *)
ASSUME MessageAssumption == Threads # {} /\ NULL \notin Msgs

(* One read of the server takes a whole request: "long" is the name that   *)
(* comes in two pieces, and the server answers each piece (request.c:9).   *)
ASSUME OpenAssumption ==
  IsFiniteSet(Clients) /\ NALLOC \in Nat \ {0} /\ "long" \notin Names

(* NULL is no job.                                                         *)
ASSUME JobAssumption == IsFiniteSet(Jobs) /\ NULL \notin Jobs

VARIABLES
  running,  \* "semaph", "opend", "uptime", "daemon", "jobs", "messages", "fmemopen"
  \* of Opend
  build, spc, i, client, pollfd, allset, rset, maxi, maxfd, handled, fdOf,
  backlog, in, out, cpc, asked, got, open_calls, broke,
  \* of Uptime
  up_build, srv, cur, held, queue, cst, numsec, slept, line, eof, up_got,
  faults, stopped,
  \* of Daemon
  dm_build, dm_pc, disp, blocked, pending, stack, logging, owner, pidfile,
  reread, killer, starts, signals,
  \* of JobQueue
  q_head, q_tail, j_next, j_prev, j_id, found, put,
  \* of MsgQueue
  workq, m_next, wpc, mp, enqueued, msg_signals, msg_handled,
  \* of Fmemopen
  user, ms, answer, mem_calls, wrote

openVars == <<build, spc, i, client, pollfd, allset, rset, maxi, maxfd, handled, fdOf,
              backlog, in, out, cpc, asked, got, open_calls, broke>>
upVars == <<up_build, srv, cur, held, queue, cst, numsec, slept, line, eof, up_got,
            faults, stopped>>
dmVars == <<dm_build, dm_pc, disp, blocked, pending, stack, logging, owner, pidfile,
            reread, killer, starts, signals>>
jobVars == <<q_head, q_tail, j_next, j_prev, j_id, found, put>>
msgVars == <<workq, m_next, wpc, mp, enqueued, msg_signals, msg_handled>>
memVars == <<user, ms, answer, mem_calls, wrote>>

-----------------------------------------------------------------------------
Open == INSTANCE Opend WITH Builds <- {"poll", "select"}, MaxCalls <- MaxOpens,
  calls <- open_calls
Up == INSTANCE Uptime WITH Builds <- {"stream", "fd", "dgram"}, build <- up_build, got <- up_got
Dm == INSTANCE Daemon WITH Builds <- {"thread", "handlers"}, build <- dm_build, pc <- dm_pc
Job == INSTANCE JobQueue
Msg == INSTANCE MsgQueue WITH signals <- msg_signals, handled <- msg_handled
Mem == INSTANCE Fmemopen WITH
  Types <- {<<"r">>, <<"w">>, <<"a">>, <<"r", "plus">>, <<"w", "plus">>, <<"a", "b", "plus">>,
            <<"plus", "r">>, <<"r", "w">>, <<>>},
  MaxCalls <- MaxUses, calls <- mem_calls

-----------------------------------------------------------------------------
MCInit ==
  /\ running \in {"semaph", "opend", "uptime", "daemon", "jobs", "messages", "fmemopen"}
  /\ Init
  /\ Open!Init /\ (running # "opend" => build = "poll")
  /\ Up!Init /\ (running # "uptime" => up_build = "stream")
  /\ Dm!Init /\ (running # "daemon" => \A d \in Daemons : dm_build[d] = "thread")
  /\ Job!Init /\ Msg!Init
  /\ Mem!Init /\ (running # "fmemopen" => \A n \in DOMAIN user : user[n] = 0)

Runs(name) ==
  /\ running = name /\ UNCHANGED running
  /\ IF name = "semaph" THEN TRUE ELSE UNCHANGED vars
  /\ IF name = "opend" THEN TRUE ELSE UNCHANGED openVars
  /\ IF name = "uptime" THEN TRUE ELSE UNCHANGED upVars
  /\ IF name = "daemon" THEN TRUE ELSE UNCHANGED dmVars
  /\ IF name = "jobs" THEN TRUE ELSE UNCHANGED jobVars
  /\ IF name = "messages" THEN TRUE ELSE UNCHANGED msgVars
  /\ IF name = "fmemopen" THEN TRUE ELSE UNCHANGED memVars

MCNext ==
  \/ Runs("semaph") /\ Next
  \/ Runs("opend") /\ Open!Next
  \/ Runs("uptime") /\ Up!Next
  \/ Runs("daemon") /\ Dm!Next
  \/ Runs("jobs") /\ Job!Next
  \/ Runs("messages") /\ Msg!Next
  \/ Runs("fmemopen") /\ Mem!Next

all == <<running, vars, openVars, upVars, dmVars, jobVars, msgVars, memVars>>

(* The fairness of each module                                             *)
MCSpec ==
  /\ MCInit /\ [][MCNext]_all
  /\ \A p \in Procs : WF_all(Runs("semaph") /\ Step(p))
  /\ WF_all(Runs("opend") /\ Open!ServerStep)
  /\ \A c \in Clients : WF_all(Runs("opend") /\ Open!recv_fd(c))
  /\ WF_all(Runs("uptime") /\ Up!Serve)
  /\ \A c \in Clients : WF_all(Runs("uptime") /\ Up!Ask(c))
  /\ \A d \in Daemons : WF_all(Runs("daemon") /\ Dm!Step(d))

-----------------------------------------------------------------------------
(* The properties of the modules.  A csopen returns its own answer, the    *)
(* table of the server has one entry for each connection it watches, and   *)
(* the server ends only after a client was killed in the middle of a call. *)
AnswersMatch == Open!AnswersMatch /\ Open!TableMatches /\ Open!ServerStays

(* A client that ends well has its one line, and one that gives up has     *)
(* waited long enough.                                                     *)
UptimeRight == Up!AnswersRight

(* At most one daemon runs, the file says which, and SIGHUP ends none.     *)
OneDaemon == Dm!OneDaemon

(* The links of the job queue do what a list does.                         *)
ImplementsJobList == Job!ImplementsJobList

(* Each message is handled once, and none stays behind.                    *)
MessagesKept == Msg!MessagesKept

(* A memory stream stays inside its memory and leaves a string there.      *)
MemoryRight == Mem!MemoryRight

(* A memory stream that is read is a file.                                 *)
ReadableIsFile == Mem!ReadableIsFile

(* What is asked for is answered: CreateReturns, EveryOpenReturns,         *)
(* ClientsEnd and SignalsActed, for each process, client and daemon with   *)
(* each signal.  A datagram client whose alarm went off before it was in   *)
(* recvfrom has nothing left to end its wait when no answer comes: it is   *)
(* excepted once it has lost both.                                         *)
BusyIn(n) ==
  CASE running = "semaph" -> n <= 3 /\ Creating(<<p1, p2, p3>>[n])
    [] running = "opend" -> Open!Busy(<<c1, c1, c2, c2>>[n])
    [] running = "uptime" -> Up!Busy(<<c1, c1, c2, c2>>[n])
    [] running = "daemon" ->
         Dm!Busy(<<d1, d1, d2, d2>>[n], <<"HUP", "TERM", "HUP", "TERM">>[n])
    [] OTHER -> FALSE
ServicesAnswer == \A n \in 1 .. 4 : BusyIn(n) ~> ~BusyIn(n)

=============================================================================
