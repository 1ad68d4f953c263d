------------------------------- MODULE Printd ------------------------------
(***************************************************************************)
(* The print service of apue.3e/printer: print commands (print.c), and the *)
(* daemon printd.c with its main thread, a thread per client, the printer  *)
(* thread (module PrintQueue) and the signal thread.  The daemon may be    *)
(* terminated, may exit, or may crash, and is started again.               *)
(*                                                                         *)
(* The list of worker threads is the linked list of the code.  Its head    *)
(* may be a worker that client_cleanup has freed; what malloc has not      *)
(* given to another worker keeps its contents, and where it does not the   *)
(* daemon crashes, which it may do at any time.                            *)
(***************************************************************************)
EXTENDS PrintQueue

CONSTANTS
  NULL,
  Slow          \* clients that may pause for longer than the daemon waits

ASSUME PrintdAssumption == NULL \notin Clients /\ Slow \subseteq Clients

VARIABLES
  user,      \* where each print command is
  sent, got, \* parts of its document sent, and taken by the daemon
  reply,     \* what it was told: nothing (0), its job number, or -1
  thread,    \* where its thread is
  job,       \* the thread's jobid
  workers, wnext, wprev,   \* the list of worker threads
  cancelled, \* threads that kill_workers has cancelled
  main,      \* where the main thread is
  toscan,    \* entries of the spool directory build_qonstart has not seen
  signal,    \* where the signal thread is
  unsaved    \* the daemon stopped while numbers in use were not in the job file

client == <<user, sent, reply>>
list == <<workers, wnext, wprev>>
threads == <<thread, job, got>>
process == <<main, toscan, signal, cancelled, unsaved>>
spool == <<disk, jobs, printer, jp, reread, paper, faults>>
vars == <<spool, client, list, threads, process>>

Init ==
  /\ QueueInit
  /\ user = [c \in Clients |-> "idle"]
  /\ sent = [c \in Clients |-> 0] /\ got = [c \in Clients |-> 0]
  /\ reply = [c \in Clients |-> 0]
  /\ thread = [c \in Clients |-> "none"]
  /\ job = [c \in Clients |-> NoJob]
  /\ workers = NULL
  /\ wnext = [c \in Clients |-> NULL] /\ wprev = [c \in Clients |-> NULL]
  /\ cancelled = {}
  /\ main = "scan" /\ toscan = {}
  /\ signal = "wait"
  /\ unsaved = FALSE

-----------------------------------------------------------------------------
(* print.c                                                                 *)

(* connect_retry and the header; the main thread accepts.                  *)
Connect(c) ==
  /\ user[c] = "idle" /\ main = "accept"
  /\ user' = [user EXCEPT ![c] = "sending"]
  /\ thread' = [thread EXCEPT ![c] = "add"]
  /\ UNCHANGED <<spool, sent, reply, list, job, got, process>>

(* The loop of submit_file, which ends at the end of the file              *)
SendPart(c) ==
  /\ user[c] = "sending" /\ sent[c] < NParts
  /\ sent' = [sent EXCEPT ![c] = @ + 1]
  /\ UNCHANGED <<spool, user, reply, list, threads, process>>

Die(c) ==
  /\ user[c] = "sending" /\ reply[c] = 0
  /\ Fault
  /\ user' = [user EXCEPT ![c] = "dead"]
  /\ UNCHANGED <<disk, jobs, printer, jp, reread, paper, sent, reply, list, threads, process>>

-----------------------------------------------------------------------------
(* client_thread                                                           *)

GotoT(c, l) == thread' = [thread EXCEPT ![c] = l]

(* The head of the list when it has been freed                             *)
FreedWorkers == {w \in {workers} \ {NULL} : thread[w] = "done"}

(* add_worker; workers itself is set only when the list was empty.  malloc *)
(* may return the memory m of a freed worker: what pointed there points to *)
(* the new one, and a new one in place of the head is its own next.        *)
AddWorker(c) ==
  /\ thread[c] = "add"
  /\ \E m \in {c} \cup FreedWorkers :
       LET At(w) == IF w = m THEN c ELSE w
           head == At(workers) IN
       /\ wprev' = [w \in Clients |-> IF w = head THEN c ELSE IF w = c THEN NULL ELSE At(wprev[w])]
       /\ wnext' = [w \in Clients |-> IF w = c THEN head ELSE At(wnext[w])]
       /\ workers' = IF head = NULL THEN c ELSE head
  /\ GotoT(c, "header")
  /\ UNCHANGED <<spool, client, job, got, process>>

(* treadn gives the header, or less than the header.                       *)
ReadHeader(c) ==
  /\ thread[c] = "header"
  /\ \/ GotoT(c, "number") /\ UNCHANGED reply
     \/ /\ user[c] = "dead" \/ c \in Slow
        /\ GotoT(c, "cleanup")
        /\ reply' = [reply EXCEPT ![c] = -1]
  /\ UNCHANGED <<spool, user, sent, list, job, got, process>>

\* Mutant: the number is not incremented.
GetNewJobnoSame(c) ==
  /\ thread[c] = "number"
  /\ job' = [job EXCEPT ![c] = nextjob]
  /\ GotoT(c, "create")
  /\ UNCHANGED <<spool, client, list, got, process>>

GetNewJobno(c) ==
  /\ thread[c] = "number"
  /\ job' = [job EXCEPT ![c] = nextjob]
  /\ nextjob' = nextjob + 1
  /\ GotoT(c, "create")
  /\ UNCHANGED <<disk, queue, printer, jp, reread, paper, faults, client, list, got, process>>

(* creat of the data file makes it empty.                                  *)
CreateData(c) ==
  /\ thread[c] = "create"
  /\ \/ /\ data' = [data EXCEPT ![job[c]] = <<>>]
        /\ GotoT(c, "copy")
        /\ UNCHANGED <<faults, reply>>
     \/ /\ Fault
        /\ GotoT(c, "cleanup")
        /\ reply' = [reply EXCEPT ![c] = -1]
        /\ UNCHANGED data
  /\ UNCHANGED <<req, jobfile, jobs, printer, jp, reread, paper, user, sent, list, job, got,
                 process>>

(* A file that was removed meanwhile stays removed.                        *)
CopyPart(c) ==
  /\ thread[c] = "copy" /\ got[c] < sent[c]
  /\ got' = [got EXCEPT ![c] = @ + 1]
  /\ \/ /\ data' = [data EXCEPT ![job[c]] = IF @ = NoFile THEN @ ELSE Append(@, c)]
        /\ UNCHANGED <<faults, thread, reply>>
     \/ /\ Fault
        /\ GotoT(c, "unlinkdata")
        /\ reply' = [reply EXCEPT ![c] = -1]
        /\ UNCHANGED data
  /\ UNCHANGED <<req, jobfile, jobs, printer, jp, reread, paper, user, sent, list, job, process>>

(* tread gives 0 when the client has closed the connection, and an error   *)
(* when nothing comes for 20 seconds.  print never closes its side, so the *)
(* end of the document is such a pause.                                    *)
CopyEnds(c) ==
  /\ thread[c] = "copy" /\ got[c] = sent[c]
  /\ user[c] = "dead" \/ sent[c] = NParts \/ c \in Slow
  /\ GotoT(c, "control")
  /\ UNCHANGED <<spool, client, list, job, got, process>>

CreateControl(c) ==
  /\ thread[c] = "control"
  /\ \/ /\ req' = [req EXCEPT ![job[c]] = "empty"]
        /\ GotoT(c, "write")
        /\ UNCHANGED <<faults, reply>>
     \/ /\ Fault
        /\ GotoT(c, "unlinkdata")
        /\ reply' = [reply EXCEPT ![c] = -1]
        /\ UNCHANGED req
  /\ UNCHANGED <<data, jobfile, jobs, printer, jp, reread, paper, user, sent, list, job, got,
                 process>>

\* Mutant: a short write is taken for a control file.
WriteControlUnchecked(c) ==
  /\ thread[c] = "write"
  /\ \/ req' = [req EXCEPT ![job[c]] = "full"]
     \/ UNCHANGED req
  /\ GotoT(c, "reply")
  /\ UNCHANGED <<data, jobfile, jobs, printer, jp, reread, paper, faults, client, list, job, got,
                 process>>

\* Mutant: the thread does not exit after a failed write.
WriteControlGoesOn(c) ==
  /\ thread[c] = "write"
  /\ \/ /\ req' = [req EXCEPT ![job[c]] = "full"]
        /\ GotoT(c, "reply")
        /\ UNCHANGED <<faults, reply>>
     \/ /\ Fault
        /\ GotoT(c, "queue")
        /\ reply' = [reply EXCEPT ![c] = -1]
        /\ UNCHANGED req
  /\ UNCHANGED <<data, jobfile, jobs, printer, jp, reread, paper, user, sent, list, job, got,
                 process>>

WriteControl(c) ==
  /\ thread[c] = "write"
  /\ \/ /\ req' = [req EXCEPT ![job[c]] = "full"]
        /\ GotoT(c, "reply")
        /\ UNCHANGED <<faults, reply>>
     \/ /\ Fault
        /\ GotoT(c, "unlinkreq")
        /\ reply' = [reply EXCEPT ![c] = -1]
        /\ UNCHANGED req
  /\ UNCHANGED <<data, jobfile, jobs, printer, jp, reread, paper, user, sent, list, job, got,
                 process>>

UnlinkControl(c) ==
  /\ thread[c] = "unlinkreq"
  /\ req' = [req EXCEPT ![job[c]] = "absent"]
  /\ GotoT(c, "unlinkdata")
  /\ UNCHANGED <<data, jobfile, jobs, printer, jp, reread, paper, faults, client, list, job, got,
                 process>>

UnlinkRejected(c) ==
  /\ thread[c] = "unlinkdata"
  /\ data' = [data EXCEPT ![job[c]] = NoFile]
  /\ GotoT(c, "cleanup")
  /\ UNCHANGED <<req, jobfile, jobs, printer, jp, reread, paper, faults, client, list, job, got,
                 process>>

Reply(c) ==
  /\ thread[c] = "reply"
  /\ reply' = [reply EXCEPT ![c] = job[c]]
  /\ GotoT(c, "queue")
  /\ UNCHANGED <<spool, user, sent, list, job, got, process>>

QueueJob(c) ==
  /\ thread[c] = "queue"
  /\ AddJob(job[c])
  /\ GotoT(c, "signal")
  /\ UNCHANGED <<disk, nextjob, printer, jp, reread, paper, faults, client, list, job, got, process>>

SignalPrinter(c) ==
  /\ thread[c] = "signal"
  /\ Signal
  /\ GotoT(c, "cleanup")
  /\ UNCHANGED <<disk, jobs, jp, reread, paper, faults, client, list, job, got, process>>

(* The threads reached from workers                                        *)
OnList ==
  LET reached[n \in 0..Cardinality(Clients)] ==
        IF n = 0 THEN {workers} \ {NULL}
        ELSE reached[n - 1] \cup ({wnext[c] : c \in reached[n - 1]} \ {NULL})
  IN reached[Cardinality(Clients)]

(* The loops over the list do not end, and keep workerlock.                *)
Endless == workers # NULL /\ wnext[workers] = workers

(* client_cleanup: a thread that is not found on the list is not taken out *)
(* of it.  One that is taken out is freed, also where it is the head and   *)
(* has a prev: workers still points to it.                                 *)
Cleanup(c) ==
  /\ thread[c] = "cleanup"
  /\ c \in OnList \/ ~Endless
  /\ IF c \in OnList
     THEN LET n == wnext[c]  p == wprev[c] IN
          /\ wprev' = IF n = NULL THEN wprev ELSE [wprev EXCEPT ![n] = p]
          /\ wnext' = IF p = NULL THEN wnext ELSE [wnext EXCEPT ![p] = n]
          /\ workers' = IF p = NULL THEN n ELSE workers
     ELSE UNCHANGED list
  /\ GotoT(c, "done")
  /\ UNCHANGED <<spool, client, job, got, process>>

(* A cancelled thread goes to its cleanup handler at some system call.     *)
Cancelled(c) ==
  /\ c \in cancelled /\ thread[c] \notin {"none", "add", "cleanup", "done"}
  /\ GotoT(c, "cleanup")
  /\ UNCHANGED <<spool, client, list, job, got, process>>

ThreadStep(c) ==
  \/ AddWorker(c) \/ ReadHeader(c) \/ GetNewJobno(c) \/ CreateData(c) \/ CopyPart(c)
  \/ CopyEnds(c) \/ CreateControl(c) \/ WriteControl(c) \/ UnlinkControl(c)
  \/ UnlinkRejected(c) \/ Reply(c) \/ QueueJob(c) \/ SignalPrinter(c) \/ Cleanup(c)
  \/ Cancelled(c)

-----------------------------------------------------------------------------
(* The main thread: build_qonstart, then the clients                       *)

ScanEntry ==
  /\ main = "scan"
  /\ \E j \in toscan :
       /\ toscan' = toscan \ {j}
       /\ CASE req[j] = "full" ->
                 AddJob(j) /\ main' = "signal" /\ UNCHANGED <<data, req>>
            [] req[j] = "empty" ->
                 /\ data' = [data EXCEPT ![j] = NoFile]
                 /\ req' = [req EXCEPT ![j] = "absent"]
                 /\ UNCHANGED <<queue, main>>
            [] OTHER -> UNCHANGED <<data, req, queue, main>>
  /\ UNCHANGED <<jobfile, nextjob, printer, jp, reread, paper, faults, client, list, threads, signal,
                 cancelled, unsaved>>

ScanSignal ==
  /\ main = "signal"
  /\ Signal
  /\ main' = "scan"
  /\ UNCHANGED <<disk, jobs, jp, reread, paper, faults, client, list, threads, toscan, signal,
                 cancelled, unsaved>>

ScanDone ==
  /\ main = "scan" /\ toscan = {}
  /\ main' = "accept"
  /\ UNCHANGED <<spool, client, list, threads, toscan, signal, cancelled, unsaved>>

-----------------------------------------------------------------------------
(* The signal thread, which runs before build_qonstart does                *)

Up == main # "down"

Hangup ==
  /\ Up /\ signal = "wait" /\ ~reread
  /\ Fault
  /\ reread' = TRUE
  /\ UNCHANGED <<disk, jobs, printer, jp, paper, client, list, threads, process>>

(* SIGTERM: kill_workers, then exit                                        *)
KillWorkers ==
  /\ Up /\ signal = "wait" /\ ~Endless
  /\ Fault
  /\ cancelled' = OnList
  /\ signal' = "exit"
  /\ UNCHANGED <<disk, jobs, printer, jp, reread, paper, client, list, threads, main, toscan, unsaved>>

(* The job numbers on disk are below the one that will be used next.       *)
NumbersSaved == \A j \in Ids : data[j] # NoFile \/ req[j] # "absent" => j < jobfile

(* Memory and threads are gone, the spool directory stays; the clients     *)
(* that have no answer get an error.                                       *)
Stop ==
  /\ unsaved' = (unsaved \/ ~NumbersSaved)
  /\ main' = "down" /\ toscan' = {} /\ signal' = "wait" /\ cancelled' = {}
  /\ thread' = [c \in Clients |-> IF thread[c] = "none" THEN "none" ELSE "done"]
  /\ user' = [c \in Clients |-> IF user[c] = "sending" /\ reply[c] = 0 THEN "dead" ELSE user[c]]
  /\ again' = IF printer = "unlinkdata"
              THEN again \cup {c \in Clients : data[jp] = Document(c)} ELSE again
  /\ queue' = <<>> /\ printer' = "get" /\ jp' = NoJob /\ reread' = FALSE
  /\ workers' = NULL
  /\ wnext' = [c \in Clients |-> NULL] /\ wprev' = [c \in Clients |-> NULL]
  /\ UNCHANGED <<disk, nextjob, copies, garbled, sent, reply, job, got>>

Exit == Up /\ (signal = "exit" \/ printer = "exit") /\ Stop /\ UNCHANGED faults
Crash == Up /\ Fault /\ Stop

(* init_request reads the job file; build_qonstart will read the directory. *)
Start ==
  /\ main = "down"
  /\ main' = "scan"
  /\ nextjob' = IF jobfile = 0 THEN 1 ELSE jobfile
  /\ toscan' = {j \in Ids : req[j] # "absent"}
  /\ UNCHANGED <<disk, queue, printer, jp, reread, paper, faults, client, list, threads, signal,
                 cancelled, unsaved>>

-----------------------------------------------------------------------------
Daemon ==
  \/ Up /\ (PrinterStep \/ SpuriousWakeup) /\ UNCHANGED <<client, list, threads, process>>
  \/ ScanEntry \/ ScanSignal \/ ScanDone \/ Hangup \/ KillWorkers \/ Exit \/ Crash \/ Start

Next ==
  \/ Daemon
  \/ \E c \in Clients : Connect(c) \/ SendPart(c) \/ Die(c) \/ ThreadStep(c)

Spec == Init /\ [][Next]_vars

(* Threads run, clients send, and somebody starts the daemon again.        *)
FairSpec ==
  /\ Spec
  /\ WF_vars(Up /\ PrinterStep /\ UNCHANGED <<client, list, threads, process>>)
  /\ WF_vars(ScanEntry \/ ScanSignal \/ ScanDone)
  /\ WF_vars(Exit) /\ WF_vars(Start)
  /\ \A c \in Clients : WF_vars(SendPart(c)) /\ WF_vars(ThreadStep(c))

=============================================================================
