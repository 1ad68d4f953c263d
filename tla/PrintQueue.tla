----------------------------- MODULE PrintQueue ----------------------------
(***************************************************************************)
(* The part of apue.3e/printer/printd.c behind the clients: the spool      *)
(* directory with its data and control files, the list of pending jobs,    *)
(* and the thread that talks to the printer.  A step is a system call or a *)
(* critical section of joblock or configlock.                              *)
(*                                                                         *)
(* A document is NParts parts long; a data file is the sequence of the     *)
(* parts written to it, each named by the client it came from.             *)
(***************************************************************************)
EXTENDS Integers, FiniteSets, Sequences

CONSTANTS
  Clients,      \* the print commands, one document each
  NParts,       \* the length of a document
  MaxFaults     \* bound on the faults: of the printer, the disk, a client, the daemon

ASSUME ClientsAssumption == IsFiniteSet(Clients) /\ "no file" \notin Clients
ASSUME PartsAssumption == NParts \in Nat \ {0}

Ids == 1..Cardinality(Clients)
Document(c) == [i \in 1..NParts |-> c]
NoFile == <<"no file">>
NoJob == 0

VARIABLES
  data,      \* the data files of the spool directory
  req,       \* the control files: absent, empty, or full
  jobfile,   \* the job number in the job file, 0 when it is empty
  nextjob,
  queue,     \* the pending jobs, jobhead first
  printer,   \* where the printer thread is
  jp,        \* its job
  reread,    \* SIGHUP has come
  faults,    \* how many faults there were
  copies,    \* whole documents on paper
  garbled,   \* paper with something else than the beginning of one document
  again      \* documents whose success nobody recorded

disk == <<data, req, jobfile>>
paper == <<copies, garbled, again>>
jobs == <<queue, nextjob>>

QueueInit ==
  /\ data = [j \in Ids |-> NoFile]
  /\ req = [j \in Ids |-> "absent"]
  /\ jobfile = 0
  /\ nextjob = 1
  /\ queue = <<>>
  /\ printer = "get" /\ jp = NoJob
  /\ reread = FALSE
  /\ faults = 0
  /\ copies = [c \in Clients |-> 0]
  /\ garbled = FALSE
  /\ again = {}

Fault == faults < MaxFaults /\ faults' = faults + 1

(* add_job, under joblock; the signal follows after the unlock.            *)
AddJob(j) == queue' = Append(queue, j)

\* Mutant: nobody is signalled.
SignalNobody == UNCHANGED printer

Signal == printer' = IF printer = "waiting" THEN "get" ELSE printer

-----------------------------------------------------------------------------
(* printer_thread                                                          *)

\* Mutant: the job stays on the list.
GetJobKept ==
  /\ printer = "get"
  /\ IF queue = <<>>
     THEN printer' = "waiting" /\ UNCHANGED <<jp, queue>>
     ELSE printer' = "update" /\ jp' = Head(queue) /\ UNCHANGED queue
  /\ UNCHANGED <<disk, nextjob, reread, paper, faults>>

(* while (jobhead == NULL) pthread_cond_wait(...); remove_job(jobhead)     *)
GetJob ==
  /\ printer = "get"
  /\ IF queue = <<>>
     THEN printer' = "waiting" /\ UNCHANGED <<jp, queue>>
     ELSE printer' = "update" /\ jp' = Head(queue) /\ queue' = Tail(queue)
  /\ UNCHANGED <<disk, nextjob, reread, paper, faults>>

SpuriousWakeup ==
  /\ printer = "waiting"
  /\ printer' = "get"
  /\ UNCHANGED <<disk, jobs, jp, reread, paper, faults>>

UpdateJobno ==
  /\ printer = "update"
  /\ jobfile' = nextjob
  /\ printer' = "config"
  /\ UNCHANGED <<data, req, jobs, jp, reread, paper, faults>>

(* A changed configuration is read again; without a printer in it the      *)
(* whole daemon exits.                                                     *)
CheckConfig ==
  /\ printer = "config"
  /\ printer' \in IF reread THEN {"open", "exit"} ELSE {"open"}
  /\ reread' = FALSE
  /\ UNCHANGED <<disk, jobs, jp, paper, faults>>

(* A job without a data file is canceled; its control file stays.  (fstat  *)
(* of the open file does not fail.)                                        *)
OpenData ==
  /\ printer = "open"
  /\ IF data[jp] = NoFile
     THEN printer' = "get" /\ jp' = NoJob
     ELSE printer' = "send" /\ UNCHANGED jp
  /\ UNCHANGED <<disk, jobs, reread, paper, faults>>

(* connect_retry, writev, write or writen fails; the printer prints nothing *)
(* of a request shorter than its Content-Length.                           *)
SendFails ==
  /\ printer = "send"
  /\ Fault
  /\ printer' = "defer"
  /\ UNCHANGED <<disk, jobs, jp, reread, paper>>

(* The printer prints what it gets.                                        *)
Printed ==
  /\ copies' = [c \in Clients |-> IF data[jp] = Document(c) THEN copies[c] + 1 ELSE copies[c]]
  /\ garbled' = (garbled \/ \E i, k \in DOMAIN data[jp] : data[jp][i] # data[jp][k])

(* printer_status                                                          *)
(* Success, a document whose success is not reported (no answer in time,   *)
(* a bad format, the status of another job), or an error.                  *)
Status ==
  /\ printer = "send"
  /\ \/ /\ Printed
        /\ printer' = "unlinkdata"
        /\ UNCHANGED <<again, faults>>
     \/ /\ Printed
        /\ Fault
        /\ again' = again \cup {c \in Clients : data[jp] = Document(c)}
        /\ printer' = "defer"
     \/ /\ Fault
        /\ printer' = "defer"
        /\ UNCHANGED paper
  /\ UNCHANGED <<disk, jobs, jp, reread>>

UnlinkData ==
  /\ printer = "unlinkdata"
  /\ data' = [data EXCEPT ![jp] = NoFile]
  /\ printer' = "unlinkreq"
  /\ UNCHANGED <<req, jobfile, jobs, jp, reread, paper, faults>>

UnlinkReq ==
  /\ printer = "unlinkreq"
  /\ req' = [req EXCEPT ![jp] = "absent"]
  /\ printer' = "get" /\ jp' = NoJob
  /\ UNCHANGED <<data, jobfile, jobs, reread, paper, faults>>

(* replace_job puts the job at the head again; then a minute passes.       *)
Defer ==
  /\ printer = "defer"
  /\ queue' = <<jp>> \o queue
  /\ printer' = "get" /\ jp' = NoJob
  /\ UNCHANGED <<disk, nextjob, reread, paper, faults>>

PrinterStep ==
  \/ GetJob \/ UpdateJobno \/ CheckConfig \/ OpenData \/ SendFails \/ Status
  \/ UnlinkData \/ UnlinkReq \/ Defer

=============================================================================
