---------------------------- MODULE PrintdProofs ---------------------------
(***************************************************************************)
(* The print service, proved for any number of clients, any length of the  *)
(* documents and any number of faults: failures of the printer and of the  *)
(* disk, clients that die, signals, and ends of the daemon at any step.    *)
(*                                                                         *)
(* The argument: as long as the job file is ahead of the numbers in use    *)
(* whenever the daemon stops, a number is in one place: with the thread of *)
(* one client, on the list of pending jobs, with the printer thread, among *)
(* the files that build_qonstart has not seen, or nowhere any more.  Who   *)
(* has the number is the only one to touch its files.                      *)
(***************************************************************************)
EXTENDS PrintdProps, FiniteSetTheorems, SequenceTheorems, TLAPS

-----------------------------------------------------------------------------
(* The invariant                                                           *)

Working == {"create", "copy", "control", "write", "unlinkreq", "unlinkdata",
            "reply", "queue"}
Stages == Working \cup {"none", "add", "header", "number", "signal", "cleanup", "done"}
Busy == {"update", "config", "open", "send", "defer", "unlinkdata", "unlinkreq", "exit"}

TypeOK ==
  /\ data \in [Ids -> Seq(Clients) \cup {NoFile}]
  /\ req \in [Ids -> {"absent", "empty", "full"}]
  /\ jobfile \in Nat /\ nextjob \in Nat \ {0}
  /\ queue \in Seq(Ids) /\ jp \in Ids \cup {NoJob} /\ toscan \subseteq Ids
  /\ printer \in Busy \cup {"get", "waiting"}
  /\ jp # NoJob <=> printer \in Busy
  /\ copies \in [Clients -> Nat] /\ again \subseteq Clients
  /\ user \in [Clients -> {"idle", "sending", "dead"}]
  /\ thread \in [Clients -> Stages] /\ job \in [Clients -> Ids \cup {NoJob}]
  /\ reply \in [Clients -> Ids \cup {0, -1}]
  /\ sent \in [Clients -> 0..NParts] /\ got \in [Clients -> 0..NParts]
  /\ main \in {"scan", "signal", "accept", "down"}

(* The files of a number, and the numbers that may have some               *)
HasFile(j) == data[j] # NoFile \/ req[j] # "absent"
NumbersOK ==
  /\ jobfile <= nextjob
  /\ nextjob <= 1 + Cardinality({c \in Clients : job[c] # NoJob})
  /\ \A j \in Ids : HasFile(j) => j < nextjob /\ (main = "down" => j < jobfile)

(* Every number is in one place.                                           *)
Has(c) == thread[c] \in Working
Pending == Queued \cup ({jp} \ {NoJob})
PlacesOK ==
  /\ \A i, k \in DOMAIN queue : queue[i] = queue[k] => i = k
  /\ jp \notin Queued
  /\ toscan \cap Pending = {} /\ (main \in {"accept", "down"} => toscan = {})
  /\ \A c, d \in Clients : Has(c) /\ Has(d) /\ job[c] = job[d] => c = d
  /\ main = "down" => Pending = {}
  /\ \A j \in Pending : req[j] = "full"
  /\ printer = "unlinkreq" => data[jp] = NoFile

(* A data file holds parts of one document, that of the client who got its *)
(* number.                                                                 *)
Of(c) == Seq({c})
DataOK ==
  \A j \in Ids : data[j] # NoFile =>
    \E c \in Clients : data[j] \in Of(c) /\ (data[j] # <<>> => job[c] = j)

(* What a thread knows of its number and its files                         *)
ThreadOK(c) ==
  /\ user[c] = "idle" => thread[c] = "none"
  /\ thread[c] \in {"none", "add", "header", "number"} =>
       job[c] = NoJob /\ reply[c] = 0
  /\ thread[c] \notin {"none", "done"} => main = "accept"
  /\ Has(c) => job[c] \in 1..(nextjob - 1) /\ job[c] \notin Pending
  /\ thread[c] = "create" => ~HasFile(job[c])
  /\ thread[c] \in {"copy", "control", "unlinkdata"} => req[job[c]] = "absent"
  /\ thread[c] \in {"write", "unlinkreq"} => req[job[c]] = "empty"
  /\ thread[c] \in {"reply", "queue"} => req[job[c]] = "full"
  /\ Has(c) /\ thread[c] # "create" => data[job[c]] \in Of(c)
  /\ thread[c] \in {"create", "copy", "control", "write", "reply"} => reply[c] = 0
  /\ thread[c] = "queue" => reply[c] = job[c]
  /\ thread[c] \in {"unlinkreq", "unlinkdata"} => reply[c] = -1
  /\ reply[c] \in {0, -1, job[c]}
  /\ signal = "wait" => cancelled = {}

(* How often a document was printed.  The second copy needs a success that *)
(* nobody recorded.                                                        *)
PaperOK(c) ==
  /\ job[c] = NoJob \/ Has(c) => copies[c] = 0
  /\ printer = "unlinkdata" /\ data[jp] = Document(c) => copies[c] > 0
  /\ copies[c] = 0 \/ c \in again
     \/ /\ copies[c] = 1
        /\ \A j \in Ids : data[j] = Document(c) => printer = "unlinkdata" /\ j = jp

(* What was rejected has no full control file.                             *)
RejectedOK(c) ==
  reply[c] = -1 => /\ copies[c] = 0
                   /\ \A j \in Ids : data[j] = Document(c) => req[j] # "full"

(* What was accepted is whole, when nobody pauses for too long ...         *)
WholeOK(c) ==
  /\ thread[c] \in {"none", "add", "header", "number", "create"} => got[c] = 0
  /\ thread[c] = "copy" => Len(data[job[c]]) = got[c] /\ got[c] <= sent[c]
  /\ thread[c] \in {"control", "write", "reply"} /\ user[c] # "dead" =>
       data[job[c]] = Document(c)

(* ... and is where the daemon will find it.                               *)
KeptOK(c) ==
  /\ Kept(c)
  /\ Owed(c) /\ main \in {"scan", "signal"} => job[c] \in Pending \cup toscan

SpoolInv ==
  /\ TypeOK /\ NumbersOK /\ PlacesOK /\ DataOK /\ ~garbled
  /\ \A c \in Clients : ThreadOK(c) /\ PaperOK(c) /\ RejectedOK(c)
  /\ Slow = {} => \A c \in Clients : WholeOK(c) /\ KeptOK(c)

IInv == ~unsaved => SpoolInv

-----------------------------------------------------------------------------
(* Documents and lists of jobs                                             *)

LEMMA OfFacts ==
  ASSUME NEW c \in Clients
  PROVE  /\ NoFile \notin Of(c) /\ <<>> \in Of(c) /\ NoFile # <<>>
         /\ Document(c) \in Of(c) /\ Document(c) # <<>> /\ Document(c) # NoFile
         /\ \A s \in Of(c) : /\ s \in Seq(Clients) /\ Append(s, c) \in Of(c)
                             /\ Len(Append(s, c)) = Len(s) + 1
                             /\ Len(s) = NParts => s = Document(c)
                             /\ \A i, k \in DOMAIN s : s[i] = s[k]
         /\ \A d \in Clients : \A s \in Of(d) : s \in Of(c) /\ s # <<>> => c = d
  <1>1. NParts \in Nat \ {0}
    BY PartsAssumption
  <1>2. "no file" # c
    BY ClientsAssumption, Zenon
  <1>3. \A s \in Of(c) : /\ DOMAIN s = 1..Len(s) /\ Len(s) \in Nat
                         /\ \A i \in DOMAIN s : s[i] = c
    BY DEF Of
  <1>4. NoFile \notin Of(c) /\ <<>> \in Of(c) /\ NoFile # <<>>
    <2>1. Len(NoFile) = 1 /\ NoFile[1] = "no file"
      BY DEF NoFile
    <2>2. ASSUME NoFile \in Of(c) PROVE FALSE
      <3>1. 1 \in DOMAIN NoFile
        BY DEF NoFile
      <3>2. NoFile[1] = c
        BY <1>3, <2>2, <3>1
      <3>3. QED
        BY <1>2, <2>1, <3>2, Zenon
    <2>3. <<>> \in Of(c)
      BY DEF Of
    <2>4. NoFile # <<>>
      BY DEF NoFile
    <2>5. QED
      BY <2>2, <2>3, <2>4
  <1>5. Document(c) \in Of(c) /\ Len(Document(c)) = NParts
    <2>1. Document(c) \in [1..NParts -> {c}]
      BY DEF Document
    <2>2. Document(c) \in Of(c)
      BY <1>1, <2>1, SeqDef DEF Of
    <2>3. DOMAIN Document(c) = 1..NParts /\ DOMAIN Document(c) = 1..Len(Document(c))
      BY <1>3, <2>1, <2>2
    <2>4. NParts \in 1..Len(Document(c)) /\ Len(Document(c)) \in Nat
      BY <1>1, <1>3, <2>2, <2>3
    <2>5. Len(Document(c)) \in 1..NParts
      BY <2>3, <2>4
    <2>6. QED
      BY <1>1, <2>2, <2>4, <2>5
  <1>6. ASSUME NEW s \in Of(c)
        PROVE  /\ s \in Seq(Clients) /\ Append(s, c) \in Of(c)
               /\ Len(Append(s, c)) = Len(s) + 1
               /\ \A i, k \in DOMAIN s : s[i] = s[k]
    BY <1>6 DEF Of
  <1>7. ASSUME NEW s \in Of(c), Len(s) = NParts PROVE s = Document(c)
    <2>1. DOMAIN s = 1..NParts /\ \A i \in DOMAIN s : s[i] = c
      BY <1>7 DEF Of
    <2>2. s = [i \in 1..NParts |-> s[i]]
      BY <1>7, <2>1 DEF Of
    <2>3. QED
      BY <2>1, <2>2 DEF Document
  <1>8. ASSUME NEW d \in Clients, NEW s \in Of(d), s \in Of(c), s # <<>> PROVE c = d
    <2>1. 1 \in DOMAIN s
      BY <1>8 DEF Of
    <2>2. s[1] \in {c} /\ s[1] \in {d}
      BY <1>8, <2>1 DEF Of
    <2>3. QED
      BY <2>2
  <1>9. Document(c) # <<>> /\ Document(c) # NoFile
    BY <1>1, <1>5, <1>4
  <1>10. QED
    BY <1>5, <1>6, <1>7, <1>8, <1>9, <1>4

Elems(q) == {q[i] : i \in DOMAIN q}
Distinct(q) == \A i, k \in DOMAIN q : q[i] = q[k] => i = k

LEMMA NumbersOf ==
  ASSUME NEW q \in Seq(Ids)
  PROVE  NoJob \notin Ids /\ Elems(q) \subseteq Ids /\ NoJob \notin Elems(q)
  <1>1. NoJob \notin Ids
    BY DEF NoJob, Ids
  <1>2. \A i \in DOMAIN q : q[i] \in Ids
    OBVIOUS
  <1>3. QED
    BY <1>1, <1>2 DEF Elems

LEMMA AppendFacts ==
  ASSUME NEW q \in Seq(Ids), NEW j \in Ids
  PROVE  /\ Append(q, j) \in Seq(Ids) /\ Elems(Append(q, j)) = Elems(q) \cup {j}
         /\ Distinct(q) /\ j \notin Elems(q) => Distinct(Append(q, j))
  <1>1. /\ Append(q, j) \in Seq(Ids) /\ DOMAIN Append(q, j) = 1..(Len(q) + 1)
        /\ Append(q, j)[Len(q) + 1] = j
        /\ \A i \in DOMAIN q : Append(q, j)[i] = q[i]
        /\ DOMAIN q = 1..Len(q) /\ Len(q) \in Nat
    OBVIOUS
  <1>2. \A i \in DOMAIN Append(q, j) : i \in DOMAIN q \/ i = Len(q) + 1
    BY <1>1
  <1>3. Elems(Append(q, j)) = Elems(q) \cup {j}
    BY <1>1, <1>2 DEF Elems
  <1>4. Distinct(q) /\ j \notin Elems(q) => Distinct(Append(q, j))
    BY <1>1, <1>2 DEF Elems, Distinct
  <1>5. QED
    BY <1>1, <1>3, <1>4

LEMMA TailFacts ==
  ASSUME NEW q \in Seq(Ids), q # <<>>
  PROVE  /\ Tail(q) \in Seq(Ids) /\ Head(q) \in Elems(q) /\ Head(q) \in Ids
         /\ Elems(q) = Elems(Tail(q)) \cup {Head(q)}
         /\ Distinct(q) => Distinct(Tail(q)) /\ Head(q) \notin Elems(Tail(q))
  <1>1. /\ Tail(q) \in Seq(Ids) /\ Len(Tail(q)) = Len(q) - 1 /\ Head(q) = q[1]
        /\ DOMAIN q = 1..Len(q) /\ Len(q) \in Nat \ {0} /\ Head(q) \in Ids
        /\ DOMAIN Tail(q) = 1..(Len(q) - 1)
        /\ \A i \in 1..(Len(q) - 1) : Tail(q)[i] = q[i + 1]
    OBVIOUS
  <1>2. \A i \in DOMAIN q : i # 1 => i - 1 \in DOMAIN Tail(q) /\ Tail(q)[i - 1] = q[i]
    BY <1>1
  <1>3. Elems(q) = Elems(Tail(q)) \cup {Head(q)}
    <2>1. ASSUME NEW i \in DOMAIN q PROVE q[i] \in Elems(Tail(q)) \cup {Head(q)}
      BY <1>1, <1>2 DEF Elems
    <2>2. Elems(Tail(q)) \cup {Head(q)} \subseteq Elems(q)
      BY <1>1 DEF Elems
    <2>3. QED
      BY <2>1, <2>2 DEF Elems
  <1>4. Distinct(q) => Distinct(Tail(q)) /\ Head(q) \notin Elems(Tail(q))
    BY <1>1 DEF Elems, Distinct
  <1>5. QED
    BY <1>1, <1>3, <1>4

LEMMA PutBackFacts ==
  ASSUME NEW q \in Seq(Ids), NEW j \in Ids
  PROVE  /\ <<j>> \o q \in Seq(Ids) /\ Elems(<<j>> \o q) = Elems(q) \cup {j}
         /\ Distinct(q) /\ j \notin Elems(q) => Distinct(<<j>> \o q)
  <1>1. /\ <<j>> \o q \in Seq(Ids) /\ Len(<<j>> \o q) = Len(q) + 1
        /\ DOMAIN q = 1..Len(q) /\ Len(q) \in Nat
        /\ DOMAIN (<<j>> \o q) = 1..(Len(q) + 1)
        /\ (<<j>> \o q)[1] = j
        /\ \A i \in 1..Len(q) : (<<j>> \o q)[i + 1] = q[i]
    OBVIOUS
  <1>2. \A i \in DOMAIN (<<j>> \o q) :
          i # 1 => i - 1 \in DOMAIN q /\ (<<j>> \o q)[i] = q[i - 1]
    BY <1>1
  <1>3. Elems(<<j>> \o q) = Elems(q) \cup {j}
    <2>1. Elems(<<j>> \o q) \subseteq Elems(q) \cup {j}
      BY <1>1, <1>2 DEF Elems
    <2>2. ASSUME NEW i \in 1..Len(q) PROVE q[i] \in Elems(<<j>> \o q)
      <3>1. i + 1 \in DOMAIN (<<j>> \o q) /\ (<<j>> \o q)[i + 1] = q[i]
        BY <1>1
      <3>2. QED
        BY <3>1 DEF Elems
    <2>3. j \in Elems(<<j>> \o q)
      BY <1>1 DEF Elems
    <2>4. QED
      BY <1>1, <2>1, <2>2, <2>3 DEF Elems
  <1>4. Distinct(q) /\ j \notin Elems(q) => Distinct(<<j>> \o q)
    BY <1>1, <1>2 DEF Elems, Distinct
  <1>5. QED
    BY <1>1, <1>3, <1>4

(* A whole document is in the files of one number only.                    *)
LEMMA DocumentAt ==
  ASSUME DataOK, NEW c \in Clients, NEW j \in Ids, data[j] = Document(c)
  PROVE  job[c] = j
  <1>1. PICK d \in Clients : data[j] \in Of(d) /\ (data[j] # <<>> => job[d] = j)
    BY OfFacts DEF DataOK
  <1>2. QED
    BY <1>1, OfFacts

LEMMA PendingIds == TypeOK => Pending \subseteq Ids
  BY DEF TypeOK, Pending, Queued

(* Nobody else has the number that is given out next.                      *)
LEMMA NextIsNew ==
  ASSUME SpoolInv
  PROVE  /\ \A j \in Ids : j >= nextjob => ~HasFile(j) /\ j \notin Pending
         /\ \A c \in Clients : Has(c) => job[c] < nextjob
  <1>1. TypeOK /\ NumbersOK /\ PlacesOK /\ \A c \in Clients : ThreadOK(c)
    BY DEF SpoolInv
  <1>2. \A j \in Ids : j >= nextjob => ~HasFile(j)
    BY <1>1 DEF NumbersOK, TypeOK, Ids
  <1>3. \A j \in Pending : HasFile(j)
    BY <1>1 DEF PlacesOK, HasFile
  <1>4. \A c \in Clients : Has(c) => job[c] < nextjob
    BY <1>1 DEF ThreadOK, TypeOK
  <1>5. QED
    BY <1>2, <1>3, <1>4

-----------------------------------------------------------------------------
(* A step of the thread of c, or of c itself: it touches only the files of *)
(* its number, and may put its number on the list of jobs.                 *)
OwnStep(c) ==
  /\ UNCHANGED <<jobfile, jp, paper, main, toscan, signal, cancelled>>
  /\ printer' = printer \/ {printer, printer'} \subseteq {"get", "waiting"}
  /\ \A d \in Clients \ {c} :
       /\ thread'[d] = thread[d] /\ job'[d] = job[d] /\ got'[d] = got[d]
       /\ user'[d] = user[d] /\ sent'[d] = sent[d] /\ reply'[d] = reply[d]
  /\ nextjob' >= nextjob
  /\ \A j \in Ids : \/ data'[j] = data[j] /\ req'[j] = req[j]
                    \/ Has(c) /\ j = job[c] /\ data'[j] \in Of(c) \cup {NoFile}
  /\ \/ queue' = queue
     \/ /\ thread[c] = "queue" /\ thread'[c] = "signal" /\ req' = req
        /\ queue' = Append(queue, job[c])
  /\ job'[c] = job[c] \/ (thread[c] = "number" /\ job'[c] = nextjob)
  /\ Has(c)' => Has(c) \/ (thread[c] = "number" /\ job'[c] = nextjob)
  /\ reply'[c] = -1 => reply[c] = -1 \/ Has(c) \/ job'[c] = NoJob
  /\ reply'[c] = -1 /\ Has(c) => req'[job[c]] # "full"

LEMMA OwnStepKeeps ==
  ASSUME SpoolInv, NEW c \in Clients, OwnStep(c), TypeOK', NumbersOK', ThreadOK(c)',
         Slow = {} => WholeOK(c)' /\ KeptOK(c)'
  PROVE  SpoolInv'
  <1>1. TypeOK /\ NumbersOK /\ PlacesOK /\ DataOK /\ ThreadOK(c)
    BY DEF SpoolInv
  <1>2. Has(c) => job[c] \in Ids /\ job[c] \notin Pending /\ main = "accept" /\ job'[c] = job[c]
    BY <1>1 DEF ThreadOK, Has, Working, TypeOK, OwnStep, NoJob
  <1>3. \/ Queued' = Queued /\ Pending' = Pending /\ Distinct(queue')
        \/ /\ Has(c) /\ ~Has(c)' /\ req' = req /\ req[job[c]] = "full" /\ Distinct(queue')
           /\ Queued' = Queued \cup {job[c]} /\ Pending' = Pending \cup {job[c]}
    <2>1. Distinct(queue) /\ Queued = Elems(queue) /\ Queued' = Elems(queue') /\ jp' = jp
      BY <1>1 DEF PlacesOK, Distinct, Queued, Elems, OwnStep
    <2>2. CASE queue' = queue
      BY <2>1, <2>2 DEF Pending
    <2>3. CASE queue' # queue
      <3>1. Has(c) /\ ~Has(c)' /\ req' = req /\ req[job[c]] = "full"
            /\ queue' = Append(queue, job[c])
        BY <1>1, <2>3 DEF OwnStep, Has, Working, ThreadOK
      <3>2. job[c] \notin Elems(queue) /\ queue \in Seq(Ids)
        BY <1>1, <1>2, <2>1, <3>1 DEF Pending, TypeOK
      <3>3. QED
        BY <1>2, <2>1, <3>1, <3>2, AppendFacts DEF Pending
    <2>4. QED
      BY <2>2, <2>3
  <1>4. \A j \in Ids : (Has(c) /\ j = job[c]) \/ (data'[j] = data[j] /\ req'[j] = req[j])
    BY DEF OwnStep
  <1>5. ASSUME NEW d \in Clients, d # c
        PROVE  /\ Has(d)' = Has(d) /\ job'[d] = job[d]
               /\ Has(d) => job[d] \in Ids /\ ~(Has(c) /\ job[d] = job[c])
               /\ Has(d) /\ Has(c)' => job'[d] # job'[c]
    <2>1. Has(d)' = Has(d) /\ job'[d] = job[d]
      BY <1>5 DEF OwnStep, Has
    <2>2. Has(d) => job[d] \in Ids /\ ~(Has(c) /\ job[d] = job[c]) /\ job[d] < nextjob
      <3>1. Has(d) => job[d] \in 1..(nextjob - 1) /\ job[d] \in Ids \cup {NoJob}
        BY DEF SpoolInv, ThreadOK, TypeOK
      <3>2. QED
        BY <1>1, <1>5, <3>1, NextIsNew DEF PlacesOK, NoJob
    <2>3. Has(c)' => job'[c] = nextjob \/ (Has(c) /\ job'[c] = job[c])
      BY <1>2 DEF OwnStep
    <2>4. QED
      BY <1>1, <2>1, <2>2, <2>3 DEF TypeOK, Ids
  <1>6. PlacesOK'
    <2>1. /\ Distinct(queue') /\ jp' \notin Queued' /\ main' = main /\ toscan' = toscan
      BY <1>1, <1>2, <1>3 DEF PlacesOK, OwnStep, Pending, TypeOK, NoJob, Ids
    <2>2. toscan' \cap Pending' = {} /\ (main' \in {"accept", "down"} => toscan' = {})
          /\ (main' = "down" => Pending' = {})
      BY <1>1, <1>2, <1>3, <2>1 DEF PlacesOK
    <2>3. \A d, e \in Clients : Has(d)' /\ Has(e)' /\ job'[d] = job'[e] => d = e
      BY <1>1, <1>5 DEF PlacesOK
    <2>4. \A j \in Pending' : req'[j] = "full"
      BY <1>1, <1>2, <1>3, <1>4, PendingIds DEF PlacesOK
    <2>5. printer' = "unlinkreq" => data'[jp'] = NoFile
      <3>1. printer' = "unlinkreq" => printer = "unlinkreq" /\ jp' = jp /\ jp \in Pending
        BY <1>1 DEF OwnStep, TypeOK, Busy, Pending, NoJob
      <3>2. QED
        BY <1>1, <1>2, <1>4, <3>1, PendingIds DEF PlacesOK
    <2>6. QED
      BY <2>1, <2>2, <2>3, <2>4, <2>5 DEF PlacesOK, Distinct, Has
  <1>7. DataOK'
    <2> SUFFICES ASSUME NEW j \in Ids, data'[j] # NoFile
                 PROVE  \E d \in Clients : data'[j] \in Of(d) /\ (data'[j] # <<>> => job'[d] = j)
      BY DEF DataOK
    <2>1. CASE data'[j] = data[j]
      <3>1. PICK d \in Clients : data[j] \in Of(d) /\ (data[j] # <<>> => job[d] = j)
        BY <1>1, <2>1 DEF DataOK
      <3>2. job'[d] = job[d] \/ job[d] = NoJob
        BY <1>1, <1>5 DEF OwnStep, ThreadOK
      <3>3. QED
        BY <2>1, <3>1, <3>2 DEF Ids, NoJob
    <2>2. CASE data'[j] # data[j]
      BY <1>2, <2>2 DEF OwnStep
    <2>3. QED
      BY <2>1, <2>2
  <1>8. ASSUME NEW d \in Clients, d # c PROVE ThreadOK(d)'
    <2>1. ThreadOK(d) /\ main' = main
      BY DEF SpoolInv, OwnStep
    <2>2. Has(d) => /\ data'[job[d]] = data[job[d]] /\ req'[job[d]] = req[job[d]]
                    /\ job[d] \notin Pending'
      BY <1>3, <1>4, <1>5, <1>8, <2>1 DEF ThreadOK
    <2>3. Has(d) => job[d] \in 1..(nextjob' - 1)
      BY <1>1, <2>1 DEF ThreadOK, OwnStep, TypeOK
    <2>4. QED
      BY <1>5, <1>8, <2>1, <2>2, <2>3 DEF ThreadOK, OwnStep, HasFile, Has, Working
  <1>9. ASSUME NEW d \in Clients, d # c, NEW j \in Ids, data'[j] = Document(d)
        PROVE  data[j] = Document(d) /\ req'[j] = req[j]
    <2>1. data'[j] \notin Of(c) \cup {NoFile}
      BY <1>9, OfFacts
    <2>2. QED
      BY <1>9, <2>1 DEF OwnStep
  <1>10. ASSUME NEW d \in Clients PROVE PaperOK(d)' /\ RejectedOK(d)'
    <2>1. PaperOK(d) /\ RejectedOK(d)
      BY DEF SpoolInv
    <2>2. UNCHANGED paper /\ jp' = jp /\ (printer' = "unlinkdata" <=> printer = "unlinkdata")
          /\ (printer = "unlinkdata" => jp \in Ids /\ jp \in Pending)
      BY <1>1 DEF OwnStep, TypeOK, Busy, Pending, NoJob
    <2>3. CASE d # c
      <3>1. job'[d] = job[d] /\ Has(d)' = Has(d) /\ reply'[d] = reply[d]
        BY <1>5, <2>3 DEF OwnStep
      <3>2. PaperOK(d)'
        BY <1>9, <2>1, <2>2, <2>3, <3>1 DEF PaperOK, paper
      <3>3. RejectedOK(d)'
        BY <1>9, <2>1, <2>2, <2>3, <3>1 DEF RejectedOK, paper
      <3>4. QED
        BY <3>2, <3>3
    <2>4. CASE d = c
      <3>1. ASSUME NEW j \in Ids, data'[j] = Document(c)
            PROVE  \/ Has(c) /\ j = job[c]
                   \/ data[j] = Document(c) /\ req'[j] = req[j] /\ job[c] = j
        <4>1. CASE Has(c) /\ j = job[c]
          BY <4>1
        <4>2. CASE ~(Has(c) /\ j = job[c])
          BY <1>1, <1>4, <3>1, <4>2, DocumentAt
        <4>3. QED
          BY <4>1, <4>2
      <3>2. copies' = copies /\ again' = again /\ copies[c] \in Nat
        BY <1>1, <2>2 DEF paper, TypeOK
      <3>3. CASE Has(c) \/ job[c] = NoJob
        <4>1. copies[c] = 0
          BY <2>1, <2>4, <3>3 DEF PaperOK
        <4>2. \A j \in Ids : data'[j] = Document(c) => Has(c) /\ j = job[c]
          BY <3>1, <3>3 DEF Ids, NoJob
        <4>3. PaperOK(c)'
          BY <1>2, <2>2, <3>2, <4>1, <4>2 DEF PaperOK
        <4>4. RejectedOK(c)'
          BY <3>2, <4>1, <4>2 DEF RejectedOK, OwnStep
        <4>5. QED
          BY <2>4, <4>3, <4>4
      <3>4. CASE ~Has(c) /\ job[c] # NoJob
        <4>1. ~Has(c)' /\ job'[c] = job[c]
          BY <1>1, <3>4 DEF OwnStep, ThreadOK
        <4>2. \A j \in Ids : data'[j] = data[j] /\ req'[j] = req[j]
          BY <1>4, <3>4
        <4>3. PaperOK(c)'
          BY <2>1, <2>2, <2>4, <3>2, <3>4, <4>1, <4>2 DEF PaperOK
        <4>4. RejectedOK(c)'
          BY <2>1, <2>4, <3>2, <3>4, <4>1, <4>2 DEF RejectedOK, OwnStep
        <4>5. QED
          BY <2>4, <4>3, <4>4
      <3>5. QED
        BY <3>3, <3>4
    <2>5. QED
      BY <2>3, <2>4
  <1>11. ASSUME Slow = {}, NEW d \in Clients, d # c PROVE WholeOK(d)' /\ KeptOK(d)'
    <2>1. WholeOK(d) /\ KeptOK(d) /\ ThreadOK(d) /\ main' = main /\ toscan' = toscan
      BY <1>11 DEF SpoolInv, OwnStep
    <2>2. Has(d) => job[d] \in Ids /\ data'[job[d]] = data[job[d]]
      BY <1>4, <1>5, <1>11
    <2>3. WholeOK(d)'
      BY <1>5, <1>11, <2>1, <2>2 DEF WholeOK, OwnStep, Has, Working
    <2>4. Owed(d)' = Owed(d) /\ job'[d] = job[d] /\ thread'[d] = thread[d]
          /\ cancelled' = cancelled /\ jp' = jp
      BY <1>5, <1>11 DEF Owed, OwnStep, paper
    <2>5. Owed(d) => job[d] \in Ids /\ OnDisk(d)
      BY <2>1 DEF KeptOK, Kept, Owed, ThreadOK, Ids
    <2>6. Owed(d) => ~(Has(c) /\ job[d] = job[c])
      BY <1>1, <1>11, <2>5, OfFacts DEF OnDisk, ThreadOK, HasFile
    <2>7. Owed(d) => OnDisk(d)'
      BY <1>4, <2>4, <2>5, <2>6 DEF OnDisk
    <2>8. Queued \subseteq Queued' /\ Pending \subseteq Pending'
      BY <1>3
    <2>9. QED
      BY <2>1, <2>3, <2>4, <2>7, <2>8 DEF KeptOK, Kept
  <1>12. ~garbled'
    BY DEF SpoolInv, OwnStep, paper
  <1>13. QED
    BY <1>6, <1>7, <1>8, <1>10, <1>11, <1>12 DEF SpoolInv

-----------------------------------------------------------------------------
(* The steps of a thread on the files of its number                        *)

FileSteps(c) ==
  \/ CreateData(c) \/ CopyPart(c) \/ CreateControl(c) \/ WriteControl(c)
  \/ UnlinkControl(c) \/ UnlinkRejected(c)

LEMMA FileStepsOwn ==
  ASSUME SpoolInv, NEW c \in Clients, FileSteps(c)
  PROVE  /\ Has(c) /\ TypeOK' /\ OwnStep(c)
         /\ job' = job /\ nextjob' = nextjob /\ UNCHANGED <<user, sent, cancelled, queue, main>>
  <1> USE DEF FileSteps, CreateData, CopyPart, CreateControl, WriteControl, UnlinkControl,
              UnlinkRejected, GotoT, client, process
  <1>1. TypeOK /\ ThreadOK(c)
    BY DEF SpoolInv
  <1>2. Has(c)
    BY DEF Has, Working
  <1>3. job[c] \in Ids /\ (thread[c] # "create" => data[job[c]] \in Of(c))
    BY <1>1, <1>2 DEF TypeOK, ThreadOK, NoJob
  <1>4. /\ UNCHANGED <<jobfile, queue, nextjob, printer, jp, copies, garbled, again, user, sent, job,
                       main, toscan, signal, cancelled>>
    BY DEF jobs, paper, process
  <1>5. /\ data' \in [Ids -> Seq(Clients) \cup {NoFile}]
        /\ data'[job[c]] \in Of(c) \cup {NoFile}
        /\ \A j \in Ids : j # job[c] => data'[j] = data[j]
    <2>1. \/ data' = data
          \/ data' = [data EXCEPT ![job[c]] = <<>>]
          \/ data' = [data EXCEPT ![job[c]] = NoFile]
          \/ /\ data' = [data EXCEPT ![job[c]] = IF @ = NoFile THEN @ ELSE Append(@, c)]
             /\ thread[c] = "copy"
      OBVIOUS
    <2>2. data[job[c]] \in Of(c) \cup {NoFile}
      BY <1>1, <1>3 DEF ThreadOK, HasFile
    <2>3. \E f \in Of(c) \cup {NoFile} : data' = [data EXCEPT ![job[c]] = f]
      <3>1. CASE data' = data
        BY <1>1, <1>3, <2>2, <3>1 DEF TypeOK
      <3>2. CASE thread[c] = "copy" /\ data' # data
        BY <1>3, <2>1, <2>2, <3>2, OfFacts
      <3>3. CASE thread[c] # "copy" /\ data' # data
        BY <2>1, <3>3, OfFacts
      <3>4. QED
        BY <3>1, <3>2, <3>3
    <2>4. QED
      BY <1>1, <1>3, <2>3, OfFacts DEF TypeOK
  <1>6. /\ req' \in [Ids -> {"absent", "empty", "full"}]
        /\ \A j \in Ids : j # job[c] => req'[j] = req[j]
    BY <1>1, <1>3 DEF TypeOK
  <1>7. /\ thread' \in [Clients -> Stages] /\ reply' \in [Clients -> Ids \cup {0, -1}]
        /\ \A d \in Clients : d # c => thread'[d] = thread[d] /\ reply'[d] = reply[d]
    <2>1. \/ thread' = thread
          \/ \E l \in Stages : thread' = [thread EXCEPT ![c] = l]
      BY DEF Stages, Working
    <2>2. reply' = reply \/ reply' = [reply EXCEPT ![c] = -1]
      OBVIOUS
    <2>3. /\ thread' \in [Clients -> Stages]
          /\ \A d \in Clients : d # c => thread'[d] = thread[d]
      BY ONLY <1>1, <2>1 DEF TypeOK
    <2>4. /\ reply' \in [Clients -> Ids \cup {0, -1}]
          /\ \A d \in Clients : d # c => reply'[d] = reply[d]
      BY ONLY <1>1, <2>2 DEF TypeOK
    <2>5. QED
      BY <2>3, <2>4
  <1>8. /\ got' \in [Clients -> 0..NParts]
        /\ \A d \in Clients : d # c => got'[d] = got[d]
    <2>1. got' = got \/ (got[c] < sent[c] /\ got' = [got EXCEPT ![c] = @ + 1])
      OBVIOUS
    <2>2. got[c] < sent[c] => got[c] + 1 \in 0..NParts
      BY <1>1, PartsAssumption DEF TypeOK
    <2>3. QED
      BY <1>1, <2>1, <2>2 DEF TypeOK
  <1>9. TypeOK'
    BY <1>1, <1>4, <1>5, <1>6, <1>7, <1>8 DEF TypeOK
  <1>10. reply'[c] = -1 => req'[job[c]] # "full"
    <2>1. reply[c] = -1 => thread[c] \in {"unlinkreq", "unlinkdata"}
      BY <1>1 DEF ThreadOK
    <2>2. CASE reply'[c] = reply[c]
      BY <1>1, <1>3, <2>1, <2>2 DEF TypeOK, ThreadOK
    <2>3. CASE reply'[c] # reply[c]
      BY <1>1, <1>3, <2>3 DEF TypeOK, ThreadOK, HasFile
    <2>4. QED
      BY <2>2, <2>3
  <1>11. OwnStep(c)
    BY <1>1, <1>2, <1>4, <1>5, <1>6, <1>7, <1>8, <1>10 DEF OwnStep, paper, TypeOK
  <1>12. QED
    BY <1>2, <1>4, <1>9, <1>11

LEMMA NumbersKept ==
  ASSUME SpoolInv, NEW c \in Clients, OwnStep(c), job' = job, nextjob' = nextjob
  PROVE  NumbersOK'
  <1>1. TypeOK /\ NumbersOK /\ ThreadOK(c) /\ jobfile' = jobfile /\ main' = main
    BY DEF SpoolInv, OwnStep
  <1>2. ASSUME NEW j \in Ids, HasFile(j)'
        PROVE  j < nextjob /\ (main = "down" => j < jobfile)
    <2>1. HasFile(j) \/ (Has(c) /\ j = job[c])
      BY <1>2 DEF OwnStep, HasFile
    <2>2. Has(c) => job[c] < nextjob /\ main # "down"
      BY <1>1 DEF ThreadOK, TypeOK, Has, Working
    <2>3. QED
      BY <1>1, <2>1, <2>2 DEF NumbersOK
  <1>3. QED
    BY <1>1, <1>2 DEF NumbersOK

LEMMA FileStepsKeep ==
  ASSUME SpoolInv, NEW c \in Clients, FileSteps(c)
  PROVE  SpoolInv'
  <1>1. /\ Has(c) /\ TypeOK' /\ OwnStep(c) /\ job' = job /\ nextjob' = nextjob
        /\ UNCHANGED <<user, sent, cancelled, queue, main>>
    BY FileStepsOwn
  <1>2. TypeOK /\ ThreadOK(c) /\ job[c] \in Ids
    BY <1>1 DEF SpoolInv, TypeOK, ThreadOK, NoJob
  <1> USE DEF FileSteps, CreateData, CopyPart, CreateControl, WriteControl, UnlinkControl,
              UnlinkRejected, GotoT
  <1>3. Pending' = Pending
    BY <1>1 DEF OwnStep, Pending, Queued
  <1>4. ThreadOK(c)'
    <2>1. thread'[c] \in Working \cup {"cleanup"} /\ main' = "accept"
          /\ signal' = signal /\ job'[c] \in 1..(nextjob' - 1) /\ job'[c] \notin Pending'
      <3>1. thread'[c] \in Working \cup {"cleanup"}
        BY <1>1, <1>2 DEF TypeOK, Working, Has
      <3>2. UNCHANGED <<main, signal>>
        BY DEF process
      <3>3. main = "accept" /\ job[c] \in 1..(nextjob - 1) /\ job[c] \notin Pending
        BY <1>1, <1>2 DEF ThreadOK, Has, Working
      <3>4. QED
        BY <1>1, <1>3, <3>1, <3>2, <3>3
    <2>2. CASE CreateData(c)
      BY <1>1, <1>2, <2>1, <2>2, OfFacts DEF TypeOK, ThreadOK, Has, HasFile, Working
    <2>3. CASE CopyPart(c)
      <3>1. data[job[c]] \in Of(c) /\ data[job[c]] # NoFile
        BY <1>1, <1>2, <2>3, OfFacts DEF ThreadOK
      <3>2. data'[job[c]] = data[job[c]] \/ data'[job[c]] = Append(data[job[c]], c)
        BY <1>2, <2>3, <3>1 DEF TypeOK
      <3>3. \A s \in Of(c) : Append(s, c) \in Of(c)
        BY OfFacts
      <3>4. data'[job[c]] \in Of(c)
        BY <3>1, <3>2, <3>3, Zenon
      <3>5. QED
        BY <1>1, <1>2, <2>1, <2>3, <3>4 DEF TypeOK, ThreadOK, Has, HasFile, Working
    <2>4. CASE CreateControl(c)
      BY <1>1, <1>2, <2>1, <2>4 DEF TypeOK, ThreadOK, Has, HasFile, Working
    <2>5. CASE WriteControl(c)
      BY <1>1, <1>2, <2>1, <2>5 DEF TypeOK, ThreadOK, Has, HasFile, Working
    <2>6. CASE UnlinkControl(c)
      BY <1>1, <1>2, <2>1, <2>6 DEF TypeOK, ThreadOK, Has, HasFile, Working, client
    <2>7. CASE UnlinkRejected(c)
      BY <1>1, <1>2, <2>1, <2>7 DEF TypeOK, ThreadOK, Has, HasFile, Working, client
    <2>8. QED
      BY <2>2, <2>3, <2>4, <2>5, <2>6, <2>7
  <1>5. ASSUME Slow = {} PROVE WholeOK(c)' /\ KeptOK(c)'
    <2>1. WholeOK(c)
      BY <1>5 DEF SpoolInv
    <2>2. KeptOK(c)'
      <3>1. reply'[c] \in {0, -1}
        BY <1>2 DEF TypeOK, ThreadOK, client
      <3>2. QED
        BY <3>1 DEF KeptOK, Kept, Owed, Ids
    <2>3. WholeOK(c)'
      <3>1. CASE CreateData(c)
        BY <1>1, <1>2, <2>1, <3>1 DEF WholeOK, TypeOK, process
      <3>2. CASE CopyPart(c)
        <4>1. data[job[c]] \in Of(c) /\ data[job[c]] # NoFile
          BY <1>1, <1>2, <3>2, OfFacts DEF ThreadOK
        <4>2. thread'[c] = "copy" => data'[job[c]] = Append(data[job[c]], c)
          BY <1>2, <3>2, <4>1 DEF TypeOK
        <4>3. thread'[c] = "copy" => Len(data'[job[c]]) = got'[c] /\ got'[c] <= sent[c]
          BY <1>2, <2>1, <3>2, <4>1, <4>2, OfFacts DEF WholeOK, TypeOK
        <4>4. QED
          BY <1>1, <1>2, <3>2, <4>3 DEF WholeOK, TypeOK
      <3>3. CASE CreateControl(c) \/ WriteControl(c) \/ UnlinkControl(c) \/ UnlinkRejected(c)
        BY <1>1, <1>2, <2>1, <3>3 DEF WholeOK, TypeOK
      <3>4. QED
        BY <3>1, <3>2, <3>3
    <2>4. QED
      BY <2>2, <2>3
  <1>6. QED
    BY <1>1, <1>4, <1>5, NumbersKept, OwnStepKeeps

-----------------------------------------------------------------------------
(* The other steps of a client and its thread                              *)

QuietSteps(c) ==
  \/ Connect(c) \/ SendPart(c) \/ Die(c) \/ AddWorker(c) \/ ReadHeader(c) \/ CopyEnds(c)
  \/ Reply(c) \/ SignalPrinter(c) \/ Cleanup(c) \/ Cancelled(c)

LEMMA QuietStepsKeep ==
  ASSUME SpoolInv, NEW c \in Clients, QuietSteps(c)
  PROVE  SpoolInv'
  <1> USE DEF QuietSteps, Connect, SendPart, Die, AddWorker, ReadHeader, CopyEnds, Reply,
              SignalPrinter, Signal, Cleanup, Cancelled, GotoT, client, process, disk, jobs, spool,
              threads
  <1>1. TypeOK /\ ThreadOK(c)
    BY DEF SpoolInv
  <1>2. UNCHANGED <<data, req, jobfile, queue, nextjob, jp, paper, job, got, main, toscan, signal,
                    cancelled>>
    OBVIOUS
  <1>3. printer' = printer \/ (printer = "waiting" /\ printer' = "get")
    OBVIOUS
  <1>4. thread' = thread \/ \E l \in Stages : thread' = [thread EXCEPT ![c] = l]
    BY DEF Stages, Working
  <1>5. user' = user \/ \E u \in {"sending", "dead"} : user' = [user EXCEPT ![c] = u]
    OBVIOUS
  <1>6. \/ reply' = reply
        \/ /\ thread[c] = "header" /\ thread'[c] = "cleanup"
           /\ reply' = [reply EXCEPT ![c] = -1]
        \/ thread[c] = "reply" /\ reply' = [reply EXCEPT ![c] = job[c]]
    BY <1>1 DEF TypeOK
  <1>7. sent' = sent \/ (sent[c] < NParts /\ sent' = [sent EXCEPT ![c] = @ + 1])
    OBVIOUS
  <1>8. TypeOK'
    <2>1. thread' \in [Clients -> Stages] /\ user' \in [Clients -> {"idle", "sending", "dead"}]
      BY <1>1, <1>4, <1>5 DEF TypeOK
    <2>2. reply' \in [Clients -> Ids \cup {0, -1}]
      BY <1>1, <1>6 DEF TypeOK, NoJob
    <2>3. sent[c] < NParts => sent[c] + 1 \in 0..NParts
      BY <1>1, PartsAssumption DEF TypeOK
    <2>4. sent' \in [Clients -> 0..NParts]
      BY <1>1, <1>7, <2>3 DEF TypeOK
    <2>5. printer' \in Busy \cup {"get", "waiting"} /\ (jp' # NoJob <=> printer' \in Busy)
      BY <1>1, <1>2, <1>3 DEF TypeOK, Busy
    <2>6. QED
      BY <1>1, <1>2, <2>1, <2>2, <2>4, <2>5 DEF TypeOK, paper
  <1>9. /\ Has(c)' => Has(c)
        /\ reply'[c] = -1 => reply[c] = -1 \/ job[c] = NoJob
        /\ reply'[c] = -1 /\ Has(c) => req[job[c]] # "full"
    <2>1. Has(c)' => Has(c)
      BY <1>1 DEF Has, Working, TypeOK
    <2>2. reply'[c] = -1 => reply[c] = -1 \/ job[c] = NoJob
      BY <1>1, <1>6 DEF TypeOK, ThreadOK, Ids, NoJob
    <2>3. reply[c] = -1 /\ Has(c) => thread[c] \in {"unlinkreq", "unlinkdata"}
      BY <1>1 DEF ThreadOK, Has, Working, TypeOK, Ids, NoJob
    <2>4. Has(c) => job[c] # NoJob
      BY <1>1 DEF ThreadOK, NoJob
    <2>5. QED
      BY <1>1, <2>1, <2>2, <2>3, <2>4 DEF ThreadOK
  <1>10. OwnStep(c)
    <2>1. \A d \in Clients \ {c} :
            /\ thread'[d] = thread[d] /\ job'[d] = job[d] /\ got'[d] = got[d]
            /\ user'[d] = user[d] /\ sent'[d] = sent[d] /\ reply'[d] = reply[d]
      BY <1>1, <1>2, <1>4, <1>5, <1>6, <1>7 DEF TypeOK
    <2>2. QED
      BY <1>1, <1>2, <1>3, <1>9, <2>1 DEF OwnStep, TypeOK
  <1>11. ThreadOK(c)'
    <2>1. Pending' = Pending /\ HasFile(job[c])' = HasFile(job[c])
      BY <1>2 DEF Pending, Queued, HasFile
    <2>2. CASE Connect(c) \/ AddWorker(c) \/ ReadHeader(c)
      BY <1>1, <1>2, <2>1, <2>2 DEF ThreadOK, TypeOK, Has, Working, HasFile
    <2>3. CASE SendPart(c) \/ Die(c)
      BY <1>1, <1>2, <2>1, <2>3 DEF ThreadOK, TypeOK, Has, Working, HasFile
    <2>4. CASE CopyEnds(c) \/ Reply(c) \/ SignalPrinter(c)
      BY <1>1, <1>2, <2>1, <2>4 DEF ThreadOK, TypeOK, Has, Working, HasFile
    <2>5. CASE Cleanup(c) \/ Cancelled(c)
      BY <1>1, <1>2, <2>1, <2>5 DEF ThreadOK, TypeOK, Has, Working, HasFile
    <2>6. QED
      BY <2>2, <2>3, <2>4, <2>5
  <1>12. ASSUME Slow = {} PROVE WholeOK(c)'
    <2>1. WholeOK(c)
      BY <1>12 DEF SpoolInv
    <2>2. CASE CopyEnds(c)
      <3>1. user[c] # "dead" => data[job[c]] = Document(c)
        <4>1. data[job[c]] \in Of(c) /\ Len(data[job[c]]) = got[c]
          BY <1>1, <2>1, <2>2 DEF ThreadOK, WholeOK, Has, Working
        <4>2. user[c] # "dead" => got[c] = NParts
          BY <1>12, <2>2
        <4>3. QED
          BY <4>1, <4>2, OfFacts
      <3>2. QED
        BY <1>1, <1>2, <2>2, <3>1 DEF WholeOK, TypeOK
    <2>3. CASE SendPart(c)
      <3>1. got[c] \in Nat /\ sent[c] \in Nat /\ sent'[c] = sent[c] + 1
        BY <1>1, <2>3 DEF TypeOK
      <3>2. UNCHANGED <<thread, user>>
        BY <2>3
      <3>3. QED
        BY <1>2, <2>1, <3>1, <3>2 DEF WholeOK
    <2>4. CASE ~CopyEnds(c) /\ ~SendPart(c)
      <3>1. sent' = sent
        BY <2>4
      <3>2. thread'[c] \in {"none", "add", "header", "number", "create"} =>
              thread[c] \in {"none", "add", "header", "number", "create"}
        BY <1>1, <2>4 DEF TypeOK, ThreadOK
      <3>3. thread'[c] \in {"copy", "control", "write", "reply"} =>
              thread'[c] = thread[c] /\ (user'[c] # "dead" => user[c] # "dead")
        BY <1>1, <2>4 DEF TypeOK
      <3>4. QED
        BY <1>2, <2>1, <3>1, <3>2, <3>3 DEF WholeOK
    <2>5. QED
      BY <2>2, <2>3, <2>4
  <1>13. ASSUME Slow = {} PROVE KeptOK(c)'
    <2>1. WholeOK(c) /\ KeptOK(c)
      BY <1>13 DEF SpoolInv
    <2>2. Queued' = Queued /\ Pending' = Pending /\ OnDisk(c)' = OnDisk(c)
      BY <1>2 DEF Pending, Queued, OnDisk
    <2>3. CASE Reply(c)
      <3>1. Owed(c)' => OnDisk(c) /\ main = "accept" /\ thread'[c] = "queue"
        BY <1>1, <2>1, <2>3 DEF WholeOK, ThreadOK, OnDisk, Owed, TypeOK
      <3>2. QED
        BY <1>2, <2>2, <3>1 DEF KeptOK, Kept
    <2>4. CASE ~Reply(c)
      <3>1. Owed(c)' => Owed(c)
        BY <1>1, <1>2, <2>4 DEF Owed, TypeOK, paper, Ids
      <3>2. thread[c] = "queue" => thread'[c] = "queue" \/ c \in cancelled
        BY <1>1, <2>4 DEF TypeOK, ThreadOK
      <3>3. QED
        BY <1>2, <2>1, <2>2, <3>1, <3>2 DEF KeptOK, Kept
    <2>5. QED
      BY <2>3, <2>4
  <1>14. QED
    BY <1>2, <1>8, <1>10, <1>11, <1>12, <1>13, NumbersKept, OwnStepKeeps

-----------------------------------------------------------------------------
(* Giving out a number                                                     *)

Numbered == {c \in Clients : job[c] # NoJob}

LEMMA NextInIds ==
  ASSUME SpoolInv, NEW c \in Clients, thread[c] = "number"
  PROVE  nextjob \in Ids /\ nextjob <= Cardinality(Numbered \cup {c})
  <1>1. c \notin Numbered /\ nextjob \in Nat \ {0} /\ nextjob <= 1 + Cardinality(Numbered)
    BY DEF SpoolInv, TypeOK, ThreadOK, NumbersOK, Numbered
  <1>2. /\ IsFiniteSet(Numbered) /\ Numbered \cup {c} \subseteq Clients
        /\ Cardinality(Clients) \in Nat
    BY ClientsAssumption, FS_Subset, FS_CardinalityType DEF Numbered
  <1>3. Cardinality(Numbered \cup {c}) = Cardinality(Numbered) + 1
    BY <1>1, <1>2, FS_AddElement
  <1>4. Cardinality(Numbered \cup {c}) <= Cardinality(Clients)
    BY <1>2, ClientsAssumption, FS_Subset
  <1>5. Cardinality(Numbered) \in Nat
    BY <1>2, FS_CardinalityType
  <1>6. QED
    BY <1>1, <1>2, <1>3, <1>4, <1>5 DEF Ids

LEMMA GetNewJobnoKeeps ==
  ASSUME SpoolInv, NEW c \in Clients, GetNewJobno(c)
  PROVE  SpoolInv'
  <1> USE DEF GetNewJobno, GotoT, client, process, disk
  <1>1. TypeOK /\ NumbersOK /\ ThreadOK(c) /\ thread[c] = "number" /\ job[c] = NoJob
    BY DEF SpoolInv, ThreadOK
  <1>2. /\ job' = [job EXCEPT ![c] = nextjob] /\ nextjob' = nextjob + 1
        /\ thread' = [thread EXCEPT ![c] = "create"]
        /\ UNCHANGED <<data, req, jobfile, queue, printer, jp, paper, user, sent, reply, got, main,
                       toscan, signal, cancelled>>
    OBVIOUS
  <1>3. nextjob \in Ids /\ nextjob \in Nat \ {0} /\ nextjob <= Cardinality(Numbered \cup {c})
    BY <1>1, NextInIds DEF TypeOK
  <1>4. TypeOK'
    BY <1>1, <1>2, <1>3 DEF TypeOK, Stages, Working, paper
  <1>5. NumbersOK'
    <2>1. {d \in Clients : job'[d] # NoJob} = Numbered \cup {c}
      BY <1>1, <1>2, <1>3 DEF TypeOK, Numbered, NoJob
    <2>2. Cardinality(Numbered \cup {c}) \in Nat
      <3>1. Numbered \cup {c} \subseteq Clients
        BY DEF Numbered
      <3>2. QED
        BY <3>1, ClientsAssumption, FS_Subset, FS_CardinalityType
    <2>3. nextjob' <= 1 + Cardinality({d \in Clients : job'[d] # NoJob})
      BY <1>2, <1>3, <2>1, <2>2
    <2>4. QED
      BY <1>1, <1>2, <1>3, <2>3 DEF NumbersOK, HasFile, TypeOK, Ids
  <1>6. OwnStep(c)
    <2>1. \A d \in Clients \ {c} : thread'[d] = thread[d] /\ job'[d] = job[d]
      BY <1>1, <1>2 DEF TypeOK
    <2>2. ~Has(c) /\ job'[c] = nextjob /\ reply[c] = 0
      BY <1>1, <1>2 DEF Has, Working, TypeOK, ThreadOK
    <2>3. QED
      BY <1>1, <1>2, <1>3, <2>1, <2>2 DEF OwnStep
  <1>7. ThreadOK(c)'
    <2>1. ~HasFile(nextjob) /\ nextjob \notin Pending
      BY <1>3, NextIsNew
    <2>2. job'[c] = nextjob /\ Pending' = Pending /\ data' = data /\ req' = req
      BY <1>1, <1>2 DEF TypeOK, Pending, Queued
    <2>3. thread'[c] = "create" /\ Has(c)' /\ nextjob \in 1..(nextjob' - 1)
      BY <1>1, <1>2, <1>3 DEF TypeOK, Has, Working
    <2>4. ~HasFile(job[c])'
      BY <2>1, <2>2 DEF HasFile
    <2>5. QED
      BY <1>1, <1>2, <2>1, <2>2, <2>3, <2>4 DEF ThreadOK
  <1>8. ASSUME Slow = {} PROVE WholeOK(c)' /\ KeptOK(c)'
    <2>1. WholeOK(c)
      BY <1>8 DEF SpoolInv
    <2>2. WholeOK(c)'
      BY <1>1, <1>2, <2>1 DEF WholeOK, TypeOK
    <2>3. reply'[c] = 0
      BY <1>1, <1>2 DEF ThreadOK
    <2>4. QED
      BY <2>2, <2>3 DEF KeptOK, Kept, Owed, Ids
  <1>9. QED
    BY <1>4, <1>5, <1>6, <1>7, <1>8, OwnStepKeeps

LEMMA QueueJobKeeps ==
  ASSUME SpoolInv, NEW c \in Clients, QueueJob(c)
  PROVE  SpoolInv'
  <1> USE DEF QueueJob, AddJob, GotoT, client, process, disk
  <1>1. TypeOK /\ ThreadOK(c) /\ thread[c] = "queue" /\ Has(c)
    BY DEF SpoolInv, Has, Working
  <1>2. /\ queue' = Append(queue, job[c]) /\ thread' = [thread EXCEPT ![c] = "signal"]
        /\ UNCHANGED <<data, req, jobfile, nextjob, printer, jp, paper, user, sent, reply, got, job,
                       main, toscan, signal, cancelled>>
    OBVIOUS
  <1>3. job[c] \in Ids /\ queue \in Seq(Ids)
    BY <1>1 DEF ThreadOK, TypeOK, NoJob
  <1>4. queue' \in Seq(Ids) /\ job[c] \in Queued'
    BY <1>2, <1>3, AppendFacts DEF Queued, Elems
  <1>5. TypeOK'
    BY <1>1, <1>2, <1>4 DEF TypeOK, Stages, paper
  <1>6. OwnStep(c)
    <2>1. \A d \in Clients \ {c} : thread'[d] = thread[d]
      BY <1>1, <1>2 DEF TypeOK
    <2>2. ~Has(c)' /\ thread'[c] = "signal" /\ (reply[c] = -1 => req[job[c]] # "full")
      BY <1>1, <1>2, <1>3 DEF Has, Working, TypeOK, ThreadOK, Ids
    <2>3. QED
      BY <1>1, <1>2, <2>1, <2>2 DEF OwnStep, TypeOK
  <1>7. ThreadOK(c)'
    <2>1. thread'[c] = "signal" /\ ~Has(c)'
      BY <1>1, <1>2 DEF Has, Working, TypeOK
    <2>2. QED
      BY <1>1, <1>2, <2>1 DEF ThreadOK
  <1>8. ASSUME Slow = {} PROVE WholeOK(c)' /\ KeptOK(c)'
    <2>1. WholeOK(c) /\ KeptOK(c) /\ thread'[c] = "signal"
      BY <1>1, <1>2, <1>8 DEF SpoolInv, TypeOK
    <2>2. Owed(c)' = Owed(c) /\ OnDisk(c)' = OnDisk(c) /\ main' = "accept"
      BY <1>1, <1>2 DEF Owed, OnDisk, paper, ThreadOK
    <2>3. QED
      BY <1>2, <1>4, <2>1, <2>2 DEF WholeOK, KeptOK, Kept
  <1>9. QED
    BY <1>2, <1>5, <1>6, <1>7, <1>8, NumbersKept, OwnStepKeeps

-----------------------------------------------------------------------------
(* The printer thread: it touches only the files of its job, and a job it  *)
(* lets go of has no document left.                                        *)

PrinterFrame ==
  /\ UNCHANGED <<client, threads, process, nextjob>> /\ main # "down"
  /\ jobfile' \in {jobfile, nextjob}
  /\ Distinct(queue') /\ jp' \notin Queued' /\ Pending' \subseteq Pending
  /\ \A j \in Pending : j \in Pending' \/ data'[j] = NoFile
  /\ \A j \in Ids :
       \/ data'[j] = data[j] /\ req'[j] = req[j]
       \/ /\ j = jp /\ data'[j] = NoFile /\ req'[j] \in {req[j], "absent"}
          /\ j \in Pending' => req'[j] = req[j]
          /\ \A c \in Clients : data[j] = Document(c) => copies[c] > 0
  /\ printer' = "unlinkreq" => data'[jp'] = NoFile
  /\ \A c \in Clients : copies'[c] >= copies[c] /\ (reply[c] = -1 => copies'[c] = 0)
  /\ ~garbled'

LEMMA PrinterFrameKeeps ==
  ASSUME SpoolInv, PrinterFrame, TypeOK', \A c \in Clients : PaperOK(c)'
  PROVE  SpoolInv'
  <1> USE DEF client, threads, process
  <1>1. /\ TypeOK /\ NumbersOK /\ PlacesOK /\ DataOK
        /\ \A c \in Clients : ThreadOK(c) /\ PaperOK(c) /\ RejectedOK(c)
    BY DEF SpoolInv
  <1>2. /\ UNCHANGED <<user, sent, reply, thread, job, got, main, toscan, signal, cancelled, nextjob>>
        /\ main # "down" /\ \A c \in Clients : Has(c)' = Has(c)
    BY DEF PrinterFrame, Has
  <1>3. jp \in Pending \/ jp = NoJob
    BY DEF Pending
  <1>4. NumbersOK'
    <2>1. \A j \in Ids : HasFile(j)' => HasFile(j)
      BY <1>1 DEF PrinterFrame, HasFile, TypeOK
    <2>2. QED
      BY <1>1, <1>2, <2>1 DEF NumbersOK, PrinterFrame, TypeOK
  <1>5. PlacesOK'
    <2>1. \A j \in Pending' : req'[j] = "full"
      BY <1>1, PendingIds DEF PrinterFrame, PlacesOK
    <2>2. toscan' \cap Pending' = {} /\ (main' \in {"accept", "down"} => toscan' = {})
      BY <1>1, <1>2 DEF PlacesOK, PrinterFrame
    <2>3. \A c, d \in Clients : Has(c)' /\ Has(d)' /\ job'[c] = job'[d] => c = d
      BY <1>1, <1>2 DEF PlacesOK
    <2>4. QED
      BY <1>2, <2>1, <2>2, <2>3 DEF PlacesOK, PrinterFrame, Distinct, Has
  <1>6. DataOK'
    BY <1>1, <1>2 DEF DataOK, PrinterFrame
  <1>7. ASSUME NEW c \in Clients PROVE ThreadOK(c)'
    <2>1. Has(c) => /\ job[c] \in Ids /\ job[c] \notin Pending' /\ job[c] # jp
                    /\ data'[job[c]] = data[job[c]] /\ req'[job[c]] = req[job[c]]
      BY <1>1, <1>3 DEF ThreadOK, TypeOK, PrinterFrame, NoJob
    <2>2. QED
      BY <1>1, <1>2, <2>1 DEF ThreadOK, Has, Working, HasFile
  <1>8. ASSUME NEW c \in Clients PROVE RejectedOK(c)'
    <2>1. \A j \in Ids : data'[j] = Document(c) => data[j] = Document(c) /\ req'[j] = req[j]
      BY OfFacts DEF PrinterFrame
    <2>2. QED
      BY <1>1, <1>2, <2>1 DEF RejectedOK, PrinterFrame
  <1>9. ASSUME Slow = {}, NEW c \in Clients PROVE WholeOK(c)' /\ KeptOK(c)'
    <2>1. WholeOK(c) /\ KeptOK(c)
      BY <1>9 DEF SpoolInv
    <2>2. Has(c) => data'[job[c]] = data[job[c]]
      BY <1>1, <1>3 DEF ThreadOK, TypeOK, PrinterFrame, NoJob
    <2>3. WholeOK(c)'
      BY <1>2, <2>1, <2>2 DEF WholeOK, Has, Working
    <2>4. Owed(c)' => Owed(c) /\ job[c] \in Ids /\ OnDisk(c)
      <3>1. copies[c] \in Nat /\ copies'[c] >= copies[c]
        BY <1>1 DEF PrinterFrame, TypeOK
      <3>2. Owed(c)' => Owed(c)
        BY <1>2, <3>1 DEF Owed
      <3>3. Owed(c) => job[c] \in Ids /\ OnDisk(c)
        BY <1>1, <2>1 DEF Owed, KeptOK, Kept, ThreadOK, Ids
      <3>4. QED
        BY <3>2, <3>3
    <2>5. Owed(c)' => data'[job[c]] = data[job[c]] /\ req'[job[c]] = req[job[c]]
      BY <1>1, <2>4 DEF PrinterFrame, OnDisk, Owed, TypeOK
    <2>6. Owed(c)' /\ job[c] \in Pending => job[c] \in Pending'
      BY <2>4, <2>5, OfFacts DEF PrinterFrame, OnDisk
    <2>7. QED
      BY <1>2, <2>1, <2>3, <2>4, <2>5, <2>6 DEF KeptOK, Kept, OnDisk, Pending, Ids, NoJob
  <1>10. QED
    BY <1>4, <1>5, <1>6, <1>7, <1>8, <1>9 DEF SpoolInv, PrinterFrame

(* The steps that print nothing                                            *)
LEMMA PrintsNothing ==
  ASSUME SpoolInv, PrinterFrame, TypeOK', UNCHANGED paper, printer' # "unlinkdata",
         printer = "unlinkdata" => data'[jp] = NoFile
  PROVE  SpoolInv'
  <1>1. ASSUME NEW c \in Clients PROVE PaperOK(c)'
    <2>1. PaperOK(c) /\ UNCHANGED <<copies, again, job, thread>>
      BY DEF SpoolInv, paper, PrinterFrame, threads
    <2>2. \A j \in Ids : data'[j] = Document(c) => data[j] = Document(c)
      BY OfFacts DEF PrinterFrame
    <2>3. Document(c) # NoFile
      BY OfFacts
    <2>4. QED
      BY <2>1, <2>2, <2>3 DEF PaperOK, Has
  <1>2. QED
    BY <1>1, PrinterFrameKeeps

LEMMA JobStepsKeep ==
  ASSUME SpoolInv, main # "down", UNCHANGED <<client, threads, process>>,
         GetJob \/ Defer \/ OpenData
  PROVE  SpoolInv'
  <1> USE DEF GetJob, Defer, OpenData, disk, paper
  <1>1. TypeOK /\ PlacesOK /\ Distinct(queue) /\ queue \in Seq(Ids) /\ Queued = Elems(queue)
        /\ Queued' = Elems(queue')
    BY DEF SpoolInv, TypeOK, PlacesOK, Distinct, Queued, Elems
  <1>2. UNCHANGED <<data, req, jobfile, nextjob, paper>> /\ printer # "unlinkdata"
        /\ printer' \notin {"unlinkdata", "unlinkreq"}
    BY <1>1 DEF jobs, TypeOK
  <1>3. /\ queue' \in Seq(Ids) /\ jp' \in Ids \cup {NoJob} /\ Distinct(queue') /\ jp' \notin Queued'
        /\ Pending' \subseteq Pending /\ \A j \in Pending : j \in Pending' \/ data[j] = NoFile
        /\ printer' \in Busy \cup {"get", "waiting"} /\ (jp' # NoJob <=> printer' \in Busy)
    <2>1. CASE GetJob
      <3>1. jp = NoJob
        BY <1>1, <2>1 DEF TypeOK, Busy
      <3>2. CASE queue = <<>>
        BY <1>1, <2>1, <3>1, <3>2 DEF Pending, Busy, TypeOK, PlacesOK
      <3>3. CASE queue # <<>>
        <4>1. /\ queue' = Tail(queue) /\ jp' = Head(queue) /\ printer' = "update"
              /\ Queued = Queued' \cup {jp'} /\ jp' \in Ids /\ jp' \notin Queued'
          <5>1. queue' = Tail(queue) /\ jp' = Head(queue) /\ printer' = "update"
            BY <2>1, <3>3
          <5>2. /\ Elems(queue) = Elems(Tail(queue)) \cup {Head(queue)} /\ Head(queue) \in Ids
                /\ Head(queue) \notin Elems(Tail(queue))
            BY <1>1, <3>3, TailFacts
          <5>3. QED
            BY <1>1, <5>1, <5>2
        <4>2. Pending' = Pending
          BY <1>1, <3>1, <4>1, NumbersOf DEF Pending
        <4>3. QED
          BY <1>1, <3>3, <4>1, <4>2, NumbersOf, TailFacts DEF Busy
      <3>4. QED
        BY <3>2, <3>3
    <2>2. CASE Defer
      <3>1. jp \in Ids /\ jp \notin Elems(queue)
        BY <1>1, <2>2 DEF TypeOK, Busy, PlacesOK, NoJob
      <3>2. NoJob \notin Elems(queue) \cup {jp}
        BY <1>1, <3>1, NumbersOf
      <3>3. QED
        BY <1>1, <2>2, <3>1, <3>2, PutBackFacts DEF Pending, Busy, NoJob
    <2>3. CASE OpenData
      <3>1. queue' = queue /\ NoJob \notin Queued
        BY <1>1, <2>3, NumbersOf DEF jobs
      <3>2. QED
        BY <1>1, <2>3, <3>1 DEF Pending, Busy, PlacesOK, TypeOK
    <2>4. QED
      BY <2>1, <2>2, <2>3
  <1>4. TypeOK'
    BY <1>1, <1>2, <1>3 DEF TypeOK, client, threads, process
  <1>5. \A c \in Clients : copies'[c] >= copies[c] /\ (reply[c] = -1 => copies'[c] = 0)
    BY <1>1, <1>2 DEF SpoolInv, RejectedOK, TypeOK
  <1>6. PrinterFrame
    BY <1>2, <1>3, <1>5 DEF PrinterFrame, SpoolInv
  <1>7. QED
    BY <1>2, <1>4, <1>6, PrintsNothing

LEMMA OtherStepsKeep ==
  ASSUME SpoolInv, main # "down", UNCHANGED <<client, threads, process>>,
         UpdateJobno \/ CheckConfig \/ SendFails \/ UnlinkData \/ UnlinkReq \/ SpuriousWakeup
  PROVE  SpoolInv'
  <1> USE DEF UpdateJobno, CheckConfig, SendFails, UnlinkData, UnlinkReq, SpuriousWakeup
  <1>1. TypeOK /\ PlacesOK /\ Distinct(queue) /\ Queued' = Queued
        /\ NoJob \notin Queued
    <2>1. TypeOK /\ PlacesOK /\ Distinct(queue) /\ queue' = queue
      BY DEF SpoolInv, PlacesOK, Distinct, jobs
    <2>2. Queued = Elems(queue) /\ Queued' = Elems(queue')
      BY DEF Queued, Elems
    <2>3. QED
      BY <2>1, <2>2, NumbersOf DEF TypeOK
  <1>2. UNCHANGED <<queue, nextjob, paper>> /\ jobfile' \in {jobfile, nextjob}
        /\ printer' # "unlinkdata"
    BY <1>1 DEF jobs, disk
  <1>3. \/ /\ jp' = jp /\ Pending' = Pending
        \/ /\ printer = "unlinkreq" /\ jp' = NoJob /\ Pending' = Pending \ {jp} /\ data[jp] = NoFile
    BY <1>1 DEF Pending, PlacesOK
  <1>4. /\ data' = data \/ (printer = "unlinkdata" /\ data' = [data EXCEPT ![jp] = NoFile])
        /\ req' = req \/ (printer = "unlinkreq" /\ req' = [req EXCEPT ![jp] = "absent"])
    BY DEF disk
  <1>5. printer \in {"unlinkdata", "unlinkreq"} => jp \in Ids
    BY <1>1 DEF TypeOK, Busy, NoJob
  <1>6. TypeOK'
    <2>1. data' \in [Ids -> Seq(Clients) \cup {NoFile}]
          /\ req' \in [Ids -> {"absent", "empty", "full"}]
      BY <1>1, <1>4, <1>5 DEF TypeOK
    <2>2. printer' \in Busy \cup {"get", "waiting"} /\ (jp' # NoJob <=> printer' \in Busy)
          /\ jp' \in Ids \cup {NoJob}
      BY <1>1 DEF TypeOK, Busy
    <2>3. QED
      BY <1>1, <1>2, <2>1, <2>2 DEF TypeOK, client, threads, process, paper
  <1>7. \A c \in Clients : copies'[c] >= copies[c] /\ (reply[c] = -1 => copies'[c] = 0)
    BY <1>1, <1>2 DEF SpoolInv, RejectedOK, TypeOK, paper
  <1>8. PrinterFrame
    <2>1. ASSUME NEW j \in Ids
          PROVE  \/ data'[j] = data[j] /\ req'[j] = req[j]
                 \/ /\ j = jp /\ data'[j] = NoFile /\ req'[j] \in {req[j], "absent"}
                    /\ j \in Pending' => req'[j] = req[j]
                    /\ \A c \in Clients : data[j] = Document(c) => copies[c] > 0
      <3>1. CASE printer = "unlinkdata"
        <4>1. \A c \in Clients : data[jp] = Document(c) => copies[c] > 0
          BY <3>1 DEF SpoolInv, PaperOK
        <4>2. QED
          BY <1>1, <1>4, <1>5, <3>1, <4>1 DEF TypeOK
      <3>2. CASE printer = "unlinkreq"
        <4>1. data' = data /\ data[jp] = NoFile /\ jp \notin Pending'
          BY <1>1, <1>4, <3>2 DEF PlacesOK, Pending
        <4>2. \A c \in Clients : Document(c) # NoFile
          BY OfFacts
        <4>3. QED
          BY <1>1, <1>4, <1>5, <3>2, <4>1, <4>2 DEF TypeOK
      <3>3. CASE printer \notin {"unlinkdata", "unlinkreq"}
        BY <1>4, <3>3
      <3>4. QED
        BY <3>1, <3>2, <3>3
    <2>2. printer' = "unlinkreq" => data'[jp'] = NoFile
      BY <1>1, <1>5 DEF TypeOK
    <2>3. jp' \notin Queued' /\ Pending' \subseteq Pending
          /\ \A j \in Pending : j \in Pending' \/ data'[j] = NoFile
      BY <1>1, <1>3, <1>4 DEF PlacesOK
    <2>4. QED
      BY <1>1, <1>2, <1>7, <2>1, <2>2, <2>3 DEF PrinterFrame, SpoolInv, paper
  <1>9. printer = "unlinkdata" => data'[jp] = NoFile
    BY <1>1, <1>5 DEF TypeOK
  <1>10. QED
    BY <1>2, <1>6, <1>8, <1>9, PrintsNothing

LEMMA StatusKeeps ==
  ASSUME SpoolInv, main # "down", UNCHANGED <<client, threads, process>>, Status
  PROVE  SpoolInv'
  <1> USE DEF Status, Printed, disk, jobs, client, threads, process, paper
  <1>1. TypeOK /\ PlacesOK /\ DataOK /\ printer = "send"
    BY DEF SpoolInv
  <1>2. jp \in Ids /\ jp \in Pending /\ req[jp] = "full"
    BY <1>1 DEF TypeOK, Busy, PlacesOK, Pending, NoJob
  <1>3. UNCHANGED <<data, req, jobfile, queue, nextjob, jp, thread, job, reply>>
        /\ printer' \in {"unlinkdata", "defer"} /\ Pending' = Pending /\ Queued' = Queued
    BY DEF Pending, Queued
  <1>4. ASSUME NEW c \in Clients, data[jp] = Document(c)
        PROVE  /\ job[c] = jp /\ ~Has(c) /\ reply[c] # -1
               /\ copies[c] = 0 \/ c \in again
    <2>1. job[c] = jp
      BY <1>1, <1>2, <1>4, DocumentAt
    <2>2. ThreadOK(c) /\ PaperOK(c) /\ RejectedOK(c)
      BY DEF SpoolInv
    <2>3. QED
      BY <1>1, <1>2, <1>4, <2>1, <2>2 DEF ThreadOK, PaperOK, RejectedOK
  <1>5. ASSUME NEW c \in Clients
        PROVE  /\ copies[c] \in Nat /\ copies'[c] \in Nat
               /\ data[jp] # Document(c) => copies'[c] = copies[c]
               /\ \/ copies'[c] = copies[c] /\ printer' = "defer"
                  \/ data[jp] # Document(c)
                  \/ copies'[c] = copies[c] + 1 /\ (printer' = "unlinkdata" \/ c \in again')
               /\ again \subseteq again' /\ again' \subseteq Clients
    BY <1>1 DEF TypeOK
  <1>6. ~garbled'
    <2>1. \A i, k \in DOMAIN data[jp] : data[jp][i] = data[jp][k]
      <3>1. CASE data[jp] = NoFile
        <4>1. \A i \in DOMAIN NoFile : i = 1
          BY DEF NoFile
        <4>2. QED
          BY <3>1, <4>1
      <3>2. CASE data[jp] # NoFile
        BY <1>1, <1>2, <3>2, OfFacts DEF DataOK
      <3>3. QED
        BY <3>1, <3>2
    <2>2. QED
      BY <2>1 DEF SpoolInv
  <1>7. TypeOK'
    BY <1>1, <1>3, <1>5 DEF TypeOK, Busy
  <1>8. PrinterFrame
    BY <1>1, <1>3, <1>4, <1>5, <1>6 DEF PrinterFrame, PlacesOK, Distinct, SpoolInv, RejectedOK
  <1>9. ASSUME NEW c \in Clients PROVE PaperOK(c)'
    <2>1. PaperOK(c) /\ Has(c)' = Has(c)
      BY <1>3 DEF SpoolInv, Has
    <2>2. CASE data[jp] = Document(c)
      <3>1. \A j \in Ids : data[j] = Document(c) => j = jp
        BY <1>1, <1>4, <2>2, DocumentAt
      <3>2. QED
        BY <1>1, <1>2, <1>3, <1>4, <1>5, <2>1, <2>2, <3>1 DEF PaperOK, Ids, NoJob
    <2>3. CASE data[jp] # Document(c)
      BY <1>1, <1>3, <1>5, <2>1, <2>3 DEF PaperOK
    <2>4. QED
      BY <2>2, <2>3
  <1>10. QED
    BY <1>7, <1>8, <1>9, PrinterFrameKeeps

-----------------------------------------------------------------------------
(* The main thread, the signal thread, and the ends and starts of the      *)
(* daemon                                                                  *)

LEMMA NoThreads ==
  ASSUME SpoolInv, main # "accept", NEW c \in Clients
  PROVE  thread[c] \in {"none", "done"} /\ ~Has(c)
  BY DEF SpoolInv, ThreadOK, Has, Working

LEMMA SignalStepsKeep ==
  ASSUME SpoolInv, ScanSignal \/ ScanDone \/ Hangup \/ KillWorkers
  PROVE  SpoolInv'
  <1> USE DEF ScanSignal, ScanDone, Hangup, KillWorkers, Signal, disk, jobs, paper, client,
              threads, process, spool
  <1>1. TypeOK /\ NumbersOK /\ PlacesOK /\ DataOK
    BY DEF SpoolInv
  <1>2. /\ UNCHANGED <<data, req, jobfile, nextjob, queue, jp, copies, again, garbled, user, sent,
                       reply, thread, job, got, toscan>>
        /\ printer' = printer \/ {printer, printer'} \subseteq {"get", "waiting"}
        /\ \/ main' = main
           \/ main = "signal" /\ main' = "scan"
           \/ main = "scan" /\ main' = "accept" /\ toscan = {}
        /\ \/ signal' = signal /\ cancelled' = cancelled
           \/ signal = "wait" /\ signal' = "exit"
    OBVIOUS
  <1>3. Queued' = Queued /\ Pending' = Pending /\ \A j \in Ids : HasFile(j)' = HasFile(j)
    BY <1>2 DEF Queued, Pending, HasFile
  <1>4. TypeOK'
    BY <1>1, <1>2 DEF TypeOK, Busy
  <1>5. NumbersOK' /\ PlacesOK' /\ DataOK'
    <2>1. NumbersOK'
      BY <1>1, <1>2, <1>3 DEF NumbersOK
    <2>2. PlacesOK'
      BY <1>1, <1>2, <1>3 DEF PlacesOK, Has
    <2>3. DataOK'
      BY <1>1, <1>2 DEF DataOK
    <2>4. QED
      BY <2>1, <2>2, <2>3
  <1>6. ASSUME NEW c \in Clients PROVE ThreadOK(c)' /\ PaperOK(c)' /\ RejectedOK(c)'
    <2>1. ThreadOK(c) /\ PaperOK(c) /\ RejectedOK(c) /\ Has(c)' = Has(c)
          /\ HasFile(job[c])' = HasFile(job[c])
      BY <1>2 DEF SpoolInv, Has, HasFile
    <2>2. ThreadOK(c)'
      BY <1>2, <1>3, <2>1 DEF ThreadOK
    <2>3. QED
      BY <1>2, <2>1, <2>2 DEF PaperOK, RejectedOK
  <1>7. ASSUME Slow = {}, NEW c \in Clients PROVE WholeOK(c)' /\ KeptOK(c)'
    <2>1. WholeOK(c) /\ KeptOK(c) /\ Owed(c)' = Owed(c) /\ OnDisk(c)' = OnDisk(c)
      BY <1>2, <1>7 DEF SpoolInv, Owed, OnDisk
    <2>2. c \in cancelled => c \in cancelled'
      BY <1>2 DEF SpoolInv, ThreadOK
    <2>3. WholeOK(c)'
      BY <1>2, <2>1 DEF WholeOK
    <2>4. Kept(c)'
      BY <1>2, <1>3, <2>1, <2>2 DEF KeptOK, Kept, Pending
    <2>5. QED
      BY <1>2, <1>3, <2>1, <2>3, <2>4 DEF KeptOK
  <1>8. QED
    BY <1>2, <1>4, <1>5, <1>6, <1>7 DEF SpoolInv

(* build_qonstart: a full control file puts its job on the list, an empty  *)
(* one is removed with its data file.                                      *)
LEMMA ScanEntryKeeps ==
  ASSUME SpoolInv, ScanEntry
  PROVE  SpoolInv'
  <1> USE DEF AddJob, paper, client, threads
  <1>1. TypeOK /\ NumbersOK /\ PlacesOK /\ DataOK /\ main = "scan"
    BY DEF SpoolInv, ScanEntry
  <1>2. PICK j \in toscan :
          /\ toscan' = toscan \ {j}
          /\ \/ /\ req[j] = "full" /\ queue' = Append(queue, j) /\ main' = "signal"
                /\ UNCHANGED <<data, req>>
             \/ /\ req[j] # "full"
                /\ data' = [data EXCEPT ![j] = NoFile] /\ req' = [req EXCEPT ![j] = "absent"]
                /\ UNCHANGED <<queue, main>>
             \/ req[j] # "full" /\ UNCHANGED <<data, req, queue, main>>
    BY DEF ScanEntry
  <1>3. /\ UNCHANGED <<jobfile, nextjob, printer, jp, copies, again, garbled, user, sent, reply,
                       thread, job, got, signal, cancelled>>
        /\ main' \in {"scan", "signal"}
    BY <1>1, <1>2 DEF ScanEntry
  <1>4. j \in Ids /\ j \notin Pending /\ queue \in Seq(Ids) /\ Distinct(queue)
        /\ Queued = Elems(queue) /\ Queued' = Elems(queue') /\ j # NoJob
    <2>1. j \in Ids /\ j # NoJob
      BY <1>1 DEF TypeOK, Ids, NoJob
    <2>2. QED
      BY <1>1, <2>1 DEF TypeOK, PlacesOK, Distinct, Queued, Elems
  <1>5. /\ queue' \in Seq(Ids) /\ Distinct(queue')
        /\ \/ Pending' = Pending /\ Queued' = Queued /\ req[j] # "full"
           \/ /\ Pending' = Pending \cup {j} /\ Queued' = Queued \cup {j}
              /\ req' = req /\ req[j] = "full"
    <2>1. CASE queue' = queue /\ req[j] # "full"
      BY <1>3, <1>4, <2>1 DEF Pending
    <2>2. CASE queue' = Append(queue, j) /\ req[j] = "full" /\ req' = req
      <3>1. Elems(Append(queue, j)) = Elems(queue) \cup {j} /\ j \notin Elems(queue)
            /\ Append(queue, j) \in Seq(Ids)
        BY <1>4, AppendFacts DEF Pending
      <3>2. Distinct(Append(queue, j))
        BY <1>4, <3>1, AppendFacts
      <3>3. Queued' = Queued \cup {j}
        BY <1>4, <2>2, <3>1
      <3>4. QED
        BY <1>3, <1>4, <2>2, <3>1, <3>2, <3>3 DEF Pending
    <2>3. QED
      BY <1>2, <2>1, <2>2
  <1>6. \A k \in Ids : \/ data'[k] = data[k] /\ req'[k] = req[k]
                       \/ k = j /\ req[j] # "full" /\ data'[k] = NoFile /\ req'[k] = "absent"
    BY <1>1, <1>2 DEF TypeOK
  <1>7. TypeOK'
    <2>1. data' \in [Ids -> Seq(Clients) \cup {NoFile}] /\ req' \in [Ids -> {"absent", "empty", "full"}]
      BY <1>1, <1>2, <1>4 DEF TypeOK
    <2>2. QED
      BY <1>1, <1>2, <1>3, <1>5, <2>1 DEF TypeOK
  <1>8. NumbersOK'
    <2>1. \A k \in Ids : HasFile(k)' => HasFile(k)
      BY <1>6 DEF HasFile
    <2>2. QED
      BY <1>1, <1>3, <2>1 DEF NumbersOK
  <1>9. PlacesOK'
    <2>1. \A k \in Pending' : req'[k] = "full"
      <3>1. \A k \in Pending : k # j /\ k \in Ids /\ req[k] = "full"
        BY <1>1, <1>4, PendingIds DEF PlacesOK
      <3>2. QED
        BY <1>5, <1>6, <3>1
    <2>2. jp' \notin Queued'
      BY <1>1, <1>3, <1>4, <1>5 DEF PlacesOK, Pending
    <2>3. toscan' \cap Pending' = {}
      BY <1>1, <1>2, <1>5 DEF PlacesOK
    <2>4. printer' = "unlinkreq" => data'[jp'] = NoFile
      BY <1>1, <1>3, <1>6 DEF PlacesOK, TypeOK, Busy
    <2>5. \A c, d \in Clients : Has(c)' /\ Has(d)' /\ job'[c] = job'[d] => c = d
      BY <1>1, <1>3 DEF PlacesOK, Has
    <2>6. QED
      BY <1>3, <1>5, <2>1, <2>2, <2>3, <2>4, <2>5 DEF PlacesOK, Distinct
  <1>10. DataOK'
    BY <1>1, <1>3, <1>6 DEF DataOK
  <1>11. ASSUME NEW c \in Clients PROVE ThreadOK(c)' /\ PaperOK(c)' /\ RejectedOK(c)'
    <2>1. ThreadOK(c) /\ PaperOK(c) /\ RejectedOK(c) /\ thread[c] \in {"none", "done"}
          /\ ~Has(c) /\ ~Has(c)'
      BY <1>1, <1>3, NoThreads DEF SpoolInv, Has
    <2>2. ThreadOK(c)'
      BY <1>3, <2>1 DEF ThreadOK
    <2>3. \A k \in Ids : data'[k] = Document(c) => data[k] = Document(c) /\ req'[k] = req[k]
      BY <1>6, OfFacts
    <2>4. PaperOK(c)'
      <3>1. printer = "unlinkdata" => jp \in Ids
        BY <1>1 DEF TypeOK, Busy, NoJob
      <3>2. QED
        BY <1>3, <2>1, <2>3, <3>1 DEF PaperOK
    <2>5. QED
      BY <1>3, <2>1, <2>2, <2>3, <2>4 DEF RejectedOK
  <1>12. ASSUME Slow = {}, NEW c \in Clients PROVE WholeOK(c)' /\ KeptOK(c)'
    <2>1. WholeOK(c) /\ KeptOK(c) /\ thread[c] \in {"none", "done"} /\ Owed(c)' = Owed(c)
      BY <1>1, <1>3, <1>12, NoThreads DEF SpoolInv, Owed
    <2>2. WholeOK(c)'
      BY <1>3, <2>1 DEF WholeOK
    <2>3. Owed(c) => job[c] \in Ids /\ OnDisk(c) /\ job[c] \in Pending \cup toscan
      BY <1>1, <2>1 DEF Owed, KeptOK, Kept, SpoolInv, ThreadOK, Ids
    <2>4. Owed(c) => OnDisk(c)' /\ job[c] \in Pending' \cup toscan'
      BY <1>2, <1>3, <1>5, <1>6, <2>3 DEF OnDisk
    <2>5. QED
      BY <1>3, <2>1, <2>2, <2>4 DEF KeptOK, Kept
  <1>13. QED
    BY <1>3, <1>7, <1>8, <1>9, <1>10, <1>11, <1>12 DEF SpoolInv

(* Exit and Crash: the files stay, and their numbers are below the one in  *)
(* the job file.                                                           *)
LEMMA StopKeeps ==
  ASSUME SpoolInv, Exit \/ Crash, ~unsaved'
  PROVE  SpoolInv'
  <1> USE DEF disk
  <1>1. TypeOK /\ NumbersOK /\ PlacesOK /\ DataOK /\ Stop /\ NumbersSaved
    BY DEF SpoolInv, Exit, Crash, Stop
  <1>2. /\ UNCHANGED <<data, req, jobfile, nextjob, copies, garbled, sent, reply, job, got>>
        /\ main' = "down" /\ toscan' = {} /\ cancelled' = {} /\ queue' = <<>>
        /\ printer' = "get" /\ jp' = NoJob
        /\ again' = IF printer = "unlinkdata"
                    THEN again \cup {c \in Clients : data[jp] = Document(c)} ELSE again
    BY <1>1 DEF Stop
  <1>3. \A c \in Clients : /\ thread'[c] = IF thread[c] = "none" THEN "none" ELSE "done"
                           /\ user'[c] = IF user[c] = "sending" /\ reply[c] = 0 THEN "dead"
                                                                               ELSE user[c]
    BY <1>1 DEF Stop
  <1>4. Queued' = {} /\ Pending' = {} /\ \A c \in Clients : ~Has(c)'
    BY <1>2, <1>3 DEF Queued, Pending, Has, Working
  <1>5. TypeOK'
    <2>1. /\ thread' \in [Clients -> Stages] /\ user' \in [Clients -> {"idle", "sending", "dead"}]
          /\ again' \subseteq Clients
      BY <1>1 DEF Stop, TypeOK, Stages
    <2>2. queue' \in Seq(Ids) /\ printer' \in Busy \cup {"get", "waiting"}
          /\ (jp' # NoJob <=> printer' \in Busy)
      BY <1>2 DEF Busy
    <2>3. QED
      BY <1>1, <1>2, <2>1, <2>2 DEF TypeOK
  <1>6. NumbersOK' /\ DataOK'
    BY <1>1, <1>2 DEF NumbersOK, DataOK, NumbersSaved, HasFile
  <1>7. PlacesOK'
    BY <1>2, <1>4 DEF PlacesOK
  <1>8. ASSUME NEW c \in Clients PROVE ThreadOK(c)' /\ PaperOK(c)' /\ RejectedOK(c)'
    <2>1. ThreadOK(c) /\ PaperOK(c) /\ RejectedOK(c) /\ thread'[c] \in {"none", "done"}
      BY <1>3 DEF SpoolInv
    <2>2. ThreadOK(c)'
      BY <1>2, <1>3, <1>4, <2>1 DEF ThreadOK
    <2>3. PaperOK(c)'
      BY <1>2, <1>3, <1>4, <2>1 DEF PaperOK
    <2>4. QED
      BY <1>2, <2>1, <2>2, <2>3 DEF RejectedOK
  <1>9. ASSUME Slow = {}, NEW c \in Clients PROVE WholeOK(c)' /\ KeptOK(c)'
    <2>1. WholeOK(c) /\ KeptOK(c)
      BY <1>9 DEF SpoolInv
    <2>2. Owed(c)' => Owed(c)
      BY <1>2, <1>3 DEF Owed
    <2>3. QED
      BY <1>2, <1>3, <2>1, <2>2 DEF WholeOK, KeptOK, Kept, OnDisk
  <1>10. QED
    BY <1>2, <1>5, <1>6, <1>7, <1>8, <1>9 DEF SpoolInv

LEMMA StartKeeps ==
  ASSUME SpoolInv, Start
  PROVE  SpoolInv'
  <1> USE DEF disk, paper, client, threads
  <1>1. TypeOK /\ NumbersOK /\ PlacesOK /\ DataOK /\ main = "down"
    BY DEF SpoolInv, Start
  <1>2. /\ UNCHANGED <<data, req, jobfile, queue, printer, jp, copies, again, garbled, user, sent,
                       reply, thread, job, got, signal, cancelled>>
        /\ main' = "scan" /\ toscan' = {j \in Ids : req[j] # "absent"}
        /\ nextjob' = IF jobfile = 0 THEN 1 ELSE jobfile
    BY DEF Start
  <1>3. Queued' = Queued /\ Pending' = Pending /\ Pending = {}
    BY <1>1, <1>2 DEF Queued, Pending, PlacesOK
  <1>4. TypeOK'
    <2>1. nextjob' \in Nat \ {0} /\ toscan' \subseteq Ids
      BY <1>1, <1>2 DEF TypeOK
    <2>2. QED
      BY <1>1, <1>2, <2>1 DEF TypeOK
  <1>5. NumbersOK'
    <2>1. Cardinality({c \in Clients : job[c] # NoJob}) \in Nat
      BY ClientsAssumption, FS_Subset, FS_CardinalityType
    <2>2. jobfile' <= nextjob'
          /\ nextjob' <= 1 + Cardinality({c \in Clients : job[c] # NoJob})
      BY <1>1, <1>2, <2>1 DEF NumbersOK, TypeOK
    <2>3. \A j \in Ids : HasFile(j)' => j < nextjob'
      BY <1>1, <1>2 DEF NumbersOK, TypeOK, HasFile, Ids
    <2>4. QED
      BY <1>2, <2>2, <2>3 DEF NumbersOK
  <1>6. PlacesOK' /\ DataOK'
    BY <1>1, <1>2, <1>3 DEF PlacesOK, DataOK, Has
  <1>7. ASSUME NEW c \in Clients PROVE ThreadOK(c)' /\ PaperOK(c)' /\ RejectedOK(c)'
    <2>1. ThreadOK(c) /\ PaperOK(c) /\ RejectedOK(c) /\ thread[c] \in {"none", "done"}
          /\ ~Has(c) /\ ~Has(c)'
      BY <1>1, <1>2, NoThreads DEF SpoolInv, Has
    <2>2. ThreadOK(c)'
      BY <1>2, <2>1 DEF ThreadOK
    <2>3. QED
      BY <1>2, <2>1, <2>2 DEF PaperOK, RejectedOK
  <1>8. ASSUME Slow = {}, NEW c \in Clients PROVE WholeOK(c)' /\ KeptOK(c)'
    <2>1. WholeOK(c) /\ KeptOK(c) /\ Owed(c)' = Owed(c) /\ OnDisk(c)' = OnDisk(c)
      BY <1>2, <1>8 DEF SpoolInv, Owed, OnDisk
    <2>2. Owed(c) => job[c] \in Ids /\ OnDisk(c)
      BY <1>1, <2>1 DEF Owed, KeptOK, Kept, SpoolInv, ThreadOK, Ids
    <2>3. Owed(c) => job[c] \in toscan'
      BY <1>2, <2>2 DEF OnDisk
    <2>4. QED
      BY <1>2, <2>1, <2>2, <2>3 DEF WholeOK, KeptOK, Kept
  <1>9. QED
    BY <1>2, <1>4, <1>5, <1>6, <1>7, <1>8 DEF SpoolInv

-----------------------------------------------------------------------------
(* The invariant of the specification                                      *)

LEMMA InitIInv == Init => IInv
  <1> SUFFICES ASSUME Init PROVE SpoolInv
    BY DEF IInv
  <1> USE DEF Init, QueueInit
  <1>1. Queued = {} /\ Pending = {} /\ \A c \in Clients : ~Has(c)
    BY DEF Queued, Pending, Has, Working
  <1>2. \A j \in Ids : ~HasFile(j)
    BY DEF HasFile
  <1>3. TypeOK
    <2>1. NParts \in Nat
      BY PartsAssumption
    <2>2. queue \in Seq(Ids) /\ 0 \in 0..NParts
      BY <2>1
    <2>3. QED
      BY <2>2 DEF TypeOK, Stages, Busy
  <1>4. NumbersOK
    <2>1. Cardinality({c \in Clients : job[c] # NoJob}) \in Nat
      BY ClientsAssumption, FS_Subset, FS_CardinalityType
    <2>2. QED
      BY <1>2, <2>1 DEF NumbersOK
  <1>5. PlacesOK /\ DataOK
    BY <1>1 DEF PlacesOK, DataOK
  <1>6. ASSUME NEW c \in Clients
        PROVE ThreadOK(c) /\ PaperOK(c) /\ RejectedOK(c) /\ WholeOK(c) /\ KeptOK(c)
    <2>1. ~Owed(c)
      BY DEF Owed, Ids
    <2>2. QED
      BY <1>1, <2>1 DEF ThreadOK, PaperOK, RejectedOK, WholeOK, KeptOK, Kept
  <1>7. QED
    BY <1>3, <1>4, <1>5, <1>6 DEF SpoolInv

LEMMA StutterKeeps ==
  ASSUME SpoolInv, UNCHANGED vars
  PROVE  SpoolInv'
  <1>1. UNCHANGED <<data, req, jobfile, nextjob, queue, printer, jp, copies, again, garbled, user, sent,
                    reply, thread, job, got, main, toscan, signal, cancelled>>
    BY DEF vars, spool, disk, jobs, paper, client, threads, process
  <1>2. TypeOK' /\ NumbersOK' /\ PlacesOK' /\ DataOK' /\ ~garbled'
    <2>1. TypeOK /\ NumbersOK /\ PlacesOK /\ DataOK /\ ~garbled
      BY DEF SpoolInv
    <2>2. TypeOK' /\ NumbersOK'
      BY <1>1, <2>1 DEF TypeOK, NumbersOK, HasFile
    <2>3. PlacesOK'
      BY <1>1, <2>1 DEF PlacesOK, Pending, Queued, Has
    <2>4. DataOK'
      BY <1>1, <2>1 DEF DataOK
    <2>5. QED
      BY <1>1, <2>1, <2>2, <2>3, <2>4
  <1>3. ASSUME NEW c \in Clients PROVE ThreadOK(c)' /\ PaperOK(c)' /\ RejectedOK(c)'
    BY <1>1 DEF SpoolInv, ThreadOK, Has, HasFile, Pending, Queued, PaperOK, RejectedOK
  <1>4. ASSUME NEW c \in Clients, Slow = {} PROVE WholeOK(c)' /\ KeptOK(c)'
    BY <1>1, <1>4 DEF SpoolInv, WholeOK, KeptOK, Kept, Owed, OnDisk, Pending, Queued
  <1>5. QED
    BY <1>2, <1>3, <1>4 DEF SpoolInv

(* Every step of a program or a thread, and every end and start of the     *)
(* daemon, keeps the invariant until numbers are lost.                     *)
LEMMA NextIInv == IInv /\ [Next]_vars => IInv'
  <1> SUFFICES ASSUME IInv, [Next]_vars, ~unsaved' PROVE SpoolInv'
    BY DEF IInv
  <1>1. ASSUME unsaved' = unsaved PROVE SpoolInv
    BY <1>1 DEF IInv
  <1>2. CASE UNCHANGED vars
    BY <1>1, <1>2, StutterKeeps DEF vars, process
  <1>3. CASE Up /\ (PrinterStep \/ SpuriousWakeup) /\ UNCHANGED <<client, list, threads, process>>
    <2>1. SpoolInv
      BY <1>1, <1>3 DEF process
    <2>2. UNCHANGED <<client, threads, process>> /\ main # "down"
      BY <1>3 DEF Up
    <2>3. CASE GetJob \/ Defer \/ OpenData
      BY <2>1, <2>2, <2>3, JobStepsKeep
    <2>4. CASE UpdateJobno \/ CheckConfig \/ SendFails \/ UnlinkData \/ UnlinkReq \/ SpuriousWakeup
      BY <2>1, <2>2, <2>4, OtherStepsKeep
    <2>5. CASE Status
      BY <2>1, <2>2, <2>5, StatusKeeps
    <2>6. QED
      BY <1>3, <2>3, <2>4, <2>5 DEF PrinterStep
  <1>4. CASE ScanSignal \/ ScanDone \/ Hangup \/ KillWorkers
    <2>1. unsaved' = unsaved
      BY <1>4 DEF ScanSignal, ScanDone, Hangup, KillWorkers, process
    <2>2. QED
      BY <1>1, <1>4, <2>1, SignalStepsKeep
  <1>5. CASE ScanEntry
    BY <1>1, <1>5, ScanEntryKeeps DEF ScanEntry
  <1>6. CASE Exit \/ Crash
    <2>1. ~unsaved
      BY <1>6 DEF Exit, Crash, Stop
    <2>2. QED
      BY <1>6, <2>1, StopKeeps DEF IInv
  <1>7. CASE Start
    BY <1>1, <1>7, StartKeeps DEF Start
  <1>8. ASSUME NEW c \in Clients, Connect(c) \/ SendPart(c) \/ Die(c) \/ ThreadStep(c)
        PROVE SpoolInv'
    <2>1. unsaved' = unsaved
      BY <1>8 DEF Connect, SendPart, Die, ThreadStep, AddWorker, ReadHeader, GetNewJobno, CreateData,
                  CopyPart, CopyEnds, CreateControl, WriteControl, UnlinkControl, UnlinkRejected,
                  Reply, QueueJob, SignalPrinter, Cleanup, Cancelled, process
    <2>2. SpoolInv
      BY <1>1, <2>1
    <2>3. FileSteps(c) \/ QuietSteps(c) \/ GetNewJobno(c) \/ QueueJob(c)
      BY <1>8 DEF ThreadStep, FileSteps, QuietSteps
    <2>4. QED
      BY <2>2, <2>3, FileStepsKeep, QuietStepsKeep, GetNewJobnoKeeps, QueueJobKeeps
  <1>9. QED
    BY <1>2, <1>3, <1>4, <1>5, <1>6, <1>7, <1>8 DEF Next, Daemon

-----------------------------------------------------------------------------
(* The theorems                                                            *)

(* Until the daemon stops with numbers in use that update_jobno has not    *)
(* written, every number, file, thread and job is as the invariant says.   *)
THEOREM SpoolSound == Spec => []IInv
  BY InitIInv, NextIInv, PTL DEF Spec

(* A job is on the list or with the printer thread at most once, whatever  *)
(* printer_thread puts back, and no client thread is at work on it: no two *)
(* threads ever have the same files.                                       *)
THEOREM JobsOnce == Spec => []JobOnce
  <1>1. IInv => JobOnce
    <2> SUFFICES ASSUME SpoolInv PROVE JobOnce
      BY DEF IInv, JobOnce
    <2>1. TypeOK /\ PlacesOK /\ \A c \in Clients : ThreadOK(c)
      BY DEF SpoolInv
    <2>2. ASSUME NEW c \in Clients,
                 thread[c] \in {"number", "create", "copy", "write", "reply", "queue"},
                 job[c] # NoJob
          PROVE  job[c] \notin Queued \cup {jp}
      <3>1. Has(c)
        BY <2>1, <2>2 DEF ThreadOK, Has, Working
      <3>2. QED
        BY <2>1, <2>2, <3>1 DEF ThreadOK, Pending
    <2>3. QED
      BY <2>1, <2>2 DEF JobOnce, PlacesOK
  <1>2. QED
    BY <1>1, SpoolSound, PTL

(* A job on paper is the beginning of one document, and there is a second  *)
(* copy only of a document whose success was not recorded: printer_status  *)
(* had no answer, or the daemon ended before it removed the data file.     *)
THEOREM PaperIsRight == Spec => []PaperRight
  <1>1. IInv => PaperRight
    <2> SUFFICES ASSUME SpoolInv PROVE PaperRight
      BY DEF IInv, PaperRight
    <2>1. ASSUME NEW c \in Clients, copies[c] > 1 PROVE c \in again
      <3>1. PaperOK(c)
        BY DEF SpoolInv
      <3>2. copies[c] # 0 /\ copies[c] # 1
        BY <2>1
      <3>3. QED
        BY <3>1, <3>2 DEF PaperOK
    <2>2. QED
      BY <2>1 DEF SpoolInv, PaperRight
  <1>2. QED
    BY <1>1, SpoolSound, PTL

(* A document whose client was sent an error is never printed: the thread  *)
(* leaves no full control file for build_qonstart.                         *)
THEOREM RejectedStay == Spec => []RejectedNotPrinted
  <1>1. IInv => RejectedNotPrinted
    BY DEF IInv, SpoolInv, RejectedOK, RejectedNotPrinted
  <1>2. QED
    BY <1>1, SpoolSound, PTL

(* A document whose client was sent a job number keeps its two files and   *)
(* its place on the list until it is on paper, through failures, signals   *)
(* and restarts, when no client pauses for longer than the daemon waits:   *)
(* client_thread takes such a pause for the end of the document            *)
(* (printd.c:447).                                                         *)
THEOREM AcceptedStay == Slow = {} => (Spec => []AcceptedKept)
  <1> SUFFICES ASSUME Slow = {} PROVE Spec => []AcceptedKept
    OBVIOUS
  <1>1. IInv => AcceptedKept
    BY DEF IInv, SpoolInv, KeptOK, AcceptedKept, AllKept
  <1>2. QED
    BY <1>1, SpoolSound, PTL

=============================================================================
