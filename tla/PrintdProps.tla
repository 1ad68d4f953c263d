---------------------------- MODULE PrintdProps ----------------------------
(***************************************************************************)
(* What the print service owes the users of the print command.             *)
(***************************************************************************)
EXTENDS Printd

Queued == {queue[i] : i \in DOMAIN queue}

(* The client sent its whole document and was given a job number, and the  *)
(* document is not on paper yet.                                           *)
Owed(c) == reply[c] \in Ids /\ user[c] # "dead" /\ copies[c] = 0

OnDisk(c) == data[job[c]] = Document(c) /\ req[job[c]] = "full"

(* A document that is owed stays in the spool directory, data and control  *)
(* file, through every failure of the printer and every end of the daemon, *)
(* and while the daemon accepts clients it has the job: pending, in the    *)
(* printer thread, or about to be added.                                   *)
Kept(c) ==
  Owed(c) =>
    /\ OnDisk(c)
    /\ main = "accept" => \/ job[c] \in Queued \cup {jp}
                          \/ thread[c] = "queue" \/ c \in cancelled
AllKept == \A c \in Clients : Kept(c)

(* The same, except after a stop of the daemon with numbers in use that    *)
(* update_jobno had not written yet.                                       *)
AcceptedKept == ~unsaved => AllKept

(* A job is pending once, although it is put back at the head after a      *)
(* failure and read from the directory after a restart.                    *)
JobOnce ==
  ~unsaved =>
    /\ \A i, k \in DOMAIN queue : queue[i] = queue[k] => i = k
    /\ jp \notin Queued
    /\ \A c \in Clients : thread[c] \in {"number", "create", "copy", "write", "reply", "queue"}
         => job[c] = NoJob \/ job[c] \notin Queued \cup {jp}

(* What is printed as one job is the beginning of one document, and a      *)
(* second copy comes out only when the first was not recorded as printed:  *)
(* the printer's answer did not come, or the daemon ended before it        *)
(* removed the data file.                                                  *)
PaperRight ==
  ~unsaved => ~garbled /\ \A c \in Clients : copies[c] > 1 => c \in again

(* A document that was rejected is not printed, also not after a restart.  *)
RejectedNotPrinted == ~unsaved => \A c \in Clients : reply[c] = -1 => copies[c] = 0

(* kill_workers: "Cancel (kill) all outstanding workers."                  *)
Outstanding(c) == thread[c] \notin {"none", "add", "cleanup", "done"}
AllCancelled == [][KillWorkers => {c \in Clients : Outstanding(c)} \subseteq cancelled']_vars

(* A document that is owed is printed.                                     *)
AcceptedPrinted == \A c \in Clients : Owed(c) ~> ~Owed(c) \/ unsaved

=============================================================================
