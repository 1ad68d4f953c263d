------------------------------ MODULE JobList -------------------------------
(***************************************************************************)
(* What the job queue of apue.3e/threads/rwlock.c promises: a list that    *)
(* jobs are put at either end of and taken out of anywhere, in which a     *)
(* thread finds the first of its jobs.                                     *)
(***************************************************************************)
EXTENDS Integers, SequencesExt

CONSTANTS Threads, Jobs, NULL

VARIABLES
  list,    \* the jobs in the queue
  id,      \* the thread that is to handle each job
  found    \* what each thread's last job_find returned

vars == <<list, id, found>>

Insert(j, t) ==
  /\ list' = <<j>> \o list /\ id' = [id EXCEPT ![j] = t] /\ UNCHANGED found

AppendJob(j, t) ==
  /\ list' = Append(list, j) /\ id' = [id EXCEPT ![j] = t] /\ UNCHANGED found

Find(t) ==
  /\ LET own == {n \in DOMAIN list : id[list[n]] = t}
     IN found' = [found EXCEPT ![t] = IF own = {} THEN NULL ELSE list[Min(own)]]
  /\ UNCHANGED <<list, id>>

TakeOut(t) ==
  /\ \E n \in DOMAIN list : list[n] = found[t] /\ list' = RemoveAt(list, n)
  /\ found' = [found EXCEPT ![t] = NULL]
  /\ UNCHANGED id

Init == list = <<>> /\ id = [j \in Jobs |-> NULL] /\ found = [t \in Threads |-> NULL]

Next == \E t \in Threads : Find(t) \/ TakeOut(t) \/ \E j \in Jobs : Insert(j, t) \/ AppendJob(j, t)

Spec == Init /\ [][Next]_vars
=============================================================================
