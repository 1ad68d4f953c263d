------------------------------ MODULE JobQueue ------------------------------
(***************************************************************************)
(* The job queue of apue.3e/threads/rwlock.c: a doubly linked list under a *)
(* read-write lock.  A job carries the thread that is to handle it (j_id), *)
(* and that thread finds it, takes it out and then handles it.  The list   *)
(* is only touched under the lock, so each function is one step; between   *)
(* job_find and job_remove the lock is free.                               *)
(***************************************************************************)
EXTENDS Integers, SequencesExt

CONSTANTS Threads, Jobs, NULL, MaxJobs   \* MaxJobs: bound on the jobs put in

VARIABLES
  q_head, q_tail, j_next, j_prev, j_id,
  found, put                \* what each thread found; how many jobs were put in

queue == <<q_head, q_tail, j_next, j_prev, j_id>>
vars == <<queue, found, put>>

-----------------------------------------------------------------------------
(* The jobs from q_head on, following j_next                               *)
Linked(s) ==
  /\ q_head = IF s = <<>> THEN NULL ELSE s[1]
  /\ \A n \in 1 .. Len(s) : j_next[s[n]] = IF n = Len(s) THEN NULL ELSE s[n + 1]
Lists == UNION {[1 .. n -> Jobs] : n \in 0 .. Cardinality(Jobs)}
Forward == CHOOSE s \in Lists : Linked(s)
Queued(j) == \E n \in DOMAIN Forward : Forward[n] = j
Held(j) == \E t \in Threads : found[t] = j
New(j) == ~Queued(j) /\ ~Held(j) /\ put < MaxJobs

job_insert(j, t) ==
  /\ New(j)
  /\ j_next' = [j_next EXCEPT ![j] = q_head]
  /\ j_prev' = IF q_head # NULL THEN [j_prev EXCEPT ![j] = NULL, ![q_head] = j]
                                ELSE [j_prev EXCEPT ![j] = NULL]
  /\ q_tail' = IF q_head # NULL THEN q_tail ELSE j
  /\ q_head' = j
  /\ j_id' = [j_id EXCEPT ![j] = t] /\ put' = put + 1
  /\ UNCHANGED found

job_append(j, t) ==
  /\ New(j)
  /\ j_next' = IF q_tail # NULL THEN [j_next EXCEPT ![j] = NULL, ![q_tail] = j]
                                ELSE [j_next EXCEPT ![j] = NULL]
  /\ j_prev' = [j_prev EXCEPT ![j] = q_tail]
  /\ q_head' = IF q_tail # NULL THEN q_head ELSE j
  /\ q_tail' = j
  /\ j_id' = [j_id EXCEPT ![j] = t] /\ put' = put + 1
  /\ UNCHANGED found

\* Mutant: the tail stays when the last job is taken out.
RemoveLinksTail(jp) ==
  IF jp = q_head
  THEN /\ q_head' = j_next[jp]
       /\ j_prev' = IF q_tail = jp THEN j_prev ELSE [j_prev EXCEPT ![j_next[jp]] = j_prev[jp]]
       /\ UNCHANGED <<q_tail, j_next>>
  ELSE IF jp = q_tail
  THEN /\ q_tail' = j_prev[jp] /\ j_next' = [j_next EXCEPT ![j_prev[jp]] = j_next[jp]]
       /\ UNCHANGED <<q_head, j_prev>>
  ELSE /\ j_next' = [j_next EXCEPT ![j_prev[jp]] = j_next[jp]]
       /\ j_prev' = [j_prev EXCEPT ![j_next[jp]] = j_prev[jp]]
       /\ UNCHANGED <<q_head, q_tail>>

(* The three cases of job_remove                                           *)
RemoveLinks(jp) ==
  IF jp = q_head
  THEN /\ q_head' = j_next[jp]
       /\ IF q_tail = jp THEN q_tail' = NULL /\ UNCHANGED j_prev
          ELSE j_prev' = [j_prev EXCEPT ![j_next[jp]] = j_prev[jp]] /\ UNCHANGED q_tail
       /\ UNCHANGED j_next
  ELSE IF jp = q_tail
  THEN /\ q_tail' = j_prev[jp] /\ j_next' = [j_next EXCEPT ![j_prev[jp]] = j_next[jp]]
       /\ UNCHANGED <<q_head, j_prev>>
  ELSE /\ j_next' = [j_next EXCEPT ![j_prev[jp]] = j_next[jp]]
       /\ j_prev' = [j_prev EXCEPT ![j_next[jp]] = j_prev[jp]]
       /\ UNCHANGED <<q_head, q_tail>>

(* A thread takes out the job it found, handles it and frees it.           *)
job_remove(t) ==
  /\ found[t] # NULL
  /\ RemoveLinks(found[t])
  /\ found' = [found EXCEPT ![t] = NULL]
  /\ UNCHANGED <<j_id, put>>

job_find(t) ==
  /\ found[t] = NULL
  /\ LET own == {n \in DOMAIN Forward : j_id[Forward[n]] = t}
     IN found' = [found EXCEPT ![t] = IF own = {} THEN NULL ELSE Forward[Min(own)]]
  /\ UNCHANGED <<queue, put>>

-----------------------------------------------------------------------------
queue_init == q_head = NULL /\ q_tail = NULL

Init ==
  /\ queue_init
  /\ j_next = [j \in Jobs |-> NULL] /\ j_prev = [j \in Jobs |-> NULL] /\ j_id = [j \in Jobs |-> NULL]
  /\ found = [t \in Threads |-> NULL] /\ put = 0

Next == \E t \in Threads : job_find(t) \/ job_remove(t) \/ \E j \in Jobs : job_insert(j, t) \/ job_append(j, t)

Spec == Init /\ [][Next]_vars

-----------------------------------------------------------------------------
(* With the links as they are, the queue does what JobList says.           *)
Abs == INSTANCE JobList WITH list <- Forward, id <- j_id
ImplementsJobList == Abs!Spec

=============================================================================
