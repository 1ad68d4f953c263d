------------------------------- MODULE Semaph ------------------------------
(***************************************************************************)
(* apue.3e/lib/semaph.c: semaphores with reference counts on top of System *)
(* V sets of three members.  [0] is the semaphore, [1] counts down from    *)
(* BIGCOUNT with every user, [2] is a lock.  A step is a system call.      *)
(*                                                                         *)
(* The users here guard a critical section: they create (or open) the      *)
(* semaphore, may wait and signal once, and close it.                      *)
(***************************************************************************)
EXTENDS Integers, FiniteSets

CONSTANTS
  Procs,
  Openers,     \* the processes that call sem_open instead of sem_create
  Servers,     \* the processes that may call sem_rm instead of sem_close
  Crashers,    \* the processes that may exit at any time
  BIGCOUNT,
  MaxCalls     \* bound on how often they create or open the semaphore

ASSUME BigAssumption ==
  BIGCOUNT \in Nat /\ IsFiniteSet(Procs) /\ Cardinality(Procs) < BIGCOUNT

VARIABLES
  key,       \* the set that exists under the key, 0 when there is none
  sets,      \* how many sets there were
  val,       \* the three values of that set
  undo,      \* what the exit of a process adds to them
  pc, id, calls,
  excused    \* sets a server removed, and sets opened in the middle of a sem_close

set == <<key, sets, val, undo>>
vars == <<set, pc, id, calls, excused>>

Zero == [i \in 0..2 |-> 0]
NoUndo == [p \in Procs |-> Zero]

Init ==
  /\ key = 0 /\ sets = 0 /\ val = Zero /\ undo = NoUndo
  /\ pc = [p \in Procs |-> "idle"]
  /\ id = [p \in Procs |-> 0]
  /\ calls = 0
  /\ excused = {}

-----------------------------------------------------------------------------
(* The system calls                                                        *)

Goto(p, l) == pc' = [pc EXCEPT ![p] = l]
There(p) == id[p] = key

(* semop with SEM_UNDO: adds change to the values or waits for no negative *)
Semop(p, change) ==
  /\ There(p)
  /\ \A i \in 0..2 : val[i] + change[i] >= 0
  /\ val' = [i \in 0..2 |-> val[i] + change[i]]
  /\ undo' = [undo EXCEPT ![p] = [i \in 0..2 |-> @[i] - change[i]]]
  /\ UNCHANGED <<key, sets>>

(* SETVAL also clears what the exit of any process would add.              *)
Setval(p, i, v) ==
  /\ There(p)
  /\ val' = [val EXCEPT ![i] = v]
  /\ undo' = [q \in Procs |-> [undo[q] EXCEPT ![i] = 0]]
  /\ UNCHANGED <<key, sets>>

op(a, b, c) == [i \in 0..2 |-> CASE i = 0 -> a [] i = 1 -> b [] i = 2 -> c]

-----------------------------------------------------------------------------
(* sem_create                                                              *)

Begin(p) ==
  /\ pc[p] = "idle" /\ calls < MaxCalls
  /\ calls' = calls + 1
  /\ Goto(p, IF p \in Openers THEN "open" ELSE "create")
  /\ UNCHANGED <<set, id, excused>>

(* semget with IPC_CREAT                                                   *)
Semget(p) ==
  /\ pc[p] = "create"
  /\ IF key = 0
     THEN /\ key' = sets + 1 /\ sets' = sets + 1
          /\ val' = Zero /\ undo' = NoUndo
     ELSE UNCHANGED set
  /\ id' = [id EXCEPT ![p] = key']
  /\ Goto(p, "lock")
  /\ UNCHANGED <<calls, excused>>

(* op_lock                                                                 *)
Lock(p) ==
  /\ pc[p] \in {"lock", "locking"} /\ val[2] = 0
  /\ Semop(p, op(0, 0, 1))
  /\ Goto(p, "getval")
  /\ UNCHANGED <<id, calls, excused>>

LockBlocks(p) ==
  /\ pc[p] = "lock" /\ There(p) /\ val[2] # 0
  /\ Goto(p, "locking")
  /\ UNCHANGED <<set, id, calls, excused>>

(* EINVAL: the set is gone.                                                *)
LockAgain(p) ==
  /\ pc[p] = "lock" /\ ~There(p)
  /\ Goto(p, "create")
  /\ UNCHANGED <<set, id, calls, excused>>

\* Mutant: whoever creates the semaphore initializes it.
CreateGetvalAlways(p) ==
  /\ pc[p] = "getval" /\ There(p)
  /\ Goto(p, "setval0")
  /\ UNCHANGED <<set, id, calls, excused>>

(* [1] is 0 as long as nobody has initialized the set.                     *)
CreateGetval(p) ==
  /\ pc[p] = "getval" /\ There(p)
  /\ Goto(p, IF val[1] = 0 THEN "setval0" ELSE "endcreate")
  /\ UNCHANGED <<set, id, calls, excused>>

SetSemaphore(p) ==
  /\ pc[p] = "setval0"
  /\ Setval(p, 0, 1)
  /\ Goto(p, "setval1")
  /\ UNCHANGED <<id, calls, excused>>

SetCounter(p) ==
  /\ pc[p] = "setval1"
  /\ Setval(p, 1, BIGCOUNT)
  /\ Goto(p, "endcreate")
  /\ UNCHANGED <<id, calls, excused>>

(* op_endcreate                                                            *)
EndCreate(p) ==
  /\ pc[p] = "endcreate"
  /\ Semop(p, op(0, -1, -1))
  /\ Goto(p, "using")
  /\ UNCHANGED <<id, calls, excused>>

-----------------------------------------------------------------------------
(* sem_open                                                                *)

OpenGet(p) ==
  /\ pc[p] = "open"
  /\ id' = [id EXCEPT ![p] = key]
  /\ Goto(p, IF key = 0 THEN "idle" ELSE "count")
  /\ UNCHANGED <<set, calls, excused>>

(* op_open takes no lock.                                                  *)
OpenCount(p) ==
  /\ pc[p] = "count"
  /\ Semop(p, op(0, -1, 0))
  /\ excused' = IF \E q \in Procs : pc[q] \in {"closing", "remove"}
                THEN excused \cup {key} ELSE excused
  /\ Goto(p, "using")
  /\ UNCHANGED <<id, calls>>

-----------------------------------------------------------------------------
(* sem_wait, sem_signal                                                    *)

Wait(p) ==
  /\ pc[p] = "using"
  /\ Semop(p, op(-1, 0, 0))
  /\ Goto(p, "critical")
  /\ UNCHANGED <<id, calls, excused>>

Signal(p) ==
  /\ pc[p] = "critical"
  /\ Semop(p, op(1, 0, 0))
  /\ Goto(p, "used")
  /\ UNCHANGED <<id, calls, excused>>

-----------------------------------------------------------------------------
(* sem_close, sem_rm                                                       *)

(* op_close: locks, and counts                                             *)
Close(p) ==
  /\ pc[p] \in {"using", "used"} /\ val[2] = 0
  /\ Semop(p, op(0, 1, 1))
  /\ Goto(p, "closing")
  /\ UNCHANGED <<id, calls, excused>>

\* Mutant: the set is removed when one user is left.
CloseGetvalOneLeft(p) ==
  /\ pc[p] = "closing" /\ There(p)
  /\ Goto(p, IF val[1] >= BIGCOUNT - 1 THEN "remove" ELSE "unlock")
  /\ UNCHANGED <<set, id, calls, excused>>

\* Mutant: the counter is expected to be above BIGCOUNT.
CloseGetvalNever(p) ==
  /\ pc[p] = "closing" /\ There(p)
  /\ Goto(p, IF val[1] > BIGCOUNT THEN "remove" ELSE "unlock")
  /\ UNCHANGED <<set, id, calls, excused>>

CloseGetval(p) ==
  /\ pc[p] = "closing" /\ There(p) /\ val[1] <= BIGCOUNT
  /\ Goto(p, IF val[1] = BIGCOUNT THEN "remove" ELSE "unlock")
  /\ UNCHANGED <<set, id, calls, excused>>

CloseUnlock(p) ==
  /\ pc[p] = "unlock"
  /\ Semop(p, op(0, 0, -1))
  /\ Goto(p, "idle")
  /\ UNCHANGED <<id, calls, excused>>

(* The program of a server ends with sem_rm.                               *)
ShutDown(p) ==
  /\ p \in Servers /\ pc[p] \in {"using", "used"}
  /\ excused' = excused \cup {id[p]}
  /\ Goto(p, "shutdown")
  /\ UNCHANGED <<set, id, calls>>

Remove(p) ==
  /\ pc[p] \in {"remove", "shutdown"} /\ There(p)
  /\ key' = 0 /\ val' = Zero /\ undo' = NoUndo
  /\ Goto(p, "idle")
  /\ UNCHANGED <<sets, id, calls, excused>>

-----------------------------------------------------------------------------
(* The kernel applies the undo values of a process that ends.              *)
Ends(p, l) ==
  /\ val' = [i \in 0..2 |-> IF val[i] + undo[p][i] < 0 THEN 0 ELSE val[i] + undo[p][i]]
  /\ undo' = [undo EXCEPT ![p] = Zero]
  /\ Goto(p, l)
  /\ UNCHANGED <<key, sets, id, calls, excused>>

(* err_sys: a call other than op_lock finds the set gone, or the set went  *)
(* away while op_lock waited for it (EIDRM).  err_dump: the counter is     *)
(* above BIGCOUNT.                                                         *)
Fail(p) ==
  /\ \/ pc[p] \notin {"idle", "create", "lock", "open", "failed", "dead"} /\ ~There(p)
     \/ pc[p] = "closing" /\ val[1] > BIGCOUNT
  /\ Ends(p, "failed")

Exit(p) ==
  /\ p \in Crashers /\ pc[p] \notin {"failed", "dead"}
  /\ Ends(p, "dead")

Step(p) ==
  \/ Semget(p) \/ Lock(p) \/ LockBlocks(p) \/ LockAgain(p) \/ CreateGetval(p)
  \/ SetSemaphore(p) \/ SetCounter(p) \/ EndCreate(p)
  \/ OpenGet(p) \/ OpenCount(p) \/ Wait(p) \/ Signal(p)
  \/ Close(p) \/ CloseGetval(p) \/ CloseUnlock(p) \/ Remove(p) \/ Fail(p)

Next == \E p \in Procs : Begin(p) \/ ShutDown(p) \/ Step(p) \/ Exit(p)

Spec == Init /\ [][Next]_vars

(* A process in a call goes on with it, and a user closes sometime.        *)
FairSpec == Spec /\ \A p \in Procs : WF_vars(Step(p))

-----------------------------------------------------------------------------
(* Between the return of sem_create or sem_open and sem_close              *)
Users(s) == {p \in Procs : pc[p] \in {"using", "critical", "used", "shutdown"} /\ id[p] = s}

(* The counter of a set somebody has initialized is BIGCOUNT less its      *)
(* users, whoever crashed, opened or closed meanwhile, the undo value of   *)
(* each user gives its place back, and the one unit of the semaphore is in *)
(* its value or with the process in the critical section: neither SETVAL   *)
(* nor an exit loses or adds one.                                          *)
CountRight ==
  key # 0 /\ val[1] # 0 =>
    /\ val[1] = BIGCOUNT - Cardinality(Users(key))
    /\ \A p \in Users(key) : undo[p][1] = 1
    /\ val[0] + Cardinality({p \in Users(key) : pc[p] = "critical"}) = 1

(* A user keeps its semaphore: sem_close and sem_create agree on who is    *)
(* the last one to use a set and who the first one, except when a server   *)
(* removes it or sem_open came in between.                                 *)
UsersKept == \A p \in Procs : p \in Users(id[p]) => id[p] = key \/ id[p] \in excused

(* sem_close removes the set when the last user is gone: without a crash   *)
(* or a failure no set is left behind once everybody has closed.           *)
Quiet == \A p \in Procs : pc[p] = "idle"
NothingLeft == Quiet => key = 0

(* sem_create comes to an end.                                             *)
Creating(p) == pc[p] \in {"create", "lock", "locking", "getval", "setval0", "setval1", "endcreate"}
CreateReturns == \A p \in Procs : Creating(p) ~> ~Creating(p)

(* Two processes are never in the critical section at once, whatever set   *)
(* each of them uses.                                                      *)
OneAtATime == Cardinality({p \in Procs : pc[p] = "critical"}) <= 1

=============================================================================
