------------------------------ MODULE Barrier -------------------------------
(***************************************************************************)
(* The sort of apue.3e/threads/barrier.c: NTHR threads sort a part of the  *)
(* numbers each, and the main thread merges the parts when all of them and *)
(* itself have come to the barrier.                                        *)
(***************************************************************************)
EXTENDS Integers, FiniteSets, Sequences, Functions

CONSTANTS NTHR, TNUM, Numbers   \* Numbers: what random() returns, below LONG_MAX

VARIABLES
  given,              \* the numbers before they are sorted
  nums, snums,
  unsorted,           \* the threads whose heapsort failed
  tpc, mpc,           \* a thread: "none", "sort", "barrier", "blocked", "returned"
                      \* main: "create", "barrier", "blocked", "merge", "exited"
  next                \* of merge: idx[]

vars == <<given, nums, snums, unsorted, tpc, mpc, next>>

Thr == 0 .. NTHR - 1
NUMNUM == NTHR * TNUM
Part(t) == t * TNUM + 1 .. (t + 1) * TNUM
complong(l1, l2) == IF l1 = l2 THEN 0 ELSE IF l1 < l2 THEN -1 ELSE 1

-----------------------------------------------------------------------------
(* The barrier is for the threads and the main thread.                     *)
BarrierCount == NTHR + 1

(* The last one to come lets all go on.                                    *)
Blocked == {t \in Thr : tpc[t] = "blocked"}
AtBarrier == Cardinality(Blocked) + (IF mpc = "blocked" THEN 1 ELSE 0)
LastToCome == AtBarrier = BarrierCount - 1

ThreadWaits(t) ==
  /\ tpc[t] = "barrier"
  /\ IF LastToCome
     THEN /\ tpc' = [u \in Thr |-> IF u \in Blocked \cup {t} THEN "returned" ELSE tpc[u]]
          /\ mpc' = IF mpc = "blocked" THEN "merge" ELSE mpc
     ELSE tpc' = [tpc EXCEPT ![t] = "blocked"] /\ UNCHANGED mpc
  /\ UNCHANGED <<given, nums, snums, unsorted, next>>

MainWaits ==
  /\ mpc = "barrier"
  /\ IF LastToCome
     THEN /\ tpc' = [u \in Thr |-> IF u \in Blocked THEN "returned" ELSE tpc[u]]
          /\ mpc' = "merge"
     ELSE mpc' = "blocked" /\ UNCHANGED tpc
  /\ UNCHANGED <<given, nums, snums, unsorted, next>>

Create ==
  /\ mpc = "create"
  /\ LET t == CHOOSE u \in Thr : tpc[u] = "none" /\ \A w \in Thr : tpc[w] = "none" => u <= w IN
     /\ tpc' = [tpc EXCEPT ![t] = "sort"]
     /\ mpc' = IF t = NTHR - 1 THEN "barrier" ELSE "create"
  /\ UNCHANGED <<given, nums, snums, unsorted, next>>

(* A thread sorts its part in place: heapsort moves its numbers, and in    *)
(* the order it leaves them in none is greater than one behind it.         *)
Heapsort(t) ==
  /\ \E from \in Bijection(Part(t), Part(t)) :
       nums' = [k \in DOMAIN nums |-> IF k \in Part(t) THEN nums[from[k]] ELSE nums[k]]
  /\ \A j, k \in Part(t) : j < k => complong(nums'[j], nums'[k]) # 1

(* Without memory heapsort moves nothing, and the thread goes on as if it  *)
(* had sorted: it does not look at what heapsort returns.                  *)
Sort(t) ==
  /\ tpc[t] = "sort" /\ tpc' = [tpc EXCEPT ![t] = "barrier"]
  /\ \/ Heapsort(t) /\ UNCHANGED unsorted
     \/ UNCHANGED nums /\ unsorted' = unsorted \cup {t}
  /\ UNCHANGED <<given, snums, mpc, next>>

(* The first of the parts with the smallest number that is left, into the  *)
(* next place of snums; the end of the program after the last.             *)
Merge ==
  /\ mpc = "merge"
  /\ LET left == {t \in Thr : next[t] \in Part(t)}
         minidx == CHOOSE t \in left : \A u \in left :
                     \/ nums[next[t]] < nums[next[u]]
                     \/ nums[next[t]] = nums[next[u]] /\ t <= u IN
     /\ snums' = Append(snums, nums[next[minidx]])
     /\ next' = [next EXCEPT ![minidx] = @ + 1]
  /\ mpc' = IF Len(snums') = NUMNUM THEN "exited" ELSE "merge"
  /\ UNCHANGED <<given, nums, unsorted, tpc>>

-----------------------------------------------------------------------------
Init ==
  /\ given \in [1 .. NUMNUM -> Numbers] /\ nums = given /\ snums = <<>> /\ unsorted = {}
  /\ tpc = [t \in Thr |-> "none"] /\ mpc = "create"
  /\ next = [t \in Thr |-> t * TNUM + 1]

Step == Create \/ MainWaits \/ Merge \/ \E t \in Thr : Sort(t) \/ ThreadWaits(t)

Next == Step

Spec == Init /\ [][Next]_vars

FairSpec == Spec /\ WF_vars(Step)

-----------------------------------------------------------------------------
(* Each of the merged numbers is one of those that were given, once; and   *)
(* where every heapsort worked they are in ascending order, and those that *)
(* are left are not smaller: no part is merged before its thread has       *)
(* sorted it.                                                              *)
Sorted == unsorted = {}
SortRight ==
  /\ Sorted => \A m, n \in DOMAIN snums : m < n => snums[m] <= snums[n]
  /\ \E from \in Injection(DOMAIN snums, DOMAIN given) :
       /\ \A n \in DOMAIN snums : snums[n] = given[from[n]]
       /\ Sorted => \A n \in DOMAIN snums, k \in DOMAIN given \ Range(from) : snums[n] <= given[k]

Busy == mpc # "exited"

=============================================================================
