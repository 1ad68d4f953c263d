------------------------------- MODULE MCFoo -------------------------------
(* The two versions of the counted objects.  Threads, pointer variables    *)
(* and addresses are interchangeable, and so are the two ids, which share  *)
(* one chain of a table with two.                                          *)
EXTENDS FooMutex2, TLC

CONSTANTS t1, t2, t3, r1, r2, r3, o1, o2, i1, i2

VARIABLE file    \* the source that is linked, "mutex2.c" or "mutex3.c"

Mutex3 == INSTANCE FooMutex3

MCHash == [id \in Ids |-> 1]
Symmetry ==
  Permutations(Threads) \cup Permutations(Refs) \cup Permutations(Objs) \cup Permutations(Ids)

Runs(source) == file = source /\ UNCHANGED file
Busier == Cardinality({t \in Threads : ~Idle(t)'})

MCInit == Init /\ file \in {"mutex2.c", "mutex3.c"}

(* For mutex3.c no more than two calls are in progress at a time.          *)
MCNext ==
  \/ Runs("mutex2.c") /\ Next
  \/ Runs("mutex3.c") /\ (\E t \in Threads : Mutex3!Step(t)) /\ Busier <= 2

MCSpec == MCInit /\ [][MCNext]_<<vars, file>>

(* NoUseAfterFree of FooMutex3: no step of mutex3.c touches freed memory,  *)
(* though foo_alloc publishes an object before it is initialised.          *)
NoUseAfterFree3 == file = "mutex3.c" => Mutex3!NoUseAfterFree

=============================================================================
