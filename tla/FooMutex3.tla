----------------------------- MODULE FooMutex3 -----------------------------
(***************************************************************************)
(* apue.3e/threads/mutex3.c: the count is protected by hashlock too, so    *)
(* that every function but foo_alloc needs one lock only.                  *)
(***************************************************************************)
EXTENDS FooTable

TakeRef(t, o) ==
  /\ f_count' = [f_count EXCEPT ![o] = @ + 1]
  /\ ref' = [ref EXCEPT ![dst[t]] = o]

Hold(t) ==
  /\ Goto(t, "hold", "find_done")
  /\ LockHash(t)
  /\ TakeRef(t, fp[t])
  /\ UNCHANGED <<fh, f_id, f_lock, alive, fp, calls>>

\* Mutant: foo_find returns the object without counting the reference.
FindUncounted(t) ==
  /\ Goto(t, "find", "find_done")
  /\ LockHash(t)
  /\ \/ \E o \in Objs : /\ Finds(t, o)
                        /\ fp' = [fp EXCEPT ![t] = o]
                        /\ ref' = [ref EXCEPT ![dst[t]] = o]
     \/ NothingFound(t) /\ UNCHANGED <<fp, ref>>
  /\ UNCHANGED <<fh, f_count, f_id, f_lock, alive, calls>>

Find(t) ==
  /\ Goto(t, "find", "find_done")
  /\ LockHash(t)
  /\ \/ \E o \in Objs : /\ Finds(t, o)
                        /\ fp' = [fp EXCEPT ![t] = o]
                        /\ TakeRef(t, o)
     \/ NothingFound(t) /\ UNCHANGED <<fp, f_count, ref>>
  /\ UNCHANGED <<fh, f_id, f_lock, alive, calls>>

(* foo_hold and foo_find return                                            *)
FindDone(t) ==
  /\ Goto(t, "find_done", "idle")
  /\ UnlockHash
  /\ UNCHANGED <<data, f_lock, fp, calls>>

-----------------------------------------------------------------------------
(* foo_rele                                                                *)
Rele(t) ==
  /\ pc[t] = "rele"
  /\ LockHash(t)
  /\ f_count' = [f_count EXCEPT ![fp[t]] = @ - 1]
  /\ ref' = [ref EXCEPT ![dst[t]] = NULL]
  /\ IF f_count[fp[t]] = 1
     THEN pc' = [pc EXCEPT ![t] = "rele_gone"] /\ Unlink(t)
     ELSE pc' = [pc EXCEPT ![t] = "rele_done"] /\ UNCHANGED fh
  /\ UNCHANGED <<f_id, f_lock, alive, fp, calls>>

ReleDone(t) ==
  /\ Goto(t, "rele_done", "idle")
  /\ UnlockHash
  /\ UNCHANGED <<data, f_lock, fp, calls>>

ReleGone(t) ==
  /\ Goto(t, "rele_gone", "rele_free")
  /\ UnlockHash
  /\ UNCHANGED <<data, f_lock, fp, calls>>

ReleFree(t) ==
  /\ Goto(t, "rele_free", "idle")
  /\ Free(t)
  /\ UNCHANGED <<fh, f_count, f_id, ref, f_lock, hashlock, fp, calls>>

Step(t) ==
  \/ Alloc(t) \/ Enter(t) \/ Hold(t) \/ Find(t) \/ FindDone(t)
  \/ Rele(t) \/ ReleDone(t) \/ ReleGone(t) \/ ReleFree(t)

Next == \E t \in Threads : Step(t)

Spec == Init /\ [][Next]_vars

-----------------------------------------------------------------------------
(* The objects the next step of a thread reads, writes, locks or unlocks   *)
Touches(t) ==
  CASE pc[t] \in {"idle", "find_done", "rele_done", "rele_gone"} -> {}
    [] pc[t] = "find" -> Range(Chain(want[t]))
    [] pc[t] \in {"alloc_lock", "rele"} -> {fp[t]} \cup Range(Chain(f_id[fp[t]]))
    [] OTHER -> {fp[t]}

(* No step touches an object after it was freed, and no object is freed    *)
(* with its lock held: foo_alloc still initialises an object under its own *)
(* lock when others can already find, hold and release it.                 *)
NoUseAfterFree ==
  /\ \A t \in Threads : Touches(t) \subseteq alive
  /\ \A o \in Objs : f_lock[o] # NoThread => o \in alive

(* The id a thread is looking for                                          *)
Asked(t) == IF pc[t] = "find" THEN want[t] ELSE NoId

(* Every call takes effect in one step, as in mutex2.c: the two ways of    *)
(* protecting f_count cannot be told apart by the callers.                 *)
Refinement == INSTANCE FooRefs WITH
  table <- [id \in Ids |-> Listed(id)], newer <- Newer,
  asked <- [t \in Threads |-> Asked(t)]

ImplementsRefs == Refinement!Spec

=============================================================================
