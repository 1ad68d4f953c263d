----------------------------- MODULE FooMutex2 -----------------------------
(***************************************************************************)
(* apue.3e/threads/mutex2.c: the count is protected by the lock in the     *)
(* object, so that foo_rele has to drop that lock to take the two locks in *)
(* their order, and to test the count again.                               *)
(***************************************************************************)
EXTENDS FooTable

(* foo_hold, called by a user or by foo_find with hashlock held            *)
Hold(t, from, to) ==
  /\ Goto(t, from, to)
  /\ LockObj(t)
  /\ f_count' = [f_count EXCEPT ![fp[t]] = @ + 1]
  /\ ref' = [ref EXCEPT ![dst[t]] = fp[t]]
  /\ UNCHANGED <<fh, f_id, hashlock, alive, fp, calls>>

HoldDone(t, from, to) ==
  /\ Goto(t, from, to)
  /\ UnlockObj(t)
  /\ UNCHANGED <<data, hashlock, fp, calls>>

\* Mutant: hashlock is released before the reference is taken.
FindUnlocked(t) ==
  /\ pc[t] = "find"
  /\ hashlock = NoThread
  /\ \/ \E o \in Objs : /\ Finds(t, o)
                        /\ fp' = [fp EXCEPT ![t] = o]
                        /\ pc' = [pc EXCEPT ![t] = "find_hold"]
     \/ /\ NothingFound(t)
        /\ pc' = [pc EXCEPT ![t] = "find_done"]
        /\ UNCHANGED fp
  /\ UNCHANGED <<data, hashlock, f_lock, calls>>

(* foo_find walks the chain of the id under hashlock.                      *)
Find(t) ==
  /\ pc[t] = "find"
  /\ LockHash(t)
  /\ \/ \E o \in Objs : /\ Finds(t, o)
                        /\ fp' = [fp EXCEPT ![t] = o]
                        /\ pc' = [pc EXCEPT ![t] = "find_hold"]
     \/ /\ NothingFound(t)
        /\ pc' = [pc EXCEPT ![t] = "find_done"]
        /\ UNCHANGED fp
  /\ UNCHANGED <<data, f_lock, calls>>

FindDone(t) ==
  /\ Goto(t, "find_done", "idle")
  /\ UnlockHash
  /\ UNCHANGED <<data, f_lock, fp, calls>>

-----------------------------------------------------------------------------
(* foo_rele                                                                *)
Drop(t) ==
  /\ f_count' = [f_count EXCEPT ![fp[t]] = @ - 1]
  /\ ref' = [ref EXCEPT ![dst[t]] = NULL]
  /\ UNCHANGED <<fh, f_id, alive>>

Rele(t) ==
  /\ pc[t] = "rele"
  /\ LockObj(t)
  /\ IF f_count[fp[t]] = 1
     THEN pc' = [pc EXCEPT ![t] = "rele_again"] /\ UNCHANGED data
     ELSE pc' = [pc EXCEPT ![t] = "rele_done"] /\ Drop(t)
  /\ UNCHANGED <<hashlock, fp, calls>>

ReleDone(t) ==
  /\ Goto(t, "rele_done", "idle")
  /\ UnlockObj(t)
  /\ UNCHANGED <<data, hashlock, fp, calls>>

\* Mutant: the lock of the object is kept while hashlock is asked for.
ReleAgainLocked(t) ==
  /\ Goto(t, "rele_again", "rele_hash")
  /\ UNCHANGED <<data, f_lock, hashlock, fp, calls>>

ReleAgain(t) ==
  /\ Goto(t, "rele_again", "rele_hash")
  /\ UnlockObj(t)
  /\ UNCHANGED <<data, hashlock, fp, calls>>

ReleHash(t) ==
  /\ Goto(t, "rele_hash", "rele_check")
  /\ LockHash(t)
  /\ UNCHANGED <<data, f_lock, fp, calls>>

(* The count is tested again: somebody may have found the object meanwhile. *)
\* Mutant: it is not.
ReleUnchecked(t) ==
  /\ pc[t] = "rele_check"
  /\ LockObj(t)
  /\ pc' = [pc EXCEPT ![t] = "rele_gone"]
  /\ Unlink(t)
  /\ ref' = [ref EXCEPT ![dst[t]] = NULL]
  /\ UNCHANGED <<f_count, f_id, alive, hashlock, fp, calls>>

ReleCheck(t) ==
  /\ pc[t] = "rele_check"
  /\ LockObj(t)
  /\ \/ /\ f_count[fp[t]] # 1
        /\ pc' = [pc EXCEPT ![t] = "rele_kept"]
        /\ Drop(t)
     \/ /\ f_count[fp[t]] = 1
        /\ pc' = [pc EXCEPT ![t] = "rele_gone"]
        /\ Unlink(t)
        /\ ref' = [ref EXCEPT ![dst[t]] = NULL]
        /\ UNCHANGED <<f_count, f_id, alive>>
  /\ UNCHANGED <<hashlock, fp, calls>>

ReleKept(t) ==
  /\ Goto(t, "rele_kept", "rele_unhash")
  /\ UnlockObj(t)
  /\ UNCHANGED <<data, hashlock, fp, calls>>

ReleUnhash(t) ==
  /\ Goto(t, "rele_unhash", "idle")
  /\ UnlockHash
  /\ UNCHANGED <<data, f_lock, fp, calls>>

ReleGone(t) ==
  /\ Goto(t, "rele_gone", "rele_unlock")
  /\ UnlockHash
  /\ UNCHANGED <<data, f_lock, fp, calls>>

ReleUnlock(t) ==
  /\ Goto(t, "rele_unlock", "rele_free")
  /\ UnlockObj(t)
  /\ UNCHANGED <<data, hashlock, fp, calls>>

\* Mutant: free is forgotten.
ReleFreeSkipped(t) ==
  /\ Goto(t, "rele_free", "idle")
  /\ UNCHANGED <<data, f_lock, hashlock, fp, calls>>

ReleFree(t) ==
  /\ Goto(t, "rele_free", "idle")
  /\ Free(t)
  /\ UNCHANGED <<fh, f_count, f_id, ref, f_lock, hashlock, fp, calls>>

Step(t) ==
  \/ Alloc(t) \/ Enter(t)
  \/ Hold(t, "hold", "hold_done") \/ HoldDone(t, "hold_done", "idle")
  \/ Find(t) \/ FindDone(t)
  \/ Hold(t, "find_hold", "find_held") \/ HoldDone(t, "find_held", "find_done")
  \/ Rele(t) \/ ReleDone(t) \/ ReleAgain(t) \/ ReleHash(t) \/ ReleCheck(t)
  \/ ReleKept(t) \/ ReleUnhash(t) \/ ReleGone(t) \/ ReleUnlock(t) \/ ReleFree(t)

Next == \E t \in Threads : Step(t)

Spec == Init /\ [][Next]_vars

-----------------------------------------------------------------------------
(* The objects the next step of a thread reads, writes, locks or unlocks   *)
Touches(t) ==
  CASE pc[t] \in {"idle", "find_done", "rele_hash", "rele_unhash"} -> {}
    [] pc[t] = "find" -> Range(Chain(want[t]))
    [] pc[t] \in {"alloc_lock", "rele_check"} ->
         {fp[t]} \cup Range(Chain(f_id[fp[t]]))
    [] OTHER -> {fp[t]}

(* No step touches an object after it was freed, and no object is freed    *)
(* with its lock held: the two locks of foo_rele are dropped and taken     *)
(* again while other threads find, hold and release the same object.       *)
NoUseAfterFree ==
  /\ \A t \in Threads : Touches(t) \subseteq alive
  /\ \A o \in Objs : f_lock[o] # NoThread => o \in alive

(* The lock a thread is waiting for is held by w.                          *)
WaitsFor(t, w) ==
  \/ pc[t] \in {"alloc_lock", "find", "rele_hash"} /\ hashlock = w
  \/ /\ pc[t] \in {"alloc_flock", "hold", "find_hold", "rele", "rele_check"}
     /\ f_lock[fp[t]] = w

(* However the two kinds of locks are taken, no set of threads waits for   *)
(* itself: hashlock is never asked for with the lock of an object held.    *)
NoDeadlock ==
  \A S \in SUBSET Threads :
    (\A t \in S : \E w \in S : WaitsFor(t, w)) => S = {}

(* The id a thread is looking for                                          *)
Asked(t) == IF pc[t] \in {"find", "find_hold"} THEN want[t] ELSE NoId

(* Every call takes effect in one step: a reference found or held is to an *)
(* object that stays in the table until its last reference is released.    *)
Refinement == INSTANCE FooRefs WITH
  table <- [id \in Ids |-> Listed(id)], newer <- Newer,
  asked <- [t \in Threads |-> Asked(t)]

ImplementsRefs == Refinement!Spec

=============================================================================
