-------------------------- MODULE FooMutex2Proofs --------------------------
(***************************************************************************)
(* The reference counts of mutex2.c, proved for any number of threads,     *)
(* pointer variables, objects, ids and hash chains: the invariant of       *)
(* FooTableProofs with the positions at which foo_hold, foo_find and       *)
(* foo_rele hold the two locks.  The last section is about both sources.   *)
(***************************************************************************)
EXTENDS MCFoo, FooTableProofs

HashPos == {"alloc_flock", "alloc_unhash", "find_hold", "find_held", "find_done",
            "rele_check", "rele_kept", "rele_unhash", "rele_gone"}
ObjPos == {"alloc_unhash", "alloc_init", "hold_done", "find_held", "rele_done",
           "rele_again", "rele_kept", "rele_gone", "rele_unlock"}

(* foo_find keeps hashlock until it holds the object it has found.         *)
FoundFirst ==
  \A t \in Threads : pc[t] = "find_hold" => want[t] \in Ids /\ Finds(t, fp[t])

IInv == FooInv(HashPos, ObjPos)

LEMMA PositionsShared == Shared(HashPos, ObjPos)
BY DEF Shared, HashPos, ObjPos, Has, Locked, Private

-----------------------------------------------------------------------------
(* The steps that only take or release locks and move on                   *)
LockStep(t) ==
  \/ HoldDone(t, "hold_done", "idle") \/ HoldDone(t, "find_held", "find_done")
  \/ FindDone(t) \/ ReleDone(t) \/ ReleAgain(t) \/ ReleHash(t)
  \/ ReleKept(t) \/ ReleUnhash(t) \/ ReleGone(t) \/ ReleUnlock(t)

LEMMA LockSteps ==
  ASSUME IInv, NEW t \in Threads, LockStep(t)
  PROVE  IInv'
<1> USE DEF LockStep, HoldDone, FindDone, ReleDone, ReleAgain, ReleHash, ReleKept,
            ReleUnhash, ReleGone, ReleUnlock, Goto
<1>1. UNCHANGED <<data, fp, calls>> /\ TypeOK /\ Mine(t)
  BY DEF IInv, FooInv, data, calls
<1>2. Moves(t) /\ pc'[t] \in Positions /\ pc' = [pc EXCEPT ![t] = pc'[t]]
  BY <1>1 DEF TypeOK, Moves, Positions
<1>3. ~Idle(t) /\ (pc[t] # "find_done" /\ pc[t] # "rele_unhash" => fp[t] \in Objs)
  BY <1>1 DEF TypeOK, Mine, Idle, Has, Locked, Private
<1>4. PlacesTyped'
  BY <1>1, <1>2 DEF TypeOK, PlacesTyped, LockHash, UnlockHash, UnlockObj
<1>5. LocksAt(HashPos, ObjPos)'
  <2> USE <1>1, <1>2, <1>3 DEF IInv, FooInv
  <2>1. CASE ReleHash(t)
    <3>1. pc[t] = "rele_hash" /\ pc'[t] = "rele_check"
      BY <2>1 DEF TypeOK
    <3> QED BY <2>1, <3>1, TakeHash DEF KeepsObj, HashPos, ObjPos
  <2>2. CASE FindDone(t) \/ ReleUnhash(t) \/ ReleGone(t)
    <3>1. pc[t] \in HashPos /\ pc'[t] \notin HashPos /\ KeepsObj(t, ObjPos)
      BY <2>2 DEF TypeOK, KeepsObj, HashPos, ObjPos
    <3> QED BY <2>2, <3>1, DropHash
  <2>3. CASE \/ HoldDone(t, "hold_done", "idle") \/ HoldDone(t, "find_held", "find_done")
             \/ ReleDone(t) \/ ReleAgain(t) \/ ReleKept(t) \/ ReleUnlock(t)
    <3>1. pc[t] \in ObjPos /\ pc'[t] \notin ObjPos /\ KeepsHash(t, HashPos) /\ UnlockObj(t)
      BY <2>3 DEF TypeOK, KeepsHash, HashPos, ObjPos
    <3>2. UNCHANGED hashlock /\ fp[t] \in Objs
      BY <2>3
    <3> QED BY <3>1, <3>2, DropObj
  <2> QED BY <2>1, <2>2, <2>3
<1>6. Mine(t)'
  BY <1>1, TableSame DEF TypeOK, Mine, data, calls, Wants, Has, Locked, Private
<1>7. /\ pc'[t] \in Private => pc[t] \in Private
      /\ pc[t] \in Private => pc'[t] \in Private
  BY <1>1 DEF TypeOK, Private
<1> QED BY <1>1, <1>2, <1>3, <1>4, <1>5, <1>6, <1>7, QuietStep DEF IInv

LEMMA FindStep ==
  ASSUME IInv, NEW t \in Threads, Find(t)
  PROVE  IInv'
<1> USE DEF Find
<1>1. /\ TypeOK /\ ChainsSound /\ Mine(t) /\ UNCHANGED <<data, calls>>
      /\ pc[t] = "find" /\ want[t] \in Ids
  BY DEF IInv, FooInv, Mine
<1>2. /\ Moves(t) /\ PlacesTyped'
      /\ \/ pc'[t] = "find_hold" /\ fp'[t] \in Objs /\ InTable(fp'[t])
         \/ pc'[t] = "find_done"
  <2>1. CASE \E o \in Objs : Finds(t, o) /\ fp' = [fp EXCEPT ![t] = o]
                             /\ pc' = [pc EXCEPT ![t] = "find_hold"]
    BY <1>1, <2>1, FoundNewest DEF TypeOK, PlacesTyped, Positions, LockHash, Moves
  <2>2. CASE pc' = [pc EXCEPT ![t] = "find_done"] /\ UNCHANGED fp
    BY <1>1, <2>2 DEF TypeOK, PlacesTyped, Positions, LockHash, Moves
  <2> QED BY <2>1, <2>2
<1>3. LocksAt(HashPos, ObjPos)'
  <2>1. pc'[t] \in HashPos /\ KeepsObj(t, ObjPos)
    BY <1>1, <1>2 DEF KeepsObj, HashPos, ObjPos
  <2> QED BY <1>2, <2>1, TakeHash DEF IInv, FooInv
<1>4. Mine(t)'
  <2>1. ref'[dst'[t]] = NULL /\ \A o : InTable(o)' <=> InTable(o)
    BY <1>1, TableSame DEF Mine, Wants, data, calls
  <2> QED BY <1>2, <2>1 DEF Mine, Wants, Has, Locked, Private
<1>5. pc[t] \notin Private /\ pc'[t] \notin Private /\ ~Idle(t)
  BY <1>1, <1>2 DEF Private, Idle
<1> QED BY <1>1, <1>2, <1>3, <1>4, <1>5, QuietStep DEF IInv

(* A reference is taken: the object is in the table already.               *)
LEMMA HoldStep ==
  ASSUME IInv, NEW t \in Threads, NEW from, NEW to, Hold(t, from, to),
         \/ from = "hold" /\ to = "hold_done"
         \/ from = "find_hold" /\ to = "find_held"
  PROVE  IInv'
<1> USE DEF Hold, Goto
<1>1. /\ TypeOK /\ pc[t] = from /\ pc'[t] = to /\ Moves(t)
      /\ UNCHANGED <<fh, f_id, alive, calls, fp, hashlock>>
  BY DEF IInv, FooInv, TypeOK, Moves
<1>2. fp[t] \in Objs /\ InTable(fp[t])
  BY <1>1, Held DEF IInv, Locked, Private
<1>3. PlacesTyped'
  BY <1>1 DEF TypeOK, PlacesTyped, Positions, LockObj
<1>4. LocksAt(HashPos, ObjPos)'
  <2>1. pc[t] \notin ObjPos /\ pc'[t] \in ObjPos /\ KeepsHash(t, HashPos)
    BY <1>1 DEF KeepsHash, HashPos, ObjPos
  <2> QED BY <1>1, <1>2, <2>1, TakeObj DEF IInv, FooInv
<1>5. pc[t] \in Wants \ {"alloc_lock"} /\ pc'[t] \notin Private \cup Wants
  BY <1>1 DEF Wants, Private
<1> QED BY <1>1, <1>2, <1>3, <1>4, <1>5, TakeStep DEF IInv

(* The first test of the count in foo_rele, with the lock in the object    *)
LEMMA ReleStep ==
  ASSUME IInv, NEW t \in Threads, Rele(t)
  PROVE  IInv'
<1> USE DEF Rele
<1>1. /\ TypeOK /\ Mine(t) /\ pc[t] = "rele" /\ UNCHANGED <<hashlock, fp, calls>>
      /\ pc'[t] \in {"rele_again", "rele_done"} /\ Moves(t)
      /\ fp[t] \in Objs
  BY Held DEF IInv, FooInv, TypeOK, Moves, Has
<1>2. PlacesTyped'
  BY <1>1 DEF TypeOK, PlacesTyped, Positions, LockObj
<1>3. LocksAt(HashPos, ObjPos)'
  <2>1. pc[t] \notin ObjPos /\ pc'[t] \in ObjPos /\ KeepsHash(t, HashPos)
    BY <1>1 DEF KeepsHash, HashPos, ObjPos
  <2> QED BY <1>1, <2>1, TakeObj DEF IInv, FooInv
<1>4. CASE f_count[fp[t]] = 1
  <2>1. pc'[t] = "rele_again" /\ UNCHANGED data
    BY <1>1, <1>4 DEF TypeOK
  <2>2. Mine(t)'
    BY <1>1, <2>1 DEF Mine, data, calls, Wants, Has, Locked, Private
  <2> QED BY <1>1, <1>2, <1>3, <2>1, <2>2, QuietStep DEF IInv, Private, Idle
<1>5. CASE f_count[fp[t]] # 1
  <2>1. pc'[t] = "rele_done" /\ Drop(t)
    BY <1>1, <1>5 DEF TypeOK
  <2> QED BY <1>1, <1>2, <1>3, <1>5, <2>1, DropStep DEF IInv, Drop
<1> QED BY <1>4, <1>5

(* The second test, with both locks: they leave nobody who could still     *)
(* refer to the object or look at it when it is removed.                   *)
LEMMA ReleCheckStep ==
  ASSUME IInv, NEW t \in Threads, ReleCheck(t)
  PROVE  IInv'
<1> USE DEF ReleCheck
<1>1. /\ TypeOK /\ pc[t] = "rele_check" /\ UNCHANGED <<hashlock, fp, calls>>
      /\ pc'[t] \in {"rele_kept", "rele_gone"} /\ pc' = [pc EXCEPT ![t] = pc'[t]]
      /\ Moves(t) /\ LockObj(t) /\ fp[t] \in Objs
  BY Held DEF IInv, FooInv, TypeOK, Moves, Has
<1>2. PlacesTyped'
  <2>1. pc' \in [Threads -> Positions]
    BY <1>1 DEF TypeOK, Positions
  <2>2. f_lock' \in [Objs -> Threads \cup {NoThread}]
    BY <1>1 DEF TypeOK, LockObj
  <2> QED BY <1>1, <2>1, <2>2 DEF TypeOK, PlacesTyped
<1>3. LocksAt(HashPos, ObjPos)'
  <2>1. pc[t] \notin ObjPos /\ pc'[t] \in ObjPos /\ KeepsHash(t, HashPos)
    BY <1>1 DEF KeepsHash, HashPos, ObjPos
  <2> QED BY <1>1, <2>1, TakeObj DEF IInv, FooInv
<1>4. CASE f_count[fp[t]] # 1
  <2>1. pc'[t] = "rele_kept" /\ Drop(t)
    BY <1>1, <1>4 DEF TypeOK
  <2> QED BY <1>1, <1>2, <1>3, <1>4, <2>1, DropStep DEF IInv, Drop
<1>5. CASE f_count[fp[t]] = 1
  <2>1. /\ pc'[t] = "rele_gone" /\ Unlink(t) /\ ref' = [ref EXCEPT ![dst[t]] = NULL]
        /\ UNCHANGED <<f_count, f_id, alive>>
    BY <1>1, <1>5 DEF TypeOK
  <2>2. ASSUME NEW u \in Threads \ {t}, pc[u] \in Locked PROVE fp[u] # fp[t]
    <3>1. CASE pc[u] = "find_hold"
      BY <1>1, <3>1 DEF IInv, FooInv, LocksAt, HashPos
    <3>2. CASE pc[u] \in {"rele_done", "rele_kept"}
      <4>1. fp[u] = fp[t] => f_lock[fp[t]] = u
        BY <1>1, <3>2 DEF IInv, FooInv, LocksAt, ObjPos
      <4> QED BY <1>1, <4>1, NullAssumption DEF LockObj
    <3> QED BY <2>2, <3>1, <3>2 DEF Locked
  <2>3. f_count' \in [Objs -> Nat]
    BY <1>1, <2>1 DEF TypeOK
  <2> QED BY <1>1, <1>2, <1>3, <1>5, <2>1, <2>2, <2>3, RemoveStep DEF IInv
<1> QED BY <1>4, <1>5

LEMMA ReleFreeStep ==
  ASSUME IInv, NEW t \in Threads, ReleFree(t)
  PROVE  IInv'
<1>1. "rele_free" \notin HashPos \cup ObjPos /\ "idle" \notin HashPos \cup ObjPos
  BY DEF HashPos, ObjPos
<1> QED BY <1>1, FreeStep DEF IInv, ReleFree

LEMMA InitIInv == Init => IInv
  BY InitFoo, PositionsShared DEF IInv

LEMMA StepIInv == IInv /\ [Next]_vars => IInv'
<1> SUFFICES ASSUME IInv, [Next]_vars PROVE IInv'
  OBVIOUS
<1>1. CASE UNCHANGED vars
  BY <1>1, StutterFoo DEF IInv
<1>2. ASSUME NEW t \in Threads, Step(t) PROVE IInv'
  <2>1. CASE \E id \in Ids, r \in Refs, o \in Objs : AllocNew(t, id, r, o)
    BY <2>1, AllocNewStep, PositionsShared DEF IInv
  <2>2. CASE AllocInsert(t)
    BY <2>2, AllocInsertStep, PositionsShared DEF IInv
  <2>3. CASE AllocLock(t) \/ AllocUnhash(t) \/ AllocDone(t)
    BY <2>3, AllocLockStep, PositionsShared DEF IInv
  <2>4. CASE Enter(t)
    BY <2>4, EnterStep, PositionsShared DEF IInv
  <2>5. CASE Hold(t, "hold", "hold_done") \/ Hold(t, "find_hold", "find_held")
    BY <2>5, HoldStep
  <2>6. CASE Find(t)
    BY <2>6, FindStep
  <2>7. CASE LockStep(t)
    BY <2>7, LockSteps
  <2>8. CASE Rele(t)
    BY <2>8, ReleStep
  <2>9. CASE ReleCheck(t)
    BY <2>9, ReleCheckStep
  <2>10. CASE ReleFree(t)
    BY <2>10, ReleFreeStep
  <2> QED BY <1>2, <2>1, <2>2, <2>3, <2>4, <2>5, <2>6, <2>7, <2>8, <2>9, <2>10
          DEF Step, Alloc, LockStep
<1> QED BY <1>1, <1>2 DEF Next

LEMMA Invariant == Spec => []IInv
  BY InitIInv, StepIInv, PTL DEF Spec

-----------------------------------------------------------------------------
(* Every variable has its type, whatever the interleaving of the calls.    *)
THEOREM TypeCorrect == Spec => []TypeOK
<1>1. IInv => TypeOK
  BY DEF IInv, FooInv
<1> QED BY <1>1, Invariant, PTL

(* An object is on one chain, that of its id, and once; none is on it after *)
(* foo_rele has freed it.                                                  *)
THEOREM TableSound == Spec => [](ChainsSound /\ TableAlive)
<1>1. IInv => ChainsSound /\ TableAlive
  BY DEF IInv, FooInv
<1> QED BY <1>1, Invariant, PTL

(* f_count is the number of references, whatever the interleaving of       *)
(* foo_alloc, foo_hold, foo_find and foo_rele.                             *)
THEOREM CountsReferences == Spec => []CountRight
<1>1. IInv => CountRight
  BY DEF IInv, FooInv
<1> QED BY <1>1, Invariant, PTL

(* foo_rele never leaks: an object that malloc returned is in the table, or *)
(* foo_alloc is about to insert it, or foo_rele to free it.                *)
THEOREM NothingLeaks == Spec => []NoLeak
<1>1. IInv => NoLeak
  BY NothingLost DEF IInv
<1> QED BY <1>1, Invariant, PTL

LEMMA TouchesAlive == IInv => NoUseAfterFree
<1> SUFFICES ASSUME IInv PROVE NoUseAfterFree
  OBVIOUS
<1>1. ASSUME NEW b \in Buckets PROVE Range(fh[b]) \subseteq alive
  BY ChainsAlive DEF IInv
<1>2. ASSUME NEW t \in Threads, pc[t] \in Has \cup Locked \cup Private \cup {"hold"}
      PROVE  fp[t] \in Objs /\ fp[t] \in alive
  BY <1>2, Held DEF IInv
<1>3. ASSUME NEW t \in Threads PROVE Touches(t) \subseteq alive
  <2>1. CASE pc[t] \in {"idle", "find_done", "rele_hash", "rele_unhash"}
    BY <2>1 DEF Touches
  <2>2. CASE pc[t] = "find"
    <3>1. Hash[want[t]] \in Buckets
      BY <2>2, HashAssumption DEF IInv, FooInv, Mine
    <3> QED BY <1>1, <2>2, <3>1 DEF Touches, Chain
  <2>3. CASE pc[t] \in {"alloc_lock", "rele_check"}
    <3>1. fp[t] \in Objs /\ fp[t] \in alive
      BY <1>2, <2>3 DEF Has, Private
    <3>2. Hash[f_id[fp[t]]] \in Buckets
      BY <3>1, HashAssumption DEF IInv, FooInv, TypeOK
    <3> QED BY <1>1, <2>3, <3>1, <3>2 DEF Touches, Chain
  <2>4. CASE pc[t] \notin {"idle", "find_done", "rele_hash", "rele_unhash", "find",
                           "alloc_lock", "rele_check"}
    <3>1. pc[t] \in Has \cup Locked \cup Private \cup {"hold"}
      BY <2>4 DEF IInv, FooInv, TypeOK, Positions, Has, Locked, Private
    <3> QED BY <1>2, <2>4, <3>1 DEF Touches
  <2> QED BY <2>1, <2>2, <2>3, <2>4
<1>4. ASSUME NEW o \in Objs, f_lock[o] # NoThread PROVE o \in alive
  <2>1. PICK t \in Threads : pc[t] \in ObjPos /\ fp[t] = o
    BY <1>4 DEF IInv, FooInv, TypeOK, LocksAt
  <2> QED BY <1>2, <2>1 DEF ObjPos, Has, Locked, Private
<1> QED BY <1>3, <1>4 DEF NoUseAfterFree

(* No call ever touches freed memory.                                      *)
THEOREM MemorySafe == Spec => []NoUseAfterFree
  BY Invariant, TouchesAlive, PTL

LEMMA NoCycle == IInv => NoDeadlock
<1> SUFFICES ASSUME IInv, NEW S \in SUBSET Threads,
                    \A t \in S : \E w \in S : WaitsFor(t, w), S # {}
             PROVE  FALSE
  BY DEF NoDeadlock
<1>1. ASSUME NEW u \in S, pc[u] \in ObjPos PROVE FALSE
  BY <1>1 DEF WaitsFor, ObjPos
<1>2. ASSUME NEW t \in S,
             pc[t] \in {"alloc_flock", "hold", "find_hold", "rele", "rele_check"}
      PROVE  FALSE
  <2>1. PICK w \in S : f_lock[fp[t]] = w
    BY <1>2 DEF WaitsFor
  <2>2. fp[t] \in Objs
    BY <1>2, Held DEF IInv, Has, Locked
  <2> QED BY <1>1, <2>1, <2>2 DEF IInv, FooInv, LocksAt
<1>3. PICK t \in S : TRUE
  OBVIOUS
<1>4. PICK w \in S : hashlock = w
  BY <1>2, <1>3 DEF WaitsFor
<1>5. pc[w] \in {"alloc_flock", "find_hold", "rele_check"}
  BY <1>4 DEF IInv, FooInv, LocksAt, HashPos, WaitsFor
<1> QED BY <1>2, <1>5

(* hashlock is never asked for with the lock of an object held, so that    *)
(* no set of threads can wait for itself.                                  *)
THEOREM DeadlockFree == Spec => []NoDeadlock
  BY Invariant, NoCycle, PTL

-----------------------------------------------------------------------------
(* The steps that change the table: the others leave the chains and the    *)
(* ids alone.                                                              *)
LEMMA TableSteps ==
  ASSUME NEW t \in Threads, Step(t), ~AllocInsert(t), ~ReleCheck(t),
         ~\E id \in Ids, r \in Refs, o \in Objs : AllocNew(t, id, r, o)
  PROVE  UNCHANGED <<fh, f_id>>
BY DEF Step, Alloc, AllocLock, AllocUnhash, AllocDone, Enter, HoldCall, FindCall, ReleCall,
       Hold, HoldDone, Find, FindDone, Rele, Drop, ReleDone, ReleAgain, ReleHash, ReleKept,
       ReleUnhash, ReleGone, ReleUnlock, ReleFree, data

(* A step leaves the other threads where they are.                         *)
LEMMA Others ==
  ASSUME TypeOK, NEW t \in Threads, Step(t), NEW u \in Threads \ {t}
  PROVE  pc'[u] = pc[u] /\ fp'[u] = fp[u] /\ want'[u] = want[u]
BY DEF TypeOK, Step, Alloc, AllocNew, AllocInsert, AllocLock, AllocUnhash, AllocDone, Enter,
       HoldCall, FindCall, ReleCall, Call, Goto, Hold, HoldDone, Find, FindDone, Rele,
       ReleDone, ReleAgain, ReleHash, ReleCheck, ReleKept, ReleUnhash, ReleGone, ReleUnlock,
       ReleFree, calls

LEMMA FindsSame ==
  ASSUME TypeOK, NEW t \in Threads, want[t] \in Ids, fh' = fh, want'[t] = want[t], fp'[t] = fp[t],
         \A o \in Range(Chain(want[t])) : f_id'[o] = f_id[o], Finds(t, fp[t])
  PROVE  Finds(t, fp[t])'
<1> DEFINE s == Chain(want[t])
<1>1. PICK i \in DOMAIN s : /\ fp[t] = s[i] /\ f_id[fp[t]] = want[t]
                            /\ \A j \in 1..(i - 1) : f_id[s[j]] # want[t]
  BY DEF Finds
<1>2. Chain(want[t])' = s /\ s \in Seq(Objs)
  BY HashAssumption DEF Chain, TypeOK
<1>3. f_id'[fp[t]] = f_id[fp[t]] /\ \A j \in 1..(i - 1) : f_id'[s[j]] = f_id[s[j]]
  BY <1>1, <1>2 DEF Range
<1> HIDE DEF s
<1> QED BY <1>1, <1>2, <1>3 DEF Finds

LEMMA FoundStep == IInv /\ FoundFirst /\ [Next]_vars => FoundFirst'
<1> SUFFICES ASSUME IInv, FoundFirst, [Next]_vars,
                    NEW u \in Threads, pc'[u] = "find_hold"
             PROVE  want'[u] \in Ids /\ Finds(u, fp[u])'
  BY DEF FoundFirst
<1>1. TypeOK
  BY DEF IInv, FooInv
<1>2. CASE UNCHANGED vars
  BY <1>2 DEF vars, FoundFirst, Finds, Chain
<1>3. ASSUME NEW t \in Threads, Step(t) PROVE want'[u] \in Ids /\ Finds(u, fp[u])'
  <2>1. CASE u = t
    <3>1. Find(t)
      BY <1>1, <1>3, <2>1 DEF TypeOK, Step, Alloc, AllocNew, AllocInsert, AllocLock,
         AllocUnhash, AllocDone, Enter, HoldCall, FindCall, ReleCall, Call, Goto, Hold,
         HoldDone, FindDone, Rele, ReleDone, ReleAgain, ReleHash, ReleCheck, ReleKept,
         ReleUnhash, ReleGone, ReleUnlock, ReleFree
    <3>2. want'[t] = want[t] /\ want[t] \in Ids /\ UNCHANGED <<fh, f_id>>
      BY <3>1 DEF Find, IInv, FooInv, Mine, data, calls
    <3>3. PICK o \in Objs : Finds(t, o) /\ fp'[t] = o
      BY <1>1, <2>1, <3>1 DEF Find, TypeOK
    <3> QED BY <2>1, <3>2, <3>3 DEF Finds, Chain
  <2>2. CASE u # t
    <3>1. pc[u] = "find_hold" /\ fp'[u] = fp[u] /\ want'[u] = want[u]
      BY <1>1, <1>3, <2>2, Others
    <3>2. want[u] \in Ids /\ Finds(u, fp[u])
      BY <3>1 DEF FoundFirst
    <3>3. hashlock = u
      BY <3>1 DEF IInv, FooInv, LocksAt, HashPos
    <3>4. ~AllocInsert(t) /\ ~ReleCheck(t)
      BY <2>2, <3>3, NullAssumption
         DEF AllocInsert, LockHash, ReleCheck, IInv, FooInv, LocksAt, HashPos
    <3>5. CASE \E id \in Ids, r \in Refs, o \in Objs : AllocNew(t, id, r, o)
      <4>1. PICK o \in Objs : o \notin alive /\ fh' = fh
                              /\ \A p \in Objs : p # o => f_id'[p] = f_id[p]
        BY <1>1, <3>5 DEF AllocNew, TypeOK
      <4>2. Range(Chain(want[u])) \subseteq alive /\ alive \subseteq Objs
        BY <1>1, <3>2, HashAssumption, ChainsAlive DEF IInv, Chain, TypeOK
      <4> QED BY <1>1, <3>1, <3>2, <4>1, <4>2, FindsSame
    <3>6. CASE ~\E id \in Ids, r \in Refs, o \in Objs : AllocNew(t, id, r, o)
      BY <1>1, <1>3, <3>1, <3>2, <3>4, <3>6, TableSteps, FindsSame
    <3> QED BY <3>5, <3>6
  <2> QED BY <2>1, <2>2
<1> QED BY <1>2, <1>3 DEF Next

LEMMA FoundInit == Init => FoundFirst
BY DEF Init, FoundFirst

LEMMA FoundInvariant == Spec => [](IInv /\ FoundFirst)
  BY InitIInv, StepIInv, FoundInit, FoundStep, PTL DEF Spec

-----------------------------------------------------------------------------
(* How each step of the code takes effect for the callers                  *)
Seen == <<ref, [id \in Ids |-> Listed(id)], Newer, [t \in Threads |-> Asked(t)]>>

LEMMA Silent ==
  ASSUME UNCHANGED ref, \A id \in Ids : Listed(id)' = Listed(id), Newer' = Newer,
         \A t \in Threads : Asked(t)' = Asked(t)
  PROVE  UNCHANGED Seen
BY DEF Seen

(* The steps at which nothing happens for the callers                      *)
Inner(t) ==
  \/ AllocLock(t) \/ AllocUnhash(t) \/ AllocDone(t)
  \/ \E r, s \in Refs : HoldCall(t, r, s)
  \/ \E r \in Refs : ReleCall(t, r)
  \/ Find(t) /\ ~NothingFound(t)
  \/ LockStep(t)
  \/ Rele(t) /\ f_count[fp[t]] = 1
  \/ ReleFree(t)

LEMMA InnerStep ==
  ASSUME IInv, NEW t \in Threads, Inner(t)
  PROVE  UNCHANGED Seen
<1>1. TypeOK
  BY DEF IInv, FooInv
<1> USE DEF Inner, AllocLock, AllocUnhash, AllocDone, HoldCall, ReleCall, Call, Goto,
            Find, LockStep, HoldDone, FindDone, ReleDone, ReleAgain, ReleHash, ReleKept,
            ReleUnhash, ReleGone, ReleUnlock, Rele, ReleFree, data, calls
<1>2. UNCHANGED <<fh, f_id, ref>>
  OBVIOUS
<1>3. \A u \in Threads : Asked(u)' = Asked(u)
  <2>1. \A u \in Threads \ {t} : pc'[u] = pc[u] /\ want'[u] = want[u]
    BY <1>1 DEF TypeOK
  <2>2. Asked(t)' = Asked(t)
    BY <1>1 DEF TypeOK, Asked
  <2> QED BY <2>1, <2>2 DEF Asked
<1> QED BY <1>2, <1>3, ViewSame, Silent

LEMMA AllocRefines ==
  ASSUME IInv, NEW t \in Threads, AllocInsert(t)
  PROVE  Refinement!Alloc(dst[t], want[t], fp[t])
<1>1. TypeOK
  BY DEF IInv, FooInv
<1>2. /\ fp[t] \in Objs /\ want[t] \in Ids /\ ref[dst[t]] = NULL
      /\ \A id \in Ids : fp[t] \notin Listed(id)
      /\ \A id \in Ids :
           Listed(id)' = IF id = want[t] THEN Listed(id) \cup {fp[t]} ELSE Listed(id)
      /\ Newer' = Newer \cup ({fp[t]} \X Listed(want[t]))
  BY ViewInserted DEF IInv
<1>3. ~Refinement!Listed(fp[t])
  BY <1>2 DEF Refinement!Listed
<1>4. ref' = [ref EXCEPT ![dst[t]] = fp[t]]
  BY DEF AllocInsert
<1>5. [id \in Ids |-> Listed(id)]' =
        [[id \in Ids |-> Listed(id)] EXCEPT ![want[t]] = @ \cup {fp[t]}]
  BY <1>2
<1>6. \A u \in Threads : Asked(u)' = Asked(u)
  BY <1>1 DEF AllocInsert, Goto, calls, TypeOK, Asked
<1> QED BY <1>2, <1>3, <1>4, <1>5, <1>6 DEF Refinement!Alloc

(* The last reference takes the object out of the table.                   *)
LEMMA ReleaseRefines ==
  ASSUME IInv, NEW t \in Threads, ReleCheck(t) \/ (Rele(t) /\ f_count[fp[t]] # 1)
  PROVE  Refinement!Release(dst[t])
<1>1. /\ TypeOK /\ ChainsSound /\ fp[t] \in Objs /\ InTable(fp[t])
      /\ ref[dst[t]] = fp[t] /\ dst[t] \in Refs /\ f_count[fp[t]] = Count(fp[t])
  <2>1. TypeOK /\ pc[t] \in Has \ Private /\ ChainsSound /\ Mine(t) /\ CountRight
    BY DEF ReleCheck, Rele, Has, Private, IInv, FooInv
  <2> QED BY <2>1, Held DEF IInv, Mine, TypeOK, CountRight
<1>2. ref' = [ref EXCEPT ![dst[t]] = NULL] /\ f_id' = f_id
  BY DEF ReleCheck, Rele, Drop
<1>3. \A u \in Threads : Asked(u)' = Asked(u)
  BY <1>1 DEF ReleCheck, Rele, calls, TypeOK, Asked
<1>4. Refinement!Last(dst[t]) <=> f_count[fp[t]] = 1
  BY <1>1, CountTwo, CountOne DEF Refinement!Last
<1>5. CASE f_count[fp[t]] # 1
  <2>1. fh' = fh
    BY <1>5 DEF ReleCheck, Rele, Drop
  <2>2. (\A id \in Ids : Listed(id)' = Listed(id)) /\ Newer' = Newer
    BY <1>2, <2>1, ViewSame
  <2> QED BY <1>1, <1>2, <1>3, <1>4, <1>5, <2>2, NullAssumption DEF Refinement!Release
<1>6. CASE f_count[fp[t]] = 1
  <2>1. Unlink(t)
    BY <1>6 DEF ReleCheck
  <2>2. /\ \A id \in Ids : Listed(id)' = Listed(id) \ {fp[t]}
        /\ Newer' = {x \in Newer : fp[t] \notin {x[1], x[2]}}
    BY <1>1, <1>2, <2>1, ViewUnlinked
  <2> QED BY <1>1, <1>2, <1>3, <1>4, <1>6, <2>2, NullAssumption DEF Refinement!Release
<1> QED BY <1>5, <1>6

LEMMA HoldRefines ==
  ASSUME IInv, NEW t \in Threads, Hold(t, "hold", "hold_done")
  PROVE  Refinement!Hold(dst[t], src[t])
<1>1. TypeOK /\ Mine(t) /\ pc[t] = "hold"
  BY DEF IInv, FooInv, Hold, Goto
<1>2. ref[dst[t]] = NULL /\ ref[src[t]] = fp[t] /\ ref[src[t]] # NULL
  BY <1>1, NullAssumption DEF Mine, Wants
<1>3. (\A id \in Ids : Listed(id)' = Listed(id)) /\ Newer' = Newer
  BY ViewSame DEF Hold
<1>4. \A u \in Threads : Asked(u)' = Asked(u)
  BY <1>1 DEF Hold, Goto, calls, TypeOK, Asked
<1> QED BY <1>2, <1>3, <1>4 DEF Refinement!Hold, Hold

LEMMA AskRefines ==
  ASSUME IInv, NEW t \in Threads, NEW id \in Ids, NEW r \in Refs, FindCall(t, id, r)
  PROVE  Refinement!Ask(t, id)
<1>1. TypeOK /\ pc[t] = "idle" /\ UNCHANGED <<fh, f_id, ref>>
  BY DEF IInv, FooInv, FindCall, Call, Goto, data
<1>2. (\A i \in Ids : Listed(i)' = Listed(i)) /\ Newer' = Newer
  BY <1>1, ViewSame
<1>3. /\ Asked(t) = NoId /\ Asked(t)' = id
      /\ \A u \in Threads \ {t} : Asked(u)' = Asked(u)
  BY <1>1 DEF FindCall, Call, Goto, TypeOK, Asked
<1> QED BY <1>1, <1>2, <1>3 DEF Refinement!Ask

LEMMA HitRefines ==
  ASSUME IInv, FoundFirst, NEW t \in Threads, Hold(t, "find_hold", "find_held")
  PROVE  fp[t] \in Objs /\ Refinement!Hit(t, dst[t], fp[t])
<1>1. /\ TypeOK /\ ChainsSound /\ Mine(t) /\ pc[t] = "find_hold"
      /\ want[t] \in Ids /\ Finds(t, fp[t])
  BY DEF IInv, FooInv, FoundFirst, Hold, Goto
<1>2. ref[dst[t]] = NULL /\ fp[t] \in Objs /\ want[t] # NoId
  BY <1>1, NullAssumption DEF Mine, Wants, Locked
<1>3. Refinement!Newest(want[t], fp[t])
  BY <1>1, <1>2, FoundNewest DEF Refinement!Newest
<1>4. (\A id \in Ids : Listed(id)' = Listed(id)) /\ Newer' = Newer
  BY ViewSame DEF Hold
<1>5. /\ Asked(t) = want[t] /\ Asked(t)' = NoId
      /\ \A u \in Threads \ {t} : Asked(u)' = Asked(u)
  BY <1>1 DEF Hold, Goto, calls, TypeOK, Asked
<1>6. [u \in Threads |-> Asked(u)]' = [[u \in Threads |-> Asked(u)] EXCEPT ![t] = NoId]
  BY <1>5
<1>7. ref' = [ref EXCEPT ![dst[t]] = fp[t]]
  BY DEF Hold
<1>8. [id \in Ids |-> Listed(id)]' = [id \in Ids |-> Listed(id)]
  BY <1>4
<1> QED BY <1>2, <1>3, <1>4, <1>5, <1>6, <1>7, <1>8 DEF Refinement!Hit

LEMMA MissRefines ==
  ASSUME IInv, NEW t \in Threads, Find(t), NothingFound(t)
  PROVE  Refinement!Miss(t)
<1>1. /\ TypeOK /\ Mine(t) /\ pc[t] = "find" /\ want[t] \in Ids
      /\ UNCHANGED <<fh, f_id, ref, want>>
  BY DEF IInv, FooInv, Find, data, calls, Mine
<1>2. (\A id \in Ids : Listed(id)' = Listed(id)) /\ Newer' = Newer
  BY <1>1, ViewSame
<1>3. Listed(want[t]) = {} /\ want[t] # NoId
  BY <1>1, NoneListed, NullAssumption
<1>4. pc' = [pc EXCEPT ![t] = "find_done"]
  BY <1>1, HashAssumption DEF Find, Finds, NothingFound, Chain, TypeOK, Range
<1>5. /\ Asked(t) = want[t] /\ Asked(t)' = NoId
      /\ \A u \in Threads \ {t} : Asked(u)' = Asked(u)
  BY <1>1, <1>4 DEF TypeOK, Asked
<1>6. [u \in Threads |-> Asked(u)]' = [[u \in Threads |-> Asked(u)] EXCEPT ![t] = NoId]
  BY <1>5
<1>7. [id \in Ids |-> Listed(id)]' = [id \in Ids |-> Listed(id)]
  BY <1>2
<1> QED BY <1>1, <1>2, <1>3, <1>5, <1>6, <1>7 DEF Refinement!Miss

LEMMA StepRefines ==
  IInv /\ FoundFirst /\ [Next]_vars => [Refinement!Next]_(Refinement!vars)
<1> SUFFICES ASSUME IInv, FoundFirst, [Next]_vars
             PROVE  Refinement!Next \/ UNCHANGED Seen
  BY DEF Refinement!vars, Seen
<1>1. TypeOK
  BY DEF IInv, FooInv
<1>2. CASE UNCHANGED vars
  BY <1>2, ViewSame, Silent DEF vars, Asked
<1>3. ASSUME NEW t \in Threads, Step(t) PROVE Refinement!Next \/ UNCHANGED Seen
  <2>1. ASSUME NEW id \in Ids, NEW r \in Refs, NEW o \in Objs, AllocNew(t, id, r, o)
        PROVE  UNCHANGED Seen
    <3>1. (\A i \in Ids : Listed(i)' = Listed(i)) /\ Newer' = Newer
      BY <2>1, ViewNew DEF IInv
    <3>2. \A u \in Threads : Asked(u)' = Asked(u)
      BY <1>1, <2>1 DEF AllocNew, Call, Goto, TypeOK, Asked
    <3> QED BY <2>1, <3>1, <3>2, Silent DEF AllocNew
  <2>2. dst[t] \in Refs /\ src[t] \in Refs
    BY <1>1 DEF TypeOK
  <2>3. CASE AllocInsert(t)
    BY <2>2, <2>3, AllocRefines, ViewInserted DEF Refinement!Next, IInv
  <2>4. CASE ReleCheck(t) \/ (Rele(t) /\ f_count[fp[t]] # 1)
    BY <2>2, <2>4, ReleaseRefines DEF Refinement!Next
  <2>5. CASE Hold(t, "hold", "hold_done")
    BY <2>2, <2>5, HoldRefines DEF Refinement!Next
  <2>6. ASSUME NEW id \in Ids, NEW r \in Refs, FindCall(t, id, r) PROVE Refinement!Next
    BY <2>6, AskRefines DEF Refinement!Next
  <2>7. CASE Hold(t, "find_hold", "find_held")
    BY <2>2, <2>7, HitRefines DEF Refinement!Next
  <2>8. CASE Find(t) /\ NothingFound(t)
    BY <2>8, MissRefines DEF Refinement!Next
  <2>9. CASE Inner(t)
    BY <2>9, InnerStep
  <2> QED BY <1>3, <2>1, <2>3, <2>4, <2>5, <2>6, <2>7, <2>8, <2>9
          DEF Step, Alloc, Enter, Inner, LockStep
<1> QED BY <1>2, <1>3 DEF Next

LEMMA InitRefines == Init => Refinement!Init
<1> SUFFICES ASSUME Init PROVE Refinement!Init
  OBVIOUS
<1>1. TypeOK
  BY InitIInv DEF IInv, FooInv
<1>2. \A b \in Buckets : fh[b] = <<>>
  BY DEF Init
<1>3. \A o \in Objs : Chain(f_id[o]) = <<>>
  BY <1>1, <1>2, HashAssumption DEF Chain, TypeOK
<1>4. \A id \in Ids : Listed(id) = {}
  BY <1>3 DEF Listed, InTable, Range
<1>5. Newer = {}
  BY <1>3 DEF Newer, Before
<1>6. \A t \in Threads : Asked(t) = NoId
  BY DEF Init, Asked
<1> QED BY <1>4, <1>5, <1>6 DEF Init, Refinement!Init

(* Each call of foo_alloc, foo_hold, foo_find and foo_rele takes effect in *)
(* one step: callers see an atomic table of counted objects.               *)
THEOREM CallsAtomic == Spec => ImplementsRefs
<1>1. Init => Refinement!Init
  BY InitRefines
<1>2. IInv /\ FoundFirst /\ [Next]_vars => [Refinement!Next]_(Refinement!vars)
  BY StepRefines
<1>3. Spec => [](IInv /\ FoundFirst)
  BY FoundInvariant
<1> QED BY <1>1, <1>2, <1>3, PTL DEF Spec, ImplementsRefs, Refinement!Spec

-----------------------------------------------------------------------------
(* Both sources.  What this module and FooMutex3Proofs prove of mutex2.c   *)
(* and of mutex3.c holds of the program, whichever of them is linked.      *)
Proofs3 == INSTANCE FooMutex3Proofs

IInv3 ==
  /\ file \in {"mutex2.c", "mutex3.c"}
  /\ file = "mutex3.c" => Proofs3!IInv

LEMMA RefsFinite == Proofs3!IsFiniteSet(Refs)
BY RefsAssumption DEF IsFiniteSet, Proofs3!IsFiniteSet

(* MCFoo and FooMutex3Proofs speak of the same steps of mutex3.c.          *)
LEMMA SameStep == ASSUME NEW t \in Threads, Mutex3!Step(t) PROVE Proofs3!Step(t)
<1> USE DEF Mutex3!Goto, Proofs3!Goto, Mutex3!calls, Proofs3!calls, Mutex3!data, Proofs3!data,
    Mutex3!LockHash, Proofs3!LockHash, Mutex3!UnlockHash, Proofs3!UnlockHash, Mutex3!LockObj,
    Proofs3!LockObj, Mutex3!UnlockObj, Proofs3!UnlockObj
<1>1. Mutex3!Alloc(t) => Proofs3!Alloc(t)
  BY DEF Mutex3!Alloc, Proofs3!Alloc, Mutex3!AllocNew, Proofs3!AllocNew, Mutex3!AllocInsert,
    Proofs3!AllocInsert, Mutex3!AllocLock, Proofs3!AllocLock, Mutex3!AllocUnhash,
    Proofs3!AllocUnhash, Mutex3!AllocDone, Proofs3!AllocDone, Mutex3!Call, Proofs3!Call,
    Mutex3!Unused, Proofs3!Unused, Mutex3!Busy, Proofs3!Busy, Mutex3!Idle, Proofs3!Idle
<1>2. Mutex3!Enter(t) => Proofs3!Enter(t)
  BY DEF Mutex3!Enter, Proofs3!Enter, Mutex3!HoldCall, Proofs3!HoldCall, Mutex3!FindCall,
    Proofs3!FindCall, Mutex3!ReleCall, Proofs3!ReleCall, Mutex3!Call, Proofs3!Call,
    Mutex3!Unused, Proofs3!Unused, Mutex3!InUse, Proofs3!InUse, Mutex3!Busy, Proofs3!Busy,
    Mutex3!Idle, Proofs3!Idle
<1>3. Mutex3!Hold(t) => Proofs3!Hold(t)
  BY DEF Mutex3!Hold, Proofs3!Hold, Mutex3!TakeRef, Proofs3!TakeRef
<1>4. Mutex3!Find(t) => Proofs3!Find(t)
  BY DEF Mutex3!Find, Proofs3!Find, Mutex3!TakeRef, Proofs3!TakeRef, Mutex3!Finds, Proofs3!Finds,
    Mutex3!NothingFound, Proofs3!NothingFound, Mutex3!Chain, Proofs3!Chain, Mutex3!Range,
    Proofs3!Range
<1>5. Mutex3!FindDone(t) => Proofs3!FindDone(t)
  BY DEF Mutex3!FindDone, Proofs3!FindDone
<1>6. Mutex3!Rele(t) => Proofs3!Rele(t)
  BY DEF Mutex3!Rele, Proofs3!Rele, Mutex3!Unlink, Proofs3!Unlink, Mutex3!RemoveAt, Proofs3!RemoveAt
<1>7. Mutex3!ReleDone(t) => Proofs3!ReleDone(t)
  BY DEF Mutex3!ReleDone, Proofs3!ReleDone
<1>8. Mutex3!ReleGone(t) => Proofs3!ReleGone(t)
  BY DEF Mutex3!ReleGone, Proofs3!ReleGone
<1>9. Mutex3!ReleFree(t) => Proofs3!ReleFree(t)
  BY DEF Mutex3!ReleFree, Proofs3!ReleFree, Mutex3!Free, Proofs3!Free
<1> QED
  BY <1>1, <1>2, <1>3, <1>4, <1>5, <1>6, <1>7, <1>8, <1>9 DEF Mutex3!Step, Proofs3!Step

LEMMA BothStep == IInv3 /\ [MCNext]_<<vars, file>> => IInv3'
<1> SUFFICES ASSUME IInv3, [MCNext]_<<vars, file>> PROVE IInv3'
  OBVIOUS
<1>1. file' = file
  BY DEF MCNext, Runs
<1>2. ASSUME file = "mutex3.c" PROVE [Proofs3!Next]_Proofs3!vars
  BY <1>2, SameStep DEF MCNext, Runs, Proofs3!Next, Proofs3!vars, vars
<1> QED BY <1>1, <1>2, Proofs3!StepIInv, HashAssumption, NullAssumption, RefsFinite
    DEF IInv3

(* With mutex3.c no step touches an object that was freed and no object is *)
(* freed with its lock held, although foo_alloc publishes an object before *)
(* it has initialised it.                                                  *)
THEOREM BothMemorySafe == MCSpec => []NoUseAfterFree3
<1>1. MCInit => IInv3
  BY Proofs3!InitIInv, HashAssumption, NullAssumption, RefsFinite
    DEF MCInit, IInv3, Init, Proofs3!Init
<1>2. IInv3 => NoUseAfterFree3
  <2>1. Mutex3!NoUseAfterFree <=> Proofs3!NoUseAfterFree
    BY DEF Mutex3!NoUseAfterFree, Proofs3!NoUseAfterFree, Mutex3!Touches, Proofs3!Touches, Mutex3!Range,
      Proofs3!Range, Mutex3!Chain, Proofs3!Chain
  <2> QED BY <2>1, Proofs3!TouchesAlive, HashAssumption, NullAssumption, RefsFinite
    DEF IInv3, NoUseAfterFree3
<1> QED BY <1>1, <1>2, BothStep, PTL DEF MCSpec

=============================================================================
