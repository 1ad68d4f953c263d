-------------------------- MODULE FooMutex3Proofs --------------------------
(***************************************************************************)
(* The reference counts of mutex3.c, proved for any number of threads,     *)
(* pointer variables, objects, ids and hash chains: the invariant of       *)
(* FooTableProofs, with hashlock held by every function from its first     *)
(* step to its last and the lock in the object by foo_alloc only.          *)
(***************************************************************************)
EXTENDS FooMutex3, FooTableProofs

HashPos == {"alloc_flock", "alloc_unhash", "find_done", "rele_done", "rele_gone"}
ObjPos == {"alloc_unhash", "alloc_init"}

(* The positions of mutex2.c that are none of mutex3.c                     *)
Reached ==
  \A t \in Threads :
    pc[t] \in {"idle", "alloc_lock", "alloc_flock", "alloc_unhash", "alloc_init", "hold",
               "find", "find_done", "rele", "rele_done", "rele_gone", "rele_free"}

IInv == FooInv(HashPos, ObjPos) /\ Reached

LEMMA PositionsShared == Shared(HashPos, ObjPos)
BY DEF Shared, HashPos, ObjPos, Has, Locked, Private

-----------------------------------------------------------------------------
(* The functions return: hashlock is released.                             *)
LEMMA ReturnStep ==
  ASSUME IInv, NEW t \in Threads, FindDone(t) \/ ReleDone(t) \/ ReleGone(t)
  PROVE  FooInv(HashPos, ObjPos)'
<1> USE DEF FindDone, ReleDone, ReleGone, Goto
<1>1. /\ UNCHANGED <<data, fp, calls>> /\ TypeOK /\ Mine(t) /\ Moves(t) /\ ~Idle(t)
      /\ pc[t] \in HashPos /\ pc'[t] \notin HashPos
  BY DEF IInv, FooInv, TypeOK, Moves, Idle, HashPos
<1>2. PlacesTyped'
  BY <1>1 DEF TypeOK, PlacesTyped, Positions, UnlockHash
<1>3. LocksAt(HashPos, ObjPos)'
  <2>1. KeepsObj(t, ObjPos) /\ UnlockHash /\ UNCHANGED f_lock
    BY <1>1 DEF TypeOK, KeepsObj, ObjPos
  <2> QED BY <1>1, <2>1, DropHash DEF IInv, FooInv
<1>4. Mine(t)'
  BY <1>1, TableSame DEF TypeOK, Mine, data, calls, Wants, Has, Locked, Private
<1>5. /\ pc'[t] \in Private => pc[t] \in Private
      /\ pc[t] \in Private => pc'[t] \in Private
  BY <1>1 DEF TypeOK, Private
<1> QED BY <1>1, <1>2, <1>3, <1>4, <1>5, QuietStep DEF IInv

(* foo_hold, and foo_find when it finds an object, take a reference.       *)
LEMMA TakeRefStep ==
  ASSUME IInv, NEW t \in Threads, NEW o \in Objs, InTable(o), TakeRef(t, o), LockHash(t),
         pc[t] \in {"hold", "find"}, pc' = [pc EXCEPT ![t] = "find_done"],
         fp' = [fp EXCEPT ![t] = o], UNCHANGED <<fh, f_id, f_lock, alive, calls>>
  PROVE  FooInv(HashPos, ObjPos)'
<1>1. /\ TypeOK /\ Moves(t) /\ pc'[t] = "find_done" /\ fp'[t] = o
      /\ f_count' = [f_count EXCEPT ![o] = @ + 1] /\ ref' = [ref EXCEPT ![dst[t]] = o]
  BY DEF IInv, FooInv, TypeOK, Moves, TakeRef
<1>2. PlacesTyped'
  BY <1>1 DEF TypeOK, PlacesTyped, Positions, LockHash
<1>3. LocksAt(HashPos, ObjPos)'
  <2>1. pc'[t] \in HashPos /\ KeepsObj(t, ObjPos)
    BY <1>1 DEF KeepsObj, HashPos, ObjPos
  <2> QED BY <1>1, <2>1, TakeHash DEF IInv, FooInv
<1>4. pc[t] \in Wants \ {"alloc_lock"} /\ pc'[t] \notin Private \cup Wants
  BY <1>1 DEF Wants, Private
<1> QED BY <1>1, <1>2, <1>3, <1>4, TakeStep DEF IInv

LEMMA HoldStep ==
  ASSUME IInv, NEW t \in Threads, Hold(t)
  PROVE  FooInv(HashPos, ObjPos)' /\ fp[t] \in Objs /\ InTable(fp[t])
<1>1. fp[t] \in Objs /\ InTable(fp[t]) /\ pc[t] = "hold" /\ fp \in [Threads -> Objs \cup {NULL}]
  BY Held DEF IInv, FooInv, TypeOK, Hold, Goto, Private
<1>2. fp' = [fp EXCEPT ![t] = fp[t]]
  BY <1>1 DEF Hold
<1> QED BY <1>1, <1>2, TakeRefStep DEF Hold, Goto

LEMMA FindStep ==
  ASSUME IInv, NEW t \in Threads, Find(t)
  PROVE  FooInv(HashPos, ObjPos)'
<1> USE DEF Find, Goto
<1>1. TypeOK /\ ChainsSound /\ Mine(t) /\ pc[t] = "find" /\ want[t] \in Ids
  BY DEF IInv, FooInv, Mine
<1>2. CASE \E o \in Objs : Finds(t, o) /\ fp' = [fp EXCEPT ![t] = o] /\ TakeRef(t, o)
  BY <1>1, <1>2, FoundNewest, TakeRefStep
<1>3. CASE UNCHANGED <<fp, f_count, ref>>
  <2>1. /\ UNCHANGED <<data, calls, fp>> /\ Moves(t) /\ pc'[t] = "find_done"
        /\ ~Idle(t) /\ pc[t] \notin Private /\ pc'[t] \notin Private
    BY <1>1, <1>3 DEF data, TypeOK, Moves, Idle, Private
  <2>2. PlacesTyped'
    BY <1>1, <1>3 DEF TypeOK, PlacesTyped, Positions, LockHash
  <2>3. LocksAt(HashPos, ObjPos)'
    <3>1. pc'[t] \in HashPos /\ KeepsObj(t, ObjPos)
      BY <1>1, <2>1 DEF KeepsObj, HashPos, ObjPos
    <3> QED BY <2>1, <3>1, TakeHash DEF IInv, FooInv
  <2>4. Mine(t)'
    BY <2>1 DEF Mine, Wants, Has, Locked, Private
  <2> QED BY <2>1, <2>2, <2>3, <2>4, QuietStep DEF IInv
<1> QED BY <1>2, <1>3

LEMMA ReleStep ==
  ASSUME IInv, NEW t \in Threads, Rele(t)
  PROVE  FooInv(HashPos, ObjPos)'
<1> USE DEF Rele
<1>1. /\ TypeOK /\ pc[t] = "rele" /\ UNCHANGED <<f_id, f_lock, alive, fp, calls>>
      /\ pc'[t] \in {"rele_done", "rele_gone"} /\ pc' = [pc EXCEPT ![t] = pc'[t]]
      /\ LockHash(t) /\ Moves(t) /\ fp[t] \in Objs /\ InTable(fp[t])
      /\ f_count' = [f_count EXCEPT ![fp[t]] = @ - 1]
      /\ ref' = [ref EXCEPT ![dst[t]] = NULL]
  BY Held DEF IInv, FooInv, TypeOK, Moves, Has, Private
<1>2. PlacesTyped'
  <2>1. pc' \in [Threads -> Positions]
    BY <1>1 DEF TypeOK, Positions
  <2> QED BY <1>1, <2>1 DEF TypeOK, PlacesTyped, LockHash
<1>3. LocksAt(HashPos, ObjPos)'
  <2>1. pc'[t] \in HashPos /\ KeepsObj(t, ObjPos)
    BY <1>1 DEF KeepsObj, HashPos, ObjPos
  <2> QED BY <1>1, <2>1, TakeHash DEF IInv, FooInv
<1>4. CASE f_count[fp[t]] # 1
  <2>1. pc'[t] = "rele_done" /\ fh' = fh
    BY <1>1, <1>4 DEF TypeOK
  <2> QED BY <1>1, <1>2, <1>3, <1>4, <2>1, DropStep DEF IInv
<1>5. CASE f_count[fp[t]] = 1
  <2>1. pc'[t] = "rele_gone" /\ Unlink(t)
    BY <1>1, <1>5 DEF TypeOK
  <2>2. ASSUME NEW u \in Threads \ {t}, pc[u] \in Locked PROVE FALSE
    <3>1. pc[u] = "rele_done"
      BY <2>2 DEF IInv, Reached, Locked
    <3>2. hashlock = u
      BY <3>1 DEF IInv, FooInv, LocksAt, HashPos
    <3> QED BY <1>1, <3>2, NullAssumption DEF LockHash
  <2>3. /\ f_count' \in [Objs -> Nat]
        /\ \A o \in Objs : o # fp[t] => f_count'[o] = f_count[o]
    BY <1>1, <1>5 DEF TypeOK
  <2> QED BY <1>1, <1>2, <1>3, <1>5, <2>1, <2>2, <2>3, RemoveStep DEF IInv
<1> QED BY <1>4, <1>5

LEMMA ReleFreeStep ==
  ASSUME IInv, NEW t \in Threads, ReleFree(t)
  PROVE  FooInv(HashPos, ObjPos)'
<1>1. "rele_free" \notin HashPos \cup ObjPos /\ "idle" \notin HashPos \cup ObjPos
  BY DEF HashPos, ObjPos
<1> QED BY <1>1, FreeStep DEF IInv, ReleFree

LEMMA ReachedStep ==
  ASSUME IInv, NEW t \in Threads, Step(t)
  PROVE  Reached'
<1> DEFINE P == {"idle", "alloc_lock", "alloc_flock", "alloc_unhash", "alloc_init", "hold",
                 "find", "find_done", "rele", "rele_done", "rele_gone", "rele_free"}
<1>1. \E p \in P : pc' = [pc EXCEPT ![t] = p]
  <2>1. CASE Alloc(t) \/ Enter(t)
    BY <2>1 DEF Alloc, AllocNew, AllocInsert, AllocLock, AllocUnhash, AllocDone, Enter,
                HoldCall, FindCall, ReleCall, Call, Goto
  <2>2. CASE Rele(t)
    BY <2>2 DEF Rele
  <2>3. CASE Hold(t) \/ Find(t) \/ FindDone(t) \/ ReleDone(t) \/ ReleGone(t) \/ ReleFree(t)
    BY <2>3 DEF Hold, Find, FindDone, ReleDone, ReleGone, ReleFree, Goto
  <2> QED BY <2>1, <2>2, <2>3 DEF Step
<1>2. pc \in [Threads -> Positions] /\ \A u \in Threads : pc[u] \in P
  BY DEF IInv, FooInv, TypeOK, Reached
<1> HIDE DEF P
<1>3. \A u \in Threads : pc'[u] \in P
  BY <1>1, <1>2
<1> QED BY <1>3 DEF Reached, P

LEMMA InitIInv == Init => IInv
<1> SUFFICES ASSUME Init PROVE IInv
  OBVIOUS
<1>1. Reached
  BY DEF Init, Reached
<1> QED BY <1>1, InitFoo, PositionsShared DEF IInv

LEMMA StepIInv == IInv /\ [Next]_vars => IInv'
<1> SUFFICES ASSUME IInv, [Next]_vars PROVE IInv'
  OBVIOUS
<1>1. CASE UNCHANGED vars
  BY <1>1, StutterFoo DEF IInv, Reached, vars
<1>2. ASSUME NEW t \in Threads, Step(t) PROVE FooInv(HashPos, ObjPos)'
  <2>1. CASE \E id \in Ids, r \in Refs, o \in Objs : AllocNew(t, id, r, o)
    BY <2>1, AllocNewStep, PositionsShared DEF IInv
  <2>2. CASE AllocInsert(t)
    BY <2>2, AllocInsertStep, PositionsShared DEF IInv
  <2>3. CASE AllocLock(t) \/ AllocUnhash(t) \/ AllocDone(t)
    BY <2>3, AllocLockStep, PositionsShared DEF IInv
  <2>4. CASE Enter(t)
    BY <2>4, EnterStep, PositionsShared DEF IInv
  <2>5. CASE Hold(t)
    BY <2>5, HoldStep
  <2>6. CASE Find(t)
    BY <2>6, FindStep
  <2>7. CASE FindDone(t) \/ ReleDone(t) \/ ReleGone(t)
    BY <2>7, ReturnStep
  <2>8. CASE Rele(t)
    BY <2>8, ReleStep
  <2>9. CASE ReleFree(t)
    BY <2>9, ReleFreeStep
  <2> QED BY <1>2, <2>1, <2>2, <2>3, <2>4, <2>5, <2>6, <2>7, <2>8, <2>9 DEF Step, Alloc
<1> QED BY <1>1, <1>2, ReachedStep DEF Next, IInv

LEMMA Invariant == Spec => []IInv
  BY InitIInv, StepIInv, PTL DEF Spec

-----------------------------------------------------------------------------
(* f_count is the number of references: one lock is enough for it.         *)
THEOREM CountsReferences == Spec => []CountRight
<1>1. IInv => CountRight
  BY DEF IInv, FooInv
<1> QED BY <1>1, Invariant, PTL

(* foo_rele never leaks.                                                   *)
THEOREM NothingLeaks == Spec => []NoLeak
<1>1. IInv => NoLeak
  BY NothingLost DEF IInv
<1> QED BY <1>1, Invariant, PTL

LEMMA TouchesAlive == IInv => NoUseAfterFree
<1> SUFFICES ASSUME IInv PROVE NoUseAfterFree
  OBVIOUS
<1>1. ASSUME NEW b \in Buckets PROVE Range(fh[b]) \subseteq alive
  BY ChainsAlive DEF IInv
<1>2. ASSUME NEW t \in Threads, pc[t] \in Has \cup Locked \cup Private \cup {"hold"}
      PROVE  fp[t] \in Objs /\ fp[t] \in alive
  BY <1>2, Held DEF IInv
<1>3. ASSUME NEW t \in Threads PROVE Touches(t) \subseteq alive
  <2>1. CASE pc[t] \in {"idle", "find_done", "rele_done", "rele_gone"}
    BY <2>1 DEF Touches
  <2>2. CASE pc[t] = "find"
    <3>1. Hash[want[t]] \in Buckets
      BY <2>2, HashAssumption DEF IInv, FooInv, Mine
    <3> QED BY <1>1, <2>2, <3>1 DEF Touches, Chain
  <2>3. CASE pc[t] \in {"alloc_lock", "rele"}
    <3>1. fp[t] \in Objs /\ fp[t] \in alive
      BY <1>2, <2>3 DEF Has, Private
    <3>2. Hash[f_id[fp[t]]] \in Buckets
      BY <3>1, HashAssumption DEF IInv, FooInv, TypeOK
    <3> QED BY <1>1, <2>3, <3>1, <3>2 DEF Touches, Chain
  <2>4. CASE pc[t] \in {"alloc_flock", "alloc_unhash", "alloc_init", "hold", "rele_free"}
    BY <1>2, <2>4 DEF Touches, Has, Private
  <2> QED BY <2>1, <2>2, <2>3, <2>4 DEF IInv, Reached
<1>4. ASSUME NEW o \in Objs, f_lock[o] # NoThread PROVE o \in alive
  <2>1. PICK t \in Threads : pc[t] \in ObjPos /\ fp[t] = o
    BY <1>4 DEF IInv, FooInv, TypeOK, LocksAt
  <2> QED BY <1>2, <2>1 DEF ObjPos, Has
<1> QED BY <1>3, <1>4 DEF NoUseAfterFree

(* No call ever touches freed memory, not even foo_alloc, which lets go of *)
(* hashlock before it has initialised the object.                          *)
THEOREM MemorySafe == Spec => []NoUseAfterFree
  BY Invariant, TouchesAlive, PTL

-----------------------------------------------------------------------------
(* How each step of the code takes effect for the callers                  *)
Seen == <<ref, [id \in Ids |-> Listed(id)], Newer, [t \in Threads |-> Asked(t)]>>

LEMMA Silent ==
  ASSUME UNCHANGED ref, \A id \in Ids : Listed(id)' = Listed(id), Newer' = Newer,
         \A t \in Threads : Asked(t)' = Asked(t)
  PROVE  UNCHANGED Seen
BY DEF Seen

(* The steps at which nothing happens for the callers                      *)
Inner(t) ==
  \/ AllocLock(t) \/ AllocUnhash(t) \/ AllocDone(t)
  \/ \E r, s \in Refs : HoldCall(t, r, s)
  \/ \E r \in Refs : ReleCall(t, r)
  \/ FindDone(t) \/ ReleDone(t) \/ ReleGone(t) \/ ReleFree(t)

LEMMA InnerStep ==
  ASSUME IInv, NEW t \in Threads, Inner(t)
  PROVE  UNCHANGED Seen
<1>1. TypeOK
  BY DEF IInv, FooInv
<1> USE DEF Inner, AllocLock, AllocUnhash, AllocDone, HoldCall, ReleCall, Call, Goto,
            FindDone, ReleDone, ReleGone, ReleFree, data, calls
<1>2. UNCHANGED <<fh, f_id, ref>>
  OBVIOUS
<1>3. \A u \in Threads : Asked(u)' = Asked(u)
  <2>1. \A u \in Threads \ {t} : pc'[u] = pc[u] /\ want'[u] = want[u]
    BY <1>1 DEF TypeOK
  <2>2. Asked(t)' = Asked(t)
    BY <1>1 DEF TypeOK, Asked
  <2> QED BY <2>1, <2>2 DEF Asked
<1> QED BY <1>2, <1>3, ViewSame, Silent

LEMMA AllocRefines ==
  ASSUME IInv, NEW t \in Threads, AllocInsert(t)
  PROVE  Refinement!Alloc(dst[t], want[t], fp[t])
<1>1. TypeOK
  BY DEF IInv, FooInv
<1>2. /\ fp[t] \in Objs /\ want[t] \in Ids /\ ref[dst[t]] = NULL
      /\ \A id \in Ids : fp[t] \notin Listed(id)
      /\ \A id \in Ids :
           Listed(id)' = IF id = want[t] THEN Listed(id) \cup {fp[t]} ELSE Listed(id)
      /\ Newer' = Newer \cup ({fp[t]} \X Listed(want[t]))
  BY ViewInserted DEF IInv
<1>3. ~Refinement!Listed(fp[t])
  BY <1>2 DEF Refinement!Listed
<1>4. ref' = [ref EXCEPT ![dst[t]] = fp[t]]
  BY DEF AllocInsert
<1>5. [id \in Ids |-> Listed(id)]' =
        [[id \in Ids |-> Listed(id)] EXCEPT ![want[t]] = @ \cup {fp[t]}]
  BY <1>2
<1>6. \A u \in Threads : Asked(u)' = Asked(u)
  BY <1>1 DEF AllocInsert, Goto, calls, TypeOK, Asked
<1> QED BY <1>2, <1>3, <1>4, <1>5, <1>6 DEF Refinement!Alloc

LEMMA ReleaseRefines ==
  ASSUME IInv, NEW t \in Threads, Rele(t)
  PROVE  Refinement!Release(dst[t])
<1>1. /\ TypeOK /\ ChainsSound /\ fp[t] \in Objs /\ InTable(fp[t])
      /\ ref[dst[t]] = fp[t] /\ dst[t] \in Refs /\ f_count[fp[t]] = Count(fp[t])
  <2>1. TypeOK /\ pc[t] \in Has \ Private /\ ChainsSound /\ Mine(t) /\ CountRight
    BY DEF Rele, Has, Private, IInv, FooInv
  <2> QED BY <2>1, Held DEF IInv, Mine, TypeOK, CountRight
<1>2. ref' = [ref EXCEPT ![dst[t]] = NULL] /\ f_id' = f_id
  BY DEF Rele
<1>3. \A u \in Threads : Asked(u)' = Asked(u)
  BY <1>1 DEF Rele, calls, TypeOK, Asked
<1>4. Refinement!Last(dst[t]) <=> f_count[fp[t]] = 1
  BY <1>1, CountTwo, CountOne DEF Refinement!Last
<1>5. CASE f_count[fp[t]] # 1
  <2>1. (\A id \in Ids : Listed(id)' = Listed(id)) /\ Newer' = Newer
    BY <1>2, <1>5, ViewSame DEF Rele
  <2> QED BY <1>1, <1>2, <1>3, <1>4, <1>5, <2>1, NullAssumption DEF Refinement!Release
<1>6. CASE f_count[fp[t]] = 1
  <2>1. /\ \A id \in Ids : Listed(id)' = Listed(id) \ {fp[t]}
        /\ Newer' = {x \in Newer : fp[t] \notin {x[1], x[2]}}
    BY <1>1, <1>2, <1>6, ViewUnlinked DEF Rele
  <2> QED BY <1>1, <1>2, <1>3, <1>4, <1>6, <2>1, NullAssumption DEF Refinement!Release
<1> QED BY <1>5, <1>6

LEMMA HoldRefines ==
  ASSUME IInv, NEW t \in Threads, Hold(t)
  PROVE  Refinement!Hold(dst[t], src[t])
<1>1. TypeOK /\ Mine(t) /\ pc[t] = "hold" /\ fp[t] \in Objs
  BY HoldStep DEF IInv, FooInv, Hold, Goto
<1>2. ref[dst[t]] = NULL /\ ref[src[t]] = fp[t] /\ ref[src[t]] # NULL
  BY <1>1, NullAssumption DEF Mine, Wants
<1>3. (\A id \in Ids : Listed(id)' = Listed(id)) /\ Newer' = Newer
  BY ViewSame DEF Hold
<1>4. \A u \in Threads : Asked(u)' = Asked(u)
  BY <1>1 DEF Hold, Goto, calls, TypeOK, Asked
<1> QED BY <1>2, <1>3, <1>4 DEF Refinement!Hold, Hold, TakeRef

LEMMA AskRefines ==
  ASSUME IInv, NEW t \in Threads, NEW id \in Ids, NEW r \in Refs, FindCall(t, id, r)
  PROVE  Refinement!Ask(t, id)
<1>1. TypeOK /\ pc[t] = "idle" /\ UNCHANGED <<fh, f_id, ref>>
  BY DEF IInv, FooInv, FindCall, Call, Goto, data
<1>2. (\A i \in Ids : Listed(i)' = Listed(i)) /\ Newer' = Newer
  BY <1>1, ViewSame
<1>3. /\ Asked(t) = NoId /\ Asked(t)' = id
      /\ \A u \in Threads \ {t} : Asked(u)' = Asked(u)
  BY <1>1 DEF FindCall, Call, Goto, TypeOK, Asked
<1> QED BY <1>1, <1>2, <1>3 DEF Refinement!Ask

(* foo_find answers and takes its reference in one step.                   *)
LEMMA FindRefines ==
  ASSUME IInv, NEW t \in Threads, Find(t)
  PROVE  Refinement!Miss(t) \/ \E o \in Objs : Refinement!Hit(t, dst[t], o)
<1>1. /\ TypeOK /\ ChainsSound /\ Mine(t) /\ pc[t] = "find" /\ want[t] \in Ids
      /\ want[t] # NoId /\ ref[dst[t]] = NULL /\ UNCHANGED <<fh, f_id, want>>
  BY NullAssumption DEF IInv, FooInv, Find, Goto, calls, Mine, Wants
<1>2. (\A id \in Ids : Listed(id)' = Listed(id)) /\ Newer' = Newer
  BY <1>1, ViewSame
<1>3. [id \in Ids |-> Listed(id)]' = [id \in Ids |-> Listed(id)]
  BY <1>2
<1>4. /\ Asked(t) = want[t] /\ Asked(t)' = NoId
      /\ \A u \in Threads \ {t} : Asked(u)' = Asked(u)
  BY <1>1 DEF Find, Goto, TypeOK, Asked
<1>5. [u \in Threads |-> Asked(u)]' = [[u \in Threads |-> Asked(u)] EXCEPT ![t] = NoId]
  BY <1>4
<1>6. ASSUME NEW o \in Objs, Finds(t, o), TakeRef(t, o)
      PROVE  Refinement!Hit(t, dst[t], o)
  <2>1. Refinement!Newest(want[t], o)
    BY <1>1, <1>6, FoundNewest DEF Refinement!Newest
  <2> QED BY <1>1, <1>2, <1>3, <1>4, <1>5, <1>6, <2>1 DEF Refinement!Hit, TakeRef
<1>7. CASE NothingFound(t) /\ UNCHANGED ref
  <2>1. Listed(want[t]) = {}
    BY <1>7, NoneListed
  <2> QED BY <1>1, <1>2, <1>3, <1>4, <1>5, <1>7, <2>1 DEF Refinement!Miss
<1> QED BY <1>6, <1>7 DEF Find

LEMMA StepRefines ==
  IInv /\ [Next]_vars => [Refinement!Next]_(Refinement!vars)
<1> SUFFICES ASSUME IInv, [Next]_vars
             PROVE  Refinement!Next \/ UNCHANGED Seen
  BY DEF Refinement!vars, Seen
<1>1. TypeOK
  BY DEF IInv, FooInv
<1>2. CASE UNCHANGED vars
  BY <1>2, ViewSame, Silent DEF vars, Asked
<1>3. ASSUME NEW t \in Threads, Step(t) PROVE Refinement!Next \/ UNCHANGED Seen
  <2>1. ASSUME NEW id \in Ids, NEW r \in Refs, NEW o \in Objs, AllocNew(t, id, r, o)
        PROVE  UNCHANGED Seen
    <3>1. (\A i \in Ids : Listed(i)' = Listed(i)) /\ Newer' = Newer
      BY <2>1, ViewNew DEF IInv
    <3>2. \A u \in Threads : Asked(u)' = Asked(u)
      BY <1>1, <2>1 DEF AllocNew, Call, Goto, TypeOK, Asked
    <3> QED BY <2>1, <3>1, <3>2, Silent DEF AllocNew
  <2>2. dst[t] \in Refs /\ src[t] \in Refs
    BY <1>1 DEF TypeOK
  <2>3. CASE AllocInsert(t)
    BY <2>2, <2>3, AllocRefines, ViewInserted DEF Refinement!Next, IInv
  <2>4. CASE Rele(t)
    BY <2>2, <2>4, ReleaseRefines DEF Refinement!Next
  <2>5. CASE Hold(t)
    BY <2>2, <2>5, HoldRefines DEF Refinement!Next
  <2>6. ASSUME NEW id \in Ids, NEW r \in Refs, FindCall(t, id, r) PROVE Refinement!Next
    BY <2>6, AskRefines DEF Refinement!Next
  <2>7. CASE Find(t)
    BY <2>2, <2>7, FindRefines DEF Refinement!Next
  <2>8. CASE Inner(t)
    BY <2>8, InnerStep
  <2> QED BY <1>3, <2>1, <2>3, <2>4, <2>5, <2>6, <2>7, <2>8 DEF Step, Alloc, Enter, Inner
<1> QED BY <1>2, <1>3 DEF Next

LEMMA InitRefines == Init => Refinement!Init
<1> SUFFICES ASSUME Init PROVE Refinement!Init
  OBVIOUS
<1>1. TypeOK
  BY InitIInv DEF IInv, FooInv
<1>2. \A b \in Buckets : fh[b] = <<>>
  BY DEF Init
<1>3. \A o \in Objs : Chain(f_id[o]) = <<>>
  BY <1>1, <1>2, HashAssumption DEF Chain, TypeOK
<1>4. \A id \in Ids : Listed(id) = {}
  BY <1>3 DEF Listed, InTable, Range
<1>5. Newer = {}
  BY <1>3 DEF Newer, Before
<1>6. \A t \in Threads : Asked(t) = NoId
  BY DEF Init, Asked
<1> QED BY <1>4, <1>5, <1>6 DEF Init, Refinement!Init

(* Each call of foo_alloc, foo_hold, foo_find and foo_rele takes effect in *)
(* one step, as in mutex2.c: callers cannot tell the two programs apart.   *)
THEOREM CallsAtomic == Spec => ImplementsRefs
<1>1. Init => Refinement!Init
  BY InitRefines
<1>2. IInv /\ [Next]_vars => [Refinement!Next]_(Refinement!vars)
  BY StepRefines
<1> QED BY <1>1, <1>2, Invariant, PTL DEF Spec, ImplementsRefs, Refinement!Spec

=============================================================================
