--------------------------- MODULE ServicesProofs ---------------------------
(***************************************************************************)
(* The programs in which several processes share something, proved for any *)
(* number of processes, copies, clients, threads, messages, bytes and      *)
(* faults.                                                                 *)
(*                                                                         *)
(* Semaphores: the counter that decides who initializes a set and who      *)
(* removes it is right, users keep their set, and nothing is left behind,  *)
(* although processes exit and sets are removed between any two system     *)
(* calls.  Daemons: only one runs.  Uptime: a client has its one line.     *)
(* Messages: the queue loses and repeats nothing.  Memory streams: they    *)
(* stay inside their memory, and one that can be read is a file.  Jobs:    *)
(* the links are a list.  The open server: each request has its answer.    *)
(***************************************************************************)
EXTENDS MCServices, Sequences, FiniteSetTheorems, WellFoundedInduction, TLAPS

-----------------------------------------------------------------------------
(* The semaphores: the invariant                                           *)

UsePcs == {"using", "critical", "used", "shutdown"}
LockPcs == {"getval", "setval0", "setval1", "endcreate", "closing", "unlock", "remove"}
InSetPcs == LockPcs \cup UsePcs \cup {"lock", "locking", "count"}
Positions == InSetPcs \cup {"idle", "create", "open", "failed", "dead"}

TypeOK ==
  /\ sets \in Nat /\ key \in 0..sets
  /\ val \in [0..2 -> Nat] /\ undo \in [Procs -> [0..2 -> Int]]
  /\ pc \in [Procs -> Positions] /\ id \in [Procs -> 0..sets]
  /\ \A p \in Procs : pc[p] \in InSetPcs => id[p] # 0

InUse(p)  == There(p) /\ pc[p] \in UsePcs
InCrit(p) == There(p) /\ pc[p] = "critical"
Locks(p)  == There(p) /\ pc[p] \in LockPcs

(* What the exit of a process gives back is what it holds.                 *)
UndoIs(p) == /\ undo[p][0] = IF InCrit(p) THEN 1 ELSE 0
             /\ undo[p][1] = IF InUse(p) THEN 1 ELSE 0
             /\ undo[p][2] = IF Locks(p) THEN -1 ELSE 0

LockRight ==
  /\ val[2] = IF \E p \in Procs : Locks(p) THEN 1 ELSE 0
  /\ \A p, q \in Procs : Locks(p) /\ Locks(q) => p = q

(* A set that nobody has initialized has no users.                         *)
Critical == {p \in Procs : InCrit(p)}
Current == {p \in Procs : InUse(p)}
CountOK ==
  /\ val[1] = 0 => Current = {} /\ val[0] \in {0, 1}
  /\ val[1] # 0 => /\ val[1] = BIGCOUNT - Cardinality(Current)
                   /\ val[0] + Cardinality(Critical) = 1

(* Who has the lock knows whether the set is initialized ...               *)
CreatorIs(p) ==
  There(p) =>
    /\ pc[p] \in {"setval0", "setval1"} => val[1] = 0
    /\ pc[p] = "setval1" => val[0] = 1
    /\ pc[p] \in {"endcreate", "closing", "unlock", "remove"} => val[1] # 0

(* ... and who removes it, that nobody loses it who is not excused.        *)
RemoveIs(p) ==
  /\ pc[p] = "remove" /\ There(p) => Current = {} \/ key \in excused
  /\ pc[p] = "shutdown" => id[p] \in excused
  /\ pc[p] \in UsePcs => There(p) \/ id[p] \in excused

(* Every set has somebody who will remove it, unless a process has died.   *)
Attends(p) ==
  \/ pc[p] \in {"failed", "dead"}
  \/ There(p) /\ pc[p] \in (LockPcs \ {"unlock"}) \cup UsePcs \cup {"lock", "locking"}

SemInv ==
  /\ TypeOK /\ LockRight /\ CountOK
  /\ \A p \in Procs : UndoIs(p) /\ CreatorIs(p) /\ RemoveIs(p)
  /\ key # 0 => \E p \in Procs : Attends(p)

-----------------------------------------------------------------------------
(* Counting the users                                                      *)

(* Only p moves, and the set under the key stays the same one.             *)
OneMoves(p) ==
  /\ key' = key /\ sets' = sets
  /\ \A q \in Procs : q # p => pc'[q] = pc[q] /\ id'[q] = id[q] /\ undo'[q] = undo[q]

LEMMA Counts ==
  ASSUME NEW S \in SUBSET Procs, NEW T \in SUBSET Procs, NEW p \in Procs,
         \A q \in Procs : q # p => (q \in S <=> q \in T)
  PROVE  /\ Cardinality(S) \in Nat /\ Cardinality(S) < BIGCOUNT
         /\ Cardinality(T) = Cardinality(S) + (IF p \in T THEN 1 ELSE 0)
                                            - (IF p \in S THEN 1 ELSE 0)
  <1>1. IsFiniteSet(S) /\ Cardinality(S) \in Nat /\ Cardinality(S) < BIGCOUNT
    BY BigAssumption, FS_Subset, FS_CardinalityType
  <1>2. CASE p \in S /\ p \notin T
    <2>1. T = S \ {p}
      BY <1>2
    <2>2. QED
      BY <1>1, <1>2, <2>1, FS_RemoveElement
  <1>3. CASE p \notin S /\ p \in T
    <2>1. T = S \cup {p}
      BY <1>3
    <2>2. QED
      BY <1>1, <1>3, <2>1, FS_AddElement
  <1>4. CASE p \in S <=> p \in T
    <2>1. T = S
      BY <1>4
    <2>2. QED
      BY <1>1, <2>1
  <1>5. QED
    BY <1>2, <1>3, <1>4

-----------------------------------------------------------------------------
(* A step that takes from the values what its exit would give back          *)

LEMMA Conserves ==
  ASSUME SemInv, NEW p \in Procs, OneMoves(p), TypeOK',
         \A k \in 0..2 : val'[k] + undo'[p][k] = val[k] + undo[p][k],
         UndoIs(p)', CreatorIs(p)', RemoveIs(p)', excused \subseteq excused',
         Locks(p)' => Locks(p) \/ val[2] = 0,
         InUse(p)' => \/ InUse(p)
                      \/ /\ val[1] # 0
                         /\ \A q \in Procs : q # p /\ There(q) /\ pc[q] = "remove" =>
                              key \in excused',
         key # 0 => \E q \in Procs : Attends(q)'
  PROVE  SemInv'
  <1>1. \A q \in Procs : q # p =>
          /\ InUse(q)' = InUse(q) /\ InCrit(q)' = InCrit(q) /\ Locks(q)' = Locks(q)
          /\ There(q)' = There(q)
    BY DEF OneMoves, InUse, InCrit, Locks, There
  <1>2. UndoIs(p) /\ \A k \in 0..2 : val[k] \in Int /\ val'[k] \in Int
    BY DEF SemInv, TypeOK
  <1>3. LockRight'
    <2>1. val'[2] = val[2] + (IF Locks(p) THEN -1 ELSE 0) - (IF Locks(p)' THEN -1 ELSE 0)
      BY <1>2 DEF UndoIs
    <2>2. QED
      BY <1>1, <2>1 DEF SemInv, LockRight
  <1>4. /\ val'[1] = val[1] + (IF InUse(p) THEN 1 ELSE 0) - (IF InUse(p)' THEN 1 ELSE 0)
        /\ val'[0] = val[0] + (IF InCrit(p) THEN 1 ELSE 0) - (IF InCrit(p)' THEN 1 ELSE 0)
    BY <1>2 DEF UndoIs
  <1>5. (InCrit(p) => InUse(p)) /\ (InCrit(p)' => InUse(p)')
    BY DEF InCrit, InUse, UsePcs
  <1>6. CountOK' /\ (val'[1] = 0 <=> val[1] = 0) /\ (val[1] = 0 => val'[0] = val[0])
    <2>1. CASE val[1] = 0
      <3>1. ~InUse(p) /\ ~InUse(p)' /\ Current = {} /\ val[0] \in {0, 1}
        BY <2>1 DEF SemInv, CountOK, Current
      <3>2. Current' = {}
        BY <1>1, <3>1 DEF Current
      <3>3. QED
        BY <1>2, <1>4, <1>5, <2>1, <3>1, <3>2 DEF CountOK
    <2>2. CASE val[1] # 0
      <3>1. /\ Cardinality(Current)' = Cardinality(Current)
                 + (IF InUse(p)' THEN 1 ELSE 0) - (IF InUse(p) THEN 1 ELSE 0)
            /\ Cardinality(Current) \in Nat
        <4>1. Cardinality(Current') = Cardinality(Current)
                 + (IF p \in Current' THEN 1 ELSE 0) - (IF p \in Current THEN 1 ELSE 0)
              /\ Cardinality(Current) \in Nat
          BY <1>1, Counts DEF Current
        <4>2. QED
          BY <4>1 DEF Current
      <3>2. /\ Cardinality(Critical)' = Cardinality(Critical)
                 + (IF InCrit(p)' THEN 1 ELSE 0) - (IF InCrit(p) THEN 1 ELSE 0)
            /\ Cardinality(Critical) \in Nat
        <4>1. Cardinality(Critical') = Cardinality(Critical)
                 + (IF p \in Critical' THEN 1 ELSE 0) - (IF p \in Critical THEN 1 ELSE 0)
              /\ Cardinality(Critical) \in Nat
          BY <1>1, Counts DEF Critical
        <4>2. QED
          BY <4>1 DEF Critical
      <3>3. val'[1] = BIGCOUNT - Cardinality(Current)'
            /\ val'[0] + Cardinality(Critical)' = 1
        BY <1>2, <1>4, <2>2, <3>1, <3>2, BigAssumption DEF SemInv, CountOK
      <3>4. Cardinality(Current') < BIGCOUNT /\ Cardinality(Current') \in Nat
        BY Counts DEF Current
      <3>5. val'[1] # 0
        BY <3>3, <3>4, BigAssumption
      <3>6. QED
        BY <2>2, <3>3, <3>5 DEF CountOK
    <2>3. QED
      BY <2>1, <2>2
  <1>7. ASSUME NEW q \in Procs, q # p PROVE UndoIs(q)' /\ CreatorIs(q)' /\ RemoveIs(q)'
    <2>1. UndoIs(q) /\ CreatorIs(q) /\ RemoveIs(q)
      BY DEF SemInv
    <2>2. pc'[q] = pc[q] /\ id'[q] = id[q] /\ undo'[q] = undo[q] /\ key' = key
      BY <1>7 DEF OneMoves
    <2>3. UndoIs(q)' /\ CreatorIs(q)'
      BY <1>1, <1>6, <1>7, <2>1, <2>2 DEF UndoIs, CreatorIs
    <2>4. pc[q] = "remove" /\ There(q) => Current' = {} \/ key \in excused'
      BY <1>1, <1>7, <2>1, <2>2 DEF RemoveIs, Current
    <2>5. QED
      BY <1>1, <1>7, <2>1, <2>2, <2>3, <2>4 DEF RemoveIs
  <1>8. key' # 0 => (\E q \in Procs : Attends(q))'
    BY DEF OneMoves
  <1>9. QED
    BY <1>3, <1>6, <1>7, <1>8 DEF SemInv

-----------------------------------------------------------------------------
(* The system calls                                                        *)

(* No system call makes a value of the set negative.                       *)
ValuesOK == val \in [0..2 -> Nat] /\ undo \in [Procs -> [0..2 -> Int]]

LEMMA SemopIs ==
  ASSUME TypeOK, NEW p \in Procs, NEW a \in Int, NEW b \in Int, NEW c \in Int,
         Semop(p, op(a, b, c))
  PROVE  /\ There(p) /\ key' = key /\ sets' = sets /\ ValuesOK'
         /\ val[1] + b >= 0
         /\ undo'[p][0] = undo[p][0] - a /\ undo'[p][1] = undo[p][1] - b
         /\ undo'[p][2] = undo[p][2] - c
         /\ \A k \in 0..2 : val'[k] + undo'[p][k] = val[k] + undo[p][k]
         /\ \A q \in Procs : q # p => undo'[q] = undo[q]
  <1> DEFINE o == op(a, b, c)
  <1>1. o[0] = a /\ o[1] = b /\ o[2] = c /\ \A k \in 0..2 : o[k] \in Int
    BY DEF op
  <1>2. /\ There(p) /\ key' = key /\ sets' = sets
        /\ \A k \in 0..2 : val[k] + o[k] >= 0
        /\ val' = [k \in 0..2 |-> val[k] + o[k]]
        /\ undo' = [undo EXCEPT ![p] = [k \in 0..2 |-> undo[p][k] - o[k]]]
    BY DEF Semop
  <1> HIDE DEF o
  <1>3. /\ undo'[p] = [k \in 0..2 |-> undo[p][k] - o[k]]
        /\ \A q \in Procs : q # p => undo'[q] = undo[q]
    BY <1>2 DEF TypeOK
  <1>4. \A k \in 0..2 : val[k] \in Int /\ undo[p][k] \in Int
    BY DEF TypeOK
  <1>5. ValuesOK'
    <2>1. val' \in [0..2 -> Nat] /\ [k \in 0..2 |-> undo[p][k] - o[k]] \in [0..2 -> Int]
      BY <1>1, <1>2, <1>4
    <2>2. QED
      BY <1>2, <2>1 DEF ValuesOK, TypeOK
  <1>6. \A k \in 0..2 : val'[k] + undo'[p][k] = val[k] + undo[p][k]
    BY <1>1, <1>2, <1>3, <1>4
  <1>7. QED
    BY <1>1, <1>2, <1>3, <1>5, <1>6

(* SETVAL is called before the set has users: it clears no undo value.     *)
LEMMA SetvalIs ==
  ASSUME SemInv, NEW p \in Procs, NEW k \in {0, 1}, NEW v \in Nat, Setval(p, k, v),
         val[1] = 0
  PROVE  /\ There(p) /\ key' = key /\ sets' = sets /\ ValuesOK' /\ undo' = undo
         /\ val'[k] = v /\ \A j \in 0..2 : j # k => val'[j] = val[j]
  <1>1. \A q \in Procs : undo[q][k] = 0 /\ undo[q] \in [0..2 -> Int]
    <2>1. Current = {}
      BY DEF SemInv, CountOK
    <2>2. \A q \in Procs : ~InUse(q) /\ ~InCrit(q)
      BY <2>1 DEF Current, InUse, InCrit, UsePcs
    <2>3. QED
      BY <2>2 DEF SemInv, UndoIs, TypeOK
  <1>2. \A q \in Procs : [undo[q] EXCEPT ![k] = 0] = undo[q]
    BY <1>1
  <1>3. undo' = [q \in Procs |-> undo[q]]
    BY <1>2 DEF Setval
  <1>4. undo' = undo
    BY <1>3 DEF SemInv, TypeOK
  <1>5. QED
    BY <1>4 DEF Setval, ValuesOK, SemInv, TypeOK

(* What a process gives back at its exit fits.                             *)
LEMMA EndsIs ==
  ASSUME SemInv, NEW p \in Procs, NEW l, Ends(p, l)
  PROVE  /\ ValuesOK' /\ OneMoves(p) /\ pc' = [pc EXCEPT ![p] = l]
         /\ undo'[p] = Zero
         /\ \A k \in 0..2 : val'[k] + undo'[p][k] = val[k] + undo[p][k]
  <1>1. \A k \in 0..2 : val[k] \in Nat /\ undo[p][k] \in Int
    BY DEF SemInv, TypeOK
  <1>2. val[0] + undo[p][0] >= 0 /\ val[1] + undo[p][1] >= 0 /\ val[2] + undo[p][2] >= 0
    BY <1>1 DEF SemInv, UndoIs, LockRight
  <1>3. \A k \in 0..2 : val'[k] = val[k] + undo[p][k]
    BY <1>1, <1>2 DEF Ends
  <1>4. undo'[p] = Zero /\ \A q \in Procs : q # p => undo'[q] = undo[q]
    BY DEF Ends, SemInv, TypeOK
  <1>5. ValuesOK'
    <2>1. Zero \in [0..2 -> Int]
      BY DEF Zero
    <2>2. val' \in [0..2 -> Nat]
      <3>1. \A k \in 0..2 : val[k] + undo[p][k] \in Int
        BY <1>1
      <3>2. QED
        BY <3>1 DEF Ends
    <2>3. QED
      BY <2>1, <2>2 DEF Ends, ValuesOK, SemInv, TypeOK
  <1>6. OneMoves(p)
    BY <1>4 DEF OneMoves, Ends, Goto, SemInv, TypeOK
  <1>7. QED
    BY <1>1, <1>3, <1>4, <1>5, <1>6 DEF Ends, Goto, Zero

LEMMA TypeStep ==
  ASSUME TypeOK, NEW p \in Procs, key' = key, sets' = sets, ValuesOK',
         NEW l \in Positions, pc' = [pc EXCEPT ![p] = l],
         id' = id \/ id' = [id EXCEPT ![p] = key],
         l \in InSetPcs => id'[p] # 0
  PROVE  /\ TypeOK' /\ pc'[p] = l
         /\ \A q \in Procs : q # p => pc'[q] = pc[q] /\ id'[q] = id[q]
  BY DEF TypeOK, ValuesOK

-----------------------------------------------------------------------------
(* Each step of a process                                                  *)

LEMMA QuietStep ==
  ASSUME SemInv, NEW p \in Procs,
         Begin(p) \/ LockBlocks(p) \/ LockAgain(p) \/ CreateGetval(p) \/ OpenGet(p)
           \/ CloseGetval(p) \/ ShutDown(p)
  PROVE  SemInv'
  <1> USE DEF Goto, InSetPcs, LockPcs, UsePcs
  <1>1. /\ UNCHANGED set /\ TypeOK /\ UndoIs(p) /\ CreatorIs(p) /\ RemoveIs(p)
        /\ UNCHANGED <<key, sets, val, undo>>
    BY DEF set, Begin, LockBlocks, LockAgain, CreateGetval, OpenGet, CloseGetval, ShutDown, SemInv
  <1>2. PICK l \in Positions :
          /\ pc' = [pc EXCEPT ![p] = l]
          /\ id' = id \/ id' = [id EXCEPT ![p] = key]
          /\ l \in InSetPcs => id'[p] # 0
    BY <1>1 DEF Begin, LockBlocks, LockAgain, CreateGetval, OpenGet, CloseGetval, ShutDown,
       Positions, TypeOK
  <1>3. /\ TypeOK' /\ OneMoves(p) /\ pc'[p] = l
    BY <1>1, <1>2, TypeStep DEF ValuesOK, OneMoves, TypeOK
  <1>4. \A k \in 0..2 : val'[k] + undo'[p][k] = val[k] + undo[p][k]
    BY <1>1
  <1>5. InUse(p)' = InUse(p) /\ InCrit(p)' = InCrit(p) /\ Locks(p)' = Locks(p)
    BY <1>1, <1>3 DEF Begin, LockBlocks, LockAgain, CreateGetval, OpenGet, CloseGetval,
       ShutDown, InUse, InCrit, Locks, There, TypeOK
  <1>6. UndoIs(p)'
    BY <1>1, <1>5 DEF UndoIs
  <1>7. CreatorIs(p)'
    BY <1>1, <1>3, BigAssumption DEF Begin, LockBlocks, LockAgain, CreateGetval, OpenGet, CloseGetval,
       ShutDown, CreatorIs, There, TypeOK
  <1>8. Current' = Current
    BY <1>3, <1>5 DEF OneMoves, Current, InUse, There
  <1>9. RemoveIs(p)'
    <2>1. CASE CloseGetval(p)
      <3>1. val[1] = BIGCOUNT => Current = {}
        <4>1. Current \in SUBSET Procs
          BY DEF Current
        <4>2. IsFiniteSet(Current)
          BY <4>1, BigAssumption, FS_Subset
        <4>3. Cardinality(Current) \in Nat /\ (Cardinality(Current) = 0 => Current = {})
          BY <4>2, FS_EmptySet, FS_CardinalityType
        <4>4. QED
          BY <4>3, BigAssumption DEF SemInv, CountOK
      <3>2. QED
        BY <1>1, <1>3, <1>8, <2>1, <3>1 DEF CloseGetval, RemoveIs, There, TypeOK
    <2>2. CASE ShutDown(p)
      BY <1>1, <1>3, <1>8, <2>2 DEF ShutDown, RemoveIs, There, TypeOK
    <2>3. CASE Begin(p) \/ LockBlocks(p) \/ LockAgain(p) \/ CreateGetval(p) \/ OpenGet(p)
      BY <1>1, <1>3, <2>3 DEF Begin, LockBlocks, LockAgain, CreateGetval, OpenGet, RemoveIs,
         TypeOK
    <2>4. QED
      BY <2>1, <2>2, <2>3
  <1>10. excused \subseteq excused'
    BY DEF Begin, LockBlocks, LockAgain, CreateGetval, OpenGet, CloseGetval, ShutDown
  <1>11. ASSUME key # 0 PROVE \E q \in Procs : Attends(q)'
    <2>1. PICK q \in Procs : Attends(q)
      BY <1>11 DEF SemInv
    <2>2. CASE q # p
      BY <1>3, <2>1, <2>2 DEF OneMoves, Attends, There
    <2>3. CASE q = p /\ ~CloseGetval(p)
      BY <1>1, <1>3, <2>1, <2>3 DEF Begin, LockBlocks, LockAgain, CreateGetval, OpenGet, ShutDown,
         Attends, There, TypeOK
    <2>4. CASE CloseGetval(p) /\ pc'[p] = "remove"
      BY <1>1, <1>3, <2>4 DEF CloseGetval, Attends, There, TypeOK
    <2>5. CASE CloseGetval(p) /\ pc'[p] # "remove"
      <3>1. val[1] # BIGCOUNT /\ val[1] # 0
        BY <1>1, <2>5 DEF CloseGetval, CreatorIs, TypeOK
      <3>2. Cardinality(Current) # 0
        BY <3>1, BigAssumption DEF SemInv, CountOK
      <3>3. PICK u \in Procs : InUse(u)
        BY <3>2, FS_EmptySet DEF Current
      <3>4. u # p
        BY <2>5, <3>3 DEF CloseGetval, InUse
      <3>5. QED
        BY <1>3, <3>3, <3>4 DEF OneMoves, Attends, InUse, There
    <2>6. QED
      BY <2>2, <2>3, <2>4, <2>5
  <1>12. QED
    BY <1>3, <1>4, <1>5, <1>6, <1>7, <1>9, <1>10, <1>11, Conserves

LEMMA SemopStep ==
  ASSUME SemInv, NEW p \in Procs,
         Lock(p) \/ EndCreate(p) \/ OpenCount(p) \/ Wait(p) \/ Signal(p) \/ Close(p)
           \/ CloseUnlock(p)
  PROVE  SemInv'
  <1> USE DEF Goto, InSetPcs, LockPcs, UsePcs
  <1>1. TypeOK /\ UndoIs(p) /\ CreatorIs(p) /\ RemoveIs(p) /\ LockRight
    BY DEF SemInv
  <1>2. PICK a \in {-1, 0, 1}, b \in {-1, 0, 1}, c \in {-1, 0, 1}, l \in Positions :
          /\ Semop(p, op(a, b, c)) /\ pc' = [pc EXCEPT ![p] = l] /\ id' = id
          /\ \/ /\ pc[p] \in {"lock", "locking"} /\ val[2] = 0 /\ l = "getval"
                /\ a = 0 /\ b = 0 /\ c = 1
             \/ /\ pc[p] = "endcreate" /\ l = "using" /\ a = 0 /\ b = -1 /\ c = -1
             \/ /\ pc[p] = "count" /\ l = "using" /\ a = 0 /\ b = -1 /\ c = 0
             \/ /\ pc[p] = "using" /\ l = "critical" /\ a = -1 /\ b = 0 /\ c = 0
             \/ /\ pc[p] = "critical" /\ l = "used" /\ a = 1 /\ b = 0 /\ c = 0
             \/ /\ pc[p] \in {"using", "used"} /\ val[2] = 0 /\ l = "closing"
                /\ a = 0 /\ b = 1 /\ c = 1
             \/ /\ pc[p] = "unlock" /\ l = "idle" /\ a = 0 /\ b = 0 /\ c = -1
    <2>1. {"getval", "using", "critical", "used", "closing", "idle"} \subseteq Positions
      BY DEF Positions
    <2>2. CASE Lock(p)
      BY <2>1, <2>2 DEF Lock
    <2>3. CASE EndCreate(p)
      BY <2>1, <2>3 DEF EndCreate
    <2>4. CASE OpenCount(p)
      BY <2>1, <2>4 DEF OpenCount
    <2>5. CASE Wait(p)
      BY <2>1, <2>5 DEF Wait
    <2>6. CASE Signal(p)
      BY <2>1, <2>6 DEF Signal
    <2>7. CASE Close(p)
      BY <2>1, <2>7 DEF Close
    <2>8. CASE CloseUnlock(p)
      BY <2>1, <2>8 DEF CloseUnlock
    <2>9. QED
      BY <2>2, <2>3, <2>4, <2>5, <2>6, <2>7, <2>8
  <1>3. /\ There(p) /\ key' = key /\ sets' = sets /\ ValuesOK' /\ val[1] + b >= 0
        /\ undo'[p][0] = undo[p][0] - a /\ undo'[p][1] = undo[p][1] - b
        /\ undo'[p][2] = undo[p][2] - c
        /\ \A k \in 0..2 : val'[k] + undo'[p][k] = val[k] + undo[p][k]
        /\ \A q \in Procs : q # p => undo'[q] = undo[q]
    BY <1>1, <1>2, SemopIs
  <1>4. TypeOK' /\ OneMoves(p) /\ pc'[p] = l /\ There(p)'
    <2>1. l \in InSetPcs => id'[p] # 0
      BY <1>1, <1>2 DEF TypeOK
    <2>2. QED
      BY <1>1, <1>2, <1>3, <2>1, TypeStep DEF OneMoves, There
  <1>5. UndoIs(p)'
    BY <1>1, <1>2, <1>3, <1>4 DEF UndoIs, InCrit, InUse, Locks
  <1>6. Locks(p)' => Locks(p) \/ val[2] = 0
    BY <1>2, <1>3, <1>4 DEF Locks
  <1>7. CreatorIs(p)'
    <2>1. pc[p] \in {"using", "used"} /\ l = "closing" => val'[1] # 0
      <3>1. SUFFICES ASSUME pc[p] \in {"using", "used"}, l = "closing" PROVE val'[1] # 0
        OBVIOUS
      <3>2. val'[1] = val[1] + 1 /\ val[1] \in Nat
        BY <1>1, <1>2, <1>3, <3>1 DEF TypeOK, ValuesOK
      <3>3. QED
        BY <3>2
    <2>2. QED
      BY <1>2, <1>4, <2>1 DEF CreatorIs
  <1>8. excused \subseteq excused'
    BY DEF Lock, EndCreate, OpenCount, Wait, Signal, Close, CloseUnlock
  <1>9. RemoveIs(p)'
    BY <1>2, <1>4 DEF RemoveIs
  <1>10. InUse(p)' => \/ InUse(p)
                      \/ /\ val[1] # 0
                         /\ \A q \in Procs : q # p /\ There(q) /\ pc[q] = "remove" =>
                              key \in excused'
    <2>1. CASE OpenCount(p)
      <3>1. pc[p] = "count"
        BY <2>1 DEF OpenCount
      <3>2. val[1] # 0
        BY <1>1, <1>2, <1>3, <3>1 DEF TypeOK
      <3>3. QED
        BY <2>1, <3>2 DEF OpenCount
    <2>2. CASE EndCreate(p)
      <3>1. Locks(p) /\ val[1] # 0
        BY <1>1, <1>3, <2>2 DEF EndCreate, Locks, CreatorIs
      <3>2. \A q \in Procs : There(q) /\ pc[q] = "remove" => q = p
        BY <1>1, <3>1 DEF LockRight, Locks
      <3>3. QED
        BY <3>1, <3>2
    <2>3. CASE ~OpenCount(p) /\ ~EndCreate(p)
      <3>1. pc[p] \notin {"count", "endcreate"}
        BY <2>3 DEF Lock, Wait, Signal, Close, CloseUnlock
      <3>2. QED
        BY <1>2, <1>3, <1>4, <3>1 DEF InUse
    <2>4. QED
      BY <2>1, <2>2, <2>3
  <1>11. ASSUME key # 0 PROVE \E q \in Procs : Attends(q)'
    <2>1. PICK q \in Procs : Attends(q)
      BY <1>11 DEF SemInv
    <2>2. CASE q # p
      BY <1>4, <2>1, <2>2 DEF OneMoves, Attends, There
    <2>3. CASE q = p
      BY <1>2, <1>4, <2>1, <2>3 DEF Attends
    <2>4. QED
      BY <2>2, <2>3
  <1>12. QED
    BY <1>3, <1>4, <1>5, <1>6, <1>7, <1>8, <1>9, <1>10, <1>11, Conserves

LEMMA SetvalStep ==
  ASSUME SemInv, NEW p \in Procs, SetSemaphore(p) \/ SetCounter(p)
  PROVE  SemInv'
  <1> USE DEF Goto, InSetPcs, LockPcs, UsePcs
  <1>1. /\ TypeOK /\ LockRight /\ CountOK /\ \A q \in Procs : UndoIs(q) /\ CreatorIs(q) /\ RemoveIs(q)
        /\ There(p) /\ pc[p] \in {"setval0", "setval1"} /\ UNCHANGED <<id, excused>>
    BY DEF SemInv, SetSemaphore, SetCounter, Setval
  <1>2. val[1] = 0 /\ (pc[p] = "setval1" => val[0] = 1)
    BY <1>1 DEF CreatorIs
  <1>3. PICK k \in {0, 1}, v \in Nat, l \in Positions :
          /\ Setval(p, k, v) /\ pc' = [pc EXCEPT ![p] = l]
          /\ \/ pc[p] = "setval0" /\ k = 0 /\ v = 1 /\ l = "setval1"
             \/ pc[p] = "setval1" /\ k = 1 /\ v = BIGCOUNT /\ l = "endcreate"
    <2>1. CASE SetSemaphore(p)
      BY <2>1 DEF SetSemaphore, Positions
    <2>2. CASE SetCounter(p)
      BY <2>2, BigAssumption DEF SetCounter, Positions
    <2>3. QED
      BY <2>1, <2>2
  <1>4. /\ key' = key /\ sets' = sets /\ ValuesOK' /\ undo' = undo
        /\ val'[k] = v /\ \A j \in 0..2 : j # k => val'[j] = val[j]
    BY <1>2, <1>3, SetvalIs
  <1>5. TypeOK' /\ OneMoves(p) /\ pc'[p] = l /\ There(p)'
    <2>1. l \in InSetPcs => id'[p] # 0
      BY <1>1, <1>3 DEF TypeOK
    <2>2. QED
      BY <1>1, <1>3, <1>4, <2>1, TypeStep DEF OneMoves, There
  <1>6. \A q \in Procs : /\ InUse(q)' = InUse(q) /\ InCrit(q)' = InCrit(q)
                         /\ Locks(q)' = Locks(q) /\ There(q)' = There(q)
    BY <1>1, <1>3, <1>5 DEF OneMoves, InUse, InCrit, Locks, There
  <1>7. Current' = Current /\ Critical' = Critical /\ Current = {} /\ Critical = {}
    BY <1>1, <1>2, <1>6 DEF Current, Critical, CountOK, InCrit, InUse
  <1>8. LockRight'
    BY <1>1, <1>3, <1>4, <1>6 DEF LockRight
  <1>9. CountOK'
    <2>1. CASE k = 0
      BY <1>2, <1>3, <1>4, <1>7, <2>1 DEF CountOK
    <2>2. CASE k = 1
      <3>1. val'[1] = BIGCOUNT /\ val'[0] = 1 /\ BIGCOUNT # 0
        <4>1. BIGCOUNT # 0
          BY BigAssumption, FS_CardinalityType
        <4>2. QED
          BY <1>2, <1>3, <1>4, <2>2, <4>1
      <3>2. Cardinality(Current') = 0 /\ Cardinality(Critical') = 0
        BY <1>7, FS_EmptySet
      <3>3. QED
        BY <3>1, <3>2, BigAssumption DEF CountOK
    <2>3. QED
      BY <2>1, <2>2
  <1>10. ASSUME NEW q \in Procs PROVE UndoIs(q)' /\ CreatorIs(q)' /\ RemoveIs(q)'
    <2>1. UndoIs(q)'
      BY <1>1, <1>4, <1>6 DEF UndoIs
    <2>2. RemoveIs(q)'
      BY <1>1, <1>3, <1>4, <1>5, <1>6, <1>7 DEF OneMoves, RemoveIs
    <2>3. CASE q # p
      <3>1. ~(There(q)' /\ pc'[q] \in LockPcs)
        BY <1>1, <1>5, <1>6, <2>3 DEF LockRight, Locks, OneMoves
      <3>2. QED
        BY <2>1, <2>2, <3>1 DEF CreatorIs
    <2>4. CASE q = p
      <3>1. BIGCOUNT # 0
        BY BigAssumption, FS_CardinalityType
      <3>2. CreatorIs(p)'
        BY <1>2, <1>3, <1>4, <1>5, <3>1 DEF CreatorIs
      <3>3. QED
        BY <2>1, <2>2, <2>4, <3>2
    <2>5. QED
      BY <2>3, <2>4
  <1>11. Attends(p)'
    BY <1>3, <1>5 DEF Attends
  <1>12. QED
    BY <1>5, <1>8, <1>9, <1>10, <1>11 DEF SemInv

LEMMA SemgetStep ==
  ASSUME SemInv, NEW p \in Procs, Semget(p)
  PROVE  SemInv'
  <1> USE DEF Goto, InSetPcs, LockPcs, UsePcs
  <1>1. /\ TypeOK /\ LockRight /\ CountOK /\ \A q \in Procs : UndoIs(q) /\ CreatorIs(q) /\ RemoveIs(q)
        /\ pc[p] = "create" /\ pc' = [pc EXCEPT ![p] = "lock"] /\ id' = [id EXCEPT ![p] = key']
        /\ excused' = excused
    BY DEF SemInv, Semget
  <1>2. CASE key # 0
    <2>1. UNCHANGED <<key, sets, val, undo>>
      BY <1>2 DEF Semget, set
    <2>2. TypeOK' /\ OneMoves(p) /\ pc'[p] = "lock" /\ There(p)'
      <3>1. "lock" \in Positions /\ id'[p] # 0
        BY <1>1, <1>2, <2>1 DEF Positions, TypeOK
      <3>2. QED
        BY <1>1, <2>1, <3>1, TypeStep DEF ValuesOK, TypeOK, OneMoves, There
    <2>3. UndoIs(p)' /\ CreatorIs(p)' /\ RemoveIs(p)'
      BY <1>1, <2>1, <2>2 DEF UndoIs, CreatorIs, RemoveIs, InUse, InCrit, Locks
    <2>4. ~InUse(p)' /\ ~Locks(p)' /\ Attends(p)'
      BY <2>2 DEF InUse, Locks, Attends
    <2>5. \A j \in 0..2 : val'[j] + undo'[p][j] = val[j] + undo[p][j]
      BY <2>1
    <2>6. QED
      BY <1>1, <2>2, <2>3, <2>4, <2>5, Conserves
  <1>3. CASE key = 0
    <2>1. /\ key' = sets + 1 /\ sets' = sets + 1 /\ val' = Zero /\ undo' = NoUndo
          /\ pc'[p] = "lock" /\ id'[p] = key'
          /\ \A q \in Procs : q # p => pc'[q] = pc[q] /\ id'[q] = id[q]
      BY <1>1, <1>3 DEF Semget, TypeOK
    <2>2. TypeOK'
      <3>1. Zero \in [0..2 -> Nat] /\ Zero \in [0..2 -> Int]
        BY DEF Zero
      <3>2. val' \in [0..2 -> Nat] /\ undo' \in [Procs -> [0..2 -> Int]]
        BY <2>1, <3>1 DEF NoUndo
      <3>3. sets' \in Nat /\ key' \in 0..sets' /\ 0..sets \subseteq 0..sets'
        BY <1>1, <2>1 DEF TypeOK
      <3>4. pc' \in [Procs -> Positions] /\ id' \in [Procs -> 0..sets']
        BY <1>1, <3>3 DEF TypeOK, Positions
      <3>5. \A q \in Procs : pc'[q] \in InSetPcs => id'[q] # 0
        BY <1>1, <2>1 DEF TypeOK
      <3>6. QED
        BY <3>2, <3>3, <3>4, <3>5 DEF TypeOK
    <2>3. \A q \in Procs : There(q)' => q = p
      <3>1. \A q \in Procs : id[q] # sets + 1
        BY <1>1 DEF TypeOK
      <3>2. QED
        BY <2>1, <3>1 DEF There
    <2>4. \A q \in Procs : ~InUse(q)' /\ ~InCrit(q)' /\ ~Locks(q)'
      BY <2>1, <2>3 DEF InUse, InCrit, Locks
    <2>5. val'[0] = 0 /\ val'[1] = 0 /\ val'[2] = 0
          /\ \A q \in Procs : undo'[q][0] = 0 /\ undo'[q][1] = 0 /\ undo'[q][2] = 0
      BY <2>1 DEF Zero, NoUndo
    <2>6. LockRight' /\ CountOK'
      BY <2>4, <2>5 DEF LockRight, CountOK, Current
    <2>7. ASSUME NEW q \in Procs PROVE UndoIs(q)' /\ CreatorIs(q)' /\ RemoveIs(q)'
      <3>1. UndoIs(q)'
        BY <2>4, <2>5 DEF UndoIs
      <3>2. CreatorIs(q)'
        BY <2>1, <2>3 DEF CreatorIs
      <3>3. ~(There(q) /\ pc[q] \in InSetPcs)
        BY <1>1, <1>3 DEF There, TypeOK
      <3>4. RemoveIs(q)'
        BY <1>1, <2>1, <2>3, <3>3 DEF RemoveIs
      <3>5. QED
        BY <3>1, <3>2, <3>4
    <2>8. Attends(p)'
      BY <2>1 DEF Attends, There
    <2>9. QED
      BY <2>2, <2>6, <2>7, <2>8 DEF SemInv
  <1>4. QED
    BY <1>2, <1>3

LEMMA RemoveStep ==
  ASSUME SemInv, NEW p \in Procs, Remove(p)
  PROVE  SemInv'
  <1> USE DEF Goto, InSetPcs, LockPcs, UsePcs
  <1>1. /\ TypeOK /\ \A q \in Procs : RemoveIs(q)
        /\ There(p) /\ pc[p] \in {"remove", "shutdown"} /\ pc' = [pc EXCEPT ![p] = "idle"]
        /\ key' = 0 /\ val' = Zero /\ undo' = NoUndo /\ UNCHANGED <<sets, id, excused>>
    BY DEF SemInv, Remove
  <1>2. TypeOK'
    <2>1. Zero \in [0..2 -> Nat] /\ Zero \in [0..2 -> Int]
      BY DEF Zero
    <2>2. val' \in [0..2 -> Nat] /\ undo' \in [Procs -> [0..2 -> Int]]
      BY <1>1, <2>1 DEF NoUndo
    <2>3. pc' \in [Procs -> Positions] /\ \A q \in Procs : pc'[q] \in InSetPcs => id'[q] # 0
      BY <1>1 DEF TypeOK, Positions
    <2>4. QED
      BY <1>1, <2>2, <2>3 DEF TypeOK
  <1>3. \A q \in Procs : ~InUse(q)' /\ ~InCrit(q)' /\ ~Locks(q)'
    BY <1>1, <1>2 DEF InUse, InCrit, Locks, There, TypeOK
  <1>4. val'[0] = 0 /\ val'[1] = 0 /\ val'[2] = 0
        /\ \A q \in Procs : undo'[q][0] = 0 /\ undo'[q][1] = 0 /\ undo'[q][2] = 0
    BY <1>1 DEF Zero, NoUndo
  <1>5. LockRight' /\ CountOK'
    BY <1>3, <1>4 DEF LockRight, CountOK, Current
  <1>6. ASSUME NEW q \in Procs PROVE UndoIs(q)' /\ CreatorIs(q)' /\ RemoveIs(q)'
    <2>1. UndoIs(q)' /\ CreatorIs(q)'
      BY <1>1, <1>2, <1>3, <1>4 DEF UndoIs, CreatorIs, There, TypeOK
    <2>2. ASSUME pc'[q] \in UsePcs PROVE id[q] \in excused
      <3>1. q # p /\ pc[q] \in UsePcs
        BY <1>1, <2>2 DEF TypeOK
      <3>2. CASE There(q)
        <4>1. Current # {}
          BY <3>1, <3>2 DEF Current, InUse
        <4>2. QED
          BY <1>1, <3>2, <4>1 DEF RemoveIs, There
      <3>3. CASE ~There(q)
        BY <1>1, <3>1, <3>3 DEF RemoveIs
      <3>4. QED
        BY <3>2, <3>3
    <2>3. ~(There(q)' /\ pc'[q] = "remove")
      BY <1>1, <1>2 DEF There, TypeOK
    <2>4. QED
      BY <1>1, <2>1, <2>2, <2>3 DEF RemoveIs
  <1>7. QED
    BY <1>1, <1>2, <1>5, <1>6 DEF SemInv

(* A process that ends, of its own or not, takes nothing with it.          *)
LEMMA EndStep ==
  ASSUME SemInv, NEW p \in Procs, NEW l \in {"failed", "dead"}, Ends(p, l)
  PROVE  SemInv'
  <1> USE DEF InSetPcs, LockPcs, UsePcs
  <1>1. /\ ValuesOK' /\ OneMoves(p) /\ pc' = [pc EXCEPT ![p] = l] /\ undo'[p] = Zero
        /\ \A k \in 0..2 : val'[k] + undo'[p][k] = val[k] + undo[p][k]
    BY EndsIs
  <1>2. id' = id /\ excused' = excused /\ key' = key /\ sets' = sets
    BY DEF Ends
  <1>3. TypeOK' /\ pc'[p] = l
    <2>1. l \in Positions /\ l \notin InSetPcs
      BY DEF Positions
    <2>2. QED
      BY <1>1, <1>2, <2>1, TypeStep DEF SemInv
  <1>4. ~InUse(p)' /\ ~InCrit(p)' /\ ~Locks(p)' /\ Attends(p)'
    BY <1>3 DEF InUse, InCrit, Locks, Attends
  <1>5. undo'[p][0] = 0 /\ undo'[p][1] = 0 /\ undo'[p][2] = 0
    BY <1>1 DEF Zero
  <1>6. UndoIs(p)' /\ CreatorIs(p)' /\ RemoveIs(p)'
    BY <1>3, <1>4, <1>5 DEF UndoIs, CreatorIs, RemoveIs
  <1>7. QED
    BY <1>1, <1>2, <1>3, <1>4, <1>6, Conserves

-----------------------------------------------------------------------------
(* The theorems                                                            *)

(* The invariant holds whatever the processes do and whoever exits.        *)
THEOREM SemaphoresSound == Spec => []SemInv
  <1>1. Init => SemInv
    <2> SUFFICES ASSUME Init PROVE SemInv
      OBVIOUS
    <2>1. \A p \in Procs : ~InUse(p) /\ ~InCrit(p) /\ ~Locks(p) /\ pc[p] = "idle"
      BY DEF Init, InUse, InCrit, Locks, UsePcs, LockPcs
    <2>2. TypeOK
      BY DEF Init, TypeOK, Zero, NoUndo, Positions, InSetPcs, LockPcs, UsePcs
    <2>3. \A p \in Procs : UndoIs(p) /\ CreatorIs(p) /\ RemoveIs(p)
      BY <2>1 DEF Init, Zero, NoUndo, UndoIs, CreatorIs, RemoveIs, UsePcs
    <2>4. LockRight /\ CountOK
      BY <2>1 DEF Init, Zero, LockRight, CountOK, Current
    <2>5. QED
      BY <2>2, <2>3, <2>4 DEF Init, SemInv
  <1>2. SemInv /\ [Next]_vars => SemInv'
    <2> SUFFICES ASSUME SemInv, [Next]_vars PROVE SemInv'
      OBVIOUS
    <2>1. CASE UNCHANGED vars
      BY <2>1 DEF vars, set, SemInv, TypeOK, LockRight, CountOK, Current, Critical, UndoIs,
         CreatorIs, RemoveIs, Attends, InUse, InCrit, Locks, There
    <2>2. CASE Next
      <3>1. PICK p \in Procs : Begin(p) \/ ShutDown(p) \/ Step(p) \/ Exit(p)
        BY <2>2 DEF Next
      <3>2. CASE Begin(p) \/ LockBlocks(p) \/ LockAgain(p) \/ CreateGetval(p) \/ OpenGet(p)
                   \/ CloseGetval(p) \/ ShutDown(p)
        BY <3>2, QuietStep
      <3>3. CASE Lock(p) \/ EndCreate(p) \/ OpenCount(p) \/ Wait(p) \/ Signal(p) \/ Close(p)
                   \/ CloseUnlock(p)
        BY <3>3, SemopStep
      <3>4. CASE SetSemaphore(p) \/ SetCounter(p)
        BY <3>4, SetvalStep
      <3>5. CASE Semget(p) \/ Remove(p)
        BY <3>5, SemgetStep, RemoveStep
      <3>6. CASE Fail(p) \/ Exit(p)
        BY <3>6, EndStep DEF Fail, Exit
      <3>7. QED
        BY <3>1, <3>2, <3>3, <3>4, <3>5, <3>6 DEF Step
    <2>3. QED
      BY <2>1, <2>2
  <1>3. QED
    BY <1>1, <1>2, PTL DEF Spec

(* The counter of a set in use is BIGCOUNT less its users, and the unit of *)
(* the semaphore is in its value or with the one process in the critical   *)
(* section: SETVAL, SEM_UNDO and exits lose or add none.                   *)
THEOREM CountersRight == Spec => []CountRight
  <1>1. SemInv => CountRight
    <2> SUFFICES ASSUME SemInv, key # 0, val[1] # 0 PROVE CountRight
      BY DEF CountRight
    <2>1. Users(key) = Current
      BY DEF Users, Current, InUse, There, UsePcs
    <2>2. {p \in Users(key) : pc[p] = "critical"} = Critical
      BY DEF Users, Critical, InCrit, There
    <2>3. \A p \in Users(key) : undo[p][1] = 1
      BY <2>1 DEF SemInv, UndoIs, Current
    <2>4. QED
      BY <2>1, <2>2, <2>3 DEF CountRight, SemInv, CountOK
  <1>2. QED
    BY <1>1, SemaphoresSound, PTL

(* Nobody loses the set it uses but by sem_rm, or by a sem_open counted    *)
(* in the middle of a sem_close (semaph.c:193).                            *)
THEOREM UsersKeepTheirSet == Spec => []UsersKept
  <1>1. SemInv => UsersKept
    BY DEF SemInv, RemoveIs, UsersKept, Users, There, UsePcs
  <1>2. QED
    BY <1>1, SemaphoresSound, PTL

(* When everybody has closed and nobody has died, the last sem_close has   *)
(* removed the set.                                                        *)
THEOREM NoSetLeft == Spec => []NothingLeft
  <1>1. SemInv => NothingLeft
    BY DEF SemInv, Attends, NothingLeft, Quiet, LockPcs, UsePcs
  <1>2. QED
    BY <1>1, SemaphoresSound, PTL

-----------------------------------------------------------------------------
(* The daemons: what is true of each copy.  It is past already_running     *)
(* when it has the lock, only then does it write into the file, and where  *)
(* SIGHUP has its default action is where it is not ignored yet, or just   *)
(* restored and not blocked yet.                                           *)

IgnoringPcs == {"fork", "attach", "lock", "truncate", "write", "restore", "sigterm", "sighup"}
ThreadPcs == {"restore", "block", "create"}
HandlerPcs == {"sigterm", "sighup"}
DmPositions == IgnoringPcs \cup ThreadPcs \cup {"start", "setsid", "run"} \cup Dm!Gone

DmTypeOK ==
  /\ dm_build \in [Daemons -> {"thread", "handlers"}]
  /\ dm_pc \in [Daemons -> DmPositions]
  /\ disp \in [Daemons -> [Dm!Signos -> {"dfl", "ign", "handler"}]]
  /\ blocked \in [Daemons -> BOOLEAN]
  /\ killer \in [Daemons -> {<<>>} \cup ({"HUP", "TERM", "KILL"} \X DmPositions)]

Owns(d) ==
  /\ Dm!Past(d) <=> owner = d
  /\ Dm!Past(d) /\ dm_pc[d] \notin {"truncate", "write"} => pidfile = d

HupHeld(d) ==
  /\ dm_pc[d] \in IgnoringPcs => disp[d]["HUP"] = "ign"
  /\ dm_pc[d] \in ThreadPcs => dm_build[d] = "thread"
  /\ dm_pc[d] \in HandlerPcs => dm_build[d] = "handlers"
  /\ dm_pc[d] = "create" => blocked[d]
  /\ dm_pc[d] = "run" => IF dm_build[d] = "thread" THEN blocked[d] ELSE disp[d]["HUP"] = "handler"

HupSpares(d) ==
  killer[d] # <<>> /\ killer[d][1] = "HUP" => killer[d][2] \in {"start", "setsid", "block"}

CopyInv(d) == Owns(d) /\ HupHeld(d) /\ HupSpares(d)
DaemonInv == DmTypeOK /\ \A d \in Daemons : CopyInv(d)

LEMMA DaemonInit == Dm!Init => DaemonInv
<1> SUFFICES ASSUME Dm!Init PROVE DaemonInv
  OBVIOUS
<1>1. DmTypeOK
  BY DEF Dm!Init, DmTypeOK, DmPositions, Dm!Gone, Dm!Signos
<1>2. ASSUME NEW d \in Daemons PROVE CopyInv(d)
  <2>1. dm_pc[d] = "none" /\ owner = "none" /\ d # "none" /\ killer[d] = <<>>
    BY DaemonAssumption DEF Dm!Init
  <2> QED BY <2>1 DEF CopyInv, Owns, HupHeld, HupSpares, Dm!Past, IgnoringPcs, ThreadPcs, HandlerPcs
<1> QED BY <1>1, <1>2 DEF DaemonInv

(* Copies that did not move, as long as the lock is not theirs.            *)
LEMMA OtherCopies ==
  ASSUME DaemonInv, NEW d \in Daemons, NEW e \in Daemons \ {d},
         dm_pc'[e] = dm_pc[e], disp'[e] = disp[e], blocked'[e] = blocked[e],
         killer'[e] = killer[e], dm_build' = dm_build,
         \/ UNCHANGED owner
         \/ owner = "none" /\ owner' = d
         \/ owner = d /\ owner' = "none",
         UNCHANGED pidfile \/ owner = d
  PROVE  CopyInv(e)'
<1>1. CopyInv(e) /\ e # "none"
  BY DaemonAssumption DEF DaemonInv
<1>2. Owns(e)'
  BY <1>1 DEF CopyInv, Owns, Dm!Past
<1>3. HupHeld(e)' /\ HupSpares(e)'
  BY <1>1 DEF CopyInv, HupHeld, HupSpares
<1> QED BY <1>2, <1>3 DEF CopyInv

(* The steps that change no disposition and end no process                 *)
LEMMA DaemonQuiet ==
  ASSUME DaemonInv, NEW d \in Daemons,
         UNCHANGED <<dm_build, dm_pc, disp, blocked, killer, owner, pidfile>>
  PROVE  DaemonInv'
<1>1. \A e \in Daemons : CopyInv(e)'
  BY DEF DaemonInv, CopyInv, Owns, HupHeld, HupSpares, Dm!Past
<1> QED BY <1>1 DEF DaemonInv, DmTypeOK

(* A process ends: it gives up its lock, and the file stays.               *)
LEMMA DaemonEnds ==
  ASSUME DaemonInv, NEW d \in Daemons, NEW how \in {"exited", "killed"}, Dm!Ends(d, how),
         UNCHANGED <<dm_build, disp, blocked>>,
         \/ UNCHANGED killer
         \/ \E signo \in {"HUP", "TERM", "KILL"} :
              /\ killer' = [killer EXCEPT ![d] = <<signo, dm_pc[d]>>]
              /\ signo = "HUP" => dm_pc[d] \in {"start", "setsid", "block"}
  PROVE  DaemonInv'
<1>1. /\ DmTypeOK /\ CopyInv(d) /\ d # "none" /\ "none" \notin Daemons
      /\ dm_pc' = [dm_pc EXCEPT ![d] = how]
      /\ owner' = (IF owner = d THEN "none" ELSE owner) /\ pidfile' = pidfile
  BY DaemonAssumption DEF DaemonInv, Dm!Ends, Dm!Goto, Dm!Unlocked
<1>2. DmTypeOK'
  <2>1. dm_pc' \in [Daemons -> DmPositions] /\ dm_pc[d] \in DmPositions
    BY <1>1 DEF DmTypeOK, DmPositions, Dm!Gone
  <2>2. killer' \in [Daemons -> {<<>>} \cup ({"HUP", "TERM", "KILL"} \X DmPositions)]
    BY <1>1, <2>1 DEF DmTypeOK
  <2> QED BY <1>1, <2>1, <2>2 DEF DmTypeOK
<1>3. CopyInv(d)'
  <2>1. dm_pc'[d] = how /\ ~Dm!Past(d)' /\ owner' # d
    BY <1>1 DEF DmTypeOK, Dm!Past
  <2>2. HupSpares(d)'
    BY <1>1 DEF CopyInv, HupSpares, DmTypeOK
  <2> QED BY <2>1, <2>2 DEF CopyInv, Owns, HupHeld, IgnoringPcs, ThreadPcs, HandlerPcs
<1>4. ASSUME NEW e \in Daemons \ {d} PROVE CopyInv(e)'
  <2>1. dm_pc'[e] = dm_pc[e] /\ killer'[e] = killer[e]
    BY <1>1 DEF DmTypeOK
  <2> QED BY <1>1, <2>1, OtherCopies
<1> QED BY <1>2, <1>3, <1>4 DEF DaemonInv

(* A step of a copy that does not end it                                   *)
LEMMA DaemonGoes ==
  ASSUME DaemonInv, NEW d \in Daemons, DmTypeOK', dm_build' = dm_build,
         killer'[d] = killer[d] \/ killer'[d] = <<>>,
         \A e \in Daemons \ {d} : /\ dm_pc'[e] = dm_pc[e] /\ killer'[e] = killer[e]
                                  /\ disp'[e] = disp[e] /\ blocked'[e] = blocked[e],
         UNCHANGED owner \/ (owner = "none" /\ owner' = d),
         UNCHANGED pidfile \/ owner = d,
         Owns(d)', HupHeld(d)'
  PROVE  DaemonInv'
<1>1. CopyInv(d)
  BY DEF DaemonInv
<1>2. HupSpares(d)'
  BY <1>1 DEF CopyInv, HupSpares
<1>3. ASSUME NEW e \in Daemons \ {d} PROVE CopyInv(e)'
  BY OtherCopies
<1> QED BY <1>2, <1>3 DEF DaemonInv, CopyInv

(* An action of a signal, set on the way from here to there                *)
OwnPcs == ThreadPcs \cup HandlerPcs \cup {"run"}
LEMMA DaemonAction ==
  ASSUME DaemonInv, NEW d \in Daemons, NEW signo \in Dm!Signos,
         NEW what \in {"dfl", "ign", "handler"},
         NEW here \in DmPositions \ {"truncate", "write"},
         NEW there \in DmPositions \ {"truncate", "write"},
         Dm!Action(d, here, there, signo, what), here \in OwnPcs <=> there \in OwnPcs,
         dm_pc'[d] = there /\ disp'[d] = [disp[d] EXCEPT ![signo] = what]
           /\ dm_build'[d] = dm_build[d] /\ blocked'[d] = blocked[d] => HupHeld(d)'
  PROVE  DaemonInv'
<1>1. /\ dm_pc[d] = here /\ dm_pc' = [dm_pc EXCEPT ![d] = there]
      /\ disp' = [disp EXCEPT ![d][signo] = what]
      /\ dm_build' = dm_build /\ blocked' = blocked /\ killer' = killer
      /\ owner' = owner /\ pidfile' = pidfile
  BY DEF Dm!Action, Dm!At, Dm!Goto, Dm!lock
<1>2. DmTypeOK /\ CopyInv(d)
  BY DEF DaemonInv
<1>3. /\ dm_pc'[d] = there /\ disp'[d] = [disp[d] EXCEPT ![signo] = what]
      /\ \A e \in Daemons \ {d} : dm_pc'[e] = dm_pc[e] /\ disp'[e] = disp[e]
  BY <1>1, <1>2 DEF DmTypeOK
<1>4. Owns(d)'
  BY <1>1, <1>2, <1>3 DEF CopyInv, Owns, Dm!Past, OwnPcs, ThreadPcs, HandlerPcs
<1>5. DmTypeOK'
  <2>1. disp' \in [Daemons -> [Dm!Signos -> {"dfl", "ign", "handler"}]]
    BY <1>1, <1>2 DEF DmTypeOK
  <2> QED BY <1>1, <1>2, <2>1 DEF DmTypeOK
<1>6. HupHeld(d)'
  BY <1>1, <1>3
<1> QED BY <1>1, <1>3, <1>4, <1>5, <1>6, DaemonGoes

LEMMA DaemonStarts ==
  ASSUME DaemonInv, NEW d \in Daemons, Dm!Start(d)
  PROVE  DaemonInv'
<1> USE DEF Dm!Start, Dm!Fresh, Dm!Goto, Dm!lock
<1>1. DmTypeOK /\ Owns(d) /\ ~Dm!Past(d)
  BY DEF DaemonInv, CopyInv, Dm!Past, Dm!Alive, Dm!Gone
<1>2. /\ dm_pc'[d] = "start" /\ killer'[d] = <<>>
      /\ UNCHANGED <<dm_build, owner, pidfile>>
      /\ \A e \in Daemons \ {d} : /\ dm_pc'[e] = dm_pc[e] /\ killer'[e] = killer[e]
                                  /\ disp'[e] = disp[e] /\ blocked'[e] = blocked[e]
  BY <1>1 DEF DmTypeOK
<1>3. DmTypeOK'
  BY <1>1 DEF DmTypeOK, DmPositions, Dm!Signos
<1>4. Owns(d)' /\ HupHeld(d)'
  BY <1>1, <1>2 DEF Owns, HupHeld, Dm!Past, IgnoringPcs, ThreadPcs, HandlerPcs
<1> QED BY <1>2, <1>3, <1>4, DaemonGoes

(* From one position to another, with nothing else that matters here       *)
LEMMA DaemonMoves ==
  ASSUME DaemonInv, NEW d \in Daemons, NEW there \in DmPositions \ Dm!Gone,
         dm_pc' = [dm_pc EXCEPT ![d] = there],
         UNCHANGED <<dm_build, disp, killer>>,
         UNCHANGED blocked \/ blocked' = [blocked EXCEPT ![d] = TRUE],
         UNCHANGED owner \/ (owner = "none" /\ owner' = d),
         UNCHANGED pidfile \/ owner = d,
         dm_pc'[d] = there => Owns(d)' /\ HupHeld(d)'
  PROVE  DaemonInv'
<1>1. DmTypeOK
  BY DEF DaemonInv
<1>2. DmTypeOK' /\ dm_pc'[d] = there
  BY <1>1 DEF DmTypeOK
<1>3. \A e \in Daemons \ {d} : dm_pc'[e] = dm_pc[e] /\ blocked'[e] = blocked[e]
  BY <1>1 DEF DmTypeOK
<1> QED BY <1>2, <1>3, DaemonGoes

LEMMA DaemonizeStep ==
  ASSUME DaemonInv, NEW d \in Daemons, Dm!daemonize(d)
  PROVE  DaemonInv'
<1> USE DEF Dm!Goto, Dm!At, Dm!lock
<1>1. DmTypeOK /\ CopyInv(d)
  BY DEF DaemonInv
<1>2. ASSUME NEW here \in {"start", "fork", "attach"}, dm_pc[d] = here,
             dm_pc' = [dm_pc EXCEPT ![d] = "exited"],
             UNCHANGED <<dm_build, disp, blocked, killer, owner, pidfile>>
      PROVE  DaemonInv'
  <2>1. owner # d
    BY <1>1, <1>2 DEF CopyInv, Owns, Dm!Past
  <2> QED BY <1>2, <2>1, DaemonEnds DEF Dm!Ends, Dm!Unlocked
<1>3. CASE Dm!Fork(d, "start", "setsid")
  <2>1. CASE dm_pc' = [dm_pc EXCEPT ![d] = "setsid"]
    <3>1. dm_pc'[d] = "setsid" => Owns(d)' /\ HupHeld(d)'
      BY <1>1, <1>3 DEF Dm!Fork, CopyInv, Owns, HupHeld, Dm!Past, IgnoringPcs, ThreadPcs, HandlerPcs
    <3> QED BY <1>3, <2>1, <3>1, DaemonMoves DEF Dm!Fork, DmPositions, Dm!Gone
  <2> QED BY <1>2, <1>3, <2>1 DEF Dm!Fork
<1>4. CASE Dm!Fork(d, "fork", "attach")
  <2>1. CASE dm_pc' = [dm_pc EXCEPT ![d] = "attach"]
    <3>1. dm_pc'[d] = "attach" => Owns(d)' /\ HupHeld(d)'
      BY <1>1, <1>4 DEF Dm!Fork, CopyInv, Owns, HupHeld, Dm!Past, IgnoringPcs, ThreadPcs, HandlerPcs
    <3> QED BY <1>4, <2>1, <3>1, DaemonMoves DEF Dm!Fork, DmPositions, Dm!Gone, IgnoringPcs
  <2> QED BY <1>2, <1>4, <2>1 DEF Dm!Fork
<1>5. CASE Dm!Attach(d)
  <2>1. CASE dm_pc' = [dm_pc EXCEPT ![d] = "lock"]
    <3>1. dm_pc'[d] = "lock" => Owns(d)' /\ HupHeld(d)'
      BY <1>1, <1>5 DEF Dm!Attach, Dm!handling, CopyInv, Owns, HupHeld, Dm!Past, IgnoringPcs, ThreadPcs, HandlerPcs
    <3> QED BY <1>5, <2>1, <3>1, DaemonMoves DEF Dm!Attach, Dm!handling, DmPositions, Dm!Gone, IgnoringPcs
  <2> QED BY <1>2, <1>5, <2>1 DEF Dm!Attach, Dm!handling
<1>6. CASE Dm!IgnoreHup(d)
  <2>1. dm_pc'[d] = "fork" /\ disp'[d] = [disp[d] EXCEPT !["HUP"] = "ign"] => HupHeld(d)'
    BY <1>1 DEF DmTypeOK, Dm!Signos, HupHeld, ThreadPcs, HandlerPcs
  <2>2. "setsid" \in DmPositions \ {"truncate", "write"} /\ "fork" \in DmPositions \ {"truncate", "write"}
    BY DEF DmPositions, IgnoringPcs
  <2>3. "setsid" \in OwnPcs <=> "fork" \in OwnPcs
    BY DEF OwnPcs, ThreadPcs, HandlerPcs
  <2> QED BY <1>6, <2>1, <2>2, <2>3, DaemonAction DEF Dm!IgnoreHup, Dm!Signos
<1> QED BY <1>3, <1>4, <1>5, <1>6 DEF Dm!daemonize

LEMMA AlreadyRunningStep ==
  ASSUME DaemonInv, NEW d \in Daemons, Dm!already_running(d)
  PROVE  DaemonInv'
<1> USE DEF Dm!Goto, Dm!At, Dm!handling, CopyInv, Owns, HupHeld, Dm!Past
<1>1. /\ DmTypeOK /\ CopyInv(d) /\ d # "none"
      /\ {"truncate", "write", "restore", "sigterm"} \subseteq DmPositions \ Dm!Gone
  BY DaemonAssumption DEF DaemonInv, DmPositions, IgnoringPcs, Dm!Gone
<1>2. CASE Dm!Lock(d)
  <2>1. CASE owner = "none"
    <3>1. /\ dm_pc' = [dm_pc EXCEPT ![d] = "truncate"] /\ owner' = d
          /\ UNCHANGED <<dm_build, disp, killer, blocked, pidfile>> /\ dm_pc[d] = "lock"
      BY <1>2, <2>1 DEF Dm!Lock
    <3>2. dm_pc'[d] = "truncate" => Owns(d)' /\ HupHeld(d)'
      BY <1>1, <3>1 DEF IgnoringPcs, ThreadPcs, HandlerPcs
    <3> QED BY <1>1, <2>1, <3>1, <3>2, DaemonMoves
  <2>2. CASE owner # "none"
    <3>1. /\ dm_pc' = [dm_pc EXCEPT ![d] = "exited"] /\ dm_pc[d] = "lock"
          /\ UNCHANGED <<dm_build, disp, killer, blocked, owner, pidfile>>
      BY <1>2, <2>2 DEF Dm!Lock
    <3>2. owner # d
      BY <1>1, <3>1
    <3> QED BY <3>1, <3>2, DaemonEnds DEF Dm!Ends, Dm!Unlocked
  <2> QED BY <2>1, <2>2
<1>3. CASE Dm!Truncate(d)
  <2>1. /\ dm_pc' = [dm_pc EXCEPT ![d] = "write"] /\ dm_pc[d] = "truncate"
        /\ UNCHANGED <<dm_build, disp, killer, blocked, owner>> /\ owner = d
    BY <1>1, <1>3 DEF Dm!Truncate
  <2>2. dm_pc'[d] = "write" => Owns(d)' /\ HupHeld(d)'
    BY <1>1, <2>1 DEF IgnoringPcs, ThreadPcs, HandlerPcs
  <2> QED BY <1>1, <2>1, <2>2, DaemonMoves
<1>4. CASE Dm!WritePid(d)
  <2> DEFINE there == IF dm_build[d] = "thread" THEN "restore" ELSE "sigterm"
  <2>1. /\ dm_pc' = [dm_pc EXCEPT ![d] = there] /\ dm_pc[d] = "write" /\ pidfile' = d
        /\ UNCHANGED <<dm_build, disp, killer, blocked, owner>> /\ owner = d
    BY <1>1, <1>4 DEF Dm!WritePid
  <2>2. dm_build[d] \in {"thread", "handlers"}
    BY <1>1 DEF DmTypeOK
  <2>3. dm_pc'[d] = there => Owns(d)' /\ HupHeld(d)'
    BY <1>1, <2>1, <2>2 DEF IgnoringPcs, ThreadPcs, HandlerPcs
  <2>4. there \in DmPositions \ Dm!Gone
    BY <1>1
  <2> QED
    <3> HIDE DEF there
    <3> QED BY ONLY DaemonInv, d \in Daemons, <2>1, <2>3, <2>4, DaemonMoves
<1> QED BY <1>2, <1>3, <1>4 DEF Dm!already_running

(* reread.c and reread2.c after already_running                            *)
LEMMA RereadStep ==
  ASSUME DaemonInv, NEW d \in Daemons,
         \/ Dm!RestoreHup(d) \/ Dm!Block(d) \/ Dm!Create(d) \/ Dm!CatchTerm(d) \/ Dm!CatchHup(d)
  PROVE  DaemonInv'
<1> USE DEF Dm!Goto, Dm!At, Dm!handling
<1>1. /\ DmTypeOK /\ CopyInv(d)
      /\ OwnPcs \subseteq DmPositions \ Dm!Gone
      /\ OwnPcs \subseteq DmPositions \ {"truncate", "write"}
  BY DEF DaemonInv, DmPositions, IgnoringPcs, ThreadPcs, HandlerPcs, OwnPcs, Dm!Gone
<1>2. {"restore", "block", "create", "sigterm", "sighup", "run"} = OwnPcs
  BY DEF OwnPcs, ThreadPcs, HandlerPcs
<1>3. CASE Dm!RestoreHup(d)
  <2>1. dm_pc[d] = "restore"
    BY <1>3 DEF Dm!RestoreHup, Dm!Action
  <2>2. dm_pc'[d] = "block" /\ dm_build'[d] = dm_build[d] => HupHeld(d)'
    BY <1>1, <2>1 DEF CopyInv, HupHeld, IgnoringPcs, ThreadPcs, HandlerPcs
  <2> QED BY <1>1, <1>2, <1>3, <2>2, DaemonAction DEF Dm!RestoreHup, Dm!Signos
<1>4. CASE Dm!CatchTerm(d)
  <2>1. dm_pc[d] = "sigterm"
    BY <1>4 DEF Dm!CatchTerm, Dm!Action
  <2>2. dm_pc'[d] = "sighup" /\ disp'[d] = [disp[d] EXCEPT !["TERM"] = "handler"]
          /\ dm_build'[d] = dm_build[d] => HupHeld(d)'
    BY <1>1, <2>1 DEF DmTypeOK, CopyInv, HupHeld, IgnoringPcs, ThreadPcs, HandlerPcs, Dm!Signos
  <2>3. Dm!Action(d, "sigterm", "sighup", "TERM", "handler") /\ "TERM" \in Dm!Signos
    BY <1>4 DEF Dm!CatchTerm, Dm!Signos
  <2>4. "sigterm" \in OwnPcs /\ "sighup" \in OwnPcs
    BY <1>2
  <2> QED BY ONLY DaemonInv, d \in Daemons, <1>1, <2>2, <2>3, <2>4, DaemonAction
<1>5. CASE Dm!CatchHup(d)
  <2>1. dm_pc[d] = "sighup"
    BY <1>5 DEF Dm!CatchHup, Dm!Action
  <2>2. dm_pc'[d] = "run" /\ disp'[d] = [disp[d] EXCEPT !["HUP"] = "handler"]
          /\ dm_build'[d] = dm_build[d] => HupHeld(d)'
    BY <1>1, <2>1 DEF DmTypeOK, CopyInv, HupHeld, IgnoringPcs, ThreadPcs, HandlerPcs, Dm!Signos
  <2>3. Dm!Action(d, "sighup", "run", "HUP", "handler") /\ "HUP" \in Dm!Signos
    BY <1>5 DEF Dm!CatchHup, Dm!Signos
  <2>4. "sighup" \in OwnPcs /\ "run" \in OwnPcs
    BY <1>2
  <2> QED BY ONLY DaemonInv, d \in Daemons, <1>1, <2>2, <2>3, <2>4, DaemonAction
<1>6. CASE Dm!Block(d)
  <2>1. /\ dm_pc[d] = "block" /\ dm_pc' = [dm_pc EXCEPT ![d] = "create"]
        /\ blocked' = [blocked EXCEPT ![d] = TRUE]
        /\ UNCHANGED <<dm_build, disp, killer, owner, pidfile>>
    BY <1>6 DEF Dm!Block, Dm!lock
  <2>2. dm_pc'[d] = "create" => Owns(d)' /\ HupHeld(d)'
    BY <1>1, <2>1 DEF DmTypeOK, CopyInv, Owns, HupHeld, Dm!Past, IgnoringPcs, ThreadPcs, HandlerPcs
  <2> QED BY <1>1, <1>2, <2>1, <2>2, DaemonMoves
<1>7. CASE Dm!Create(d)
  <2>1. dm_pc[d] = "create" /\ UNCHANGED <<dm_build, disp, blocked, killer>>
    BY <1>7 DEF Dm!Create
  <2>2. CASE Dm!Ends(d, "exited")
    BY <2>1, <2>2, DaemonEnds
  <2>3. CASE dm_pc' = [dm_pc EXCEPT ![d] = "run"] /\ UNCHANGED <<owner, pidfile>>
    <3>1. dm_pc'[d] = "run" => Owns(d)' /\ HupHeld(d)'
      BY <1>1, <2>1, <2>3 DEF DmTypeOK, CopyInv, Owns, HupHeld, Dm!Past, IgnoringPcs, ThreadPcs, HandlerPcs
    <3> QED BY <1>1, <1>2, <2>1, <2>3, <3>1, DaemonMoves
  <2> QED BY <1>7, <2>2, <2>3 DEF Dm!Create, Dm!lock
<1> QED BY <1>3, <1>4, <1>5, <1>6, <1>7

(* Signals, and what the copies do with them                               *)
LEMMA DaemonSignal ==
  ASSUME DaemonInv, NEW d \in Daemons,
         \/ Dm!LogStart(d) \/ Dm!Act(d) \/ Dm!Kill(d)
         \/ \E signo \in Dm!Signos : Dm!thr_fn(d, signo) \/ Dm!Deliver(d, signo) \/ Dm!Send(d, signo)
  PROVE  DaemonInv'
<1>1. DmTypeOK /\ CopyInv(d)
  BY DEF DaemonInv
<1>2. CASE Dm!LogStart(d)
  BY <1>2, DaemonQuiet DEF Dm!LogStart, Dm!lock
<1>3. CASE Dm!Act(d)
  <2>1. CASE Dm!Ends(d, "exited")
    BY <1>3, <2>1, DaemonEnds DEF Dm!Act
  <2>2. CASE UNCHANGED <<dm_pc, owner, pidfile>>
    BY <1>3, <2>2, DaemonQuiet DEF Dm!Act
  <2> QED BY <1>3, <2>1, <2>2 DEF Dm!Act, Dm!lock
<1>4. CASE Dm!Kill(d)
  BY <1>4, DaemonEnds DEF Dm!Kill, Dm!handling
<1>5. ASSUME NEW signo \in Dm!Signos, Dm!thr_fn(d, signo) PROVE DaemonInv'
  <2>1. CASE Dm!Ends(d, "exited")
    BY <1>5, <2>1, DaemonEnds DEF Dm!thr_fn
  <2>2. CASE UNCHANGED <<dm_pc, owner, pidfile>>
    BY <1>5, <2>2, DaemonQuiet DEF Dm!thr_fn
  <2> QED BY <1>5, <2>1, <2>2 DEF Dm!thr_fn, Dm!lock
<1>6. ASSUME NEW signo \in Dm!Signos, Dm!Deliver(d, signo) PROVE DaemonInv'
  <2>1. CASE disp[d][signo] = "dfl"
    <3>1. /\ Dm!Ends(d, "killed") /\ killer' = [killer EXCEPT ![d] = <<signo, dm_pc[d]>>]
          /\ UNCHANGED <<dm_build, disp, blocked>> /\ dm_pc[d] \notin Dm!Gone /\ ~blocked[d]
      BY <1>6, <2>1 DEF Dm!Deliver, Dm!Alive
    <3>2. signo \in {"HUP", "TERM", "KILL"}
      BY DEF Dm!Signos
    <3>3. signo = "HUP" => dm_pc[d] \in {"start", "setsid", "block"}
      BY <1>1, <2>1, <3>1 DEF DmTypeOK, CopyInv, HupHeld, DmPositions, IgnoringPcs, ThreadPcs
    <3> QED BY <3>1, <3>2, <3>3, DaemonEnds
  <2>2. CASE disp[d][signo] # "dfl"
    BY <1>6, <2>2, DaemonQuiet DEF Dm!Deliver, Dm!lock
  <2> QED BY <2>1, <2>2
<1>7. ASSUME NEW signo \in Dm!Signos, Dm!Send(d, signo) PROVE DaemonInv'
  BY <1>7, DaemonQuiet DEF Dm!Send, Dm!lock
<1> QED BY <1>2, <1>3, <1>4, <1>5, <1>6, <1>7

LEMMA DaemonNext == DaemonInv /\ [MCNext]_all => DaemonInv'
<1> SUFFICES ASSUME DaemonInv, [MCNext]_all PROVE DaemonInv'
  OBVIOUS
<1>1. CASE Dm!Next
  <2>1. PICK d \in Daemons : \/ Dm!Step(d) \/ Dm!Start(d) \/ Dm!Kill(d)
                             \/ \E signo \in Dm!Signos : Dm!Send(d, signo)
    BY <1>1 DEF Dm!Next
  <2> QED BY <2>1, DaemonizeStep, AlreadyRunningStep, RereadStep, DaemonSignal, DaemonStarts DEF Dm!Step
<1>2. CASE UNCHANGED dmVars
  <2>1. UNCHANGED <<dm_build, dm_pc, disp, blocked, killer, owner, pidfile>>
    BY <1>2 DEF dmVars
  <2>2. \A e \in Daemons : CopyInv(e)'
    BY <2>1 DEF DaemonInv, CopyInv, Owns, HupHeld, HupSpares, Dm!Past
  <2> QED BY <2>1, <2>2 DEF DaemonInv, DmTypeOK
<1> QED BY <1>1, <1>2 DEF MCNext, Runs, all

(* At most one daemon is past already_running, the file says which, and    *)
(* SIGHUP ends no copy that runs or still ignores it, whatever copies are  *)
(* started and killed, and wherever they are then.                         *)
THEOREM OnlyOneDaemon == MCSpec => []OneDaemon
<1>1. MCInit => DaemonInv
  BY DaemonInit DEF MCInit
<1>2. DaemonInv => OneDaemon
  <2> SUFFICES ASSUME DaemonInv PROVE Dm!OneDaemon
    BY DEF OneDaemon
  <2>1. \A d \in Daemons : Owns(d) /\ HupSpares(d)
    BY DEF DaemonInv, CopyInv
  <2> QED BY <2>1 DEF Dm!OneDaemon, Owns, HupSpares, Dm!Past, Dm!Running
<1> QED BY <1>1, <1>2, DaemonNext, PTL DEF MCSpec

-----------------------------------------------------------------------------
(* Sequences without repetitions                                           *)

Members(q) == {q[n] : n \in DOMAIN q}
NoTwice(q) == \A m, n \in DOMAIN q : q[m] = q[n] => m = n

LEMMA AppendNew ==
  ASSUME NEW S, NEW q \in Seq(S), NoTwice(q), NEW c \in S \ Members(q)
  PROVE  /\ Append(q, c) \in Seq(S) /\ NoTwice(Append(q, c))
         /\ Members(Append(q, c)) = Members(q) \cup {c}
<1> DEFINE a == Append(q, c)
<1>1. /\ a \in Seq(S) /\ DOMAIN q = 1 .. Len(q) /\ DOMAIN a = 1 .. Len(q) + 1 /\ Len(q) \in Nat
      /\ \A n \in 1 .. Len(q) : a[n] = q[n]
      /\ a[Len(q) + 1] = c
  OBVIOUS
<1> HIDE DEF a
<1>2. \A n \in 1 .. Len(q) + 1 : n \in 1 .. Len(q) \/ n = Len(q) + 1
  BY <1>1
<1>3. Members(a) = Members(q) \cup {c}
  <2>1. \A n \in 1 .. Len(q) : n \in 1 .. Len(q) + 1
    BY <1>1
  <2> QED BY <1>1, <1>2, <2>1 DEF Members
<1>4. NoTwice(a)
  BY <1>1, <1>2 DEF NoTwice, Members
<1> QED BY <1>1, <1>3, <1>4 DEF a

LEMMA TakeHead ==
  ASSUME NEW S, NEW q \in Seq(S), q # <<>>, NoTwice(q)
  PROVE  /\ Head(q) \in Members(q) \cap S
         /\ Tail(q) \in Seq(S) /\ NoTwice(Tail(q))
         /\ Members(Tail(q)) = Members(q) \ {Head(q)}
<1> DEFINE t == Tail(q)
<1>1. /\ t \in Seq(S) /\ DOMAIN q = 1 .. Len(q) /\ DOMAIN t = 1 .. Len(q) - 1
      /\ Len(q) \in Nat \ {0} /\ Head(q) = q[1] /\ q[1] \in S
      /\ \A n \in 1 .. Len(q) - 1 : t[n] = q[n + 1]
  OBVIOUS
<1> HIDE DEF t
<1>2. Head(q) \in Members(q)
  BY <1>1 DEF Members
<1>3. NoTwice(t)
  <2> SUFFICES ASSUME NEW m \in 1 .. Len(q) - 1, NEW n \in 1 .. Len(q) - 1, t[m] = t[n] PROVE m = n
    BY <1>1 DEF NoTwice
  <2>1. m + 1 \in DOMAIN q /\ n + 1 \in DOMAIN q /\ q[m + 1] = q[n + 1]
    BY <1>1
  <2> QED BY <2>1 DEF NoTwice
<1>4. ASSUME NEW x \in Members(t) PROVE x \in Members(q) \ {Head(q)}
  <2>1. PICK n \in 1 .. Len(q) - 1 : x = t[n]
    BY <1>1, <1>4 DEF Members
  <2>2. n + 1 \in DOMAIN q /\ 1 \in DOMAIN q /\ n + 1 # 1 /\ x = q[n + 1]
    BY <1>1, <2>1
  <2> QED BY <1>1, <2>2 DEF Members, NoTwice
<1>5. ASSUME NEW x \in Members(q) \ {Head(q)} PROVE x \in Members(t)
  <2>1. PICK n \in 1 .. Len(q) : x = q[n]
    BY <1>1, <1>5 DEF Members
  <2>2. n - 1 \in 1 .. Len(q) - 1 /\ t[n - 1] = q[n]
    BY <1>1, <1>5, <2>1
  <2> QED BY <1>1, <2>1, <2>2 DEF Members
<1> QED BY <1>1, <1>2, <1>3, <1>4, <1>5 DEF t

(* The wait of connect_retry is doubled until it is MAXSLEEP.              *)
LEMMA Doubled ==
  ASSUME NEW n \in Nat, NEW e \in Nat, n * e = MAXSLEEP
  PROVE  /\ n <= MAXSLEEP \div 2 => \E h \in Nat : (2 * n) * h = MAXSLEEP
         /\ ~(n <= MAXSLEEP \div 2) => n = MAXSLEEP
<1>1. MAXSLEEP \in Nat \ {0} /\ n # 0 /\ e # 0
  BY SleepAssumption
<1>2. CASE e = 1
  BY <1>1, <1>2
<1>3. CASE e # 1
  <2>1. n * e >= n * 2 /\ n * e >= e
    BY <1>1, <1>3
  <2>2. n <= MAXSLEEP \div 2
    BY <1>1, <2>1
  <2>3. n \in 1 .. MAXSLEEP /\ e \in 1 .. MAXSLEEP /\ e * n = MAXSLEEP
    BY <1>1, <2>1
  <2>4. e % 2 = 0
    BY <1>3, <2>3, SleepAssumption
  <2>5. PICK h \in Nat : e = 2 * h
    <3>1. e = 2 * (e \div 2) /\ e \div 2 \in Nat
      BY <2>4
    <3> QED BY <3>1
  <2>6. (2 * n) * h = n * (2 * h)
    OBVIOUS
  <2> QED BY <2>2, <2>5, <2>6
<1> QED BY <1>2, <1>3

-----------------------------------------------------------------------------
(* The uptime service.  A client is in the queue or with the server at     *)
(* most once, and has had no line and no end of file until then; so it     *)
(* gets one line, or the server has died.  What a client has slept is one  *)
(* second less than the wait that is next, and that divides MAXSLEEP.      *)

UpTypeOK ==
  /\ up_build \in {"stream", "fd", "dgram"} /\ srv \in {"down", "idle", "work", "close"}
  /\ srv \in {"work", "close"} => cur \in Clients
  /\ queue \in Seq(Clients) /\ stopped \in BOOLEAN
  /\ cst \in [Clients -> {"start", "asleep", "waiting", "rung", "done", "failed", "killed"}]
  /\ numsec \in [Clients -> Nat] /\ slept \in [Clients -> Nat]
  /\ line \in [Clients -> Nat] /\ up_got \in [Clients -> Nat] /\ eof \in [Clients -> BOOLEAN]

Awaits(c) == c \in Members(queue) \/ (srv = "work" /\ cur = c)
Lines(c) == line[c] + up_got[c]

QueueRight == NoTwice(queue) /\ (srv = "work" => cur \notin Members(queue))

LinesRight(c) ==
  /\ cst[c] \in {"start", "asleep"} => ~Awaits(c) /\ Lines(c) = 0 /\ ~eof[c]
  /\ Awaits(c) => Lines(c) = 0 /\ ~eof[c]
  /\ Lines(c) <= 1
  /\ eof[c] /\ Lines(c) = 0 => stopped
  /\ srv = "close" /\ cur = c => Lines(c) = 1
  /\ cst[c] \in {"waiting", "rung"} /\ up_build = "dgram" => up_got[c] = 0
  /\ cst[c] = "done" => IF up_build = "dgram" THEN up_got[c] = 1 ELSE eof[c] /\ line[c] = 0

SleepRight(c) ==
  /\ cst[c] \in {"start", "asleep"} =>
       slept[c] = numsec[c] - 1 /\ \E e \in Nat : numsec[c] * e = MAXSLEEP
  /\ cst[c] = "failed" /\ up_build # "dgram" => slept[c] = MAXSLEEP - 1

UptimeInv ==
  UpTypeOK /\ QueueRight /\ \A c \in Clients : LinesRight(c) /\ SleepRight(c)

LEMMA UptimeInit == Up!Init => UptimeInv
<1> SUFFICES ASSUME Up!Init PROVE UptimeInv
  OBVIOUS
<1>1. UpTypeOK /\ QueueRight /\ Members(queue) = {} /\ srv = "down"
  <2>1. queue = <<>> /\ srv = "down" /\ Members(queue) = {} /\ NoTwice(queue)
    BY DEF Up!Init, Members, NoTwice
  <2>2. queue \in Seq(Clients)
    BY <2>1
  <2>3. UpTypeOK
    BY <2>1, <2>2 DEF Up!Init, UpTypeOK
  <2> QED BY <2>1, <2>3 DEF QueueRight
<1>2. ASSUME NEW c \in Clients PROVE LinesRight(c) /\ SleepRight(c)
  <2>1. /\ cst[c] = "start" /\ line[c] = 0 /\ up_got[c] = 0 /\ eof[c] = FALSE
        /\ numsec[c] = 1 /\ slept[c] = 0 /\ MAXSLEEP \in Nat /\ 1 * MAXSLEEP = MAXSLEEP
    BY SleepAssumption DEF Up!Init
  <2> QED BY <1>1, <2>1 DEF LinesRight, SleepRight, Awaits, Lines
<1> QED BY <1>1, <1>2 DEF UptimeInv

(* What the server does                                                    *)
LEMMA UptimeServes ==
  ASSUME UptimeInv, Up!Start \/ Up!Serve \/ Up!Crash
  PROVE  UptimeInv'
<1> USE DEF Up!clients, Up!server
<1>1. /\ UpTypeOK /\ QueueRight /\ \A c \in Clients : LinesRight(c) /\ SleepRight(c)
      /\ UNCHANGED <<up_build, cst, numsec, slept, up_got>>
  BY DEF UptimeInv, Up!Start, Up!Serve, Up!Crash, Up!Accept, Up!ServeStream, Up!ServeFd, Up!ServeDgram, Up!Close
<1>2. \A c \in Clients : SleepRight(c)'
  BY <1>1 DEF SleepRight
<1>3. CASE Up!Exits /\ UNCHANGED <<cur, line>>
  <2>1. /\ srv' = "down" /\ stopped' = TRUE /\ queue' = <<>> /\ line' = line
        /\ eof' = [c \in Clients |-> cst[c] = "waiting" \/ eof[c]]
    BY <1>3 DEF Up!Exits
  <2>2. UpTypeOK' /\ QueueRight' /\ Members(queue') = {}
    BY <1>1, <2>1 DEF UpTypeOK, QueueRight, NoTwice, Members
  <2>3. ASSUME NEW c \in Clients PROVE LinesRight(c)'
    BY <1>1, <2>1, <2>2 DEF UpTypeOK, LinesRight, Awaits, Lines
  <2> QED BY <1>2, <2>2, <2>3 DEF UptimeInv
<1>4. CASE Up!Start
  <2>1. UpTypeOK' /\ QueueRight'
    BY <1>1, <1>4 DEF Up!Start, UpTypeOK, QueueRight
  <2>2. ASSUME NEW c \in Clients PROVE LinesRight(c)'
    BY <1>1, <1>4 DEF Up!Start, LinesRight, Awaits, Lines
  <2> QED BY <1>2, <2>1, <2>2 DEF UptimeInv
<1>5. CASE Up!Accept
  <2>1. /\ srv = "idle" /\ queue # <<>> /\ cur' = Head(queue) /\ queue' = Tail(queue) /\ srv' = "work"
        /\ UNCHANGED <<stopped, line, eof>>
    BY <1>5 DEF Up!Accept
  <2>2. /\ cur' \in Members(queue) \cap Clients /\ queue' \in Seq(Clients) /\ NoTwice(queue')
        /\ Members(queue') = Members(queue) \ {cur'}
    BY <1>1, <2>1, TakeHead DEF UpTypeOK, QueueRight
  <2>3. UpTypeOK' /\ QueueRight'
    BY <1>1, <2>1, <2>2 DEF UpTypeOK, QueueRight
  <2>4. ASSUME NEW c \in Clients PROVE LinesRight(c)'
    <3>1. Awaits(c)' => Awaits(c)
      BY <2>1, <2>2 DEF Awaits
    <3> QED BY <1>1, <2>1, <3>1 DEF LinesRight, Lines
  <2> QED BY <1>2, <2>3, <2>4 DEF UptimeInv
<1>6. ASSUME srv = "work", srv' \in {"idle", "close"}, line' = [line EXCEPT ![cur] = @ + 1],
             UNCHANGED <<cur, queue, stopped, eof>>
      PROVE  UptimeInv'
  <2>1. UpTypeOK' /\ QueueRight' /\ cur \in Clients
    BY <1>1, <1>6 DEF UpTypeOK, QueueRight
  <2>2. ASSUME NEW c \in Clients PROVE LinesRight(c)'
    <3>1. CASE c = cur
      <4>1. line'[c] = line[c] + 1 /\ line[c] = 0 /\ up_got[c] = 0 /\ ~eof[c] /\ Awaits(c)
        BY <1>1, <1>6, <2>1, <3>1 DEF UpTypeOK, LinesRight, Awaits, Lines
      <4>2. ~Awaits(c)' /\ Lines(c)' = 1
        BY <1>1, <1>6, <3>1, <4>1 DEF QueueRight, Awaits, Lines
      <4> QED BY <1>1, <1>6, <4>1, <4>2 DEF LinesRight
    <3>2. CASE c # cur
      <4>1. line'[c] = line[c] /\ (Awaits(c)' <=> Awaits(c)) /\ Lines(c)' = Lines(c)
        BY <1>1, <1>6, <2>1, <3>2 DEF UpTypeOK, Awaits, Lines
      <4> QED BY <1>1, <1>6, <3>2, <4>1 DEF LinesRight
    <3> QED BY <3>1, <3>2
  <2> QED BY <1>2, <2>1, <2>2 DEF UptimeInv
<1>7. ASSUME srv = "work", srv' = "idle", UNCHANGED <<cur, queue, stopped, eof, line>>
      PROVE  UptimeInv'
  <2>1. UpTypeOK' /\ QueueRight'
    BY <1>1, <1>7 DEF UpTypeOK, QueueRight
  <2>2. ASSUME NEW c \in Clients PROVE LinesRight(c)'
    BY <1>1, <1>7 DEF LinesRight, Awaits, Lines
  <2> QED BY <1>2, <2>1, <2>2 DEF UptimeInv
<1>8. CASE Up!Close
  <2>1. /\ srv = "close" /\ srv' = "idle" /\ eof' = [eof EXCEPT ![cur] = TRUE]
        /\ UNCHANGED <<cur, queue, stopped, line>>
    BY <1>8 DEF Up!Close
  <2>2. UpTypeOK' /\ QueueRight' /\ cur \in Clients
    BY <1>1, <2>1 DEF UpTypeOK, QueueRight
  <2>3. ASSUME NEW c \in Clients PROVE LinesRight(c)'
    <3>1. (Awaits(c)' <=> Awaits(c)) /\ Lines(c)' = Lines(c) /\ (eof'[c] <=> eof[c] \/ c = cur)
      BY <1>1, <2>1, <2>2 DEF UpTypeOK, Awaits, Lines
    <3>2. c = cur => Lines(c) = 1 /\ ~Awaits(c) /\ cst[c] \notin {"start", "asleep"}
      BY <1>1, <2>1 DEF LinesRight
    <3> QED BY <1>1, <2>1, <3>1, <3>2 DEF LinesRight
  <2> QED BY <1>2, <2>2, <2>3 DEF UptimeInv
<1> QED BY <1>3, <1>4, <1>5, <1>6, <1>7, <1>8
        DEF Up!Serve, Up!Crash, Up!ServeStream, Up!ServeFd, Up!ServeDgram

(* A client that only its own entries of cst, line and got change, and     *)
(* that puts itself into the queue at most when it has not yet been there  *)
LEMMA UptimeClient ==
  ASSUME UptimeInv, NEW c \in Clients, UpTypeOK', LinesRight(c)', SleepRight(c)',
         UNCHANGED <<up_build, srv, cur, stopped, eof>>,
         \/ UNCHANGED queue
         \/ queue' = Append(queue, c) /\ cst[c] = "start",
         \A b \in Clients \ {c} : /\ cst'[b] = cst[b] /\ line'[b] = line[b] /\ up_got'[b] = up_got[b]
                                  /\ numsec'[b] = numsec[b] /\ slept'[b] = slept[b]
  PROVE  UptimeInv'
<1>1. QueueRight' /\ (\A b \in Clients \ {c} : Awaits(b)' <=> Awaits(b))
  <2>1. CASE UNCHANGED queue
    BY <2>1 DEF UptimeInv, QueueRight, Awaits
  <2>2. CASE queue' = Append(queue, c) /\ cst[c] = "start"
    <3>1. ~Awaits(c) /\ queue \in Seq(Clients) /\ NoTwice(queue)
      BY <2>2 DEF UptimeInv, LinesRight, UpTypeOK, QueueRight
    <3>2. NoTwice(queue') /\ Members(queue') = Members(queue) \cup {c}
      BY <2>2, <3>1, AppendNew DEF Awaits
    <3> QED BY <3>1, <3>2 DEF UptimeInv, QueueRight, Awaits
  <2> QED BY <2>1, <2>2
<1>2. ASSUME NEW b \in Clients \ {c} PROVE LinesRight(b)' /\ SleepRight(b)'
  BY <1>1 DEF UptimeInv, LinesRight, SleepRight, Lines
<1> QED BY <1>1, <1>2 DEF UptimeInv

LEMMA ConnectRetryStep ==
  ASSUME UptimeInv, NEW c \in Clients, Up!connect_retry(c)
  PROVE  UptimeInv'
<1> USE DEF Up!connect_retry
<1>1. /\ UpTypeOK /\ QueueRight /\ LinesRight(c) /\ SleepRight(c)
      /\ cst[c] = "start" /\ up_build # "dgram" /\ ~Awaits(c)
      /\ UNCHANGED <<up_build, srv, cur, stopped, up_got, line, eof>>
  BY DEF UptimeInv, LinesRight
<1>2. CASE srv # "down"
  <2>1. cst' = [cst EXCEPT ![c] = "waiting"] /\ queue' = Append(queue, c) /\ UNCHANGED <<numsec, slept>>
    BY <1>2
  <2>2. queue' \in Seq(Clients) /\ UpTypeOK'
    BY <1>1, <2>1 DEF UpTypeOK
  <2>3. cst'[c] = "waiting" /\ \A b \in Clients \ {c} : cst'[b] = cst[b]
    BY <1>1, <2>1 DEF UpTypeOK
  <2>4. LinesRight(c)' /\ SleepRight(c)'
    BY <1>1, <2>3 DEF LinesRight, SleepRight, Lines
  <2> QED BY <1>1, <2>1, <2>2, <2>3, <2>4, UptimeClient
<1>3. CASE srv = "down"
  <2> DEFINE again == numsec[c] <= MAXSLEEP \div 2
  <2>1. /\ cst' = [cst EXCEPT ![c] = IF again THEN "asleep" ELSE "failed"]
        /\ slept' = [slept EXCEPT ![c] = slept[c] + (IF again THEN numsec[c] ELSE 0)]
        /\ numsec' = [numsec EXCEPT ![c] = 2 * numsec[c]] /\ queue' = queue
    BY <1>3
  <2>2. numsec[c] \in Nat /\ slept[c] \in Nat /\ MAXSLEEP \in Nat
    BY <1>1, SleepAssumption DEF UpTypeOK
  <2>3. UpTypeOK'
    <3>1. cst' \in [Clients -> {"start", "asleep", "waiting", "rung", "done", "failed", "killed"}]
      BY <1>1, <2>1 DEF UpTypeOK
    <3>2. slept' \in [Clients -> Nat] /\ numsec' \in [Clients -> Nat]
      BY <1>1, <2>1, <2>2 DEF UpTypeOK
    <3> QED BY <1>1, <2>1, <3>1, <3>2 DEF UpTypeOK
  <2>4. /\ cst'[c] = IF again THEN "asleep" ELSE "failed"
        /\ slept'[c] = slept[c] + (IF again THEN numsec[c] ELSE 0)
        /\ numsec'[c] = 2 * numsec[c]
        /\ \A b \in Clients \ {c} : cst'[b] = cst[b] /\ slept'[b] = slept[b] /\ numsec'[b] = numsec[b]
    BY <1>1, <2>1 DEF UpTypeOK
  <2>5. slept[c] = numsec[c] - 1 /\ \E e \in Nat : numsec[c] * e = MAXSLEEP
    BY <1>1 DEF SleepRight
  <2>6. /\ again => \E h \in Nat : (2 * numsec[c]) * h = MAXSLEEP
        /\ ~again => numsec[c] = MAXSLEEP
    BY <2>2, <2>5, Doubled
  <2>7. SleepRight(c)'
    <3>1. CASE again
      <4>1. cst'[c] = "asleep" /\ slept'[c] = numsec'[c] - 1
        BY <2>2, <2>4, <2>5, <3>1
      <4>2. \E h \in Nat : numsec'[c] * h = MAXSLEEP
        BY <2>4, <2>6, <3>1
      <4> QED BY <4>1, <4>2 DEF SleepRight
    <3>2. CASE ~again
      BY <2>2, <2>4, <2>5, <2>6, <3>2 DEF SleepRight
    <3> QED BY <3>1, <3>2
  <2>8. LinesRight(c)'
    BY <1>1, <2>1, <2>4 DEF LinesRight, Awaits, Lines
  <2> HIDE DEF again
  <2> QED BY <1>1, <2>1, <2>3, <2>4, <2>7, <2>8, UptimeClient
<1> QED BY <1>2, <1>3

LEMMA UptimeAsks ==
  ASSUME UptimeInv, NEW c \in Clients, Up!Ask(c) \/ Up!Killed(c)
  PROVE  UptimeInv'
<1> USE DEF Up!server
<1>1. UpTypeOK /\ LinesRight(c) /\ SleepRight(c)
  BY DEF UptimeInv
<1>2. ASSUME NEW s \in {"start", "waiting", "rung", "done", "failed", "killed"}, cst' = [cst EXCEPT ![c] = s],
             UNCHANGED <<up_build, srv, cur, queue, stopped, eof, numsec, slept, line, up_got>>,
             s = "start" => cst[c] = "asleep",
             s # "start" => cst[c] # "asleep",
             s = "waiting" => cst[c] = "start",
             s = "rung" => cst[c] = "waiting",
             s = "done" => up_build # "dgram" /\ eof[c] /\ line[c] = 0,
             s = "failed" => up_build = "dgram"
      PROVE  UptimeInv'
  <2>1. UpTypeOK' /\ cst'[c] = s /\ \A b \in Clients \ {c} : cst'[b] = cst[b]
    BY <1>1, <1>2 DEF UpTypeOK
  <2>2. LinesRight(c)'
    BY <1>1, <1>2, <2>1 DEF UpTypeOK, LinesRight, Awaits, Lines
  <2>3. SleepRight(c)'
    BY <1>1, <1>2, <2>1 DEF SleepRight
  <2> QED BY <1>2, <2>1, <2>2, <2>3, UptimeClient
<1>3. CASE Up!connect_retry(c)
  BY <1>3, ConnectRetryStep
<1>4. CASE Up!Wake(c)
  BY <1>2, <1>4 DEF Up!Wake
<1>5. CASE Up!Killed(c)
  BY <1>2, <1>5 DEF Up!Killed
<1>6. ASSUME cst[c] = "waiting" \/ (cst[c] = "rung" /\ up_build = "dgram"), line[c] > 0,
             line' = [line EXCEPT ![c] = @ - 1], up_got' = [up_got EXCEPT ![c] = @ + 1],
             UNCHANGED <<up_build, srv, cur, queue, stopped, eof, numsec, slept>>,
             \/ up_build # "dgram" /\ UNCHANGED cst
             \/ up_build = "dgram" /\ cst' = [cst EXCEPT ![c] = "done"]
      PROVE  UptimeInv'
  <2>1. /\ UpTypeOK' /\ line'[c] = line[c] - 1 /\ up_got'[c] = up_got[c] + 1
        /\ cst'[c] = IF up_build = "dgram" THEN "done" ELSE "waiting"
        /\ \A b \in Clients \ {c} : cst'[b] = cst[b] /\ line'[b] = line[b] /\ up_got'[b] = up_got[b]
    <3>1. line[c] - 1 \in Nat
      BY <1>1, <1>6 DEF UpTypeOK
    <3>2. line' \in [Clients -> Nat] /\ up_got' \in [Clients -> Nat]
      BY <1>1, <1>6, <3>1 DEF UpTypeOK
    <3>3. cst' \in [Clients -> {"start", "asleep", "waiting", "rung", "done", "failed", "killed"}]
      BY <1>1, <1>6 DEF UpTypeOK
    <3> QED BY <1>1, <1>6, <3>2, <3>3 DEF UpTypeOK
  <2>2. line[c] \in Nat /\ up_got[c] \in Nat
    BY <1>1 DEF UpTypeOK
  <2>3. LinesRight(c)'
    BY <1>1, <1>6, <2>1, <2>2 DEF LinesRight, Awaits, Lines
  <2>4. SleepRight(c)'
    BY <1>6, <2>1 DEF SleepRight
  <2> QED BY <1>6, <2>1, <2>3, <2>4, UptimeClient
<1>7. CASE Up!print_uptime(c)
  <2>1. CASE line[c] > 0
    BY <1>6, <1>7, <2>1 DEF Up!print_uptime
  <2>2. CASE ~(line[c] > 0)
    <3>1. line[c] = 0
      BY <1>1, <2>2 DEF UpTypeOK
    <3> QED BY <1>2, <1>7, <2>2, <3>1 DEF Up!print_uptime
  <2> QED BY <2>1, <2>2
<1>8. CASE Up!Request(c)
  <2>1. CASE UNCHANGED queue
    BY <1>2, <1>8, <2>1 DEF Up!Request
  <2>2. CASE queue' = Append(queue, c)
    <3>1. cst[c] = "start" /\ up_build = "dgram" /\ cst' = [cst EXCEPT ![c] = "waiting"]
          /\ UNCHANGED <<up_build, srv, cur, stopped, eof, numsec, slept, line, up_got>>
      BY <1>8 DEF Up!Request
    <3>2. /\ UpTypeOK' /\ cst'[c] = "waiting" /\ \A b \in Clients \ {c} : cst'[b] = cst[b]
      BY <1>1, <2>2, <3>1 DEF UpTypeOK
    <3>3. LinesRight(c)' /\ SleepRight(c)'
      BY <1>1, <3>1, <3>2 DEF UpTypeOK, LinesRight, SleepRight, Lines
    <3> QED BY <2>2, <3>1, <3>2, <3>3, UptimeClient
  <2> QED BY <1>8, <2>1, <2>2 DEF Up!Request
<1>9. CASE Up!Receive(c)
  BY <1>2, <1>6, <1>9 DEF Up!Receive
<1> QED BY <1>3, <1>4, <1>5, <1>7, <1>8, <1>9 DEF Up!Ask

LEMMA UptimeNext == UptimeInv /\ [MCNext]_all => UptimeInv'
<1> SUFFICES ASSUME UptimeInv, [MCNext]_all PROVE UptimeInv'
  OBVIOUS
<1>1. CASE Up!Next
  BY <1>1, UptimeServes, UptimeAsks DEF Up!Next
<1>2. CASE UNCHANGED upVars
  BY <1>2 DEF upVars, UptimeInv, UpTypeOK, QueueRight, LinesRight, SleepRight, Awaits, Lines
<1> QED BY <1>1, <1>2 DEF MCNext, Runs, all

(* A client of the uptime service that ends well has the one line, unless  *)
(* the server died under it, and one that gives up connecting has waited   *)
(* for all of MAXSLEEP - 1 seconds.                                        *)
THEOREM UptimeAnswers == MCSpec => []UptimeRight
<1>1. MCInit => UptimeInv
  BY UptimeInit DEF MCInit
<1>2. UptimeInv => UptimeRight
  <2> SUFFICES ASSUME UptimeInv, NEW c \in Clients
               PROVE  /\ cst[c] = "done" => up_got[c] = 1 \/ (stopped /\ up_got[c] = 0)
                      /\ cst[c] = "failed" /\ up_build # "dgram" => slept[c] = MAXSLEEP - 1
    BY DEF UptimeRight, Up!AnswersRight
  <2>1. line[c] \in Nat /\ up_got[c] \in Nat /\ LinesRight(c) /\ SleepRight(c)
    BY DEF UptimeInv, UpTypeOK
  <2> QED BY <2>1 DEF LinesRight, SleepRight, Lines
<1> QED BY <1>1, <1>2, UptimeNext, PTL DEF MCSpec

-----------------------------------------------------------------------------
(* What is reached through links f, for any such function                  *)

ClosedIn(S, f, m) == m \in S \cup {NULL} /\ \A k \in S : f[k] \in S \cup {NULL}
Reaches(f, m) == {k \in Msgs : \A S \in SUBSET Msgs : ClosedIn(S, f, m) => k \in S}

LEMMA ReachesLeast ==
  ASSUME NEW f, NEW m, NEW S \in SUBSET Msgs, ClosedIn(S, f, m)
  PROVE  Reaches(f, m) \subseteq S
  BY DEF Reaches

LEMMA ReachesClosed ==
  ASSUME NEW f, NEW E \in SUBSET Msgs, NEW m \in E \cup {NULL}, \A k \in E : f[k] \in E \cup {NULL}
  PROVE  ClosedIn(Reaches(f, m), f, m) /\ Reaches(f, m) \subseteq E
<1>1. Reaches(f, m) \subseteq E
  BY ReachesLeast DEF ClosedIn
<1>2. m \in Reaches(f, m) \cup {NULL}
  BY DEF Reaches, ClosedIn
<1>3. ASSUME NEW k \in Reaches(f, m) PROVE f[k] \in Reaches(f, m) \cup {NULL}
  <2>1. k \in E /\ f[k] \in E \cup {NULL}
    BY <1>1
  <2>2. \A S \in SUBSET Msgs : ClosedIn(S, f, m) => k \in S
    BY DEF Reaches
  <2>3. \A S \in SUBSET Msgs : ClosedIn(S, f, m) => f[k] \in S \cup {NULL}
    BY <2>2 DEF ClosedIn
  <2> QED BY <2>1, <2>3 DEF Reaches
<1> QED BY <1>1, <1>2, <1>3 DEF ClosedIn

LEMMA ReachesFirst ==
  ASSUME NEW f, NEW E \in SUBSET Msgs, NEW m \in E, \A k \in E : f[k] \in E \cup {NULL}
  PROVE  Reaches(f, m) = {m} \cup Reaches(f, f[m])
<1> DEFINE R == Reaches(f, m)
           N == Reaches(f, f[m])
<1>1. ClosedIn(R, f, m) /\ R \subseteq E
  BY ReachesClosed
<1>2. ClosedIn(N, f, f[m]) /\ N \subseteq E
  BY ReachesClosed
<1> HIDE DEF R, N
<1>3. m \in R /\ ClosedIn(R, f, f[m])
  BY <1>1, MessageAssumption DEF ClosedIn
<1>4. N \subseteq R
  BY <1>1, <1>3, ReachesLeast DEF N
<1>5. ClosedIn({m} \cup N, f, m)
  BY <1>2 DEF ClosedIn
<1>6. R \subseteq {m} \cup N
  BY <1>2, <1>5, ReachesLeast DEF R
<1> QED BY <1>3, <1>4, <1>6 DEF R, N

LEMMA ReachesNone ==
  ASSUME NEW f PROVE Reaches(f, NULL) = {}
<1>1. ClosedIn({}, f, NULL)
  BY DEF ClosedIn
<1> QED BY <1>1, ReachesLeast

(* Links outside of a closed set do not matter in it.                      *)
LEMMA ReachesSame ==
  ASSUME NEW f, NEW g, NEW E \in SUBSET Msgs, NEW m \in E \cup {NULL},
         \A k \in E : f[k] \in E \cup {NULL} /\ g[k] = f[k]
  PROVE  Reaches(g, m) = Reaches(f, m)
<1>1. ClosedIn(Reaches(f, m), f, m) /\ Reaches(f, m) \subseteq E
  BY ReachesClosed
<1>2. ClosedIn(Reaches(g, m), g, m) /\ Reaches(g, m) \subseteq E
  BY ReachesClosed
<1>3. ClosedIn(Reaches(f, m), g, m) /\ ClosedIn(Reaches(g, m), f, m)
  BY <1>1, <1>2 DEF ClosedIn
<1> QED BY <1>1, <1>2, <1>3, ReachesLeast

LEMMA ListedReaches == Msg!Listed = Reaches(m_next, workq)
  BY DEF Msg!Listed, Msg!From, Msg!Closed, Reaches, ClosedIn

-----------------------------------------------------------------------------
(* The message queue.  Every message that was put in is in one place, the  *)
(* links of the others do not lead back to it, and what is in the queue    *)
(* has a signal to come or a thread that will look.                        *)

MsgTypeOK ==
  /\ enqueued \subseteq Msgs /\ workq \in enqueued \cup {NULL}
  /\ m_next \in [Msgs -> Msgs \cup {NULL}] /\ \A m \in enqueued : m_next[m] \in enqueued \cup {NULL}
  /\ wpc \in [Threads -> {"check", "waiting", "work"}]
  /\ mp \in [Threads -> Msgs \cup {NULL}] /\ \A t \in Threads : wpc[t] = "work" => mp[t] \in enqueued
  /\ msg_signals \in Nat /\ msg_handled \in [Msgs -> Nat]

NoCycle == \A m \in enqueued : m \notin Reaches(m_next, m_next[m])

InList(m) == m \in Reaches(m_next, workq)
WorksOn(t, m) == wpc[t] = "work" /\ mp[t] = m

OnePlace(m) ==
  /\ InList(m) \/ msg_handled[m] = 1 \/ \E t \in Threads : WorksOn(t, m)
  /\ InList(m) => msg_handled[m] = 0 /\ \A t \in Threads : ~WorksOn(t, m)
  /\ msg_handled[m] # 0 => msg_handled[m] = 1 /\ \A t \in Threads : ~WorksOn(t, m)
  /\ \A t, u \in Threads : WorksOn(t, m) /\ WorksOn(u, m) => t = u

SomebodyLooks ==
  workq # NULL => msg_signals > 0 \/ \E t \in Threads : wpc[t] # "waiting"

MsgInv ==
  /\ MsgTypeOK /\ NoCycle /\ SomebodyLooks
  /\ \A m \in enqueued : OnePlace(m)
  /\ \A m \in Msgs \ enqueued : msg_handled[m] = 0

LEMMA MsgInit == Msg!Init => MsgInv
  BY DEF Msg!Init, MsgInv, MsgTypeOK, NoCycle, SomebodyLooks, OnePlace

LEMMA EnqueueStep ==
  ASSUME MsgInv, NEW m \in Msgs, Msg!enqueue_msg(m)
  PROVE  MsgInv'
<1>1. /\ m \notin enqueued /\ m_next' = [m_next EXCEPT ![m] = workq] /\ workq' = m
      /\ enqueued' = enqueued \cup {m} /\ msg_signals' = msg_signals + 1
      /\ UNCHANGED <<wpc, mp, msg_handled>> /\ MsgTypeOK /\ NoCycle /\ m # NULL
  BY MessageAssumption DEF MsgInv, Msg!enqueue_msg
<1>2. /\ m_next'[m] = workq /\ \A k \in Msgs \ {m} : m_next'[k] = m_next[k]
      /\ enqueued \in SUBSET Msgs /\ enqueued' \in SUBSET Msgs
      /\ \A k \in enqueued : m_next'[k] = m_next[k] /\ m_next[k] \in enqueued \cup {NULL}
  BY <1>1 DEF MsgTypeOK
<1>3. MsgTypeOK'
  BY <1>1, <1>2 DEF MsgTypeOK
<1>4. \A x \in enqueued \cup {NULL} : Reaches(m_next', x) = Reaches(m_next, x)
  BY <1>2, ReachesSame
<1>5. \A x \in enqueued \cup {NULL} : Reaches(m_next, x) \subseteq enqueued
  BY <1>2, ReachesClosed
<1>6. workq \in enqueued \cup {NULL}
  BY <1>1 DEF MsgTypeOK
<1>7. Reaches(m_next', workq') = {m} \cup Reaches(m_next, workq)
  <2>1. m \in enqueued' /\ \A k \in enqueued' : m_next'[k] \in enqueued' \cup {NULL}
    BY <1>1, <1>3 DEF MsgTypeOK
  <2>2. Reaches(m_next', m) = {m} \cup Reaches(m_next', m_next'[m])
    BY <1>2, <2>1, ReachesFirst
  <2> QED BY <1>1, <1>2, <1>4, <1>6, <2>2
<1>8. NoCycle'
  <2>1. m \notin Reaches(m_next', m_next'[m])
    BY <1>1, <1>2, <1>4, <1>5, <1>6
  <2>2. \A k \in enqueued : k \notin Reaches(m_next', m_next'[k])
    BY <1>1, <1>2, <1>4 DEF NoCycle
  <2> QED BY <1>1, <2>1, <2>2 DEF NoCycle
<1>9. ASSUME NEW k \in enqueued PROVE OnePlace(k)'
  <2>1. OnePlace(k) /\ (InList(k)' <=> InList(k)) /\ \A t \in Threads : WorksOn(t, k)' <=> WorksOn(t, k)
    BY <1>1, <1>7 DEF MsgInv, InList, WorksOn
  <2> QED BY <1>1, <2>1 DEF OnePlace
<1>10. OnePlace(m)'
  <2>1. msg_handled'[m] = 0 /\ InList(m)' /\ \A t \in Threads : ~WorksOn(t, m)'
    BY <1>1, <1>7 DEF MsgInv, MsgTypeOK, InList, WorksOn
  <2> QED BY <2>1 DEF OnePlace
<1>11. SomebodyLooks'
  BY <1>1 DEF SomebodyLooks, MsgTypeOK
<1> QED BY <1>1, <1>3, <1>8, <1>9, <1>10, <1>11 DEF MsgInv

(* A thread takes the first message, or handles the one it has.            *)
LEMMA ThreadMoves ==
  ASSUME MsgInv, NEW t \in Threads, NEW s \in {"check", "waiting"}, wpc[t] # "work",
         wpc' = [wpc EXCEPT ![t] = s],
         UNCHANGED <<workq, m_next, mp, enqueued, msg_handled>>,
         msg_signals' \in Nat,
         workq # NULL => msg_signals' > 0 \/ s = "check"
  PROVE  MsgInv'
<1>1. MsgTypeOK /\ NoCycle
  BY DEF MsgInv
<1>2. wpc'[t] = s /\ \A u \in Threads \ {t} : wpc'[u] = wpc[u]
  BY <1>1 DEF MsgTypeOK
<1>3. MsgTypeOK' /\ NoCycle' /\ SomebodyLooks'
  BY <1>1, <1>2 DEF MsgTypeOK, NoCycle, SomebodyLooks
<1>4. ASSUME NEW m \in enqueued PROVE OnePlace(m)'
  <2>1. OnePlace(m) /\ (InList(m)' <=> InList(m)) /\ \A u \in Threads : WorksOn(u, m)' <=> WorksOn(u, m)
    BY <1>2 DEF MsgInv, InList, WorksOn
  <2> QED BY <2>1 DEF OnePlace
<1> QED BY <1>3, <1>4 DEF MsgInv

LEMMA ProcessStep ==
  ASSUME MsgInv, NEW t \in Threads, Msg!process_msg(t)
  PROVE  MsgInv'
<1>1. /\ wpc[t] = "check" /\ UNCHANGED <<m_next, enqueued, msg_signals, msg_handled>>
      /\ MsgTypeOK /\ NoCycle
  BY DEF MsgInv, Msg!process_msg
<1>2. CASE workq = NULL
  BY <1>1, <1>2, ThreadMoves DEF Msg!process_msg, MsgTypeOK
<1>3. CASE workq # NULL
  <2>1. /\ mp' = [mp EXCEPT ![t] = workq] /\ workq' = m_next[workq]
        /\ wpc' = [wpc EXCEPT ![t] = "work"] /\ workq \in enqueued
        /\ enqueued \in SUBSET Msgs /\ \A k \in enqueued : m_next[k] \in enqueued \cup {NULL}
    BY <1>1, <1>3 DEF Msg!process_msg, MsgTypeOK
  <2>2. /\ wpc'[t] = "work" /\ mp'[t] = workq
        /\ \A u \in Threads \ {t} : wpc'[u] = wpc[u] /\ mp'[u] = mp[u]
    BY <1>1, <2>1 DEF MsgTypeOK
  <2>3. MsgTypeOK'
    <3>1. wpc' \in [Threads -> {"check", "waiting", "work"}] /\ mp' \in [Threads -> Msgs \cup {NULL}]
      BY <1>1, <2>1 DEF MsgTypeOK
    <3>2. \A u \in Threads : wpc'[u] = "work" => mp'[u] \in enqueued
      BY <1>1, <2>1, <2>2 DEF MsgTypeOK
    <3> QED BY <1>1, <2>1, <3>1, <3>2 DEF MsgTypeOK
  <2>4. NoCycle' /\ SomebodyLooks'
    BY <1>1, <2>2 DEF NoCycle, SomebodyLooks
  <2>5. Reaches(m_next, workq) = {workq} \cup Reaches(m_next', workq') /\ workq \notin Reaches(m_next', workq')
    BY <1>1, <2>1, ReachesFirst DEF NoCycle
  <2>6. ASSUME NEW m \in enqueued PROVE OnePlace(m)'
    <3>1. OnePlace(m)
      BY DEF MsgInv
    <3>2. CASE m = workq
      <4>1. InList(m) /\ ~InList(m)'
        BY <2>5, <3>2 DEF InList
      <4>2. \A u \in Threads : WorksOn(u, m)' <=> u = t
        BY <2>2, <3>1, <3>2, <4>1 DEF OnePlace, WorksOn
      <4> QED BY <1>1, <3>1, <4>1, <4>2 DEF OnePlace
    <3>3. CASE m # workq
      <4>1. InList(m)' <=> InList(m)
        BY <2>5, <3>3 DEF InList
      <4>2. \A u \in Threads : WorksOn(u, m)' <=> WorksOn(u, m)
        BY <1>1, <2>2, <3>3 DEF WorksOn
      <4> QED BY <1>1, <3>1, <4>1, <4>2 DEF OnePlace
    <3> QED BY <3>2, <3>3
  <2> QED BY <1>1, <2>3, <2>4, <2>6 DEF MsgInv
<1> QED BY <1>2, <1>3

LEMMA WorkStep ==
  ASSUME MsgInv, NEW t \in Threads, Msg!Work(t)
  PROVE  MsgInv'
<1>1. /\ wpc[t] = "work" /\ wpc' = [wpc EXCEPT ![t] = "check"]
      /\ msg_handled' = [msg_handled EXCEPT ![mp[t]] = @ + 1]
      /\ UNCHANGED <<workq, m_next, mp, enqueued, msg_signals>>
      /\ MsgTypeOK /\ NoCycle /\ mp[t] \in enqueued /\ enqueued \subseteq Msgs
  BY DEF MsgInv, Msg!Work, MsgTypeOK
<1>2. /\ wpc'[t] = "check" /\ \A u \in Threads \ {t} : wpc'[u] = wpc[u]
      /\ msg_handled'[mp[t]] = msg_handled[mp[t]] + 1
      /\ \A m \in Msgs \ {mp[t]} : msg_handled'[m] = msg_handled[m]
  BY <1>1 DEF MsgTypeOK
<1>3. MsgTypeOK' /\ NoCycle' /\ SomebodyLooks'
  <2>1. msg_handled' \in [Msgs -> Nat] /\ wpc' \in [Threads -> {"check", "waiting", "work"}]
    BY <1>1 DEF MsgTypeOK
  <2> QED BY <1>1, <1>2, <2>1 DEF MsgTypeOK, NoCycle, SomebodyLooks
<1>4. ASSUME NEW m \in enqueued PROVE OnePlace(m)'
  <2>1. OnePlace(m) /\ (InList(m)' <=> InList(m))
    BY <1>1 DEF MsgInv, InList
  <2>2. CASE m = mp[t]
    <3>1. WorksOn(t, m) /\ msg_handled[m] = 0 /\ ~InList(m)
      BY <1>1, <2>1, <2>2 DEF OnePlace, WorksOn
    <3>2. \A u \in Threads : ~WorksOn(u, m)'
      BY <1>1, <1>2, <2>1, <3>1 DEF OnePlace, WorksOn
    <3> QED BY <1>2, <2>1, <2>2, <3>1, <3>2 DEF OnePlace
  <2>3. CASE m # mp[t]
    <3>1. \A u \in Threads : WorksOn(u, m)' <=> WorksOn(u, m)
      BY <1>1, <1>2, <2>3 DEF WorksOn
    <3> QED BY <1>1, <1>2, <2>1, <2>3, <3>1 DEF OnePlace
  <2> QED BY <2>2, <2>3
<1>5. \A m \in Msgs \ enqueued : msg_handled'[m] = 0
  BY <1>1, <1>2 DEF MsgInv
<1> QED BY <1>1, <1>3, <1>4, <1>5 DEF MsgInv

LEMMA SignalStep == ASSUME MsgInv, Msg!Signal PROVE MsgInv'
<1>1. /\ msg_signals' = msg_signals - 1 /\ msg_signals' \in Nat
      /\ UNCHANGED <<workq, m_next, mp, enqueued, msg_handled>> /\ MsgTypeOK
  BY DEF MsgInv, MsgTypeOK, Msg!Signal
<1>2. CASE Msg!Waiters = {}
  <2>1. wpc' = wpc /\ \A t \in Threads : wpc[t] # "waiting"
    BY <1>2 DEF Msg!Signal, Msg!Waiters
  <2>2. MsgTypeOK' /\ NoCycle' /\ SomebodyLooks'
    BY <1>1, <2>1, MessageAssumption DEF MsgInv, MsgTypeOK, NoCycle, SomebodyLooks
  <2>3. \A m \in enqueued : OnePlace(m)'
    BY <1>1, <2>1 DEF MsgInv, OnePlace, InList, WorksOn
  <2> QED BY <1>1, <2>2, <2>3 DEF MsgInv
<1>3. CASE Msg!Waiters # {}
  <2>1. PICK t \in Threads : wpc[t] = "waiting" /\ wpc' = [wpc EXCEPT ![t] = "check"]
    BY <1>3 DEF Msg!Signal, Msg!Waiters
  <2> QED BY <1>1, <2>1, ThreadMoves
<1> QED BY <1>2, <1>3

LEMMA MsgNext == MsgInv /\ [MCNext]_all => MsgInv'
<1> SUFFICES ASSUME MsgInv, [MCNext]_all PROVE MsgInv'
  OBVIOUS
<1>1. ASSUME NEW t \in Threads, Msg!Spurious(t) PROVE MsgInv'
  BY <1>1, ThreadMoves DEF Msg!Spurious, MsgInv, MsgTypeOK
<1>2. CASE Msg!Next
  BY <1>1, <1>2, EnqueueStep, SignalStep, ProcessStep, WorkStep DEF Msg!Next
<1>3. CASE UNCHANGED msgVars
  <2>1. MsgTypeOK' /\ NoCycle' /\ SomebodyLooks'
    BY <1>3 DEF msgVars, MsgInv, MsgTypeOK, NoCycle, SomebodyLooks
  <2>2. \A m \in enqueued : OnePlace(m)'
    BY <1>3 DEF msgVars, MsgInv, OnePlace, InList, WorksOn
  <2> QED BY <1>3, <2>1, <2>2 DEF msgVars, MsgInv
<1> QED BY <1>2, <1>3 DEF MCNext, Runs, all

LEMMA OneCardinality == ASSUME NEW S PROVE Msg!Cardinality(S) = Cardinality(S)
  BY DEF Msg!Cardinality, Cardinality

(* Every message that was put into the queue is in it, with one thread, or *)
(* processed, and only once; and none stays behind while all threads sleep *)
(* and no signal is to come.                                               *)
THEOREM MessagesAreKept == MCSpec => []MessagesKept
<1>1. MCInit => MsgInv
  BY MsgInit DEF MCInit
<1>2. ASSUME MsgInv, NEW m \in enqueued
      PROVE  msg_handled[m] + Cardinality({t \in Threads : wpc[t] = "work" /\ mp[t] = m})
               + Cardinality({m} \cap Msg!Listed) = 1
  <2> DEFINE W == {t \in Threads : WorksOn(t, m)}
             L == {m} \cap Msg!Listed
  <2>1. OnePlace(m) /\ msg_handled[m] \in Nat
    BY <1>2 DEF MsgInv, MsgTypeOK
  <2>2. Cardinality(L) = IF InList(m) THEN 1 ELSE 0
    <3>1. L = IF InList(m) THEN {m} ELSE {}
      BY ListedReaches DEF InList
    <3> QED BY <3>1, FS_Singleton, FS_EmptySet
  <2>3. Cardinality(W) = IF \E t \in Threads : WorksOn(t, m) THEN 1 ELSE 0
    <3>1. CASE \E t \in Threads : WorksOn(t, m)
      <4>1. PICK t \in Threads : WorksOn(t, m)
        BY <3>1
      <4>2. W = {t}
        BY <2>1, <4>1 DEF OnePlace
      <4> QED BY <3>1, <4>2, FS_Singleton
    <3>2. CASE ~\E t \in Threads : WorksOn(t, m)
      <4>1. W = {}
        BY <3>2
      <4> QED BY <3>2, <4>1, FS_EmptySet
    <3> QED BY <3>1, <3>2
  <2>4. msg_handled[m] + Cardinality(W) + Cardinality(L) = 1
    <3> HIDE DEF W, L
    <3> QED BY <2>1, <2>2, <2>3 DEF OnePlace
  <2> QED BY <2>4 DEF WorksOn
<1>3. MsgInv => MessagesKept
  <2> SUFFICES ASSUME MsgInv PROVE Msg!MessagesKept
    BY DEF MessagesKept
  <2>1. msg_signals = 0 /\ (\A t \in Threads : wpc[t] = "waiting") => workq = NULL
    BY DEF MsgInv, SomebodyLooks
  <2>2. \A m \in enqueued :
          msg_handled[m] + Cardinality({t \in Threads : wpc[t] = "work" /\ mp[t] = m})
            + Cardinality({m} \cap Msg!Listed) = 1
    BY <1>2
  <2> QED BY <2>1, <2>2, OneCardinality DEF Msg!MessagesKept
<1> QED BY <1>1, <1>3, MsgNext, PTL DEF MCSpec

-----------------------------------------------------------------------------
(* The memory streams                                                      *)

LEMMA LeastNat ==
  ASSUME NEW T \in SUBSET Nat, T # {}
  PROVE  \E x \in T : \A y \in T : x <= y
<1> DEFINE R == OpToRel(<, Nat)
<1>1. IsWellFoundedOn(R, Nat)
  BY NatLessThanWellFounded
<1>2. \A x, y \in Nat : x < y => <<x, y>> \in R
  BY DEF OpToRel
<1> HIDE DEF R
<1>3. PICK x \in T : \A y \in T : ~(<<y, x>> \in R)
  BY <1>1, WFMin
<1>4. ASSUME NEW y \in T PROVE x <= y
  <2>1. ~(y < x) /\ x \in Nat /\ y \in Nat
    BY <1>2, <1>3
  <2> QED BY <2>1
<1> QED BY <1>4

Byte == Bytes \cup {0}
Flags == {"READ", "WRITE", "TRUNCATE", "APPEND", "MYBUF"}

MemTypeOK ==
  /\ user \in [1 .. Mem!Most -> Byte] /\ wrote \in BOOLEAN
  /\ ms \in [flags : SUBSET Flags, mine : Seq(Byte), rsize : Nat, vsize : Nat, curpos : Nat]

(* The memory is there, and the positions are inside; a stream that        *)
(* appends has no null byte in its text, except over its last byte.        *)
Inside ==
  /\ ms.rsize <= Len(Mem!Buf) /\ ms.curpos <= ms.vsize /\ ms.vsize <= ms.rsize
  /\ Mem!Open => ms.rsize > 0
TextFull ==
  Mem!Open /\ Mem!Has("APPEND") => \A n \in 1 .. ms.vsize : Mem!Buf[n] # 0 \/ n = ms.rsize
StringThere ==
  Mem!Open /\ wrote /\ ~Mem!Has("READ") => \E n \in 1 .. ms.rsize : Mem!Buf[n] = 0

MemInv == MemTypeOK /\ Inside /\ TextFull /\ StringThere

LEMMA MostIs == Mem!Most \in Nat /\ \A k \in Sizes : k \in Nat /\ k <= Mem!Most
<1>1. \E n \in Sizes : \A k \in Sizes : k <= n
  BY MemoryAssumption
<1>2. Mem!Most \in Sizes /\ \A k \in Sizes : k <= Mem!Most
  BY <1>1 DEF Mem!Most
<1> QED BY <1>2, MemoryAssumption

LEMMA BufSeq ==
  ASSUME MemTypeOK
  PROVE  Mem!Buf \in Seq(Byte) /\ (~Mem!Has("MYBUF") => Len(Mem!Buf) = Mem!Most)
<1>1. user \in Seq(Byte) /\ Len(user) = Mem!Most
  BY MostIs DEF MemTypeOK
<1> QED BY <1>1 DEF MemTypeOK, Mem!Buf

(* find_end is the place behind the text.                                  *)
LEMMA FindEnd ==
  ASSUME NEW b, NEW len \in Nat
  PROVE  /\ Mem!find_end(b, len) \in 0 .. len
         /\ \A k \in 1 .. Mem!find_end(b, len) : b[k] # 0
<1> DEFINE T == {n \in 0 .. len : n = len \/ b[n + 1] = 0}
<1>1. PICK n \in T : \A m \in T : n <= m
  <2>1. T \in SUBSET Nat /\ len \in T
    OBVIOUS
  <2> QED BY <2>1, LeastNat
<1>2. ASSUME NEW k \in 1 .. n PROVE b[k] # 0
  <2>1. k - 1 \in 0 .. len /\ k - 1 < n /\ (k - 1) + 1 = k
    BY <1>1
  <2>2. k - 1 \notin T
    BY <1>1, <2>1
  <2> QED BY <2>1, <2>2
<1>3. \E m \in 0 .. len : (m = len \/ b[m + 1] = 0) /\ \A k \in 1 .. m : b[k] # 0
  BY <1>1, <1>2
<1> QED BY <1>3 DEF Mem!find_end

LEMMA FlagsOf ==
  ASSUME NEW type
  PROVE  Mem!type_to_flags(type) \subseteq {"READ", "WRITE", "TRUNCATE", "APPEND"}
<1> DEFINE of == [r |-> {"READ"}, w |-> {"WRITE", "TRUNCATE"}, a |-> {"APPEND"},
                  plus |-> {"READ", "WRITE"}, b |-> {}]
           Legal(n) == IF n = 1 THEN type[n] \in {"r", "w", "a"} ELSE type[n] \in {"plus", "b"}
<1>1. \A x \in {"r", "w", "a", "plus", "b"} : of[x] \subseteq {"READ", "WRITE", "TRUNCATE", "APPEND"}
  OBVIOUS
<1>2. \A n : Legal(n) => type[n] \in {"r", "w", "a", "plus", "b"}
  OBVIOUS
<1>3. Mem!type_to_flags(type)
        = IF \A n \in DOMAIN type : Legal(n) THEN UNION {of[type[n]] : n \in DOMAIN type} ELSE {}
  BY DEF Mem!type_to_flags
<1> HIDE DEF of, Legal
<1> QED BY <1>1, <1>2, <1>3

LEMMA MemInit == Mem!Init => MemInv
<1> SUFFICES ASSUME Mem!Init PROVE MemInv
  OBVIOUS
<1>1. /\ ms = [flags |-> {}, mine |-> <<>>, rsize |-> 0, vsize |-> 0, curpos |-> 0]
      /\ wrote = FALSE /\ user \in [1 .. Mem!Most -> {0, CHOOSE b \in Bytes : TRUE}]
  BY DEF Mem!Init, Mem!Closed
<1>2. (CHOOSE b \in Bytes : TRUE) \in Bytes
  BY MemoryAssumption
<1>3. MemTypeOK
  <2>1. user \in [1 .. Mem!Most -> Byte]
    BY <1>1, <1>2 DEF Byte
  <2>2. <<>> \in Seq(Byte) /\ {} \in SUBSET Flags /\ 0 \in Nat
    OBVIOUS
  <2>3. ms \in [flags : SUBSET Flags, mine : Seq(Byte), rsize : Nat, vsize : Nat, curpos : Nat]
    BY <1>1, <2>2
  <2> QED BY <1>1, <2>1, <2>3 DEF MemTypeOK
<1>4. Len(Mem!Buf) \in Nat /\ ms.flags = {} /\ ms.rsize = 0 /\ ms.vsize = 0 /\ ms.curpos = 0
  BY <1>1, <1>3, BufSeq
<1> QED BY <1>3, <1>4 DEF MemInv, Inside, TextFull, StringThere, Mem!Open

(* A stream is opened: on the memory of the program, or on its own.        *)
LEMMA OpenStep ==
  ASSUME MemInv, NEW own \in BOOLEAN, NEW size \in Sizes, NEW type, Mem!fmemopen(own, size, type)
  PROVE  MemInv'
<1> DEFINE flags == Mem!type_to_flags(type)
           end == IF ~own /\ "APPEND" \in flags THEN Mem!find_end(user, size) ELSE 0
           all0 == [n \in 1 .. size |-> 0]
<1>1. CASE UNCHANGED <<user, ms, wrote>>
  BY <1>1 DEF MemInv, MemTypeOK, Inside, TextFull, StringThere, Mem!Open, Mem!Has, Mem!Buf
<1>2. CASE ~UNCHANGED <<user, ms, wrote>>
  <2>1. /\ ms' = [flags |-> IF own THEN flags \cup {"MYBUF"} ELSE flags,
                  mine |-> IF own THEN all0 ELSE <<>>,
                  rsize |-> size, curpos |-> end,
                  vsize |-> CASE "APPEND" \in flags -> end
                              [] {"APPEND", "TRUNCATE"} \cap flags = {} -> size
                              [] OTHER -> 0]
        /\ size # 0 /\ wrote' = FALSE /\ user' = user
    BY <1>2 DEF Mem!fmemopen, Mem!Fails
  <2>2. size \in Nat /\ size > 0 /\ size <= Mem!Most
    BY <2>1, MostIs
  <2>3. flags \subseteq {"READ", "WRITE", "TRUNCATE", "APPEND"}
    BY FlagsOf
  <2>4. end \in 0 .. size /\ (~own => \A k \in 1 .. end : user[k] # 0) /\ (own => end = 0)
    BY <2>2, FindEnd
  <2>5. all0 \in Seq(Byte) /\ Len(all0) = size /\ <<>> \in Seq(Byte)
    BY <2>2 DEF Byte
  <2> HIDE DEF flags, end, all0
  <2>6. /\ ms'.flags = (IF own THEN flags \cup {"MYBUF"} ELSE flags)
        /\ ms'.mine = (IF own THEN all0 ELSE <<>>)
        /\ ms'.rsize = size /\ ms'.curpos = end
        /\ ms'.vsize \in {end, size, 0} /\ ms'.vsize >= end /\ ms'.vsize <= size
        /\ "APPEND" \in flags => ms'.vsize = end
    <3>1. "APPEND" \notin flags => end = 0
      BY DEF end
    <3> QED BY <2>1, <2>2, <2>4, <3>1
  <2>7. MemTypeOK'
    <3>1. ms' \in [flags : SUBSET Flags, mine : Seq(Byte), rsize : Nat, vsize : Nat, curpos : Nat]
      <4>1. (IF own THEN flags \cup {"MYBUF"} ELSE flags) \in SUBSET Flags
        BY <2>3 DEF Flags
      <4>2. (IF own THEN all0 ELSE <<>>) \in Seq(Byte)
        BY <2>5
      <4>3. /\ (CASE "APPEND" \in flags -> end
                  [] {"APPEND", "TRUNCATE"} \cap flags = {} -> size
                  [] OTHER -> 0) \in Nat
            /\ size \in Nat /\ end \in Nat
        BY <2>2, <2>4
      <4> QED BY <2>1, <4>1, <4>2, <4>3
    <3> QED BY <2>1, <3>1 DEF MemTypeOK, MemInv
  <2>8. /\ own => Mem!Buf' = all0
        /\ ~own => Mem!Buf' = user
    <3>1. own => "MYBUF" \in ms'.flags
      BY <2>6
    <3>2. ~own => "MYBUF" \notin ms'.flags
      BY <2>3, <2>6
    <3> QED BY <2>1, <2>6, <3>1, <3>2 DEF Mem!Buf, Mem!Has
  <2>9. Inside'
    <3>1. Len(user) = Mem!Most
      BY MostIs DEF MemInv, MemTypeOK
    <3> QED BY <2>2, <2>4, <2>5, <2>6, <2>8, <3>1 DEF Inside
  <2>10. TextFull'
    <3>1. ASSUME Mem!Has("APPEND")' PROVE \A n \in 1 .. ms'.vsize : Mem!Buf'[n] # 0 \/ n = ms'.rsize
      <4>1. "APPEND" \in flags
        BY <2>6, <3>1 DEF Mem!Has
      <4> QED BY <2>4, <2>6, <2>8, <4>1
    <3> QED BY <3>1 DEF TextFull
  <2>11. StringThere'
    BY <2>1 DEF StringThere
  <2> QED BY <2>7, <2>9, <2>10, <2>11 DEF MemInv
<1> QED BY <1>1, <1>2

(* The position alone moves, inside the text.                              *)
LEMMA PositionMoves ==
  ASSUME MemInv, UNCHANGED <<user, wrote>>, NEW p \in 0 .. ms.vsize,
         ms' = [ms EXCEPT !.curpos = p]
  PROVE  MemInv'
<1>1. /\ ms'.flags = ms.flags /\ ms'.mine = ms.mine /\ ms'.rsize = ms.rsize
      /\ ms'.vsize = ms.vsize /\ ms'.curpos = p
  BY DEF MemInv, MemTypeOK
<1>2. p \in Nat /\ ms.vsize \in Nat
  BY DEF MemInv, MemTypeOK
<1>3. MemTypeOK'
  BY <1>2 DEF MemInv, MemTypeOK
<1> QED
  BY <1>1, <1>2, <1>3 DEF MemInv, Inside, TextFull, StringThere, Mem!Open, Mem!Has, Mem!Buf

LEMMA ReadStep ==
  ASSUME MemInv, NEW n \in Nat, Mem!mstream_read(n) PROVE MemInv'
<1>1. CASE ms' = ms
  BY <1>1 DEF MemInv, MemTypeOK, Inside, TextFull, StringThere, Mem!Open, Mem!Has, Mem!Buf,
    Mem!mstream_read
<1>2. CASE ms' # ms
  <2> DEFINE to == Mem!Least(ms.curpos + n, ms.vsize)
  <2>1. /\ answer' = SubSeq(Mem!Buf, ms.curpos + 1, to)
        /\ ms' = [ms EXCEPT !.curpos = ms.curpos + Len(answer')]
        /\ UNCHANGED <<user, wrote>>
    BY <1>2 DEF Mem!mstream_read
  <2>2. ms.curpos \in Nat /\ ms.vsize \in Nat /\ ms.curpos <= ms.vsize
    BY DEF MemInv, MemTypeOK, Inside
  <2>3. to \in Nat /\ ms.curpos <= to /\ to <= ms.vsize
    BY <2>2 DEF Mem!Least
  <2>4. Mem!Buf \in Seq(Byte) /\ ms.vsize <= Len(Mem!Buf)
    BY BufSeq DEF MemInv, Inside, MemTypeOK
  <2> HIDE DEF to
  <2>5. Len(answer') = to - ms.curpos
    BY <2>1, <2>2, <2>3, <2>4
  <2>6. ms.curpos + Len(answer') \in 0 .. ms.vsize
    BY <2>2, <2>3, <2>5
  <2> QED BY <2>1, <2>6, PositionMoves
<1> QED BY <1>1, <1>2

LEMMA SeekStep ==
  ASSUME MemInv, NEW p \in Int, NEW whence \in {"SET", "END", "CUR"}, Mem!mstream_seek(p, whence)
  PROVE  MemInv'
<1> DEFINE off == CASE whence = "SET" -> p
                    [] whence = "END" -> ms.vsize + p
                    [] whence = "CUR" -> ms.curpos + p
<1>1. ms.curpos \in Nat /\ ms.vsize \in Nat
  BY DEF MemInv, MemTypeOK
<1>2. off \in Int
  BY <1>1
<1>3. /\ IF off < 0 \/ off > ms.vsize THEN UNCHANGED ms ELSE ms' = [ms EXCEPT !.curpos = off]
      /\ UNCHANGED <<user, wrote>>
  BY DEF Mem!mstream_seek
<1> HIDE DEF off
<1>4. CASE off \in 0 .. ms.vsize
  <2>1. ms' = [ms EXCEPT !.curpos = off]
    BY <1>1, <1>2, <1>3, <1>4
  <2> QED BY <1>3, <1>4, <2>1, PositionMoves
<1>5. CASE off \notin 0 .. ms.vsize
  <2>1. UNCHANGED ms
    BY <1>1, <1>2, <1>3, <1>5
  <2> QED
    BY <1>3, <2>1 DEF MemInv, MemTypeOK, Inside, TextFull, StringThere, Mem!Open, Mem!Has, Mem!Buf
<1> QED BY <1>4, <1>5

LEMMA DataIs ==
  ASSUME NEW d \in Mem!File!Data
  PROVE  /\ d \in Seq(Byte) /\ Len(d) \in Nat
         /\ \A n \in 1 .. Len(d) : d[n] \in Byte /\ d[n] # 0
<1>1. PICK len \in 0 .. MaxLen : d \in [1 .. len -> Bytes]
  BY DEF Mem!File!Data
<1>2. len \in Nat
  BY MemoryAssumption
<1>3. Len(d) = len /\ d \in Seq(Bytes)
  BY <1>1, <1>2
<1>4. \A n \in 1 .. len : d[n] \in Bytes
  BY <1>1
<1> QED BY <1>2, <1>3, <1>4, MemoryAssumption DEF Byte

(* A write: where it begins, how much fits, where it ends, and what it     *)
(* leaves at place k, the null byte of Terminated or what was put there.   *)
At == IF Mem!Has("APPEND") THEN ms.vsize ELSE ms.curpos
Fits(d) == Mem!Least(Len(d), ms.rsize - At)
End(d) == At + Fits(d)
Put(d, k) == IF k \in At + 1 .. End(d) THEN d[k - At] ELSE Mem!Buf[k]
Ended(d, k) ==
  \/ /\ {"READ", "WRITE"} \subseteq ms.flags /\ End(d) > ms.vsize
     /\ k = End(d) + 1 /\ End(d) < ms.rsize
  \/ ~Mem!Has("READ") /\ k = (IF End(d) < ms.rsize THEN End(d) + 1 ELSE ms.rsize)

LEMMA WriteIs ==
  ASSUME MemInv, NEW d \in Mem!File!Data, Mem!mstream_write(d),
         ms.flags \cap {"APPEND", "WRITE"} # {}
  PROVE  /\ At \in Nat /\ At <= ms.vsize /\ (Mem!Has("APPEND") => At = ms.vsize)
         /\ Fits(d) \in Nat /\ Fits(d) <= Len(d) /\ End(d) <= ms.rsize /\ ms.rsize > 0
         /\ ms'.flags = ms.flags /\ ms'.rsize = ms.rsize /\ ms'.curpos = End(d)
         /\ ms'.vsize = IF End(d) > ms.vsize THEN End(d) ELSE ms.vsize
         /\ user' = IF Mem!Has("MYBUF") THEN user ELSE Mem!Buf'
         /\ answer' = <<Fits(d)>> /\ wrote' = TRUE
         /\ MemTypeOK' /\ Mem!Buf' \in Seq(Byte) /\ Len(Mem!Buf') = Len(Mem!Buf)
         /\ \A k \in 1 .. Len(Mem!Buf) : Mem!Buf'[k] = IF Ended(d, k) THEN 0 ELSE Put(d, k)
<1> DEFINE b == [k \in DOMAIN Mem!Buf |-> IF Ended(d, k) THEN 0 ELSE Put(d, k)]
<1>1. /\ ms' = [ms EXCEPT !.curpos = End(d),
                          !.vsize = IF End(d) > ms.vsize THEN End(d) ELSE ms.vsize,
                          !.mine = IF Mem!Has("MYBUF") THEN b ELSE ms.mine]
      /\ user' = IF Mem!Has("MYBUF") THEN user ELSE b
      /\ answer' = <<Fits(d)>> /\ wrote' = TRUE /\ Mem!Open
  <2> DEFINE put_ == [n \in DOMAIN Mem!Buf |->
                        IF n \in At + 1 .. End(d) THEN d[n - At] ELSE Mem!Buf[n]]
  <2>1. /\ ms' = [ms EXCEPT !.curpos = End(d),
                            !.vsize = IF End(d) > ms.vsize THEN End(d) ELSE ms.vsize,
                            !.mine = IF Mem!Has("MYBUF") THEN Mem!Terminated(put_, End(d), ms.vsize)
                                     ELSE ms.mine]
        /\ user' = IF Mem!Has("MYBUF") THEN user ELSE Mem!Terminated(put_, End(d), ms.vsize)
        /\ answer' = <<Fits(d)>> /\ wrote' = TRUE /\ Mem!Open
    BY DEF Mem!mstream_write, Mem!Call, MemInv, MemTypeOK, At, Fits, End
  <2>2. Mem!Terminated(put_, End(d), ms.vsize) = b
    BY DEF Mem!Terminated, Ended, Put
  <2> QED BY <2>1, <2>2
<1>2. /\ ms.rsize \in Nat /\ ms.vsize \in Nat /\ ms.curpos \in Nat /\ ms.flags \in SUBSET Flags
      /\ ms.curpos <= ms.vsize /\ ms.vsize <= ms.rsize /\ ms.rsize <= Len(Mem!Buf)
      /\ ms.rsize > 0
  BY <1>1 DEF MemInv, MemTypeOK, Inside
<1>3. /\ Mem!Buf \in Seq(Byte) /\ Len(Mem!Buf) \in Nat /\ DOMAIN Mem!Buf = 1 .. Len(Mem!Buf)
      /\ ~Mem!Has("MYBUF") => Len(Mem!Buf) = Mem!Most
  BY BufSeq DEF MemInv
<1>4. At \in Nat /\ At <= ms.vsize /\ (Mem!Has("APPEND") => At = ms.vsize)
  BY <1>2 DEF At
<1>5. Fits(d) \in Nat /\ Fits(d) <= Len(d) /\ End(d) <= ms.rsize /\ End(d) \in Nat
  BY <1>2, <1>4, DataIs DEF Fits, End, Mem!Least
<1>6. \A k \in 1 .. Len(Mem!Buf) : Put(d, k) \in Byte
  <2> SUFFICES ASSUME NEW k \in 1 .. Len(Mem!Buf) PROVE Put(d, k) \in Byte
    OBVIOUS
  <2>1. CASE k \in At + 1 .. End(d)
    <3>1. k - At \in 1 .. Len(d)
      BY <1>4, <1>5, <2>1, DataIs DEF End
    <3> QED BY <2>1, <3>1, DataIs DEF Put
  <2>2. CASE k \notin At + 1 .. End(d)
    BY <1>3, <2>2 DEF Put
  <2> QED BY <2>1, <2>2
<1>7. b \in Seq(Byte) /\ Len(b) = Len(Mem!Buf) /\ (~Mem!Has("MYBUF") => b \in [1 .. Mem!Most -> Byte])
  <2>1. b \in [1 .. Len(Mem!Buf) -> Byte]
    BY <1>3, <1>6 DEF Byte
  <2> HIDE DEF b
  <2> QED BY <1>3, <2>1
<1>8. \A k \in 1 .. Len(Mem!Buf) : b[k] = IF Ended(d, k) THEN 0 ELSE Put(d, k)
  BY <1>3
<1> HIDE DEF b
<1>9. /\ ms'.flags = ms.flags /\ ms'.rsize = ms.rsize /\ ms'.curpos = End(d)
      /\ ms'.vsize = (IF End(d) > ms.vsize THEN End(d) ELSE ms.vsize)
      /\ ms'.mine = (IF Mem!Has("MYBUF") THEN b ELSE ms.mine)
  BY <1>1 DEF MemInv, MemTypeOK
<1>10. Mem!Buf' = b
  BY <1>1, <1>9 DEF Mem!Buf, Mem!Has
<1>11. MemTypeOK'
  <2>1. ms' \in [flags : SUBSET Flags, mine : Seq(Byte), rsize : Nat, vsize : Nat, curpos : Nat]
    BY <1>1, <1>2, <1>5, <1>7 DEF MemInv, MemTypeOK
  <2> QED BY <1>1, <1>7, <2>1 DEF MemInv, MemTypeOK
<1> QED BY <1>1, <1>2, <1>4, <1>5, <1>7, <1>8, <1>9, <1>10, <1>11

LEMMA WriteStep ==
  ASSUME MemInv, NEW d \in Mem!File!Data, Mem!mstream_write(d)
  PROVE  MemInv'
<1>1. CASE ms.flags \cap {"APPEND", "WRITE"} = {}
  <2>1. UNCHANGED <<user, ms, wrote>>
    BY <1>1 DEF Mem!mstream_write
  <2> QED
    BY <2>1 DEF MemInv, MemTypeOK, Inside, TextFull, StringThere, Mem!Open, Mem!Has, Mem!Buf
<1>2. CASE ms.flags \cap {"APPEND", "WRITE"} # {}
  <2> DEFINE zero == IF End(d) < ms.rsize THEN End(d) + 1 ELSE ms.rsize
  <2>1. /\ At \in Nat /\ At <= ms.vsize /\ (Mem!Has("APPEND") => At = ms.vsize)
        /\ Fits(d) \in Nat /\ Fits(d) <= Len(d) /\ End(d) <= ms.rsize /\ ms.rsize > 0
        /\ ms'.flags = ms.flags /\ ms'.rsize = ms.rsize /\ ms'.curpos = End(d)
        /\ ms'.vsize = IF End(d) > ms.vsize THEN End(d) ELSE ms.vsize
        /\ MemTypeOK' /\ Len(Mem!Buf') = Len(Mem!Buf)
        /\ \A k \in 1 .. Len(Mem!Buf) : Mem!Buf'[k] = IF Ended(d, k) THEN 0 ELSE Put(d, k)
    BY <1>2, WriteIs
  <2>2. /\ ms.rsize \in Nat /\ ms.vsize \in Nat /\ ms.vsize <= ms.rsize /\ ms.rsize <= Len(Mem!Buf)
        /\ Len(Mem!Buf) \in Nat /\ Len(d) \in Nat /\ End(d) \in Nat
    BY <2>1, BufSeq, DataIs DEF MemInv, MemTypeOK, Inside, End
  <2>3. Mem!Open
    BY DEF Mem!mstream_write, Mem!Call
  <2>4. Inside'
    BY <2>1, <2>2 DEF Inside
  <2>5. TextFull'
    <3> SUFFICES ASSUME Mem!Has("APPEND"), NEW k \in 1 .. ms'.vsize, k # ms.rsize
                 PROVE  Mem!Buf'[k] # 0
      BY <2>1 DEF TextFull, Mem!Has
    <3>1. At = ms.vsize /\ k \in 1 .. End(d) /\ k \in 1 .. Len(Mem!Buf)
      BY <2>1, <2>2 DEF End
    <3>2. ~Ended(d, k)
      BY <2>2, <3>1 DEF Ended
    <3>3. CASE k \in At + 1 .. End(d)
      <4>1. k - At \in 1 .. Len(d)
        BY <2>1, <2>2, <3>3 DEF End
      <4> QED BY <2>1, <3>1, <3>2, <3>3, <4>1, DataIs DEF Put
    <3>4. CASE k \notin At + 1 .. End(d)
      <4>1. k \in 1 .. ms.vsize
        BY <2>1, <2>2, <3>1, <3>4
      <4>2. Mem!Buf[k] # 0
        BY <2>3, <4>1 DEF MemInv, TextFull
      <4> QED BY <2>1, <3>1, <3>2, <3>4, <4>2 DEF Put
    <3> QED BY <3>3, <3>4
  <2>6. StringThere'
    <3>1. zero \in 1 .. ms.rsize /\ zero \in 1 .. Len(Mem!Buf)
      BY <2>1, <2>2
    <3>2. ~Mem!Has("READ") => Ended(d, zero)
      BY DEF Ended
    <3> HIDE DEF zero
    <3> QED BY <2>1, <3>1, <3>2 DEF StringThere, Mem!Has
  <2> QED BY <2>1, <2>4, <2>5, <2>6 DEF MemInv
<1> QED BY <1>1, <1>2

LEMMA CloseStep == ASSUME MemInv, Mem!mstream_close PROVE MemInv'
<1>1. /\ ms' = [flags |-> {}, mine |-> <<>>, rsize |-> 0, vsize |-> 0, curpos |-> 0]
      /\ wrote' = FALSE /\ user' = user
  BY DEF Mem!mstream_close, Mem!Closed
<1>2. <<>> \in Seq(Byte) /\ {} \in SUBSET Flags /\ 0 \in Nat
  OBVIOUS
<1>3. ms' \in [flags : SUBSET Flags, mine : Seq(Byte), rsize : Nat, vsize : Nat, curpos : Nat]
  BY <1>1, <1>2
<1>4. MemTypeOK'
  BY <1>1, <1>3 DEF MemInv, MemTypeOK
<1>5. Mem!Buf' = user
  BY <1>1 DEF Mem!Buf, Mem!Has
<1>6. Len(user) \in Nat
  BY MostIs DEF MemInv, MemTypeOK
<1> QED BY <1>1, <1>4, <1>5, <1>6 DEF MemInv, Inside, TextFull, StringThere, Mem!Open, Mem!Has

LEMMA MemNext == MemInv /\ [MCNext]_all => MemInv'
<1> SUFFICES ASSUME MemInv, [MCNext]_all PROVE MemInv'
  OBVIOUS
<1>1. CASE UNCHANGED memVars
  BY <1>1 DEF MemInv, MemTypeOK, Inside, TextFull, StringThere, Mem!Open, Mem!Has, Mem!Buf, memVars
<1>2. CASE Mem!Next
  <2>1. \A n \in 0 .. MaxLen : n \in Nat
    BY MemoryAssumption
  <2>2. \A p \in -1 .. 1 : p \in Int
    OBVIOUS
  <2> QED
    BY <1>2, <2>1, <2>2, OpenStep, ReadStep, WriteStep, SeekStep, CloseStep DEF Mem!Next
<1> QED BY <1>1, <1>2 DEF MCNext, Runs, all

(* The positions of a memory stream stay inside the memory, a stream that  *)
(* is only written leaves a string in it, and what is appended to a string *)
(* follows on it, whatever is done with it, with memory of any size and    *)
(* data of any length.                                                     *)
THEOREM StreamsInside == MCSpec => []MemoryRight
<1>1. MCInit => MemInv
  BY MemInit DEF MCInit
<1>2. MemInv => MemoryRight
  <2> SUFFICES ASSUME MemInv PROVE MemoryRight
    OBVIOUS
  <2>1. ms.vsize \in Nat /\ ms.rsize \in Nat /\ ms.vsize <= ms.rsize
    BY DEF MemInv, MemTypeOK, Inside
  <2>2. \A n \in 1 .. ms.vsize - 1 : n \in 1 .. ms.vsize /\ n # ms.rsize
    BY <2>1
  <2> QED
    BY <2>1, <2>2 DEF MemInv, MemTypeOK, Inside, TextFull, StringThere, MemoryRight, Mem!MemoryRight
<1> QED BY <1>1, <1>2, MemNext, PTL DEF MCSpec

(* The text of a stream, and the parts of it.                              *)
Text(b, v) == SubSeq(b, 1, v)

LEMMA TextIs ==
  ASSUME NEW S, NEW b \in Seq(S), NEW v \in 0 .. Len(b)
  PROVE  /\ Text(b, v) \in Seq(S) /\ Len(Text(b, v)) = v
         /\ \A n \in 1 .. v : Text(b, v)[n] = b[n]
BY DEF Text

LEMMA SameSeq ==
  ASSUME NEW S, NEW s \in Seq(S), NEW t \in Seq(S), Len(s) = Len(t),
         \A n \in 1 .. Len(s) : s[n] = t[n]
  PROVE  s = t
OBVIOUS

LEMMA PartOfText ==
  ASSUME NEW S, NEW b \in Seq(S), NEW v \in 0 .. Len(b), NEW from \in Nat, NEW to \in 0 .. v
  PROVE  SubSeq(b, from + 1, to) = SubSeq(Text(b, v), from + 1, to)
<1> DEFINE s == SubSeq(b, from + 1, to)
           t == SubSeq(Text(b, v), from + 1, to)
<1>1. s \in Seq(S) /\ t \in Seq(S) /\ Len(s) = Len(t)
  BY TextIs
<1>2. \A n \in 1 .. Len(s) : s[n] = t[n]
  BY TextIs
<1> QED BY <1>1, <1>2, SameSeq

LEMMA Joined ==
  ASSUME NEW S, NEW s \in Seq(S), NEW t \in Seq(S)
  PROVE  /\ s \o t \in Seq(S) /\ Len(s \o t) = Len(s) + Len(t)
         /\ \A k \in 1 .. Len(s) : (s \o t)[k] = s[k]
         /\ \A k \in Len(s) + 1 .. Len(s) + Len(t) : (s \o t)[k] = t[k - Len(s)]
OBVIOUS

LEMMA PartIs ==
  ASSUME NEW S, NEW q \in Seq(S), NEW m \in Nat, NEW n \in 0 .. Len(q)
  PROVE  /\ SubSeq(q, m + 1, n) \in Seq(S)
         /\ Len(SubSeq(q, m + 1, n)) = IF m < n THEN n - m ELSE 0
         /\ \A k \in 1 .. n - m : SubSeq(q, m + 1, n)[k] = q[m + k]
OBVIOUS

(* A sequence that begins with s, goes on with t and ends with u           *)
Parts(x, s, t, u) ==
  /\ Len(x) = Len(s) + Len(t) + Len(u)
  /\ \A k \in 1 .. Len(s) : x[k] = s[k]
  /\ \A k \in 1 .. Len(t) : x[Len(s) + k] = t[k]
  /\ \A k \in 1 .. Len(u) : x[Len(s) + Len(t) + k] = u[k]

LEMMA ThreeParts ==
  ASSUME NEW S, NEW x \in Seq(S), NEW s \in Seq(S), NEW t \in Seq(S), NEW u \in Seq(S),
         Parts(x, s, t, u)
  PROVE  x = s \o t \o u
<1>0. /\ Len(x) = Len(s) + Len(t) + Len(u)
      /\ \A k \in 1 .. Len(s) : x[k] = s[k]
      /\ \A k \in 1 .. Len(t) : x[Len(s) + k] = t[k]
      /\ \A k \in 1 .. Len(u) : x[Len(s) + Len(t) + k] = u[k]
  BY DEF Parts
<1>1. Len(s) \in Nat /\ Len(t) \in Nat /\ Len(u) \in Nat
  OBVIOUS
<1>2. PICK y \in Seq(S) : y = s \o t
  BY Joined
<1>3. /\ Len(y) = Len(s) + Len(t)
      /\ \A k \in 1 .. Len(s) : y[k] = s[k]
      /\ \A k \in Len(s) + 1 .. Len(s) + Len(t) : y[k] = t[k - Len(s)]
  BY <1>2, Joined
<1>4. \A k \in 1 .. Len(y) : x[k] = y[k]
  <2> SUFFICES ASSUME NEW k \in 1 .. Len(y) PROVE x[k] = y[k]
    OBVIOUS
  <2>1. CASE k \in 1 .. Len(s)
    BY <1>0, <1>3, <2>1
  <2>2. CASE k \in Len(s) + 1 .. Len(s) + Len(t)
    <3>1. k - Len(s) \in 1 .. Len(t) /\ Len(s) + (k - Len(s)) = k
      BY <1>1, <2>2
    <3> QED BY <1>0, <1>3, <2>2, <3>1
  <2> QED BY <1>1, <1>3, <2>1, <2>2
<1>5. PICK z \in Seq(S) : z = y \o u
  BY Joined
<1>6. /\ Len(z) = Len(y) + Len(u)
      /\ \A k \in 1 .. Len(y) : z[k] = y[k]
      /\ \A k \in Len(y) + 1 .. Len(y) + Len(u) : z[k] = u[k - Len(y)]
  BY <1>5, Joined
<1>7. \A k \in 1 .. Len(x) : x[k] = z[k]
  <2> SUFFICES ASSUME NEW k \in 1 .. Len(x) PROVE x[k] = z[k]
    OBVIOUS
  <2>1. CASE k \in 1 .. Len(y)
    BY <1>4, <1>6, <2>1
  <2>2. CASE k \in Len(y) + 1 .. Len(y) + Len(u)
    <3>1. k - Len(y) \in 1 .. Len(u) /\ Len(s) + Len(t) + (k - Len(y)) = k
      BY <1>1, <1>3, <2>2
    <3> QED BY <1>0, <1>3, <1>6, <2>2, <3>1
  <2> QED BY <1>0, <1>1, <1>3, <2>1, <2>2
<1>8. x = z
  BY <1>0, <1>1, <1>3, <1>6, <1>7, SameSeq
<1> QED BY <1>2, <1>5, <1>8

(* The first w of c are the first v of b with n of d over them, after at.  *)
Over(c, w, b, v, at, d, n) ==
  /\ w = IF at + n > v THEN at + n ELSE v
  /\ \A k \in 1 .. w : c[k] = IF k \in at + 1 .. at + n THEN d[k - at] ELSE b[k]
OverText(c, w, b, v, at, d, n) ==
  Text(c, w) = SubSeq(Text(b, v), 1, at) \o SubSeq(d, 1, n) \o SubSeq(Text(b, v), at + n + 1, v)

LEMMA Splice ==
  ASSUME NEW S, NEW b \in Seq(S), NEW v \in 0 .. Len(b), NEW at \in 0 .. v,
         NEW d \in Seq(S), NEW n \in 0 .. Len(d),
         NEW c \in Seq(S), NEW w \in 0 .. Len(c), Over(c, w, b, v, at, d, n)
  PROVE  OverText(c, w, b, v, at, d, n)
<1>1. /\ Text(b, v) \in Seq(S) /\ Len(Text(b, v)) = v /\ \A k \in 1 .. v : Text(b, v)[k] = b[k]
      /\ Text(c, w) \in Seq(S) /\ Len(Text(c, w)) = w /\ \A k \in 1 .. w : Text(c, w)[k] = c[k]
  BY TextIs
<1>2. PICK old \in Seq(S), x \in Seq(S) : old = Text(b, v) /\ x = Text(c, w)
  BY <1>1
<1>3. /\ Len(old) = v /\ \A k \in 1 .. v : old[k] = b[k]
      /\ Len(x) = w /\ \A k \in 1 .. w : x[k] = IF k \in at + 1 .. at + n THEN d[k - at] ELSE b[k]
  BY <1>1, <1>2 DEF Over
<1>4. PICK s : s = SubSeq(old, 1, at) /\ s \in Seq(S) /\ Len(s) = at /\ \A k \in 1 .. at : s[k] = old[k]
  <2>1. at \in 0 .. Len(old)
    BY <1>3
  <2>2. /\ Text(old, at) \in Seq(S) /\ Len(Text(old, at)) = at
        /\ \A k \in 1 .. at : Text(old, at)[k] = old[k]
    BY <2>1, TextIs
  <2> QED BY ONLY <2>2 DEF Text
<1>5. PICK t : t = SubSeq(d, 1, n) /\ t \in Seq(S) /\ Len(t) = n /\ \A k \in 1 .. n : t[k] = d[k]
  <2>1. /\ Text(d, n) \in Seq(S) /\ Len(Text(d, n)) = n
        /\ \A k \in 1 .. n : Text(d, n)[k] = d[k]
    BY TextIs
  <2> QED BY ONLY <2>1 DEF Text
<1>6. /\ at \in Nat /\ n \in Nat /\ v \in Nat /\ w \in Nat /\ at <= v /\ at + n \in Nat
      /\ w = IF at + n > v THEN at + n ELSE v
  BY DEF Over
<1>7. /\ SubSeq(old, at + n + 1, v) \in Seq(S)
      /\ Len(SubSeq(old, at + n + 1, v)) = IF at + n < v THEN v - (at + n) ELSE 0
      /\ \A k \in 1 .. v - (at + n) : SubSeq(old, at + n + 1, v)[k] = old[at + n + k]
  <2>1. PICK m \in Nat : m = at + n
    BY <1>6
  <2>2. v \in 0 .. Len(old)
    BY <1>3, <1>6
  <2>3. /\ SubSeq(old, m + 1, v) \in Seq(S)
        /\ Len(SubSeq(old, m + 1, v)) = IF m < v THEN v - m ELSE 0
        /\ \A k \in 1 .. v - m : SubSeq(old, m + 1, v)[k] = old[m + k]
    BY <2>2, PartIs
  <2> QED BY ONLY <2>1, <2>3
<1>8. PICK u : /\ u = SubSeq(old, at + n + 1, v) /\ u \in Seq(S)
               /\ Len(u) = IF at + n < v THEN v - (at + n) ELSE 0
               /\ \A k \in 1 .. v - (at + n) : u[k] = old[at + n + k]
  BY ONLY <1>7
<1>9. Len(u) \in Nat /\ (Len(u) > 0 => at + n + Len(u) = v) /\ w = at + n + Len(u)
  BY ONLY <1>6, <1>8
<1>10. Len(x) = Len(s) + Len(t) + Len(u)
  BY <1>3, <1>4, <1>5, <1>9
<1>11. ASSUME NEW k \in 1 .. Len(s) PROVE x[k] = s[k]
  <2>1. k \in 1 .. v /\ k \in 1 .. w /\ k \in 1 .. at /\ k \notin at + 1 .. at + n
    BY <1>4, <1>6
  <2> QED BY <1>3, <1>4, <2>1
<1>12. ASSUME NEW k \in 1 .. Len(t) PROVE x[Len(s) + k] = t[k]
  <2>1. k \in 1 .. n /\ k \in Nat /\ t[k] = d[k]
    BY ONLY <1>5, <1>6, <1>12
  <2>2. at + k \in 1 .. w /\ at + k \in at + 1 .. at + n /\ (at + k) - at = k
    BY ONLY <1>6, <2>1
  <2>3. x[at + k] = d[k]
    BY ONLY <1>3, <2>2
  <2> QED BY ONLY <1>4, <2>1, <2>3
<1>13. ASSUME NEW k \in 1 .. Len(u) PROVE x[Len(s) + Len(t) + k] = u[k]
  <2>1. at + n + k \in 1 .. v /\ at + n + k \in 1 .. w /\ at + n + k \notin at + 1 .. at + n
    BY ONLY <1>6, <1>9, <1>13
  <2>2. x[at + n + k] = old[at + n + k]
    BY ONLY <1>3, <2>1
  <2>3. k \in 1 .. v - (at + n)
    BY ONLY <1>6, <1>9, <1>13
  <2>4. u[k] = old[at + n + k]
    BY ONLY <1>8, <2>3
  <2> QED BY ONLY <1>4, <1>5, <2>2, <2>4
<1>14. x = s \o t \o u
  <2>1. x \in Seq(S) /\ s \in Seq(S) /\ t \in Seq(S) /\ u \in Seq(S)
    BY <1>4, <1>5, <1>8
  <2>2. Parts(x, s, t, u)
    BY ONLY <1>10, <1>11, <1>12, <1>13 DEF Parts
  <2> QED BY ONLY <2>1, <2>2, ThreeParts
<1> QED BY <1>2, <1>4, <1>5, <1>8, <1>14 DEF OverText

(* The calls on a stream that is read, on the file it is.                  *)
LEMMA ReadIsFile ==
  ASSUME MemInv, NEW n \in 0 .. MaxLen, Mem!mstream_read(n), Mem!Has("READ")
  PROVE  Mem!File!Read(n)
<1> DEFINE text == Text(Mem!Buf, ms.vsize)
           to == Mem!Least(ms.curpos + n, ms.vsize)
<1>1. /\ ms.curpos \in Nat /\ ms.vsize \in Nat /\ ms.curpos <= ms.vsize
      /\ Mem!Buf \in Seq(Byte) /\ ms.vsize \in 0 .. Len(Mem!Buf) /\ n \in Nat
  BY BufSeq, MemoryAssumption DEF MemInv, MemTypeOK, Inside
<1>2. to \in 0 .. ms.vsize
  BY <1>1 DEF Mem!Least
<1>3. Len(text) = ms.vsize
  BY <1>1, TextIs
<1>4. SubSeq(Mem!Buf, ms.curpos + 1, to) = SubSeq(text, ms.curpos + 1, to)
  <2> HIDE DEF to
  <2> QED BY <1>1, <1>2, PartOfText
<1>5. /\ answer' = SubSeq(Mem!Buf, ms.curpos + 1, to)
      /\ ms' = [ms EXCEPT !.curpos = ms.curpos + Len(answer')]
      /\ user' = user
  BY DEF Mem!mstream_read
<1>6. /\ ms'.curpos = ms.curpos + Len(answer') /\ ms'.vsize = ms.vsize /\ ms'.rsize = ms.rsize
      /\ ms'.flags = ms.flags /\ Mem!Buf' = Mem!Buf
  BY <1>5 DEF MemInv, MemTypeOK, Mem!Buf, Mem!Has
<1>7. answer' = SubSeq(text, ms.curpos + 1, Mem!File!Least(ms.curpos + n, Len(text)))
  BY <1>3, <1>4, <1>5 DEF Mem!Least, Mem!File!Least
<1> QED BY <1>6, <1>7 DEF Mem!File!Read, Mem!Has, Text

LEMMA WriteStays ==
  ASSUME MemInv, NEW d \in Mem!File!Data, Mem!mstream_write(d),
         NEW k \in DOMAIN user, k > ms.rsize
  PROVE  user'[k] = user[k]
<1>1. CASE user' = user
  BY <1>1
<1>2. CASE user' # user
  <2>1. ms.flags \cap {"APPEND", "WRITE"} # {}
    BY <1>2 DEF Mem!mstream_write
  <2>2. /\ At \in Nat /\ Fits(d) \in Nat /\ End(d) <= ms.rsize /\ ms.rsize > 0
        /\ user' = IF Mem!Has("MYBUF") THEN user ELSE Mem!Buf'
        /\ \A j \in 1 .. Len(Mem!Buf) : Mem!Buf'[j] = IF Ended(d, j) THEN 0 ELSE Put(d, j)
    BY <2>1, WriteIs
  <2>3. ms.rsize \in Nat /\ End(d) \in Nat /\ End(d) = At + Fits(d)
    BY <2>2 DEF MemInv, MemTypeOK, End
  <2>4. ~Mem!Has("MYBUF") /\ Mem!Buf = user /\ user' = Mem!Buf'
    BY <1>2, <2>2 DEF Mem!Buf
  <2>5. k \in 1 .. Len(Mem!Buf) /\ k \in Nat
    BY <2>4, BufSeq DEF MemInv
  <2>6. ~Ended(d, k) /\ k \notin At + 1 .. End(d)
    BY <2>2, <2>3, <2>5 DEF Ended
  <2> QED BY <2>2, <2>4, <2>5, <2>6 DEF Put
<1> QED BY <1>1, <1>2

LEMMA WriteIsFile ==
  ASSUME MemInv, NEW d \in Mem!File!Data, Mem!mstream_write(d), Mem!Has("READ"),
         ms.flags \cap {"APPEND", "WRITE"} # {}
  PROVE  Mem!File!Write(d)
<1> DEFINE old == Text(Mem!Buf, ms.vsize)
<1>1. /\ At \in Nat /\ At <= ms.vsize
      /\ Fits(d) \in Nat /\ Fits(d) <= Len(d) /\ End(d) <= ms.rsize
      /\ ms'.flags = ms.flags /\ ms'.rsize = ms.rsize /\ ms'.curpos = End(d)
      /\ ms'.vsize = IF End(d) > ms.vsize THEN End(d) ELSE ms.vsize
      /\ answer' = <<Fits(d)>>
      /\ Mem!Buf' \in Seq(Byte) /\ Len(Mem!Buf') = Len(Mem!Buf)
      /\ \A k \in 1 .. Len(Mem!Buf) : Mem!Buf'[k] = IF Ended(d, k) THEN 0 ELSE Put(d, k)
  BY WriteIs
<1>2. /\ ms.rsize \in Nat /\ ms.vsize \in Nat /\ ms.vsize <= ms.rsize /\ ms.rsize <= Len(Mem!Buf)
      /\ Mem!Buf \in Seq(Byte) /\ Len(Mem!Buf) \in Nat /\ d \in Seq(Byte) /\ Len(d) \in Nat
      /\ End(d) \in Nat /\ End(d) = At + Fits(d)
  BY <1>1, BufSeq, DataIs DEF MemInv, MemTypeOK, Inside, End
<1>3. PICK c, w : c = Mem!Buf' /\ w = ms'.vsize
  OBVIOUS
<1>4. /\ c \in Seq(Byte) /\ Len(c) = Len(Mem!Buf)
      /\ w = (IF At + Fits(d) > ms.vsize THEN At + Fits(d) ELSE ms.vsize)
  BY <1>1, <1>2, <1>3
<1>5. /\ w \in 0 .. Len(c) /\ Fits(d) \in 0 .. Len(d) /\ At \in 0 .. ms.vsize
      /\ ms.vsize \in 0 .. Len(Mem!Buf)
  BY <1>1, <1>2, <1>4
<1>6. \A k \in 1 .. w : c[k] = IF k \in At + 1 .. At + Fits(d) THEN d[k - At] ELSE Mem!Buf[k]
  <2> SUFFICES ASSUME NEW k \in 1 .. w
               PROVE  c[k] = IF k \in At + 1 .. At + Fits(d) THEN d[k - At] ELSE Mem!Buf[k]
    OBVIOUS
  <2>1. k \in 1 .. Len(Mem!Buf)
    BY <1>2, <1>4, <1>5
  <2>2. ~Ended(d, k)
    BY <1>1, <1>2, <1>4 DEF Ended
  <2>3. c[k] = Put(d, k)
    BY <1>1, <1>3, <2>1, <2>2
  <2> QED BY <1>2, <2>3 DEF Put
<1>7. Text(c, w) = SubSeq(old, 1, At) \o SubSeq(d, 1, Fits(d))
                     \o SubSeq(old, At + Fits(d) + 1, ms.vsize)
  <2>1. PICK b, v, at, n : b = Mem!Buf /\ v = ms.vsize /\ at = At /\ n = Fits(d)
    OBVIOUS
  <2>2. /\ b \in Seq(Byte) /\ v \in 0 .. Len(b) /\ at \in 0 .. v /\ d \in Seq(Byte)
        /\ n \in 0 .. Len(d) /\ c \in Seq(Byte) /\ w \in 0 .. Len(c)
    BY ONLY <1>2, <1>4, <1>5, <2>1
  <2>3. Over(c, w, b, v, at, d, n)
    BY ONLY <1>4, <1>6, <2>1 DEF Over
  <2>4. OverText(c, w, b, v, at, d, n)
    BY ONLY <2>2, <2>3, Splice
  <2> QED BY ONLY <2>1, <2>4 DEF OverText
<1>8. Len(old) = ms.vsize
  BY <1>2, <1>5, TextIs
<1>9. At = IF Mem!Has("APPEND") THEN Len(old) ELSE ms.curpos
  BY <1>8 DEF At
<1>10. Fits(d) = Mem!File!Least(Len(d), ms.rsize - At)
  BY DEF Fits, Mem!Least, Mem!File!Least
<1>11. Text(Mem!Buf', ms'.vsize)
         = SubSeq(old, 1, At) \o SubSeq(d, 1, Fits(d)) \o SubSeq(old, At + Fits(d) + 1, Len(old))
  BY <1>3, <1>7, <1>8
<1> QED
  BY ONLY <1>1, <1>2, <1>9, <1>10, <1>11 DEF Mem!File!Write, Mem!Has, Text

LEMMA SeekIsFile ==
  ASSUME MemInv, NEW p \in -1 .. 1, NEW whence \in {"SET", "END", "CUR"},
         Mem!mstream_seek(p, whence), Mem!Has("READ")
  PROVE  Mem!File!Step \/ (answer' = <<-1>> /\ UNCHANGED <<user, ms>>)
<1> DEFINE off == CASE whence = "SET" -> p
                    [] whence = "END" -> ms.vsize + p
                    [] whence = "CUR" -> ms.curpos + p
<1>1. /\ ms.curpos \in Nat /\ ms.vsize \in Nat /\ ms.rsize \in Nat /\ ms.vsize <= ms.rsize
      /\ Mem!Buf \in Seq(Byte) /\ ms.vsize \in 0 .. Len(Mem!Buf)
  BY BufSeq DEF MemInv, MemTypeOK, Inside
<1>2. off \in Int
  BY <1>1
<1>3. /\ IF off < 0 \/ off > ms.vsize THEN answer' = <<-1>> /\ UNCHANGED ms
         ELSE answer' = <<off>> /\ ms' = [ms EXCEPT !.curpos = off]
      /\ user' = user
  BY DEF Mem!mstream_seek
<1> HIDE DEF off
<1>4. CASE off < 0 \/ off > ms.vsize
  BY <1>3, <1>4
<1>5. CASE ~(off < 0 \/ off > ms.vsize)
  <2>1. off \in 0 .. ms.vsize /\ off \in -ms.rsize .. 2 * ms.rsize
    BY <1>1, <1>2, <1>5
  <2>2. /\ answer' = <<off>> /\ ms'.curpos = off /\ ms'.vsize = ms.vsize /\ ms'.rsize = ms.rsize
        /\ ms'.flags = ms.flags /\ Mem!Buf' = Mem!Buf
    BY <1>3, <1>5 DEF MemInv, MemTypeOK, Mem!Buf, Mem!Has
  <2>3. Len(Text(Mem!Buf, ms.vsize)) = ms.vsize
    BY <1>1, TextIs
  <2>4. Mem!File!Seek(off)
    BY <2>1, <2>2, <2>3 DEF Mem!File!Seek, Mem!Has, Text
  <2> QED BY <2>1, <2>4 DEF Mem!File!Step
<1> QED BY <1>4, <1>5

(* Every call on a stream that can be read does and answers what it does   *)
(* on a file of that size, or fails and changes nothing, and the memory    *)
(* behind the stream is not touched.                                       *)
THEOREM StreamsAreFiles == MCSpec => ReadableIsFile
<1> DEFINE A == /\ Mem!Open /\ Mem!Open' /\ Mem!Has("READ") =>
                     Mem!File!Step \/ (answer' = <<-1>> /\ UNCHANGED <<user, ms>>)
                /\ \A n \in DOMAIN user : n > ms.rsize => user'[n] = user[n]
<1>1. ASSUME MemInv, Mem!Next PROVE A
  <2>1. ASSUME NEW own \in BOOLEAN, NEW size \in Sizes, NEW type,
               Mem!fmemopen(own, size, type)
        PROVE  A
    BY <2>1 DEF Mem!fmemopen, Mem!Fails
  <2>2. ASSUME NEW n \in 0 .. MaxLen, Mem!mstream_read(n) PROVE A
    BY <1>1, <2>2, ReadIsFile DEF Mem!File!Step, Mem!mstream_read
  <2>3. ASSUME NEW d \in Mem!File!Data, Mem!mstream_write(d) PROVE A
    <3>1. CASE ms.flags \cap {"APPEND", "WRITE"} = {}
      BY <2>3, <3>1 DEF Mem!mstream_write
    <3>2. CASE ms.flags \cap {"APPEND", "WRITE"} # {}
      <4>1. Mem!Has("READ") => Mem!File!Step
        BY <1>1, <2>3, <3>2, WriteIsFile DEF Mem!File!Step
      <4>2. \A n \in DOMAIN user : n > ms.rsize => user'[n] = user[n]
        BY <1>1, <2>3, WriteStays
      <4> QED BY <4>1, <4>2
    <3> QED BY <3>1, <3>2
  <2>4. ASSUME NEW p \in -1 .. 1, NEW whence \in {"SET", "END", "CUR"}, Mem!mstream_seek(p, whence)
        PROVE  A
    BY <1>1, <2>4, SeekIsFile DEF Mem!mstream_seek
  <2>5. ASSUME Mem!mstream_close PROVE A
    BY <2>5 DEF Mem!mstream_close, Mem!Closed, Mem!Open
  <2> QED BY <1>1, <2>1, <2>2, <2>3, <2>4, <2>5 DEF Mem!Next
<1>2. MemInv /\ [MCNext]_all => [A]_<<user, ms, answer>>
  BY <1>1 DEF MCNext, Runs, all, memVars
<1>3. MCInit => MemInv
  BY MemInit DEF MCInit
<1> QED BY <1>2, <1>3, MemNext, PTL DEF MCSpec, ReadableIsFile, Mem!ReadableIsFile

-----------------------------------------------------------------------------
(* The job queue: the links of the jobs, in both directions, and the ends  *)
(* of the queue belong to one sequence of jobs, and what a thread found is *)
(* its own and still in there.                                             *)
LinksTo(s, h, nx) ==
  /\ h = IF s = <<>> THEN NULL ELSE s[1]
  /\ \A n \in 1 .. Len(s) : nx[s[n]] = IF n = Len(s) THEN NULL ELSE s[n + 1]
LinksBack(s, e, pv) ==
  /\ e = IF s = <<>> THEN NULL ELSE s[Len(s)]
  /\ \A n \in 1 .. Len(s) : pv[s[n]] = IF n = 1 THEN NULL ELSE s[n - 1]
OnceEach(s) == s \in Seq(Jobs) /\ \A m, n \in 1 .. Len(s) : s[m] = s[n] => m = n
OnList(s) ==
  OnceEach(s) /\ LinksTo(s, q_head, j_next) /\ LinksBack(s, q_tail, j_prev)

JobTypeOK ==
  /\ j_next \in [Jobs -> Jobs \cup {NULL}] /\ j_prev \in [Jobs -> Jobs \cup {NULL}]
  /\ j_id \in [Jobs -> Threads \cup {NULL}] /\ found \in [Threads -> Jobs \cup {NULL}]
FoundRight ==
  \A t \in Threads : found[t] # NULL => j_id[found[t]] = t /\ Job!Queued(found[t])
JobInv == JobTypeOK /\ OnList(Job!Forward) /\ FoundRight

(* Two sequences with the same links are the same.                         *)
LEMMA LinksLead ==
  ASSUME NEW h, NEW nx, NEW s \in Seq(Jobs), NEW u \in Seq(Jobs),
         LinksTo(s, h, nx), LinksTo(u, h, nx), NEW k \in 1 .. Len(s)
  PROVE  k <= Len(u) /\ u[k] = s[k]
<1>1. Len(s) \in Nat /\ Len(u) \in Nat /\ (\A n \in 1 .. Len(s) : s[n] \in Jobs)
  /\ (u = <<>> => Len(u) = 0)
  OBVIOUS
<1> DEFINE T == {n \in 1 .. Len(s) : ~(n <= Len(u) /\ u[n] = s[n])}
<1>2. SUFFICES ASSUME T # {} PROVE FALSE
  OBVIOUS
<1>3. T \in SUBSET Nat
  BY <1>1
<1>4. PICK x \in T : \A y \in T : x <= y
  <2> HIDE DEF T
  <2> QED BY <1>2, <1>3, LeastNat
<1>5. x \in 1 .. Len(s) /\ ~(x <= Len(u) /\ u[x] = s[x]) /\ s[x] # NULL
  BY <1>1, <1>4, JobAssumption
<1>6. CASE x = 1
  BY <1>1, <1>5, <1>6 DEF LinksTo
<1>7. CASE x # 1
  <2>1. x - 1 \in 1 .. Len(s) /\ x - 1 # Len(s) /\ x - 1 \notin T /\ (x - 1) + 1 = x
    BY <1>1, <1>4, <1>5, <1>7
  <2>2. x - 1 <= Len(u) /\ u[x - 1] = s[x - 1] /\ x - 1 \in 1 .. Len(u)
    BY <1>1, <2>1
  <2>3. nx[s[x - 1]] = s[x] /\ nx[u[x - 1]] = (IF x - 1 = Len(u) THEN NULL ELSE u[x])
    BY <1>5, <2>1, <2>2 DEF LinksTo
  <2> QED BY <1>1, <1>5, <2>2, <2>3
<1> QED BY <1>6, <1>7

LEMMA JobCardinality == ASSUME NEW S PROVE Job!Cardinality(S) = Cardinality(S)
BY DEF Cardinality, Job!Cardinality

LEMMA OneListOnly ==
  ASSUME NEW s, NEW h, NEW nx, OnceEach(s), LinksTo(s, h, nx)
  PROVE  s = CHOOSE u \in Job!Lists : LinksTo(u, h, nx)
<1>1. s \in Seq(Jobs) /\ Len(s) \in Nat /\ s \in [1 .. Len(s) -> Jobs]
  BY DEF OnceEach
<1>2. Len(s) <= Cardinality(Jobs) /\ Cardinality(Jobs) \in Nat
  <2>1. s \in Injection(1 .. Len(s), Jobs)
    BY <1>1 DEF OnceEach, Injection, IsInjective
  <2>2. Cardinality(1 .. Len(s)) <= Cardinality(Jobs)
    BY <2>1, JobAssumption, FS_Injection
  <2>3. Cardinality(1 .. Len(s)) = Len(s)
    BY <1>1, FS_Interval
  <2> QED BY <2>2, <2>3, JobAssumption, FS_CardinalityType
<1>3. s \in Job!Lists
  BY <1>1, <1>2, JobCardinality DEF Job!Lists
<1>4. ASSUME NEW u \in Job!Lists, LinksTo(u, h, nx) PROVE u = s
  <2>1. u \in Seq(Jobs)
    <3>1. PICK n \in 0 .. Cardinality(Jobs) : u \in [1 .. n -> Jobs]
      BY JobCardinality DEF Job!Lists
    <3> QED BY <1>2, <3>1
  <2>2. \A k \in 1 .. Len(s) : k <= Len(u) /\ u[k] = s[k]
    BY <1>1, <1>4, <2>1, LinksLead
  <2>3. \A k \in 1 .. Len(u) : k <= Len(s) /\ s[k] = u[k]
    BY <1>1, <1>4, <2>1, LinksLead
  <2>4. Len(u) \in Nat /\ Len(u) = Len(s)
    <3>1. Len(u) \in Nat
      BY <2>1
    <3>2. Len(s) > Len(u) => FALSE
      BY <1>1, <2>2, <3>1
    <3>3. Len(u) > Len(s) => FALSE
      BY <1>1, <2>3, <3>1
    <3> QED BY <1>1, <3>1, <3>2, <3>3
  <2> QED BY <1>1, <2>1, <2>2, <2>4
<1> QED BY <1>3, <1>4

LEMMA ForwardIs ==
  ASSUME NEW s, OnceEach(s), LinksTo(s, q_head, j_next) PROVE Job!Forward = s
BY OneListOnly DEF Job!Forward, Job!Linked, LinksTo

LEMMA ForwardNext ==
  ASSUME NEW s, OnceEach(s), LinksTo(s, q_head', j_next') PROVE Job!Forward' = s
BY OneListOnly DEF Job!Forward, Job!Linked, LinksTo, Job!Lists

LEMMA JobInit == Job!Init => JobInv /\ Job!Forward = <<>>
<1> SUFFICES ASSUME Job!Init PROVE JobInv /\ Job!Forward = <<>>
  OBVIOUS
<1>1. OnList(<<>>)
  BY DEF Job!Init, Job!queue_init, OnList, OnceEach, LinksTo, LinksBack
<1>2. Job!Forward = <<>>
  BY <1>1, ForwardIs DEF OnList
<1> QED BY <1>1, <1>2 DEF Job!Init, JobInv, JobTypeOK, FoundRight

(* What each function does to the sequence                                 *)
LEMMA InsertStep ==
  ASSUME JobInv, NEW j \in Jobs, NEW t \in Threads, Job!job_insert(j, t)
  PROVE  Job!Forward' = <<j>> \o Job!Forward /\ JobInv'
<1>1. PICK f : f = Job!Forward
  OBVIOUS
<1>2. /\ OnceEach(f) /\ LinksTo(f, q_head, j_next) /\ LinksBack(f, q_tail, j_prev) /\ JobTypeOK
      /\ f \in Seq(Jobs) /\ Len(f) \in Nat /\ \A n \in 1 .. Len(f) : f[n] \in Jobs /\ f[n] # j
      /\ \A u \in Threads : found[u] # j
  BY <1>1 DEF JobInv, OnList, OnceEach, Job!job_insert, Job!New, Job!Queued, Job!Held
<1>3. PICK h, e, nx, pv : /\ h = q_head /\ e = q_tail /\ nx = j_next /\ pv = j_prev
  OBVIOUS
<1>4. /\ q_head' = j /\ j_next' = [nx EXCEPT ![j] = h] /\ found' = found
      /\ j_id' = [j_id EXCEPT ![j] = t] /\ q_tail' = (IF h # NULL THEN e ELSE j)
      /\ j_prev' = IF h # NULL THEN [pv EXCEPT ![j] = NULL, ![h] = j] ELSE [pv EXCEPT ![j] = NULL]
  BY <1>3 DEF Job!job_insert
<1>5. PICK g : g = <<j>> \o f
  OBVIOUS
<1>6. /\ g \in Seq(Jobs) /\ Len(g) = Len(f) + 1 /\ g[1] = j /\ g # <<>>
      /\ \A n \in 2 .. Len(g) : g[n] = f[n - 1] /\ n - 1 \in 1 .. Len(f)
  BY <1>2, <1>5
<1>7. h = (IF f = <<>> THEN NULL ELSE f[1]) /\ e = (IF f = <<>> THEN NULL ELSE f[Len(f)])
    /\ (f = <<>> <=> Len(f) = 0) /\ NULL \notin Jobs
  BY <1>2, <1>3, JobAssumption DEF LinksTo, LinksBack
<1>8. OnceEach(g)
  <2>1. ASSUME NEW m \in 1 .. Len(g), NEW n \in 1 .. Len(g), g[m] = g[n] PROVE m = n
    <3>1. (m = 1 \/ m \in 2 .. Len(g)) /\ (n = 1 \/ n \in 2 .. Len(g))
      BY <1>2, <1>6
    <3>2. m # 1 /\ n # 1 => f[m - 1] = f[n - 1] /\ m - 1 \in 1 .. Len(f) /\ n - 1 \in 1 .. Len(f)
      BY <1>6, <2>1, <3>1
    <3>3. m = 1 <=> n = 1
      BY <1>2, <1>6, <2>1, <3>1
    <3> QED BY <1>2, <3>1, <3>2, <3>3 DEF OnceEach
  <2> QED BY <1>6, <2>1 DEF OnceEach
<1>9. LinksTo(g, q_head', j_next')
  <2>1. ASSUME NEW n \in 1 .. Len(g) PROVE j_next'[g[n]] = IF n = Len(g) THEN NULL ELSE g[n + 1]
    <3>1. CASE n = 1
      <4>1. j_next'[j] = h
        BY <1>2, <1>3, <1>4 DEF JobTypeOK
      <4>2. 1 # Len(g) => g[2] = f[1] /\ f # <<>>
        BY <1>2, <1>6, <1>7
      <4>3. 1 = Len(g) => f = <<>>
        BY <1>2, <1>6, <1>7
      <4> QED BY <1>6, <1>7, <3>1, <4>1, <4>2, <4>3
    <3>2. CASE n # 1
      <4>1. n \in 2 .. Len(g) /\ n - 1 \in 1 .. Len(f) /\ g[n] = f[n - 1] /\ (n = Len(g) <=> n - 1 = Len(f))
        BY <1>2, <1>6, <3>2
      <4>2. j_next'[g[n]] = nx[f[n - 1]]
        BY <1>2, <1>3, <1>4, <4>1 DEF JobTypeOK
      <4>3. nx[f[n - 1]] = IF n - 1 = Len(f) THEN NULL ELSE f[(n - 1) + 1]
        BY <1>2, <1>3, <4>1 DEF LinksTo
      <4>4. n # Len(g) => n + 1 \in 2 .. Len(g) /\ g[n + 1] = f[(n - 1) + 1]
        BY <1>2, <1>6, <4>1
      <4> QED BY <4>1, <4>2, <4>3, <4>4
    <3> QED BY <3>1, <3>2
  <2> QED BY <1>4, <1>6, <2>1 DEF LinksTo
<1>10. LinksBack(g, q_tail', j_prev')
  <2>1. ASSUME NEW n \in 1 .. Len(g) PROVE j_prev'[g[n]] = IF n = 1 THEN NULL ELSE g[n - 1]
    <3>1. CASE n = 1
      BY <1>2, <1>3, <1>4, <1>6, <1>7, <3>1 DEF JobTypeOK
    <3>2. CASE n = 2
      <4>1. g[2] = f[1] /\ 1 \in 1 .. Len(f) /\ h = f[1] /\ h # NULL
        BY <1>2, <1>6, <1>7, <3>2
      <4> QED BY <1>2, <1>3, <1>4, <1>6, <3>2, <4>1 DEF JobTypeOK
    <3>3. CASE n > 2
      <4>1. /\ g[n] = f[n - 1] /\ n - 1 \in 1 .. Len(f) /\ g[n - 1] = f[n - 2] /\ n - 1 # 1
            /\ (n - 1) - 1 = n - 2 /\ 1 \in 1 .. Len(f)
        BY <1>2, <1>6, <3>3
      <4>2. f[n - 1] # f[1] /\ f[n - 1] # j /\ h = f[1]
        BY <1>2, <1>7, <4>1 DEF OnceEach
      <4>3. j_prev'[f[n - 1]] = pv[f[n - 1]]
        BY <1>2, <1>3, <1>4, <4>1, <4>2 DEF JobTypeOK
      <4>4. pv[f[n - 1]] = f[n - 2]
        BY <1>2, <1>3, <4>1 DEF LinksBack
      <4> QED BY <3>3, <4>1, <4>3, <4>4
    <3> QED BY <1>2, <1>6, <3>1, <3>2, <3>3
  <2>2. q_tail' = g[Len(g)]
    BY <1>2, <1>4, <1>6, <1>7
  <2> QED BY <1>6, <2>1, <2>2 DEF LinksBack
<1>11. Job!Forward' = g
  BY <1>8, <1>9, ForwardNext
<1>12. JobTypeOK'
  <2>1. h \in Jobs \cup {NULL}
    BY <1>2, <1>7
  <2>2. j_next' \in [Jobs -> Jobs \cup {NULL}] /\ j_id' \in [Jobs -> Threads \cup {NULL}]
    BY <1>2, <1>3, <1>4, <2>1 DEF JobTypeOK
  <2>3. j_prev' \in [Jobs -> Jobs \cup {NULL}]
    BY <1>2, <1>3, <1>4, <2>1 DEF JobTypeOK
  <2> QED BY <1>2, <1>4, <2>2, <2>3 DEF JobTypeOK
<1>13. FoundRight'
  <2>1. ASSUME NEW u \in Threads, found[u] # NULL
        PROVE  j_id'[found[u]] = u /\ \E n \in DOMAIN g : g[n] = found[u]
    <3>1. found[u] \in Jobs /\ j_id[found[u]] = u /\ found[u] # j
      BY <1>2, <2>1 DEF JobInv, FoundRight, JobTypeOK
    <3>2. PICK n \in 1 .. Len(f) : f[n] = found[u]
      BY <1>1, <1>2, <2>1 DEF JobInv, FoundRight, Job!Queued
    <3>3. n + 1 \in 2 .. Len(g) /\ g[n + 1] = f[n] /\ n + 1 \in DOMAIN g
      BY <1>2, <1>6, <3>2
    <3> QED BY <1>2, <1>4, <3>1, <3>2, <3>3 DEF JobTypeOK
  <2> QED BY <1>4, <1>11, <2>1 DEF FoundRight, Job!Queued
<1> QED BY <1>1, <1>4, <1>5, <1>8, <1>9, <1>10, <1>11, <1>12, <1>13 DEF JobInv, OnList

LEMMA AppendStep ==
  ASSUME JobInv, NEW j \in Jobs, NEW t \in Threads, Job!job_append(j, t)
  PROVE  Job!Forward' = Append(Job!Forward, j) /\ JobInv'
<1>1. PICK f : f = Job!Forward
  OBVIOUS
<1>2. /\ OnceEach(f) /\ LinksTo(f, q_head, j_next) /\ LinksBack(f, q_tail, j_prev) /\ JobTypeOK
      /\ f \in Seq(Jobs) /\ Len(f) \in Nat /\ \A n \in 1 .. Len(f) : f[n] \in Jobs /\ f[n] # j
      /\ \A u \in Threads : found[u] # j
  BY <1>1 DEF JobInv, OnList, OnceEach, Job!job_append, Job!New, Job!Queued, Job!Held
<1>3. PICK h, e, nx, pv : /\ h = q_head /\ e = q_tail /\ nx = j_next /\ pv = j_prev
  OBVIOUS
<1>4. /\ q_tail' = j /\ j_prev' = [pv EXCEPT ![j] = e] /\ found' = found
      /\ j_id' = [j_id EXCEPT ![j] = t] /\ q_head' = (IF e # NULL THEN h ELSE j)
      /\ j_next' = IF e # NULL THEN [nx EXCEPT ![j] = NULL, ![e] = j] ELSE [nx EXCEPT ![j] = NULL]
  BY <1>3 DEF Job!job_append
<1>5. PICK g : g = Append(f, j)
  OBVIOUS
<1>6. /\ g \in Seq(Jobs) /\ Len(g) = Len(f) + 1 /\ g[Len(f) + 1] = j /\ g # <<>>
      /\ \A n \in 1 .. Len(f) : g[n] = f[n]
  BY <1>2, <1>5
<1>7. h = (IF f = <<>> THEN NULL ELSE f[1]) /\ e = (IF f = <<>> THEN NULL ELSE f[Len(f)])
    /\ (f = <<>> <=> Len(f) = 0) /\ NULL \notin Jobs
  BY <1>2, <1>3, JobAssumption DEF LinksTo, LinksBack
<1>8. OnceEach(g)
  <2>1. ASSUME NEW m \in 1 .. Len(g), NEW n \in 1 .. Len(g), g[m] = g[n] PROVE m = n
    <3>1. (m = Len(g) \/ m \in 1 .. Len(f)) /\ (n = Len(g) \/ n \in 1 .. Len(f))
      BY <1>2, <1>6
    <3>2. m # Len(g) /\ n # Len(g) => f[m] = f[n] /\ m \in 1 .. Len(f) /\ n \in 1 .. Len(f)
      BY <1>6, <2>1, <3>1
    <3>3. m = Len(g) <=> n = Len(g)
      BY <1>2, <1>6, <2>1, <3>1
    <3> QED BY <1>2, <3>1, <3>2, <3>3 DEF OnceEach
  <2> QED BY <1>6, <2>1 DEF OnceEach
<1>9. LinksTo(g, q_head', j_next')
  <2>1. ASSUME NEW n \in 1 .. Len(g) PROVE j_next'[g[n]] = IF n = Len(g) THEN NULL ELSE g[n + 1]
    <3>1. CASE n = Len(f) + 1
      <4>1. e # j
        BY <1>2, <1>7
      <4> QED BY <1>2, <1>3, <1>4, <1>6, <3>1, <4>1 DEF JobTypeOK
    <3>2. CASE n = Len(f)
      <4>1. g[n] = f[n] /\ n \in 1 .. Len(f) /\ e = f[n] /\ e # NULL /\ e # j /\ g[n + 1] = j /\ n # Len(g)
        BY <1>2, <1>6, <1>7, <2>1, <3>2
      <4> QED BY <1>2, <1>3, <1>4, <4>1 DEF JobTypeOK
    <3>3. CASE n < Len(f)
      <4>1. /\ n \in 1 .. Len(f) /\ n + 1 \in 1 .. Len(f) /\ g[n] = f[n] /\ g[n + 1] = f[n + 1]
            /\ n # Len(g) /\ Len(f) \in 1 .. Len(f) /\ n # Len(f)
        BY <1>2, <1>6, <2>1, <3>3
      <4>2. f[n] # f[Len(f)] /\ f[n] # j /\ e = f[Len(f)]
        BY <1>2, <1>7, <4>1 DEF OnceEach
      <4>3. j_next'[f[n]] = nx[f[n]]
        BY <1>2, <1>3, <1>4, <4>1, <4>2 DEF JobTypeOK
      <4>4. nx[f[n]] = f[n + 1]
        BY <1>2, <1>3, <4>1 DEF LinksTo
      <4> QED BY <4>1, <4>3, <4>4
    <3> QED BY <1>2, <1>6, <2>1, <3>1, <3>2, <3>3
  <2>2. q_head' = g[1]
    BY <1>2, <1>4, <1>6, <1>7
  <2> QED BY <1>6, <2>1, <2>2 DEF LinksTo
<1>10. LinksBack(g, q_tail', j_prev')
  <2>1. ASSUME NEW n \in 1 .. Len(g) PROVE j_prev'[g[n]] = IF n = 1 THEN NULL ELSE g[n - 1]
    <3>1. CASE n = Len(f) + 1
      <4>1. j_prev'[g[n]] = e
        BY <1>2, <1>3, <1>4, <1>6, <3>1 DEF JobTypeOK
      <4>2. n # 1 => f # <<>> /\ g[n - 1] = f[Len(f)]
        BY <1>2, <1>6, <1>7, <3>1
      <4>3. n = 1 => f = <<>>
        BY <1>2, <1>7, <3>1
      <4> QED BY <1>7, <4>1, <4>2, <4>3
    <3>2. CASE n # Len(f) + 1
      <4>1. n \in 1 .. Len(f) /\ g[n] = f[n] /\ f[n] # j /\ f[n] \in Jobs
        BY <1>2, <1>6, <2>1, <3>2
      <4>2. j_prev'[f[n]] = pv[f[n]]
        BY <1>2, <1>3, <1>4, <4>1 DEF JobTypeOK
      <4>3. pv[f[n]] = IF n = 1 THEN NULL ELSE f[n - 1]
        BY <1>2, <1>3, <4>1 DEF LinksBack
      <4>4. n # 1 => g[n - 1] = f[n - 1]
        BY <1>2, <1>6, <4>1
      <4> QED BY <4>1, <4>2, <4>3, <4>4
    <3> QED BY <3>1, <3>2
  <2> QED BY <1>4, <1>6, <2>1 DEF LinksBack
<1>11. Job!Forward' = g
  BY <1>8, <1>9, ForwardNext
<1>12. JobTypeOK'
  <2>1. e \in Jobs \cup {NULL}
    BY <1>2, <1>7
  <2>2. j_prev' \in [Jobs -> Jobs \cup {NULL}] /\ j_id' \in [Jobs -> Threads \cup {NULL}]
    BY <1>2, <1>3, <1>4, <2>1 DEF JobTypeOK
  <2>3. j_next' \in [Jobs -> Jobs \cup {NULL}]
    BY <1>2, <1>3, <1>4, <2>1 DEF JobTypeOK
  <2> QED BY <1>2, <1>4, <2>2, <2>3 DEF JobTypeOK
<1>13. FoundRight'
  <2>1. ASSUME NEW u \in Threads, found[u] # NULL
        PROVE  j_id'[found[u]] = u /\ \E n \in DOMAIN g : g[n] = found[u]
    <3>1. found[u] \in Jobs /\ j_id[found[u]] = u /\ found[u] # j
      BY <1>2, <2>1 DEF JobInv, FoundRight, JobTypeOK
    <3>2. PICK n \in 1 .. Len(f) : f[n] = found[u]
      BY <1>1, <1>2, <2>1 DEF JobInv, FoundRight, Job!Queued
    <3>3. g[n] = f[n] /\ n \in DOMAIN g
      BY <1>2, <1>6, <3>2
    <3> QED BY <1>2, <1>4, <3>1, <3>2, <3>3 DEF JobTypeOK
  <2> QED BY <1>4, <1>11, <2>1 DEF FoundRight, Job!Queued
<1> QED BY <1>1, <1>4, <1>5, <1>8, <1>9, <1>10, <1>11, <1>12, <1>13 DEF JobInv, OnList

LEMMA RemovedJob ==
  ASSUME NEW f \in Seq(Jobs), NEW n \in 1 .. Len(f), NEW g, g = Job!RemoveAt(f, n)
  PROVE  /\ g \in Seq(Jobs) /\ Len(g) = Len(f) - 1
         /\ \A k \in 1 .. Len(g) : g[k] = IF k < n THEN f[k] ELSE f[k + 1]
<1>1. g = SubSeq(f, 1, n - 1) \o SubSeq(f, n + 1, Len(f)) /\ Len(f) \in Nat
  BY DEF Job!RemoveAt
<1>2. PICK a, b : a = SubSeq(f, 1, n - 1) /\ b = SubSeq(f, n + 1, Len(f))
  OBVIOUS
<1>3. a \in Seq(Jobs) /\ Len(a) = n - 1 /\ \A k \in 1 .. n - 1 : a[k] = f[k]
  <2>1. n - 1 \in 0 .. Len(f) /\ 0 \in Nat /\ 0 + 1 = 1
    BY <1>1
  <2> QED BY ONLY <1>2, <2>1, PartIs, f \in Seq(Jobs), n \in 1 .. Len(f), <1>1
<1>4. b \in Seq(Jobs) /\ Len(b) = Len(f) - n /\ \A k \in 1 .. Len(f) - n : b[k] = f[n + k]
  <2>1. n \in Nat /\ Len(f) \in 0 .. Len(f)
    BY <1>1
  <2> QED BY ONLY <1>2, <2>1, PartIs, f \in Seq(Jobs), n \in 1 .. Len(f), <1>1
<1>5. g = a \o b
  BY <1>1, <1>2
<1>6. /\ g \in Seq(Jobs) /\ Len(g) = Len(a) + Len(b)
      /\ \A k \in 1 .. Len(a) : g[k] = a[k]
      /\ \A k \in Len(a) + 1 .. Len(a) + Len(b) : g[k] = b[k - Len(a)]
  <2>1. a \in Seq(Jobs) /\ b \in Seq(Jobs)
    BY ONLY <1>3, <1>4
  <2>2. /\ a \o b \in Seq(Jobs) /\ Len(a \o b) = Len(a) + Len(b)
        /\ \A k \in 1 .. Len(a) : (a \o b)[k] = a[k]
        /\ \A k \in Len(a) + 1 .. Len(a) + Len(b) : (a \o b)[k] = b[k - Len(a)]
    BY ONLY <2>1, Joined, Zenon
  <2> QED BY ONLY <1>5, <2>2, Zenon
<1>7. /\ Len(g) = Len(f) - 1 /\ Len(f) \in Nat /\ n \in Nat /\ n <= Len(f) /\ n >= 1
      /\ Len(a) = n - 1 /\ Len(b) = Len(f) - n
  <2>1. Len(f) \in Nat /\ n \in Nat /\ n <= Len(f) /\ n >= 1
    BY ONLY <1>1, n \in 1 .. Len(f)
  <2>2. Len(a) = n - 1 /\ Len(b) = Len(f) - n /\ Len(g) = Len(a) + Len(b)
    BY ONLY <1>3, <1>4, <1>6
  <2> QED BY ONLY <2>1, <2>2
<1>8. ASSUME NEW k \in 1 .. Len(g) PROVE g[k] = IF k < n THEN f[k] ELSE f[k + 1]
  <2>1. CASE k < n
    <3>1. k \in 1 .. n - 1 /\ k \in 1 .. Len(a)
      BY ONLY <1>7, <2>1, k \in 1 .. Len(g)
    <3> QED BY ONLY <1>3, <1>6, <2>1, <3>1
  <2>2. CASE ~(k < n)
    <3>1. k \in Nat /\ k <= Len(f) - 1
      BY ONLY <1>7, k \in 1 .. Len(g)
    <3>2. k - (n - 1) \in 1 .. Len(f) - n
      BY ONLY <1>7, <2>2, <3>1
    <3>3. n + (k - (n - 1)) = k + 1
      BY ONLY <1>7, <3>1
    <3>4. k \in Len(a) + 1 .. Len(a) + Len(b) /\ k - Len(a) = k - (n - 1)
      BY ONLY <1>7, <2>2, <3>1
    <3>5. g[k] = b[k - (n - 1)]
      BY ONLY <1>6, <3>4
    <3> QED BY ONLY <1>4, <2>2, <3>2, <3>3, <3>5
  <2> QED BY <2>1, <2>2
<1> QED BY <1>6, <1>7, <1>8

LEMMA JobRemoveStep ==
  ASSUME JobInv, NEW t \in Threads, Job!job_remove(t)
  PROVE  /\ \E n \in DOMAIN Job!Forward : Job!Forward[n] = found[t] /\ Job!Forward' = Job!RemoveAt(Job!Forward, n)
         /\ JobInv'
<1>1. PICK f : f = Job!Forward
  OBVIOUS
<1>2. /\ OnceEach(f) /\ LinksTo(f, q_head, j_next) /\ LinksBack(f, q_tail, j_prev) /\ JobTypeOK
      /\ f \in Seq(Jobs) /\ Len(f) \in Nat /\ \A k \in 1 .. Len(f) : f[k] \in Jobs
  BY <1>1 DEF JobInv, OnList, OnceEach
<1>3. PICK h, e, nx, pv : /\ h = q_head /\ e = q_tail /\ nx = j_next /\ pv = j_prev
  OBVIOUS
<1>4. PICK n \in 1 .. Len(f) : f[n] = found[t]
  BY <1>1, <1>2 DEF JobInv, FoundRight, Job!Queued, Job!job_remove
<1>5. PICK j \in Jobs : j = f[n]
  BY <1>2
<1>6. /\ found' = [found EXCEPT ![t] = NULL] /\ j_id' = j_id
      /\ Job!RemoveLinks(j)
  BY <1>4, <1>5 DEF Job!job_remove
<1>7. PICK g : g = Job!RemoveAt(f, n)
  OBVIOUS
<1>8. /\ g \in Seq(Jobs) /\ Len(g) = Len(f) - 1 /\ Len(g) \in Nat
      /\ \A k \in 1 .. Len(g) : g[k] = IF k < n THEN f[k] ELSE f[k + 1]
      /\ (g = <<>> <=> Len(g) = 0)
  BY <1>2, <1>7, RemovedJob
<1>9. h = f[1] /\ e = f[Len(f)] /\ f # <<>> /\ NULL \notin Jobs
  BY <1>2, <1>3, JobAssumption DEF LinksTo, LinksBack
<1>10. \A k \in 1 .. Len(f) : /\ nx[f[k]] = (IF k = Len(f) THEN NULL ELSE f[k + 1])
                              /\ pv[f[k]] = (IF k = 1 THEN NULL ELSE f[k - 1])
  BY <1>2, <1>3 DEF LinksTo, LinksBack
<1>11. j = h <=> n = 1
  BY <1>2, <1>5, <1>9 DEF OnceEach
<1>12. j = e <=> n = Len(f)
  BY <1>2, <1>5, <1>9 DEF OnceEach
<1>13. OnceEach(g)
  <2>1. ASSUME NEW a \in 1 .. Len(g), NEW b \in 1 .. Len(g), g[a] = g[b] PROVE a = b
    <3>1. PICK c, d : c = (IF a < n THEN a ELSE a + 1) /\ d = (IF b < n THEN b ELSE b + 1)
      OBVIOUS
    <3>2. c \in 1 .. Len(f) /\ d \in 1 .. Len(f) /\ g[a] = f[c] /\ g[b] = f[d]
      BY <1>2, <1>8, <3>1
    <3>3. c = d
      BY <1>2, <2>1, <3>2 DEF OnceEach
    <3> QED BY <3>1, <3>3
  <2> QED BY <1>8, <2>1 DEF OnceEach
(* The links that change are those of the neighbours.                      *)
<1>14. /\ q_head' = (IF n = 1 THEN nx[j] ELSE h)
       /\ q_tail' = (IF n = 1 THEN (IF n = Len(f) THEN NULL ELSE e) ELSE IF n = Len(f) THEN pv[j] ELSE e)
       /\ j_next' = (IF n = 1 THEN nx ELSE [nx EXCEPT ![f[n - 1]] = nx[j]])
       /\ j_prev' = (IF n = Len(f) THEN pv ELSE [pv EXCEPT ![f[n + 1]] = pv[j]])
  <2>1. n # 1 => pv[j] = f[n - 1]
    BY <1>5, <1>10
  <2>2. n # Len(f) => nx[j] = f[n + 1]
    BY <1>5, <1>10
  <2>3. CASE n = 1
    BY <1>3, <1>6, <1>11, <1>12, <2>2, <2>3 DEF Job!RemoveLinks
  <2>4. CASE n # 1 /\ n = Len(f)
    BY <1>3, <1>6, <1>11, <1>12, <2>1, <2>4 DEF Job!RemoveLinks
  <2>5. CASE n # 1 /\ n # Len(f)
    BY <1>3, <1>6, <1>11, <1>12, <2>1, <2>2, <2>5 DEF Job!RemoveLinks
  <2> QED BY <2>3, <2>4, <2>5
<1>15. ASSUME NEW k \in 1 .. Len(f), k # n PROVE j_next'[f[k]] = IF k = n - 1 THEN nx[j] ELSE nx[f[k]]
  <2>1. CASE n = 1
    BY <1>14, <2>1
  <2>2. CASE n # 1
    <3>1. n - 1 \in 1 .. Len(f) /\ f[n - 1] \in Jobs /\ f[k] \in Jobs
      BY <1>2, <2>2
    <3>2. f[k] = f[n - 1] <=> k = n - 1
      BY <1>2, <3>1 DEF OnceEach
    <3> QED BY <1>2, <1>3, <1>14, <2>2, <3>1, <3>2 DEF JobTypeOK
  <2> QED BY <2>1, <2>2
<1>16. ASSUME NEW k \in 1 .. Len(f), k # n PROVE j_prev'[f[k]] = IF k = n + 1 THEN pv[j] ELSE pv[f[k]]
  <2>1. CASE n = Len(f)
    BY <1>2, <1>14, <2>1
  <2>2. CASE n # Len(f)
    <3>1. n + 1 \in 1 .. Len(f) /\ f[n + 1] \in Jobs /\ f[k] \in Jobs
      BY <1>2, <2>2
    <3>2. f[k] = f[n + 1] <=> k = n + 1
      BY <1>2, <3>1 DEF OnceEach
    <3> QED BY <1>2, <1>3, <1>14, <2>2, <3>1, <3>2 DEF JobTypeOK
  <2> QED BY <2>1, <2>2
<1>17. LinksTo(g, q_head', j_next')
  <2>1. q_head' = IF g = <<>> THEN NULL ELSE g[1]
    BY <1>2, <1>5, <1>8, <1>9, <1>10, <1>14
  <2>2. ASSUME NEW k \in 1 .. Len(g) PROVE j_next'[g[k]] = IF k = Len(g) THEN NULL ELSE g[k + 1]
    <3>1. CASE k < n - 1
      <4>1. k \in 1 .. Len(f) /\ k # n /\ k # n - 1 /\ g[k] = f[k] /\ k # Len(f) /\ k # Len(g)
            /\ g[k + 1] = f[k + 1]
        BY <1>2, <1>8, <3>1
      <4> QED BY <1>10, <1>15, <4>1
    <3>2. CASE k = n - 1
      <4>1. k \in 1 .. Len(f) /\ k # n /\ g[k] = f[k]
        BY <1>2, <1>8, <3>2
      <4>2. j_next'[g[k]] = (IF n = Len(f) THEN NULL ELSE f[n + 1])
        BY <1>5, <1>10, <1>15, <3>2, <4>1
      <4>3. (n = Len(f) <=> k = Len(g)) /\ (k # Len(g) => g[k + 1] = f[n + 1])
        BY <1>2, <1>8, <3>2
      <4> QED BY <4>2, <4>3
    <3>3. CASE k > n - 1
      <4>1. k + 1 \in 1 .. Len(f) /\ k + 1 # n /\ k + 1 # n - 1 /\ g[k] = f[k + 1]
            /\ (k = Len(g) <=> k + 1 = Len(f)) /\ (k # Len(g) => g[k + 1] = f[(k + 1) + 1])
        BY <1>2, <1>8, <3>3
      <4>2. j_next'[f[k + 1]] = nx[f[k + 1]]
        BY <1>15, <4>1
      <4>3. nx[f[k + 1]] = IF k + 1 = Len(f) THEN NULL ELSE f[(k + 1) + 1]
        BY <1>10, <4>1
      <4> QED BY <4>1, <4>2, <4>3
    <3> QED BY <1>8, <2>2, <3>1, <3>2, <3>3
  <2> QED BY <2>1, <2>2 DEF LinksTo
<1>18. LinksBack(g, q_tail', j_prev')
  <2>1. q_tail' = IF g = <<>> THEN NULL ELSE g[Len(g)]
    <3>1. n = Len(f) /\ n # 1 => pv[j] = f[n - 1] /\ g[Len(g)] = f[n - 1]
      BY <1>2, <1>5, <1>8, <1>10
    <3>2. n # Len(f) => g[Len(g)] = f[Len(f)] /\ Len(g) # 0
      BY <1>2, <1>8
    <3> QED BY <1>2, <1>8, <1>9, <1>14, <3>1, <3>2
  <2>2. ASSUME NEW k \in 1 .. Len(g) PROVE j_prev'[g[k]] = IF k = 1 THEN NULL ELSE g[k - 1]
    <3>1. CASE k < n
      <4>1. k \in 1 .. Len(f) /\ k # n /\ k # n + 1 /\ g[k] = f[k] /\ (k # 1 => g[k - 1] = f[k - 1])
        BY <1>2, <1>8, <3>1
      <4>2. j_prev'[f[k]] = pv[f[k]]
        BY <1>16, <4>1
      <4>3. pv[f[k]] = IF k = 1 THEN NULL ELSE f[k - 1]
        BY <1>10, <4>1
      <4> QED BY <4>1, <4>2, <4>3
    <3>2. CASE k = n
      <4>1. n + 1 \in 1 .. Len(f) /\ n + 1 # n /\ g[k] = f[n + 1] /\ (k # 1 => g[k - 1] = f[n - 1])
        BY <1>2, <1>8, <3>2
      <4>2. j_prev'[f[n + 1]] = pv[j]
        BY <1>16, <4>1
      <4>3. pv[j] = IF n = 1 THEN NULL ELSE f[n - 1]
        BY <1>5, <1>10
      <4> QED BY <3>2, <4>1, <4>2, <4>3
    <3>3. CASE k > n
      <4>1. k + 1 \in 1 .. Len(f) /\ k + 1 # n /\ k + 1 # n + 1 /\ g[k] = f[k + 1] /\ k # 1 /\ k + 1 # 1
            /\ g[k - 1] = f[(k + 1) - 1]
        BY <1>2, <1>8, <3>3
      <4>2. j_prev'[f[k + 1]] = pv[f[k + 1]]
        BY <1>16, <4>1
      <4>3. pv[f[k + 1]] = f[(k + 1) - 1]
        BY <1>10, <4>1
      <4> QED BY <4>1, <4>2, <4>3
    <3> QED BY <1>8, <2>2, <3>1, <3>2, <3>3
  <2> QED BY <2>1, <2>2 DEF LinksBack
<1>19. Job!Forward' = g
  BY <1>13, <1>17, ForwardNext
<1>20. JobTypeOK'
  <2>1. nx[j] \in Jobs \cup {NULL} /\ pv[j] \in Jobs \cup {NULL}
    BY <1>2, <1>3 DEF JobTypeOK
  <2>2. j_next' \in [Jobs -> Jobs \cup {NULL}]
    BY <1>2, <1>3, <1>14, <2>1 DEF JobTypeOK
  <2>3. j_prev' \in [Jobs -> Jobs \cup {NULL}]
    BY <1>2, <1>3, <1>14, <2>1 DEF JobTypeOK
  <2> QED BY <1>2, <1>6, <2>2, <2>3 DEF JobTypeOK
<1>21. FoundRight'
  <2>1. ASSUME NEW u \in Threads, found'[u] # NULL
        PROVE  j_id'[found'[u]] = u /\ \E k \in DOMAIN g : g[k] = found'[u]
    <3>1. u # t /\ found'[u] = found[u] /\ found[u] # NULL
      BY <1>2, <1>6, <2>1 DEF JobTypeOK
    <3>2. j_id[found[u]] = u /\ j_id[j] = t
      BY <1>4, <1>5, <1>9, <3>1 DEF JobInv, FoundRight
    <3>3. PICK k \in 1 .. Len(f) : f[k] = found[u]
      BY <1>1, <1>2, <3>1 DEF JobInv, FoundRight, Job!Queued
    <3>4. k # n
      BY <1>5, <3>1, <3>2, <3>3
    <3>5. PICK m : m = IF k < n THEN k ELSE k - 1
      OBVIOUS
    <3>6. m \in 1 .. Len(g) /\ g[m] = f[k] /\ m \in DOMAIN g
      BY <1>2, <1>8, <3>4, <3>5
    <3> QED BY <1>6, <3>1, <3>2, <3>3, <3>6
  <2> QED BY <1>19, <2>1 DEF FoundRight, Job!Queued
<1> QED BY <1>1, <1>2, <1>4, <1>7, <1>13, <1>17, <1>18, <1>19, <1>20, <1>21 DEF JobInv, OnList

LEMMA FindStep == ASSUME JobInv, NEW t \in Threads, Job!job_find(t) PROVE JobInv'
<1>1. UNCHANGED <<q_head, q_tail, j_next, j_prev, j_id>> /\ Job!Forward' = Job!Forward
  BY DEF Job!job_find, Job!queue, Job!Forward, Job!Linked
<1>2. PICK f : f = Job!Forward
  OBVIOUS
<1>3. PICK own : own = {n \in DOMAIN f : j_id[f[n]] = t}
  OBVIOUS
<1>4. found' = [found EXCEPT ![t] = IF own = {} THEN NULL ELSE f[Job!Min(own)]]
  BY <1>2, <1>3 DEF Job!job_find
<1>5. f \in Seq(Jobs) /\ DOMAIN f = 1 .. Len(f) /\ Len(f) \in Nat
  BY <1>2 DEF JobInv, OnList, OnceEach
<1>6. own # {} => Job!Min(own) \in own
  <2>1. own \in SUBSET Nat
    BY <1>3, <1>5
  <2> QED BY <2>1, LeastNat DEF Job!Min
<1>7. found' \in [Threads -> Jobs \cup {NULL}]
  BY <1>3, <1>4, <1>5, <1>6 DEF JobInv, JobTypeOK
<1>8. ASSUME NEW u \in Threads, found'[u] # NULL
      PROVE  j_id[found'[u]] = u /\ \E n \in DOMAIN f : f[n] = found'[u]
  <2>1. CASE u = t
    BY <1>3, <1>4, <1>6, <1>8, <2>1 DEF JobInv, JobTypeOK
  <2>2. CASE u # t
    BY <1>2, <1>4, <1>8, <2>2 DEF JobInv, JobTypeOK, FoundRight, Job!Queued
  <2> QED BY <2>1, <2>2
<1> QED BY <1>1, <1>2, <1>7, <1>8 DEF JobInv, JobTypeOK, OnList, FoundRight, Job!Queued

(* Whatever jobs are put in, found and taken out, by any number of threads *)
(* between whose calls the lock is free, the links do what a list does.    *)
THEOREM LinksAreList == MCSpec => ImplementsJobList
<1>1. MCInit => JobInv /\ Job!Abs!Init
  <2> SUFFICES ASSUME MCInit PROVE JobInv /\ Job!Abs!Init
    OBVIOUS
  <2>1. Job!Init /\ JobInv /\ Job!Forward = <<>>
    BY JobInit DEF MCInit
  <2> QED BY <2>1 DEF Job!Abs!Init, Job!Init
<1>2. JobInv /\ [MCNext]_all => JobInv' /\ [Job!Abs!Next]_Job!Abs!vars
  <2> SUFFICES ASSUME JobInv, [MCNext]_all PROVE JobInv' /\ [Job!Abs!Next]_Job!Abs!vars
    OBVIOUS
  <2>1. CASE UNCHANGED jobVars
    <3>1. UNCHANGED <<q_head, q_tail, j_next, j_prev, j_id, found>> /\ Job!Forward' = Job!Forward
      BY <2>1 DEF jobVars, Job!Forward, Job!Linked
    <3> QED BY <3>1 DEF JobInv, JobTypeOK, OnList, FoundRight, Job!Queued, Job!Abs!vars
  <2>2. ASSUME NEW t \in Threads, Job!job_find(t) PROVE JobInv' /\ Job!Abs!Next
    <3>1. Job!Forward' = Job!Forward
      BY <2>2 DEF Job!job_find, Job!queue, Job!Forward, Job!Linked
    <3>2. Job!Abs!Find(t)
      BY <2>2, <3>1 DEF Job!Abs!Find, Job!job_find, Job!queue, Job!Min, Job!Abs!Min
    <3> QED BY <2>2, <3>2, FindStep DEF Job!Abs!Next
  <2>3. ASSUME NEW t \in Threads, Job!job_remove(t) PROVE JobInv' /\ Job!Abs!Next
    <3>1. Job!Abs!TakeOut(t)
      BY <2>3, JobRemoveStep DEF Job!Abs!TakeOut, Job!job_remove, Job!RemoveAt, Job!Abs!RemoveAt
    <3> QED BY <2>3, <3>1, JobRemoveStep DEF Job!Abs!Next
  <2>4. ASSUME NEW t \in Threads, NEW j \in Jobs, Job!job_insert(j, t) PROVE JobInv' /\ Job!Abs!Next
    <3>1. Job!Abs!Insert(j, t)
      BY <2>4, InsertStep DEF Job!Abs!Insert, Job!job_insert
    <3> QED BY <2>4, <3>1, InsertStep DEF Job!Abs!Next
  <2>5. ASSUME NEW t \in Threads, NEW j \in Jobs, Job!job_append(j, t) PROVE JobInv' /\ Job!Abs!Next
    <3>1. Job!Abs!AppendJob(j, t)
      BY <2>5, AppendStep DEF Job!Abs!AppendJob, Job!job_append
    <3> QED BY <2>5, <3>1, AppendStep DEF Job!Abs!Next
  <2> QED BY <2>1, <2>2, <2>3, <2>4, <2>5 DEF Job!Next, MCNext, Runs, all
<1> QED BY <1>1, <1>2, PTL DEF MCSpec, ImplementsJobList, Job!ImplementsJobList, Job!Abs!Spec

-----------------------------------------------------------------------------
(* The open server.  Its tables agree with the connections it has          *)
(* accepted, what poll or select reported of the entries it has not come   *)
(* to is still true, and each call has one request or one answer on its    *)
(* way.                                                                    *)

Entry == [fd : Nat, uid : Clients \cup {1}]
PollEntry == [fd : Nat, revents : SUBSET {"POLLIN", "POLLHUP"}]

OpenTypeOK ==
  /\ build \in {"poll", "select"} /\ spc \in {"wait", "accept", "scan", "status", "dead"}
  /\ i \in Nat /\ maxi \in Nat /\ maxfd \in Nat
  /\ client \in Seq(Entry) /\ pollfd \in Seq(PollEntry)
  /\ fdOf \in [Clients -> Nat] /\ backlog \in Seq(Clients)
  /\ in = [c \in Clients |-> in[c]] /\ out = [c \in Clients |-> out[c]]
  /\ cpc \in [Clients -> {"new", "ready", "waiting", "gone"}]
  /\ asked = [c \in Clients |-> asked[c]] /\ got = [c \in Clients |-> got[c]]
  /\ spc = "status" => handled[1] \in Clients

(* A connection has its own descriptor, or waits for one.                  *)
FdsRight ==
  /\ \A c \in Clients : fdOf[c] # 1
  /\ \A c, d \in Clients : fdOf[c] = fdOf[d] /\ fdOf[c] # 0 => c = d
BacklogRight ==
  /\ \A m, n \in 1 .. Len(backlog) : backlog[m] = backlog[n] => m = n
  /\ \A n \in 1 .. Len(backlog) : fdOf[backlog[n]] = 0 /\ cpc[backlog[n]] # "new"
  /\ spc = "accept" => backlog # <<>>

(* An entry for each connection, and none for what is no connection        *)
Watches(f) == f # 0 /\ \E c \in Clients : fdOf[c] = f
TableRight ==
  /\ \A c \in Clients : fdOf[c] # 0 => \E n \in 1 .. Len(client) : client[n].fd = fdOf[c]
  /\ \A m, n \in 1 .. Len(client) :
       client[m].fd = client[n].fd /\ client[m].fd \notin {0, 1} => m = n
  /\ \A n \in 1 .. Len(client) : client[n].fd \in {0, 1} \/ Watches(client[n].fd)

(* The first entry that is not yet looked at                               *)
NextEntry == IF spc = "status" THEN i + 1 ELSE i
StillTrue(e, c) ==
  fdOf[c] = e.fd => /\ "POLLIN" \in e.revents => Open!Readable(c)
                    /\ "POLLHUP" \in e.revents => Open!Gone(c)
PollRight ==
  build = "poll" =>
    /\ \A c \in Clients : fdOf[c] # 0 => \E n \in 1 .. Len(pollfd) : pollfd[n].fd = fdOf[c]
    /\ \A m, n \in 1 .. Len(pollfd) : pollfd[m].fd = pollfd[n].fd => m = n
    /\ \A n \in 1 .. Len(pollfd) : Watches(pollfd[n].fd)
    /\ Len(pollfd) < maxfd /\ i > 0
    /\ spc \in {"accept", "scan", "status"} =>
         \A n \in 1 .. Len(pollfd), c \in Clients : n >= NextEntry => StillTrue(pollfd[n], c)
SelectRight ==
  build = "select" =>
    /\ allset = {1} \cup Open!Accepted
    /\ \A n \in 1 .. Len(client) : client[n].fd # 1 /\ (client[n].fd # 0 => n <= maxi)
    /\ maxi <= Len(client) /\ i > 0
    /\ spc \in {"scan", "status"} =>
         \A n \in 1 .. Len(client), c \in Clients :
           n >= NextEntry /\ client[n].fd \in rset /\ fdOf[c] = client[n].fd /\ fdOf[c] # 0 =>
             Open!Readable(c)

(* The call of a client: what is on its way, and what it may return        *)
ErrText == [is |-> "text"]
ErrStatus == [is |-> "status"]
Partial == {<<>>, <<ErrText>>}
Full(name) ==
  IF name \in Files THEN {<<[is |-> "fd", name |-> name]>>}
                    ELSE {<<ErrText, ErrStatus>>, <<ErrStatus>>}
Handling(c) == spc = "status" /\ handled[1] = c
Still(c) == in[c] = <<>> /\ out[c] = <<>> /\ ~Handling(c)

WaitsRight(c) == cpc[c] = "waiting" => out[c] \in Partial \cup Full(asked[c])
ReadyRight(c) == cpc[c] = "ready" => got[c] \in Open!Answers(asked[c])
CallRight(c) ==
  Open!Up =>
    /\ cpc[c] = "new" => fdOf[c] = 0
    /\ cpc[c] \in {"waiting", "ready"} => fdOf[c] # 0 \/ Open!Pending(c)
    /\ cpc[c] \in {"new", "ready"} \/ (cpc[c] = "gone" /\ c \notin broke) => Still(c)
    /\ in[c] # <<>> => in[c] = <<asked[c]>> /\ out[c] = <<>> /\ ~Handling(c)
    /\ Handling(c) => out[c] \in Partial /\ asked[c] \notin Files
    /\ ~Handling(c) => out[c] \in {<<>>} \cup Full(asked[c])
ClientRight(c) == WaitsRight(c) /\ ReadyRight(c) /\ CallRight(c)

OpenInv ==
  /\ OpenTypeOK /\ FdsRight /\ BacklogRight /\ TableRight /\ PollRight /\ SelectRight
  /\ \A c \in Clients : ClientRight(c)
  /\ Open!Up \/ broke # {}

LEMMA OpenCardinality == ASSUME NEW S PROVE Open!Cardinality(S) = Cardinality(S)
  BY DEF Open!Cardinality, Cardinality

LEMMA ClientAtIs ==
  ASSUME FdsRight, NEW c \in Clients, fdOf[c] # 0
  PROVE  Open!ClientAt(fdOf[c]) = c
<1>1. \A d \in Clients : fdOf[d] = fdOf[c] => d = c
  BY DEF FdsRight
<1>2. \E d \in Clients : fdOf[d] = fdOf[c]
  OBVIOUS
<1> QED BY <1>1, <1>2 DEF Open!ClientAt

(* There is a descriptor that no client has.                               *)
LEMMA NewFdIs ==
  ASSUME OpenTypeOK
  PROVE  Open!NewFd \in Nat /\ Open!NewFd > 1 /\ \A c \in Clients : fdOf[c] # Open!NewFd
<1>1. PICK k : k = Cardinality(Clients)
  OBVIOUS
<1>2. k \in Nat /\ IsFiniteSet(Clients)
  BY <1>1, OpenAssumption, FS_CardinalityType
<1>3. PICK T : T = {f \in 2 .. k + 2 : \A c \in Clients : fdOf[c] # f}
  OBVIOUS
<1>4. T # {}
  <2> SUFFICES ASSUME T = {} PROVE FALSE
    OBVIOUS
  <2>1. PICK U : U = {c \in Clients : fdOf[c] \in 2 .. k + 2}
    OBVIOUS
  <2>2. PICK g : g = [c \in U |-> fdOf[c]]
    OBVIOUS
  <2>3. g \in Surjection(U, 2 .. k + 2)
    <3>1. g \in [U -> 2 .. k + 2]
      BY <2>1, <2>2
    <3>2. \A f \in 2 .. k + 2 : \E c \in U : g[c] = f
      BY <1>3, <2>1, <2>2
    <3> QED BY <3>1, <3>2 DEF Surjection
  <2>4. IsFiniteSet(U) /\ Cardinality(U) <= k
    BY <1>1, <1>2, <2>1, FS_Subset
  <2>5. Cardinality(2 .. k + 2) <= Cardinality(U)
    BY <2>3, <2>4, FS_Surjection
  <2>6. Cardinality(2 .. k + 2) = k + 1
    BY <1>2, FS_Interval
  <2> QED BY <1>2, <2>4, <2>5, <2>6, FS_CardinalityType
<1>5. PICK f \in T : \A g \in T : f <= g
  <2>1. T \in SUBSET Nat
    BY <1>2, <1>3
  <2> QED BY <1>4, <2>1, LeastNat
<1>6. f \in 2 .. k + 2 /\ \A c \in Clients : fdOf[c] # f
  BY <1>3, <1>5
<1>7. ASSUME NEW n \in 2 .. f - 1 PROVE \E c \in Clients : fdOf[c] = n
  <2>1. n \in 2 .. k + 2 /\ n \notin T
    BY <1>2, <1>5, <1>6, <1>7
  <2> QED BY <1>3, <2>1
<1>8. Open!NewFd = CHOOSE fd \in 2 .. k + 2 :
           /\ \A c \in Clients : fdOf[c] # fd
           /\ \A n \in 2 .. fd - 1 : \E c \in Clients : fdOf[c] = n
  BY <1>1, OpenCardinality DEF Open!NewFd
<1>9. PICK a : a = Open!NewFd
  OBVIOUS
<1>10. a \in 2 .. k + 2 /\ \A c \in Clients : fdOf[c] # a
  BY <1>6, <1>7, <1>8, <1>9
<1> QED BY <1>2, <1>9, <1>10

(* client_add: u is t with a new entry at n, which was free or is new.     *)
AddedTo(t, u, f, n) ==
  /\ u \in Seq(Entry) /\ Len(u) >= Len(t) /\ n \in 1 .. Len(u)
  /\ n <= Len(t) => t[n].fd = 0
  /\ \A m \in 1 .. Len(u) : u[m].fd = IF m = n THEN f ELSE IF m <= Len(t) THEN t[m].fd ELSE 0

LEMMA FirstFreeIs ==
  ASSUME NEW t \in Seq(Entry), NEW k \in 1 .. Len(t), t[k].fd = 0
  PROVE  Open!FirstFree(t) \in 1 .. Len(t) /\ t[Open!FirstFree(t)].fd = 0
<1>1. PICK T : T = {m \in 1 .. Len(t) : t[m].fd = 0}
  OBVIOUS
<1>2. T \in SUBSET Nat /\ T # {} /\ DOMAIN t = 1 .. Len(t) /\ Len(t) \in Nat
  BY <1>1
<1>3. PICK n \in T : \A m \in T : n <= m
  BY <1>2, LeastNat
<1>4. n \in 1 .. Len(t) /\ t[n].fd = 0
  BY <1>1, <1>3
<1>5. ASSUME NEW m \in 1 .. n - 1 PROVE t[m].fd # 0
  <2>1. m \in 1 .. Len(t) /\ ~(n <= m)
    BY <1>2, <1>4
  <2> QED BY <1>1, <1>3, <2>1
<1>6. \E x \in DOMAIN t : t[x].fd = 0 /\ \A m \in 1 .. x - 1 : t[m].fd # 0
  BY <1>2, <1>4, <1>5
<1> QED BY <1>2, <1>6 DEF Open!FirstFree

LEMMA EntryPut ==
  ASSUME NEW t \in Seq(Entry), NEW n \in 1 .. Len(t), NEW e \in Entry
  PROVE  /\ [t EXCEPT ![n] = e] \in Seq(Entry) /\ Len([t EXCEPT ![n] = e]) = Len(t)
         /\ \A m \in 1 .. Len(t) : [t EXCEPT ![n] = e][m] = IF m = n THEN e ELSE t[m]
OBVIOUS

LEMMA GrownIs ==
  ASSUME NEW t \in Seq(Entry)
  PROVE  /\ Open!Grown(t) \in Seq(Entry) /\ Len(Open!Grown(t)) = Len(t) + NALLOC
         /\ \A m \in 1 .. Len(t) : Open!Grown(t)[m] = t[m]
         /\ \A m \in Len(t) + 1 .. Len(t) + NALLOC : Open!Grown(t)[m].fd = 0
<1>1. PICK s : s = [n \in 1 .. NALLOC |-> Open!Free]
  OBVIOUS
<1>2. Open!Free \in Entry /\ Open!Free.fd = 0 /\ NALLOC \in Nat
  BY OpenAssumption DEF Open!Free, Open!ListenFd, Entry
<1>3. s \in Seq(Entry) /\ Len(s) = NALLOC /\ \A m \in 1 .. NALLOC : s[m].fd = 0
  BY <1>1, <1>2
<1>4. Open!Grown(t) = t \o s
  BY <1>1 DEF Open!Grown
<1>5. /\ t \o s \in Seq(Entry) /\ Len(t \o s) = Len(t) + Len(s)
      /\ \A m \in 1 .. Len(t) : (t \o s)[m] = t[m]
      /\ \A m \in Len(t) + 1 .. Len(t) + Len(s) : (t \o s)[m] = s[m - Len(t)]
  BY <1>3
<1>6. ASSUME NEW m \in Len(t) + 1 .. Len(t) + NALLOC PROVE m - Len(t) \in 1 .. NALLOC
  BY <1>2
<1> QED BY <1>3, <1>4, <1>5, <1>6

LEMMA ClientAdd ==
  ASSUME NEW t \in Seq(Entry), NEW f \in Nat, NEW c \in Clients \cup {1}
  PROVE  AddedTo(t, Open!client_add(t, f, c)[1], f, Open!client_add(t, f, c)[2])
<1>1. PICK e : e = [fd |-> f, uid |-> c]
  OBVIOUS
<1>2. e \in Entry /\ e.fd = f
  BY <1>1 DEF Entry
<1>3. PICK r : r = IF \E n \in DOMAIN t : t[n].fd = 0 THEN t ELSE Open!Grown(t)
  OBVIOUS
<1>4. PICK n : n = Open!FirstFree(r)
  OBVIOUS
<1>5. Open!client_add(t, f, c) = <<[r EXCEPT ![n] = e], n>>
  BY <1>1, <1>3, <1>4 DEF Open!client_add
<1>6. /\ r \in Seq(Entry) /\ Len(r) >= Len(t) /\ n \in 1 .. Len(r) /\ r[n].fd = 0
      /\ \A m \in 1 .. Len(r) : r[m].fd = IF m <= Len(t) THEN t[m].fd ELSE 0
  <2>1. CASE \E k \in DOMAIN t : t[k].fd = 0
    <3>1. r = t /\ Len(t) \in Nat /\ DOMAIN t = 1 .. Len(t)
      BY <1>3, <2>1
    <3>2. n \in 1 .. Len(r) /\ r[n].fd = 0
      BY <1>4, <2>1, <3>1, FirstFreeIs
    <3> QED BY <3>1, <3>2
  <2>2. CASE ~\E k \in DOMAIN t : t[k].fd = 0
    <3>1. r = Open!Grown(t) /\ Len(t) \in Nat /\ NALLOC \in Nat \ {0}
      BY <1>3, <2>2, OpenAssumption
    <3>2. r \in Seq(Entry) /\ Len(r) = Len(t) + NALLOC
      BY <3>1, GrownIs
    <3>3. \A m \in 1 .. Len(r) : r[m].fd = IF m <= Len(t) THEN t[m].fd ELSE 0
      <4> SUFFICES ASSUME NEW m \in 1 .. Len(r) PROVE r[m].fd = IF m <= Len(t) THEN t[m].fd ELSE 0
        OBVIOUS
      <4>1. CASE m <= Len(t)
        <5>1. m \in 1 .. Len(t)
          BY <3>1, <3>2, <4>1
        <5> QED BY <3>1, <4>1, <5>1, GrownIs
      <4>2. CASE ~(m <= Len(t))
        <5>1. m \in Len(t) + 1 .. Len(t) + NALLOC
          BY <3>1, <3>2, <4>2
        <5> QED BY <3>1, <4>2, <5>1, GrownIs
      <4> QED BY <4>1, <4>2
    <3>4. Len(t) + 1 \in 1 .. Len(r) /\ ~(Len(t) + 1 <= Len(t))
      BY <3>1, <3>2
    <3>5. r[Len(t) + 1].fd = 0
      BY <3>3, <3>4
    <3>6. n \in 1 .. Len(r) /\ r[n].fd = 0
      BY <1>4, <3>2, <3>4, <3>5, FirstFreeIs
    <3> QED BY <3>1, <3>2, <3>3, <3>6
  <2> QED BY <2>1, <2>2
<1>7. PICK u : u = [r EXCEPT ![n] = e]
  OBVIOUS
<1>8. /\ u \in Seq(Entry) /\ Len(u) = Len(r)
      /\ \A m \in 1 .. Len(r) : u[m] = IF m = n THEN e ELSE r[m]
  BY <1>2, <1>6, <1>7, EntryPut
<1>9. AddedTo(t, u, f, n)
  <2>1. \A m \in 1 .. Len(u) : u[m].fd = IF m = n THEN f ELSE IF m <= Len(t) THEN t[m].fd ELSE 0
    BY <1>2, <1>6, <1>8
  <2>2. n <= Len(t) => t[n].fd = 0
    BY <1>6
  <2> QED BY <1>6, <1>8, <2>1, <2>2 DEF AddedTo
<1> QED BY <1>5, <1>7, <1>9

(* client_del: the only entry with a descriptor is freed.                  *)
LEMMA ClientDel ==
  ASSUME NEW t \in Seq(Entry), NEW k \in 1 .. Len(t), NEW f, t[k].fd = f,
         \A n \in 1 .. Len(t) : t[n].fd = f => n = k
  PROVE  /\ Open!client_del(t, f) \in Seq(Entry) /\ Len(Open!client_del(t, f)) = Len(t)
         /\ \A m \in 1 .. Len(t) :
              Open!client_del(t, f)[m].fd = IF m = k THEN 0 ELSE t[m].fd
<1>1. DOMAIN t = 1 .. Len(t) /\ Len(t) \in Nat /\ t[k] \in Entry
  OBVIOUS
<1>2. \A x \in DOMAIN t : (t[x].fd = f /\ \A m \in 1 .. x - 1 : t[m].fd # f) <=> x = k
  <2>1. \A m \in 1 .. k - 1 : m \in 1 .. Len(t) /\ m # k
    BY <1>1
  <2> QED BY <1>1, <2>1
<1>3. (CHOOSE n \in DOMAIN t : t[n].fd = f /\ \A m \in 1 .. n - 1 : t[m].fd # f) = k
  BY <1>1, <1>2
<1>4. PICK e : e = [t[k] EXCEPT !.fd = 0]
  OBVIOUS
<1>5. e \in Entry /\ e.fd = 0
  BY <1>1, <1>4 DEF Entry
<1>6. Open!client_del(t, f) = [t EXCEPT ![k] = e]
  BY <1>1, <1>3, <1>4 DEF Open!client_del
<1>7. \A m \in 1 .. Len(t) : [t EXCEPT ![k] = e][m] = IF m = k THEN e ELSE t[m]
  BY <1>5, EntryPut
<1>8. [t EXCEPT ![k] = e] \in Seq(Entry) /\ Len([t EXCEPT ![k] = e]) = Len(t)
  BY <1>5, EntryPut
<1> QED BY <1>5, <1>6, <1>7, <1>8

(* hungup in loop.poll.c: the last entry takes the place of entry k.       *)
LEMMA LastTakesPlace ==
  ASSUME NEW q \in Seq(PollEntry), NEW k \in 1 .. Len(q), NEW r,
         r = SubSeq([q EXCEPT ![k] = q[Len(q)]], 1, Len(q) - 1)
  PROVE  /\ r \in Seq(PollEntry) /\ Len(r) = Len(q) - 1
         /\ \A m \in 1 .. Len(q) - 1 : r[m] = IF m = k THEN q[Len(q)] ELSE q[m]
<1>1. Len(q) \in Nat /\ Len(q) \in 1 .. Len(q) /\ q[Len(q)] \in PollEntry
  OBVIOUS
<1>2. PICK s : s = [q EXCEPT ![k] = q[Len(q)]]
  OBVIOUS
<1>3. /\ s \in Seq(PollEntry) /\ Len(s) = Len(q)
      /\ \A m \in 1 .. Len(q) : s[m] = IF m = k THEN q[Len(q)] ELSE q[m]
  BY <1>1, <1>2
<1>4. r = SubSeq(s, 1, Len(q) - 1)
  BY <1>2
<1> QED BY ONLY <1>1, <1>3, <1>4, k \in 1 .. Len(q)

-----------------------------------------------------------------------------
(* The clients move.                                                       *)

LEMMA ClientStays ==
  ASSUME NEW c \in Clients, ClientRight(c),
         in'[c] = in[c], out'[c] = out[c], cpc'[c] = cpc[c], asked'[c] = asked[c], got'[c] = got[c],
         Open!Up' => Open!Up /\ (Handling(c)' <=> Handling(c)), broke \subseteq broke',
         cpc[c] = "new" /\ fdOf[c] = 0 => fdOf'[c] = 0,
         cpc[c] \in {"waiting", "ready"} /\ (fdOf[c] # 0 \/ Open!Pending(c)) =>
           fdOf'[c] # 0 \/ Open!Pending(c)'
  PROVE  ClientRight(c)'
<1>1. WaitsRight(c)'
  BY DEF ClientRight, WaitsRight, Partial, Full
<1>2. ReadyRight(c)'
  BY DEF ClientRight, ReadyRight, Open!Answers
<1>3. CallRight(c)'
  BY DEF ClientRight, CallRight, Still, Partial, Full
<1> QED BY <1>1, <1>2, <1>3 DEF ClientRight

LEMMA ServerWaits ==
  ASSUME OpenInv, UNCHANGED Open!server, fdOf' = fdOf, OpenTypeOK', BacklogRight',
         \A c \in Clients : /\ Open!Readable(c) => Open!Readable(c)'
                            /\ Open!Gone(c) => Open!Gone(c)'
                            /\ ClientRight(c)',
         broke \subseteq broke'
  PROVE  OpenInv'
<1>1. UNCHANGED <<build, spc, i, client, pollfd, allset, rset, maxi, maxfd, handled, fdOf>>
  BY DEF Open!server
<1>2. FdsRight' /\ TableRight' /\ NextEntry' = NextEntry /\ \A f : Watches(f)' <=> Watches(f)
  BY <1>1 DEF OpenInv, FdsRight, TableRight, NextEntry, Watches
<1>3. ASSUME NEW e, NEW c \in Clients, StillTrue(e, c) PROVE StillTrue(e, c)'
  BY <1>1, <1>3 DEF StillTrue
<1>4. PollRight'
  BY <1>1, <1>2, <1>3 DEF OpenInv, PollRight
<1>5. SelectRight'
  BY <1>1, <1>2 DEF OpenInv, SelectRight, Open!Accepted
<1>6. Open!Up' \/ broke' # {}
  BY <1>1 DEF OpenInv, Open!Up
<1> QED BY <1>2, <1>4, <1>5, <1>6 DEF OpenInv

LEMMA CsopenStep ==
  ASSUME OpenInv, NEW c \in Clients, NEW name \in Names, Open!csopen(c, name)
  PROVE  OpenInv'
<1>1. /\ UNCHANGED <<build, spc, i, client, pollfd, allset, rset, maxi, maxfd, handled, fdOf, out, broke>>
      /\ cpc[c] \in {"new", "ready"}
      /\ asked' = [asked EXCEPT ![c] = name] /\ got' = [got EXCEPT ![c] = Open!NoAnswer]
  BY DEF Open!csopen, Open!server
<1>2. /\ Open!Up => /\ cpc' = [cpc EXCEPT ![c] = "waiting"]
                    /\ in' = [in EXCEPT ![c] = @ \o <<name>>]
                    /\ backlog' = IF Open!Connected(c) THEN backlog ELSE Append(backlog, c)
      /\ ~Open!Up => /\ cpc' = [cpc EXCEPT ![c] = IF Open!Connected(c) THEN "gone" ELSE @]
                     /\ UNCHANGED <<in, backlog>>
  BY OpenAssumption DEF Open!csopen, Open!Pieces
<1>3. OpenTypeOK /\ ClientRight(c) /\ BacklogRight /\ Len(backlog) \in Nat
  BY DEF OpenInv, OpenTypeOK
<1>4. OpenTypeOK'
  <2>1. cpc' \in [Clients -> {"new", "ready", "waiting", "gone"}]
    <3>1. \A v \in {"new", "ready", "waiting", "gone"} :
            [cpc EXCEPT ![c] = v] \in [Clients -> {"new", "ready", "waiting", "gone"}]
      BY <1>3 DEF OpenTypeOK
    <3>2. cpc[c] \in {"new", "ready", "waiting", "gone"}
      BY <1>1
    <3> QED BY <1>2, <3>1, <3>2
  <2>2. in' = [d \in Clients |-> in'[d]]
    <3>1. in = [d \in Clients |-> in[d]]
      BY <1>3 DEF OpenTypeOK
    <3> QED BY <1>2, <3>1, Zenon
  <2>3. backlog' \in Seq(Clients)
    <3>1. backlog \in Seq(Clients) /\ Append(backlog, c) \in Seq(Clients)
      BY <1>3 DEF OpenTypeOK
    <3> QED BY <1>2, <3>1
  <2>4. /\ asked' = [d \in Clients |-> asked'[d]] /\ got' = [d \in Clients |-> got'[d]]
    <3>1. asked = [d \in Clients |-> asked[d]] /\ got = [d \in Clients |-> got[d]]
      BY <1>3 DEF OpenTypeOK
    <3> QED BY <1>1, <3>1, Zenon
  <2> QED BY <1>1, <1>3, <2>1, <2>2, <2>3, <2>4 DEF OpenTypeOK
<1>5. Open!Up => in[c] = <<>> /\ out[c] = <<>> /\ ~Handling(c)
  BY <1>1, <1>3 DEF ClientRight, CallRight, Still
<1>6. /\ cpc'[c] = IF Open!Up THEN "waiting" ELSE IF cpc[c] = "new" THEN "new" ELSE "gone"
      /\ asked'[c] = name /\ out'[c] = out[c] /\ fdOf'[c] = fdOf[c]
      /\ \A d \in Clients : d # c => /\ cpc'[d] = cpc[d] /\ asked'[d] = asked[d]
                                     /\ got'[d] = got[d] /\ in'[d] = in[d]
  BY <1>1, <1>2, <1>3 DEF OpenTypeOK, Open!Connected
<1>7. Open!Up => in'[c] = <<name>>
  BY <1>2, <1>3, <1>5 DEF OpenTypeOK
<1>8. cpc[c] = "new" /\ Open!Up => backlog' = Append(backlog, c) /\ fdOf[c] = 0
  BY <1>2, <1>3 DEF Open!Connected, ClientRight, CallRight
<1>9. /\ \A n \in 1 .. Len(backlog) : backlog'[n] = backlog[n] /\ n \in 1 .. Len(backlog')
      /\ Len(backlog') \in Nat
      /\ \A n \in 1 .. Len(backlog') : n \in 1 .. Len(backlog) \/ (backlog'[n] = c /\ cpc[c] = "new" /\ Open!Up)
      /\ \A n \in 1 .. Len(backlog') : n \in 1 .. Len(backlog) \/ n = Len(backlog) + 1
  <2>1. CASE backlog' = backlog
    BY <1>3, <2>1
  <2>2. CASE backlog' = Append(backlog, c) /\ cpc[c] = "new" /\ Open!Up
    <3>1. backlog \in Seq(Clients)
      BY <1>3 DEF OpenTypeOK
    <3>2. /\ Len(backlog') = Len(backlog) + 1 /\ backlog'[Len(backlog) + 1] = c
          /\ \A n \in 1 .. Len(backlog) : backlog'[n] = backlog[n]
      BY <2>2, <3>1
    <3> QED BY <1>3, <2>2, <3>2
  <2> QED BY <1>2, <2>1, <2>2 DEF Open!Connected
<1>10. BacklogRight'
  <2>1. ASSUME NEW m \in 1 .. Len(backlog'), NEW n \in 1 .. Len(backlog'), backlog'[m] = backlog'[n] PROVE m = n
    <3>1. \A k \in 1 .. Len(backlog) : cpc[c] = "new" => backlog[k] # c
      BY <1>3 DEF BacklogRight
    <3> QED BY <1>3, <1>9, <2>1, <3>1 DEF BacklogRight
  <2>2. ASSUME NEW n \in 1 .. Len(backlog') PROVE fdOf'[backlog'[n]] = 0 /\ cpc'[backlog'[n]] # "new"
    <3>1. CASE n \in 1 .. Len(backlog)
      <4>1. backlog[n] \in Clients /\ fdOf[backlog[n]] = 0 /\ cpc[backlog[n]] # "new" /\ backlog'[n] = backlog[n]
        BY <1>3, <1>9, <3>1 DEF BacklogRight, OpenTypeOK
      <4> QED BY <1>1, <1>6, <4>1
    <3>2. CASE n \notin 1 .. Len(backlog)
      BY <1>6, <1>8, <1>9, <1>1, <3>2
    <3> QED BY <3>1, <3>2
  <2>3. spc' = "accept" => backlog' # <<>>
    <3> SUFFICES ASSUME spc' = "accept" PROVE backlog' # <<>>
      OBVIOUS
    <3>1. backlog # <<>> /\ 1 \in 1 .. Len(backlog)
      BY <1>1, <1>3 DEF BacklogRight, OpenTypeOK
    <3> QED BY <1>9, <3>1
  <2> QED BY <2>1, <2>2, <2>3 DEF BacklogRight
<1>11. ASSUME NEW d \in Clients, Open!Pending(d) PROVE Open!Pending(d)'
  <2>1. PICK n \in 1 .. Len(backlog) : backlog[n] = d
    <3>1. DOMAIN backlog = 1 .. Len(backlog)
      BY <1>3 DEF OpenTypeOK
    <3> QED BY <1>11, <3>1 DEF Open!Pending
  <2>2. n \in DOMAIN backlog' /\ backlog'[n] = d
    BY <1>4, <1>9, <2>1 DEF OpenTypeOK
  <2> QED BY <2>2 DEF Open!Pending
<1>12. ASSUME NEW d \in Clients, d # c PROVE ClientRight(d)'
  <2>1. ClientRight(d) /\ Open!Up' = Open!Up /\ Handling(d)' = Handling(d)
    BY <1>1 DEF OpenInv, Open!Up, Handling
  <2> QED BY <1>1, <1>6, <1>11, <1>12, <2>1, ClientStays
<1>13. ClientRight(c)'
  <2>1. CASE Open!Up
    <3>1. cpc'[c] = "waiting" /\ in'[c] = <<name>> /\ out'[c] = <<>> /\ ~Handling(c)' /\ asked'[c] = name
      BY <1>1, <1>5, <1>6, <1>7, <2>1 DEF Handling
    <3>2. fdOf'[c] # 0 \/ Open!Pending(c)'
      <4>1. CASE cpc[c] = "ready"
        BY <1>1, <1>3, <1>11, <2>1, <4>1 DEF ClientRight, CallRight
      <4>2. CASE cpc[c] = "new"
        <5>1. backlog' = Append(backlog, c)
          BY <1>8, <2>1, <4>2
        <5>2. Len(backlog) + 1 \in DOMAIN backlog' /\ backlog'[Len(backlog) + 1] = c
          BY <1>3, <5>1 DEF OpenTypeOK
        <5> QED BY <5>2 DEF Open!Pending
      <4> QED BY <1>1, <4>1, <4>2
    <3> QED BY <3>1, <3>2 DEF ClientRight, WaitsRight, ReadyRight, CallRight, Partial, Full
  <2>2. CASE ~Open!Up
    <3>1. ~Open!Up' /\ cpc'[c] \in {"new", "gone"}
      BY <1>1, <1>6, <2>2 DEF Open!Up
    <3> QED BY <3>1 DEF ClientRight, WaitsRight, ReadyRight, CallRight
  <2> QED BY <2>1, <2>2
<1>14. \A d \in Clients : /\ Open!Readable(d) => Open!Readable(d)'
                          /\ Open!Gone(d) => Open!Gone(d)'
  <2>1. in'[c] # <<>> \/ in'[c] = in[c]
    BY <1>2, <1>7
  <2>2. cpc[c] # "gone"
    BY <1>1
  <2> QED BY <1>6, <2>1, <2>2 DEF Open!Readable, Open!Gone
<1> QED BY <1>1, <1>4, <1>10, <1>12, <1>13, <1>14, ServerWaits DEF Open!server

(* What a client may find when it reads                                    *)
LEMMA AnswerIs ==
  ASSUME OpenInv, NEW c \in Clients, cpc[c] = "waiting", out[c] # <<>>
  PROVE  \/ out[c] = <<ErrText>> /\ (Open!Up => Handling(c) /\ in[c] = <<>>)
         \/ \E a \in Open!Answers(asked[c]) :
              /\ out[c] = <<a>> \/ out[c] = <<ErrText, a>>
              /\ a.is # "text" /\ (Open!Up => ~Handling(c) /\ in[c] = <<>>)
<1>1. ClientRight(c)
  BY DEF OpenInv
<1>2. CASE out[c] = <<ErrText>>
  <2>1. <<ErrText>> # <<>> /\ <<ErrText>> # <<ErrStatus>> /\ <<ErrText>> # <<ErrText, ErrStatus>>
    BY DEF ErrText, ErrStatus
  <2>2. <<ErrText>> \notin Full(asked[c])
    BY <2>1 DEF Full, ErrText
  <2> QED BY <1>1, <1>2, <2>1, <2>2 DEF ClientRight, CallRight
<1>3. CASE out[c] # <<ErrText>>
  <2>1. out[c] \in Full(asked[c])
    BY <1>1, <1>3 DEF ClientRight, WaitsRight, Partial
  <2>2. Open!Up => ~Handling(c) /\ in[c] = <<>>
    BY <1>1, <1>3 DEF ClientRight, CallRight, Partial
  <2>3. CASE asked[c] \in Files
    <3>1. [is |-> "fd", name |-> asked[c]] \in Open!Answers(asked[c])
      BY <2>3 DEF Open!Answers
    <3> QED BY <2>1, <2>2, <2>3, <3>1 DEF Full
  <2>4. CASE asked[c] \notin Files
    <3>1. ErrStatus \in Open!Answers(asked[c]) /\ ErrStatus.is # "text"
      BY <2>4 DEF Open!Answers, ErrStatus
    <3>2. out[c] = <<ErrStatus>> \/ out[c] = <<ErrText, ErrStatus>>
      BY <2>1, <2>4 DEF Full
    <3> QED BY <2>2, <3>1, <3>2
  <2> QED BY <2>3, <2>4
<1> QED BY <1>2, <1>3

LEMMA RecvFdStep ==
  ASSUME OpenInv, NEW c \in Clients, Open!recv_fd(c)
  PROVE  OpenInv'
<1>1. /\ UNCHANGED <<build, spc, i, client, pollfd, allset, rset, maxi, maxfd, handled,
                     fdOf, backlog, in, asked, broke>>
      /\ cpc[c] = "waiting"
  BY DEF Open!recv_fd, Open!server
<1>2. OpenTypeOK /\ ClientRight(c) /\ BacklogRight
  BY DEF OpenInv
<1>3. \/ /\ out' = [out EXCEPT ![c] = <<>>] /\ UNCHANGED <<cpc, got>>
         /\ Open!Up => out[c] = <<ErrText>> /\ Handling(c) /\ in[c] = <<>>
      \/ /\ out' = [out EXCEPT ![c] = <<>>]
         /\ \E a \in Open!Answers(asked[c]) : got' = [got EXCEPT ![c] = a]
         /\ cpc' = [cpc EXCEPT ![c] = "ready"]
         /\ Open!Up => ~Handling(c) /\ in[c] = <<>>
  <2>1. CASE out[c] = <<>>
    <3>1. Open!Closed(c) /\ out' = out /\ cpc' = [cpc EXCEPT ![c] = "ready"]
          /\ got' = [got EXCEPT ![c] = [is |-> "closed"]]
      BY <2>1 DEF Open!recv_fd
    <3>2. ~Open!Up
      BY <1>1, <1>2, <3>1 DEF Open!Closed, ClientRight, CallRight
    <3>3. [is |-> "closed"] \in Open!Answers(asked[c])
      BY <3>2 DEF Open!Answers
    <3>4. out' = [out EXCEPT ![c] = <<>>]
      BY <1>2, <2>1, <3>1, Zenon DEF OpenTypeOK
    <3> QED BY <3>1, <3>2, <3>3, <3>4
  <2>2. CASE out[c] # <<>>
    <3>1. PICK o, k : o = out[c] /\ k = IF o[1].is = "text" /\ Len(o) > 1 THEN 2 ELSE 1
      OBVIOUS
    <3>2. /\ out' = [out EXCEPT ![c] = SubSeq(o, k + 1, Len(o))]
          /\ IF o[k].is = "text" THEN UNCHANGED <<cpc, got>>
             ELSE /\ cpc' = [cpc EXCEPT ![c] = "ready"]
                  /\ got' = [got EXCEPT ![c] = o[k]]
      BY <2>2, <3>1 DEF Open!recv_fd
    <3>3. CASE o = <<ErrText>> /\ (Open!Up => Handling(c) /\ in[c] = <<>>)
      <4>1. o[1].is = "text" /\ Len(o) = 1 /\ k = 1
        BY <3>1, <3>3 DEF ErrText
      <4>2. SubSeq(o, k + 1, Len(o)) = <<>>
        BY <3>3, <4>1
      <4> QED BY ONLY <3>1, <3>2, <3>3, <4>1, <4>2
    <3>4. ASSUME NEW a \in Open!Answers(asked[c]), o = <<a>>, a.is # "text",
                 Open!Up => ~Handling(c) /\ in[c] = <<>>
          PROVE  /\ out' = [out EXCEPT ![c] = <<>>] /\ got' = [got EXCEPT ![c] = a]
                 /\ cpc' = [cpc EXCEPT ![c] = "ready"]
      <4>1. o[1] = a /\ Len(o) = 1 /\ k = 1
        BY <3>1, <3>4
      <4>2. SubSeq(o, k + 1, Len(o)) = <<>>
        BY <3>4, <4>1
      <4> QED BY ONLY <3>2, <3>4, <4>1, <4>2
    <3>5. ASSUME NEW a \in Open!Answers(asked[c]), o = <<ErrText, a>>, a.is # "text",
                 Open!Up => ~Handling(c) /\ in[c] = <<>>
          PROVE  /\ out' = [out EXCEPT ![c] = <<>>] /\ got' = [got EXCEPT ![c] = a]
                 /\ cpc' = [cpc EXCEPT ![c] = "ready"]
      <4>1. o[1].is = "text" /\ o[2] = a /\ Len(o) = 2 /\ k = 2
        BY <3>1, <3>5 DEF ErrText
      <4>2. SubSeq(o, k + 1, Len(o)) = <<>>
        BY <3>5, <4>1
      <4> QED BY ONLY <3>2, <3>5, <4>1, <4>2
    <3> QED BY <1>1, <2>2, <3>1, <3>3, <3>4, <3>5, AnswerIs
  <2> QED BY <2>1, <2>2
<1>4. OpenTypeOK'
  <2>1. out' = [d \in Clients |-> out'[d]]
    <3>1. out = [d \in Clients |-> out[d]]
      BY <1>2 DEF OpenTypeOK
    <3> QED BY <1>3, <3>1, Zenon
  <2>2. got' = [d \in Clients |-> got'[d]]
    <3>1. got = [d \in Clients |-> got[d]]
      BY <1>2 DEF OpenTypeOK
    <3> QED BY <1>3, <3>1, Zenon
  <2>3. cpc' \in [Clients -> {"new", "ready", "waiting", "gone"}]
    BY <1>2, <1>3 DEF OpenTypeOK
  <2> QED BY <1>1, <1>2, <2>1, <2>2, <2>3 DEF OpenTypeOK
<1>5. /\ out'[c] = <<>> /\ cpc'[c] \in {"waiting", "ready"}
      /\ \A d \in Clients : d # c => out'[d] = out[d] /\ got'[d] = got[d] /\ cpc'[d] = cpc[d]
  BY <1>1, <1>2, <1>3 DEF OpenTypeOK
<1>6. ASSUME NEW d \in Clients, d # c PROVE ClientRight(d)'
  <2>1. /\ ClientRight(d) /\ Open!Up' = Open!Up /\ Handling(d)' = Handling(d)
        /\ Open!Pending(d)' = Open!Pending(d)
    BY <1>1 DEF OpenInv, Open!Up, Handling, Open!Pending
  <2> QED BY <1>1, <1>5, <1>6, <2>1, ClientStays
<1>7. ClientRight(c)'
  <2>1. WaitsRight(c)'
    BY <1>5 DEF WaitsRight, Partial
  <2>2. ReadyRight(c)'
    <3>1. Open!Answers(asked[c])' = Open!Answers(asked[c])
      BY <1>1 DEF Open!Answers, Open!Up
    <3>2. cpc'[c] = "ready" => got'[c] \in Open!Answers(asked[c])
      BY <1>1, <1>2, <1>3 DEF OpenTypeOK
    <3> QED BY <3>1, <3>2 DEF ReadyRight
  <2>3. CallRight(c)'
    <3>1. Open!Up' = Open!Up /\ Handling(c)' = Handling(c) /\ Open!Pending(c)' = Open!Pending(c)
      BY <1>1 DEF Open!Up, Handling, Open!Pending
    <3>2. Open!Up => in[c] = <<>>
      BY <1>3
    <3>3. Open!Up /\ cpc'[c] = "ready" => ~Handling(c)
      BY <1>1, <1>2, <1>3 DEF OpenTypeOK
    <3> QED BY <1>1, <1>2, <1>5, <3>1, <3>2, <3>3 DEF ClientRight, CallRight, Still, Partial
  <2> QED BY <2>1, <2>2, <2>3 DEF ClientRight
<1>8. BacklogRight'
  <2>1. ASSUME NEW n \in 1 .. Len(backlog) PROVE cpc'[backlog[n]] # "new"
    <3>1. backlog[n] \in Clients /\ cpc[backlog[n]] # "new"
      BY <1>2 DEF BacklogRight, OpenTypeOK
    <3> QED BY <1>5, <3>1
  <2> QED BY <1>1, <1>2, <2>1 DEF BacklogRight
<1>9. \A d \in Clients : /\ Open!Readable(d) => Open!Readable(d)'
                         /\ Open!Gone(d) => Open!Gone(d)'
  BY <1>1, <1>5 DEF Open!Readable, Open!Gone
<1> QED BY <1>1, <1>4, <1>6, <1>7, <1>8, <1>9, ServerWaits DEF Open!server

(* The end of a client, between two calls or in the middle of one          *)
LEMMA ClientEnds ==
  ASSUME OpenInv, NEW c \in Clients, Open!Leave(c) \/ Open!Killed(c)
  PROVE  OpenInv'
<1>1. /\ UNCHANGED <<build, spc, i, client, pollfd, allset, rset, maxi, maxfd, handled,
                     fdOf, backlog, in, out, asked, got>>
      /\ cpc' = [cpc EXCEPT ![c] = "gone"]
      /\ \/ cpc[c] = "ready" /\ broke' = broke
         \/ cpc[c] = "waiting" /\ broke' = broke \cup {c}
  BY DEF Open!Leave, Open!Killed, Open!server, Open!wires
<1>2. OpenTypeOK /\ ClientRight(c) /\ BacklogRight
  BY DEF OpenInv
<1>3. OpenTypeOK'
  BY <1>1, <1>2 DEF OpenTypeOK
<1>4. cpc'[c] = "gone" /\ \A d \in Clients : d # c => cpc'[d] = cpc[d]
  BY <1>1, <1>2 DEF OpenTypeOK
<1>5. \A d \in Clients : /\ Open!Up' = Open!Up /\ Handling(d)' = Handling(d)
                         /\ Open!Pending(d)' = Open!Pending(d)
  BY <1>1 DEF Open!Up, Handling, Open!Pending
<1>6. ASSUME NEW d \in Clients, d # c PROVE ClientRight(d)'
  <2>1. ClientRight(d)
    BY DEF OpenInv
  <2> QED BY <1>1, <1>4, <1>5, <1>6, <2>1, ClientStays
<1>7. ClientRight(c)'
  <2>1. WaitsRight(c)' /\ ReadyRight(c)'
    BY <1>4 DEF WaitsRight, ReadyRight
  <2>2. CallRight(c)'
    BY <1>1, <1>2, <1>4, <1>5 DEF ClientRight, CallRight, Still, Partial, Full
  <2> QED BY <2>1, <2>2 DEF ClientRight
<1>8. BacklogRight'
  <2>1. ASSUME NEW n \in 1 .. Len(backlog) PROVE cpc'[backlog[n]] # "new"
    <3>1. backlog[n] \in Clients /\ cpc[backlog[n]] # "new"
      BY <1>2 DEF BacklogRight, OpenTypeOK
    <3> QED BY <1>4, <3>1
  <2> QED BY <1>1, <1>2, <2>1 DEF BacklogRight
<1>9. \A d \in Clients : /\ Open!Readable(d) => Open!Readable(d)'
                         /\ Open!Gone(d) => Open!Gone(d)'
  BY <1>1, <1>4 DEF Open!Readable, Open!Gone
<1> QED BY <1>1, <1>3, <1>6, <1>7, <1>8, <1>9, ServerWaits DEF Open!server

-----------------------------------------------------------------------------
(* A request is handled.                                                   *)

LEMMA ServerDies ==
  ASSUME OpenInv, Open!Up, spc' = "dead", NEW c \in Clients, Open!Gone(c), ~Still(c),
         UNCHANGED <<build, i, client, pollfd, allset, maxi, maxfd, fdOf, backlog,
                     out, cpc, asked, got, broke>>,
         in' = [d \in Clients |-> in'[d]]
  PROVE  OpenInv'
<1>1. c \in broke
  BY DEF OpenInv, ClientRight, CallRight, Open!Gone
<1>2. OpenTypeOK' /\ FdsRight' /\ BacklogRight' /\ ~Open!Up'
  BY DEF OpenInv, OpenTypeOK, FdsRight, BacklogRight, Open!Up
<1>3. TableRight' /\ \A f : Watches(f)' <=> Watches(f)
  BY DEF OpenInv, TableRight, Watches
<1>4. PollRight' /\ SelectRight'
  BY <1>3 DEF OpenInv, PollRight, SelectRight, Open!Accepted
<1>5. ASSUME NEW d \in Clients PROVE ClientRight(d)'
  <2>1. ClientRight(d)
    BY DEF OpenInv
  <2> QED BY <1>2, <2>1 DEF ClientRight, WaitsRight, ReadyRight, CallRight, Partial, Full, Open!Answers
<1> QED BY <1>1, <1>2, <1>3, <1>4, <1>5 DEF OpenInv

(* The server has an answer for c, and what it has looked up remains true. *)
LEMMA ServerAnswers ==
  ASSUME OpenInv, OpenTypeOK', NEW c \in Clients,
         UNCHANGED <<build, client, pollfd, allset, rset, maxi, maxfd, fdOf, backlog,
                     cpc, asked, got, broke>>,
         spc \in {"scan", "status"}, spc' \in {"scan", "status"}, i' > 0, NextEntry' >= NextEntry,
         \A d \in Clients : d # c => /\ in'[d] = in[d] /\ out'[d] = out[d]
                                     /\ ~Handling(d) /\ ~Handling(d)',
         in'[c] # in[c] => /\ build = "poll" => \A n \in 1 .. Len(pollfd) : n >= NextEntry' => pollfd[n].fd # fdOf[c]
                           /\ build = "select" => \A n \in 1 .. Len(client) : n >= NextEntry' => client[n].fd # fdOf[c],
         ClientRight(c)'
  PROVE  OpenInv'
<1>1. OpenTypeOK /\ i \in Nat /\ i' \in Nat /\ NextEntry \in Nat /\ NextEntry' \in Nat
  BY DEF OpenInv, OpenTypeOK, NextEntry
<1>2. FdsRight' /\ BacklogRight' /\ Open!Up /\ Open!Up'
  BY DEF OpenInv, FdsRight, BacklogRight, Open!Up
<1>3. TableRight' /\ \A f : Watches(f)' <=> Watches(f)
  BY DEF OpenInv, TableRight, Watches
<1>4. \A d \in Clients : /\ d # c \/ in'[c] = in[c] => Open!Readable(d)' = Open!Readable(d)
                         /\ Open!Gone(d)' = Open!Gone(d) /\ Open!Pending(d)' = Open!Pending(d)
  BY DEF Open!Readable, Open!Gone, Open!Pending
<1>5. ASSUME NEW n \in Nat, n >= NextEntry' PROVE n >= NextEntry
  BY <1>1, <1>5
<1>6. PollRight'
  <2> SUFFICES ASSUME build = "poll" PROVE PollRight'
    BY DEF PollRight
  <2>1. ASSUME NEW n \in 1 .. Len(pollfd), NEW d \in Clients, n >= NextEntry' PROVE StillTrue(pollfd[n], d)'
    <3>1. StillTrue(pollfd[n], d)
      BY <1>5, <2>1 DEF OpenInv, PollRight
    <3> QED BY <1>4, <2>1, <3>1 DEF StillTrue
  <2> QED BY <1>3, <2>1 DEF OpenInv, PollRight
<1>7. SelectRight'
  <2> SUFFICES ASSUME build = "select" PROVE SelectRight'
    BY DEF SelectRight
  <2>1. ASSUME NEW n \in 1 .. Len(client), NEW d \in Clients, n >= NextEntry',
               client[n].fd \in rset, fdOf[d] = client[n].fd, fdOf[d] # 0
        PROVE  Open!Readable(d)'
    <3>1. Open!Readable(d)
      BY <1>5, <2>1 DEF OpenInv, SelectRight
    <3> QED BY <1>4, <2>1, <3>1
  <2> QED BY <2>1 DEF OpenInv, SelectRight, Open!Accepted
<1>8. ASSUME NEW d \in Clients, d # c PROVE ClientRight(d)'
  <2>1. ClientRight(d)
    BY DEF OpenInv
  <2> QED BY <1>2, <1>4, <1>8, <2>1, ClientStays
<1> QED BY <1>2, <1>3, <1>6, <1>7, <1>8 DEF OpenInv

(* The entry the server is at                                              *)
AtEntry(c) ==
  /\ fdOf[c] # 0
  /\ build = "poll" => i \in 1 .. Len(pollfd) /\ pollfd[i].fd = fdOf[c]
  /\ build = "select" => i \in 1 .. Len(client) /\ client[i].fd = fdOf[c]

LEMMA HandleStep ==
  ASSUME OpenInv, spc = "scan", NEW c \in Clients, NEW uid, in[c] # <<>>, AtEntry(c),
         Open!handle_request(c, uid),
         UNCHANGED <<build, client, pollfd, allset, rset, maxi, maxfd, fdOf, backlog,
                     cpc, asked, got, broke>>
  PROVE  OpenInv'
<1>1. OpenTypeOK /\ ClientRight(c) /\ Open!Up /\ ~Handling(c)
  BY DEF OpenInv, Open!Up, Handling
<1>2. in[c] = <<asked[c]>> /\ out[c] = <<>>
  BY <1>1 DEF ClientRight, CallRight
<1>3. Open!ReadOf(c) = asked[c] /\ Open!RestOf(c) = <<>>
  BY <1>2 DEF Open!ReadOf, Open!RestOf
<1>4. in' = [in EXCEPT ![c] = <<>>] /\ handled' = <<c, uid>>
  BY <1>3 DEF Open!handle_request
<1>5. /\ in' = [d \in Clients |-> in'[d]] /\ in'[c] = <<>>
      /\ \A d \in Clients : d # c => in'[d] = in[d]
  <2>1. in = [d \in Clients |-> in[d]]
    BY <1>1 DEF OpenTypeOK
  <2> QED BY <1>4, <2>1, Zenon
<1>6. CASE Open!Gone(c)
  <2>1. spc' = "dead" /\ UNCHANGED <<i, out>>
    BY <1>6 DEF Open!handle_request, Open!Die
  <2>2. ~Still(c)
    BY DEF Still
  <2> QED BY <1>1, <1>5, <1>6, <2>1, <2>2, ServerDies
<1>7. CASE ~Open!Gone(c)
  <2>1. PICK a, s, k :
          /\ out' = [out EXCEPT ![c] = Append(@, a)] /\ spc' = s /\ i' = k
          /\ \/ asked[c] \in Files /\ a = [is |-> "fd", name |-> asked[c]] /\ s = "scan" /\ k = i + 1
             \/ asked[c] \notin Files /\ a = ErrText /\ s = "status" /\ k = i
    BY <1>3, <1>7 DEF Open!handle_request, Open!Send, ErrText
  <2>2. /\ out' = [d \in Clients |-> out'[d]] /\ out'[c] = <<a>>
        /\ \A d \in Clients : d # c => out'[d] = out[d]
    <3>1. out = [d \in Clients |-> out[d]]
      BY <1>1 DEF OpenTypeOK
    <3>2. out' = [out EXCEPT ![c] = Append(out[c], a)] /\ Append(out[c], a) = <<a>>
      BY <1>2, <2>1
    <3> QED BY <3>1, <3>2, Zenon
  <2>3. /\ i \in Nat /\ i' \in Nat /\ NextEntry = i /\ NextEntry' = i + 1 /\ i' > 0 /\ NextEntry' >= NextEntry
    <3>1. i \in Nat /\ i > 0
      BY <1>1 DEF OpenInv, OpenTypeOK, PollRight, SelectRight
    <3> QED BY <2>1, <3>1 DEF NextEntry
  <2>4. OpenTypeOK'
    BY <1>1, <1>4, <1>5, <2>1, <2>2, <2>3 DEF OpenTypeOK
  <2>5. \A d \in Clients : d # c => ~Handling(d) /\ ~Handling(d)'
    BY <1>4 DEF Handling
  <2>6. /\ build = "poll" => \A n \in 1 .. Len(pollfd) : n >= NextEntry' => pollfd[n].fd # fdOf[c]
        /\ build = "select" => \A n \in 1 .. Len(client) : n >= NextEntry' => client[n].fd # fdOf[c]
    <3>1. \A n \in Nat : n >= NextEntry' => n # i
      BY <2>3
    <3>2. fdOf[c] \notin {0, 1}
      BY DEF OpenInv, FdsRight, AtEntry
    <3> QED BY <3>1, <3>2 DEF OpenInv, PollRight, TableRight, AtEntry
  <2>7. ClientRight(c)'
    <3>1. cpc[c] = "waiting"
      <4>1. cpc[c] \in {"new", "ready", "waiting", "gone"}
        BY <1>1 DEF OpenTypeOK
      <4> QED BY <1>1, <1>2, <1>7, <4>1 DEF ClientRight, CallRight, Still, Open!Gone
    <3>2. WaitsRight(c)'
      BY <2>1, <2>2 DEF WaitsRight, Partial, Full
    <3>3. Handling(c)' <=> asked[c] \notin Files
      BY <1>4, <2>1 DEF Handling
    <3>4. CallRight(c)'
      BY <1>5, <2>1, <2>2, <3>1, <3>3 DEF CallRight, Partial, Full, AtEntry
    <3> QED BY <3>1, <3>2, <3>4 DEF ClientRight, ReadyRight
  <2>8. spc' \in {"scan", "status"}
    BY <2>1
  <2> QED BY <1>5, <2>2, <2>3, <2>4, <2>5, <2>6, <2>7, <2>8, ServerAnswers
<1> QED BY <1>6, <1>7

LEMMA TwoAppended ==
  ASSUME NEW x, NEW y
  PROVE  Append(<<>>, x) = <<x>> /\ Append(<<y>>, x) = <<y, x>>
<1>1. PICK S : S = {x, y}
  OBVIOUS
<1>2. <<y>> \in Seq(S) /\ Len(<<y>>) = 1 /\ <<y>>[1] = y /\ <<y, x>> \in Seq(S) /\ x \in S
  BY <1>1
<1>3. PICK o, p : o = Append(<<y>>, x) /\ p = <<y, x>>
  OBVIOUS
<1>4. o \in Seq(S) /\ Len(o) = 2 /\ o[1] = y /\ o[2] = x
  BY <1>2, <1>3
<1>5. p \in Seq(S) /\ Len(p) = 2 /\ p[1] = y /\ p[2] = x
  BY <1>2, <1>3
<1>6. \A n \in 1 .. 2 : n = 1 \/ n = 2
  OBVIOUS
<1>7. o = p
  BY ONLY <1>4, <1>5, <1>6
<1>8. Append(<<>>, x) = <<x>>
  OBVIOUS
<1> QED BY <1>3, <1>7, <1>8

LEMMA SendStatusStep ==
  ASSUME OpenInv, Open!SendStatus
  PROVE  OpenInv'
<1>1. /\ spc = "status"
      /\ UNCHANGED <<build, client, pollfd, allset, rset, maxi, maxfd, handled, fdOf, backlog,
                     in, cpc, asked, got, broke>>
  BY DEF Open!SendStatus, Open!callers
<1>2. PICK c \in Clients : c = handled[1]
  BY <1>1 DEF OpenInv, OpenTypeOK
<1>3. OpenTypeOK /\ ClientRight(c) /\ Open!Up /\ Handling(c)
  BY <1>1, <1>2 DEF OpenInv, Open!Up, Handling
<1>4. in[c] = <<>> /\ out[c] \in Partial /\ asked[c] \notin Files
  BY <1>3 DEF ClientRight, CallRight
<1>5. CASE Open!Gone(c)
  <2>1. spc' = "dead" /\ UNCHANGED <<i, out>>
    BY <1>2, <1>5 DEF Open!SendStatus, Open!Die
  <2>2. ~Still(c)
    BY <1>3 DEF Still
  <2>3. in' = [d \in Clients |-> in'[d]]
    BY <1>1, <1>3 DEF OpenTypeOK
  <2> QED BY <1>1, <1>3, <1>5, <2>1, <2>2, <2>3, ServerDies
<1>6. CASE ~Open!Gone(c)
  <2>1. out' = [out EXCEPT ![c] = Append(out[c], ErrStatus)] /\ spc' = "scan" /\ i' = i + 1
    BY <1>2, <1>6 DEF Open!SendStatus, Open!Send, ErrStatus
  <2>2. /\ out' = [d \in Clients |-> out'[d]] /\ out'[c] = Append(out[c], ErrStatus)
        /\ \A d \in Clients : d # c => out'[d] = out[d]
    <3>1. out = [d \in Clients |-> out[d]]
      BY <1>3 DEF OpenTypeOK
    <3> QED BY <2>1, <3>1, Zenon
  <2>3. out'[c] \in Full(asked[c])
    <3>1. \A x, y : Append(<<>>, x) = <<x>> /\ Append(<<y>>, x) = <<y, x>>
      BY TwoAppended
    <3>2. out[c] = <<>> \/ out[c] = <<ErrText>>
      BY <1>4 DEF Partial
    <3>3. out'[c] = <<ErrStatus>> \/ out'[c] = <<ErrText, ErrStatus>>
      BY <2>2, <3>1, <3>2, Zenon
    <3> QED BY <1>4, <3>3, Zenon DEF Full
  <2>4. i \in Nat /\ i' \in Nat /\ i' > 0 /\ NextEntry' >= NextEntry
    BY <1>1, <1>3, <2>1 DEF OpenTypeOK, NextEntry
  <2>5. OpenTypeOK'
    BY <1>1, <1>3, <2>1, <2>2, <2>4 DEF OpenTypeOK
  <2>6. \A d \in Clients : d # c => ~Handling(d) /\ ~Handling(d)'
    BY <1>2, <2>1 DEF Handling
  <2>7. ClientRight(c)'
    <3>1. cpc[c] = "waiting"
      <4>1. cpc[c] \in {"new", "ready", "waiting", "gone"}
        BY <1>3 DEF OpenTypeOK
      <4> QED BY <1>3, <1>6, <4>1 DEF ClientRight, CallRight, Still, Open!Gone
    <3>2. WaitsRight(c)' /\ ReadyRight(c)'
      BY <1>1, <2>3, <3>1 DEF WaitsRight, ReadyRight, Full
    <3>3. ~Handling(c)' /\ Open!Pending(c)' = Open!Pending(c)
      BY <1>1, <2>1 DEF Handling, Open!Pending
    <3>4. CallRight(c)'
      BY <1>1, <1>3, <1>4, <2>3, <3>1, <3>3 DEF ClientRight, CallRight, Full
    <3> QED BY <3>2, <3>4 DEF ClientRight
  <2>8. spc \in {"scan", "status"} /\ spc' \in {"scan", "status"} /\ in'[c] = in[c] /\ \A d \in Clients : in'[d] = in[d]
    BY <1>1, <2>1
  <2> QED BY <1>1, <2>2, <2>4, <2>5, <2>6, <2>7, <2>8, ServerAnswers
<1> QED BY <1>5, <1>6

-----------------------------------------------------------------------------
(* Connections come and go.                                                *)

Looping == {"wait", "accept", "scan"}

(* Only the place of the server changes, and what was reported to it.      *)
LEMMA ServerPasses ==
  ASSUME OpenInv, spc \in Looping, spc' \in Looping \ {"accept"} \/ (spc' = "accept" /\ backlog # <<>>),
         UNCHANGED <<build, client, allset, maxi, maxfd, handled, fdOf, backlog, in, out,
                     cpc, asked, got, broke>>,
         i' \in Nat, pollfd' \in Seq(PollEntry), PollRight', SelectRight'
  PROVE  OpenInv'
<1>1. OpenTypeOK' /\ FdsRight' /\ BacklogRight' /\ Open!Up /\ Open!Up'
  BY DEF OpenInv, OpenTypeOK, FdsRight, BacklogRight, Open!Up, Looping
<1>2. TableRight'
  BY DEF OpenInv, TableRight, Watches
<1>3. ASSUME NEW d \in Clients PROVE ClientRight(d)'
  <2>1. ClientRight(d) /\ Open!Pending(d)' = Open!Pending(d) /\ ~Handling(d) /\ ~Handling(d)'
    BY DEF OpenInv, Open!Pending, Handling, Looping
  <2> QED BY <1>1, <2>1, ClientStays
<1> QED BY <1>1, <1>2, <1>3 DEF OpenInv

(* accept and client_add; the entries of the loop are left to it.          *)
LEMMA ServerAccepts ==
  ASSUME OpenInv, spc = "accept", spc' \in {"wait", "scan"}, NEW f, f = Open!NewFd, NEW c, c = Head(backlog),
         UNCHANGED <<build, handled, in, out, cpc, asked, got, broke>>,
         fdOf' = [fdOf EXCEPT ![c] = f], client' = Open!client_add(client, f, c)[1],
         backlog' = Tail(backlog)
  PROVE  /\ f \in Nat /\ f > 1 /\ c \in Clients /\ fdOf[c] = 0 /\ ~Watches(f)
         /\ fdOf' \in [Clients -> Nat] /\ fdOf'[c] = f
         /\ \A d \in Clients : d # c => fdOf'[d] = fdOf[d]
         /\ \A g : Watches(g)' <=> Watches(g) \/ g = f
         /\ AddedTo(client, client', f, Open!client_add(client, f, c)[2])
         /\ backlog' \in Seq(Clients)
         /\ FdsRight' /\ BacklogRight' /\ TableRight'
         /\ \A d \in Clients : ClientRight(d)'
<1>1. OpenTypeOK /\ FdsRight /\ BacklogRight /\ TableRight
  BY DEF OpenInv
<1>2. f \in Nat /\ f > 1 /\ \A d \in Clients : fdOf[d] # f
  BY <1>1, NewFdIs
<1>3. /\ backlog \in Seq(Clients) /\ backlog # <<>> /\ Len(backlog) \in Nat \ {0}
      /\ 1 \in 1 .. Len(backlog) /\ c = backlog[1]
      /\ Tail(backlog) \in Seq(Clients) /\ Len(Tail(backlog)) = Len(backlog) - 1
      /\ \A n \in 1 .. Len(backlog) - 1 : Tail(backlog)[n] = backlog[n + 1] /\ n + 1 \in 1 .. Len(backlog) /\ n + 1 # 1
  BY <1>1 DEF OpenTypeOK, BacklogRight
<1>4. c \in Clients /\ fdOf[c] = 0
  BY <1>1, <1>3 DEF BacklogRight
<1>5. fdOf' \in [Clients -> Nat] /\ fdOf'[c] = f /\ \A d \in Clients : d # c => fdOf'[d] = fdOf[d]
  BY <1>1, <1>2, <1>4 DEF OpenTypeOK
<1>6. ~Watches(f) /\ \A g : Watches(g)' <=> Watches(g) \/ g = f
  BY <1>2, <1>4, <1>5 DEF Watches
<1>7. FdsRight'
  BY <1>1, <1>2, <1>4, <1>5 DEF FdsRight
<1>8. BacklogRight'
  <2>1. ASSUME NEW m \in 1 .. Len(backlog'), NEW n \in 1 .. Len(backlog'), backlog'[m] = backlog'[n] PROVE m = n
    <3>1. m \in 1 .. Len(backlog) - 1 /\ n \in 1 .. Len(backlog) - 1 /\ backlog[m + 1] = backlog[n + 1]
      BY <1>3, <2>1
    <3>2. m + 1 = n + 1
      BY <1>1, <1>3, <3>1 DEF BacklogRight
    <3> QED BY <3>1, <3>2
  <2>2. ASSUME NEW n \in 1 .. Len(backlog') PROVE fdOf'[backlog'[n]] = 0 /\ cpc'[backlog'[n]] # "new"
    <3>1. n + 1 \in 1 .. Len(backlog) /\ n + 1 # 1 /\ backlog'[n] = backlog[n + 1]
      BY <1>3
    <3>2. backlog[n + 1] # c /\ backlog[n + 1] \in Clients
      BY <1>1, <1>3, <3>1 DEF BacklogRight
    <3> QED BY <1>1, <1>5, <3>1, <3>2 DEF BacklogRight
  <2> QED BY <2>1, <2>2 DEF BacklogRight
<1>9. PICK n, u : n = Open!client_add(client, f, c)[2] /\ u = client'
  OBVIOUS
<1>10. AddedTo(client, u, f, n)
  BY <1>1, <1>2, <1>4, <1>9, ClientAdd DEF OpenTypeOK
<1>11. TableRight'
  <2>1. /\ u \in Seq(Entry) /\ Len(u) \in Nat /\ Len(client) \in Nat /\ Len(u) >= Len(client) /\ n \in 1 .. Len(u)
        /\ n <= Len(client) => client[n].fd = 0
        /\ \A m \in 1 .. Len(u) :
             u[m].fd = IF m = n THEN f ELSE IF m <= Len(client) THEN client[m].fd ELSE 0
    BY <1>1, <1>10 DEF AddedTo, OpenTypeOK
  <2>2. \A m \in 1 .. Len(u) : m <= Len(client) => m \in 1 .. Len(client)
    BY <2>1
  <2>3. \A m \in 1 .. Len(client) : m \in 1 .. Len(u) /\ m <= Len(client)
    BY <2>1
  <2>4. ASSUME NEW d \in Clients, fdOf'[d] # 0 PROVE \E m \in 1 .. Len(u) : u[m].fd = fdOf'[d]
    <3>1. CASE d = c
      BY <1>5, <2>1, <3>1
    <3>2. CASE d # c
      <4>1. PICK m \in 1 .. Len(client) : client[m].fd = fdOf[d]
        BY <1>1, <1>5, <2>4, <3>2 DEF TableRight
      <4>2. m \in 1 .. Len(u) /\ m # n /\ u[m].fd = fdOf[d]
        BY <1>5, <2>1, <2>3, <2>4, <3>2, <4>1
      <4> QED BY <1>5, <3>2, <4>2
    <3> QED BY <3>1, <3>2
  <2>5. \A m \in 1 .. Len(client) : client[m].fd # f
    BY <1>1, <1>2, <1>6 DEF TableRight
  <2>6. ASSUME NEW m \in 1 .. Len(u), NEW k \in 1 .. Len(u), u[m].fd = u[k].fd, u[m].fd \notin {0, 1} PROVE m = k
    <3>1. (m = n \/ m \in 1 .. Len(client)) /\ (k = n \/ k \in 1 .. Len(client))
      BY <2>1, <2>2, <2>6
    <3>2. m # n => u[m].fd # f
      BY <1>2, <2>1, <2>2, <2>5
    <3>3. k # n => u[k].fd # f
      BY <1>2, <2>1, <2>2, <2>5
    <3>4. CASE m # n /\ k # n
      BY <1>1, <2>1, <2>3, <2>6, <3>1, <3>4 DEF TableRight
    <3> QED BY <2>1, <2>6, <3>2, <3>3, <3>4
  <2>7. ASSUME NEW m \in 1 .. Len(u) PROVE u[m].fd \in {0, 1} \/ Watches(u[m].fd)'
    BY <1>1, <1>6, <2>1, <2>2 DEF TableRight
  <2> QED BY <1>9, <2>4, <2>6, <2>7 DEF TableRight
<1>12. ASSUME NEW d \in Clients PROVE ClientRight(d)'
  <2>1. ClientRight(d) /\ Open!Up /\ Open!Up' /\ ~Handling(d) /\ ~Handling(d)'
    BY DEF OpenInv, Open!Up, Handling
  <2>2. Open!Pending(d) /\ d # c => Open!Pending(d)'
    <3> SUFFICES ASSUME Open!Pending(d), d # c PROVE Open!Pending(d)'
      OBVIOUS
    <3>1. PICK m \in 1 .. Len(backlog) : backlog[m] = d
      BY <1>3 DEF Open!Pending
    <3>2. m # 1 /\ m - 1 \in 1 .. Len(backlog) - 1 /\ (m - 1) + 1 = m
      BY <1>3, <3>1
    <3>3. m - 1 \in DOMAIN backlog' /\ backlog'[m - 1] = d
      BY <1>3, <3>1, <3>2
    <3> QED BY <3>3 DEF Open!Pending
  <2>3. cpc[d] = "new" => d # c
    BY <1>1, <1>3 DEF BacklogRight
  <2>4. cpc[d] = "new" /\ fdOf[d] = 0 => fdOf'[d] = 0
    BY <1>5, <2>3
  <2>5. fdOf[d] # 0 \/ Open!Pending(d) => fdOf'[d] # 0 \/ Open!Pending(d)'
    BY <1>2, <1>5, <2>2
  <2> QED BY <2>1, <2>4, <2>5, ClientStays
<1> QED BY <1>2, <1>3, <1>4, <1>5, <1>6, <1>7, <1>8, <1>9, <1>10, <1>11, <1>12

(* close and client_del                                                    *)
LEMMA ServerCloses ==
  ASSUME OpenInv, spc = "scan", NEW c \in Clients, Open!Gone(c), fdOf[c] # 0,
         client' = Open!client_del(client, fdOf[c]),
         spc' = IF client' = <<>> THEN "dead" ELSE "scan",
         fdOf' = [fdOf EXCEPT ![c] = 0],
         in'[c] = <<>>, \A d \in Clients : d # c => in'[d] = in[d],
         UNCHANGED <<build, handled, backlog, out, cpc, asked, got, broke>>
  PROVE  /\ spc' = "scan" /\ fdOf' \in [Clients -> Nat] /\ fdOf'[c] = 0
         /\ \A d \in Clients : d # c => fdOf'[d] = fdOf[d] /\ fdOf[d] # fdOf[c]
         /\ \A g : Watches(g)' <=> Watches(g) /\ g # fdOf[c]
         /\ client' \in Seq(Entry) /\ Len(client') = Len(client)
         /\ \A m \in 1 .. Len(client) :
              client'[m].fd = IF client[m].fd = fdOf[c] THEN 0 ELSE client[m].fd
         /\ FdsRight' /\ BacklogRight' /\ TableRight'
         /\ \A d \in Clients : ClientRight(d)'
<1>1. OpenTypeOK /\ FdsRight /\ BacklogRight /\ TableRight
  BY DEF OpenInv
<1>2. PICK f : f = fdOf[c] /\ f \notin {0, 1}
  BY <1>1 DEF FdsRight
<1>3. PICK k \in 1 .. Len(client) : client[k].fd = f
  BY <1>1, <1>2 DEF TableRight
<1>4. \A n \in 1 .. Len(client) : client[n].fd = f => n = k
  BY <1>1, <1>2, <1>3 DEF TableRight
<1>5. PICK u : u = client'
  OBVIOUS
<1>6. /\ u \in Seq(Entry) /\ Len(u) = Len(client) /\ Len(client) \in Nat
      /\ \A m \in 1 .. Len(client) : u[m].fd = IF client[m].fd = f THEN 0 ELSE client[m].fd
  <2>1. u = Open!client_del(client, f) /\ client \in Seq(Entry) /\ Len(client) \in Nat
    BY <1>1, <1>2, <1>5 DEF OpenTypeOK
  <2>2. /\ u \in Seq(Entry) /\ Len(u) = Len(client)
        /\ \A m \in 1 .. Len(client) : u[m].fd = IF m = k THEN 0 ELSE client[m].fd
    BY <1>3, <1>4, <2>1, ClientDel
  <2> QED BY <1>3, <1>4, <2>1, <2>2
<1>7. spc' = "scan"
  <2>1. Len(u) # 0
    BY <1>3, <1>6
  <2>2. u # <<>>
    BY <2>1
  <2> QED BY <1>5, <2>2
<1>8. /\ fdOf' \in [Clients -> Nat] /\ fdOf'[c] = 0
      /\ \A d \in Clients : d # c => fdOf'[d] = fdOf[d] /\ fdOf[d] # f
  BY <1>1, <1>2 DEF OpenTypeOK, FdsRight
<1>9. \A g : Watches(g)' <=> Watches(g) /\ g # f
  BY <1>2, <1>8 DEF Watches
<1>10. FdsRight'
  BY <1>1, <1>8 DEF FdsRight
<1>11. BacklogRight'
  <2>1. ASSUME NEW n \in 1 .. Len(backlog) PROVE fdOf'[backlog[n]] = 0
    <3>1. backlog[n] \in Clients /\ fdOf[backlog[n]] = 0
      BY <1>1 DEF BacklogRight, OpenTypeOK
    <3> QED BY <1>8, <3>1
  <2> QED BY <1>1, <1>7, <2>1 DEF BacklogRight
<1>12. TableRight'
  <2>1. ASSUME NEW d \in Clients, fdOf'[d] # 0 PROVE \E n \in 1 .. Len(u) : u[n].fd = fdOf'[d]
    <3>1. fdOf'[d] = fdOf[d] /\ fdOf[d] # f
      BY <1>8, <2>1
    <3> QED BY <1>1, <1>6, <2>1, <3>1 DEF TableRight
  <2>2. ASSUME NEW m \in 1 .. Len(u), NEW n \in 1 .. Len(u), u[m].fd = u[n].fd, u[m].fd \notin {0, 1} PROVE m = n
    <3>1. client[m].fd = u[m].fd /\ client[n].fd = u[n].fd
      BY <1>6, <2>2
    <3> QED BY <1>1, <1>6, <2>2, <3>1 DEF TableRight
  <2>3. ASSUME NEW m \in 1 .. Len(u) PROVE u[m].fd \in {0, 1} \/ Watches(u[m].fd)'
    BY <1>1, <1>6, <1>9 DEF TableRight
  <2> QED BY <1>5, <2>1, <2>2, <2>3 DEF TableRight
<1>13. Open!Up /\ Open!Up' /\ \A d \in Clients : ~Handling(d) /\ ~Handling(d)'
  BY <1>7 DEF Open!Up, Handling
<1>14. ASSUME NEW d \in Clients, d # c PROVE ClientRight(d)'
  <2>1. ClientRight(d) /\ Open!Pending(d)' = Open!Pending(d)
    BY DEF OpenInv, Open!Pending
  <2> QED BY <1>8, <1>13, <1>14, <2>1, ClientStays
<1>15. ClientRight(c)'
  <2>1. ClientRight(c) /\ cpc'[c] = "gone"
    BY DEF OpenInv, Open!Gone
  <2> QED BY <1>13, <2>1 DEF ClientRight, WaitsRight, ReadyRight, CallRight, Still, Partial, Full
<1> QED BY <1>2, <1>5, <1>6, <1>7, <1>8, <1>9, <1>10, <1>11, <1>12, <1>14, <1>15

-----------------------------------------------------------------------------
(* The steps of the poll loop                                              *)

LEMMA PollEntries ==
  ASSUME NEW q \in Seq(PollEntry)
  PROVE  \A n \in 1 .. Len(q) : q[n] \in PollEntry /\ q[n].fd \in Nat
<1>1. \A n \in 1 .. Len(q) : q[n] \in PollEntry
  OBVIOUS
<1> QED BY <1>1 DEF PollEntry

LEMMA PollStep ==
  ASSUME OpenInv, Open!Poll
  PROVE  OpenInv'
<1>1. /\ build = "poll" /\ spc = "wait" /\ i' = 1
      /\ spc' = IF backlog # <<>> THEN "accept" ELSE "scan"
      /\ UNCHANGED <<build, client, allset, rset, maxi, maxfd, handled, fdOf, backlog, in, out,
                     cpc, asked, got, broke>>
      /\ pollfd' = [n \in DOMAIN pollfd |-> [fd |-> pollfd[n].fd, revents |-> Open!Revents(pollfd[n].fd)]]
  BY DEF Open!Poll, Open!wires, Open!callers
<1>2. OpenTypeOK /\ FdsRight /\ PollRight /\ DOMAIN pollfd = 1 .. Len(pollfd) /\ Len(pollfd) \in Nat
  BY DEF OpenInv, OpenTypeOK
<1>3. \A f : Open!Revents(f) \in SUBSET {"POLLIN", "POLLHUP"}
  BY DEF Open!Revents
<1>4. \A n \in 1 .. Len(pollfd) :
        [fd |-> pollfd[n].fd, revents |-> Open!Revents(pollfd[n].fd)] \in PollEntry
  <2>1. \A n \in 1 .. Len(pollfd) : pollfd[n].fd \in Nat
    BY <1>2, PollEntries DEF OpenTypeOK
  <2> QED BY <1>3, <2>1 DEF PollEntry
<1>5. PICK q : q = pollfd'
  OBVIOUS
<1>6. /\ q \in Seq(PollEntry) /\ Len(q) = Len(pollfd)
      /\ \A n \in 1 .. Len(pollfd) : q[n].fd = pollfd[n].fd /\ q[n].revents = Open!Revents(pollfd[n].fd)
  BY <1>1, <1>2, <1>4, <1>5
<1>7. PollRight'
  <2>1. ASSUME NEW n \in 1 .. Len(q), NEW c \in Clients PROVE StillTrue(q[n], c)'
    <3> SUFFICES ASSUME fdOf[c] = q[n].fd
                 PROVE  /\ "POLLIN" \in q[n].revents => Open!Readable(c)'
                        /\ "POLLHUP" \in q[n].revents => Open!Gone(c)'
      BY <1>1 DEF StillTrue
    <3>1. fdOf[c] # 0 /\ fdOf[c] = pollfd[n].fd
      BY <1>1, <1>2, <1>6 DEF PollRight, Watches
    <3>2. Open!ClientAt(pollfd[n].fd) = c
      BY <1>2, <3>1, ClientAtIs
    <3>3. q[n].revents = Open!Revents(pollfd[n].fd)
      BY <1>6
    <3>4. Open!Readable(c)' = Open!Readable(c) /\ Open!Gone(c)' = Open!Gone(c)
      BY <1>1 DEF Open!Readable, Open!Gone
    <3> QED BY <3>2, <3>3, <3>4 DEF Open!Revents
  <2> QED BY <1>1, <1>2, <1>5, <1>6, <2>1 DEF PollRight, Watches
<1>8. SelectRight'
  BY <1>1 DEF SelectRight
<1> QED BY <1>1, <1>5, <1>6, <1>7, <1>8, ServerPasses DEF Looping

LEMMA PollAgainStep ==
  ASSUME OpenInv, Open!PollAgain
  PROVE  OpenInv'
<1>1. /\ build = "poll" /\ spc = "scan" /\ i' = 1 /\ spc' = "wait"
      /\ UNCHANGED <<build, client, allset, rset, maxi, maxfd, handled, fdOf, backlog, in, out,
                     cpc, asked, got, broke>>
      /\ pollfd' = [n \in DOMAIN pollfd |-> [pollfd[n] EXCEPT !.revents = {}]]
  BY DEF Open!PollAgain, Open!wires, Open!callers
<1>2. OpenTypeOK /\ PollRight /\ DOMAIN pollfd = 1 .. Len(pollfd) /\ Len(pollfd) \in Nat
  BY DEF OpenInv, OpenTypeOK
<1>3. PICK q : q = pollfd'
  OBVIOUS
<1>4. /\ q \in Seq(PollEntry) /\ Len(q) = Len(pollfd)
      /\ \A n \in 1 .. Len(pollfd) : q[n].fd = pollfd[n].fd
  <2>1. \A n \in 1 .. Len(pollfd) : /\ [pollfd[n] EXCEPT !.revents = {}] \in PollEntry
                                    /\ [pollfd[n] EXCEPT !.revents = {}].fd = pollfd[n].fd
    <3>1. ASSUME NEW e \in PollEntry PROVE [e EXCEPT !.revents = {}] \in PollEntry /\ [e EXCEPT !.revents = {}].fd = e.fd
      BY DEF PollEntry
    <3> QED BY <1>2, <3>1, PollEntries DEF OpenTypeOK
  <2> QED BY <1>1, <1>2, <1>3, <2>1
<1>5. PollRight'
  <2>1. \A f : Watches(f)' <=> Watches(f)
    BY <1>1 DEF Watches
  <2>2. \A n \in 1 .. Len(q) : Watches(q[n].fd)'
    BY <1>1, <1>2, <1>4, <2>1 DEF PollRight
  <2>3. \A c \in Clients : fdOf[c] # 0 => \E n \in 1 .. Len(q) : q[n].fd = fdOf[c]
    BY <1>1, <1>2, <1>4 DEF PollRight
  <2>4. \A m, n \in 1 .. Len(q) : q[m].fd = q[n].fd => m = n
    BY <1>1, <1>2, <1>4 DEF PollRight
  <2>5. /\ Len(q) < maxfd' /\ i' > 0 /\ spc' \notin {"accept", "scan", "status"}
        /\ \A c \in Clients : fdOf'[c] # 0 => \E n \in 1 .. Len(q) : q[n].fd = fdOf'[c]
    BY <1>1, <1>2, <1>4, <2>3 DEF PollRight
  <2> QED BY <1>3, <2>2, <2>4, <2>5 DEF PollRight
<1>6. SelectRight'
  BY <1>1 DEF SelectRight
<1> QED BY <1>1, <1>3, <1>4, <1>5, <1>6, ServerPasses DEF Looping

LEMMA PollAcceptStep ==
  ASSUME OpenInv, Open!PollAccept
  PROVE  OpenInv'
<1>1. PICK f, c : f = Open!NewFd /\ c = Head(backlog)
  OBVIOUS
<1>2. /\ build = "poll" /\ spc = "accept" /\ spc' = "scan"
      /\ UNCHANGED <<build, i, allset, rset, maxi, handled, in, out, cpc, asked, got, broke>>
      /\ fdOf' = [fdOf EXCEPT ![c] = f] /\ client' = Open!client_add(client, f, c)[1]
      /\ pollfd' = Append(pollfd, [fd |-> f, revents |-> {}])
      /\ maxfd' = IF Len(pollfd) + 1 = maxfd THEN maxfd + NALLOC ELSE maxfd
      /\ backlog' = Tail(backlog)
  BY <1>1 DEF Open!PollAccept, Open!callers
<1>3. /\ f \in Nat /\ f > 1 /\ c \in Clients /\ fdOf[c] = 0 /\ ~Watches(f)
      /\ fdOf' \in [Clients -> Nat] /\ fdOf'[c] = f
      /\ \A d \in Clients : d # c => fdOf'[d] = fdOf[d]
      /\ \A g : Watches(g)' <=> Watches(g) \/ g = f
      /\ AddedTo(client, client', f, Open!client_add(client, f, c)[2])
      /\ backlog' \in Seq(Clients)
      /\ FdsRight' /\ BacklogRight' /\ TableRight'
      /\ \A d \in Clients : ClientRight(d)'
  BY <1>1, <1>2, ServerAccepts
<1>4. /\ OpenTypeOK /\ PollRight /\ pollfd \in Seq(PollEntry) /\ Len(pollfd) \in Nat /\ maxfd \in Nat
      /\ NALLOC \in Nat \ {0}
  BY OpenAssumption DEF OpenInv, OpenTypeOK
<1>5. PICK q, e : q = pollfd' /\ e = [fd |-> f, revents |-> {}]
  OBVIOUS
<1>6. e \in PollEntry /\ e.fd = f /\ e.revents = {}
  BY <1>3, <1>5 DEF PollEntry
<1>7. /\ q \in Seq(PollEntry) /\ Len(q) = Len(pollfd) + 1 /\ q[Len(pollfd) + 1] = e
      /\ \A n \in 1 .. Len(pollfd) : q[n] = pollfd[n] /\ n \in 1 .. Len(q)
      /\ \A n \in 1 .. Len(q) : n \in 1 .. Len(pollfd) \/ n = Len(pollfd) + 1
      /\ Len(pollfd) + 1 \in 1 .. Len(q)
  BY <1>2, <1>4, <1>5, <1>6
<1>8. maxfd' \in Nat /\ Len(q) < maxfd'
  BY <1>2, <1>4, <1>7 DEF PollRight
<1>9. OpenTypeOK'
  BY <1>2, <1>3, <1>4, <1>5, <1>7, <1>8 DEF OpenTypeOK, AddedTo
<1>10. PollRight'
  <2>1. ASSUME NEW d \in Clients, fdOf'[d] # 0 PROVE \E n \in 1 .. Len(q) : q[n].fd = fdOf'[d]
    <3>1. CASE d = c
      BY <1>3, <1>6, <1>7, <3>1
    <3>2. CASE d # c
      <4>1. PICK n \in 1 .. Len(pollfd) : pollfd[n].fd = fdOf[d]
        BY <1>2, <1>3, <1>4, <2>1, <3>2 DEF PollRight
      <4> QED BY <1>3, <1>7, <3>2, <4>1
    <3> QED BY <3>1, <3>2
  <2>2. \A n \in 1 .. Len(pollfd) : Watches(pollfd[n].fd) /\ pollfd[n].fd # f
    BY <1>2, <1>3, <1>4 DEF PollRight
  <2>3. ASSUME NEW m \in 1 .. Len(q), NEW n \in 1 .. Len(q), q[m].fd = q[n].fd PROVE m = n
    BY <1>2, <1>4, <1>6, <1>7, <2>2, <2>3 DEF PollRight
  <2>4. ASSUME NEW n \in 1 .. Len(q) PROVE Watches(q[n].fd)'
    BY <1>3, <1>6, <1>7, <2>2
  <2>5. ASSUME NEW n \in 1 .. Len(q), NEW d \in Clients, n >= i PROVE StillTrue(q[n], d)'
    <3>1. CASE n \in 1 .. Len(pollfd)
      <4>1. q[n] = pollfd[n] /\ pollfd[n].fd # f
        BY <1>7, <2>2, <3>1
      <4>2. StillTrue(pollfd[n], d)
        BY <1>2, <1>4, <2>5, <3>1 DEF PollRight, NextEntry
      <4> QED BY <1>2, <1>3, <4>1, <4>2 DEF StillTrue, Open!Readable, Open!Gone
    <3>2. CASE n = Len(pollfd) + 1
      BY <1>6, <1>7, <3>2 DEF StillTrue
    <3> QED BY <1>7, <3>1, <3>2
  <2>6. NextEntry' = i
    BY <1>2 DEF NextEntry
  <2> QED BY <1>2, <1>4, <1>5, <1>8, <2>1, <2>3, <2>4, <2>5, <2>6 DEF PollRight
<1>11. SelectRight'
  BY <1>2 DEF SelectRight
<1>12. Open!Up'
  BY <1>2 DEF Open!Up
<1> QED BY <1>3, <1>9, <1>10, <1>11, <1>12 DEF OpenInv

LEMMA PollCloseStep ==
  ASSUME OpenInv, build = "poll", spc = "scan", i \in 1 .. Len(pollfd), NEW c \in Clients,
         AtEntry(c), Open!Gone(c), Open!PollClose(fdOf[c]),
         UNCHANGED <<build, allset, rset, maxi, maxfd, backlog, cpc, asked, got, broke>>
  PROVE  OpenInv'
<1>1. OpenTypeOK /\ FdsRight /\ PollRight /\ fdOf[c] # 0 /\ pollfd[i].fd = fdOf[c]
  BY DEF OpenInv, AtEntry
<1>2. PICK k : k = Len(pollfd)
  OBVIOUS
<1>3. /\ client' = Open!client_del(client, fdOf[c])
      /\ spc' = IF client' = <<>> THEN "dead" ELSE "scan"
      /\ fdOf' = [fdOf EXCEPT ![c] = 0] /\ in' = [in EXCEPT ![c] = <<>>]
      /\ pollfd' = SubSeq([pollfd EXCEPT ![i] = pollfd[k]], 1, k - 1)
      /\ UNCHANGED <<i, handled, out>>
  BY <1>1, <1>2, ClientAtIs DEF Open!PollClose
<1>4. in' = [d \in Clients |-> in'[d]] /\ in'[c] = <<>> /\ \A d \in Clients : d # c => in'[d] = in[d]
  <2>1. in = [d \in Clients |-> in[d]]
    BY <1>1 DEF OpenTypeOK
  <2> QED BY <1>3, <2>1, Zenon
<1>5. /\ spc' = "scan" /\ fdOf' \in [Clients -> Nat] /\ fdOf'[c] = 0
      /\ \A d \in Clients : d # c => fdOf'[d] = fdOf[d] /\ fdOf[d] # fdOf[c]
      /\ \A g : Watches(g)' <=> Watches(g) /\ g # fdOf[c]
      /\ client' \in Seq(Entry)
      /\ FdsRight' /\ BacklogRight' /\ TableRight'
      /\ \A d \in Clients : ClientRight(d)'
  BY <1>1, <1>3, <1>4, ServerCloses
<1>6. PICK q : q = pollfd'
  OBVIOUS
<1>7. /\ k \in Nat /\ k >= 1 /\ q \in Seq(PollEntry) /\ Len(q) = k - 1
      /\ \A m \in 1 .. k - 1 : q[m] = IF m = i THEN pollfd[k] ELSE pollfd[m]
  BY <1>1, <1>2, <1>3, <1>6, LastTakesPlace DEF OpenTypeOK
<1>8. OpenTypeOK'
  BY <1>1, <1>3, <1>4, <1>5, <1>6, <1>7 DEF OpenTypeOK
<1>9. PollRight'
  <2>1. /\ \A m \in 1 .. k - 1 : m \in 1 .. k /\ m # k
        /\ k \in 1 .. k /\ i \in 1 .. k /\ i \in Nat /\ k >= i
    BY <1>2, <1>7
  <2>2. ASSUME NEW d \in Clients, fdOf'[d] # 0 PROVE \E n \in 1 .. Len(q) : q[n].fd = fdOf'[d]
    <3>1. d # c /\ fdOf'[d] = fdOf[d] /\ fdOf[d] # fdOf[c]
      BY <1>5, <2>2
    <3>2. PICK m \in 1 .. k : pollfd[m].fd = fdOf[d]
      BY <1>1, <1>2, <2>2, <3>1 DEF PollRight
    <3>3. m # i
      BY <1>1, <3>1, <3>2
    <3>4. CASE m = k
      <4>1. i \in 1 .. k - 1
        BY <1>7, <2>1, <3>3, <3>4
      <4> QED BY <1>7, <3>1, <3>2, <3>4, <4>1
    <3>5. CASE m # k
      <4>1. m \in 1 .. k - 1
        BY <1>7, <3>2, <3>5
      <4> QED BY <1>7, <3>1, <3>2, <3>3, <4>1
    <3> QED BY <3>4, <3>5
  <2>3. ASSUME NEW m \in 1 .. Len(q), NEW n \in 1 .. Len(q), q[m].fd = q[n].fd PROVE m = n
    <3>1. \A x, y \in 1 .. k : pollfd[x].fd = pollfd[y].fd => x = y
      BY <1>1, <1>2 DEF PollRight
    <3> QED BY <1>7, <2>1, <2>3, <3>1
  <2>4. ASSUME NEW n \in 1 .. Len(q) PROVE Watches(q[n].fd)'
    <3>1. \A x \in 1 .. k : Watches(pollfd[x].fd) /\ (x # i => pollfd[x].fd # fdOf[c])
      BY <1>1, <1>2 DEF PollRight
    <3>2. \E x \in 1 .. k : x # i /\ q[n] = pollfd[x]
      BY <1>7, <2>1
    <3> QED BY <1>5, <3>1, <3>2
  <2>5. ASSUME NEW n \in 1 .. Len(q), NEW d \in Clients, n >= i PROVE StillTrue(q[n], d)'
    <3> SUFFICES ASSUME fdOf'[d] = q[n].fd PROVE StillTrue(q[n], d)'
      BY DEF StillTrue
    <3>1. q[n].fd # 0
      BY <2>4 DEF Watches
    <3>2. d # c /\ fdOf'[d] = fdOf[d]
      BY <1>5, <3>1
    <3>3. \E x \in 1 .. k : x >= i /\ q[n] = pollfd[x]
      BY <1>7, <2>1, <2>5
    <3>4. StillTrue(q[n], d)
      BY <1>1, <1>2, <3>3 DEF PollRight, NextEntry
    <3> QED BY <1>4, <3>2, <3>4 DEF StillTrue, Open!Readable, Open!Gone
  <2>6. NextEntry' = i
    BY <1>3, <1>5 DEF NextEntry
  <2>7. Len(q) < maxfd' /\ i' > 0
    BY <1>1, <1>2, <1>3, <1>7 DEF PollRight, OpenTypeOK
  <2> QED BY <1>6, <2>2, <2>3, <2>4, <2>5, <2>6, <2>7 DEF PollRight
<1>10. SelectRight'
  BY DEF SelectRight
<1>11. Open!Up'
  BY <1>5 DEF Open!Up
<1> QED BY <1>5, <1>8, <1>9, <1>10, <1>11 DEF OpenInv

LEMMA PollScanStep ==
  ASSUME OpenInv, Open!PollScan
  PROVE  OpenInv'
<1>1. /\ build = "poll" /\ spc = "scan" /\ i \in DOMAIN pollfd
      /\ UNCHANGED <<build, allset, rset, maxi, maxfd, backlog, cpc, asked, got, broke>>
  BY DEF Open!PollScan, Open!callers
<1>2. OpenTypeOK /\ FdsRight /\ PollRight /\ DOMAIN pollfd = 1 .. Len(pollfd) /\ i \in Nat
  BY DEF OpenInv, OpenTypeOK
<1>3. PICK c \in Clients : fdOf[c] = pollfd[i].fd /\ fdOf[c] # 0
  BY <1>1, <1>2 DEF PollRight, Watches
<1>4. Open!ClientAt(pollfd[i].fd) = c /\ AtEntry(c)
  <2>1. Open!ClientAt(pollfd[i].fd) = c
    BY <1>2, <1>3, ClientAtIs
  <2> QED BY <1>1, <1>2, <1>3, <2>1 DEF AtEntry
<1>5. StillTrue(pollfd[i], c)
  BY <1>1, <1>2 DEF PollRight, NextEntry
<1>6. CASE "POLLHUP" \in pollfd[i].revents
  <2>1. Open!PollClose(fdOf[c]) /\ Open!Gone(c)
    BY <1>1, <1>3, <1>5, <1>6 DEF Open!PollScan, StillTrue
  <2> QED BY <1>1, <1>2, <1>4, <2>1, PollCloseStep
<1>7. CASE "POLLHUP" \notin pollfd[i].revents /\ "POLLIN" \in pollfd[i].revents
  <2>1. Open!Readable(c)
    BY <1>3, <1>5, <1>7 DEF StillTrue
  <2>2. CASE in[c] # <<>>
    <3>1. PICK uid : Open!handle_request(c, uid) /\ UNCHANGED <<client, fdOf, pollfd>>
      BY <1>1, <1>4, <1>7, <2>2 DEF Open!PollScan
    <3> QED BY <1>1, <1>4, <2>2, <3>1, HandleStep
  <2>3. CASE in[c] = <<>> /\ Open!Reset(c)
    <3>1. spc' = "dead" /\ UNCHANGED <<i, client, pollfd, handled, fdOf, in, out>>
      BY <1>1, <1>4, <1>7, <2>3 DEF Open!PollScan, Open!Die
    <3>2. Open!Gone(c) /\ ~Still(c) /\ Open!Up /\ in' = [d \in Clients |-> in'[d]]
      BY <1>1, <1>2, <2>3, <3>1 DEF Open!Reset, Still, Open!Up, OpenTypeOK
    <3> QED BY <1>1, <3>1, <3>2, ServerDies
  <2>4. CASE in[c] = <<>> /\ ~Open!Reset(c)
    <3>1. Open!PollClose(fdOf[c]) /\ Open!Gone(c)
      BY <1>1, <1>3, <1>4, <1>7, <2>1, <2>4 DEF Open!PollScan, Open!Readable
    <3> QED BY <1>1, <1>2, <1>4, <3>1, PollCloseStep
  <2> QED BY <2>2, <2>3, <2>4
<1>8. CASE "POLLHUP" \notin pollfd[i].revents /\ "POLLIN" \notin pollfd[i].revents
  <2>1. i' = i + 1 /\ UNCHANGED <<spc, client, pollfd, handled, fdOf, in, out>>
    BY <1>1, <1>8 DEF Open!PollScan
  <2>2. i' \in Nat /\ i' > 0 /\ \A n \in Nat : n >= i' => n >= i
    BY <1>2, <2>1
  <2>3. PollRight'
    BY <1>1, <1>2, <2>1, <2>2 DEF PollRight, NextEntry, StillTrue, Watches, Open!Readable, Open!Gone
  <2>4. SelectRight'
    BY <1>1 DEF SelectRight
  <2> QED BY <1>1, <1>2, <2>1, <2>2, <2>3, <2>4, ServerPasses DEF Looping, OpenTypeOK
<1> QED BY <1>6, <1>7, <1>8


-----------------------------------------------------------------------------
(* The steps of the select loop                                            *)

LEMMA AcceptedIs == \A f : f \in Open!Accepted <=> Watches(f)
  BY DEF Open!Accepted, Watches

LEMMA SelectStep ==
  ASSUME OpenInv, Open!Select
  PROVE  OpenInv'
<1>1. /\ build = "select" /\ spc = "wait" /\ i' = 1
      /\ spc' = IF 1 \in rset' THEN "accept" ELSE "scan"
      /\ UNCHANGED <<build, client, pollfd, allset, maxi, maxfd, handled, fdOf, backlog, in, out,
                     cpc, asked, got, broke>>
      /\ \A f \in rset' : f # 1 => Open!Readable(Open!ClientAt(f))
      /\ 1 \in rset' => backlog # <<>>
  BY DEF Open!Select, Open!wires, Open!callers, Open!ListenFd
<1>2. OpenTypeOK /\ FdsRight /\ SelectRight
  BY DEF OpenInv
<1>3. SelectRight'
  <2>1. ASSUME NEW n \in 1 .. Len(client), NEW c \in Clients, client[n].fd \in rset',
               fdOf[c] = client[n].fd, fdOf[c] # 0
        PROVE  Open!Readable(c)'
    <3>1. fdOf[c] # 1 /\ Open!ClientAt(fdOf[c]) = c
      BY <1>2, <2>1, ClientAtIs DEF FdsRight
    <3>2. Open!Readable(c)
      BY <1>1, <2>1, <3>1
    <3> QED BY <1>1, <3>2 DEF Open!Readable, Open!Gone
  <2> QED BY <1>1, <1>2, <2>1 DEF SelectRight, Open!Accepted
<1>4. PollRight' /\ pollfd' \in Seq(PollEntry)
  BY <1>1, <1>2 DEF PollRight, OpenTypeOK
<1> QED BY <1>1, <1>3, <1>4, ServerPasses DEF Looping

LEMMA SelectAgainStep ==
  ASSUME OpenInv, Open!SelectAgain
  PROVE  OpenInv'
<1>1. /\ build = "select" /\ spc = "scan" /\ i' = 1 /\ spc' = "wait"
      /\ UNCHANGED <<build, client, pollfd, allset, maxi, maxfd, handled, fdOf, backlog, in, out,
                     cpc, asked, got, broke>>
  BY DEF Open!SelectAgain, Open!wires, Open!callers
<1>2. SelectRight'
  BY <1>1 DEF OpenInv, SelectRight, Open!Accepted
<1>3. PollRight' /\ pollfd' \in Seq(PollEntry)
  BY <1>1 DEF OpenInv, OpenTypeOK, PollRight
<1> QED BY <1>1, <1>2, <1>3, ServerPasses DEF Looping

LEMMA SelectAcceptStep ==
  ASSUME OpenInv, Open!SelectAccept
  PROVE  OpenInv'
<1>1. PICK f, c, n : f = Open!NewFd /\ c = Head(backlog) /\ n = Open!client_add(client, f, c)[2]
  OBVIOUS
<1>2. /\ build = "select" /\ spc = "accept" /\ spc' = "wait"
      /\ UNCHANGED <<build, i, pollfd, handled, in, out, cpc, asked, got, broke>>
      /\ fdOf' = [fdOf EXCEPT ![c] = f] /\ client' = Open!client_add(client, f, c)[1]
      /\ allset' = allset \cup {f}
      /\ maxfd' = IF f > maxfd THEN f ELSE maxfd
      /\ maxi' = IF n > maxi THEN n ELSE maxi
      /\ backlog' = Tail(backlog)
  BY <1>1 DEF Open!SelectAccept, Open!callers
<1>3. /\ f \in Nat /\ f > 1 /\ c \in Clients /\ fdOf[c] = 0 /\ ~Watches(f)
      /\ fdOf' \in [Clients -> Nat] /\ fdOf'[c] = f
      /\ \A d \in Clients : d # c => fdOf'[d] = fdOf[d]
      /\ \A g : Watches(g)' <=> Watches(g) \/ g = f
      /\ AddedTo(client, client', f, n)
      /\ backlog' \in Seq(Clients)
      /\ FdsRight' /\ BacklogRight' /\ TableRight'
      /\ \A d \in Clients : ClientRight(d)'
  BY <1>1, <1>2, ServerAccepts
<1>4. OpenTypeOK /\ SelectRight /\ maxi \in Nat /\ maxfd \in Nat /\ Len(client) \in Nat
  BY DEF OpenInv, OpenTypeOK
<1>5. PICK u : u = client'
  OBVIOUS
<1>6. /\ u \in Seq(Entry) /\ Len(u) \in Nat /\ Len(u) >= Len(client) /\ n \in 1 .. Len(u)
      /\ \A m \in 1 .. Len(u) :
           u[m].fd = IF m = n THEN f ELSE IF m <= Len(client) THEN client[m].fd ELSE 0
  BY <1>3, <1>4, <1>5 DEF AddedTo
<1>7. maxi' \in Nat /\ maxfd' \in Nat /\ maxi' >= n /\ maxi' >= maxi /\ (maxi' = n \/ maxi' = maxi)
  BY <1>2, <1>3, <1>4, <1>6
<1>8. OpenTypeOK'
  BY <1>2, <1>3, <1>4, <1>5, <1>6, <1>7 DEF OpenTypeOK
<1>9. SelectRight'
  <2>1. allset' = {1} \cup Open!Accepted'
    <3>1. \A g : g \in Open!Accepted' <=> Watches(g)'
      BY DEF Open!Accepted, Watches
    <3>2. allset = {1} \cup Open!Accepted
      BY <1>2, <1>4 DEF SelectRight
    <3>3. \A g : g \in allset' <=> g \in {1} \cup Open!Accepted'
      BY <1>2, <1>3, <3>1, <3>2, AcceptedIs
    <3> QED BY <3>3
  <2>2. ASSUME NEW m \in 1 .. Len(u) PROVE u[m].fd # 1 /\ (u[m].fd # 0 => m <= maxi')
    <3>1. CASE m = n
      BY <1>3, <1>6, <1>7, <3>1
    <3>2. CASE m # n /\ m <= Len(client)
      <4>1. m \in 1 .. Len(client) /\ u[m].fd = client[m].fd
        BY <1>4, <1>6, <3>2
      <4>2. u[m].fd # 1 /\ (u[m].fd # 0 => m <= maxi)
        BY <1>2, <1>4, <4>1 DEF SelectRight
      <4> QED BY <1>4, <1>7, <4>1, <4>2
    <3>3. CASE m # n /\ ~(m <= Len(client))
      BY <1>6, <3>3
    <3> QED BY <3>1, <3>2, <3>3
  <2>3. maxi' <= Len(u) /\ i' > 0
    BY <1>2, <1>4, <1>6, <1>7 DEF SelectRight
  <2> QED BY <1>2, <1>5, <2>1, <2>2, <2>3 DEF SelectRight
<1>10. PollRight' /\ Open!Up'
  BY <1>2 DEF PollRight, Open!Up
<1> QED BY <1>3, <1>8, <1>9, <1>10 DEF OpenInv

LEMMA SelectScanStep ==
  ASSUME OpenInv, Open!SelectScan
  PROVE  OpenInv'
<1>1. /\ build = "select" /\ spc = "scan" /\ i <= maxi
      /\ UNCHANGED <<build, pollfd, rset, maxi, maxfd, backlog, cpc, asked, got, broke>>
  BY DEF Open!SelectScan, Open!callers
<1>2. /\ OpenTypeOK /\ FdsRight /\ TableRight /\ SelectRight /\ i \in Nat /\ i > 0 /\ Len(client) \in Nat
      /\ i \in 1 .. Len(client) /\ client[i].fd # 1
  <2>1. /\ OpenTypeOK /\ FdsRight /\ TableRight /\ SelectRight /\ i \in Nat /\ Len(client) \in Nat /\ maxi \in Nat
    BY DEF OpenInv, OpenTypeOK
  <2>2. i > 0 /\ maxi <= Len(client)
    BY <1>1, <2>1 DEF SelectRight
  <2>3. i \in 1 .. Len(client)
    BY <1>1, <2>1, <2>2
  <2> QED BY <1>1, <2>1, <2>2, <2>3 DEF SelectRight
<1>3. CASE client[i].fd = 0 \/ client[i].fd \notin rset
  <2>1. i' = i + 1 /\ UNCHANGED <<spc, client, allset, handled, fdOf, in, out>>
    BY <1>1, <1>3 DEF Open!SelectScan
  <2>2. i' \in Nat /\ i' > 0 /\ \A n \in Nat : n >= i' => n >= i
    BY <1>2, <2>1
  <2>3. SelectRight'
    <3>1. ASSUME NEW n \in 1 .. Len(client), NEW c \in Clients, n >= i', client[n].fd \in rset,
                 fdOf[c] = client[n].fd, fdOf[c] # 0
          PROVE  Open!Readable(c)'
      <4>1. Open!Readable(c)
        BY <1>1, <1>2, <2>2, <3>1 DEF SelectRight, NextEntry
      <4> QED BY <1>1, <2>1, <4>1 DEF Open!Readable, Open!Gone
    <3>2. NextEntry' = i'
      BY <1>1, <2>1 DEF NextEntry
    <3> QED BY <1>1, <1>2, <2>1, <2>2, <3>1, <3>2 DEF SelectRight, Open!Accepted
  <2>4. PollRight' /\ pollfd' \in Seq(PollEntry)
    BY <1>1, <1>2 DEF PollRight, OpenTypeOK
  <2> QED BY <1>1, <2>1, <2>2, <2>3, <2>4, ServerPasses DEF Looping
<1>4. CASE client[i].fd # 0 /\ client[i].fd \in rset
  <2>1. PICK c \in Clients : fdOf[c] = client[i].fd /\ fdOf[c] # 0
    BY <1>2, <1>4 DEF TableRight, Watches
  <2>2. Open!ClientAt(client[i].fd) = c
    BY <1>2, <2>1, ClientAtIs
  <2>3. AtEntry(c)
    BY <1>1, <1>2, <2>1 DEF AtEntry
  <2>4. Open!Readable(c)
    BY <1>1, <1>2, <1>4, <2>1 DEF SelectRight, NextEntry
  <2>5. CASE in[c] # <<>>
    <3>1. Open!handle_request(c, client[i].uid) /\ UNCHANGED <<client, allset, fdOf>>
      BY <1>1, <1>4, <2>2, <2>5 DEF Open!SelectScan
    <3> QED BY <1>1, <2>3, <2>5, <3>1, HandleStep
  <2>6. CASE in[c] = <<>> /\ Open!Reset(c)
    <3>1. spc' = "dead" /\ UNCHANGED <<i, client, allset, handled, fdOf, in, out>>
      BY <1>1, <1>4, <2>2, <2>6 DEF Open!SelectScan, Open!Die
    <3>2. Open!Gone(c) /\ ~Still(c) /\ Open!Up /\ in' = [d \in Clients |-> in'[d]]
      BY <1>1, <1>2, <2>6, <3>1 DEF Open!Reset, Still, Open!Up, OpenTypeOK
    <3> QED BY <1>1, <3>1, <3>2, ServerDies
  <2>7. CASE in[c] = <<>> /\ ~Open!Reset(c)
    <3>1. Open!SelectClose(client[i].fd) /\ Open!Gone(c)
      BY <1>1, <1>4, <2>2, <2>4, <2>7 DEF Open!SelectScan, Open!Readable
    <3>2. /\ client' = Open!client_del(client, fdOf[c])
          /\ spc' = IF client' = <<>> THEN "dead" ELSE "scan"
          /\ allset' = allset \ {fdOf[c]} /\ fdOf' = [fdOf EXCEPT ![c] = 0]
          /\ i' = i + 1 /\ UNCHANGED <<handled, in, out>>
      BY <2>1, <2>2, <3>1 DEF Open!SelectClose
    <3>3. /\ spc' = "scan" /\ fdOf' \in [Clients -> Nat] /\ fdOf'[c] = 0
          /\ \A d \in Clients : d # c => fdOf'[d] = fdOf[d] /\ fdOf[d] # fdOf[c]
          /\ \A g : Watches(g)' <=> Watches(g) /\ g # fdOf[c]
          /\ client' \in Seq(Entry) /\ Len(client') = Len(client)
          /\ \A m \in 1 .. Len(client) :
               client'[m].fd = IF client[m].fd = fdOf[c] THEN 0 ELSE client[m].fd
          /\ FdsRight' /\ BacklogRight' /\ TableRight'
          /\ \A d \in Clients : ClientRight(d)'
      BY <1>1, <2>1, <2>7, <3>1, <3>2, ServerCloses
    <3>4. i' \in Nat /\ i' > 0 /\ \A n \in Nat : n >= i' => n >= i
      BY <1>2, <3>2
    <3>5. OpenTypeOK'
      BY <1>1, <1>2, <3>2, <3>3, <3>4 DEF OpenTypeOK
    <3>6. SelectRight'
      <4>1. allset' = {1} \cup Open!Accepted'
        <5>1. \A g : g \in Open!Accepted' <=> Watches(g)'
          BY DEF Open!Accepted, Watches
        <5>2. allset = {1} \cup Open!Accepted /\ fdOf[c] # 1
          BY <1>1, <1>2 DEF SelectRight, FdsRight
        <5>3. \A g : g \in allset' <=> g \in {1} \cup Open!Accepted'
          BY <3>2, <3>3, <5>1, <5>2, AcceptedIs
        <5> QED BY <5>3
      <4>2. ASSUME NEW n \in 1 .. Len(client), NEW d \in Clients, n >= i', client'[n].fd \in rset,
                   fdOf'[d] = client'[n].fd, fdOf'[d] # 0
            PROVE  Open!Readable(d)'
        <5>1. d # c /\ fdOf'[d] = fdOf[d] /\ client'[n].fd = client[n].fd
          BY <3>3, <4>2
        <5>2. n >= NextEntry /\ client[n].fd \in rset /\ fdOf[d] = client[n].fd /\ fdOf[d] # 0
          <6>1. n >= i
            BY <1>2, <3>4, <4>2
          <6> QED BY <1>1, <4>2, <5>1, <6>1 DEF NextEntry
        <5>3. Open!Readable(d)
          BY <1>1, <1>2, <5>2 DEF SelectRight
        <5> QED BY <1>1, <3>2, <5>3 DEF Open!Readable, Open!Gone
      <4>3. \A n \in 1 .. Len(client) : client'[n].fd # 1 /\ (client'[n].fd # 0 => n <= maxi)
        BY <1>1, <1>2, <3>3 DEF SelectRight
      <4>4. NextEntry' = i'
        BY <3>3 DEF NextEntry
      <4> QED BY <1>1, <1>2, <3>3, <3>4, <4>1, <4>2, <4>3, <4>4 DEF SelectRight
    <3>7. PollRight' /\ Open!Up'
      BY <1>1, <3>3 DEF PollRight, Open!Up
    <3> QED BY <3>3, <3>5, <3>6, <3>7 DEF OpenInv
  <2> QED BY <2>5, <2>6, <2>7
<1> QED BY <1>3, <1>4

-----------------------------------------------------------------------------
LEMMA OpenInit == Open!Init => OpenInv
<1> SUFFICES ASSUME Open!Init PROVE OpenInv
  OBVIOUS
<1>1. /\ build \in {"poll", "select"} /\ spc = "wait" /\ i = 1 /\ maxi = 0 /\ broke = {}
      /\ client = IF build = "poll" THEN Open!client_add(<<>>, 1, 1)[1] ELSE <<>>
      /\ pollfd = <<>> /\ allset = IF build = "select" THEN {1} ELSE {}
      /\ maxfd = IF build = "poll" THEN NALLOC ELSE 1
      /\ fdOf = [c \in Clients |-> 0] /\ backlog = <<>>
      /\ in = [c \in Clients |-> <<>>] /\ out = [c \in Clients |-> <<>>]
      /\ cpc = [c \in Clients |-> "new"] /\ asked = [c \in Clients |-> "none"]
      /\ got = [c \in Clients |-> Open!NoAnswer]
  BY DEF Open!Init, Open!ListenFd
<1>2. /\ \A c \in Clients : fdOf[c] = 0 /\ in[c] = <<>> /\ out[c] = <<>> /\ cpc[c] = "new"
      /\ fdOf \in [Clients -> Nat] /\ cpc \in [Clients -> {"new", "ready", "waiting", "gone"}]
      /\ \A f : ~Watches(f)
  BY <1>1 DEF Watches
<1>3. PICK u : u = client
  OBVIOUS
<1>4. u \in Seq(Entry) /\ \A m \in 1 .. Len(u) : u[m].fd \in {0, 1}
  <2>1. CASE build = "poll"
    <3>1. PICK n : n = Open!client_add(<<>>, 1, 1)[2]
      OBVIOUS
    <3>2. AddedTo(<<>>, u, 1, n)
      <4>1. <<>> \in Seq(Entry) /\ 1 \in Nat /\ 1 \in Clients \cup {1}
        OBVIOUS
      <4> QED BY <1>1, <1>3, <2>1, <3>1, <4>1, ClientAdd
    <3> QED BY <3>2 DEF AddedTo
  <2>2. CASE build # "poll"
    BY <1>1, <1>3, <2>2
  <2> QED BY <2>1, <2>2
<1>5. \A m, n \in 1 .. Len(u) : u[m].fd = u[n].fd /\ u[m].fd \notin {0, 1} => m = n
  BY <1>4
<1>6. OpenTypeOK
  <2>1. pollfd \in Seq(PollEntry) /\ backlog \in Seq(Clients) /\ maxfd \in Nat
    BY <1>1, OpenAssumption
  <2>2. /\ in = [c \in Clients |-> in[c]] /\ out = [c \in Clients |-> out[c]]
        /\ asked = [c \in Clients |-> asked[c]] /\ got = [c \in Clients |-> got[c]]
    BY <1>1, Zenon
  <2> QED BY <1>1, <1>2, <1>3, <1>4, <2>1, <2>2 DEF OpenTypeOK
<1>7. FdsRight /\ BacklogRight
  BY <1>1, <1>2 DEF FdsRight, BacklogRight
<1>8. TableRight
  BY <1>2, <1>3, <1>4, <1>5 DEF TableRight
<1>9. PollRight
  BY <1>1, <1>2, OpenAssumption DEF PollRight
<1>10. SelectRight
  <2>1. build = "select" => client = <<>>
    BY <1>1
  <2>2. build = "select" => allset = {1} \cup Open!Accepted
    BY <1>1, <1>2 DEF Open!Accepted
  <2> QED BY <1>1, <2>1, <2>2 DEF SelectRight
<1>11. \A c \in Clients : ClientRight(c)
  BY <1>1, <1>2 DEF ClientRight, WaitsRight, ReadyRight, CallRight, Still, Handling
<1> QED BY <1>1, <1>6, <1>7, <1>8, <1>9, <1>10, <1>11 DEF OpenInv, Open!Up

LEMMA OpenNext == OpenInv /\ [MCNext]_all => OpenInv'
<1> SUFFICES ASSUME OpenInv, [MCNext]_all PROVE OpenInv'
  OBVIOUS
<1>1. CASE Open!Next
  <2>1. CASE Open!ServerStep
    BY <2>1, PollStep, PollAcceptStep, PollScanStep, PollAgainStep, SelectStep, SelectAcceptStep,
       SelectScanStep, SelectAgainStep, SendStatusStep DEF Open!ServerStep
  <2>2. ASSUME NEW c \in Clients,
               Open!recv_fd(c) \/ Open!Leave(c) \/ Open!Killed(c) \/ \E name \in Names : Open!csopen(c, name)
        PROVE  OpenInv'
    BY <2>2, RecvFdStep, ClientEnds, CsopenStep
  <2> QED BY <1>1, <2>1, <2>2 DEF Open!Next
<1>2. CASE UNCHANGED openVars
  <2>1. UNCHANGED <<build, spc, i, client, pollfd, allset, rset, maxi, maxfd, handled, fdOf, backlog,
                    in, out, cpc, asked, got, broke>>
    BY <1>2 DEF openVars
  <2>2. OpenTypeOK' /\ FdsRight' /\ BacklogRight' /\ TableRight'
    BY <2>1 DEF OpenInv, OpenTypeOK, FdsRight, BacklogRight, TableRight, Watches
  <2>3. PollRight' /\ SelectRight'
    BY <2>1 DEF OpenInv, PollRight, SelectRight, StillTrue, NextEntry, Watches, Open!Accepted,
                Open!Readable, Open!Gone
  <2>4. ASSUME NEW c \in Clients PROVE ClientRight(c)'
    <3>1. /\ ClientRight(c) /\ Open!Up' = Open!Up /\ Handling(c)' = Handling(c)
          /\ Open!Pending(c)' = Open!Pending(c)
      BY <2>1 DEF OpenInv, Open!Up, Handling, Open!Pending
    <3> QED BY <2>1, <3>1, ClientStays
  <2> QED BY <2>1, <2>2, <2>3, <2>4 DEF OpenInv, Open!Up
<1> QED BY <1>1, <1>2 DEF MCNext, Runs, all

(* As many entries of poll as connections: the entries are a bijection.    *)
LEMMA AsManyAsAccepted ==
  ASSUME OpenInv, build = "poll"
  PROVE  Len(pollfd) = Cardinality(Open!Accepted)
<1>1. PICK n, g : n = Len(pollfd) /\ g = [m \in 1 .. n |-> pollfd[m].fd]
  OBVIOUS
<1>2. PollRight /\ n \in Nat
  BY <1>1 DEF OpenInv, OpenTypeOK
<1>3. \A f : f \in Open!Accepted <=> Watches(f)
  BY AcceptedIs
<1>4. g \in [1 .. n -> Open!Accepted]
  BY <1>1, <1>2, <1>3 DEF PollRight
<1>5. \A x, y \in 1 .. n : g[x] = g[y] => x = y
  BY <1>1, <1>2 DEF PollRight
<1>6. \A f \in Open!Accepted : \E m \in 1 .. n : g[m] = f
  BY <1>1, <1>2, <1>3 DEF PollRight, Watches
<1>7. g \in Bijection(1 .. n, Open!Accepted)
  <2>1. g \in Surjection(1 .. n, Open!Accepted)
    BY <1>4, <1>6 DEF Surjection
  <2>2. g \in Injection(1 .. n, Open!Accepted)
    BY <1>4, <1>5 DEF Injection, IsInjective
  <2> QED BY <2>1, <2>2 DEF Bijection
<1>8. ExistsBijection(1 .. n, Open!Accepted)
  BY <1>7 DEF ExistsBijection
<1>9. IsFiniteSet(1 .. n) /\ Cardinality(1 .. n) = n
  <2>1. /\ IsFiniteSet(1 .. n)
        /\ Cardinality(1 .. n) = IF 1 > n THEN 0 ELSE n - 1 + 1
    BY <1>2, FS_Interval
  <2> QED BY <1>2, <2>1
<1> QED BY <1>1, <1>8, <1>9, FS_Bijection

LEMMA TablesMatch == OpenInv => Open!TableMatches
<1> SUFFICES ASSUME OpenInv PROVE Open!TableMatches
  OBVIOUS
<1>1. OpenTypeOK /\ TableRight /\ PollRight /\ SelectRight /\ FdsRight
  BY DEF OpenInv
<1>2. DOMAIN client = 1 .. Len(client) /\ DOMAIN pollfd = 1 .. Len(pollfd)
  BY <1>1 DEF OpenTypeOK
<1>3. Open!Watched = Open!Accepted
  <2>1. CASE build = "poll"
    <3>1. \A f : f \in Open!Watched <=> \E n \in 1 .. Len(pollfd) : pollfd[n].fd = f
      BY <1>2, <2>1 DEF Open!Watched
    <3>2. \A f : f \in Open!Watched <=> f \in Open!Accepted
      BY <1>1, <2>1, <3>1, AcceptedIs DEF PollRight, Watches
    <3> QED BY <3>2
  <2>2. CASE build = "select"
    <3>1. 1 \notin Open!Accepted /\ allset = {1} \cup Open!Accepted
      BY <1>1, <2>2, AcceptedIs DEF SelectRight, FdsRight, Watches
    <3> QED BY <2>2, <3>1 DEF Open!Watched, Open!ListenFd
  <2> QED BY <1>1, <2>1, <2>2 DEF OpenTypeOK
<1>4. ASSUME NEW f \in Open!Accepted PROVE Open!Cardinality({n \in DOMAIN client : client[n].fd = f}) = 1
  <2>1. Watches(f) /\ f \notin {0, 1}
    BY <1>1, AcceptedIs DEF Watches, FdsRight
  <2>2. PICK n \in 1 .. Len(client) : client[n].fd = f
    BY <1>1, <2>1 DEF TableRight, Watches
  <2>3. {m \in DOMAIN client : client[m].fd = f} = {n}
    BY <1>1, <1>2, <2>1, <2>2 DEF TableRight
  <2> QED BY <2>3, FS_Singleton, OpenCardinality
<1>5. \A n \in DOMAIN client : client[n].fd \in Open!Accepted \cup {0, 1}
  BY <1>1, <1>2, AcceptedIs DEF TableRight
<1>6. build = "poll" => Len(pollfd) = Open!Cardinality(Open!Accepted) /\ Len(pollfd) < maxfd
  BY <1>1, AsManyAsAccepted, OpenCardinality DEF PollRight
<1>7. build = "select" => \A n \in DOMAIN client : client[n].fd # 0 => n <= maxi
  BY <1>1, <1>2 DEF SelectRight
<1> QED BY <1>3, <1>4, <1>5, <1>6, <1>7 DEF Open!TableMatches, Open!ListenFd

(* A csopen returns the descriptor of the file it named, the status of its *)
(* error, or the end of a server that is gone; between two passes the open *)
(* server has one entry for each connection that it watches, with room for *)
(* one more; and it ends only after a client was killed inside a call.     *)
THEOREM AnswersAreRight == MCSpec => []AnswersMatch
<1>1. MCInit => OpenInv
  BY OpenInit DEF MCInit
<1>2. OpenInv => AnswersMatch
  BY TablesMatch DEF OpenInv, ClientRight, ReadyRight, AnswersMatch, Open!AnswersMatch, Open!ServerStays
<1> QED BY <1>1, <1>2, OpenNext, PTL DEF MCSpec

=============================================================================
