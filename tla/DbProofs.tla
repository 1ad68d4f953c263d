----------------------------- MODULE DbProofs ------------------------------
(***************************************************************************)
(* The locks and the files of the database library, proved for any number  *)
(* of processes, keys and chains and any calls, with processes that die.   *)
(*                                                                         *)
(* Locks: the inductive invariant says exactly which range each program    *)
(* position holds, in both directions: a position implies its locks, and a *)
(* lock implies the position of its holder.                                *)
(*                                                                         *)
(* Files: every pointer of the index file and of a DB structure is to a    *)
(* record or ends a list, and no two index records ever refer to the same  *)
(* data record, not even when processes die in the middle of a deletion.   *)
(***************************************************************************)
EXTENDS DbProps, TLAPS

InDat(p) == pc[p] \in {"datseek", "datappend", "datunlock"}
InIdx(p) == pc[p] \in {"idxseek", "idxappend", "idxunlock"}

Positions ==
  {"idle", "dead", "lock", "head", "walk", "unlock", "readdat", "dellock",
   "delblank", "delfree", "delidx", "delhead", "delunlink", "delunlock", "front",
   "refront", "fflock", "ffhead", "ffwalk", "ffunlink", "ffunlock", "datlock",
   "datseek", "datappend", "datwrite", "overwrite", "datunlock", "idxlock",
   "idxseek", "idxappend", "idxwrite", "idxunlock", "link", "scan", "nextread",
   "nextdat", "nextunlock"}

(* The lock table and the positions have their types; a process inside     *)
(* db_fetch, db_store or db_delete knows its key.                          *)
LocksTypeOK ==
  /\ readers \in [Ranges -> SUBSET Procs]
  /\ writer \in [Ranges -> Procs \cup {NoProc}]
  /\ pc \in [Procs -> Positions]
  /\ call \in [Procs -> Calls \cup {NoCall}]
  /\ \A p \in Procs : pc[p] = "lock" \/ InChain(p) => call[p] \in Calls

(* db_fetch writes nothing and asks for no second lock                     *)
FetchPath(p) ==
  InChain(p) /\ call[p].op = "fetch" => pc[p] \in {"head", "walk", "readdat", "unlock"}

(* A position implies its locks                                            *)
Holds(p) ==
  /\ InChain(p) => IF call[p].op = "fetch" THEN p \in readers[ChainOff(p)]
                                           ELSE writer[ChainOff(p)] = p
  /\ InFree(p) => writer[FREE_OFF] = p
  /\ InNext(p) => p \in readers[FREE_OFF]
  /\ InDat(p) => writer[DatFile] = p
  /\ InIdx(p) => writer[IdxTail] = p

(* A lock implies the position of its holder                               *)
WriterAt(p, r) ==
  \/ r \in Chains /\ InChain(p) /\ ChainOff(p) = r /\ call[p].op # "fetch"
  \/ r = FREE_OFF /\ InFree(p)
  \/ r = DatFile /\ InDat(p)
  \/ r = IdxTail /\ InIdx(p)
ReaderAt(p, r) ==
  \/ r \in Chains /\ InChain(p) /\ ChainOff(p) = r /\ call[p].op = "fetch"
  \/ r = FREE_OFF /\ InNext(p)

Justified(r) ==
  /\ writer[r] # NoProc => WriterAt(writer[r], r) /\ readers[r] = {}
  /\ \A p \in readers[r] : ReaderAt(p, r)

IInv ==
  /\ LocksTypeOK
  /\ \A p \in Procs : Holds(p) /\ FetchPath(p)
  /\ \A r \in Ranges : Justified(r)

LEMMA RangeFacts ==
  /\ FREE_OFF \in Ranges /\ IdxTail \in Ranges /\ DatFile \in Ranges
  /\ Chains \subseteq Ranges
  /\ FREE_OFF \notin Chains /\ IdxTail \notin Chains /\ DatFile \notin Chains
  /\ FREE_OFF # IdxTail /\ FREE_OFF # DatFile /\ IdxTail # DatFile
  BY NHashAssumption DEF FREE_OFF, IdxTail, DatFile, Ranges, Chains

LEMMA ChainInRange ==
  ASSUME NEW c \in Calls
  PROVE  Hash[c.key] \in Chains
  BY HashAssumption DEF Calls

LEMMA InitIInv == Init => IInv
  BY RangeFacts, ProcAssumption
     DEF Init, IInv, LocksTypeOK, Holds, Justified, InChain, OutsideChain, InFree,
         InNext, InDat, InIdx, Positions, FetchPath

(* A step of p that leaves the locks and the calls alone and stays inside  *)
(* the same critical sections                                              *)
SameSections(p) ==
  /\ UNCHANGED <<readers, writer, call>>
  /\ pc[p] \notin {"lock", "idle", "dead"}
  /\ pc' = [pc EXCEPT ![p] = pc'[p]]
  /\ pc'[p] \in Positions
  /\ InChain(p)' = InChain(p) /\ InFree(p)' = InFree(p) /\ InNext(p)' = InNext(p)
  /\ InDat(p)' = InDat(p) /\ InIdx(p)' = InIdx(p)
  /\ FetchPath(p)'

LEMMA SameSectionsKeep ==
  ASSUME IInv, NEW p \in Procs, SameSections(p),
         pc'[p] # "lock"
  PROVE  IInv'
  <1>1. LocksTypeOK'
    BY DEF IInv, LocksTypeOK, SameSections, InChain
  <1>2. \A q \in Procs : /\ InChain(q)' = InChain(q) /\ InFree(q)' = InFree(q)
                         /\ InNext(q)' = InNext(q) /\ InDat(q)' = InDat(q)
                         /\ InIdx(q)' = InIdx(q) /\ ChainOff(q)' = ChainOff(q)
    BY DEF IInv, LocksTypeOK, SameSections, InChain, InFree, InNext, InDat, InIdx,
           ChainOff
  <1>3. \A q \in Procs : Holds(q)' /\ FetchPath(q)'
    BY <1>2 DEF IInv, LocksTypeOK, Holds, FetchPath, SameSections
  <1>4. \A r \in Ranges : Justified(r)'
    BY <1>2 DEF IInv, LocksTypeOK, Justified, WriterAt, ReaderAt, SameSections
  <1>5. QED
    BY <1>1, <1>3, <1>4 DEF IInv

(* A step that only takes the write lock on r, moving p into its section   *)
LEMMA TakeWrite ==
  ASSUME IInv, NEW p \in Procs, NEW r \in Ranges, writew_lock(p, r), UNCHANGED call,
         pc' = [pc EXCEPT ![p] = pc'[p]], pc'[p] \in Positions,
         ~InNext(p), ~InNext(p)',
         \/ /\ r \in Chains /\ pc[p] = "lock" /\ pc'[p] = "head"
            /\ r = ChainOff(p) /\ call[p].op # "fetch"
         \/ /\ r = FREE_OFF /\ InChain(p) /\ InChain(p)' /\ ~InFree(p) /\ InFree(p)'
            /\ call[p].op # "fetch"
            /\ InDat(p)' = InDat(p) /\ InIdx(p)' = InIdx(p)
         \/ /\ r = DatFile /\ InChain(p) /\ InChain(p)' /\ ~InDat(p) /\ InDat(p)'
            /\ call[p].op # "fetch"
            /\ InFree(p)' = InFree(p) /\ InIdx(p)' = InIdx(p)
         \/ /\ r = IdxTail /\ InChain(p) /\ InChain(p)' /\ ~InIdx(p) /\ InIdx(p)'
            /\ call[p].op # "fetch"
            /\ InFree(p)' = InFree(p) /\ InDat(p)' = InDat(p)
  PROVE  IInv'
  <1> USE RangeFacts
  <1>1. LocksTypeOK'
    BY DEF IInv, LocksTypeOK, writew_lock, InChain, OutsideChain
  <1>2. readers[r] = {} /\ writer[r] \in {NoProc, p}
    BY DEF IInv, LocksTypeOK, writew_lock, CanWrite, Justified, ReaderAt, InChain,
           OutsideChain, ChainOff
  <1>3. \A q \in Procs : q # p =>
          /\ InChain(q)' = InChain(q) /\ InFree(q)' = InFree(q)
          /\ InNext(q)' = InNext(q) /\ InDat(q)' = InDat(q)
          /\ InIdx(q)' = InIdx(q) /\ ChainOff(q)' = ChainOff(q)
    BY DEF IInv, LocksTypeOK, InChain, InFree, InNext, InDat, InIdx, ChainOff
  <1>4. /\ readers' = readers
        /\ writer' = [writer EXCEPT ![r] = p]
        /\ ChainOff(p)' = ChainOff(p)
    BY DEF writew_lock, ChainOff
  <1>5. \A q \in Procs : Holds(q)'
    <2>1. ASSUME NEW q \in Procs, q # p PROVE Holds(q)'
      <3>1. Holds(q) /\ q # NoProc
        BY ProcAssumption DEF IInv
      <3>2. \A s \in Ranges : writer[s] = q => writer'[s] = q
        BY <1>2, <1>4, <2>1, <3>1 DEF IInv, LocksTypeOK
      <3>3. InChain(q) => ChainOff(q) \in Ranges
        BY ChainInRange DEF IInv, LocksTypeOK, ChainOff
      <3>4. QED
        BY <1>3, <1>4, <2>1, <3>1, <3>2, <3>3 DEF Holds
    <2>2. Holds(p)'
      <3>1. Holds(p)
        BY DEF IInv
      <3>2. \A s \in Ranges : writer[s] = p => writer'[s] = p
        BY <1>4 DEF IInv, LocksTypeOK
      <3>3. writer'[r] = p
        BY <1>4 DEF IInv, LocksTypeOK
      <3>4. InChain(p) => ChainOff(p) \in Ranges
        BY ChainInRange DEF IInv, LocksTypeOK, ChainOff
      <3>5. QED
        BY <1>4, <3>1, <3>2, <3>3, <3>4
           DEF Holds, InChain, OutsideChain, InFree, InDat, InIdx
    <2>3. QED
      BY <2>1, <2>2
  <1>6. \A s \in Ranges : Justified(s)'
    <2> SUFFICES ASSUME NEW s \in Ranges PROVE Justified(s)'
      OBVIOUS
    <2>1. CASE s = r
      BY <1>2, <1>4, <2>1 DEF IInv, LocksTypeOK, Justified, WriterAt, ChainOff, InChain,
         OutsideChain
    <2>2. CASE s # r
      <3>1. writer'[s] = writer[s] /\ readers'[s] = readers[s] /\ Justified(s)
        BY <1>4, <2>2 DEF IInv, LocksTypeOK
      <3>2. ASSUME NEW q \in Procs, WriterAt(q, s) PROVE WriterAt(q, s)'
        BY <1>3, <1>4, <2>2, <3>2
           DEF WriterAt, ChainOff, InChain, OutsideChain, InFree, InDat, InIdx
      <3>3. ASSUME NEW q \in Procs, ReaderAt(q, s) PROVE ReaderAt(q, s)'
        BY <1>3, <1>4, <2>2, <3>3
           DEF ReaderAt, ChainOff, InChain, OutsideChain, InNext
      <3>4. QED
        BY <3>1, <3>2, <3>3 DEF IInv, LocksTypeOK, Justified
    <2>3. QED
      BY <2>1, <2>2
  <1>7. \A q \in Procs : FetchPath(q)'
    BY <1>3 DEF IInv, LocksTypeOK, FetchPath, InChain, OutsideChain, InFree, InDat, InIdx
  <1>8. QED
    BY <1>1, <1>5, <1>6, <1>7 DEF IInv

(* A step that only takes a read lock on r                                 *)
LEMMA TakeRead ==
  ASSUME IInv, NEW p \in Procs, NEW r \in Ranges, readw_lock(p, r), UNCHANGED call,
         pc' = [pc EXCEPT ![p] = pc'[p]],
         \/ /\ r \in Chains /\ pc[p] = "lock" /\ pc'[p] = "head"
            /\ r = ChainOff(p) /\ call[p].op = "fetch"
         \/ r = FREE_OFF /\ pc[p] = "scan" /\ pc'[p] = "nextread"
  PROVE  IInv'
  <1> USE RangeFacts
  <1>1. LocksTypeOK'
    BY DEF IInv, LocksTypeOK, readw_lock, InChain, OutsideChain, Positions
  <1>2. writer[r] = NoProc
    BY DEF IInv, LocksTypeOK, readw_lock, CanRead, Justified, WriterAt, InChain,
           OutsideChain, InFree, InDat, InIdx, ChainOff
  <1>3. \A q \in Procs : q # p =>
          /\ InChain(q)' = InChain(q) /\ InFree(q)' = InFree(q)
          /\ InNext(q)' = InNext(q) /\ InDat(q)' = InDat(q)
          /\ InIdx(q)' = InIdx(q) /\ ChainOff(q)' = ChainOff(q)
    BY DEF IInv, LocksTypeOK, InChain, InFree, InNext, InDat, InIdx, ChainOff
  <1>4. /\ writer' = writer
        /\ readers' = [readers EXCEPT ![r] = @ \cup {p}]
        /\ ChainOff(p)' = ChainOff(p)
    BY DEF readw_lock, ChainOff
  <1>5. \A q \in Procs : Holds(q)'
    <2>1. ASSUME NEW q \in Procs, q # p PROVE Holds(q)'
      <3>1. Holds(q)
        BY DEF IInv
      <3>2. \A s \in Ranges : q \in readers[s] => q \in readers'[s]
        BY <1>4 DEF IInv, LocksTypeOK
      <3>3. InChain(q) => ChainOff(q) \in Ranges
        BY ChainInRange DEF IInv, LocksTypeOK, ChainOff
      <3>4. QED
        BY <1>3, <1>4, <2>1, <3>1, <3>2, <3>3 DEF Holds
    <2>2. Holds(p)'
      BY <1>4 DEF IInv, LocksTypeOK, Holds, InChain, OutsideChain, InFree, InNext,
         InDat, InIdx
    <2>3. QED
      BY <2>1, <2>2
  <1>6. \A s \in Ranges : Justified(s)'
    <2> SUFFICES ASSUME NEW s \in Ranges PROVE Justified(s)'
      OBVIOUS
    <2>1. ASSUME NEW q \in Procs, WriterAt(q, s) PROVE WriterAt(q, s)'
      BY <1>3, <1>4, <2>1
         DEF IInv, LocksTypeOK, WriterAt, ChainOff, InChain, OutsideChain, InFree, InDat, InIdx
    <2>2. ASSUME NEW q \in Procs, ReaderAt(q, s) PROVE ReaderAt(q, s)'
      BY <1>3, <1>4, <2>2
         DEF IInv, LocksTypeOK, ReaderAt, ChainOff, InChain, OutsideChain, InNext
    <2>3. r = s => ReaderAt(p, s)'
      BY <1>4 DEF IInv, LocksTypeOK, ReaderAt, InChain, OutsideChain, InNext
    <2>4. QED
      BY <1>2, <1>4, <2>1, <2>2, <2>3 DEF IInv, LocksTypeOK, Justified
  <1>7. \A q \in Procs : FetchPath(q)'
    BY <1>3 DEF IInv, LocksTypeOK, FetchPath, InChain, OutsideChain, InFree, InDat, InIdx
  <1>8. QED
    BY <1>1, <1>5, <1>6, <1>7 DEF IInv

(* A step that only drops the lock p has on r and leaves its section       *)
LEMMA Release ==
  ASSUME IInv, NEW p \in Procs, NEW r \in Ranges, un_lock(p, r), UNCHANGED call,
         pc' = [pc EXCEPT ![p] = pc'[p]], pc'[p] \in Positions, pc'[p] # "lock",
         \/ r \in Chains /\ pc[p] = "unlock" /\ pc'[p] = "idle" /\ r = ChainOff(p)
         \/ /\ r = FREE_OFF /\ InFree(p) /\ ~InFree(p)' /\ InChain(p) /\ InChain(p)'
            /\ ~InNext(p)' /\ ~InDat(p)' /\ ~InIdx(p)'
         \/ /\ r = FREE_OFF /\ InNext(p) /\ ~InNext(p)' /\ pc'[p] \in {"idle", "scan"}
         \/ /\ r = DatFile /\ InDat(p) /\ ~InDat(p)' /\ InChain(p)'
            /\ ~InNext(p)' /\ ~InFree(p)' /\ ~InIdx(p)'
         \/ /\ r = IdxTail /\ InIdx(p) /\ ~InIdx(p)' /\ InChain(p)'
            /\ ~InNext(p)' /\ ~InFree(p)' /\ ~InDat(p)'
  PROVE  IInv'
  <1> USE RangeFacts
  <1>1. LocksTypeOK'
    BY DEF IInv, LocksTypeOK, un_lock, InChain, OutsideChain, InDat, InIdx
  <1>2. \A q \in Procs : q # p =>
          /\ InChain(q)' = InChain(q) /\ InFree(q)' = InFree(q)
          /\ InNext(q)' = InNext(q) /\ InDat(q)' = InDat(q)
          /\ InIdx(q)' = InIdx(q) /\ ChainOff(q)' = ChainOff(q)
    BY DEF IInv, LocksTypeOK, InChain, InFree, InNext, InDat, InIdx, ChainOff
  <1>3. /\ \A s \in Ranges : /\ s # r => /\ writer'[s] = writer[s]
                                         /\ readers'[s] = readers[s]
                             /\ \A q \in Procs : q # p =>
                                  /\ writer[s] = q <=> writer'[s] = q
                                  /\ q \in readers[s] <=> q \in readers'[s]
        /\ writer'[r] # p /\ p \notin readers'[r]
        /\ writer[r] = NoProc => writer'[r] = NoProc
        /\ ChainOff(p)' = ChainOff(p)
    BY ProcAssumption DEF IInv, LocksTypeOK, un_lock, ChainOff
  <1>4. \A q \in Procs : Holds(q)'
    <2>1. ASSUME NEW q \in Procs PROVE InChain(q) => ChainOff(q) \in Chains
      BY ChainInRange DEF IInv, LocksTypeOK, ChainOff
    <2>2. ASSUME NEW q \in Procs, q # p PROVE Holds(q)'
      <3>1. Holds(q)
        BY DEF IInv
      <3>2. QED
        BY <1>2, <1>3, <2>1, <2>2, <3>1 DEF Holds
    <2>3. Holds(p)'
      <3>1. Holds(p)
        BY DEF IInv
      <3>2. call'[p] = call[p]
        OBVIOUS
      <3>3. QED
        BY <1>3, <2>1, <3>1, <3>2
           DEF Holds, InChain, OutsideChain, InFree, InNext, InDat, InIdx
    <2>4. QED
      BY <2>2, <2>3
  <1>5. \A s \in Ranges : Justified(s)'
    <2> SUFFICES ASSUME NEW s \in Ranges PROVE Justified(s)'
      OBVIOUS
    <2>1. ASSUME NEW q \in Procs, WriterAt(q, s), q # p \/ s # r PROVE WriterAt(q, s)'
      BY <1>2, <1>3, <2>1
         DEF WriterAt, ChainOff, InChain, OutsideChain, InFree, InDat, InIdx, InNext
    <2>2. ASSUME NEW q \in Procs, ReaderAt(q, s), q # p \/ s # r PROVE ReaderAt(q, s)'
      BY <1>2, <1>3, <2>2
         DEF ReaderAt, ChainOff, InChain, OutsideChain, InNext, InFree, InDat, InIdx
    <2>3. Justified(s) /\ readers'[s] \subseteq readers[s]
          /\ (writer'[s] # NoProc => writer'[s] = writer[s])
      BY DEF IInv, LocksTypeOK, un_lock
    <2>4. QED
      BY <1>3, <2>1, <2>2, <2>3 DEF IInv, LocksTypeOK, Justified
  <1>6. \A q \in Procs : FetchPath(q)'
    BY <1>2 DEF IInv, LocksTypeOK, FetchPath, InChain, OutsideChain, InFree, InDat, InIdx
  <1>7. QED
    BY <1>1, <1>4, <1>5, <1>6 DEF IInv

(* The kernel drops every lock of a process that dies                      *)
LEMMA CrashKeeps == ASSUME IInv, NEW p \in Procs, Crash(p) PROVE IInv'
  <1> USE RangeFacts
  <1>1. LocksTypeOK'
    BY DEF IInv, LocksTypeOK, Crash, Goto, InChain, OutsideChain, Positions
  <1>2. \A q \in Procs : q # p =>
          /\ InChain(q)' = InChain(q) /\ InFree(q)' = InFree(q)
          /\ InNext(q)' = InNext(q) /\ InDat(q)' = InDat(q)
          /\ InIdx(q)' = InIdx(q) /\ ChainOff(q)' = ChainOff(q) /\ call'[q] = call[q]
    BY DEF IInv, LocksTypeOK, InChain, InFree, InNext, InDat, InIdx, ChainOff, Crash,
           Goto
  <1>3. \A s \in Ranges : /\ writer'[s] = IF writer[s] = p THEN NoProc ELSE writer[s]
                          /\ readers'[s] = readers[s] \ {p}
    BY DEF Crash
  <1>4. \A q \in Procs : Holds(q)'
    <2>1. ASSUME NEW q \in Procs PROVE InChain(q) => ChainOff(q) \in Ranges
      BY ChainInRange DEF IInv, LocksTypeOK, ChainOff
    <2>2. ASSUME NEW q \in Procs, q # p PROVE Holds(q)'
      <3>1. Holds(q)
        BY DEF IInv
      <3>2. QED
        BY <1>2, <1>3, <2>1, <2>2, <3>1 DEF Holds
    <2>3. Holds(p)'
      BY DEF IInv, LocksTypeOK, Crash, Goto, Holds, InChain, OutsideChain, InFree,
         InNext, InDat, InIdx
    <2>4. QED
      BY <2>2, <2>3
  <1>5. \A s \in Ranges : Justified(s)'
    <2> SUFFICES ASSUME NEW s \in Ranges PROVE Justified(s)'
      OBVIOUS
    <2>1. ASSUME NEW q \in Procs, WriterAt(q, s), q # p PROVE WriterAt(q, s)'
      BY <1>2, <2>1 DEF WriterAt
    <2>2. ASSUME NEW q \in Procs, ReaderAt(q, s), q # p PROVE ReaderAt(q, s)'
      BY <1>2, <2>2 DEF ReaderAt
    <2>3. QED
      BY <1>3, <2>1, <2>2, ProcAssumption DEF IInv, LocksTypeOK, Justified
  <1>6. \A q \in Procs : FetchPath(q)'
    BY <1>2 DEF Crash, Goto, IInv, LocksTypeOK, FetchPath, InChain, OutsideChain, InFree, InDat, InIdx
  <1>7. QED
    BY <1>1, <1>4, <1>5, <1>6 DEF IInv

(* A new call, or the start of a scan, by a process outside the library    *)
LEMMA StartKeeps ==
  ASSUME IInv, NEW p \in Procs, Begin(p) \/ Rewind(p)
  PROVE  IInv'
  <1>1. /\ pc[p] = "idle" /\ pc' = [pc EXCEPT ![p] = pc'[p]]
        /\ pc'[p] \in {"lock", "scan"} /\ UNCHANGED locks
    BY DEF IInv, LocksTypeOK, Begin, Rewind, Goto
  <1>2. \A q \in Procs : q # p => call'[q] = call[q]
    BY DEF Begin, Rewind, IInv, LocksTypeOK
  <1>3. /\ call' \in [Procs -> Calls \cup {NoCall}]
        /\ pc'[p] = "lock" => call'[p] \in Calls
    BY RequestAssumption DEF Begin, Rewind, IInv, LocksTypeOK, Goto
  <1>4. LocksTypeOK'
    BY <1>1, <1>2, <1>3 DEF IInv, LocksTypeOK, locks, InChain, OutsideChain, Positions
  <1>5. \A q \in Procs : /\ InChain(q)' = InChain(q) /\ InFree(q)' = InFree(q)
                         /\ InNext(q)' = InNext(q) /\ InDat(q)' = InDat(q)
                         /\ InIdx(q)' = InIdx(q)
                         /\ InChain(q) => ChainOff(q)' = ChainOff(q) /\ call'[q] = call[q]
    BY <1>1, <1>2 DEF IInv, LocksTypeOK, InChain, OutsideChain, InFree, InNext, InDat,
       InIdx, ChainOff
  <1>6. \A q \in Procs : Holds(q)'
    BY <1>1, <1>5 DEF IInv, Holds, locks
  <1>7. \A s \in Ranges : Justified(s)'
    BY <1>1, <1>5 DEF IInv, LocksTypeOK, Justified, WriterAt, ReaderAt, locks
  <1>8. \A q \in Procs : FetchPath(q)'
    BY <1>1, <1>5 DEF IInv, LocksTypeOK, FetchPath, InChain, OutsideChain, InFree, InDat, InIdx
  <1>9. QED
    BY <1>4, <1>6, <1>7, <1>8 DEF IInv

(* The steps that take no lock and drop none                               *)
Quiet(p) ==
  \/ ReadHead(p) \/ Walk(p) \/ ReadDat(p)
  \/ DelBlankData(p) \/ DelReadFree(p) \/ DelWriteIdx(p) \/ DelWriteFree(p)
  \/ DelUnlink(p) \/ ReadFront(p) \/ FreeHead(p) \/ FreeWalk(p) \/ FreeUnlink(p)
  \/ DatSeekEnd(p) \/ DatWrite(p) \/ IdxSeekEnd(p) \/ IdxWrite(p) \/ Link(p)
  \/ NextRead(p) \/ NextDat(p)

LEMMA QuietKeeps == ASSUME IInv, NEW p \in Procs, Quiet(p) PROVE IInv'
  <1> USE DEF SameSections, FetchPath, Goto, locks, files, IInv, LocksTypeOK, Positions, InChain,
              OutsideChain, InFree, InNext, InDat, InIdx
  <1>1. pc \in [Procs -> Positions]
    OBVIOUS
  <1>2. CASE ReadHead(p)
    <2>1. SameSections(p) /\ pc'[p] # "lock"
      BY <1>2 DEF ReadHead, NotFound
    <2>2. QED
      BY <2>1, SameSectionsKeep
  <1>3. CASE Walk(p)
    <2>1. SameSections(p) /\ pc'[p] # "lock"
      BY <1>3 DEF Walk, NotFound, Found
    <2>2. QED
      BY <2>1, SameSectionsKeep
  <1>4. CASE ReadDat(p) \/ ReadFront(p) \/ Link(p)
    <2>1. SameSections(p) /\ pc'[p] # "lock"
      BY <1>4 DEF ReadDat, ReadFront, Link
    <2>2. QED
      BY <2>1, SameSectionsKeep
  <1>5. CASE \/ DelBlankData(p) \/ DelReadFree(p) \/ DelWriteIdx(p) \/ DelWriteFree(p)
             \/ DelUnlink(p)
    <2>1. SameSections(p) /\ pc'[p] # "lock"
      BY <1>5 DEF DelBlankData, DelReadFree, DelWriteIdx, DelWriteFree, DelUnlink
    <2>2. QED
      BY <2>1, SameSectionsKeep
  <1>6. CASE FreeHead(p) \/ FreeWalk(p) \/ FreeUnlink(p)
    <2>1. SameSections(p) /\ pc'[p] # "lock"
      BY <1>6 DEF FreeHead, FreeWalk, FreeUnlink
    <2>2. QED
      BY <2>1, SameSectionsKeep
  <1>7. CASE DatSeekEnd(p) \/ DatWrite(p) \/ IdxSeekEnd(p) \/ IdxWrite(p)
    <2>1. SameSections(p) /\ pc'[p] # "lock"
      BY <1>7 DEF DatSeekEnd, DatWrite, IdxSeekEnd, IdxWrite
    <2>2. QED
      BY <2>1, SameSectionsKeep
  <1>8. CASE NextRead(p) \/ NextDat(p)
    <2>1. SameSections(p) /\ pc'[p] # "lock"
      BY <1>8 DEF NextRead, NextDat
    <2>2. QED
      BY <2>1, SameSectionsKeep
  <1>9. QED
    BY <1>2, <1>3, <1>4, <1>5, <1>6, <1>7, <1>8 DEF Quiet

(* The steps that take a lock                                              *)
LEMMA LockKeeps ==
  ASSUME IInv, NEW p \in Procs,
         \/ LockChain(p) \/ DelLock(p) \/ FreeLock(p) \/ DatLock(p) \/ IdxLock(p)
         \/ NextLock(p)
  PROVE  IInv'
  <1> USE RangeFacts
  <1>1. pc \in [Procs -> Positions] /\ FetchPath(p)
    BY DEF IInv, LocksTypeOK
  <1>2. InChain(p) \/ pc[p] = "lock" => ChainOff(p) \in Ranges /\ ChainOff(p) \in Chains
    BY ChainInRange DEF IInv, LocksTypeOK, ChainOff
  <1>3. CASE LockChain(p)
    <2>1. /\ pc[p] = "lock" /\ pc'[p] = "head" /\ pc'[p] \in Positions
          /\ ~InNext(p) /\ ~InNext(p)' /\ UNCHANGED call
          /\ pc' = [pc EXCEPT ![p] = pc'[p]]
      BY <1>1, <1>3 DEF LockChain, Goto, InNext, Positions
    <2>2. CASE call[p].op = "fetch"
      BY <1>2, <1>3, <2>1, <2>2, TakeRead DEF LockChain
    <2>3. CASE call[p].op # "fetch"
      BY <1>2, <1>3, <2>1, <2>3, TakeWrite DEF LockChain
    <2>4. QED
      BY <2>2, <2>3
  <1>4. CASE DelLock(p)
    <2>1. /\ InChain(p) /\ InChain(p)' /\ ~InFree(p) /\ InFree(p)' /\ call[p].op # "fetch"
          /\ InDat(p)' = InDat(p) /\ InIdx(p)' = InIdx(p) /\ ~InNext(p) /\ ~InNext(p)'
          /\ pc' = [pc EXCEPT ![p] = pc'[p]] /\ pc'[p] \in Positions
      BY <1>1, <1>4 DEF DelLock, Goto, FetchPath, InChain, OutsideChain, InFree, InNext,
         InDat, InIdx, Positions
    <2>2. writew_lock(p, FREE_OFF) /\ UNCHANGED call
      BY <1>4 DEF DelLock
    <2>3. QED
      BY <2>1, <2>2, TakeWrite
  <1>5. CASE FreeLock(p)
    <2>1. /\ InChain(p) /\ InChain(p)' /\ ~InFree(p) /\ InFree(p)' /\ call[p].op # "fetch"
          /\ InDat(p)' = InDat(p) /\ InIdx(p)' = InIdx(p) /\ ~InNext(p) /\ ~InNext(p)'
          /\ pc' = [pc EXCEPT ![p] = pc'[p]] /\ pc'[p] \in Positions
      BY <1>1, <1>5 DEF FreeLock, Goto, FetchPath, InChain, OutsideChain, InFree, InNext,
         InDat, InIdx, Positions
    <2>2. writew_lock(p, FREE_OFF) /\ UNCHANGED call
      BY <1>5 DEF FreeLock
    <2>3. QED
      BY <2>1, <2>2, TakeWrite
  <1>6. CASE DatLock(p)
    <2>1. /\ InChain(p) /\ InChain(p)' /\ ~InDat(p) /\ InDat(p)' /\ call[p].op # "fetch"
          /\ InFree(p)' = InFree(p) /\ InIdx(p)' = InIdx(p) /\ ~InNext(p) /\ ~InNext(p)'
          /\ pc' = [pc EXCEPT ![p] = pc'[p]] /\ pc'[p] \in Positions
      BY <1>1, <1>6 DEF DatLock, Goto, FetchPath, InChain, OutsideChain, InFree, InNext,
         InDat, InIdx, Positions
    <2>2. writew_lock(p, DatFile) /\ UNCHANGED call
      BY <1>6 DEF DatLock
    <2>3. QED
      BY <2>1, <2>2, TakeWrite
  <1>7. CASE IdxLock(p)
    <2>1. /\ InChain(p) /\ InChain(p)' /\ ~InIdx(p) /\ InIdx(p)' /\ call[p].op # "fetch"
          /\ InFree(p)' = InFree(p) /\ InDat(p)' = InDat(p) /\ ~InNext(p) /\ ~InNext(p)'
          /\ pc' = [pc EXCEPT ![p] = pc'[p]] /\ pc'[p] \in Positions
      BY <1>1, <1>7 DEF IdxLock, Goto, FetchPath, InChain, OutsideChain, InFree, InNext,
         InDat, InIdx, Positions
    <2>2. writew_lock(p, IdxTail) /\ UNCHANGED call
      BY <1>7 DEF IdxLock
    <2>3. QED
      BY <2>1, <2>2, TakeWrite
  <1>8. CASE NextLock(p)
    BY <1>1, <1>8, TakeRead DEF NextLock, Goto
  <1>9. QED
    BY <1>3, <1>4, <1>5, <1>6, <1>7, <1>8

(* The steps that drop a lock                                              *)
LEMMA UnlockKeeps ==
  ASSUME IInv, NEW p \in Procs,
         \/ UnlockChain(p) \/ DelUnlock(p) \/ FreeUnlock(p) \/ DatUnlock(p)
         \/ IdxUnlock(p) \/ NextUnlock(p)
  PROVE  IInv'
  <1> USE RangeFacts
  <1>1. pc \in [Procs -> Positions]
    BY DEF IInv, LocksTypeOK
  <1>2. CASE UnlockChain(p)
    <2>1. InChain(p) /\ ChainOff(p) \in Chains
      BY <1>2, ChainInRange
         DEF UnlockChain, InChain, OutsideChain, IInv, LocksTypeOK, ChainOff
    <2>2. /\ pc[p] = "unlock" /\ pc'[p] = "idle" /\ pc'[p] \in Positions
          /\ UNCHANGED call /\ pc' = [pc EXCEPT ![p] = pc'[p]] /\ un_lock(p, ChainOff(p))
      BY <1>1, <1>2 DEF UnlockChain, Goto, Positions
    <2>3. QED
      BY <2>1, <2>2, Release
  <1>3. CASE DelUnlock(p)
    <2>1. /\ InChain(p) /\ InChain(p)' /\ InFree(p) /\ ~InFree(p)' /\ pc'[p] # "lock"
          /\ ~InNext(p)' /\ ~InDat(p)' /\ ~InIdx(p)'
          /\ pc' = [pc EXCEPT ![p] = pc'[p]] /\ pc'[p] \in Positions
      BY <1>1, <1>3 DEF DelUnlock, Goto, InChain, OutsideChain, InFree, InNext, InDat, InIdx,
         Positions
    <2>2. un_lock(p, FREE_OFF) /\ UNCHANGED call
      BY <1>3 DEF DelUnlock
    <2>3. QED
      BY <2>1, <2>2, Release
  <1>4. CASE FreeUnlock(p)
    <2>1. /\ InChain(p) /\ InChain(p)' /\ InFree(p) /\ ~InFree(p)' /\ pc'[p] # "lock"
          /\ ~InNext(p)' /\ ~InDat(p)' /\ ~InIdx(p)'
          /\ pc' = [pc EXCEPT ![p] = pc'[p]] /\ pc'[p] \in Positions
      BY <1>1, <1>4 DEF FreeUnlock, Goto, InChain, OutsideChain, InFree, InNext, InDat, InIdx,
         Positions
    <2>2. un_lock(p, FREE_OFF) /\ UNCHANGED call
      BY <1>4 DEF FreeUnlock
    <2>3. QED
      BY <2>1, <2>2, Release
  <1>5. CASE DatUnlock(p)
    <2>1. /\ InChain(p) /\ InChain(p)' /\ InDat(p) /\ ~InDat(p)' /\ pc'[p] # "lock"
          /\ ~InFree(p)' /\ ~InNext(p)' /\ ~InIdx(p)'
          /\ pc' = [pc EXCEPT ![p] = pc'[p]] /\ pc'[p] \in Positions
      BY <1>1, <1>5 DEF DatUnlock, Goto, InChain, OutsideChain, InFree, InNext, InDat, InIdx,
         Positions
    <2>2. un_lock(p, DatFile) /\ UNCHANGED call
      BY <1>5 DEF DatUnlock
    <2>3. QED
      BY <2>1, <2>2, Release
  <1>6. CASE IdxUnlock(p)
    <2>1. /\ InChain(p) /\ InChain(p)' /\ InIdx(p) /\ ~InIdx(p)' /\ pc'[p] # "lock"
          /\ ~InFree(p)' /\ ~InNext(p)' /\ ~InDat(p)'
          /\ pc' = [pc EXCEPT ![p] = pc'[p]] /\ pc'[p] \in Positions
      BY <1>1, <1>6 DEF IdxUnlock, Goto, InChain, OutsideChain, InFree, InNext, InDat, InIdx,
         Positions
    <2>2. un_lock(p, IdxTail) /\ UNCHANGED call
      BY <1>6 DEF IdxUnlock
    <2>3. QED
      BY <2>1, <2>2, Release
  <1>7. CASE NextUnlock(p)
    <2>1. /\ InNext(p) /\ ~InNext(p)' /\ pc'[p] \in {"idle", "scan"} /\ pc'[p] # "lock"
          /\ pc' = [pc EXCEPT ![p] = pc'[p]] /\ pc'[p] \in Positions
      BY <1>1, <1>7 DEF NextUnlock, Goto, InNext, Positions
    <2>2. un_lock(p, FREE_OFF) /\ UNCHANGED call
      BY <1>7 DEF NextUnlock
    <2>3. QED
      BY <2>1, <2>2, Release
  <1>8. QED
    BY <1>2, <1>3, <1>4, <1>5, <1>6, <1>7

LEMMA NextIInv == IInv /\ [Next]_vars => IInv'
  <1> SUFFICES ASSUME IInv, [Next]_vars PROVE IInv'
    OBVIOUS
  <1>1. ASSUME NEW p \in Procs, Begin(p) \/ Rewind(p) PROVE IInv'
    BY <1>1, StartKeeps
  <1>2. ASSUME NEW p \in Procs, Step(p) PROVE IInv'
    BY <1>2, QuietKeeps, LockKeeps, UnlockKeeps
       DEF Step, Find, Delete, FindFree, Write, Nextrec, Quiet
  <1>3. ASSUME NEW p \in Procs, Crash(p) PROVE IInv'
    BY <1>3, CrashKeeps
  <1>4. CASE UNCHANGED vars
    BY <1>4 DEF vars, locks, IInv, LocksTypeOK, FetchPath, Holds, Justified, WriterAt,
       ReaderAt, InChain, InFree, InNext, InDat, InIdx, ChainOff
  <1>5. QED
    BY <1>1, <1>2, <1>3, <1>4 DEF Next, Finished

(* The lock discipline as an invariant of the specification                *)
THEOREM LockDiscipline == Spec => []IInv
  <1>1. QED
    BY InitIInv, NextIInv, PTL DEF Spec

(* The locks keep the others out of each critical section                  *)
LEMMA LocksExclude == IInv => Exclusion
  <1> SUFFICES ASSUME IInv, NEW p \in Procs, NEW q \in Procs, p # q
               PROVE  /\ InFree(p) => ~InFree(q) /\ ~InNext(q)
                      /\ InChain(p) /\ InChain(q) /\ ChainOff(p) = ChainOff(q)
                           => call[p].op = "fetch" /\ call[q].op = "fetch"
                      /\ pc[p] \in {"datseek", "datappend"}
                           => pc[q] \notin {"datseek", "datappend"}
                      /\ pc[p] \in {"idxseek", "idxappend"}
                           => pc[q] \notin {"idxseek", "idxappend"}
    BY DEF Exclusion
  <1>1. Holds(p) /\ Holds(q) /\ p # NoProc /\ q # NoProc
    BY ProcAssumption DEF IInv
  <1>2. \A r \in Ranges : writer[r] # NoProc => readers[r] = {}
    BY DEF IInv, Justified
  <1>3. \A x \in Procs : InChain(x) => ChainOff(x) \in Ranges
    BY RangeFacts, ChainInRange DEF IInv, LocksTypeOK, ChainOff
  <1>4. QED
    BY <1>1, <1>2, <1>3, RangeFacts DEF Holds, InDat, InIdx

(* Exclusion: two processes are in the same chain only if both fetch, and  *)
(* never both in the free list or at the same append point                 *)
THEOREM MutualExclusion == Spec => []Exclusion
  <1>1. QED
    BY LocksExclude, LockDiscipline, PTL

(* NoLockCycle: waiting for a lock never goes round in a circle.  A lock   *)
(* on the free list or on an append point is only ever held by a process   *)
(* that waits for nothing, and a chain lock by one that waits for those.   *)
THEOREM DeadlockFree == Spec => []NoLockCycle
  <1>1. IInv => NoLockCycle
    <2> SUFFICES ASSUME IInv, NEW p \in Procs, Active(p)
                 PROVE  \E q \in Procs : Active(q) /\ ~Waits(q)
      BY DEF NoLockCycle
    <2>1. \A q \in Procs :
            /\ InFree(q) \/ InNext(q) \/ InDat(q) \/ InIdx(q)
                 => Active(q) /\ ~Waits(q)
      BY DEF InFree, InNext, InDat, InIdx, Active, Waits
    <2>2. ASSUME NEW r \in Ranges, NEW q \in Procs,
                 ~CanWrite(q, r) \/ ~CanRead(q, r)
          PROVE  \E h \in Procs : WriterAt(h, r) \/ ReaderAt(h, r)
      BY <2>2 DEF IInv, LocksTypeOK, Justified, CanWrite, CanRead
    <2>3. ASSUME NEW q \in Procs, Waits(q), pc[q] # "lock"
          PROVE  \E h \in Procs : Active(h) /\ ~Waits(h)
      <3>1. /\ Wants(q) \in {FREE_OFF, IdxTail, DatFile}
            /\ ~CanWrite(q, Wants(q)) \/ ~CanRead(q, Wants(q))
        BY <2>3 DEF Waits, Wants
      <3>2. PICK h \in Procs : WriterAt(h, Wants(q)) \/ ReaderAt(h, Wants(q))
        BY <2>2, <3>1, RangeFacts
      <3>3. InFree(h) \/ InNext(h) \/ InDat(h) \/ InIdx(h)
        BY <3>1, <3>2, RangeFacts DEF WriterAt, ReaderAt
      <3>4. QED
        BY <2>1, <3>3
    <2>4. CASE Waits(p) /\ pc[p] = "lock"
      <3>1. Wants(p) \in Chains /\ (~CanWrite(p, Wants(p)) \/ ~CanRead(p, Wants(p)))
        BY <2>4, ChainInRange DEF Waits, Wants, IInv, LocksTypeOK, ChainOff
      <3>2. PICK h \in Procs : WriterAt(h, Wants(p)) \/ ReaderAt(h, Wants(p))
        BY <2>2, <3>1, RangeFacts
      <3>3. InChain(h) /\ Active(h) /\ pc[h] # "lock"
        BY <3>1, <3>2, RangeFacts
           DEF WriterAt, ReaderAt, InChain, OutsideChain, Active, InFree, InDat, InIdx, InNext
      <3>4. QED
        BY <2>3, <3>3
    <2>5. QED
      BY <2>3, <2>4
  <1>2. QED
    BY <1>1, LockDiscipline, PTL

-----------------------------------------------------------------------------
(* The two files                                                           *)

Heads == 0..NHash
Records == DOMAIN rec

Handles ==
  [ptroff : Heads \cup Records, idxoff : Nat, datoff : Nat, datlen : Nat,
   ptrval : Records \cup {0}, off : Records \cup {0}, save : Records \cup {0},
   front : Records \cup {0}, rep : BOOLEAN]

Scans == [pos : (NHash + 1)..idxend, idxoff : Nat, datoff : Nat,
          key : Keys \cup {Blank}, data : Data \cup {Blank}]

FilesTypeOK ==
  /\ idxend \in Nat /\ datend \in Nat /\ idxend > NHash
  /\ Records = (NHash + 1)..(idxend - 1)
  /\ rec \in [Records -> [key : Keys \cup {Blank}, klen : Nat,
                          datoff : 0..(datend - 1), datlen : Nat]]
  /\ dat \in [0..(datend - 1) -> Data \cup {Blank}]
  /\ ptr \in [Heads \cup Records -> Records \cup {0}]

(* The positions of db_store once it is certain to write, with its data    *)
StorePcs ==
  {"refront", "front", "fflock", "ffhead", "ffwalk", "ffunlink", "ffunlock",
   "datlock", "datseek", "datappend", "datwrite", "overwrite", "datunlock",
   "idxlock", "idxseek", "idxappend", "idxwrite", "idxunlock", "link"}

(* The call works on the index record at idxoff ...                        *)
AtRecord(p) ==
  \/ pc[p] \in {"readdat", "dellock", "delblank", "delfree", "delidx", "delhead",
                "delunlink", "overwrite", "ffunlink", "datwrite", "idxwrite"}
  \/ pc[p] = "ffunlock" /\ db[p].off # 0

(* ... or has appended a data record that no index record refers to yet    *)
Appended(p) == pc[p] \in {"datunlock", "idxlock", "idxseek", "idxappend"}

(* What the DB structure and the locals of p say about the files           *)
HandleOK(p) ==
  /\ pc[p] \in {"walk", "ffwalk"} => db[p].off # 0
  /\ AtRecord(p) => db[p].idxoff \in Records /\ db[p].datoff = rec[db[p].idxoff].datoff
  /\ pc[p] \in {"idxunlock", "link"} => db[p].idxoff \in Records
  /\ pc[p] = "datappend" => db[p].datoff = datend
  /\ Appended(p) => db[p].datoff \in 0..(datend - 1)
                    /\ \A o \in Records : rec[o].datoff # db[p].datoff
  /\ pc[p] = "idxappend" => db[p].idxoff = idxend
  /\ pc[p] \in StorePcs => call[p].op \in WriteOps
  /\ pc[p] = "nextdat" => scan[p].idxoff \in Records
                          /\ scan[p].datoff = rec[scan[p].idxoff].datoff

FileInv ==
  /\ FilesTypeOK
  /\ db \in [Procs -> Handles] /\ scan \in [Procs -> Scans]
  /\ \A p \in Procs : HandleOK(p)
  /\ \A o, n \in Records : rec[o].datoff = rec[n].datoff => o = n
  /\ \A p, q \in Procs : p # q /\ Appended(p) /\ Appended(q) => db[p].datoff # db[q].datoff

LEMMA InitFileInv == Init => FileInv
  <1> SUFFICES ASSUME Init PROVE FileInv
    OBVIOUS
  <1>1. Records = {}
    BY DEF Init, Records
  <1>2. FilesTypeOK
    BY <1>1, NHashAssumption DEF Init, FilesTypeOK, Heads, Records
  <1>3. db \in [Procs -> Handles] /\ scan \in [Procs -> Scans]
    BY NHashAssumption DEF Init, NoDB, NoScan, Handles, Scans, Heads
  <1>4. \A p \in Procs : HandleOK(p) /\ ~Appended(p)
    BY DEF Init, HandleOK, AtRecord, Appended, StorePcs
  <1>5. QED
    BY <1>1, <1>2, <1>3, <1>4 DEF FileInv

(* Only p moves, and the files at most grow: by a data record when p       *)
(* appends one, by the index record for it when p appends that             *)
Grows(p) ==
  /\ \A q \in Procs \ {p} : /\ pc'[q] = pc[q] /\ db'[q] = db[q]
                            /\ call'[q] = call[q] /\ scan'[q] = scan[q]
  /\ Records \subseteq Records'
  /\ \A o \in Records : rec'[o].datoff = rec[o].datoff
  /\ \A o \in Records' : o \notin Records =>
       pc[p] = "idxappend" /\ o = idxend /\ rec'[o].datoff = db[p].datoff
  /\ datend' >= datend /\ (datend' # datend => pc[p] = "datappend")
  /\ idxend' >= idxend /\ (idxend' # idxend => pc[p] = "idxappend")

LEMMA OthersKept ==
  ASSUME IInv, FileInv, FilesTypeOK', NEW p \in Procs, NEW q \in Procs, q # p, Grows(p)
  PROVE  HandleOK(q)' /\ Appended(q)' = Appended(q)
  <1>1. HandleOK(q) /\ Holds(p) /\ Holds(q) /\ HandleOK(p)
    BY DEF FileInv, IInv
  <1>2. /\ pc'[q] = pc[q] /\ db'[q] = db[q] /\ call'[q] = call[q] /\ scan'[q] = scan[q]
        /\ AtRecord(q)' = AtRecord(q) /\ Appended(q)' = Appended(q)
    BY DEF Grows, AtRecord, Appended
  <1>3. pc[q] = "datappend" => datend' = datend
    BY <1>1 DEF Grows, Holds, InDat
  <1>4. pc[q] = "idxappend" => idxend' = idxend
    BY <1>1 DEF Grows, Holds, InIdx
  <1>5. Appended(q) => db[q].datoff \in 0..(datend' - 1)
                       /\ \A o \in Records' : rec'[o].datoff # db[q].datoff
    <2>1. SUFFICES ASSUME Appended(q) PROVE db[q].datoff \in 0..(datend' - 1)
                       /\ \A o \in Records' : rec'[o].datoff # db[q].datoff
      OBVIOUS
    <2>2. db[q].datoff \in 0..(datend - 1) /\ \A o \in Records : rec[o].datoff # db[q].datoff
      BY <1>1, <2>1 DEF HandleOK
    <2>3. db[q].datoff \in 0..(datend' - 1)
      BY <2>2 DEF Grows, FileInv, FilesTypeOK
    <2>4. ASSUME NEW o \in Records', o \notin Records PROVE rec'[o].datoff # db[q].datoff
      BY <2>1, <2>4 DEF Grows, FileInv, Appended
    <2>5. QED
      BY <2>2, <2>3, <2>4 DEF Grows
  <1>6. AtRecord(q) => db[q].idxoff \in Records'
                       /\ db[q].datoff = rec'[db[q].idxoff].datoff
    BY <1>1 DEF HandleOK, Grows
  <1>7. pc[q] = "nextdat" => scan[q].idxoff \in Records'
                             /\ scan[q].datoff = rec'[scan[q].idxoff].datoff
    BY <1>1 DEF HandleOK, Grows
  <1>8. QED
    BY <1>1, <1>2, <1>3, <1>4, <1>5, <1>6, <1>7 DEF HandleOK, Grows

LEMMA FileStep ==
  ASSUME IInv, FileInv, FilesTypeOK', NEW p \in Procs, Grows(p),
         db' \in [Procs -> Handles'], scan' \in [Procs -> Scans'], HandleOK(p)',
         Appended(p)' => \/ Appended(p) /\ db'[p].datoff = db[p].datoff
                         \/ db'[p].datoff = datend
  PROVE  FileInv'
  <1>1. \A q \in Procs : HandleOK(q)'
    BY OthersKept
  <1>2. \A o, n \in Records' : rec'[o].datoff = rec'[n].datoff => o = n
    <2>1. HandleOK(p)
      BY DEF FileInv
    <2>2. ASSUME NEW o \in Records, NEW n \in Records', n \notin Records
          PROVE rec'[o].datoff # rec'[n].datoff
      BY <2>1, <2>2 DEF Grows, HandleOK, Appended
    <2>3. QED
      BY <2>2 DEF FileInv, Grows
  <1>3. \A q \in Procs : q # p /\ Appended(p)' /\ Appended(q)' => db'[p].datoff # db'[q].datoff
    <2> SUFFICES ASSUME NEW q \in Procs, q # p, Appended(p)', Appended(q)'
                 PROVE db'[p].datoff # db'[q].datoff
      OBVIOUS
    <2>1. Appended(q) /\ db'[q] = db[q] /\ HandleOK(q)
      BY OthersKept DEF Grows, FileInv
    <2>2. db[q].datoff \in 0..(datend - 1)
      BY <2>1 DEF HandleOK
    <2>3. QED
      BY <2>1, <2>2 DEF FileInv, FilesTypeOK
  <1>4. \A q, s \in Procs : q # s /\ Appended(q)' /\ Appended(s)' => db'[q].datoff # db'[s].datoff
    <2> SUFFICES ASSUME NEW q \in Procs, NEW s \in Procs, q # s, Appended(q)', Appended(s)'
                 PROVE db'[q].datoff # db'[s].datoff
      OBVIOUS
    <2>1. CASE q = p \/ s = p
      BY <2>1, <1>3
    <2>2. CASE q # p /\ s # p
      BY <2>2, OthersKept DEF Grows, FileInv
    <2>3. QED
      BY <2>1, <2>2
  <1>5. QED
    BY <1>1, <1>2, <1>4 DEF FileInv

LEMMA RecordFacts ==
  ASSUME FilesTypeOK, NEW o \in Records
  PROVE  /\ o \in Nat /\ o > NHash /\ o < idxend /\ o # 0 /\ o \notin Heads
         /\ rec[o].datoff \in Nat /\ rec[o].datoff < datend /\ rec[o].datlen \in Nat
         /\ rec[o].datoff \in DOMAIN dat /\ dat[rec[o].datoff] \in Data \cup {Blank}
         /\ ptr[o] \in Records \cup {0} /\ rec[o].key \in Keys \cup {Blank}
  <1>1. rec[o] \in [key : Keys \cup {Blank}, klen : Nat,
                    datoff : 0..(datend - 1), datlen : Nat]
    BY DEF FilesTypeOK
  <1>2. rec[o].datoff \in 0..(datend - 1) /\ datend \in Nat
    BY <1>1 DEF FilesTypeOK
  <1>3. o \in (NHash + 1)..(idxend - 1) /\ idxend \in Nat
    BY DEF FilesTypeOK
  <1>4. dat[rec[o].datoff] \in Data \cup {Blank} /\ ptr[o] \in Records \cup {0}
    BY <1>2 DEF FilesTypeOK
  <1>5. QED
    BY <1>1, <1>2, <1>3, <1>4, NHashAssumption DEF FilesTypeOK, Heads

-----------------------------------------------------------------------------
(* Steps that write no file                                                *)
LEMMA SameFiles ==
  ASSUME IInv, FileInv, UNCHANGED files, NEW p \in Procs,
         \A q \in Procs \ {p} : pc'[q] = pc[q] /\ call'[q] = call[q],
         \/ UNCHANGED db
         \/ \E d \in Handles : db' = [db EXCEPT ![p] = d],
         \/ UNCHANGED scan
         \/ \E s \in Scans : scan' = [scan EXCEPT ![p] = s],
         HandleOK(p)',
         Appended(p)' => \/ Appended(p) /\ db'[p].datoff = db[p].datoff
                         \/ db'[p].datoff = datend
  PROVE  FileInv'
  <1>1. /\ FilesTypeOK' /\ Handles' = Handles /\ Scans' = Scans
        /\ idxend' = idxend /\ datend' = datend /\ rec' = rec
    BY DEF FileInv, FilesTypeOK, files, Handles, Scans, Heads, Records
  <1>2. db' \in [Procs -> Handles'] /\ scan' \in [Procs -> Scans']
    BY <1>1 DEF FileInv
  <1>3. Grows(p)
    BY <1>1 DEF Grows, FileInv, FilesTypeOK, Records
  <1>4. QED
    BY <1>1, <1>2, <1>3, FileStep

LEMMA FindFiles ==
  ASSUME IInv, FileInv, NEW p \in Procs, Find(p)
  PROVE  FileInv'
  <1> USE DEF Goto, locks
  <1>1. /\ pc \in [Procs -> Positions] /\ call \in [Procs -> Calls \cup {NoCall}]
        /\ db[p] \in Handles /\ HandleOK(p) /\ FilesTypeOK
        /\ InChain(p) \/ pc[p] = "lock" => call[p] \in Calls /\ ChainOff(p) \in Heads \ {0}
    BY ChainInRange DEF IInv, LocksTypeOK, FileInv, Chains, Heads, ChainOff
  <1>2. CASE LockChain(p) \/ ReadDat(p)
    BY <1>1, <1>2, SameFiles DEF LockChain, ReadDat, HandleOK, AtRecord, Appended, StorePcs
  <1>3. CASE ReadHead(p)
    <2> DEFINE d == [db[p] EXCEPT !.off = ptr[ChainOff(p)]]
    <2>1. InChain(p) /\ pc[p] = "head" /\ db' = [db EXCEPT ![p] = d]
      BY <1>3 DEF ReadHead, InChain, OutsideChain
    <2>2. d \in Handles /\ d.off = ptr[ChainOff(p)]
      BY <1>1, <2>1 DEF Handles, FilesTypeOK
    <2>3. db'[p] = d /\ \A q \in Procs \ {p} : pc'[q] = pc[q]
      BY <1>1, <2>1, <1>3 DEF FileInv, ReadHead, NotFound
    <2>4. HandleOK(p)' /\ ~Appended(p)'
      BY <1>1, <1>3, <2>2, <2>3 DEF ReadHead, NotFound, HandleOK, AtRecord, Appended,
         StorePcs, WriteOps
    <2>5. QED
      BY <1>1, <1>3, <2>1, <2>2, <2>3, <2>4, SameFiles DEF ReadHead
  <1>4. CASE Walk(p)
    <2> DEFINE o == db[p].off
               w == WithIdx(db[p], o)
    <2>1. /\ o \in Records /\ InChain(p) /\ pc[p] = "walk"
          /\ rec[o].datoff \in Nat /\ rec[o].datlen \in Nat /\ ptr[o] \in Records \cup {0}
          /\ o \in Nat
      <3>1. o \in Records /\ InChain(p) /\ pc[p] = "walk"
        BY <1>1, <1>4 DEF Walk, InChain, OutsideChain, HandleOK, Handles
      <3>2. QED
        BY <1>1, <3>1, RecordFacts
    <2>2. /\ w \in Handles /\ w.idxoff = o /\ w.datoff = rec[o].datoff
          /\ w.ptrval = ptr[o] /\ w.off = o
      BY <1>1, <2>1 DEF WithIdx, Handles
    <2>3. CASE rec[o].key = call[p].key
      <3> DEFINE b == call[p].op \in {"replace", "store"}
                 d == [w EXCEPT !.rep = b]
      <3>1. db' = [db EXCEPT ![p] = d] /\ Found(p, w.datlen)
        BY <1>4, <2>3 DEF Walk
      <3>2. b \in BOOLEAN
        OBVIOUS
      <3> HIDE DEF w, b
      <3>3. d \in Handles /\ d.idxoff = o /\ d.datoff = rec[o].datoff
        BY <2>2, <3>2 DEF Handles
      <3>4. db'[p] = d
        BY <3>1 DEF FileInv
      <3>5. HandleOK(p)' /\ ~Appended(p)'
        BY <1>1, <1>4, <2>1, <3>3, <3>1, <3>4
           DEF Found, HandleOK, AtRecord, Appended, StorePcs, WriteOps, Walk, files, Records,
               Calls
      <3>6. QED
        BY <1>1, <1>4, <3>3, <3>1, <3>5, SameFiles DEF Walk, Found
    <2>4. CASE rec[o].key # call[p].key
      <3> DEFINE d == [w EXCEPT !.ptroff = o, !.off = w.ptrval]
      <3>1. d \in Handles /\ d.off = ptr[o]
        BY <2>1, <2>2 DEF Handles
      <3>2. db' = [db EXCEPT ![p] = d]
        BY <1>4, <2>4 DEF Walk
      <3>3. db'[p] = d
        BY <3>2 DEF FileInv
      <3>4. HandleOK(p)' /\ ~Appended(p)' /\ \A q \in Procs \ {p} : pc'[q] = pc[q]
        BY <1>1, <1>4, <2>2, <2>4, <3>1, <3>3
           DEF NotFound, HandleOK, AtRecord, Appended, StorePcs, WriteOps, Walk
      <3>5. QED
        BY <1>1, <1>4, <3>1, <3>2, <3>4, SameFiles DEF Walk
    <2>5. QED
      BY <2>3, <2>4
  <1>5. CASE UnlockChain(p)
    <2>1. NoDB \in Handles
      BY NHashAssumption DEF NoDB, Handles, Heads
    <2>2. HandleOK(p)' /\ ~Appended(p)'
      BY <1>1, <1>5 DEF UnlockChain, HandleOK, AtRecord, Appended, StorePcs
    <2>3. QED
      BY <1>1, <1>5, <2>1, <2>2, SameFiles DEF UnlockChain
  <1>6. QED
    BY <1>2, <1>3, <1>4, <1>5 DEF Find

-----------------------------------------------------------------------------
(* Steps that write one pointer of the index file                          *)
LEMMA PointerWritten ==
  ASSUME IInv, FileInv, NEW p \in Procs, NEW x \in Heads \cup Records,
         NEW y \in Records \cup {0}, ptr' = [ptr EXCEPT ![x] = y],
         UNCHANGED <<rec, dat, idxend, datend, call, db, scan>>,
         \A q \in Procs \ {p} : pc'[q] = pc[q],
         HandleOK(p)', ~Appended(p)'
  PROVE  FileInv'
  <1>1. /\ FilesTypeOK' /\ Handles' = Handles /\ Scans' = Scans
    BY DEF FileInv, FilesTypeOK, Handles, Scans, Heads, Records
  <1>2. Grows(p)
    BY DEF Grows, FileInv, FilesTypeOK, Records
  <1>3. QED
    BY <1>1, <1>2, FileStep DEF FileInv

(* Steps that overwrite a data record                                      *)
LEMMA DataWritten ==
  ASSUME IInv, FileInv, NEW p \in Procs, NEW x \in DOMAIN dat,
         NEW y \in Data \cup {Blank}, dat' = Put(dat, x, y),
         UNCHANGED <<rec, ptr, idxend, datend, call, scan>>,
         \A q \in Procs \ {p} : pc'[q] = pc[q],
         \E d \in Handles : db' = [db EXCEPT ![p] = d],
         HandleOK(p)', ~Appended(p)'
  PROVE  FileInv'
  <1>1. dat' \in [0..(datend - 1) -> Data \cup {Blank}]
    BY DEF Put, FileInv, FilesTypeOK
  <1>2. /\ FilesTypeOK' /\ Handles' = Handles /\ Scans' = Scans
    BY <1>1 DEF FileInv, FilesTypeOK, Handles, Scans, Heads, Records
  <1>3. Grows(p) /\ db' \in [Procs -> Handles]
    BY DEF Grows, FileInv, FilesTypeOK, Records
  <1>4. QED
    BY <1>2, <1>3, FileStep DEF FileInv

LEMMA DeleteFiles ==
  ASSUME IInv, FileInv, NEW p \in Procs, Delete(p)
  PROVE  FileInv'
  <1> USE DEF Goto, locks, files
  <1>1. /\ pc \in [Procs -> Positions] /\ call[p] \in Calls \cup {NoCall}
        /\ db \in [Procs -> Handles] /\ db[p] \in Handles /\ HandleOK(p) /\ FilesTypeOK
        /\ FetchPath(p) /\ FREE_OFF \in Heads
    BY NHashAssumption DEF IInv, LocksTypeOK, FileInv, Heads, FREE_OFF
  <1>2. CASE DelLock(p)
    <2>1. HandleOK(p)' /\ ~Appended(p)'
      BY <1>1, <1>2 DEF DelLock, HandleOK, AtRecord, Appended, StorePcs, Records
    <2>2. QED
      BY <1>1, <1>2, <2>1, SameFiles DEF DelLock
  <1>3. CASE DelBlankData(p)
    <2>1. db[p].datoff \in DOMAIN dat
      BY <1>1, <1>3, RecordFacts DEF DelBlankData, HandleOK, AtRecord
    <2>2. HandleOK(p)' /\ ~Appended(p)'
      BY <1>1, <1>3 DEF DelBlankData, HandleOK, AtRecord, Appended, StorePcs, Records
    <2>3. QED
      BY <1>1, <1>3, <2>1, <2>2, DataWritten DEF DelBlankData
  <1>4. CASE DelReadFree(p)
    <2> DEFINE d == [db[p] EXCEPT !.front = ptr[FREE_OFF], !.save = db[p].ptrval]
    <2>1. d \in Handles /\ d.idxoff = db[p].idxoff /\ d.datoff = db[p].datoff
      BY <1>1 DEF Handles, FilesTypeOK
    <2>2. db' = [db EXCEPT ![p] = d] /\ db'[p] = d
      BY <1>1, <1>4 DEF DelReadFree
    <2>3. HandleOK(p)' /\ ~Appended(p)'
      BY <1>1, <1>4, <2>1, <2>2
         DEF DelReadFree, HandleOK, AtRecord, Appended, StorePcs, Records
    <2>4. QED
      BY <1>1, <1>4, <2>1, <2>2, <2>3, SameFiles DEF DelReadFree
  <1>5. CASE DelWriteIdx(p)
    <2> DEFINE o == db[p].idxoff
               d == [db[p] EXCEPT !.ptrval = db[p].front]
    <2>1. o \in Records /\ d \in Handles /\ db[p].datoff = rec[o].datoff
      BY <1>1, <1>5 DEF DelWriteIdx, HandleOK, AtRecord, Handles
    <2>2. db' = [db EXCEPT ![p] = d] /\ db'[p] = d /\ d.idxoff = o /\ d.datoff = db[p].datoff
      BY <1>1, <1>5 DEF DelWriteIdx, Handles
    <2>3. /\ rec' = [rec EXCEPT ![o].key = Blank] /\ ptr' = [ptr EXCEPT ![o] = db[p].front]
          /\ Records' = Records /\ \A n \in Records : rec'[n].datoff = rec[n].datoff
      BY <1>1, <1>5, <2>1 DEF DelWriteIdx, FilesTypeOK, Records
    <2>4. FilesTypeOK' /\ Handles' = Handles /\ Scans' = Scans
      <3>1. rec' \in [Records -> [key : Keys \cup {Blank}, klen : Nat,
                                  datoff : 0..(datend - 1), datlen : Nat]]
        <4>1. [rec[o] EXCEPT !.key = Blank] \in
                [key : Keys \cup {Blank}, klen : Nat, datoff : 0..(datend - 1), datlen : Nat]
          BY <1>1, <2>1 DEF FilesTypeOK
        <4>2. rec' = [rec EXCEPT ![o] = [rec[o] EXCEPT !.key = Blank]]
          BY <2>3
        <4>3. QED
          BY <1>1, <4>1, <4>2 DEF FilesTypeOK
      <3>2. ptr' \in [Heads \cup Records -> Records \cup {0}]
        BY <1>1, <2>3 DEF FilesTypeOK, Handles
      <3>3. UNCHANGED <<dat, idxend, datend>> /\ Heads' = Heads
        BY <1>5 DEF DelWriteIdx, Heads
      <3>4. QED
        BY <1>1, <2>3, <3>1, <3>2, <3>3 DEF FilesTypeOK, Handles, Scans
    <2>5. Grows(p)
      BY <1>1, <1>5, <2>2, <2>3 DEF Grows, DelWriteIdx, FilesTypeOK
    <2>6. HandleOK(p)' /\ ~Appended(p)'
      BY <1>1, <1>5, <2>1, <2>2, <2>3
         DEF DelWriteIdx, HandleOK, AtRecord, Appended, StorePcs
    <2>7. db' \in [Procs -> Handles'] /\ scan' \in [Procs -> Scans']
      BY <1>5, <2>1, <2>2, <2>4 DEF DelWriteIdx, FileInv
    <2>8. QED
      BY <2>4, <2>5, <2>6, <2>7, FileStep
  <1>6. CASE DelWriteFree(p)
    <2>1. db[p].idxoff \in Records
      BY <1>1, <1>6 DEF DelWriteFree, HandleOK, AtRecord
    <2>2. HandleOK(p)' /\ ~Appended(p)'
      BY <1>1, <1>6 DEF DelWriteFree, HandleOK, AtRecord, Appended, StorePcs, Records
    <2>3. QED
      BY <1>1, <1>6, <2>1, <2>2, PointerWritten DEF DelWriteFree
  <1>7. CASE DelUnlink(p)
    <2>1. db[p].ptroff \in Heads \cup Records /\ db[p].save \in Records \cup {0}
      BY <1>1 DEF Handles
    <2>2. HandleOK(p)' /\ ~Appended(p)'
      BY <1>1, <1>7 DEF DelUnlink, HandleOK, AtRecord, Appended, StorePcs, Records
    <2>3. QED
      BY <1>1, <1>7, <2>1, <2>2, PointerWritten DEF DelUnlink
  <1>8. CASE DelUnlock(p)
    <2>1. call[p] \in Calls /\ call[p].op # "fetch"
      BY <1>1, <1>8 DEF DelUnlock, FetchPath, InChain, OutsideChain, IInv, LocksTypeOK
    <2>2. call[p].op # "delete" => call[p].op \in WriteOps
      BY <2>1 DEF Calls
    <2>3. HandleOK(p)' /\ ~Appended(p)'
      BY <1>1, <1>8, <2>2 DEF DelUnlock, HandleOK, AtRecord, Appended, StorePcs
    <2>4. QED
      BY <1>1, <1>8, <2>3, SameFiles DEF DelUnlock
  <1>9. QED
    BY <1>2, <1>3, <1>4, <1>5, <1>6, <1>7, <1>8 DEF Delete

LEMMA FindFreeFiles ==
  ASSUME IInv, FileInv, NEW p \in Procs, FindFree(p)
  PROVE  FileInv'
  <1> USE DEF Goto, locks, files
  <1>1. /\ pc \in [Procs -> Positions] /\ db \in [Procs -> Handles] /\ db[p] \in Handles
        /\ HandleOK(p) /\ FilesTypeOK /\ FREE_OFF \in Heads
    BY NHashAssumption DEF IInv, LocksTypeOK, FileInv, Heads, FREE_OFF
  <1>2. CASE FreeLock(p)
    <2>1. HandleOK(p)' /\ ~Appended(p)'
      BY <1>1, <1>2 DEF FreeLock, HandleOK, AtRecord, Appended, StorePcs, Records
    <2>2. QED
      BY <1>1, <1>2, <2>1, SameFiles DEF FreeLock
  <1>3. CASE FreeHead(p)
    <2> DEFINE d == [db[p] EXCEPT !.save = FREE_OFF, !.off = ptr[FREE_OFF]]
    <2>1. d \in Handles /\ d.off = ptr[FREE_OFF]
      BY <1>1 DEF Handles, FilesTypeOK, FREE_OFF
    <2>2. db' = [db EXCEPT ![p] = d] /\ db'[p] = d
      BY <1>1, <1>3 DEF FreeHead
    <2>3. HandleOK(p)' /\ ~Appended(p)'
      BY <1>1, <1>3, <2>1, <2>2 DEF FreeHead, HandleOK, AtRecord, Appended, StorePcs, Records
    <2>4. QED
      BY <1>1, <1>3, <2>1, <2>2, <2>3, SameFiles DEF FreeHead
  <1>4. CASE FreeWalk(p)
    <2> DEFINE o == db[p].off
               w == WithIdx(db[p], o)
               d == [w EXCEPT !.save = o, !.off = w.ptrval]
    <2>1. o \in Records
      BY <1>1, <1>4 DEF FreeWalk, HandleOK, Handles
    <2>2. /\ w \in Handles /\ w.idxoff = o /\ w.datoff = rec[o].datoff
          /\ w.ptrval = ptr[o] /\ w.off = o
      BY <1>1, <2>1, RecordFacts DEF WithIdx, Handles
    <2>3. CASE Fits(p, o)
      <3>1. db' = [db EXCEPT ![p] = w] /\ db'[p] = w
        BY <1>1, <1>4, <2>3 DEF FreeWalk
      <3>2. HandleOK(p)' /\ ~Appended(p)'
        BY <1>1, <1>4, <2>1, <2>2, <2>3, <3>1
           DEF FreeWalk, HandleOK, AtRecord, Appended, StorePcs, Records
      <3>3. QED
        BY <1>1, <1>4, <2>2, <3>1, <3>2, SameFiles DEF FreeWalk
    <2>4. CASE ~Fits(p, o)
      <3>1. db' = [db EXCEPT ![p] = d] /\ db'[p] = d
        BY <1>1, <1>4, <2>4 DEF FreeWalk
      <3>2. d \in Handles /\ d.off = ptr[o]
        BY <2>1, <2>2 DEF Handles
      <3>3. HandleOK(p)' /\ ~Appended(p)'
        BY <1>1, <1>4, <2>1, <2>2, <2>4, <3>1, <3>2
           DEF FreeWalk, HandleOK, AtRecord, Appended, StorePcs, Records
      <3>4. QED
        BY <1>1, <1>4, <3>1, <3>2, <3>3, SameFiles DEF FreeWalk
    <2>5. QED
      BY <2>3, <2>4
  <1>5. CASE FreeUnlink(p)
    <2>1. db[p].save \in Heads \cup Records /\ db[p].ptrval \in Records \cup {0}
      BY <1>1 DEF Handles, FREE_OFF
    <2>2. HandleOK(p)' /\ ~Appended(p)'
      BY <1>1, <1>5 DEF FreeUnlink, HandleOK, AtRecord, Appended, StorePcs, Records
    <2>3. QED
      BY <1>1, <1>5, <2>1, <2>2, PointerWritten DEF FreeUnlink
  <1>6. CASE FreeUnlock(p)
    <2>1. HandleOK(p)' /\ ~Appended(p)'
      BY <1>1, <1>6 DEF FreeUnlock, HandleOK, AtRecord, Appended, StorePcs, Records
    <2>2. QED
      BY <1>1, <1>6, <2>1, SameFiles DEF FreeUnlock
  <1>7. QED
    BY <1>2, <1>3, <1>4, <1>5, <1>6 DEF FindFree

(* _db_writedat appends: the file ends behind the new record               *)
LEMMA AppendData ==
  ASSUME IInv, FileInv, NEW p \in Procs, DatWrite(p), pc[p] = "datappend"
  PROVE  FileInv'
  <1> DEFINE d == [db[p] EXCEPT !.datlen = DatLen[call[p].data]]
  <1>1. /\ pc \in [Procs -> Positions] /\ db \in [Procs -> Handles] /\ db[p] \in Handles
        /\ HandleOK(p) /\ FilesTypeOK /\ datend \in Nat
    BY DEF IInv, LocksTypeOK, FileInv, FilesTypeOK
  <1>2. call[p].data \in Data /\ DatLen[call[p].data] \in Nat
    <2>1. call[p] \in Calls /\ call[p].op \in WriteOps
      BY <1>1 DEF HandleOK, StorePcs, IInv, LocksTypeOK, InChain, OutsideChain
    <2>2. QED
      BY <2>1, LenAssumption DEF Calls, WriteOps
  <1>3. d \in Handles /\ d.datoff = datend /\ db[p].datoff = datend
    BY <1>1, <1>2 DEF Handles, HandleOK
  <1>4. db' = [db EXCEPT ![p] = d] /\ db'[p] = d /\ pc' = [pc EXCEPT ![p] = "datunlock"]
    BY <1>1 DEF DatWrite, Goto
  <1>5. datend' = datend + 1 /\ dat' \in [0..datend -> Data \cup {Blank}]
    BY <1>1, <1>2, <1>3 DEF DatWrite, Put, FilesTypeOK
  <1>6. UNCHANGED <<rec, ptr, idxend, call, scan>>
    BY DEF DatWrite
  <1>7. FilesTypeOK' /\ Handles' = Handles /\ Scans' = Scans
    <2>1. rec \in [Records -> [key : Keys \cup {Blank}, klen : Nat,
                               datoff : 0..datend, datlen : Nat]]
      <3>1. 0..(datend - 1) \subseteq 0..datend
        BY <1>1
      <3>2. QED
        BY <1>1, <3>1 DEF FilesTypeOK
    <2>2. datend' \in Nat /\ datend' - 1 = datend /\ Records' = Records /\ Heads' = Heads
      BY <1>1, <1>5, <1>6 DEF Records, Heads
    <2>3. FilesTypeOK'
      BY <1>1, <1>5, <1>6, <2>1, <2>2 DEF FilesTypeOK
    <2>4. QED
      BY <1>6, <2>2, <2>3 DEF Handles, Scans
  <1>8. Grows(p)
    <2>1. Records' = Records /\ datend' >= datend /\ idxend' >= idxend
      BY <1>1, <1>5, <1>6 DEF Records, FilesTypeOK
    <2>2. \A q \in Procs \ {p} : /\ pc'[q] = pc[q] /\ db'[q] = db[q]
                                 /\ call'[q] = call[q] /\ scan'[q] = scan[q]
      BY <1>1, <1>4, <1>6
    <2>3. QED
      BY <1>6, <2>1, <2>2 DEF Grows
  <1>9. HandleOK(p)'
    <2>1. \A o \in Records : rec[o].datoff # datend
      BY <1>1, RecordFacts
    <2>2. QED
      BY <1>1, <1>3, <1>4, <1>5, <1>6, <2>1 DEF HandleOK, AtRecord, Appended, StorePcs, Records
  <1>10. QED
    BY <1>1, <1>3, <1>4, <1>6, <1>7, <1>8, <1>9, FileStep DEF FileInv

(* _db_writeidx appends the record for the data appended before, or gives  *)
(* a free record, with its data record, to a new key                       *)
LEMMA IndexWritten ==
  ASSUME IInv, FileInv, NEW p \in Procs, IdxWrite(p)
  PROVE  FileInv'
  <1> DEFINE o == db[p].idxoff
             r == IndexRecord(call[p].key, db[p].datoff, db[p].datlen)
  <1>1. /\ pc \in [Procs -> Positions] /\ db \in [Procs -> Handles] /\ db[p] \in Handles
        /\ HandleOK(p) /\ FilesTypeOK
        /\ idxend \in Nat /\ datend \in Nat /\ idxend > NHash
    BY DEF IInv, LocksTypeOK, FileInv, FilesTypeOK
  <1>2. call[p].key \in Keys /\ KeyLen[call[p].key] \in Nat
    <2>1. call[p] \in Calls
      BY DEF IdxWrite, IInv, LocksTypeOK, InChain, OutsideChain
    <2>2. QED
      BY <2>1, LenAssumption DEF Calls
  <1>3. \/ pc[p] = "idxappend" /\ o = idxend
        \/ pc[p] = "idxwrite" /\ o \in Records /\ db[p].datoff = rec[o].datoff
    BY <1>1 DEF IdxWrite, HandleOK, AtRecord
  <1>4. db[p].datoff \in 0..(datend - 1) /\ db[p].datlen \in Nat
                                         /\ db[p].front \in Records \cup {0}
    <2>1. pc[p] = "idxappend" => db[p].datoff \in 0..(datend - 1)
      BY <1>1 DEF HandleOK, Appended
    <2>2. o \in Records => rec[o].datoff \in 0..(datend - 1)
      BY <1>1 DEF FilesTypeOK
    <2>3. QED
      BY <1>1, <1>3, <2>1, <2>2 DEF Handles
  <1>5. r \in [key : Keys \cup {Blank}, klen : Nat, datoff : 0..(datend - 1), datlen : Nat]
        /\ r.datoff = db[p].datoff
    BY <1>2, <1>4 DEF IndexRecord
  <1>6. /\ rec' = Put(rec, o, r) /\ ptr' = Put(ptr, o, db[p].front)
        /\ idxend' = IF o = idxend THEN idxend + 1 ELSE idxend
        /\ UNCHANGED <<dat, datend, call, db, scan>>
        /\ pc' = [pc EXCEPT ![p] = IF pc[p] = "idxappend" THEN "idxunlock" ELSE "link"]
    BY DEF IdxWrite, Goto
  <1>7. Records' = Records \cup {o} /\ o \in Nat /\ o > NHash /\ o <= idxend
    <2>1. o \in Nat /\ o > NHash /\ o <= idxend
      BY <1>1, <1>3, RecordFacts, NHashAssumption
    <2>2. QED
      BY <1>6, <2>1 DEF Put, Records
  <1>8. Records' = (NHash + 1)..(idxend' - 1)
    BY <1>1, <1>3, <1>6, <1>7, NHashAssumption DEF FilesTypeOK
  <1>9. FilesTypeOK'
    <2>1. rec' \in [Records' -> [key : Keys \cup {Blank}, klen : Nat,
                                 datoff : 0..(datend - 1), datlen : Nat]]
      BY <1>1, <1>5, <1>6, <1>7 DEF Put, FilesTypeOK, Records
    <2>2. ptr' \in [Heads \cup Records' -> Records' \cup {0}]
      BY <1>1, <1>4, <1>6, <1>7 DEF Put, FilesTypeOK
    <2>3. QED
      <3>1. idxend' \in Nat /\ idxend' > NHash /\ UNCHANGED <<dat, datend>> /\ Heads' = Heads
        BY <1>1, <1>6, NHashAssumption DEF Heads
      <3>2. QED
        BY <1>1, <1>8, <2>1, <2>2, <3>1 DEF FilesTypeOK
  <1>10. db' \in [Procs -> Handles'] /\ scan' \in [Procs -> Scans']
    <2>1. Handles \subseteq Handles'
      BY <1>7 DEF Handles, Heads
    <2>2. Scans \subseteq Scans'
      BY <1>1, <1>6 DEF Scans
    <2>3. QED
      BY <1>1, <1>6, <2>1, <2>2 DEF FileInv
  <1>11. \A n \in Records' : rec'[n] = IF n = o THEN r ELSE rec[n]
    BY <1>6 DEF Put, Records
  <1>12. Grows(p)
    <2>1. \A n \in Records : rec'[n].datoff = rec[n].datoff
      BY <1>1, <1>3, <1>5, <1>7, <1>11, RecordFacts
    <2>2. \A q \in Procs \ {p} : /\ pc'[q] = pc[q] /\ db'[q] = db[q]
                                 /\ call'[q] = call[q] /\ scan'[q] = scan[q]
      BY <1>1, <1>6
    <2>3. /\ datend' = datend /\ datend' >= datend
          /\ idxend' >= idxend /\ (idxend' # idxend => pc[p] = "idxappend")
      BY <1>1, <1>3, <1>6, RecordFacts
    <2>4. \A n \in Records' : n \notin Records =>
            pc[p] = "idxappend" /\ n = idxend /\ rec'[n].datoff = db[p].datoff
      BY <1>3, <1>5, <1>7, <1>11
    <2>5. QED
      BY <1>7, <2>1, <2>2, <2>3, <2>4 DEF Grows
  <1>13. HandleOK(p)' /\ ~Appended(p)'
    BY <1>1, <1>3, <1>6, <1>7 DEF IdxWrite, HandleOK, AtRecord, Appended, StorePcs
  <1>14. QED
    BY <1>9, <1>10, <1>12, <1>13, FileStep

LEMMA WriteFiles ==
  ASSUME IInv, FileInv, NEW p \in Procs, Write(p)
  PROVE  FileInv'
  <1> USE DEF Goto, locks, files
  <1>1. /\ pc \in [Procs -> Positions] /\ db \in [Procs -> Handles] /\ db[p] \in Handles
        /\ HandleOK(p) /\ FilesTypeOK /\ datend \in Nat /\ idxend \in Nat
    BY DEF IInv, LocksTypeOK, FileInv, FilesTypeOK
  <1>2. InChain(p) => call[p] \in Calls /\ ChainOff(p) \in Heads /\ ChainOff(p) # 0
    BY ChainInRange DEF IInv, LocksTypeOK, Chains, Heads, ChainOff
  <1>3. CASE DatLock(p) \/ DatUnlock(p) \/ IdxLock(p) \/ IdxUnlock(p)
    <2>1. HandleOK(p)' /\ (Appended(p)' => Appended(p))
      BY <1>1, <1>3 DEF DatLock, DatUnlock, IdxLock, IdxUnlock, HandleOK, AtRecord,
         Appended, StorePcs, Records
    <2>2. /\ UNCHANGED <<files, call, ret, db, scan, calls>>
          /\ \A q \in Procs \ {p} : pc'[q] = pc[q]
      BY <1>1, <1>3 DEF DatLock, DatUnlock, IdxLock, IdxUnlock
    <2>3. QED
      BY <2>1, <2>2, SameFiles
  <1>4. CASE ReadFront(p)
    <2> DEFINE d == [db[p] EXCEPT !.front = ptr[ChainOff(p)]]
    <2>1. InChain(p)
      BY <1>4 DEF ReadFront, InChain, OutsideChain
    <2>2. d \in Handles
      BY <1>1, <1>2, <2>1 DEF Handles, FilesTypeOK
    <2>3. db' = [db EXCEPT ![p] = d] /\ db'[p] = d
      BY <1>1, <1>4 DEF ReadFront
    <2>4. HandleOK(p)' /\ ~Appended(p)'
      BY <1>1, <1>4, <2>3 DEF ReadFront, HandleOK, AtRecord, Appended, StorePcs, Records
    <2>5. QED
      BY <1>1, <1>4, <2>2, <2>3, <2>4, SameFiles DEF ReadFront
  <1>5. CASE DatSeekEnd(p)
    <2> DEFINE d == [db[p] EXCEPT !.datoff = datend]
    <2>1. d \in Handles /\ d.datoff = datend
      BY <1>1 DEF Handles
    <2>2. db' = [db EXCEPT ![p] = d] /\ db'[p] = d
      BY <1>1, <1>5 DEF DatSeekEnd
    <2>3. HandleOK(p)' /\ ~Appended(p)'
      BY <1>1, <1>5, <2>1, <2>2
         DEF DatSeekEnd, HandleOK, AtRecord, Appended, StorePcs, Records
    <2>4. QED
      BY <1>1, <1>5, <2>1, <2>2, <2>3, SameFiles DEF DatSeekEnd
  <1>6. CASE IdxSeekEnd(p)
    <2> DEFINE d == [db[p] EXCEPT !.idxoff = idxend]
    <2>1. d \in Handles /\ d.idxoff = idxend /\ d.datoff = db[p].datoff
      BY <1>1 DEF Handles
    <2>2. db' = [db EXCEPT ![p] = d] /\ db'[p] = d
      BY <1>1, <1>6 DEF IdxSeekEnd
    <2>3. HandleOK(p)' /\ Appended(p) /\ db'[p].datoff = db[p].datoff
      BY <1>1, <1>6, <2>1, <2>2
         DEF IdxSeekEnd, HandleOK, AtRecord, Appended, StorePcs, Records
    <2>4. QED
      BY <1>1, <1>6, <2>1, <2>2, <2>3, SameFiles DEF IdxSeekEnd
  <1>7. CASE DatWrite(p) /\ pc[p] # "datappend"
    <2> DEFINE d == [db[p] EXCEPT !.datlen = DatLen[call[p].data]]
    <2>1. pc[p] \in {"datwrite", "overwrite"} /\ AtRecord(p) /\ pc[p] \in StorePcs /\ InChain(p)
      BY <1>7 DEF DatWrite, AtRecord, StorePcs, InChain, OutsideChain
    <2>2. call[p].data \in Data /\ DatLen[call[p].data] \in Nat
      BY <1>1, <1>2, <2>1, LenAssumption DEF HandleOK, Calls, WriteOps
    <2>3. /\ d \in Handles /\ d.datoff = db[p].datoff /\ d.idxoff = db[p].idxoff
          /\ db' = [db EXCEPT ![p] = d] /\ db'[p] = d
      BY <1>1, <1>7, <2>2 DEF Handles, DatWrite
    <2>4. db[p].datoff \in DOMAIN dat /\ db[p].datoff # datend
      BY <1>1, <2>1, RecordFacts DEF HandleOK
    <2>5. HandleOK(p)' /\ ~Appended(p)'
      BY <1>1, <1>7, <2>1, <2>3 DEF DatWrite, HandleOK, AtRecord, Appended, StorePcs, Records
    <2>6. QED
      BY <1>1, <1>7, <2>2, <2>3, <2>4, <2>5, DataWritten DEF DatWrite
  <1>8. CASE Link(p)
    <2>1. InChain(p) /\ db[p].idxoff \in Records
      BY <1>1, <1>8 DEF Link, InChain, OutsideChain, HandleOK
    <2>2. HandleOK(p)' /\ ~Appended(p)'
      BY <1>1, <1>8 DEF Link, HandleOK, AtRecord, Appended, StorePcs, Records
    <2>3. QED
      BY <1>1, <1>2, <1>8, <2>1, <2>2, PointerWritten DEF Link
  <1>9. QED
    BY <1>3, <1>4, <1>5, <1>6, <1>7, <1>8, AppendData, IndexWritten DEF Write

LEMMA ScanFiles ==
  ASSUME IInv, FileInv, NEW p \in Procs, Rewind(p) \/ Nextrec(p)
  PROVE  FileInv'
  <1> USE DEF Goto, locks, files
  <1>1. /\ pc \in [Procs -> Positions] /\ scan \in [Procs -> Scans] /\ scan[p] \in Scans
        /\ HandleOK(p) /\ FilesTypeOK /\ idxend \in Nat /\ idxend > NHash /\ NHash \in Nat
    BY NHashAssumption DEF IInv, LocksTypeOK, FileInv, FilesTypeOK
  <1>2. CASE Rewind(p)
    <2>1. NoScan \in Scans
      BY <1>1 DEF NoScan, Scans
    <2>2. HandleOK(p)' /\ ~Appended(p)'
      BY <1>1, <1>2 DEF Rewind, HandleOK, AtRecord, Appended, StorePcs
    <2>3. QED
      BY <1>1, <1>2, <2>1, <2>2, SameFiles DEF Rewind
  <1>3. CASE NextLock(p) \/ NextUnlock(p)
    <2>1. HandleOK(p)' /\ ~Appended(p)'
      BY <1>1, <1>3 DEF NextLock, NextUnlock, HandleOK, AtRecord, Appended, StorePcs
    <2>2. UNCHANGED <<files, call, db, scan>> /\ \A q \in Procs \ {p} : pc'[q] = pc[q]
      BY <1>1, <1>3 DEF NextLock, NextUnlock
    <2>3. QED
      BY <2>1, <2>2, SameFiles
  <1>4. CASE NextRead(p) /\ scan[p].pos = idxend
    <2> DEFINE s == [scan[p] EXCEPT !.key = Blank]
    <2>1. s \in Scans /\ scan' = [scan EXCEPT ![p] = s]
      BY <1>1, <1>4 DEF NextRead, Scans
    <2>2. HandleOK(p)' /\ ~Appended(p)'
      BY <1>1, <1>4 DEF NextRead, HandleOK, AtRecord, Appended, StorePcs
    <2>3. QED
      BY <1>1, <1>4, <2>1, <2>2, SameFiles DEF NextRead
  <1>5. CASE NextRead(p) /\ scan[p].pos # idxend
    <2> DEFINE o == scan[p].pos
               s == [scan[p] EXCEPT !.pos = o + 1, !.idxoff = o,
                                    !.datoff = rec[o].datoff, !.key = rec[o].key]
    <2>1. o \in Records /\ o \in Nat /\ o + 1 \in (NHash + 1)..idxend
      BY <1>1, <1>5 DEF Scans, FilesTypeOK
    <2>2. s \in Scans /\ s.idxoff = o /\ s.datoff = rec[o].datoff
      BY <1>1, <2>1, RecordFacts DEF Scans
    <2>3. scan' = [scan EXCEPT ![p] = s] /\ scan'[p] = s
      BY <1>1, <1>5 DEF NextRead
    <2>4. HandleOK(p)' /\ ~Appended(p)'
      BY <1>1, <1>5, <2>1, <2>2, <2>3
         DEF NextRead, HandleOK, AtRecord, Appended, StorePcs, Records
    <2>5. QED
      BY <1>1, <1>5, <2>2, <2>3, <2>4, SameFiles DEF NextRead
  <1>6. CASE NextDat(p)
    <2> DEFINE s == [scan[p] EXCEPT !.data = dat[scan[p].datoff]]
    <2>1. dat[scan[p].datoff] \in Data \cup {Blank}
      BY <1>1, <1>6, RecordFacts DEF NextDat, HandleOK
    <2>2. s \in Scans /\ scan' = [scan EXCEPT ![p] = s]
      BY <1>1, <1>6, <2>1 DEF NextDat, Scans
    <2>3. HandleOK(p)' /\ ~Appended(p)'
      BY <1>1, <1>6 DEF NextDat, HandleOK, AtRecord, Appended, StorePcs
    <2>4. QED
      BY <1>1, <1>6, <2>2, <2>3, SameFiles DEF NextDat
  <1>7. QED
    BY <1>2, <1>3, <1>4, <1>5, <1>6 DEF Nextrec

LEMMA OutsideFiles ==
  ASSUME IInv, FileInv, NEW p \in Procs, Begin(p) \/ Crash(p)
  PROVE  FileInv'
  <1>1. /\ pc \in [Procs -> Positions] /\ db \in [Procs -> Handles]
        /\ call \in [Procs -> Calls \cup {NoCall}]
    BY DEF IInv, LocksTypeOK, FileInv
  <1>2. UNCHANGED files /\ UNCHANGED scan /\ pc'[p] \in {"lock", "dead"}
        /\ \A q \in Procs \ {p} : pc'[q] = pc[q] /\ call'[q] = call[q]
    BY <1>1 DEF Begin, Crash, Goto
  <1>3. HandleOK(p)' /\ ~Appended(p)'
    BY <1>2 DEF HandleOK, AtRecord, Appended, StorePcs
  <1>4. UNCHANGED db \/ \E d \in Handles : db' = [db EXCEPT ![p] = d]
    <2>1. ASSUME NEW c \in Requests PROVE [NoDB EXCEPT !.ptroff = Hash[c.key]] \in Handles
      <3>1. Hash[c.key] \in Heads
        BY RequestAssumption, ChainInRange DEF Chains, Heads
      <3>2. QED
        BY <3>1 DEF NoDB, Handles
    <2>2. QED
      BY <2>1 DEF Begin, Crash
  <1>5. QED
    BY <1>2, <1>3, <1>4, SameFiles

LEMMA NextFileInv == IInv /\ FileInv /\ [Next]_vars => FileInv'
  <1> SUFFICES ASSUME IInv, FileInv, [Next]_vars PROVE FileInv'
    OBVIOUS
  <1>1. ASSUME NEW p \in Procs, Begin(p) \/ Rewind(p) \/ Step(p) \/ Crash(p) PROVE FileInv'
    BY <1>1, FindFiles, DeleteFiles, FindFreeFiles, WriteFiles, ScanFiles, OutsideFiles
       DEF Step
  <1>2. CASE UNCHANGED vars
    BY <1>2 DEF vars, files, FileInv, FilesTypeOK, Handles, Scans, Heads, Records, HandleOK,
       AtRecord, Appended
  <1>3. QED
    BY <1>1, <1>2 DEF Next, Finished

(* Every pointer in the files and in a DB structure is to a record, an     *)
(* end of list or a list head, and every record has its data record        *)
THEOREM FilesSound == Spec => []FileInv
  <1>1. QED
    BY InitIInv, NextIInv, InitFileInv, NextFileInv, PTL DEF Spec

(* DataOwned: lseek to the end and write are two system calls of           *)
(* _db_writedat and of _db_writeidx, and free records are given out again  *)
(* with their data records, but no two index records ever share one.       *)
THEOREM DataRecordsOwned == Spec => []DataOwned
  <1>1. FileInv => DataOwned
    BY DEF FileInv, HandleOK, Appended, DataOwned, Records
  <1>2. QED
    BY <1>1, FilesSound, PTL
=============================================================================
