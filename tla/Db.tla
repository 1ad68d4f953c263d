-------------------------------- MODULE Db ---------------------------------
(***************************************************************************)
(* The multi-user database library of apue.3e/db/db.c: several processes,  *)
(* each with its own DB handle, on one index file and one data file.       *)
(* A step is one system call on the shared files (a pointer or record read *)
(* or written, an lseek to the end of a file, a lock or unlock) together   *)
(* with the local computation up to the next one.                          *)
(*                                                                         *)
(* Offsets in the index file: 0 is FREE_OFF, the head of the free list;    *)
(* 1..NHash are the hash table; larger offsets are index records.  As in   *)
(* the file, a chain pointer with value 0 ends a list.                     *)
(***************************************************************************)
EXTENDS Integers, FiniteSets, DbCalls

CONSTANTS
  NoProc,      \* nobody holds a write lock
  NHash,       \* number of hash chains
  Hash,        \* Hash[k]: the chain of key k
  KeyLen,      \* KeyLen[k]: strlen of the key
  DatLen,      \* DatLen[d]: length of the data record with its newline
  Requests,    \* the calls the processes may make (a subset of Calls)
  Scanners,    \* the processes that also step through the file
  Crashers,    \* the processes that may die
  CrashMidway, \* they may also die between two of a deletion's four writes
  MaxCalls     \* bound on the calls of one process

Chains == 1..NHash
FREE_OFF == 0

(* The lockable byte ranges: FREE_OFF, one byte per chain, the records of  *)
(* the index file, the whole data file.                                    *)
IdxTail == NHash + 1
DatFile == NHash + 2
Ranges == 0..(NHash + 2)

ASSUME NHashAssumption == NHash \in Nat \ {0}
ASSUME HashAssumption == Hash \in [Keys -> Chains]
ASSUME LenAssumption == /\ KeyLen \in [Keys -> Nat \ {0}]
                        /\ DatLen \in [Data -> Nat \ {0}]
ASSUME ProcAssumption == NoProc \notin Procs /\ IsFiniteSet(Procs)
ASSUME RequestAssumption == Requests \subseteq Calls

VARIABLES
  ptr,         \* chain pointers: free list head, hash table, records
  rec,         \* index records: key, its length, data offset and length
  dat,         \* data records
  idxend,      \* size of the index file: the offset SEEK_END gives
  datend,      \* size of the data file
  readers,     \* readers[r]: the holders of a read lock on range r
  writer,      \* writer[r]: the holder of the write lock on r, or NoProc
  pc,          \* where each process is
  call, ret,   \* the call it is in (or its last one) and its return value
  db,          \* the DB structure and the locals of the running call
  scan,        \* the position and the last result of db_nextrec
  calls        \* how many calls it has made

files == <<ptr, rec, dat, idxend, datend>>
locks == <<readers, writer>>
vars == <<files, locks, pc, call, ret, db, scan, calls>>

(* The fields of the DB structure a call uses, and its local variables:    *)
(* off is the offset being walked, save is saveptr or saveoffset, front is *)
(* db_store's ptrval, rep is its branch for a record that was found.        *)
NoDB == [ptroff |-> 0, idxoff |-> 0, datoff |-> 0, datlen |-> 0,
         ptrval |-> 0, off |-> 0, save |-> 0, front |-> 0, rep |-> FALSE]
NoScan == [pos |-> NHash + 1, idxoff |-> 0, datoff |-> 0,
           key |-> Blank, data |-> Blank]

Goto(p, l) == pc' = [pc EXCEPT ![p] = l]

(* Put writes entry i of a file, extending the file if i is new            *)
Put(f, i, x) == [j \in DOMAIN f \cup {i} |-> IF j = i THEN x ELSE f[j]]

IndexRecord(k, off, len) ==
  [key |-> k, klen |-> KeyLen[k], datoff |-> off, datlen |-> len]

-----------------------------------------------------------------------------
(* fcntl record locks: F_SETLKW waits, F_UNLCK drops either kind           *)

CanWrite(p, r) == writer[r] \in {NoProc, p} /\ readers[r] \subseteq {p}
CanRead(p, r)  == writer[r] \in {NoProc, p}

writew_lock(p, r) == /\ CanWrite(p, r)
                     /\ writer' = [writer EXCEPT ![r] = p]
                     /\ UNCHANGED readers

readw_lock(p, r) == /\ CanRead(p, r)
                    /\ readers' = [readers EXCEPT ![r] = @ \cup {p}]
                    /\ UNCHANGED writer

un_lock(p, r) ==
  /\ writer' = [writer EXCEPT ![r] = IF @ = p THEN NoProc ELSE @]
  /\ readers' = [readers EXCEPT ![r] = @ \ {p}]

-----------------------------------------------------------------------------

Init ==
  /\ ptr = [o \in 0..NHash |-> 0]
  /\ rec = [o \in {} |-> IndexRecord(CHOOSE k \in Keys : TRUE, 0, 0)]
  /\ dat = [o \in {} |-> Blank]
  /\ idxend = NHash + 1
  /\ datend = 0
  /\ readers = [r \in Ranges |-> {}]
  /\ writer = [r \in Ranges |-> NoProc]
  /\ pc = [p \in Procs |-> "idle"]
  /\ call = [p \in Procs |-> NoCall]
  /\ ret = [p \in Procs |-> None]
  /\ db = [p \in Procs |-> NoDB]
  /\ scan = [p \in Procs |-> NoScan]
  /\ calls = [p \in Procs |-> 0]

ChainOff(p) == Hash[call[p].key]

(* db_fetch, db_store or db_delete is called                               *)
Begin(p) ==
  /\ pc[p] = "idle" /\ calls[p] < MaxCalls
  /\ \E c \in Requests :
       /\ call' = [call EXCEPT ![p] = c]
       /\ db' = [db EXCEPT ![p] = [NoDB EXCEPT !.ptroff = Hash[c.key]]]
  /\ ret' = [ret EXCEPT ![p] = None]
  /\ calls' = [calls EXCEPT ![p] = @ + 1]
  /\ Goto(p, "lock")
  /\ UNCHANGED <<files, locks, scan>>

-----------------------------------------------------------------------------
(* _db_find_and_lock                                                       *)

\* Mutant: db_store passes 0 for writelock
LockChainShared(p) ==
  /\ pc[p] = "lock"
  /\ readw_lock(p, ChainOff(p))
  /\ Goto(p, "head")
  /\ UNCHANGED <<files, call, ret, db, scan, calls>>

LockChain(p) ==
  /\ pc[p] = "lock"
  /\ IF call[p].op = "fetch" THEN readw_lock(p, ChainOff(p))
                             ELSE writew_lock(p, ChainOff(p))
  /\ Goto(p, "head")
  /\ UNCHANGED <<files, call, ret, db, scan, calls>>

(* What the caller does once the record has not been found ...             *)
NotFound(p) ==
  IF call[p].op \in {"insert", "store"}
  THEN Goto(p, "front") /\ UNCHANGED ret
  ELSE Goto(p, "unlock") /\ ret' = [ret EXCEPT ![p] = Absent]

(* ... and once it has been, with a data record of length len              *)
Found(p, len) ==
  LET c == call[p]
  IN /\ ret' = IF c.op = "insert" THEN [ret EXCEPT ![p] = Exists] ELSE ret
     /\ Goto(p, CASE c.op = "fetch"  -> "readdat"
                  [] c.op = "insert" -> "unlock"
                  [] c.op = "delete" -> "dellock"
                  [] OTHER -> IF DatLen[c.data] = len THEN "overwrite"
                                                      ELSE "dellock")

ReadHead(p) ==
  /\ pc[p] = "head"
  /\ db' = [db EXCEPT ![p].off = ptr[ChainOff(p)]]
  /\ IF ptr[ChainOff(p)] = 0 THEN NotFound(p)
                             ELSE Goto(p, "walk") /\ UNCHANGED ret
  /\ UNCHANGED <<files, locks, call, scan, calls>>

(* _db_readidx at offset o, into the DB structure                          *)
WithIdx(d, o) ==
  [d EXCEPT !.idxoff = o, !.ptrval = ptr[o],
            !.datoff = rec[o].datoff, !.datlen = rec[o].datlen]

Walk(p) ==
  LET o == db[p].off
      d == WithIdx(db[p], o)
  IN /\ pc[p] = "walk"
     /\ IF rec[o].key = call[p].key
        THEN /\ db' = [db EXCEPT ![p] =
                         [d EXCEPT !.rep = call[p].op \in {"replace", "store"}]]
             /\ Found(p, d.datlen)
        ELSE /\ db' = [db EXCEPT ![p] =
                         [d EXCEPT !.ptroff = o, !.off = d.ptrval]]
             /\ IF d.ptrval = 0 THEN NotFound(p)
                                ELSE Goto(p, "walk") /\ UNCHANGED ret
     /\ UNCHANGED <<files, locks, call, scan, calls>>

\* Mutant: returning -1 or 1 leaves the chain locked
UnlockChainOnSuccess(p) ==
  /\ pc[p] = "unlock"
  /\ IF ret[p] \in {Absent, Exists} THEN UNCHANGED locks ELSE un_lock(p, ChainOff(p))
  /\ db' = [db EXCEPT ![p] = NoDB]
  /\ Goto(p, "idle")
  /\ UNCHANGED <<files, call, ret, scan, calls>>

(* un_lock of the hash chain, then return                                  *)
UnlockChain(p) ==
  /\ pc[p] = "unlock"
  /\ un_lock(p, ChainOff(p))
  /\ db' = [db EXCEPT ![p] = NoDB]
  /\ Goto(p, "idle")
  /\ UNCHANGED <<files, call, ret, scan, calls>>

(* db_fetch: _db_readdat                                                   *)
ReadDat(p) ==
  /\ pc[p] = "readdat"
  /\ ret' = [ret EXCEPT ![p] = dat[db[p].datoff]]
  /\ Goto(p, "unlock")
  /\ UNCHANGED <<files, locks, call, db, scan, calls>>

-----------------------------------------------------------------------------
(* _db_dodelete                                                            *)

\* Mutant: the free list is not locked
DelLockNone(p) ==
  /\ pc[p] = "dellock"
  /\ Goto(p, "delblank")
  /\ UNCHANGED <<files, locks, call, ret, db, scan, calls>>

DelLock(p) ==
  /\ pc[p] = "dellock"
  /\ writew_lock(p, FREE_OFF)
  /\ Goto(p, "delblank")
  /\ UNCHANGED <<files, call, ret, db, scan, calls>>

DelBlankData(p) ==
  /\ pc[p] = "delblank"
  /\ dat' = Put(dat, db[p].datoff, Blank)
  /\ Goto(p, "delfree")
  /\ UNCHANGED <<ptr, rec, idxend, datend, locks, call, ret, db, scan, calls>>

(* freeptr is kept in front, which db_store sets again afterwards          *)
DelReadFree(p) ==
  /\ pc[p] = "delfree"
  /\ db' = [db EXCEPT ![p].front = ptr[FREE_OFF], ![p].save = db[p].ptrval]
  /\ Goto(p, "delidx")
  /\ UNCHANGED <<files, locks, call, ret, scan, calls>>

DelWriteIdx(p) ==
  LET o == db[p].idxoff
  IN /\ pc[p] = "delidx"
     /\ rec' = [rec EXCEPT ![o].key = Blank]
     /\ ptr' = [ptr EXCEPT ![o] = db[p].front]
     /\ db' = [db EXCEPT ![p].ptrval = db[p].front]
     /\ Goto(p, "delhead")
     /\ UNCHANGED <<dat, idxend, datend, locks, call, ret, scan, calls>>

DelWriteFree(p) ==
  /\ pc[p] = "delhead"
  /\ ptr' = [ptr EXCEPT ![FREE_OFF] = db[p].idxoff]
  /\ Goto(p, "delunlink")
  /\ UNCHANGED <<rec, dat, idxend, datend, locks, call, ret, db, scan, calls>>

\* Mutant: the chain pointer is taken after _db_writeidx overwrote ptrval
DelUnlinkPtrval(p) ==
  /\ pc[p] = "delunlink"
  /\ ptr' = [ptr EXCEPT ![db[p].ptroff] = db[p].ptrval]
  /\ Goto(p, "delunlock")
  /\ UNCHANGED <<rec, dat, idxend, datend, locks, call, ret, db, scan, calls>>

\* Mutant: the chain keeps pointing to the deleted record
DelUnlinkNone(p) ==
  /\ pc[p] = "delunlink"
  /\ Goto(p, "delunlock")
  /\ UNCHANGED <<files, locks, call, ret, db, scan, calls>>

DelUnlink(p) ==
  /\ pc[p] = "delunlink"
  /\ ptr' = [ptr EXCEPT ![db[p].ptroff] = db[p].save]
  /\ Goto(p, "delunlock")
  /\ UNCHANGED <<rec, dat, idxend, datend, locks, call, ret, db, scan, calls>>

DelUnlock(p) ==
  /\ pc[p] = "delunlock"
  /\ un_lock(p, FREE_OFF)
  /\ IF call[p].op = "delete"
     THEN Goto(p, "unlock") /\ ret' = [ret EXCEPT ![p] = OK]
     ELSE Goto(p, "refront") /\ UNCHANGED ret
  /\ UNCHANGED <<files, call, db, scan, calls>>

-----------------------------------------------------------------------------
(* db_store                                                                *)

(* The chain pointer the new record will carry; read again after a delete  *)
ReadFront(p) ==
  /\ pc[p] \in {"front", "refront"}
  /\ db' = [db EXCEPT ![p].front = ptr[ChainOff(p)]]
  /\ Goto(p, IF pc[p] = "front" THEN "fflock" ELSE "datlock")
  /\ UNCHANGED <<files, locks, call, ret, scan, calls>>

(* _db_findfree                                                            *)
FreeLock(p) ==
  /\ pc[p] = "fflock"
  /\ writew_lock(p, FREE_OFF)
  /\ Goto(p, "ffhead")
  /\ UNCHANGED <<files, call, ret, db, scan, calls>>

FreeHead(p) ==
  /\ pc[p] = "ffhead"
  /\ db' = [db EXCEPT ![p].save = FREE_OFF, ![p].off = ptr[FREE_OFF]]
  /\ Goto(p, IF ptr[FREE_OFF] = 0 THEN "ffunlock" ELSE "ffwalk")
  /\ UNCHANGED <<files, locks, call, ret, scan, calls>>

Fits(p, o) == /\ rec[o].klen = KeyLen[call[p].key]
              /\ rec[o].datlen = DatLen[call[p].data]

\* Mutant: the loop does not advance
FreeWalkStuck(p) ==
  LET d == WithIdx(db[p], db[p].off)
  IN /\ pc[p] = "ffwalk"
     /\ db' = [db EXCEPT ![p] = d]
     /\ Goto(p, IF Fits(p, db[p].off) THEN "ffunlink" ELSE "ffwalk")
     /\ UNCHANGED <<files, locks, call, ret, scan, calls>>

FreeWalk(p) ==
  LET o == db[p].off
      d == WithIdx(db[p], o)
  IN /\ pc[p] = "ffwalk"
     /\ IF Fits(p, o)
        THEN /\ db' = [db EXCEPT ![p] = d]
             /\ Goto(p, "ffunlink")
        ELSE /\ db' = [db EXCEPT ![p] =
                         [d EXCEPT !.save = o, !.off = d.ptrval]]
             /\ Goto(p, IF d.ptrval = 0 THEN "ffunlock" ELSE "ffwalk")
     /\ UNCHANGED <<files, locks, call, ret, scan, calls>>

FreeUnlink(p) ==
  /\ pc[p] = "ffunlink"
  /\ ptr' = [ptr EXCEPT ![db[p].save] = db[p].ptrval]
  /\ Goto(p, "ffunlock")
  /\ UNCHANGED <<rec, dat, idxend, datend, locks, call, ret, db, scan, calls>>

(* offset == 0 tells that no free record matched                           *)
FreeUnlock(p) ==
  /\ pc[p] = "ffunlock"
  /\ un_lock(p, FREE_OFF)
  /\ Goto(p, IF db[p].off = 0 THEN "datlock" ELSE "datwrite")
  /\ UNCHANGED <<files, call, ret, db, scan, calls>>

(* _db_writedat: append under a lock on the whole data file, or overwrite  *)
\* Mutant: appending data without the lock on the data file
DatLockNone(p) ==
  /\ pc[p] = "datlock"
  /\ Goto(p, "datseek")
  /\ UNCHANGED <<files, locks, call, ret, db, scan, calls>>

DatLock(p) ==
  /\ pc[p] = "datlock"
  /\ writew_lock(p, DatFile)
  /\ Goto(p, "datseek")
  /\ UNCHANGED <<files, call, ret, db, scan, calls>>

DatSeekEnd(p) ==
  /\ pc[p] = "datseek"
  /\ db' = [db EXCEPT ![p].datoff = datend]
  /\ Goto(p, "datappend")
  /\ UNCHANGED <<files, locks, call, ret, scan, calls>>

DatWrite(p) ==
  /\ pc[p] \in {"datappend", "datwrite", "overwrite"}
  /\ dat' = Put(dat, db[p].datoff, call[p].data)
  /\ datend' = IF db[p].datoff = datend THEN datend + 1 ELSE datend
  /\ db' = [db EXCEPT ![p].datlen = DatLen[call[p].data]]
  /\ Goto(p, CASE pc[p] = "datappend" -> "datunlock"
               [] pc[p] = "datwrite"  -> "idxwrite"
               [] OTHER               -> "unlock")
  /\ ret' = IF pc[p] = "overwrite" THEN [ret EXCEPT ![p] = OK] ELSE ret
  /\ UNCHANGED <<ptr, rec, idxend, locks, call, scan, calls>>

DatUnlock(p) ==
  /\ pc[p] = "datunlock"
  /\ un_lock(p, DatFile)
  /\ Goto(p, "idxlock")
  /\ UNCHANGED <<files, call, ret, db, scan, calls>>

(* _db_writeidx: append under a lock on the record area, or overwrite      *)
IdxLock(p) ==
  /\ pc[p] = "idxlock"
  /\ writew_lock(p, IdxTail)
  /\ Goto(p, "idxseek")
  /\ UNCHANGED <<files, call, ret, db, scan, calls>>

IdxSeekEnd(p) ==
  /\ pc[p] = "idxseek"
  /\ db' = [db EXCEPT ![p].idxoff = idxend]
  /\ Goto(p, "idxappend")
  /\ UNCHANGED <<files, locks, call, ret, scan, calls>>

IdxWrite(p) ==
  LET o == db[p].idxoff
  IN /\ pc[p] \in {"idxappend", "idxwrite"}
     /\ rec' = Put(rec, o, IndexRecord(call[p].key, db[p].datoff, db[p].datlen))
     /\ ptr' = Put(ptr, o, db[p].front)
     /\ idxend' = IF o = idxend THEN idxend + 1 ELSE idxend
     /\ Goto(p, IF pc[p] = "idxappend" THEN "idxunlock" ELSE "link")
     /\ UNCHANGED <<dat, datend, locks, call, ret, db, scan, calls>>

IdxUnlock(p) ==
  /\ pc[p] = "idxunlock"
  /\ un_lock(p, IdxTail)
  /\ Goto(p, "link")
  /\ UNCHANGED <<files, call, ret, db, scan, calls>>

(* The new record goes to the front of its chain                           *)
Link(p) ==
  /\ pc[p] = "link"
  /\ ptr' = [ptr EXCEPT ![ChainOff(p)] = db[p].idxoff]
  /\ ret' = [ret EXCEPT ![p] = OK]
  /\ Goto(p, "unlock")
  /\ UNCHANGED <<rec, dat, idxend, datend, locks, call, db, scan, calls>>

-----------------------------------------------------------------------------
(* db_rewind and db_nextrec                                                *)

Rewind(p) ==
  /\ p \in Scanners /\ pc[p] = "idle" /\ calls[p] < MaxCalls
  /\ scan' = [scan EXCEPT ![p] = NoScan]
  /\ calls' = [calls EXCEPT ![p] = @ + 1]
  /\ Goto(p, "scan")
  /\ UNCHANGED <<files, locks, call, ret, db>>

\* Mutant: db_nextrec does not lock the free list
NextLockNone(p) ==
  /\ pc[p] = "scan"
  /\ Goto(p, "nextread")
  /\ UNCHANGED <<files, locks, call, ret, db, scan, calls>>

NextLock(p) ==
  /\ pc[p] = "scan"
  /\ readw_lock(p, FREE_OFF)
  /\ Goto(p, "nextread")
  /\ UNCHANGED <<files, call, ret, db, scan, calls>>

(* One turn of the do-while loop; blank keys are skipped                   *)
NextRead(p) ==
  LET o == scan[p].pos
  IN /\ pc[p] = "nextread"
     /\ IF o = idxend
        THEN scan' = [scan EXCEPT ![p].key = Blank] /\ Goto(p, "nextunlock")
        ELSE /\ scan' = [scan EXCEPT ![p].pos = o + 1, ![p].idxoff = o,
                                     ![p].datoff = rec[o].datoff,
                                     ![p].key = rec[o].key]
             /\ Goto(p, IF rec[o].key = Blank THEN "nextread" ELSE "nextdat")
     /\ UNCHANGED <<files, locks, call, ret, db, calls>>

NextDat(p) ==
  /\ pc[p] = "nextdat"
  /\ scan' = [scan EXCEPT ![p].data = dat[scan[p].datoff]]
  /\ Goto(p, "nextunlock")
  /\ UNCHANGED <<files, locks, call, ret, db, calls>>

(* NULL at the end of the file ends the scan                               *)
NextUnlock(p) ==
  /\ pc[p] = "nextunlock"
  /\ un_lock(p, FREE_OFF)
  /\ Goto(p, IF scan[p].key = Blank THEN "idle" ELSE "scan")
  /\ UNCHANGED <<files, call, ret, db, scan, calls>>

-----------------------------------------------------------------------------

(* Between the first and the last write of _db_dodelete: the record's data *)
(* is blank, and the record is still on its chain, or about to leave it.   *)
Midway == {"delfree", "delidx", "delhead", "delunlink"}

(* The data record of a deleted or replaced record is blanked, and the     *)
(* call is not through yet.                                                *)
DeletePcs == Midway \cup {"delunlock"}
AppendPcs == {"refront", "datlock", "datseek", "datappend", "datunlock",
              "idxlock", "idxseek", "idxappend", "idxunlock", "link"}
TookEffect(p) == pc[p] \in DeletePcs \/ (db[p].rep /\ pc[p] \in AppendPcs)

(* A process is killed: the kernel closes its files and drops its locks.   *)
(* ~CrashMidway leaves out the deaths inside a deletion and no others; a   *)
(* replacement may die after its deletion, before it links the new record. *)
Crash(p) ==
  /\ p \in Crashers /\ pc[p] # "dead"
  /\ CrashMidway \/ pc[p] \notin Midway
  /\ Goto(p, "dead")
  /\ writer' = [r \in Ranges |-> IF writer[r] = p THEN NoProc ELSE writer[r]]
  /\ readers' = [r \in Ranges |-> readers[r] \ {p}]
  /\ ret' = [ret EXCEPT ![p] = None]
  /\ UNCHANGED <<files, call, db, scan, calls>>

Find(p) == LockChain(p) \/ ReadHead(p) \/ Walk(p) \/ ReadDat(p) \/ UnlockChain(p)
Delete(p) == \/ DelLock(p) \/ DelBlankData(p) \/ DelReadFree(p) \/ DelWriteIdx(p)
             \/ DelWriteFree(p) \/ DelUnlink(p) \/ DelUnlock(p)
FindFree(p) == \/ FreeLock(p) \/ FreeHead(p) \/ FreeWalk(p)
               \/ FreeUnlink(p) \/ FreeUnlock(p)
Write(p) == \/ ReadFront(p) \/ DatLock(p) \/ DatSeekEnd(p) \/ DatWrite(p)
            \/ DatUnlock(p) \/ IdxLock(p) \/ IdxSeekEnd(p) \/ IdxWrite(p)
            \/ IdxUnlock(p) \/ Link(p)
Nextrec(p) == NextLock(p) \/ NextRead(p) \/ NextDat(p) \/ NextUnlock(p)

(* The steps of the library, as opposed to its callers' decisions          *)
Step(p) == Find(p) \/ Delete(p) \/ FindFree(p) \/ Write(p) \/ Nextrec(p)

(* All calls allowed by MaxCalls are over                                  *)
Finished == /\ \A p \in Procs : \/ pc[p] = "dead"
                                \/ pc[p] = "idle" /\ calls[p] = MaxCalls
            /\ UNCHANGED vars

Next == (\E p \in Procs : Begin(p) \/ Rewind(p) \/ Step(p) \/ Crash(p)) \/ Finished

Spec == Init /\ [][Next]_vars

(* Every process keeps running: it is never descheduled for ever, and a    *)
(* waiting lock request that stays grantable is granted.                   *)
FairSpec == Spec /\ \A p \in Procs : WF_vars(Step(p))
=============================================================================
