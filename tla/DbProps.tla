------------------------------ MODULE DbProps ------------------------------
(***************************************************************************)
(* What makes the database library correct: the shape of its lists, who    *)
(* may change them, and that it implements DbStore.                        *)
(***************************************************************************)
EXTENDS Db

-----------------------------------------------------------------------------
(* Reading the lists of the index file                                     *)

(* Processes between the two writes that take a record out of its chain    *)
Unlinking == {p \in Procs : pc[p] \in {"delhead", "delunlink"}}

(* The list pointers as the owners of the lists mean them: the chain of a  *)
(* record being unlinked already runs past it, although the write to the   *)
(* pointer before it comes last.                                           *)
After ==
  [o \in DOMAIN ptr |->
     IF \E p \in Unlinking : db[p].ptroff = o
     THEN db[CHOOSE p \in Unlinking : db[p].ptroff = o].save
     ELSE ptr[o]]

(* The records reached from o in the least set that next does not leave;   *)
(* R are the records, 0 ends a list.                                       *)
Closed(next, S, o) == next[o] \in S \cup {0} /\ \A x \in S : next[x] \in S \cup {0}
Reach(next, R, o) == {x \in R : \A S \in SUBSET R : Closed(next, S, o) => x \in S}

List(h) == Reach(After, DOMAIN rec, h)
FreeList == List(FREE_OFF)
Chain(h) == List(h)

(* Records that are on no list because a call is moving them               *)
InHand == {db[p].idxoff : p \in {q \in Procs :
             \/ pc[q] \in {"datwrite", "idxwrite", "idxunlock", "link", "delhead"}
             \/ pc[q] = "ffunlock" /\ db[q].off # 0}}

-----------------------------------------------------------------------------

(* Every index record is on exactly one hash chain or on the free list, or *)
(* held by the one call that is moving it: no record is shared by two      *)
(* lists, although _db_dodelete rewrites three pointers one write at a     *)
(* time and _db_findfree another, and a process that dies loses at most    *)
(* the record it was moving.                                               *)
ListsPartition ==
  LET places(o) == Cardinality({h \in Chains : o \in Chain(h)})
                     + (IF o \in FreeList THEN 1 ELSE 0)
                     + (IF o \in InHand THEN 1 ELSE 0)
      lost == {o \in DOMAIN rec : places(o) = 0}
  IN /\ \A o \in DOMAIN rec : places(o) <= 1
     /\ Cardinality(lost) <= Cardinality({p \in Procs : pc[p] = "dead"})

(* A chain holds only live records, each with a key that hashes to it, and *)
(* no key twice; the free list holds only blank ones.  db_store's search   *)
(* and its insertion are separate steps, so two processes storing the same *)
(* new key must not both find it missing.                                  *)
KeysPlaced ==
  /\ \A h \in Chains : \A o \in Chain(h) :
       /\ rec[o].key # Blank /\ Hash[rec[o].key] = h
       /\ \A n \in Chain(h) : rec[n].key = rec[o].key => n = o
  /\ \A o \in FreeList : rec[o].key = Blank

(* No two index records, and no record and an append in progress, refer to *)
(* the same data record: lseek to the end and write are two system calls.  *)
DataOwned ==
  /\ \A o, n \in DOMAIN rec : rec[o].datoff = rec[n].datoff => o = n
  /\ \A p \in Procs :
       pc[p] \in {"datunlock", "idxlock", "idxseek", "idxappend"}
         => \A o \in DOMAIN rec : rec[o].datoff # db[p].datoff

(* db_nextrec, db.c:842: "We read lock the free list so that we don't read *)
(* a record in the middle of its being deleted": between reading the key   *)
(* and reading the data the record stays that key's, with its data.        *)
NextIntact ==
  \A p \in Procs : pc[p] = "nextdat" =>
    /\ rec[scan[p].idxoff].key = scan[p].key
    /\ rec[scan[p].idxoff].datoff = scan[p].datoff
    /\ dat[scan[p].datoff] # Blank

(* The keys of a chain and their data change only in a step of the process *)
(* that write locks the chain; db_fetch's readers see a chain at rest.     *)
ChainImage(h) == {<<rec[o].key, dat[rec[o].datoff]>> : o \in Chain(h)}
ChainChangedByOwner ==
  [][\A h \in Chains : ChainImage(h)' # ChainImage(h)
       => readers[h] = {} /\ writer[h] # NoProc /\ pc'[writer[h]] # pc[writer[h]]]_vars

-----------------------------------------------------------------------------
(* Waiting for locks                                                       *)

(* The range whose lock a process asks for next, and whether it must wait  *)
Wants(p) == CASE pc[p] = "lock"                -> ChainOff(p)
              [] pc[p] \in {"dellock", "fflock", "scan"} -> FREE_OFF
              [] pc[p] = "datlock"             -> DatFile
              [] pc[p] = "idxlock"             -> IdxTail
              [] OTHER                         -> -1

Waits(p) ==
  /\ pc[p] \in {"lock", "dellock", "fflock", "scan", "datlock", "idxlock"}
  /\ IF pc[p] = "scan" \/ call[p].op = "fetch"
     THEN ~CanRead(p, Wants(p))
     ELSE ~CanWrite(p, Wants(p))

Active(p) == pc[p] \notin {"idle", "dead"}

(* Whatever calls are in progress, one of them is not waiting for a lock:  *)
(* F_SETLKW never answers EDEADLK, which the library would take for a      *)
(* fatal error.                                                            *)
NoLockCycle ==
  (\E p \in Procs : Active(p)) => \E p \in Procs : Active(p) /\ ~Waits(p)

(* The parts of the index and data files two calls must not use at once:   *)
(* the chain of a writer, the free list, the append points.                *)
InFree(p)   == pc[p] \in {"delblank", "delfree", "delidx", "delhead", "delunlink",
                          "delunlock", "ffhead", "ffwalk", "ffunlink", "ffunlock"}
InAppend(p) == pc[p] \in {"datseek", "datappend", "datunlock",
                          "idxseek", "idxappend", "idxunlock"}
InNext(p)   == pc[p] \in {"nextread", "nextdat", "nextunlock"}
OutsideChain == {"idle", "dead", "lock", "scan", "nextread", "nextdat", "nextunlock"}
InChain(p)  == pc[p] \notin OutsideChain

(* The lock every process in a critical section holds keeps the others out *)
Exclusion ==
  \A p, q \in Procs : p # q =>
    /\ InFree(p) => ~InFree(q) /\ ~InNext(q)
    /\ InChain(p) /\ InChain(q) /\ ChainOff(p) = ChainOff(q)
         => call[p].op = "fetch" /\ call[q].op = "fetch"
    /\ pc[p] \in {"datseek", "datappend"} => pc[q] \notin {"datseek", "datappend"}
    /\ pc[p] \in {"idxseek", "idxappend"} => pc[q] \notin {"idxseek", "idxappend"}

-----------------------------------------------------------------------------
(* The abstract map.  A delete, and the delete half of a replacement with  *)
(* data of another length, take effect when the old data is blanked: the   *)
(* chain is write locked until the rest is done.  The new data of such a   *)
(* replacement counts when its record is linked.                           *)

Lookup(k) ==
  IF /\ \A p \in Procs : TookEffect(p) => call[p].key # k
     /\ \E o \in Chain(Hash[k]) : rec[o].key = k
  THEN dat[rec[CHOOSE o \in Chain(Hash[k]) : rec[o].key = k].datoff]
  ELSE Blank

(* A replacement that has removed the old data, a deletion that has        *)
Replacing(p) == TookEffect(p) /\ db[p].rep
Deleted(p)   == TookEffect(p) /\ ~db[p].rep

PhaseOf(p) == IF pc[p] \in {"idle", "scan"} \/ InNext(p) THEN "idle"
              ELSE IF pc[p] = "dead" THEN "dead"
              ELSE IF Replacing(p) THEN "storing"
              ELSE IF Deleted(p) \/ pc[p] = "unlock" THEN "returning" ELSE "called"
RetOf(p) == IF Deleted(p) THEN OK ELSE ret[p]

TheStore == [k \in Keys |-> Lookup(k)]
Phases == [p \in Procs |-> PhaseOf(p)]
Rets == [p \in Procs |-> RetOf(p)]

(* One step of DbStore per call, whatever the interleaving                 *)
Abs == INSTANCE DbStore WITH store <- TheStore, phase <- Phases, ret <- Rets

ImplementsStore == Abs!Spec

(* Every call returns, whatever the others do                              *)
CallsReturn == \A p \in Procs : pc[p] = "lock" ~> pc[p] \in {"idle", "dead"}
=============================================================================
