--------------------------- MODULE DbListProofs ----------------------------
(***************************************************************************)
(* The lists of the index file, proved for any number of processes, keys,  *)
(* chains and records, as long as no process dies while it takes a record  *)
(* out of its chain: every record is on the one list where its key belongs *)
(* or in the hands of the call that moves it, and nobody else touches it   *)
(* there.  From this, the library implements its abstract specification:   *)
(* every call takes effect in one step between its call and its return.    *)
(***************************************************************************)
EXTENDS DbProofs, FiniteSetTheorems, FunctionTheorems

-----------------------------------------------------------------------------
(* What is reached through a pointer function, for any such function       *)

LEMMA ReachClosed ==
  ASSUME NEW R, NEW f, NEW a, f[a] \in R \cup {0}, \A x \in R : f[x] \in R \cup {0}
  PROVE  Reach(f, R, a) \subseteq R /\ Closed(f, Reach(f, R, a), a)
  <1>1. Reach(f, R, a) \subseteq R
    BY DEF Reach
  <1>2. \A S \in SUBSET R : Closed(f, S, a) => f[a] \in S \cup {0}
    BY DEF Closed
  <1>3. f[a] \in Reach(f, R, a) \cup {0}
    BY <1>2 DEF Reach
  <1>4. ASSUME NEW x \in Reach(f, R, a) PROVE f[x] \in Reach(f, R, a) \cup {0}
    <2>1. x \in R /\ f[x] \in R \cup {0}
      BY <1>1
    <2>2. \A S \in SUBSET R : Closed(f, S, a) => x \in S
      BY DEF Reach
    <2>3. \A S \in SUBSET R : Closed(f, S, a) => f[x] \in S \cup {0}
      BY <2>2 DEF Closed
    <2>4. QED
      BY <2>1, <2>3 DEF Reach
  <1>5. QED
    BY <1>1, <1>3, <1>4 DEF Closed

LEMMA ReachLeast ==
  ASSUME NEW R, NEW f, NEW a, NEW S \in SUBSET R, Closed(f, S, a)
  PROVE  Reach(f, R, a) \subseteq S
  BY DEF Reach

(* Changing pointers that are not followed, and adding records, changes    *)
(* nothing                                                                 *)
LEMMA ReachSame ==
  ASSUME NEW R, NEW f, NEW T, NEW g, NEW a, R \subseteq T,
         f[a] \in R \cup {0}, \A x \in R : f[x] \in R \cup {0},
         g[a] = f[a], \A x \in Reach(f, R, a) : g[x] = f[x]
  PROVE  Reach(g, T, a) = Reach(f, R, a)
  <1> DEFINE Q == Reach(f, R, a)
  <1>1. Q \subseteq R /\ Closed(f, Q, a)
    BY ReachClosed
  <1> HIDE DEF Q
  <1>2. Closed(g, Q, a) /\ Q \in SUBSET T
    BY <1>1 DEF Closed, Q
  <1>3. Reach(g, T, a) \subseteq Q
    BY <1>2, ReachLeast
  <1>4. ASSUME NEW S \in SUBSET T, Closed(g, S, a) PROVE Q \subseteq S
    <2>1. Closed(f, S \cap Q, a)
      BY <1>1, <1>4 DEF Closed, Q
    <2>2. S \cap Q \in SUBSET R
      BY <1>1
    <2>3. QED
      BY <2>1, <2>2, ReachLeast DEF Q
  <1>5. Q \subseteq Reach(g, T, a)
    BY <1>1, <1>4 DEF Reach
  <1>6. QED
    BY <1>3, <1>5 DEF Q

(* A list is empty, or its first record and what is reached from there     *)
LEMMA ReachUnfold ==
  ASSUME NEW R, NEW f, NEW a, f[a] \in R \cup {0}, \A x \in R : f[x] \in R \cup {0}
  PROVE  /\ f[a] = 0 => Reach(f, R, a) = {}
         /\ f[a] # 0 => Reach(f, R, a) = {f[a]} \cup Reach(f, R, f[a])
  <1>1. ASSUME f[a] = 0 PROVE Reach(f, R, a) = {}
    <2>1. Closed(f, {}, a) /\ {} \in SUBSET R
      BY <1>1 DEF Closed
    <2>2. QED
      BY <2>1, ReachLeast
  <1>2. ASSUME f[a] # 0 PROVE Reach(f, R, a) = {f[a]} \cup Reach(f, R, f[a])
    <2> DEFINE b == f[a]
               Q == Reach(f, R, a)
               P == Reach(f, R, b)
    <2>1. b \in R
      BY <1>2
    <2>2. Q \subseteq R /\ Closed(f, Q, a) /\ P \subseteq R /\ Closed(f, P, b)
      BY <2>1, ReachClosed
    <2> HIDE DEF Q, P
    <2>3. Q \subseteq {b} \cup P
      <3>1. Closed(f, {b} \cup P, a)
        BY <2>2 DEF Closed
      <3>2. QED
        BY <2>1, <2>2, <3>1, ReachLeast DEF Q
    <2>4. b \in Q
      BY <1>2, <2>2 DEF Closed
    <2>5. P \subseteq Q
      <3>1. Closed(f, Q, b)
        BY <2>2, <2>4 DEF Closed
      <3>2. QED
        BY <2>2, <3>1, ReachLeast DEF P
    <2>6. QED
      BY <2>3, <2>4, <2>5 DEF Q, P
  <1>3. QED
    BY <1>1, <1>2

(* Taking the record o behind u out of the list, wherever o points then    *)
LEMMA ReachUnlink ==
  ASSUME NEW R, NEW f, NEW g, NEW a, NEW u, NEW o \in R,
         f[a] \in R \cup {0}, \A x \in R : f[x] \in R \cup {0}, 0 \notin R, a \notin R,
         u \in {a} \cup Reach(f, R, a), f[u] = o, g[u] = f[o],
         g[a] \in R \cup {0}, \A x \in R : g[x] \in R \cup {0},
         \A x \in {a} \cup R : x # u /\ x # o => g[x] = f[x],
         \A x, y \in {a} \cup Reach(f, R, a) : f[x] = f[y] /\ f[x] # 0 => x = y,
         o # u
  PROVE  Reach(g, R, a) = Reach(f, R, a) \ {o}
  <1> DEFINE Q == Reach(f, R, a)
  <1>1. Q \subseteq R /\ Closed(f, Q, a)
    BY ReachClosed
  <1>2. \A x, y \in {a} \cup Q : f[x] = f[y] /\ f[x] # 0 => x = y
    OBVIOUS
  <1>3. u \in {a} \cup Q
    OBVIOUS
  <1> HIDE DEF Q
  <1>4. o \in Q /\ f[o] # o
    BY <1>1, <1>2, <1>3 DEF Closed
  <1>5. ASSUME NEW x \in {a} \cup Q, x # o PROVE g[x] \in (Q \ {o}) \cup {0}
    <2>1. CASE x = u
      BY <1>1, <1>4, <2>1 DEF Closed
    <2>2. CASE x # u
      <3>1. g[x] = f[x] /\ f[x] \in Q \cup {0}
        BY <1>1, <1>5, <2>2 DEF Closed
      <3>2. f[x] # o
        BY <1>2, <1>3, <1>5, <2>2
      <3>3. QED
        BY <3>1, <3>2
    <2>3. QED
      BY <2>1, <2>2
  <1>6. Reach(g, R, a) \subseteq Q \ {o}
    <2>1. Closed(g, Q \ {o}, a)
      BY <1>1, <1>5 DEF Closed
    <2>2. QED
      BY <1>1, <2>1, ReachLeast
  <1>7. ASSUME NEW S \in SUBSET R, Closed(g, S, a) PROVE Q \ {o} \subseteq S
    <2>1. CASE u \in {a} \cup S
      <3>1. Closed(f, S \cup {o}, a)
        <4>1. ASSUME NEW x \in {a} \cup S \cup {o} PROVE f[x] \in S \cup {o} \cup {0}
          <5>1. CASE x = u \/ x = o
            BY <1>7, <2>1, <5>1 DEF Closed
          <5>2. CASE x # u /\ x # o
            BY <1>7, <5>2 DEF Closed
          <5>3. QED
            BY <5>1, <5>2
        <4>2. QED
          BY <4>1 DEF Closed
      <3>2. QED
        BY <3>1, ReachLeast DEF Q
    <2>2. CASE u \notin {a} \cup S
      <3>1. Closed(f, (S \ {o}) \cap Q, a)
        <4>1. ASSUME NEW x \in {a} \cup ((S \ {o}) \cap Q)
              PROVE  f[x] \in ((S \ {o}) \cap Q) \cup {0}
          <5>1. x # u /\ x # o
            BY <2>2, <1>1
          <5>2. f[x] \in S \cup {0}
            BY <5>1, <1>7, <1>1 DEF Closed
          <5>3. f[x] \in Q \cup {0}
            BY <1>1 DEF Closed
          <5>4. f[x] # o
            BY <1>2, <1>3, <5>1
          <5>5. QED
            BY <5>2, <5>3, <5>4
        <4>2. QED
          BY <4>1 DEF Closed
      <3>2. QED
        BY <3>1, ReachLeast DEF Q
    <2>3. QED
      BY <2>1, <2>2
  <1>8. Q \ {o} \subseteq Reach(g, R, a)
    BY <1>1, <1>7 DEF Reach
  <1>9. QED
    BY <1>6, <1>8 DEF Q

(* Putting the record o, which points to the first record, at the front    *)
LEMMA ReachPush ==
  ASSUME NEW R, NEW f, NEW g, NEW a, NEW o \in R,
         f[a] \in R \cup {0}, \A x \in R : f[x] \in R \cup {0}, 0 \notin R, a \notin R,
         f[o] = f[a], o \notin Reach(f, R, a), g[a] = o,
         \A x \in R : g[x] = f[x]
  PROVE  Reach(g, R, a) = Reach(f, R, a) \cup {o}
  <1> DEFINE Q == Reach(f, R, a)
  <1>1. Q \subseteq R /\ Closed(f, Q, a)
    BY ReachClosed
  <1> HIDE DEF Q
  <1>2. Closed(g, Q \cup {o}, a)
    BY <1>1 DEF Closed
  <1>3. Reach(g, R, a) \subseteq Q \cup {o}
    BY <1>1, <1>2, ReachLeast
  <1>4. ASSUME NEW S \in SUBSET R, Closed(g, S, a) PROVE Q \cup {o} \subseteq S
    <2>1. o \in S
      BY <1>4 DEF Closed
    <2>2. Closed(f, S \cap Q, a)
      BY <1>1, <1>4, <2>1 DEF Closed
    <2>3. QED
      BY <2>1, <2>2, ReachLeast DEF Q
  <1>5. QED
    BY <1>1, <1>3, <1>4 DEF Reach, Q

-----------------------------------------------------------------------------
(* The invariant                                                           *)

(* The list a record belongs to                                            *)
Home(x) == IF x \in Heads THEN x
           ELSE IF rec[x].key = Blank THEN FREE_OFF ELSE Hash[rec[x].key]
OnList(x) == x \in Heads \/ x \in List(Home(x))

Wrote(p) == Appended(p) \/ pc[p] \in {"idxwrite", "idxunlock", "link"}

Moving(p) ==
  \/ pc[p] \in {"datwrite", "idxwrite", "idxunlock", "link", "delhead"}
  \/ pc[p] = "ffunlock" /\ db[p].off # 0

(* Every list holds the records that belong there, no pointer of a list is *)
(* to a record another one points to, and no live key is there twice.      *)
ListsOK ==
  /\ \A h \in Heads : \A o \in List(h) : Home(o) = h
  /\ \A x, y \in Heads \cup Records :
       OnList(x) /\ OnList(y) /\ After[x] = After[y] /\ After[x] # 0 => x = y
  /\ \A o, n \in Records :
       OnList(o) /\ OnList(n) /\ rec[o].key = rec[n].key /\ rec[o].key # Blank => o = n

(* A record is on its list, or one process moves it, or one died doing so. *)
HandsOK ==
  /\ \A o \in Records : \/ OnList(o)
                        \/ \E p \in Procs : Moving(p) /\ db[p].idxoff = o
                        \/ \E p \in Procs : pc[p] = "dead" /\ db[p].idxoff = o
  /\ \A p \in Procs : Moving(p) => db[p].idxoff \in Records /\ ~OnList(db[p].idxoff)
  /\ \A p, q \in Procs : p # q /\ Moving(p) /\ Moving(q) => db[p].idxoff # db[q].idxoff

(* A live record has its data, unless it is just being deleted.            *)
LiveData ==
  \A o \in Records : rec[o].key # Blank =>
    \/ dat[rec[o].datoff] # Blank
    \/ \E p \in Procs : pc[p] \in {"delfree", "delidx"} /\ db[p].idxoff = o

(* Positions that know that the key of the call is not in the database,    *)
(* and those that also know the front of its chain                         *)
FrontPcs ==
  {"fflock", "ffhead", "ffwalk", "ffunlink", "ffunlock", "datlock", "datseek",
   "datappend", "datwrite", "datunlock", "idxlock", "idxseek", "idxappend",
   "idxwrite", "idxunlock", "link"}
MissingPcs == FrontPcs \cup {"delhead", "delunlink", "delunlock", "front", "refront"}

(* What a call knows of the chain it has locked ...                        *)
ChainKnown(p) ==
  LET h == ChainOff(p)
      d == db[p]
  IN
  /\ pc[p] \in {"lock", "head"} => d.ptroff = h
  /\ pc[p] = "walk" =>
       /\ d.off \in List(h)
       /\ \A o \in List(h) : rec[o].key = call[p].key =>
            o = d.off \/ o \in Reach(After, Records, d.off)
  /\ pc[p] \in {"readdat", "dellock", "delblank", "delfree", "delidx", "overwrite"} =>
       d.idxoff \in List(h) /\ rec[d.idxoff].key = call[p].key
  /\ pc[p] \in {"walk", "readdat", "dellock", "delblank", "delfree", "delidx",
                "overwrite", "delhead", "delunlink"} =>
       d.ptroff \in {h} \cup List(h)
  /\ pc[p] = "walk" => After[d.ptroff] = d.off
  /\ pc[p] \in {"readdat", "dellock", "delblank", "delfree", "delidx", "overwrite"} =>
       After[d.ptroff] = d.idxoff /\ d.ptrval = After[d.idxoff]
  /\ pc[p] = "delidx" => d.save = After[d.idxoff]
  /\ pc[p] \in MissingPcs => \A o \in List(h) : rec[o].key # call[p].key
  /\ pc[p] \in FrontPcs => d.front = After[h]

(* ... of the free list ...                                                *)
FreeKnown(p) ==
  LET d == db[p]
  IN
  /\ pc[p] \in {"ffwalk", "ffunlink"} =>
       /\ d.off \in List(FREE_OFF)
       /\ d.save \in {FREE_OFF} \cup List(FREE_OFF) /\ After[d.save] = d.off
  /\ pc[p] = "ffunlink" => d.idxoff = d.off /\ d.ptrval = After[d.off]
  /\ pc[p] = "delidx" => d.front = After[FREE_OFF]
  /\ pc[p] = "delhead" => After[d.idxoff] = After[FREE_OFF]
  /\ pc[p] = "nextdat" => rec[scan[p].idxoff].key = scan[p].key /\ scan[p].key # Blank

(* ... and of the record and the data it has in hand                       *)
HandKnown(p) ==
  LET d == db[p]
  IN
  /\ pc[p] \in {"delhead", "datwrite", "idxwrite"} => rec[d.idxoff].key = Blank
  /\ pc[p] = "ffunlock" /\ d.off # 0 => rec[d.idxoff].key = Blank
  /\ pc[p] \in {"idxunlock", "link"} =>
       /\ rec[d.idxoff].key = call[p].key /\ After[d.idxoff] = d.front
       /\ rec[d.idxoff].datoff = d.datoff
  /\ Wrote(p) => dat[d.datoff] = call[p].data

Known(p) == ChainKnown(p) /\ FreeKnown(p) /\ HandKnown(p)

ListInv == ListsOK /\ HandsOK /\ LiveData /\ \A p \in Procs : Known(p)

-----------------------------------------------------------------------------
(* The pointers and the lists, in any state                                *)

(* Only one process at a time takes a record out of a chain.               *)
LEMMA OneUnlinks ==
  ASSUME IInv, NEW p \in Unlinking
  PROVE  Unlinking = {p}
  BY LocksExclude DEF Exclusion, Unlinking, InFree

LEMMA AfterIs ==
  ASSUME IInv, FileInv, NEW x \in Heads \cup Records
  PROVE  /\ \A p \in Unlinking : After[x] = IF x = db[p].ptroff THEN db[p].save ELSE ptr[x]
         /\ Unlinking = {} => After[x] = ptr[x]
  <1>1. x \in DOMAIN ptr
    BY DEF FileInv, FilesTypeOK
  <1>2. ASSUME NEW p \in Unlinking
        PROVE  After[x] = IF x = db[p].ptroff THEN db[p].save ELSE ptr[x]
    <2>1. Unlinking = {p}
      BY OneUnlinks
    <2>2. CASE x = db[p].ptroff
      BY <1>1, <2>1, <2>2 DEF After
    <2>3. CASE x # db[p].ptroff
      BY <1>1, <2>1, <2>3 DEF After
    <2>4. QED
      BY <2>2, <2>3
  <1>3. QED
    BY <1>1, <1>2 DEF After

LEMMA AfterType ==
  ASSUME IInv, FileInv
  PROVE  /\ DOMAIN After = Heads \cup Records
         /\ \A x \in Heads \cup Records : After[x] \in Records \cup {0}
         /\ 0 \notin Records /\ FREE_OFF \in Heads
         /\ \A h \in Heads : h \notin Records
         /\ \A p \in Procs : InChain(p) \/ pc[p] = "lock" =>
              call[p] \in Calls /\ ChainOff(p) \in Heads /\ ChainOff(p) # FREE_OFF
  <1>1. FilesTypeOK /\ db \in [Procs -> Handles]
    BY DEF FileInv
  <1>2. \A p \in Unlinking : db[p].save \in Records \cup {0}
    BY <1>1 DEF Unlinking, Handles
  <1>3. ASSUME NEW x \in Heads \cup Records PROVE After[x] \in Records \cup {0}
    <2>1. ptr[x] \in Records \cup {0}
      BY <1>1 DEF FilesTypeOK
    <2>2. QED
      BY <1>2, <2>1, AfterIs
  <1>4. DOMAIN After = Heads \cup Records
    BY <1>1 DEF FilesTypeOK, After
  <1>5. \A h \in Heads : h \notin Records
    BY <1>1, RecordFacts
  <1>6. 0 \in Heads
    BY NHashAssumption DEF Heads
  <1>7. \A p \in Procs : InChain(p) \/ pc[p] = "lock" =>
              call[p] \in Calls /\ ChainOff(p) \in Heads /\ ChainOff(p) # FREE_OFF
    BY ChainInRange DEF IInv, LocksTypeOK, Chains, Heads, ChainOff, FREE_OFF
  <1>8. QED
    BY <1>3, <1>4, <1>5, <1>6, <1>7 DEF FREE_OFF

PointersTyped == \A x \in Heads \cup Records : After[x] \in Records \cup {0}

LEMMA PointersTypedNext == IInv' /\ FileInv' => PointersTyped'
  <1>1. IInv /\ FileInv => PointersTyped
    BY AfterType DEF PointersTyped
  <1>2. QED
    BY <1>1, PTL

LEMMA ListFacts ==
  ASSUME IInv, FileInv, NEW h \in Heads
  PROVE  List(h) \subseteq Records /\ Closed(After, List(h), h)
  <1>1. After[h] \in Records \cup {0} /\ \A x \in Records : After[x] \in Records \cup {0}
    BY AfterType
  <1>2. QED
    BY <1>1, ReachClosed DEF List, Records

(* A list nobody writes to stays as it is                                  *)
Untouched(h) ==
  /\ \A x \in {h} \cup List(h) : After'[x] = After[x]
  /\ \A x \in List(h) : rec'[x].key = rec[x].key

LEMMA UntouchedList ==
  ASSUME IInv, FileInv, Records \subseteq Records', NEW h \in Heads, Untouched(h)
  PROVE  /\ List(h)' = List(h)
         /\ \A x \in List(h) : Reach(After, Records, x)' = Reach(After, Records, x)
  <1>1. After[h] \in Records \cup {0} /\ \A x \in Records : After[x] \in Records \cup {0}
    BY AfterType
  <1>2. Reach(After', Records', h) = Reach(After, Records, h)
    BY <1>1, ReachSame DEF Untouched, List, Records
  <1>3. ASSUME NEW x \in List(h) PROVE Reach(After', Records', x) = Reach(After, Records, x)
    <2>1. x \in Records /\ List(h) \subseteq Records /\ Closed(After, List(h), h)
      BY ListFacts
    <2>2. Closed(After, List(h), x)
      BY <2>1 DEF Closed
    <2>3. Reach(After, Records, x) \subseteq List(h)
      BY <2>1, <2>2, ReachLeast
    <2>4. QED
      BY <1>1, <2>1, <2>3, ReachSame DEF Untouched
  <1>4. QED
    BY <1>2, <1>3 DEF List, Records

LEMMA HomeFacts ==
  ASSUME IInv, FileInv, ListsOK
  PROVE  /\ \A x \in Heads \cup Records : Home(x) \in Heads
         /\ \A h \in Heads : \A x \in List(h) : x \in Records /\ Home(x) = h /\ OnList(x)
         /\ \A h \in Heads : Home(h) = h /\ OnList(h)
         /\ \A x \in Heads \cup Records : OnList(x) /\ After[x] # 0 =>
              After[x] \in List(Home(x)) /\ After[x] \in Records
              /\ Home(After[x]) = Home(x) /\ OnList(After[x])
  <1>1. ASSUME NEW x \in Heads \cup Records PROVE Home(x) \in Heads
    <2>1. CASE x \in Heads
      BY <2>1 DEF Home
    <2>2. CASE x \in Records /\ x \notin Heads
      <3>1. rec[x].key \in Keys \cup {Blank}
        BY <2>2, RecordFacts DEF FileInv
      <3>2. FREE_OFF \in Heads /\ \A k \in Keys : Hash[k] \in Heads
        BY AfterType, HashAssumption DEF Chains, Heads
      <3>3. QED
        BY <2>2, <3>1, <3>2 DEF Home
    <2>3. QED
      BY <2>1, <2>2
  <1>2. \A h \in Heads : \A x \in List(h) : x \in Records /\ Home(x) = h /\ OnList(x)
    BY ListFacts DEF ListsOK, OnList
  <1>3. \A h \in Heads : Home(h) = h /\ OnList(h)
    BY DEF Home, OnList
  <1>4. ASSUME NEW x \in Heads \cup Records, OnList(x), After[x] # 0
        PROVE  After[x] \in List(Home(x))
    <2>1. Home(x) \in Heads /\ Closed(After, List(Home(x)), Home(x))
      BY <1>1, ListFacts
    <2>2. x = Home(x) \/ x \in List(Home(x))
      BY <1>3, <1>4 DEF OnList
    <2>3. QED
      BY <1>4, <2>1, <2>2 DEF Closed
  <1>5. QED
    BY <1>1, <1>2, <1>3, <1>4

-----------------------------------------------------------------------------
(* What a step does to the lists                                           *)

(* A step may write or append a record o that is on no list.               *)
LEMMA AsideLists ==
  ASSUME IInv, FileInv, ListsOK, IInv', FileInv',
         NEW o, o \notin Heads, \A h \in Heads : o \notin List(h),
         Records \subseteq Records', Records' \subseteq Records \cup {o},
         \A x \in Heads \cup Records : x # o => After'[x] = After[x],
         \A x \in Records : x # o => rec'[x].key = rec[x].key
  PROVE  /\ ListsOK'
         /\ \A h \in Heads : List(h)' = List(h) /\ Untouched(h)
         /\ \A x \in Heads \cup Records : x # o => Home(x)' = Home(x) /\ OnList(x)' = OnList(x)
         /\ ~OnList(o)'
  <1>1. \A h \in Heads : Untouched(h)
    BY HomeFacts DEF Untouched
  <1>2. \A h \in Heads : List(h)' = List(h)
    BY <1>1, UntouchedList
  <1>3. Heads' = Heads
    BY DEF Heads
  <1>4. \A x \in Heads \cup Records : x # o => Home(x)' = Home(x)
    BY <1>3 DEF Home
  <1>5. \A x \in Heads \cup Records : x # o => OnList(x)' = OnList(x)
    BY <1>2, <1>3, <1>4, HomeFacts DEF OnList
  <1>6. ~OnList(o)'
    <2>1. CASE o \in Records'
      <3>1. Home(o)' \in Heads
        <4>1. rec'[o].key \in Keys \cup {Blank}
          BY <2>1 DEF FileInv, FilesTypeOK
        <4>2. FREE_OFF \in Heads /\ \A k \in Keys : Hash[k] \in Heads
          BY AfterType, HashAssumption DEF Chains, Heads
        <4>3. QED
          BY <1>3, <4>1, <4>2 DEF Home
      <3>2. QED
        BY <1>2, <1>3, <3>1 DEF OnList
    <2>2. CASE o \notin Records'
      BY <1>3, <2>2 DEF OnList, List, Reach, Records
    <2>3. QED
      BY <2>1, <2>2
  <1>7. ListsOK'
    <2>1. \A h \in Heads : \A x \in List(h)' : Home(x)' = h
      BY <1>2, <1>4, HomeFacts
    <2>2. ASSUME NEW x \in Heads \cup Records', NEW y \in Heads \cup Records',
                 OnList(x)', OnList(y)', After'[x] = After'[y], After'[x] # 0
          PROVE  x = y
      <3>1. x # o /\ y # o
        BY <1>6, <2>2
      <3>2. OnList(x) /\ OnList(y) /\ After'[x] = After[x] /\ After'[y] = After[y]
            /\ x \in Heads \cup Records /\ y \in Heads \cup Records
        BY <1>5, <2>2, <3>1
      <3>3. QED
        BY <2>2, <3>2 DEF ListsOK
    <2>3. ASSUME NEW x \in Records', NEW y \in Records', OnList(x)', OnList(y)',
                 rec'[x].key = rec'[y].key, rec'[x].key # Blank
          PROVE  x = y
      <3>1. x # o /\ y # o
        BY <1>6, <2>3
      <3>2. OnList(x) /\ OnList(y) /\ rec'[x].key = rec[x].key /\ rec'[y].key = rec[y].key
            /\ x \in Records /\ y \in Records
        BY <1>5, <2>3, <3>1
      <3>3. QED
        BY <2>3, <3>2 DEF ListsOK
    <2>4. QED
      BY <1>3, <2>1, <2>2, <2>3 DEF ListsOK
  <1>8. QED
    BY <1>1, <1>2, <1>4, <1>5, <1>6, <1>7

(* A step that takes the record o behind u out of list c, and may write o  *)
LEMMA CutLists ==
  ASSUME IInv, FileInv, ListsOK, IInv', FileInv', Records' = Records,
         NEW c \in Heads, NEW u \in {c} \cup List(c), NEW o \in Records, After[u] = o,
         After'[u] = After[o],
         \A x \in Heads \cup Records : x # u /\ x # o => After'[x] = After[x],
         \A x \in Records : x # o => rec'[x].key = rec[x].key
  PROVE  /\ ListsOK'
         /\ List(c)' = List(c) \ {o} /\ o \in List(c)
         /\ \A h \in Heads : h # c => List(h)' = List(h) /\ Untouched(h)
         /\ \A x \in Heads \cup Records : x # o => Home(x)' = Home(x) /\ OnList(x)' = OnList(x)
         /\ ~OnList(o)' /\ o # u /\ OnList(o) /\ OnList(u) /\ Home(u) = c
  <1>1. /\ 0 \notin Records /\ c \notin Records /\ Heads' = Heads
        /\ \A x \in Heads \cup Records :
             After[x] \in Records \cup {0} /\ After'[x] \in Records \cup {0}
    BY AfterType, PointersTypedNext DEF Heads, PointersTyped
  <1>2. /\ u \in Heads \cup Records /\ OnList(u) /\ Home(u) = c
        /\ o \in List(c) /\ Home(o) = c /\ OnList(o) /\ o # 0
    BY <1>1, HomeFacts
  <1>3. \A x, y \in Heads \cup Records :
          OnList(x) /\ OnList(y) /\ After[x] = After[y] /\ After[x] # 0 => x = y
    BY DEF ListsOK
  <1>4. o # u
    <2>1. CASE c = u
      BY <1>1, <2>1
    <2>2. CASE c # u /\ o = u
      <3>1. {x \in List(c) : x # o} \in SUBSET Records
        BY HomeFacts
      <3>2. Closed(After, {x \in List(c) : x # o}, c)
        <4>1. Closed(After, List(c), c)
          BY ListFacts
        <4>2. ASSUME NEW x \in {c} \cup List(c), x # o PROVE After[x] # o
          BY <1>2, <1>3, <2>2, <4>2, HomeFacts
        <4>3. QED
          BY <1>1, <4>1, <4>2 DEF Closed
      <3>3. List(c) \subseteq {x \in List(c) : x # o}
        BY <3>1, <3>2, ReachLeast DEF List, Records
      <3>4. QED
        BY <1>2, <3>3
    <2>3. QED
      BY <2>1, <2>2
  <1>5. List(c)' = List(c) \ {o}
    <2>1. \A x \in {c} \cup Records : x # u /\ x # o => After'[x] = After[x]
      OBVIOUS
    <2>2. \A x, y \in {c} \cup Reach(After, Records, c) :
            After[x] = After[y] /\ After[x] # 0 => x = y
      BY <1>3, HomeFacts DEF List, Records
    <2>3. u \in {c} \cup Reach(After, Records, c)
      BY DEF List, Records
    <2>4. Reach(After', Records, c) = Reach(After, Records, c) \ {o}
      BY <1>1, <1>4, <2>1, <2>2, <2>3, ReachUnlink
    <2>5. QED
      BY <2>4 DEF List, Records
  <1>6. \A h \in Heads : h # c => Untouched(h)
    <2> SUFFICES ASSUME NEW h \in Heads, h # c PROVE Untouched(h)
      OBVIOUS
    <2>1. ASSUME NEW x \in {h} \cup List(h) PROVE x # u /\ x # o /\ x \in Heads \cup Records
      BY <1>2, HomeFacts
    <2>2. QED
      BY <2>1, HomeFacts DEF Untouched
  <1>7. \A h \in Heads : h # c => List(h)' = List(h)
    BY <1>6, UntouchedList
  <1>8. \A x \in Heads \cup Records : x # o => Home(x)' = Home(x)
    BY <1>1 DEF Home
  <1>9. \A x \in Heads \cup Records : x # o => OnList(x)' = OnList(x)
    BY <1>1, <1>5, <1>7, <1>8, HomeFacts DEF OnList
  <1>10. ~OnList(o)'
    <2>1. \A h \in Heads : o \notin List(h)'
      BY <1>2, <1>5, <1>7, HomeFacts
    <2>2. rec'[o].key \in Keys \cup {Blank}
      BY DEF FileInv, FilesTypeOK
    <2>3. FREE_OFF \in Heads /\ (\A k \in Keys : Hash[k] \in Heads) /\ o \notin Heads
      BY AfterType, HashAssumption DEF Chains, Heads
    <2>4. QED
      BY <1>1, <2>1, <2>2, <2>3 DEF OnList, Home
  <1>11. ListsOK'
    <2>1. \A h \in Heads : \A x \in List(h)' : Home(x)' = h
      BY <1>2, <1>5, <1>7, <1>8, HomeFacts
    <2>2. ASSUME NEW x \in Heads \cup Records, NEW y \in Heads \cup Records,
                 OnList(x)', OnList(y)', After'[x] = After'[y], After'[x] # 0
          PROVE  x = y
      <3>1. x # o /\ y # o /\ OnList(x) /\ OnList(y)
        BY <1>9, <1>10, <2>2
      <3>2. QED
        BY <1>2, <1>3, <2>2, <3>1
    <2>3. ASSUME NEW x \in Records, NEW y \in Records, OnList(x)', OnList(y)',
                 rec'[x].key = rec'[y].key, rec'[x].key # Blank
          PROVE  x = y
      <3>1. x # o /\ y # o /\ OnList(x) /\ OnList(y)
        BY <1>9, <1>10, <2>3
      <3>2. QED
        BY <2>3, <3>1 DEF ListsOK
    <2>4. QED
      BY <1>1, <2>1, <2>2, <2>3 DEF ListsOK
  <1>12. QED
    BY <1>2, <1>4, <1>5, <1>6, <1>7, <1>8, <1>9, <1>10, <1>11

(* A step that puts the record o, which is on no list and points where the *)
(* head points, at the front of the list c where it belongs                *)
LEMMA PushLists ==
  ASSUME IInv, FileInv, ListsOK, IInv', FileInv', Records' = Records,
         NEW c \in Heads, NEW o \in Records, ~OnList(o), Home(o) = c, After[o] = After[c],
         \A n \in List(c) : rec[n].key = rec[o].key => rec[o].key = Blank,
         After'[c] = o, \A x \in Heads \cup Records : x # c => After'[x] = After[x],
         \A x \in Records : rec'[x].key = rec[x].key
  PROVE  /\ ListsOK'
         /\ List(c)' = List(c) \cup {o}
         /\ \A h \in Heads : h # c => List(h)' = List(h) /\ Untouched(h)
         /\ \A x \in Heads \cup Records : x # o => Home(x)' = Home(x) /\ OnList(x)' = OnList(x)
         /\ OnList(o)'
  <1>1. /\ 0 \notin Records /\ (\A h \in Heads : h \notin Records) /\ Heads' = Heads
        /\ \A x \in Heads \cup Records : After[x] \in Records \cup {0}
    BY AfterType DEF Heads
  <1>2. \A h \in Heads : o \notin List(h)
    BY HomeFacts
  <1>3. List(c)' = List(c) \cup {o}
    <2>1. \A x \in Records : After'[x] = After[x]
      BY <1>1
    <2>2. o \notin Reach(After, Records, c)
      BY <1>2 DEF List, Records
    <2>3. Reach(After', Records, c) = Reach(After, Records, c) \cup {o}
      BY <1>1, <2>1, <2>2, ReachPush
    <2>4. QED
      BY <2>3 DEF List, Records
  <1>4. \A h \in Heads : h # c => Untouched(h)
    BY <1>1, HomeFacts DEF Untouched
  <1>5. \A h \in Heads : h # c => List(h)' = List(h)
    BY <1>4, UntouchedList
  <1>6. \A x \in Heads \cup Records : Home(x)' = Home(x)
    BY <1>1 DEF Home
  <1>7. \A x \in Heads \cup Records : x # o => OnList(x)' = OnList(x)
    BY <1>1, <1>3, <1>5, <1>6, HomeFacts DEF OnList
  <1>8. OnList(o)'
    BY <1>3, <1>6 DEF OnList
  <1>9. ASSUME NEW x \in Heads \cup Records, OnList(x), After[x] # 0
        PROVE  After[x] # o /\ (After[x] = After[o] => x = c)
    <2>1. OnList(c) /\ c \in Heads \cup Records
      BY HomeFacts
    <2>2. After[x] # o
      BY <1>2, <1>9, HomeFacts
    <2>3. QED
      BY <1>9, <2>1, <2>2 DEF ListsOK
  <1>10. After[o] # o
    BY <1>1, <1>9, HomeFacts
  <1>11. ListsOK'
    <2>1. \A h \in Heads : \A x \in List(h)' : Home(x)' = h
      BY <1>3, <1>5, <1>6, HomeFacts
    <2>2. ASSUME NEW x \in Heads \cup Records, NEW y \in Heads \cup Records,
                 OnList(x)', OnList(y)', After'[x] = After'[y], After'[x] # 0
          PROVE  x = y
      <3>1. x # o => OnList(x)
        BY <1>7, <2>2
      <3>2. y # o => OnList(y)
        BY <1>7, <2>2
      <3>3. o # c
        BY <1>1
      <3>4. CASE x # c /\ y # c
        <4>1. After[x] = After[y] /\ After[x] # 0
          BY <2>2, <3>4
        <4>2. CASE x = o \/ y = o
          BY <1>9, <3>1, <3>2, <3>4, <4>1, <4>2
        <4>3. CASE x # o /\ y # o
          BY <3>1, <3>2, <4>1, <4>3 DEF ListsOK
        <4>4. QED
          BY <4>2, <4>3
      <3>5. CASE x = c /\ y # c
        BY <1>9, <1>10, <2>2, <3>2, <3>5
      <3>6. CASE x # c /\ y = c
        BY <1>9, <1>10, <2>2, <3>1, <3>6
      <3>7. QED
        BY <3>4, <3>5, <3>6
    <2>3. ASSUME NEW x \in Records, NEW y \in Records, OnList(x)', OnList(y)',
                 rec'[x].key = rec'[y].key, rec'[x].key # Blank
          PROVE  x = y
      <3>1. rec[x].key = rec[y].key /\ rec[x].key # Blank
        BY <2>3
      <3>2. ASSUME NEW n \in Records, OnList(n), n # o, rec[n].key = rec[o].key,
                   rec[n].key # Blank
            PROVE  FALSE
        <4>1. Home(n) = Home(o)
          BY <1>1, <3>2 DEF Home
        <4>2. n \in List(c)
          BY <1>1, <3>2, <4>1 DEF OnList
        <4>3. QED
          BY <3>2, <4>2
      <3>3. CASE x # o /\ y # o
        BY <1>7, <2>3, <3>1, <3>3 DEF ListsOK
      <3>4. CASE x = o \/ y = o
        BY <1>7, <2>3, <3>1, <3>2, <3>4
      <3>5. QED
        BY <3>3, <3>4
    <2>4. QED
      BY <1>1, <2>1, <2>2, <2>3 DEF ListsOK
  <1>12. QED
    BY <1>3, <1>4, <1>5, <1>6, <1>7, <1>8, <1>11

-----------------------------------------------------------------------------
(* What a step leaves alone                                                *)

Alone(p, q) ==
  pc'[q] = pc[q] /\ db'[q] = db[q] /\ call'[q] = call[q] /\ scan'[q] = scan[q]

(* The record o is the only one a step of p may put on a list, take off or *)
(* append; p has no other one in hand.                                     *)
LEMMA HandsStep ==
  ASSUME HandsOK, NEW p \in Procs, \A q \in Procs : q # p => Alone(p, q), NEW o,
         pc[p] # "dead", Records \subseteq Records', Records' \subseteq Records \cup {o},
         \A x \in Records : x # o => OnList(x)' = OnList(x),
         Moving(p) => db[p].idxoff = o,
         \A q \in Procs : q # p /\ Moving(q) => db[q].idxoff # o,
         Moving(p)' => db'[p].idxoff = o /\ o \in Records' /\ ~OnList(o)',
         \/ OnList(o)'
         \/ Moving(p)'
         \/ pc'[p] = "dead" /\ db'[p].idxoff = o
         \/ o \notin Records'
         \/ \E q \in Procs : q # p /\ pc[q] = "dead" /\ db[q].idxoff = o
  PROVE  HandsOK'
  <1>1. \A q \in Procs : q # p => Moving(q)' = Moving(q) /\ db'[q] = db[q] /\ pc'[q] = pc[q]
    BY DEF Alone, Moving
  <1>2. ASSUME NEW x \in Records' 
        PROVE  \/ OnList(x)'
               \/ \E q \in Procs : Moving(q)' /\ db'[q].idxoff = x
               \/ \E q \in Procs : pc'[q] = "dead" /\ db'[q].idxoff = x
    <2>1. CASE x = o
      BY <1>1, <2>1
    <2>2. CASE x # o
      <3>1. \/ OnList(x)'
            \/ \E q \in Procs : Moving(q) /\ db[q].idxoff = x
            \/ \E q \in Procs : pc[q] = "dead" /\ db[q].idxoff = x
        BY <2>2 DEF HandsOK
      <3>2. QED
        BY <1>1, <2>2, <3>1
    <2>3. QED
      BY <2>1, <2>2
  <1>3. ASSUME NEW q \in Procs, Moving(q)'
        PROVE  db'[q].idxoff \in Records' /\ ~OnList(db[q].idxoff)' /\ (q # p => db'[q].idxoff # o)
    <2>1. CASE q = p
      BY <1>3, <2>1
    <2>2. CASE q # p
      BY <1>1, <1>3, <2>2 DEF HandsOK
    <2>3. QED
      BY <2>1, <2>2
  <1>4. QED
    BY <1>1, <1>2, <1>3 DEF HandsOK

LEMMA LiveStep ==
  ASSUME LiveData, NEW p \in Procs, \A q \in Procs : q # p => Alone(p, q), NEW o,
         Records' \subseteq Records \cup {o},
         \A x \in Records : x # o =>
            /\ rec'[x].key = rec[x].key /\ rec'[x].datoff = rec[x].datoff
            /\ dat'[rec[x].datoff] = dat[rec[x].datoff],
         pc[p] \in {"delfree", "delidx"} => db[p].idxoff = o,
         o \in Records' /\ rec'[o].key # Blank =>
            \/ dat'[rec'[o].datoff] # Blank
            \/ pc'[p] \in {"delfree", "delidx"} /\ db'[p].idxoff = o
            \/ \E q \in Procs : q # p /\ pc[q] \in {"delfree", "delidx"} /\ db[q].idxoff = o
  PROVE  LiveData'
  <1> SUFFICES ASSUME NEW x \in Records', rec'[x].key # Blank
               PROVE  \/ dat'[rec'[x].datoff] # Blank
                      \/ \E q \in Procs : pc'[q] \in {"delfree", "delidx"} /\ db'[q].idxoff = x
    BY DEF LiveData
  <1>1. CASE x = o
    BY <1>1 DEF Alone
  <1>2. CASE x # o
    <2>1. \/ dat[rec[x].datoff] # Blank
          \/ \E q \in Procs : pc[q] \in {"delfree", "delidx"} /\ db[q].idxoff = x
      BY <1>2 DEF LiveData
    <2>2. QED
      BY <1>2, <2>1 DEF Alone
  <1>3. QED
    BY <1>1, <1>2

(* What the other processes know stays true when a step of p spares their  *)
(* lists, the records in their hands and the data they wrote.              *)
Spares(q) ==
  /\ InChain(q) => Untouched(ChainOff(q))
  /\ InFree(q) => Untouched(FREE_OFF)
  /\ Moving(q) => /\ After'[db[q].idxoff] = After[db[q].idxoff]
                  /\ rec'[db[q].idxoff].key = rec[db[q].idxoff].key
                  /\ rec'[db[q].idxoff].datoff = rec[db[q].idxoff].datoff
  /\ pc[q] = "nextdat" => rec'[scan[q].idxoff].key = rec[scan[q].idxoff].key
  /\ Wrote(q) => dat'[db[q].datoff] = dat[db[q].datoff]

LEMMA OthersKnow ==
  ASSUME IInv, FileInv, ListsOK, NEW p \in Procs, NEW q \in Procs, q # p, Alone(p, q),
         Known(q), Spares(q), Records \subseteq Records'
  PROVE  Known(q)'
  <1>1. /\ pc'[q] = pc[q] /\ db'[q] = db[q] /\ call'[q] = call[q] /\ scan'[q] = scan[q]
        /\ ChainOff(q)' = ChainOff(q) /\ Appended(q)' = Appended(q) /\ Moving(q)' = Moving(q)
    BY DEF Alone, ChainOff, Appended, Moving
  <1>2. FREE_OFF' = FREE_OFF /\ FREE_OFF \in Heads
    BY AfterType DEF FREE_OFF
  <1>3. ChainKnown(q)'
    <2>1. CASE InChain(q)
      <3>1. PICK h \in Heads : h = ChainOff(q)
        BY <2>1, AfterType
      <3>2. Untouched(h)
        BY <2>1, <3>1 DEF Spares
      <3>3. /\ List(h)' = List(h)
            /\ \A x \in List(h) : Reach(After, Records, x)' = Reach(After, Records, x)
        BY <3>2, UntouchedList
      <3>4. \A x \in {h} \cup List(h) : After'[x] = After[x]
        BY <3>2 DEF Untouched
      <3>5. \A x \in List(h) : rec'[x].key = rec[x].key
        BY <3>2 DEF Untouched
      <3>6. ChainKnown(q)
        BY DEF Known
      <3>7. List(ChainOff(q))' = List(h) /\ ChainOff(q)' = h /\ ChainOff(q) = h
        BY <1>1, <3>1, <3>3
      <3>8. QED
        BY <1>1, <3>3, <3>4, <3>5, <3>6, <3>7 DEF ChainKnown
    <2>2. CASE ~InChain(q)
      BY <1>1, <2>2 DEF Known, ChainKnown, InChain, OutsideChain, MissingPcs, FrontPcs
    <2>3. QED
      BY <2>1, <2>2
  <1>4. FreeKnown(q)'
    <2>1. CASE InFree(q)
      <3>1. List(FREE_OFF)' = List(FREE_OFF) /\ Untouched(FREE_OFF)
        BY <1>2, <2>1, UntouchedList DEF Spares
      <3>2. \A x \in {FREE_OFF} \cup List(FREE_OFF) : After'[x] = After[x]
        BY <3>1 DEF Untouched
      <3>3. pc[q] = "delhead" => After'[db[q].idxoff] = After[db[q].idxoff]
        BY DEF Spares, Moving
      <3>4. pc[q] # "nextdat"
        BY <2>1 DEF InFree
      <3>5. QED
        BY <1>1, <1>2, <3>1, <3>2, <3>3, <3>4 DEF Known, FreeKnown
    <2>2. CASE ~InFree(q)
      BY <1>1, <2>2 DEF Known, FreeKnown, InFree, Spares
    <2>3. QED
      BY <2>1, <2>2
  <1>5. HandKnown(q)'
    BY <1>1 DEF Known, HandKnown, Spares, Moving, Wrote
  <1>6. QED
    BY <1>3, <1>4, <1>5 DEF Known

(* A step that changes one list, that of a writer of the chain or of the   *)
(* process inside the free list, and the record o in its hands             *)
LEMMA OneListSpares ==
  ASSUME IInv, FileInv, ListsOK, HandsOK, NEW p \in Procs, NEW q \in Procs, q # p,
         NEW c \in Heads, NEW o,
         \/ c = ChainOff(p) /\ InChain(p) /\ call[p].op # "fetch"
         \/ c = FREE_OFF /\ InFree(p),
         \A h \in Heads : h # c => Untouched(h),
         \A x \in Records : x # o /\ ~OnList(x) => After'[x] = After[x],
         \A x \in Records : x # o => rec'[x].key = rec[x].key,
         \A x \in Records : rec'[x].datoff = rec[x].datoff,
         Moving(q) => db[q].idxoff # o,
         \/ InFree(p) /\ pc[p] # "ffunlock"
         \/ rec'[o].key = rec[o].key
         \/ o \notin Records \/ rec[o].key = Blank,
         Known(q),
         Wrote(q) => dat'[db[q].datoff] = dat[db[q].datoff]
  PROVE  Spares(q)
  <1>1. Exclusion
    BY LocksExclude
  <1>2. /\ FREE_OFF \in Heads
        /\ InChain(p) => ChainOff(p) \in Heads /\ ChainOff(p) # FREE_OFF
        /\ InChain(q) => ChainOff(q) \in Heads /\ ChainOff(q) # FREE_OFF
    BY AfterType
  <1>3. InChain(q) => ChainOff(q) # c
    BY <1>1, <1>2 DEF Exclusion
  <1>4. InFree(q) => FREE_OFF # c
    BY <1>1, <1>2 DEF Exclusion
  <1>5. Moving(q) => db[q].idxoff \in Records /\ ~OnList(db[q].idxoff)
    BY DEF HandsOK
  <1>6. pc[q] = "nextdat" => rec'[scan[q].idxoff].key = rec[scan[q].idxoff].key
    <2>1. pc[q] = "nextdat" =>
            /\ scan[q].idxoff \in Records /\ rec[scan[q].idxoff].key # Blank
            /\ ~InFree(p)
      BY <1>1 DEF Known, FreeKnown, FileInv, HandleOK, Exclusion, InNext
    <2>2. QED
      BY <2>1
  <1>7. QED
    BY <1>2, <1>3, <1>4, <1>5, <1>6 DEF Spares

(* Writing the data of one's own record, or at the end of the file, leaves *)
(* that of the others alone.                                               *)
LEMMA OtherData ==
  ASSUME FileInv, HandsOK, \A q \in Procs : Known(q),
         NEW p \in Procs, NEW y, dat' = Put(dat, db[p].datoff, y),
         \/ pc[p] = "datappend"
         \/ AtRecord(p) /\ (OnList(db[p].idxoff) \/ Moving(p))
  PROVE  /\ \A q \in Procs : q # p /\ Wrote(q) =>
              dat'[db[q].datoff] = dat[db[q].datoff]
         /\ \A x \in Records : pc[p] = "datappend" \/ x # db[p].idxoff =>
              dat'[rec[x].datoff] = dat[rec[x].datoff]
         /\ dat'[db[p].datoff] = y
  <1>1. /\ \A q \in Procs : HandleOK(q)
        /\ \A x, z \in Records : rec[x].datoff = rec[z].datoff => x = z
        /\ FilesTypeOK
    BY DEF FileInv
  <1>2. \A n \in DOMAIN dat : n # db[p].datoff => dat'[n] = dat[n]
    BY DEF Put
  <1>3. \A x \in Records : rec[x].datoff \in DOMAIN dat /\ rec[x].datoff # datend
    BY <1>1, RecordFacts
  <1>4. ASSUME NEW q \in Procs, q # p, Wrote(q)
        PROVE  dat'[db[q].datoff] = dat[db[q].datoff]
    <2>1. HandleOK(q) /\ HandleOK(p)
      BY <1>1
    <2>2. CASE pc[q] \in {"idxwrite", "idxunlock", "link"}
      <3>1. db[q].idxoff \in Records /\ db[q].datoff = rec[db[q].idxoff].datoff /\ Moving(q)
        BY <2>1, <2>2 DEF HandleOK, AtRecord, Moving, Known, HandKnown
      <3>2. AtRecord(p) => db[p].idxoff # db[q].idxoff
        BY <1>4, <3>1 DEF HandsOK, AtRecord
      <3>3. db[q].datoff # db[p].datoff
        BY <1>1, <1>3, <2>1, <3>1, <3>2 DEF HandleOK
      <3>4. QED
        BY <1>2, <1>3, <3>1, <3>3
    <2>3. CASE Appended(q)
      <3>1. db[q].datoff \in 0..(datend - 1) /\ \A x \in Records : rec[x].datoff # db[q].datoff
        BY <2>1, <2>3 DEF HandleOK
      <3>2. db[q].datoff \in DOMAIN dat /\ db[q].datoff # datend
        BY <1>1, <3>1 DEF FilesTypeOK
      <3>3. QED
        BY <1>2, <2>1, <3>1, <3>2 DEF HandleOK
    <2>4. QED
      BY <1>4, <2>2, <2>3 DEF Wrote
  <1>5. ASSUME NEW x \in Records, pc[p] = "datappend" \/ x # db[p].idxoff
        PROVE  dat'[rec[x].datoff] = dat[rec[x].datoff]
    <2>1. HandleOK(p)
      BY <1>1
    <2>2. rec[x].datoff # db[p].datoff
      BY <1>1, <1>3, <1>5, <2>1 DEF HandleOK
    <2>3. QED
      BY <1>2, <1>3, <2>2
  <1>6. QED
    BY <1>4, <1>5 DEF Put

-----------------------------------------------------------------------------
(* Steps that change no list                                               *)

PointersAre ==
  /\ \A p \in Unlinking :
       After = [x \in DOMAIN ptr |-> IF x = db[p].ptroff THEN db[p].save ELSE ptr[x]]
  /\ Unlinking = {} => After = [x \in DOMAIN ptr |-> ptr[x]]

LEMMA PointersAreSo == (IInv => PointersAre) /\ (IInv' => PointersAre')
  <1>1. IInv => PointersAre
    <2> SUFFICES ASSUME IInv PROVE PointersAre
      OBVIOUS
    <2>1. Unlinking = {} => After = [x \in DOMAIN ptr |-> ptr[x]]
      BY DEF After
    <2>2. ASSUME NEW p \in Unlinking
          PROVE  After = [x \in DOMAIN ptr |-> IF x = db[p].ptroff THEN db[p].save ELSE ptr[x]]
      <3>1. Unlinking = {p}
        BY OneUnlinks
      <3>2. ASSUME NEW x \in DOMAIN ptr
            PROVE  After[x] = IF x = db[p].ptroff THEN db[p].save ELSE ptr[x]
        <4>1. CASE x = db[p].ptroff
          BY <3>1, <4>1 DEF After
        <4>2. CASE x # db[p].ptroff
          BY <3>1, <4>2 DEF After
        <4>3. QED
          BY <4>1, <4>2
      <3>3. QED
        BY <3>2 DEF After
    <2>3. QED
      BY <2>1, <2>2 DEF PointersAre
  <1>2. QED
    BY <1>1, PTL

LEMMA AfterSame ==
  ASSUME IInv, IInv', NEW p \in Procs, \A q \in Procs : q # p => Alone(p, q),
         UNCHANGED ptr, p \notin Unlinking, p \notin Unlinking'
  PROVE  After' = After
  <1>1. Unlinking' = Unlinking
    BY DEF Unlinking, Alone
  <1>2. PointersAre /\ PointersAre'
    BY PointersAreSo
  <1>3. CASE Unlinking = {}
    BY <1>1, <1>2, <1>3 DEF PointersAre
  <1>4. CASE Unlinking # {}
    <2>1. PICK q \in Unlinking : TRUE
      BY <1>4
    <2>2. db'[q] = db[q]
      BY <1>1, <2>1 DEF Alone, Unlinking
    <2>3. QED
      BY <1>1, <1>2, <2>1, <2>2 DEF PointersAre
  <1>5. QED
    BY <1>3, <1>4

(* List h holds what it did, but for the record o                          *)
KeptBut(h, o) ==
  /\ \A x : x # o => (x \in List(h)' <=> x \in List(h))
  /\ \A x \in List(h) : x # o => /\ rec'[x].key = rec[x].key
                                 /\ rec'[x].datoff = rec[x].datoff
                                 /\ dat'[rec[x].datoff] = dat[rec[x].datoff]

(* A step of p changes at most the record at idxoff of the chain it has    *)
(* write locked.                                                           *)
ChainsKept(p) ==
  \A h \in Chains :
    /\ \/ KeptBut(h, 0)
       \/ /\ InChain(p) /\ ChainOff(p) = h /\ call[p].op # "fetch" /\ pc'[p] # pc[p]
          /\ pc[p] \in {"delblank", "delidx", "overwrite", "link"}
          /\ KeptBut(h, db[p].idxoff) /\ rec[db[p].idxoff].key = call[p].key
          /\ rec'[db[p].idxoff].key \in {call[p].key, Blank}
    /\ pc[p] = "link" /\ pc'[p] = "unlock" /\ ChainOff(p) = h => db[p].idxoff \in List(h)'

LEMMA QuietLists ==
  ASSUME After' = After, rec' = rec
  PROVE  /\ Records' = Records /\ Heads' = Heads
         /\ \A h : List(h)' = List(h) /\ Untouched(h)
         /\ \A x : Reach(After, Records, x)' = Reach(After, Records, x)
         /\ \A x : Home(x)' = Home(x) /\ OnList(x)' = OnList(x)
  <1>1. Records' = Records /\ Heads' = Heads
    BY DEF Records, Heads
  <1>2. \A h : List(h)' = List(h)
    BY <1>1 DEF List, Reach, Closed
  <1>3. \A x : Reach(After, Records, x)' = Reach(After, Records, x)
    BY <1>1 DEF Reach, Closed
  <1>4. \A x : Home(x)' = Home(x)
    BY <1>1 DEF Home
  <1>5. \A x : OnList(x)' = OnList(x)
    BY <1>1, <1>2, <1>4 DEF OnList
  <1>6. QED
    BY <1>1, <1>2, <1>3, <1>4, <1>5 DEF Untouched

LEMMA QuietList ==
  ASSUME IInv, FileInv, ListInv, IInv', FileInv', NEW p \in Procs,
         \A q \in Procs : q # p => Alone(p, q), pc[p] # "dead",
         After' = After, rec' = rec,
         \A q \in Procs : q # p /\ Wrote(q) =>
           dat'[db[q].datoff] = dat[db[q].datoff],
         Moving(p)' => Moving(p) /\ db'[p].idxoff = db[p].idxoff,
         Moving(p) => (Moving(p)' \/ pc'[p] = "dead") /\ db'[p].idxoff = db[p].idxoff,
         LiveData', Known(p)'
  PROVE  ListInv' /\ (dat' = dat => ChainsKept(p))
  <1>1. ListsOK /\ HandsOK /\ \A q \in Procs : Known(q)
    BY DEF ListInv
  <1>2. ListsOK'
    BY <1>1, QuietLists DEF ListsOK
  <1>3. HandsOK'
    <2>1. CASE Moving(p)
      BY <1>1, <2>1, QuietLists, HandsStep DEF HandsOK
    <2>2. CASE ~Moving(p)
      <3>1. /\ ~Moving(p)' /\ \A q \in Procs : Moving(q)' = Moving(q)
            /\ \A q \in Procs : pc[q] = "dead" => pc'[q] = "dead" /\ db'[q] = db[q]
            /\ \A q \in Procs : Moving(q) => db'[q] = db[q]
        BY <2>2 DEF Alone, Moving
      <3>2. QED
        BY <1>1, <3>1, QuietLists DEF HandsOK
    <2>3. QED
      BY <2>1, <2>2
  <1>4. ASSUME NEW q \in Procs, q # p PROVE Known(q)'
    <2>1. Spares(q)
      BY <1>4, QuietLists DEF Spares
    <2>2. QED
      BY <1>1, <1>4, <2>1, QuietLists, OthersKnow
  <1>5. dat' = dat => ChainsKept(p)
    BY QuietLists DEF ChainsKept, KeptBut, Moving
  <1>6. QED
    BY <1>2, <1>3, <1>4, <1>5 DEF ListInv

(* ... and write no data                                                   *)
LEMMA QuietData ==
  ASSUME LiveData, NEW p \in Procs, \A q \in Procs : q # p => Alone(p, q),
         UNCHANGED <<rec, dat>>,
         pc[p] \in {"delfree", "delidx"} =>
           pc'[p] \in {"delfree", "delidx"} /\ db'[p].idxoff = db[p].idxoff
  PROVE  LiveData'
  BY DEF LiveData, Alone, Records

-----------------------------------------------------------------------------
(* Each step of a process                                                  *)

LEMMA StepAlone ==
  ASSUME IInv, FileInv, NEW p \in Procs, Begin(p) \/ Rewind(p) \/ Step(p) \/ Crash(p)
  PROVE  (\A q \in Procs : q # p => Alone(p, q)) /\ pc[p] # "dead"
  <1> USE DEF Goto, Alone
  <1>1. /\ pc \in [Procs -> Positions] /\ db \in [Procs -> Handles]
        /\ call \in [Procs -> Calls \cup {NoCall}] /\ scan \in [Procs -> Scans]
    BY DEF IInv, LocksTypeOK, FileInv
  <1>2. CASE Begin(p) \/ Rewind(p) \/ Crash(p)
    BY <1>1, <1>2 DEF Begin, Rewind, Crash
  <1>3. CASE Find(p)
    BY <1>1, <1>3 DEF Find, LockChain, ReadHead, Walk, ReadDat, UnlockChain, NotFound, Found
  <1>4. CASE Delete(p)
    BY <1>1, <1>4 DEF Delete, DelLock, DelBlankData, DelReadFree, DelWriteIdx, DelWriteFree,
       DelUnlink, DelUnlock
  <1>5. CASE FindFree(p)
    BY <1>1, <1>5 DEF FindFree, FreeLock, FreeHead, FreeWalk, FreeUnlink, FreeUnlock
  <1>6. CASE Write(p)
    BY <1>1, <1>6 DEF Write, ReadFront, DatLock, DatSeekEnd, DatWrite, DatUnlock, IdxLock,
       IdxSeekEnd, IdxWrite, IdxUnlock, Link
  <1>7. CASE Nextrec(p)
    BY <1>1, <1>7 DEF Nextrec, NextLock, NextRead, NextDat, NextUnlock
  <1>8. QED
    BY <1>2, <1>3, <1>4, <1>5, <1>6, <1>7 DEF Step

(* The pointers of a list its lock protects are what the file says.        *)
LEMMA PointerRead ==
  ASSUME IInv, FileInv, ListInv, NEW p \in Procs, p \notin Unlinking, NEW h \in Heads,
         h = FREE_OFF \/ (InChain(p) /\ h = ChainOff(p)),
         NEW x \in {h} \cup List(h)
  PROVE  After[x] = ptr[x]
  <1>1. x \in Heads \cup Records /\ Home(x) = h
    BY HomeFacts DEF ListInv
  <1>2. CASE Unlinking = {}
    BY <1>1, <1>2, AfterIs
  <1>3. ASSUME NEW q \in Unlinking PROVE After[x] = ptr[x]
    <2>1. q \in Procs /\ q # p /\ InChain(q) /\ call[q].op # "fetch"
      BY DEF Unlinking, InChain, OutsideChain, IInv, FetchPath
    <2>2. ChainOff(q) \in Heads /\ ChainOff(q) # FREE_OFF
      BY <2>1, AfterType
    <2>3. ChainOff(q) # h
      BY <2>1, <2>2, LocksExclude DEF Exclusion
    <2>4. db[q].ptroff \in {ChainOff(q)} \cup List(ChainOff(q))
      BY DEF ListInv, Known, ChainKnown, Unlinking
    <2>5. Home(db[q].ptroff) = ChainOff(q)
      BY <2>2, <2>4, HomeFacts DEF ListInv
    <2>6. QED
      BY <1>1, <2>3, <2>5, AfterIs
  <1>4. QED
    BY <1>2, <1>3

LEMMA FindLists ==
  ASSUME IInv, FileInv, ListInv, IInv', FileInv', NEW p \in Procs, Find(p)
  PROVE  ListInv' /\ ChainsKept(p)
  <1> USE DEF Goto, locks, files
  <1>1. /\ \A q \in Procs : q # p => Alone(p, q)
        /\ pc[p] # "dead" /\ ListsOK /\ LiveData /\ Known(p)
        /\ pc \in [Procs -> Positions] /\ db \in [Procs -> Handles]
    BY StepAlone DEF Step, ListInv, IInv, LocksTypeOK, FileInv
  <1>2. /\ rec' = rec /\ UNCHANGED <<ptr, dat, call, scan>>
        /\ pc[p] \notin {"delfree", "delidx"} /\ p \notin Unlinking /\ p \notin Unlinking'
        /\ ~Moving(p) /\ ~Moving(p)'
    BY <1>1 DEF Find, LockChain, ReadHead, Walk, ReadDat, UnlockChain, NotFound, Found,
       Unlinking, Moving
  <1>3. After' = After
    BY <1>1, <1>2, AfterSame
  <1>4. /\ ChainOff(p)' = ChainOff(p) /\ call'[p] = call[p]
        /\ InChain(p) \/ pc[p] = "lock" => ChainOff(p) \in Heads
        /\ \A h : List(h)' = List(h)
        /\ \A x : Reach(After, Records, x)' = Reach(After, Records, x)
    BY <1>2, <1>3, AfterType, QuietLists DEF ChainOff
  <1>5. SUFFICES Known(p)'
    BY <1>1, <1>2, <1>3, QuietData, QuietList
  <1>6. InChain(p) =>
          /\ \A x \in {ChainOff(p)} \cup List(ChainOff(p)) : After[x] = ptr[x]
          /\ List(ChainOff(p)) \subseteq Records
          /\ Closed(After, List(ChainOff(p)), ChainOff(p))
    BY <1>2, <1>4, PointerRead, ListFacts
  <1>7. \A x \in Heads \cup Records :
          /\ After[x] = 0 => Reach(After, Records, x) = {}
          /\ After[x] # 0 => Reach(After, Records, x)
                               = {After[x]} \cup Reach(After, Records, After[x])
    BY AfterType, ReachUnfold
  <1>8. CASE LockChain(p) \/ ReadDat(p) \/ UnlockChain(p)
    BY <1>1, <1>2, <1>4, <1>8
       DEF LockChain, ReadDat, UnlockChain, Known, ChainKnown, FreeKnown, HandKnown,
           FrontPcs, MissingPcs, Appended, Wrote
  <1>9. CASE ReadHead(p)
    <2> DEFINE h == ChainOff(p)
    <2>1. InChain(p) /\ pc[p] = "head" /\ db[p].ptroff = h /\ h \in Heads
      BY <1>1, <1>4, <1>9 DEF ReadHead, InChain, OutsideChain, Known, ChainKnown
    <2>2. /\ db'[p] = [db[p] EXCEPT !.off = After[h]]
          /\ db'[p].off = After[h] /\ db'[p].ptroff = h
      BY <1>1, <1>6, <1>9, <2>1 DEF ReadHead, Handles
    <2>3. /\ After[h] = 0 => List(h) = {}
          /\ After[h] # 0 => List(h) = {After[h]} \cup Reach(After, Records, After[h])
      BY <1>7, <2>1 DEF List, Records
    <2>4. pc'[p] \in IF After[h] = 0 THEN {"front", "unlock"} ELSE {"walk"}
      BY <1>1, <1>6, <1>9, <2>1 DEF ReadHead, NotFound
    <2>5. ChainKnown(p)'
      BY <1>2, <1>3, <1>4, <2>2, <2>3, <2>4 DEF ChainKnown, FrontPcs, MissingPcs
    <2>6. QED
      BY <2>4, <2>5 DEF Known, FreeKnown, HandKnown, Appended, Wrote
  <1>10. CASE Walk(p)
    <2> DEFINE h == ChainOff(p)
               o == db[p].off
    <2>1. /\ InChain(p) /\ pc[p] = "walk" /\ h \in Heads
          /\ o \in List(h) /\ o \in Records /\ db[p].ptroff \in {h} \cup List(h)
          /\ After[db[p].ptroff] = o /\ ptr[o] = After[o]
          /\ \A x \in List(h) : rec[x].key = call[p].key =>
               x = o \/ x \in Reach(After, Records, o)
      <3>1. InChain(p) /\ pc[p] = "walk"
        BY <1>10 DEF Walk, InChain, OutsideChain
      <3>2. QED
        BY <1>1, <1>4, <1>6, <3>1 DEF Known, ChainKnown
    <2> DEFINE w == WithIdx(db[p], o)
    <2>2. w.ptroff = db[p].ptroff /\ w.idxoff = o /\ w.ptrval = ptr[o]
          /\ DOMAIN w = DOMAIN db[p] /\ {"ptroff", "off", "rep", "ptrval", "idxoff"} \subseteq DOMAIN w
      BY <1>1 DEF WithIdx, Handles
    <2>3. CASE rec[o].key = call[p].key
      <3> DEFINE b == call[p].op \in {"replace", "store"}
                 d == [w EXCEPT !.rep = b]
      <3>1. db' = [db EXCEPT ![p] = d] /\ Found(p, w.datlen)
        BY <1>10, <2>3 DEF Walk
      <3> HIDE DEF w, b
      <3>2. d.ptroff = w.ptroff /\ d.idxoff = w.idxoff /\ d.ptrval = w.ptrval
        BY <2>2
      <3>3. db'[p] = d
        BY <1>1, <3>1
      <3>4. pc'[p] \in {"readdat", "unlock", "dellock", "overwrite"}
        BY <1>1, <3>1 DEF Found
      <3> HIDE DEF d
      <3>5. /\ db'[p].ptroff = db[p].ptroff /\ db'[p].idxoff = o /\ db'[p].ptrval = After[o]
            /\ pc'[p] \in {"readdat", "unlock", "dellock", "overwrite"}
        BY <2>1, <2>2, <3>2, <3>3, <3>4
      <3>6. ChainKnown(p)'
        BY <1>2, <1>3, <1>4, <2>1, <2>3, <3>5 DEF ChainKnown, FrontPcs, MissingPcs
      <3>7. QED
        BY <3>5, <3>6 DEF Known, FreeKnown, HandKnown, Appended, Wrote
    <2>4. CASE rec[o].key # call[p].key
      <3> DEFINE d == [w EXCEPT !.ptroff = o, !.off = w.ptrval]
      <3>1. db' = [db EXCEPT ![p] = d]
        BY <1>10, <2>4 DEF Walk
      <3>2. pc'[p] \in IF w.ptrval = 0 THEN {"front", "unlock"} ELSE {"walk"}
        BY <1>1, <1>10, <2>4 DEF Walk, NotFound
      <3> HIDE DEF w
      <3>3. d.ptroff = o /\ d.off = w.ptrval
        BY <2>2
      <3>4. db'[p] = d
        BY <1>1, <3>1
      <3> HIDE DEF d
      <3>5. /\ db'[p].ptroff = o /\ db'[p].off = After[o]
            /\ pc'[p] \in IF After[o] = 0 THEN {"front", "unlock"} ELSE {"walk"}
        BY <2>1, <2>2, <3>2, <3>3, <3>4
      <3>6. After[o] # 0 => After[o] \in List(h)
        BY <1>6, <2>1 DEF Closed
      <3>7. \A x \in List(h) : rec[x].key = call[p].key => x \in Reach(After, Records, o)
        BY <2>1, <2>4
      <3>8. ChainKnown(p)'
        BY <1>2, <1>3, <1>4, <1>7, <2>1, <3>5, <3>6, <3>7 DEF ChainKnown, FrontPcs, MissingPcs
      <3>9. QED
        BY <3>5, <3>8 DEF Known, FreeKnown, HandKnown, Appended, Wrote
    <2>5. QED
      BY <2>3, <2>4
  <1>11. QED
    BY <1>8, <1>9, <1>10 DEF Find

(* What the proofs of the steps start from                                 *)
LEMMA StepFacts ==
  ASSUME IInv, FileInv, ListInv, NEW p \in Procs,
         Begin(p) \/ Rewind(p) \/ Step(p) \/ Crash(p)
  PROVE  /\ \A q \in Procs : q # p => Alone(p, q)
         /\ pc[p] # "dead" /\ ListsOK /\ HandsOK /\ LiveData /\ \A q \in Procs : Known(q)
         /\ HandleOK(p) /\ pc \in [Procs -> Positions] /\ db \in [Procs -> Handles]
         /\ FREE_OFF \in Heads /\ Heads' = Heads /\ FilesTypeOK /\ FetchPath(p)
         /\ InChain(p) => /\ ChainOff(p) \in Heads /\ ChainOff(p) # FREE_OFF
                          /\ call[p].key \in Keys /\ call[p].key # Blank
                          /\ call[p] \in Calls
  <1>1. InChain(p) => call[p].key \in Keys /\ call[p].key # Blank
    BY BlankAssumption DEF IInv, LocksTypeOK, Calls
  <1>2. QED
    BY <1>1, StepAlone, AfterType DEF ListInv, FileInv, IInv, LocksTypeOK, Heads

LEMMA KeyFacts ==
  ASSUME IInv, FileInv, NEW x \in Records
  PROVE  /\ Home(x) = FREE_OFF <=> rec[x].key = Blank
         /\ rec[x].key # Blank => rec[x].key \in Keys /\ Home(x) = Hash[rec[x].key]
                                  /\ Home(x) \in Chains
  <1>1. x \notin Heads /\ rec[x].key \in Keys \cup {Blank}
    BY RecordFacts DEF FileInv
  <1>2. \A k \in Keys : Hash[k] \in Chains /\ Hash[k] # FREE_OFF
    BY HashAssumption DEF Chains, FREE_OFF
  <1>3. QED
    BY <1>1, <1>2 DEF Home

LEMMA DeleteLists ==
  ASSUME IInv, FileInv, ListInv, IInv', FileInv', NEW p \in Procs, Delete(p)
  PROVE  ListInv' /\ ChainsKept(p)
  <1> USE DEF Goto, locks, files
  <1>1. PICK h, o, u : h = ChainOff(p) /\ o = db[p].idxoff /\ u = db[p].ptroff
    OBVIOUS
  <1>2. /\ \A q \in Procs : q # p => Alone(p, q)
        /\ pc[p] # "dead" /\ ListsOK /\ HandsOK /\ LiveData /\ \A q \in Procs : Known(q)
        /\ HandleOK(p) /\ pc \in [Procs -> Positions] /\ db \in [Procs -> Handles]
        /\ FREE_OFF \in Heads /\ Heads' = Heads /\ FilesTypeOK /\ FetchPath(p)
        /\ h = ChainOff(p) /\ o = db[p].idxoff /\ u = db[p].ptroff
    BY <1>1, StepFacts DEF Step
  <1>3. /\ InChain(p) /\ h \in Heads /\ h # FREE_OFF /\ call[p].key # Blank
        /\ call[p].op # "fetch" /\ ChainOff(p)' = h /\ UNCHANGED <<call, scan>>
    <2>1. InChain(p) /\ UNCHANGED <<call, scan>>
          /\ pc[p] \notin {"head", "walk", "readdat", "unlock"}
      BY DEF Delete, DelLock, DelBlankData, DelReadFree, DelWriteIdx, DelWriteFree,
         DelUnlink, DelUnlock, InChain, OutsideChain
    <2>2. QED
      BY <1>2, <2>1, StepFacts DEF Step, FetchPath, ChainOff
  <1>4. CASE DelLock(p)
    <2>1. After' = After
      BY <1>2, <1>4, AfterSame DEF DelLock, Unlinking
    <2>2. rec' = rec /\ UNCHANGED <<ptr, dat, db>> /\ ~Moving(p) /\ ~Moving(p)' /\ LiveData'
      BY <1>2, <1>4, QuietData DEF DelLock, Moving
    <2>3. Known(p)'
      BY <1>2, <1>3, <1>4, <2>1, <2>2, QuietLists
         DEF DelLock, Known, ChainKnown, FreeKnown, HandKnown, FrontPcs, MissingPcs, Appended, Wrote
    <2>4. QED
      BY <1>2, <2>1, <2>2, <2>3, QuietList
  <1>5. CASE DelBlankData(p)
    <2>1. After' = After
      BY <1>2, <1>5, AfterSame DEF DelBlankData, Unlinking
    <2>2. rec' = rec /\ UNCHANGED <<ptr, db>> /\ ~Moving(p) /\ ~Moving(p)'
      BY <1>2, <1>5 DEF DelBlankData, Moving
    <2>3. OnList(o) /\ AtRecord(p)
      BY <1>2, <1>3, <1>5, HomeFacts DEF DelBlankData, Known, ChainKnown, AtRecord
    <2>4. /\ \A q \in Procs : q # p /\ Wrote(q) =>
               dat'[db[q].datoff] = dat[db[q].datoff]
          /\ \A x \in Records : x # o => dat'[rec[x].datoff] = dat[rec[x].datoff]
      BY <1>2, <1>5, <2>3, OtherData DEF DelBlankData
    <2>5. LiveData'
      BY <1>2, <1>5, <2>2, <2>4, LiveStep DEF DelBlankData, Records
    <2>6. ChainsKept(p)
      <3>1. pc[p] = "delblank" /\ pc'[p] # pc[p] /\ rec[o].key = call[p].key
        BY <1>2, <1>5 DEF DelBlankData, Known, ChainKnown
      <3>2. ASSUME NEW x \in Chains, NEW z \in List(x), z # o
            PROVE  dat'[rec[z].datoff] = dat[rec[z].datoff]
        BY <1>2, <2>4, <3>2, HomeFacts DEF Chains, Heads
      <3>3. \A x \in Chains : x # h => x \in Heads /\ o \notin List(x)
        BY <1>2, <1>3, <1>5, HomeFacts DEF DelBlankData, Known, ChainKnown, Chains, Heads
      <3>4. QED
        BY <1>2, <1>3, <2>1, <2>2, <3>1, <3>2, <3>3, QuietLists DEF ChainsKept, KeptBut
    <2>7. Known(p)'
      BY <1>2, <1>3, <1>5, <2>1, <2>2, QuietLists
         DEF DelBlankData, Known, ChainKnown, FreeKnown, HandKnown, FrontPcs, MissingPcs,
             Appended, Wrote
    <2>8. QED
      BY <1>2, <2>1, <2>2, <2>4, <2>5, <2>7, <2>6, QuietList
  <1>6. CASE DelReadFree(p)
    <2>1. After' = After
      BY <1>2, <1>6, AfterSame DEF DelReadFree, Unlinking
    <2>2. /\ db' = [db EXCEPT ![p].front = ptr[FREE_OFF], ![p].save = db[p].ptrval]
          /\ pc' = [pc EXCEPT ![p] = "delidx"] /\ pc[p] = "delfree"
      BY <1>6 DEF DelReadFree
    <2>3. /\ db'[p].idxoff = o /\ db'[p].ptroff = u /\ db'[p].ptrval = db[p].ptrval
          /\ db'[p].front = ptr[FREE_OFF] /\ db'[p].save = db[p].ptrval
      BY <1>2, <2>2 DEF Handles
    <2>4. ptr[FREE_OFF] = After[FREE_OFF]
      BY <1>2, <1>3, <2>2, PointerRead DEF Unlinking
    <2>5. rec' = rec /\ UNCHANGED <<ptr, dat>> /\ ~Moving(p) /\ ~Moving(p)' /\ LiveData'
      BY <1>2, <1>6, <2>2, <2>3, QuietData DEF DelReadFree, Moving
    <2>6. Known(p)'
      BY <1>2, <1>3, <2>1, <2>2, <2>3, <2>4, <2>5, QuietLists
         DEF Known, ChainKnown, FreeKnown, HandKnown, FrontPcs, MissingPcs, Appended, Wrote
    <2>7. QED
      BY <1>2, <2>1, <2>5, <2>6, QuietList
  <1>7. CASE DelWriteIdx(p)
    <2>1. /\ pc[p] = "delidx" /\ pc' = [pc EXCEPT ![p] = "delhead"]
          /\ rec' = [rec EXCEPT ![o].key = Blank]
          /\ ptr' = [ptr EXCEPT ![o] = db[p].front]
          /\ db' = [db EXCEPT ![p].ptrval = db[p].front] /\ dat' = dat
      BY <1>2, <1>7 DEF DelWriteIdx
    <2>2. /\ o \in List(h) /\ o \in Records /\ u \in {h} \cup List(h)
          /\ After[u] = o /\ db[p].save = After[o] /\ db[p].front = After[FREE_OFF]
          /\ rec[o].key = call[p].key /\ InFree(p) /\ After[o] \in Records \cup {0}
      BY <1>2, <1>3, <2>1, HomeFacts, AfterType DEF Known, ChainKnown, FreeKnown, InFree
    <2>3. Unlinking = {} /\ Unlinking' = {p}
      <3>1. \A q \in Procs : q # p => q \notin Unlinking
        BY <2>2, LocksExclude DEF Exclusion, Unlinking, InFree
      <3>2. QED
        BY <1>2, <2>1, <3>1 DEF Unlinking, Alone
    <2>4. db'[p].ptroff = u /\ db'[p].save = db[p].save /\ db'[p].idxoff = o
      BY <1>2, <2>1 DEF Handles
    <2>5. /\ Records' = Records /\ rec'[o].key = Blank
          /\ \A x \in Records : rec'[x].datoff = rec[x].datoff
          /\ \A x \in Records : x # o => rec'[x].key = rec[x].key
      BY <1>2, <2>1, <2>2 DEF Records, FilesTypeOK
    <2>6. /\ DOMAIN ptr = Heads \cup Records /\ DOMAIN ptr' = Heads \cup Records
          /\ After = [x \in DOMAIN ptr |-> ptr[x]]
          /\ After' = [x \in DOMAIN ptr' |-> IF x = u THEN db[p].save ELSE ptr'[x]]
      BY <1>2, <2>1, <2>3, <2>4, PointersAreSo DEF PointersAre, FilesTypeOK
    <2>7. /\ After'[u] = After[o]
          /\ \A x \in Heads \cup Records : x # u /\ x # o => After'[x] = After[x]
          /\ o # u => After'[o] = After[FREE_OFF]
      <3>1. u \in Heads \cup Records
        BY <1>2, <1>3, <2>2, HomeFacts
      <3>2. QED
        BY <2>1, <2>2, <2>6, <3>1
    <2>8. /\ ListsOK'
          /\ List(h)' = List(h) \ {o}
          /\ \A x \in Heads : x # h => List(x)' = List(x) /\ Untouched(x)
          /\ \A x \in Heads \cup Records :
               x # o => Home(x)' = Home(x) /\ OnList(x)' = OnList(x)
          /\ ~OnList(o)' /\ o # u /\ OnList(o) /\ OnList(u) /\ Home(u) = h
      BY <1>2, <1>3, <2>2, <2>5, <2>7, CutLists
    <2>9. \A q \in Procs : q # p /\ Moving(q) => db[q].idxoff # o
      BY <1>2, <2>8 DEF HandsOK
    <2>10. HandsOK'
      <3>1. ~Moving(p) /\ Moving(p)'
        BY <1>2, <2>1 DEF Moving
      <3>2. QED
        BY <1>2, <2>2, <2>4, <2>5, <2>8, <2>9, <3>1, HandsStep
    <2>11. LiveData'
      BY <1>2, <2>1, <2>5, LiveStep
    <2>12. ASSUME NEW q \in Procs, q # p PROVE Known(q)'
      <3>1. Spares(q)
        BY <1>2, <1>3, <2>1, <2>2, <2>5, <2>7, <2>8, <2>9, <2>12, OneListSpares
      <3>2. QED
        BY <1>2, <2>5, <2>12, <3>1, OthersKnow
    <2>13. Known(p)'
      <3>1. ChainKnown(p)'
        <4>1. \A x \in List(h)' : rec'[x].key # call[p].key
          BY <1>2, <1>3, <2>2, <2>5, <2>8, HomeFacts DEF ListsOK
        <4>2. u \in {h} \cup List(h)'
          BY <2>2, <2>8
        <4>3. pc'[p] = "delhead" /\ call' = call /\ ChainOff(p)' = h
          BY <1>2, <1>3, <2>1
        <4>4. QED
          BY <2>4, <4>1, <4>2, <4>3 DEF ChainKnown, FrontPcs
      <3>2. FreeKnown(p)' /\ HandKnown(p)'
        <4>1. FREE_OFF # u /\ FREE_OFF # o
          BY <1>2, <1>3, <2>8, <2>2, HomeFacts, AfterType
        <4>2. After'[FREE_OFF] = After[FREE_OFF]
          BY <1>2, <2>7, <4>1
        <4>3. QED
          BY <1>2, <2>1, <2>4, <2>5, <2>7, <2>8, <4>2
             DEF FreeKnown, HandKnown, Appended, Wrote, FREE_OFF
      <3>3. QED
        BY <3>1, <3>2 DEF Known
    <2>14. ChainsKept(p)
      <3>1. ASSUME NEW x \in Chains, x # h PROVE KeptBut(x, 0)
        <4>1. x \in Heads /\ List(x)' = List(x) /\ Untouched(x)
          BY <2>8, <3>1 DEF Chains, Heads
        <4>2. List(x) \subseteq Records
          BY <1>2, <4>1, HomeFacts
        <4>3. QED
          BY <2>1, <2>5, <4>1, <4>2 DEF KeptBut, Untouched
      <3>2. KeptBut(h, o)
        BY <1>2, <1>3, <2>1, <2>5, <2>8, HomeFacts DEF KeptBut
      <3>3. QED
        BY <1>2, <1>3, <2>1, <2>2, <3>1, <3>2 DEF ChainsKept
    <2>15. QED
      BY <2>8, <2>10, <2>11, <2>12, <2>13, <2>14 DEF ListInv
  <1>8. CASE DelWriteFree(p)
    <2>1. /\ pc[p] = "delhead" /\ pc' = [pc EXCEPT ![p] = "delunlink"]
          /\ ptr' = [ptr EXCEPT ![FREE_OFF] = o] /\ UNCHANGED <<rec, dat, db>>
      BY <1>2, <1>8 DEF DelWriteFree
    <2>2. /\ Moving(p) /\ ~Moving(p)' /\ InFree(p) /\ o \in Records /\ ~OnList(o)
          /\ rec[o].key = Blank /\ Home(o) = FREE_OFF /\ After[o] = After[FREE_OFF]
          /\ u \in {h} \cup List(h)
      <3>1. Moving(p) /\ ~Moving(p)' /\ InFree(p)
        BY <1>2, <2>1 DEF Moving, InFree
      <3>2. /\ rec[o].key = Blank /\ After[o] = After[FREE_OFF] /\ u \in {h} \cup List(h)
        BY <1>2, <2>1 DEF Known, ChainKnown, FreeKnown, HandKnown
      <3>3. o \in Records /\ ~OnList(o) /\ o \notin Heads
        BY <1>2, <3>1, RecordFacts DEF HandsOK
      <3>4. QED
        BY <3>1, <3>2, <3>3 DEF Home
    <2>3. Unlinking = {p} /\ Unlinking' = {p}
      <3>1. Unlinking = {p}
        BY <2>1, OneUnlinks DEF Unlinking
      <3>2. QED
        BY <1>2, <2>1, <3>1 DEF Unlinking, Alone
    <2>4. Records' = Records /\ rec' = rec
      BY <2>1 DEF Records
    <2>5. /\ DOMAIN ptr = Heads \cup Records /\ DOMAIN ptr' = Heads \cup Records
          /\ After = [x \in DOMAIN ptr |-> IF x = u THEN db[p].save ELSE ptr[x]]
          /\ After' = [x \in DOMAIN ptr' |-> IF x = u THEN db[p].save ELSE ptr'[x]]
      BY <1>2, <2>1, <2>3, PointersAreSo DEF PointersAre, FilesTypeOK
    <2>6. FREE_OFF # u /\ u \in Heads \cup Records
      BY <1>2, <1>3, <2>2, HomeFacts
    <2>7. /\ After'[FREE_OFF] = o
          /\ \A x \in Heads \cup Records : x # FREE_OFF => After'[x] = After[x]
      BY <1>2, <2>1, <2>5, <2>6
    <2>8. /\ ListsOK'
          /\ \A x \in Heads : x # FREE_OFF => List(x)' = List(x) /\ Untouched(x)
          /\ \A x \in Heads \cup Records :
               x # o => Home(x)' = Home(x) /\ OnList(x)' = OnList(x)
          /\ OnList(o)'
      BY <1>2, <2>2, <2>4, <2>7, PushLists
    <2>9. \A q \in Procs : q # p /\ Moving(q) => db[q].idxoff # o
      BY <1>2, <2>2 DEF HandsOK
    <2>10. HandsOK'
      BY <1>2, <2>2, <2>4, <2>8, <2>9, HandsStep
    <2>11. LiveData'
      BY <1>2, <2>1, QuietData
    <2>12. ASSUME NEW q \in Procs, q # p PROVE Known(q)'
      <3>1. \A x \in Records : ~OnList(x) => After'[x] = After[x]
        BY <1>2, <2>7, AfterType
      <3>2. Spares(q)
        BY <1>2, <2>1, <2>2, <2>4, <2>8, <2>9, <2>12, <3>1, OneListSpares
      <3>3. QED
        BY <1>2, <2>4, <2>12, <3>2, OthersKnow
    <2>13. Known(p)'
      BY <1>2, <1>3, <2>1, <2>2, <2>4, <2>8
         DEF Known, ChainKnown, FreeKnown, HandKnown, FrontPcs, MissingPcs, Appended, Wrote
    <2>14. ChainsKept(p)
      <3>1. \A x \in Chains : x \in Heads /\ x # FREE_OFF
        BY DEF Chains, Heads, FREE_OFF
      <3>2. QED
        BY <2>1, <2>8, <3>1 DEF ChainsKept, KeptBut, Untouched
    <2>15. QED
      BY <2>8, <2>10, <2>11, <2>12, <2>13, <2>14 DEF ListInv
  <1>9. CASE DelUnlink(p)
    <2>1. /\ pc[p] = "delunlink" /\ pc' = [pc EXCEPT ![p] = "delunlock"]
          /\ ptr' = [ptr EXCEPT ![u] = db[p].save] /\ UNCHANGED <<rec, dat, db>>
      BY <1>2, <1>9 DEF DelUnlink
    <2>2. After' = After
      <3>1. Unlinking = {p}
        BY <2>1, OneUnlinks DEF Unlinking
      <3>2. Unlinking' = {}
        BY <1>2, <2>1, <3>1 DEF Unlinking, Alone
      <3>3. After = [x \in DOMAIN ptr |-> IF x = u THEN db[p].save ELSE ptr[x]]
        BY <1>2, <3>1, PointersAreSo DEF PointersAre
      <3>4. After' = [x \in DOMAIN ptr' |-> ptr'[x]]
        BY <3>2, PointersAreSo DEF PointersAre
      <3>5. QED
        BY <1>2, <2>1, <3>3, <3>4
    <2>3. ~Moving(p) /\ ~Moving(p)' /\ LiveData'
      BY <1>2, <2>1, QuietData DEF Moving
    <2>4. Known(p)'
      BY <1>2, <1>3, <2>1, <2>2, QuietLists
         DEF Known, ChainKnown, FreeKnown, HandKnown, FrontPcs, MissingPcs, Appended, Wrote
    <2>5. QED
      BY <1>2, <2>1, <2>2, <2>3, <2>4, QuietList
  <1>10. CASE DelUnlock(p)
    <2>1. /\ pc[p] = "delunlock" /\ pc' = [pc EXCEPT ![p] = pc'[p]]
          /\ pc'[p] \in {"unlock", "refront"} /\ UNCHANGED <<ptr, rec, dat, db>>
      BY <1>2, <1>10 DEF DelUnlock
    <2>2. After' = After
      BY <1>2, <2>1, AfterSame DEF Unlinking
    <2>3. ~Moving(p) /\ ~Moving(p)' /\ LiveData'
      BY <1>2, <2>1, QuietData DEF Moving
    <2>4. Known(p)'
      BY <1>2, <1>3, <2>1, <2>2, QuietLists
         DEF Known, ChainKnown, FreeKnown, HandKnown, FrontPcs, MissingPcs, Appended, Wrote
    <2>5. QED
      BY <1>2, <2>1, <2>2, <2>3, <2>4, QuietList
  <1>11. QED
    BY <1>4, <1>5, <1>6, <1>7, <1>8, <1>9, <1>10 DEF Delete

LEMMA FindFreeLists ==
  ASSUME IInv, FileInv, ListInv, IInv', FileInv', NEW p \in Procs, FindFree(p)
  PROVE  ListInv' /\ ChainsKept(p)
  <1> USE DEF Goto, locks, files
  <1>1. PICK h, o, u : h = ChainOff(p) /\ o = db[p].off /\ u = db[p].save
    OBVIOUS
  <1>2. /\ \A q \in Procs : q # p => Alone(p, q)
        /\ pc[p] # "dead" /\ ListsOK /\ HandsOK /\ LiveData /\ \A q \in Procs : Known(q)
        /\ HandleOK(p) /\ pc \in [Procs -> Positions] /\ db \in [Procs -> Handles]
        /\ FREE_OFF \in Heads /\ Heads' = Heads /\ FilesTypeOK /\ FetchPath(p)
        /\ h = ChainOff(p) /\ o = db[p].off /\ u = db[p].save
    BY <1>1, StepFacts DEF Step
  <1>3. /\ InChain(p) /\ h \in Heads /\ h # FREE_OFF /\ ChainOff(p)' = h
        /\ rec' = rec /\ UNCHANGED <<dat, call, scan>> /\ LiveData'
        /\ p \notin Unlinking /\ p \notin Unlinking'
    <2>1. /\ InChain(p) /\ rec' = rec /\ UNCHANGED <<dat, call, scan>>
          /\ pc[p] \notin {"delfree", "delidx"} /\ p \notin Unlinking /\ p \notin Unlinking'
      BY <1>2 DEF FindFree, FreeLock, FreeHead, FreeWalk, FreeUnlink, FreeUnlock, InChain,
         OutsideChain, Unlinking
    <2>2. QED
      BY <1>2, <2>1, StepFacts, QuietData DEF Step, ChainOff
  <1>4. UNCHANGED ptr => After' = After
    BY <1>2, <1>3, AfterSame
  <1>5. /\ Records' = Records /\ Closed(After, List(FREE_OFF), FREE_OFF)
        /\ \A x \in {FREE_OFF} \cup List(FREE_OFF) : After[x] = ptr[x]
    BY <1>2, <1>3, PointerRead, ListFacts DEF Records
  <1>6. CASE FreeLock(p)
    <2>1. UNCHANGED <<ptr, db>> /\ ~Moving(p) /\ ~Moving(p)'
      BY <1>2, <1>6 DEF FreeLock, Moving
    <2>2. Known(p)'
      BY <1>2, <1>3, <1>4, <1>6, <2>1, QuietLists
         DEF FreeLock, Known, ChainKnown, FreeKnown, HandKnown, FrontPcs, MissingPcs, Appended, Wrote
    <2>3. QED
      BY <1>2, <1>3, <1>4, <2>1, <2>2, QuietList
  <1>7. CASE FreeHead(p)
    <2>1. /\ db' = [db EXCEPT ![p].save = FREE_OFF, ![p].off = ptr[FREE_OFF]]
          /\ pc[p] = "ffhead"
          /\ pc' = [pc EXCEPT ![p] = IF ptr[FREE_OFF] = 0 THEN "ffunlock" ELSE "ffwalk"]
          /\ UNCHANGED ptr
      BY <1>7 DEF FreeHead
    <2>2. /\ db'[p].save = FREE_OFF /\ db'[p].off = After[FREE_OFF]
          /\ db'[p].front = db[p].front
      BY <1>2, <1>5, <2>1 DEF Handles
    <2>3. ~Moving(p) /\ ~Moving(p)'
      BY <1>2, <1>5, <2>1, <2>2 DEF Moving
    <2>4. Known(p)'
      <3>1. After[FREE_OFF] # 0 => After[FREE_OFF] \in List(FREE_OFF)
        BY <1>5 DEF Closed
      <3>2. ChainKnown(p)'
        BY <1>2, <1>3, <1>4, <2>1, <2>2, QuietLists DEF Known, ChainKnown, FrontPcs, MissingPcs
      <3>3. FreeKnown(p)' /\ HandKnown(p)'
        BY <1>2, <1>3, <1>4, <1>5, <2>1, <2>2, <3>1, QuietLists
           DEF FreeKnown, HandKnown, Appended, Wrote, FREE_OFF
      <3>4. QED
        BY <3>2, <3>3 DEF Known
    <2>5. QED
      BY <1>2, <1>3, <1>4, <2>1, <2>3, <2>4, QuietList
  <1>8. CASE FreeWalk(p)
    <2> DEFINE w == WithIdx(db[p], o)
    <2>1. /\ pc[p] = "ffwalk" /\ UNCHANGED ptr
          /\ o \in List(FREE_OFF) /\ u \in {FREE_OFF} \cup List(FREE_OFF) /\ After[u] = o
      BY <1>2, <1>8 DEF FreeWalk, Known, FreeKnown
    <2>2. w.front = db[p].front /\ w.idxoff = o /\ w.ptrval = After[o] /\ w.off = o /\ w.save = u
          /\ {"front", "ptrval", "off", "save"} \subseteq DOMAIN w
      BY <1>2, <1>5, <2>1 DEF WithIdx, Handles
    <2> HIDE DEF w
    <2>3. CASE Fits(p, o)
      <3>1. db' = [db EXCEPT ![p] = w] /\ pc' = [pc EXCEPT ![p] = "ffunlink"]
        BY <1>2, <1>8, <2>3 DEF FreeWalk, w
      <3>2. db'[p] = w /\ pc'[p] = "ffunlink"
        BY <1>2, <3>1
      <3>3. ~Moving(p) /\ ~Moving(p)'
        BY <2>1, <3>2 DEF Moving
      <3>4. ChainKnown(p)'
        BY <1>2, <1>3, <1>4, <2>1, <2>2, <3>2, QuietLists
           DEF Known, ChainKnown, FrontPcs, MissingPcs
      <3>5. FreeKnown(p)' /\ HandKnown(p)'
        BY <1>2, <1>3, <1>4, <2>1, <2>2, <3>2, QuietLists
           DEF FreeKnown, HandKnown, Appended, Wrote, FREE_OFF
      <3>6. QED
        BY <1>2, <1>3, <1>4, <2>1, <3>3, <3>4, <3>5, QuietList DEF Known
    <2>4. CASE ~Fits(p, o)
      <3> DEFINE d == [w EXCEPT !.save = o, !.off = w.ptrval]
      <3>1. /\ db' = [db EXCEPT ![p] = d]
            /\ pc' = [pc EXCEPT ![p] = IF w.ptrval = 0 THEN "ffunlock" ELSE "ffwalk"]
        BY <1>2, <1>8, <2>4 DEF FreeWalk, w
      <3>2. d.front = db[p].front /\ d.save = o /\ d.off = After[o]
        BY <2>2
      <3>3. db'[p] = d /\ pc'[p] = IF After[o] = 0 THEN "ffunlock" ELSE "ffwalk"
        BY <1>2, <2>2, <3>1
      <3> HIDE DEF d
      <3>4. ~Moving(p) /\ ~Moving(p)'
        BY <2>1, <3>2, <3>3 DEF Moving
      <3>5. ChainKnown(p)'
        BY <1>2, <1>3, <1>4, <2>1, <3>2, <3>3, QuietLists
           DEF Known, ChainKnown, FrontPcs, MissingPcs
      <3>6. After[o] # 0 => After[o] \in List(FREE_OFF)
        BY <1>5, <2>1 DEF Closed
      <3>7. FreeKnown(p)' /\ HandKnown(p)'
        BY <1>2, <1>3, <1>4, <2>1, <3>2, <3>3, <3>6, QuietLists
           DEF FreeKnown, HandKnown, Appended, Wrote, FREE_OFF
      <3>8. QED
        BY <1>2, <1>3, <1>4, <2>1, <3>4, <3>5, <3>7, QuietList DEF Known
    <2>5. QED
      BY <2>3, <2>4
  <1>9. CASE FreeUnlink(p)
    <2>1. /\ pc[p] = "ffunlink" /\ pc' = [pc EXCEPT ![p] = "ffunlock"]
          /\ ptr' = [ptr EXCEPT ![u] = db[p].ptrval] /\ UNCHANGED db
      BY <1>2, <1>9 DEF FreeUnlink
    <2>2. /\ o \in List(FREE_OFF) /\ o \in Records /\ u \in {FREE_OFF} \cup List(FREE_OFF)
          /\ After[u] = o /\ db[p].idxoff = o /\ db[p].ptrval = After[o] /\ InFree(p)
          /\ u \in Heads \cup Records /\ o # 0
      BY <1>2, <2>1, HomeFacts, RecordFacts DEF Known, FreeKnown, InFree
    <2>3. Unlinking = {} /\ Unlinking' = {}
      <3>1. \A q \in Procs : q # p => q \notin Unlinking
        BY <2>2, LocksExclude DEF Exclusion, Unlinking, InFree
      <3>2. QED
        BY <1>2, <1>3, <3>1 DEF Unlinking, Alone
    <2>4. /\ DOMAIN ptr = Heads \cup Records /\ DOMAIN ptr' = Heads \cup Records
          /\ After = [x \in DOMAIN ptr |-> ptr[x]] /\ After' = [x \in DOMAIN ptr' |-> ptr'[x]]
      BY <1>2, <2>1, <2>3, PointersAreSo DEF PointersAre, FilesTypeOK
    <2>5. /\ After'[u] = After[o]
          /\ \A x \in Heads \cup Records : x # u => After'[x] = After[x]
      BY <2>1, <2>2, <2>4
    <2>6. /\ ListsOK'
          /\ \A x \in Heads : x # FREE_OFF => List(x)' = List(x) /\ Untouched(x)
          /\ \A x \in Heads \cup Records :
               x # o => Home(x)' = Home(x) /\ OnList(x)' = OnList(x)
          /\ ~OnList(o)' /\ OnList(o) /\ OnList(u)
      BY <1>2, <1>3, <1>5, <2>2, <2>5, CutLists
    <2>7. \A q \in Procs : q # p /\ Moving(q) => db[q].idxoff # o
      BY <1>2, <2>6 DEF HandsOK
    <2>8. HandsOK'
      <3>1. ~Moving(p) /\ Moving(p)'
        BY <1>2, <2>1, <2>2 DEF Moving
      <3>2. QED
        BY <1>2, <1>5, <2>1, <2>2, <2>6, <2>7, <3>1, HandsStep
    <2>9. ASSUME NEW q \in Procs, q # p PROVE Known(q)'
      <3>1. Spares(q)
        BY <1>2, <1>3, <2>1, <2>2, <2>5, <2>6, <2>7, <2>9, OneListSpares
      <3>2. QED
        BY <1>2, <1>5, <2>9, <3>1, OthersKnow
    <2>10. Known(p)'
      <3>1. After'[h] = After[h] /\ List(h)' = List(h)
        BY <1>3, <2>6 DEF Untouched
      <3>2. rec[o].key = Blank
        BY <1>2, <2>2, HomeFacts, KeyFacts
      <3>3. ChainKnown(p)'
        BY <1>2, <1>3, <2>1, <3>1 DEF Known, ChainKnown, FrontPcs, MissingPcs
      <3>4. FreeKnown(p)' /\ HandKnown(p)'
        BY <1>2, <1>3, <2>1, <2>2, <3>2 DEF FreeKnown, HandKnown, Appended, Wrote
      <3>5. QED
        BY <3>3, <3>4 DEF Known
    <2>11. ChainsKept(p)
      <3>1. \A x \in Chains : x \in Heads /\ x # FREE_OFF
        BY DEF Chains, Heads, FREE_OFF
      <3>2. QED
        BY <1>3, <2>1, <2>6, <3>1 DEF ChainsKept, KeptBut, Untouched
    <2>12. QED
      BY <1>3, <2>6, <2>8, <2>9, <2>10, <2>11 DEF ListInv
  <1>10. CASE FreeUnlock(p)
    <2>1. /\ pc[p] = "ffunlock" /\ UNCHANGED <<ptr, db>>
          /\ pc' = [pc EXCEPT ![p] = IF o = 0 THEN "datlock" ELSE "datwrite"]
      BY <1>2, <1>10 DEF FreeUnlock
    <2>2. Moving(p) <=> Moving(p)'
      BY <1>2, <2>1 DEF Moving
    <2>3. Known(p)'
      BY <1>2, <1>3, <1>4, <2>1, QuietLists
         DEF Known, ChainKnown, FreeKnown, HandKnown, FrontPcs, MissingPcs, Appended, Wrote
    <2>4. QED
      BY <1>2, <1>3, <1>4, <2>1, <2>2, <2>3, QuietList
  <1>11. QED
    BY <1>6, <1>7, <1>8, <1>9, <1>10 DEF FindFree

(* The pointers when a step of p writes some, and does not itself take a   *)
(* record out of a chain                                                   *)
LEMMA PointersWritten ==
  ASSUME IInv, FileInv, ListInv, IInv', NEW p \in Procs,
         \A q \in Procs : q # p => Alone(p, q),
         p \notin Unlinking, p \notin Unlinking', InChain(p), call[p].op # "fetch",
         NEW x, NEW y, x = ChainOff(p) \/ (x \notin Heads /\ \A h \in Heads : x \notin List(h)),
         DOMAIN ptr' = DOMAIN ptr \cup {x}, ptr'[x] = y,
         \A z \in DOMAIN ptr : z # x => ptr'[z] = ptr[z]
  PROVE  After'[x] = y /\ \A z \in DOMAIN ptr : z # x => After'[z] = After[z]
  <1>1. PointersAre /\ PointersAre'
    BY PointersAreSo
  <1>2. Unlinking' = Unlinking
    BY DEF Unlinking, Alone
  <1>3. ASSUME NEW q \in Unlinking PROVE x # db[q].ptroff
    <2>1. /\ q \in Procs /\ q # p /\ InChain(q) /\ call[q].op # "fetch"
          /\ ListsOK /\ ChainKnown(q)
      BY DEF Unlinking, InChain, OutsideChain, IInv, FetchPath, ListInv, Known
    <2>2. ChainOff(q) \in Heads /\ ChainOff(p) \in Heads /\ ChainOff(q) # ChainOff(p)
      BY <2>1, AfterType, LocksExclude DEF Exclusion
    <2>3. db[q].ptroff \in {ChainOff(q)} \cup List(ChainOff(q))
      BY <2>1 DEF ChainKnown, Unlinking
    <2>4. Home(db[q].ptroff) = ChainOff(q) /\ Home(ChainOff(p)) = ChainOff(p)
      BY <2>1, <2>2, <2>3, HomeFacts
    <2>5. QED
      BY <2>2, <2>3, <2>4
  <1>4. CASE Unlinking = {}
    BY <1>1, <1>2, <1>4 DEF PointersAre
  <1>5. CASE Unlinking # {}
    <2>1. PICK q \in Unlinking : TRUE
      BY <1>5
    <2>2. db'[q] = db[q]
      BY <2>1 DEF Alone, Unlinking
    <2>3. QED
      BY <1>1, <1>2, <1>3, <2>1, <2>2 DEF PointersAre
  <1>6. QED
    BY <1>4, <1>5

LEMMA WriteLists ==
  ASSUME IInv, FileInv, ListInv, IInv', FileInv', NEW p \in Procs, Write(p)
  PROVE  ListInv' /\ ChainsKept(p)
  <1> USE DEF Goto, locks, files
  <1>1. PICK h, o : h = ChainOff(p) /\ o = db[p].idxoff
    OBVIOUS
  <1>2. /\ \A q \in Procs : q # p => Alone(p, q)
        /\ pc[p] # "dead" /\ ListsOK /\ HandsOK /\ LiveData /\ \A q \in Procs : Known(q)
        /\ HandleOK(p) /\ pc \in [Procs -> Positions] /\ db \in [Procs -> Handles]
        /\ FREE_OFF \in Heads /\ Heads' = Heads /\ FilesTypeOK /\ FetchPath(p)
        /\ h = ChainOff(p) /\ o = db[p].idxoff
    BY <1>1, StepFacts DEF Step
  <1>3. /\ InChain(p) /\ h \in Heads /\ h # FREE_OFF /\ ChainOff(p)' = h
        /\ call[p].op # "fetch" /\ call[p].key \in Keys /\ call[p].key # Blank
        /\ UNCHANGED <<call, scan>>
        /\ pc[p] \notin {"delfree", "delidx"} /\ p \notin Unlinking /\ p \notin Unlinking'
    <2>1. /\ InChain(p) /\ UNCHANGED <<call, scan>>
          /\ pc[p] \notin {"delfree", "delidx"} /\ p \notin Unlinking /\ p \notin Unlinking'
          /\ pc[p] \notin {"head", "walk", "readdat", "unlock"}
      BY <1>2 DEF Write, ReadFront, DatLock, DatSeekEnd, DatWrite, DatUnlock, IdxLock,
         IdxSeekEnd, IdxWrite, IdxUnlock, Link, InChain, OutsideChain, Unlinking
    <2>2. QED
      BY <1>2, <2>1, StepFacts DEF Step, ChainOff, FetchPath
  <1>4. /\ UNCHANGED ptr => After' = After
        /\ UNCHANGED <<rec, dat>> => LiveData'
    BY <1>2, <1>3, AfterSame, QuietData
  <1>5. CASE ReadFront(p)
    <2>1. /\ pc[p] \in {"front", "refront"} /\ UNCHANGED <<ptr, rec, dat>>
          /\ db' = [db EXCEPT ![p].front = ptr[h]]
          /\ pc' = [pc EXCEPT ![p] = IF pc[p] = "front" THEN "fflock" ELSE "datlock"]
      BY <1>2, <1>5 DEF ReadFront
    <2>2. db'[p].front = ptr[h] /\ ptr[h] = After[h]
      BY <1>2, <1>3, <2>1, PointerRead DEF Handles
    <2>3. ~Moving(p) /\ ~Moving(p)'
      BY <1>2, <2>1 DEF Moving
    <2>4. Known(p)'
      BY <1>2, <1>3, <1>4, <2>1, <2>2, QuietLists
         DEF Known, ChainKnown, FreeKnown, HandKnown, FrontPcs, MissingPcs, Appended, Wrote
    <2>5. QED
      BY <1>2, <1>3, <1>4, <2>1, <2>3, <2>4, QuietList
  <1>6. CASE DatLock(p) \/ DatUnlock(p) \/ IdxLock(p) \/ IdxUnlock(p)
    <2>1. UNCHANGED <<ptr, rec, dat, db>> /\ (Moving(p) <=> Moving(p)')
      BY <1>2, <1>6 DEF DatLock, DatUnlock, IdxLock, IdxUnlock, Moving
    <2>2. Known(p)'
      BY <1>2, <1>3, <1>4, <1>6, <2>1, QuietLists
         DEF DatLock, DatUnlock, IdxLock, IdxUnlock, Known, ChainKnown, FreeKnown, HandKnown,
             FrontPcs, MissingPcs, Appended, Wrote
    <2>3. QED
      BY <1>2, <1>3, <1>4, <2>1, <2>2, QuietList
  <1>7. CASE DatSeekEnd(p) \/ IdxSeekEnd(p)
    <2>1. /\ UNCHANGED <<ptr, rec, dat>> /\ ~Moving(p) /\ ~Moving(p)'
          /\ pc[p] \in {"datseek", "idxseek"}
          /\ pc'[p] = IF pc[p] = "datseek" THEN "datappend" ELSE "idxappend"
      BY <1>2, <1>7 DEF DatSeekEnd, IdxSeekEnd, Moving
    <2>2. /\ db'[p].front = db[p].front
          /\ pc[p] = "idxseek" => db'[p].datoff = db[p].datoff
      BY <1>2, <1>7 DEF DatSeekEnd, IdxSeekEnd, Handles
    <2>3. Known(p)'
      BY <1>2, <1>3, <1>4, <2>1, <2>2, QuietLists
         DEF Known, ChainKnown, FreeKnown, HandKnown, FrontPcs, MissingPcs, Appended, Wrote
    <2>4. QED
      BY <1>2, <1>3, <1>4, <2>1, <2>3, QuietList
  <1>8. CASE DatWrite(p)
    <2>1. /\ pc[p] \in {"datappend", "datwrite", "overwrite"} /\ UNCHANGED <<ptr, rec>>
          /\ dat' = Put(dat, db[p].datoff, call[p].data)
          /\ db' = [db EXCEPT ![p].datlen = DatLen[call[p].data]]
          /\ pc' = [pc EXCEPT ![p] = pc'[p]]
          /\ pc[p] = "datappend" => pc'[p] = "datunlock"
          /\ pc[p] = "datwrite" => pc'[p] = "idxwrite"
          /\ pc[p] = "overwrite" => pc'[p] = "unlock"
      BY <1>2, <1>8 DEF DatWrite
    <2>2. /\ db'[p].front = db[p].front /\ db'[p].datoff = db[p].datoff
          /\ db'[p].idxoff = o
      BY <1>2, <2>1 DEF Handles
    <2>3. call[p].data # Blank
      BY <1>2, <1>3, <2>1, BlankAssumption, StepFacts
         DEF HandleOK, StorePcs, WriteOps, Calls, Step
    <2>4. \/ pc[p] = "datappend"
          \/ pc[p] = "datwrite" /\ AtRecord(p) /\ Moving(p) /\ rec[o].key = Blank
          \/ pc[p] = "overwrite" /\ AtRecord(p) /\ OnList(o) /\ rec[o].datoff = db[p].datoff
      BY <1>2, <1>3, <2>1, HomeFacts
         DEF AtRecord, Moving, Known, ChainKnown, HandKnown, HandleOK
    <2>5. /\ \A q \in Procs : q # p /\ Wrote(q) =>
               dat'[db[q].datoff] = dat[db[q].datoff]
          /\ \A x \in Records : pc[p] = "datappend" \/ x # o =>
               dat'[rec[x].datoff] = dat[rec[x].datoff]
          /\ dat'[db[p].datoff] = call[p].data
      BY <1>2, <2>1, <2>4, OtherData
    <2>6. LiveData'
      <3>1. CASE pc[p] = "datappend"
        <4>1. PICK n : n = idxend
          OBVIOUS
        <4>2. n \notin Records /\ Records' = Records
          BY <1>2, <2>1, <4>1, RecordFacts DEF Records
        <4>3. QED
          BY <1>2, <1>3, <2>1, <2>5, <3>1, <4>2, LiveStep
      <3>2. CASE pc[p] # "datappend"
        <4>1. Records' = Records
          BY <2>1 DEF Records
        <4>2. rec'[o].key # Blank => dat'[rec'[o].datoff] # Blank
          BY <2>1, <2>3, <2>4, <2>5, <3>2
        <4>3. QED
          BY <1>2, <1>3, <2>1, <2>5, <3>2, <4>1, <4>2, LiveStep
      <3>3. QED
        BY <3>1, <3>2
    <2>7. ChainsKept(p)
      <3>1. ASSUME NEW x \in Chains PROVE x \in Heads /\ \A z \in List(x) : z \in Records /\ OnList(z) /\ Home(z) = x
        BY <1>2, HomeFacts DEF Chains, Heads
      <3>2. CASE pc[p] = "datappend"
        BY <2>1, <2>5, <3>1, <3>2, <1>4, QuietLists DEF ChainsKept, KeptBut
      <3>3. CASE pc[p] = "datwrite"
        <4>1. ~OnList(o)
          BY <1>2, <2>4, <3>3 DEF HandsOK
        <4>2. QED
          BY <2>1, <2>5, <3>1, <4>1, <1>4, QuietLists DEF ChainsKept, KeptBut
      <3>4. CASE pc[p] = "overwrite"
        <4>1. o \in List(h) /\ rec[o].key = call[p].key
          BY <1>2, <3>4 DEF Known, ChainKnown
        <4>2. \A x \in Chains : x # h => o \notin List(x)
          BY <1>2, <1>3, <3>1, <4>1, HomeFacts
        <4>3. pc'[p] # pc[p]
          BY <2>1, <3>4
        <4>4. QED
          BY <1>2, <1>3, <2>1, <2>5, <3>1, <3>4, <4>1, <4>2, <4>3, <1>4, QuietLists
             DEF ChainsKept, KeptBut
      <3>5. QED
        BY <2>1, <3>2, <3>3, <3>4
    <2>8. Moving(p) <=> Moving(p)'
      BY <1>2, <2>1 DEF Moving
    <2>9. Known(p)'
      BY <1>2, <1>3, <1>4, <2>1, <2>2, <2>3, <2>4, <2>5, QuietLists
         DEF Known, ChainKnown, FreeKnown, HandKnown, FrontPcs, MissingPcs, Appended, Wrote
    <2>10. QED
      BY <1>2, <1>3, <1>4, <2>1, <2>2, <2>5, <2>6, <2>8, <2>9, <2>7, QuietList
  <1>9. CASE IdxWrite(p)
    <2>1. /\ pc[p] \in {"idxappend", "idxwrite"} /\ UNCHANGED <<dat, db>>
          /\ rec' = Put(rec, o, IndexRecord(call[p].key, db[p].datoff, db[p].datlen))
          /\ ptr' = Put(ptr, o, db[p].front)
          /\ pc' = [pc EXCEPT ![p] = pc'[p]] /\ pc'[p] \in {"idxunlock", "link"}
      BY <1>2, <1>9 DEF IdxWrite
    <2>2. /\ rec'[o].key = call[p].key /\ rec'[o].datoff = db[p].datoff
          /\ \A x \in Records : x # o => rec'[x] = rec[x]
          /\ Records' = Records \cup {o}
      BY <2>1 DEF Put, Records, IndexRecord
    <2>3. /\ DOMAIN ptr = Heads \cup Records /\ DOMAIN ptr' = DOMAIN ptr \cup {o}
          /\ ptr'[o] = db[p].front /\ \A z \in DOMAIN ptr : z # o => ptr'[z] = ptr[z]
      BY <1>2, <2>1 DEF Put, FilesTypeOK
    <2>4. o \notin Heads /\ \A x \in Heads : o \notin List(x)
      <3>1. CASE pc[p] = "idxappend"
        <4>1. o = idxend /\ o \notin Records /\ o \notin Heads
          BY <1>2, <3>1, RecordFacts, NHashAssumption DEF HandleOK, FilesTypeOK, Heads
        <4>2. QED
          BY <1>2, <4>1, HomeFacts
      <3>2. CASE pc[p] = "idxwrite"
        <4>1. Moving(p)
          BY <3>2 DEF Moving
        <4>2. o \in Records /\ ~OnList(o)
          BY <1>2, <4>1 DEF HandsOK
        <4>3. QED
          BY <1>2, <4>2, HomeFacts, RecordFacts
      <3>3. QED
        BY <2>1, <3>1, <3>2
    <2>5. After'[o] = db[p].front /\ \A x \in Heads \cup Records : x # o => After'[x] = After[x]
      BY <1>2, <1>3, <2>3, <2>4, PointersWritten
    <2>6. /\ ListsOK'
          /\ \A x \in Heads : List(x)' = List(x) /\ Untouched(x)
          /\ \A x \in Heads \cup Records :
               x # o => Home(x)' = Home(x) /\ OnList(x)' = OnList(x)
          /\ ~OnList(o)'
      BY <1>2, <2>2, <2>4, <2>5, AsideLists
    <2>7. \A q \in Procs : q # p /\ Moving(q) => db[q].idxoff # o
      <3>1. CASE pc[p] = "idxappend"
        BY <1>2, <3>1, RecordFacts DEF HandleOK, HandsOK
      <3>2. CASE pc[p] = "idxwrite"
        BY <1>2, <3>2 DEF HandsOK, Moving
      <3>3. QED
        BY <2>1, <3>1, <3>2
    <2>8. HandsOK'
      <3>1. Moving(p)'
        BY <2>1 DEF Moving
      <3>2. QED
        BY <1>2, <2>1, <2>2, <2>6, <2>7, <3>1, HandsStep
    <2>9. LiveData'
      <3>1. dat[db[p].datoff] # Blank
        BY <1>2, <1>3, <2>1, BlankAssumption, StepFacts
           DEF HandleOK, StorePcs, WriteOps, Calls, Step, Known, HandKnown, Appended, Wrote
      <3>2. \A x \in Records : x # o =>
              /\ rec'[x].key = rec[x].key /\ rec'[x].datoff = rec[x].datoff
              /\ dat'[rec[x].datoff] = dat[rec[x].datoff]
        BY <2>1, <2>2
      <3>3. dat'[rec'[o].datoff] # Blank
        BY <2>1, <2>2, <3>1
      <3>4. LiveData /\ (\A q \in Procs : q # p => Alone(p, q)) /\ Records' \subseteq Records \cup {o}
        BY <1>2, <2>2
      <3>5. pc[p] \in {"delfree", "delidx"} => db[p].idxoff = o
        BY <1>3
      <3>6. QED
        BY <3>2, <3>3, <3>4, <3>5, LiveStep
    <2>10. ASSUME NEW q \in Procs, q # p PROVE Known(q)'
      <3>1. pc[q] = "nextdat" => scan[q].idxoff \in Records /\ scan[q].idxoff # o
        <4>1. pc[q] = "nextdat" =>
                scan[q].idxoff \in Records /\ rec[scan[q].idxoff].key # Blank
          BY <1>2 DEF FileInv, HandleOK, Known, FreeKnown
        <4>2. pc[p] = "idxwrite" => rec[o].key = Blank
          BY <1>2 DEF Known, HandKnown
        <4>3. pc[p] = "idxappend" => o \notin Records
          BY <1>2, RecordFacts DEF HandleOK
        <4>4. QED
          BY <2>1, <4>1, <4>2, <4>3
      <3>2. Moving(q) => db[q].idxoff \in Records /\ db[q].idxoff # o
        BY <1>2, <2>7, <2>10 DEF HandsOK
      <3>3. InChain(q) => ChainOff(q) \in Heads
        BY AfterType
      <3>4. Spares(q)
        BY <1>2, <2>1, <2>2, <2>5, <2>6, <3>1, <3>2, <3>3 DEF Spares
      <3>5. QED
        BY <1>2, <2>2, <2>10, <3>4, OthersKnow
    <2>11. Known(p)'
      <3>1. /\ \A x \in List(h)' : rec'[x].key # call[p].key
            /\ db[p].front = After'[h]
        BY <1>2, <1>3, <2>1, <2>6 DEF Known, ChainKnown, FrontPcs, MissingPcs, Untouched
      <3>2. ChainKnown(p)'
        BY <1>3, <2>1, <3>1 DEF ChainKnown, FrontPcs, MissingPcs
      <3>3. FreeKnown(p)' /\ HandKnown(p)'
        BY <1>2, <1>3, <2>1, <2>2, <2>5 DEF Known, FreeKnown, HandKnown, Appended, Wrote
      <3>4. QED
        BY <3>2, <3>3 DEF Known
    <2>12. ChainsKept(p)
      <3>1. ASSUME NEW x \in Chains, NEW z \in List(x)
            PROVE  x \in Heads /\ z \in Records /\ z # o
        <4>1. x \in Heads
          BY DEF Chains, Heads
        <4>2. QED
          BY <1>2, <2>4, <4>1, HomeFacts
      <3>2. \A x \in Chains : List(x)' = List(x)
        BY <2>6 DEF Chains, Heads
      <3>3. QED
        BY <2>1, <2>2, <3>1, <3>2 DEF ChainsKept, KeptBut
    <2>13. QED
      BY <2>6, <2>8, <2>9, <2>10, <2>11, <2>12 DEF ListInv
  <1>10. CASE Link(p)
    <2>1. /\ pc[p] = "link" /\ pc' = [pc EXCEPT ![p] = "unlock"]
          /\ ptr' = [ptr EXCEPT ![h] = o] /\ UNCHANGED <<rec, dat, db>>
      BY <1>2, <1>10 DEF Link
    <2>2. Moving(p) /\ ~Moving(p)' /\ o \in Records /\ ~OnList(o)
      BY <1>2, <2>1 DEF Moving, HandsOK
    <2>3. /\ rec[o].key = call[p].key /\ Home(o) = h /\ After[o] = After[h]
          /\ \A n \in List(h) : rec[n].key # call[p].key
      <3>1. /\ rec[o].key = call[p].key /\ After[o] = After[h]
            /\ \A n \in List(h) : rec[n].key # call[p].key
        BY <1>2, <2>1 DEF Known, ChainKnown, HandKnown, FrontPcs, MissingPcs
      <3>2. QED
        BY <1>2, <1>3, <2>2, <3>1, KeyFacts DEF ChainOff
    <2>4. /\ DOMAIN ptr = Heads \cup Records /\ DOMAIN ptr' = DOMAIN ptr \cup {h}
          /\ ptr'[h] = o /\ \A z \in DOMAIN ptr : z # h => ptr'[z] = ptr[z]
          /\ Records' = Records
      BY <1>2, <1>3, <2>1 DEF FilesTypeOK, Records
    <2>5. After'[h] = o /\ \A x \in Heads \cup Records : x # h => After'[x] = After[x]
      BY <1>2, <1>3, <2>4, PointersWritten
    <2>6. /\ ListsOK'
          /\ \A x \in Heads : x # h => List(x)' = List(x) /\ Untouched(x)
          /\ \A x \in Heads \cup Records :
               x # o => Home(x)' = Home(x) /\ OnList(x)' = OnList(x)
          /\ OnList(o)' /\ List(h)' = List(h) \cup {o}
      BY <1>2, <1>3, <2>1, <2>2, <2>3, <2>4, <2>5, PushLists
    <2>7. List(h)' = List(h) \cup {o}
      BY <2>6
    <2>8. \A q \in Procs : q # p /\ Moving(q) => db[q].idxoff # o
      BY <1>2, <2>2 DEF HandsOK
    <2>9. HandsOK'
      BY <1>2, <2>2, <2>4, <2>6, <2>8, HandsStep
    <2>10. ASSUME NEW q \in Procs, q # p PROVE Known(q)'
      <3>1. \A x \in Records : ~OnList(x) => After'[x] = After[x]
        BY <1>3, <2>5, AfterType
      <3>2. Spares(q)
        BY <1>2, <1>3, <2>1, <2>6, <2>8, <2>10, <3>1, OneListSpares
      <3>3. QED
        BY <1>2, <2>4, <2>10, <3>2, OthersKnow
    <2>11. Known(p)'
      BY <1>2, <2>1
         DEF Known, ChainKnown, FreeKnown, HandKnown, FrontPcs, MissingPcs, Appended, Wrote
    <2>12. ChainsKept(p)
      <3>1. \A x \in Chains : x # h => KeptBut(x, 0)
        BY <2>1, <2>6 DEF Chains, Heads, KeptBut, Untouched
      <3>2. KeptBut(h, o)
        BY <2>1, <2>7 DEF KeptBut
      <3>3. QED
        BY <1>2, <1>3, <2>1, <2>3, <2>7, <3>1, <3>2 DEF ChainsKept
    <2>13. QED
      BY <1>4, <2>1, <2>6, <2>9, <2>10, <2>11, <2>12 DEF ListInv
  <1>11. QED
    BY <1>5, <1>6, <1>7, <1>8, <1>9, <1>10 DEF Write

LEMMA OtherLists ==
  ASSUME ~CrashMidway, IInv, FileInv, ListInv, IInv', FileInv', NEW p \in Procs,
         Begin(p) \/ Rewind(p) \/ Nextrec(p) \/ Crash(p)
  PROVE  ListInv' /\ ChainsKept(p)
  <1> USE DEF Goto, locks, files
  <1>1. /\ \A q \in Procs : q # p => Alone(p, q)
        /\ pc[p] # "dead" /\ ListsOK /\ HandsOK /\ LiveData /\ \A q \in Procs : Known(q)
        /\ HandleOK(p) /\ pc \in [Procs -> Positions] /\ db \in [Procs -> Handles]
        /\ scan \in [Procs -> Scans] /\ FilesTypeOK
    BY StepFacts DEF Step, FileInv
  <1>2. /\ UNCHANGED <<ptr, rec, dat>>
        /\ pc[p] \notin {"delfree", "delidx"} /\ p \notin Unlinking /\ p \notin Unlinking'
    <2>1. /\ UNCHANGED <<ptr, rec, dat>> /\ p \notin Unlinking'
          /\ pc[p] \notin {"delfree", "delidx", "delhead", "delunlink"}
      BY <1>1 DEF Begin, Rewind, Nextrec, NextLock, NextRead, NextDat, NextUnlock, Crash,
         Midway, Unlinking
    <2>2. QED
      BY <2>1 DEF Unlinking
  <1>3. After' = After /\ LiveData'
    BY <1>1, <1>2, AfterSame, QuietData
  <1>4. CASE Begin(p)
    <2>1. pc'[p] = "lock" /\ ~Moving(p) /\ ~Moving(p)' /\ db'[p].ptroff = ChainOff(p)'
      <3>1. PICK c \in Requests : /\ call' = [call EXCEPT ![p] = c]
                                  /\ db' = [db EXCEPT ![p] = [NoDB EXCEPT !.ptroff = Hash[c.key]]]
        BY <1>4 DEF Begin
      <3>2. call'[p] = c /\ db'[p].ptroff = Hash[c.key]
        BY <1>1, <3>1 DEF IInv, LocksTypeOK, NoDB
      <3>3. QED
        BY <1>1, <1>4, <3>2 DEF Begin, Moving, ChainOff
    <2>2. Known(p)'
      BY <2>1 DEF Known, ChainKnown, FreeKnown, HandKnown, FrontPcs, MissingPcs, Appended, Wrote
    <2>3. QED
      BY <1>1, <1>2, <1>3, <2>1, <2>2, QuietList
  <1>5. CASE Rewind(p) \/ NextLock(p) \/ NextDat(p) \/ NextUnlock(p)
    <2>1. ~Moving(p) /\ ~Moving(p)' /\ pc'[p] \in {"scan", "nextread", "nextunlock", "idle"}
      BY <1>1, <1>5 DEF Rewind, NextLock, NextDat, NextUnlock, Moving
    <2>2. Known(p)'
      BY <2>1 DEF Known, ChainKnown, FreeKnown, HandKnown, FrontPcs, MissingPcs, Appended, Wrote
    <2>3. QED
      BY <1>1, <1>2, <1>3, <2>1, <2>2, QuietList
  <1>6. CASE NextRead(p)
    <2>1. /\ ~Moving(p) /\ ~Moving(p)' /\ pc'[p] \in {"nextread", "nextdat", "nextunlock"}
          /\ pc'[p] = "nextdat" => rec[scan'[p].idxoff].key = scan'[p].key
                                   /\ scan'[p].key # Blank
      BY <1>1, <1>6 DEF NextRead, Moving, Scans
    <2>2. Known(p)'
      BY <1>2, <2>1 DEF Known, ChainKnown, FreeKnown, HandKnown, FrontPcs, MissingPcs, Appended, Wrote
    <2>3. QED
      BY <1>1, <1>2, <1>3, <2>1, <2>2, QuietList
  <1>7. CASE Crash(p)
    <2>1. ~Moving(p)' /\ pc'[p] = "dead" /\ db' = db
      BY <1>1, <1>7 DEF Crash, Moving
    <2>2. Known(p)'
      BY <2>1 DEF Known, ChainKnown, FreeKnown, HandKnown, FrontPcs, MissingPcs, Appended, Wrote
    <2>3. QED
      BY <1>1, <1>2, <1>3, <2>1, <2>2, QuietList
  <1>8. QED
    BY <1>4, <1>5, <1>6, <1>7 DEF Nextrec

LEMMA InitListInv == Init => ListInv
  <1> SUFFICES ASSUME Init PROVE ListInv
    OBVIOUS
  <1>1. Records = {} /\ (\A p \in Procs : pc[p] = "idle") /\ ptr = [x \in Heads |-> 0]
    BY DEF Init, Records, Heads
  <1>2. /\ \A h : List(h) = {}
        /\ \A x : OnList(x) => x \in Heads
    BY <1>1 DEF List, Reach, OnList, Records
  <1>3. \A x \in Heads : After[x] = 0
    BY <1>1 DEF After, Unlinking
  <1>4. ListsOK
    BY <1>1, <1>2, <1>3 DEF ListsOK
  <1>5. HandsOK /\ LiveData
    BY <1>1 DEF HandsOK, LiveData, Moving
  <1>6. \A p \in Procs : Known(p)
    BY <1>1 DEF Known, ChainKnown, FreeKnown, HandKnown, FrontPcs, MissingPcs, Appended, Wrote
  <1>7. QED
    BY <1>4, <1>5, <1>6 DEF ListInv

LEMMA StepLists ==
  ASSUME ~CrashMidway, IInv, FileInv, ListInv, NEW p \in Procs,
         Begin(p) \/ Rewind(p) \/ Step(p) \/ Crash(p)
  PROVE  ListInv' /\ ChainsKept(p)
  <1>1. IInv' /\ FileInv'
    BY NextIInv, NextFileInv DEF Next
  <1>2. CASE Find(p)
    BY <1>1, <1>2, FindLists
  <1>3. CASE Delete(p)
    BY <1>1, <1>3, DeleteLists
  <1>4. CASE FindFree(p)
    BY <1>1, <1>4, FindFreeLists
  <1>5. CASE Write(p)
    BY <1>1, <1>5, WriteLists
  <1>6. CASE Begin(p) \/ Rewind(p) \/ Nextrec(p) \/ Crash(p)
    BY <1>1, <1>6, OtherLists
  <1>7. QED
    BY <1>2, <1>3, <1>4, <1>5, <1>6 DEF Step

LEMMA NextListInv ==
  ASSUME ~CrashMidway, IInv, FileInv, ListInv, [Next]_vars
  PROVE  ListInv'
  <1>1. CASE UNCHANGED vars
    <2>1. /\ After' = After /\ rec' = rec /\ UNCHANGED <<dat, pc, db, call, scan>>
      BY <1>1 DEF vars, files, After, Unlinking
    <2>2. ListsOK' /\ HandsOK' /\ LiveData'
      BY <2>1, QuietLists DEF ListInv, ListsOK, HandsOK, LiveData, Moving
    <2>3. ASSUME NEW p \in Procs PROVE Known(p)'
      BY <2>1, QuietLists DEF ListInv, Known, ChainKnown, FreeKnown, HandKnown, Appended, Wrote, ChainOff
    <2>4. QED
      BY <2>2, <2>3 DEF ListInv
  <1>2. CASE Next /\ ~UNCHANGED vars
    <2>1. PICK p \in Procs : Begin(p) \/ Rewind(p) \/ Step(p) \/ Crash(p)
      BY <1>2 DEF Next, Finished
    <2>2. QED
      BY <2>1, StepLists
  <1>3. QED
    BY <1>1, <1>2

-----------------------------------------------------------------------------
(* The theorems                                                            *)

(* The lists and what every call knows of them, whatever the interleaving  *)
(* and whoever dies between two steps, but for the steps that take a       *)
(* record out of its chain (db.c:413, _db_dodelete writes three pointers). *)
THEOREM ListsSound == ~CrashMidway => (Spec => []ListInv)
  <1> SUFFICES ASSUME ~CrashMidway PROVE Spec => []ListInv
    OBVIOUS
  <1>1. IInv /\ FileInv /\ ListInv /\ [Next]_vars => ListInv'
    BY NextListInv
  <1>2. QED
    BY <1>1, InitListInv, LockDiscipline, FilesSound, PTL DEF Spec

(* A chain holds the live records whose key hashes to it, each key once,   *)
(* and the free list the deleted ones: two calls that store the same new   *)
(* key never both find it missing.                                         *)
THEOREM EveryKeyPlaced == ~CrashMidway => (Spec => []KeysPlaced)
  <1> SUFFICES ASSUME ~CrashMidway PROVE Spec => []KeysPlaced
    OBVIOUS
  <1>1. IInv /\ FileInv /\ ListInv => KeysPlaced
    <2> SUFFICES ASSUME IInv, FileInv, ListInv PROVE KeysPlaced
      OBVIOUS
    <2>1. ListsOK /\ FREE_OFF \in Heads /\ \A h \in Chains : h \in Heads /\ h # FREE_OFF
      BY AfterType DEF ListInv, Chains, Heads, FREE_OFF
    <2>2. ASSUME NEW h \in Chains, NEW o \in Chain(h)
          PROVE  /\ o \in Records /\ OnList(o)
                 /\ rec[o].key # Blank /\ Hash[rec[o].key] = h
      BY <2>1, HomeFacts, KeyFacts DEF Chain
    <2>3. \A h \in Chains : \A o, n \in Chain(h) : rec[n].key = rec[o].key => n = o
      BY <2>1, <2>2 DEF ListsOK
    <2>4. \A o \in FreeList : rec[o].key = Blank
      BY <2>1, HomeFacts, KeyFacts DEF FreeList
    <2>5. QED
      BY <2>2, <2>3, <2>4 DEF KeysPlaced
  <1>2. QED
    BY <1>1, ListsSound, LockDiscipline, FilesSound, PTL

(* The record db_nextrec returns is not deleted between the read of its    *)
(* index record and the read of its data (db.c:842).                       *)
THEOREM NextrecIntact == ~CrashMidway => (Spec => []NextIntact)
  <1> SUFFICES ASSUME ~CrashMidway PROVE Spec => []NextIntact
    OBVIOUS
  <1>1. IInv /\ FileInv /\ ListInv => NextIntact
    <2> SUFFICES ASSUME IInv, FileInv, ListInv, NEW p \in Procs, pc[p] = "nextdat"
                 PROVE  /\ rec[scan[p].idxoff].key = scan[p].key
                        /\ rec[scan[p].idxoff].datoff = scan[p].datoff
                        /\ dat[scan[p].datoff] # Blank
      BY DEF NextIntact
    <2>1. /\ scan[p].idxoff \in Records /\ scan[p].datoff = rec[scan[p].idxoff].datoff
          /\ rec[scan[p].idxoff].key = scan[p].key /\ scan[p].key # Blank
      BY DEF FileInv, HandleOK, ListInv, Known, FreeKnown
    <2>2. \A q \in Procs : pc[q] \notin {"delfree", "delidx"}
      BY LocksExclude DEF Exclusion, InFree, InNext
    <2>3. QED
      BY <2>1, <2>2 DEF ListInv, LiveData
  <1>2. QED
    BY <1>1, ListsSound, LockDiscipline, FilesSound, PTL

(* No record is on two lists or on none, but for those in the hands of the *)
(* calls that move them and at most one for every process that died.       *)
THEOREM ListsArePartition == ~CrashMidway => (Spec => []ListsPartition)
  <1> SUFFICES ASSUME ~CrashMidway PROVE Spec => []ListsPartition
    OBVIOUS
  <1>1. IInv /\ FileInv /\ ListInv => ListsPartition
    <2> SUFFICES ASSUME IInv, FileInv, ListInv PROVE ListsPartition
      OBVIOUS
    <2> DEFINE dead == {p \in Procs : pc[p] = "dead"}
               places(o) == Cardinality({h \in Chains : o \in Chain(h)})
                              + (IF o \in FreeList THEN 1 ELSE 0)
                              + (IF o \in InHand THEN 1 ELSE 0)
    <2>1. /\ ListsOK /\ HandsOK /\ FREE_OFF \in Heads
          /\ \A h \in Chains : h \in Heads /\ h # FREE_OFF
      BY AfterType DEF ListInv, Chains, Heads, FREE_OFF
    <2>2. \A o : o \in InHand <=> \E p \in Procs : Moving(p) /\ db[p].idxoff = o
      BY DEF InHand, Moving
    <2>3. \A o \in InHand : ~OnList(o)
      BY <2>1, <2>2 DEF HandsOK
    <2>4. ASSUME NEW o \in Records
          PROVE  /\ places(o) <= 1
                 /\ places(o) = 0 => ~OnList(o) /\ o \notin InHand
      <3>1. \A h \in Chains : o \in Chain(h) => Home(o) = h /\ OnList(o)
        BY <2>1, HomeFacts DEF Chain
      <3>2. o \in FreeList => Home(o) = FREE_OFF /\ OnList(o)
        BY <2>1, HomeFacts DEF FreeList
      <3>3. CASE ~OnList(o)
        <4>1. {h \in Chains : o \in Chain(h)} = {} /\ o \notin FreeList
          BY <3>1, <3>2, <3>3
        <4>2. QED
          BY <3>3, <4>1, FS_EmptySet
      <3>4. CASE OnList(o) /\ Home(o) = FREE_OFF
        <4>1. {h \in Chains : o \in Chain(h)} = {} /\ o \notin InHand /\ o \in FreeList
          BY <2>1, <2>3, <3>1, <3>4, RecordFacts DEF OnList, FreeList, FileInv
        <4>2. QED
          BY <4>1, FS_EmptySet
      <3>5. CASE OnList(o) /\ Home(o) # FREE_OFF
        <4>1. Home(o) \in Chains /\ o \notin Heads
          BY <3>5, KeyFacts, RecordFacts DEF FileInv
        <4>2. {h \in Chains : o \in Chain(h)} = {Home(o)} /\ o \notin InHand /\ o \notin FreeList
          BY <2>3, <3>1, <3>2, <3>5, <4>1 DEF OnList, Chain
        <4>3. Cardinality({Home(o)}) = 1
          BY FS_Singleton
        <4>4. places(o) = 1
          BY <4>2, <4>3
        <4>5. QED
          BY <4>4
      <3>6. QED
        BY <3>3, <3>4, <3>5
    <2> HIDE DEF places
    <2> DEFINE lost == {o \in DOMAIN rec : places(o) = 0}
    <2>5. Cardinality(lost) <= Cardinality(dead)
      <3> DEFINE f == [p \in dead |-> db[p].idxoff]
                 T == {db[p].idxoff : p \in dead}
      <3>1. IsFiniteSet(dead)
        BY ProcAssumption, FS_Subset
      <3>2. f \in Surjection(dead, T)
        BY DEF Surjection
      <3>3. IsFiniteSet(T) /\ Cardinality(T) <= Cardinality(dead)
        BY <3>1, <3>2, FS_Surjection
      <3>4. lost \subseteq T
        BY <2>1, <2>2, <2>4 DEF HandsOK, Records
      <3>5. Cardinality(lost) <= Cardinality(T) /\ IsFiniteSet(lost)
        BY <3>3, <3>4, FS_Subset
      <3>6. Cardinality(lost) \in Nat /\ Cardinality(T) \in Nat /\ Cardinality(dead) \in Nat
        BY <3>1, <3>3, <3>5, FS_CardinalityType
      <3>7. QED
        BY <3>3, <3>5, <3>6
    <2>6. QED
      BY <2>4, <2>5 DEF ListsPartition, places, Records
  <1>2. QED
    BY <1>1, ListsSound, LockDiscipline, FilesSound, PTL

(* Only a step of the process that has write locked a chain changes the    *)
(* keys of that chain or their data, and nobody is reading it then.        *)
THEOREM OwnerChanges == ~CrashMidway => (Spec => ChainChangedByOwner)
  <1> SUFFICES ASSUME ~CrashMidway PROVE Spec => ChainChangedByOwner
    OBVIOUS
  <1> DEFINE Owned == \A h \in Chains : ChainImage(h)' # ChainImage(h) =>
                        readers[h] = {} /\ writer[h] # NoProc /\ pc'[writer[h]] # pc[writer[h]]
  <1>1. ASSUME IInv, FileInv, ListInv, NEW p \in Procs,
               Begin(p) \/ Rewind(p) \/ Step(p) \/ Crash(p), NEW h \in Chains,
               ChainImage(h)' # ChainImage(h)
        PROVE  readers[h] = {} /\ writer[h] # NoProc /\ pc'[writer[h]] # pc[writer[h]]
    <2>1. ~KeptBut(h, 0)
      <3>1. SUFFICES ASSUME KeptBut(h, 0) PROVE ChainImage(h)' = ChainImage(h)
        BY <1>1
      <3>2. 0 \notin List(h) /\ 0 \notin List(h)'
        <4>1. 0 \notin Records /\ 0 \notin Records'
          <5>1. FilesTypeOK /\ FilesTypeOK'
            BY <1>1, NextFileInv DEF Next, FileInv
          <5>2. \A m : 0 \notin (NHash + 1)..m
            BY NHashAssumption
          <5>3. QED
            BY <5>1, <5>2 DEF FilesTypeOK
        <4>2. QED
          BY <4>1 DEF List, Reach, Records
      <3>3. \A x : x \in List(h)' <=> x \in List(h)
        BY <3>1, <3>2 DEF KeptBut
      <3>4. List(h)' = List(h)
        BY <3>3
      <3>5. QED
        BY <3>1, <3>2, <3>4 DEF KeptBut, ChainImage, Chain
    <2>2. InChain(p) /\ ChainOff(p) = h /\ call[p].op # "fetch" /\ pc'[p] # pc[p]
      BY <1>1, <2>1, StepLists DEF ChainsKept
    <2>3. writer[h] = p
      BY <1>1, <2>2 DEF IInv, Holds
    <2>4. QED
      BY <1>1, <2>2, <2>3, ProcAssumption, RangeFacts DEF IInv, Justified
  <1>2. IInv /\ FileInv /\ ListInv /\ [Next]_vars => [Owned]_vars
    BY <1>1 DEF Next, Finished
  <1>3. QED
    BY <1>2, ListsSound, LockDiscipline, FilesSound, PTL DEF Spec, ChainChangedByOwner


-----------------------------------------------------------------------------
(* Which call is at which position                                         *)

FindFreePcs == {"front", "fflock", "ffhead", "ffwalk", "ffunlink", "ffunlock",
                "datwrite", "idxwrite"}

(* rep tells a replacement from an insertion where both append a record.   *)
CallKnown(p) ==
  LET op  == call[p].op
      rep == db[p].rep
  IN
  /\ pc[p] \in {"head", "walk"} => ~rep
  /\ pc[p] = "lock" => ~rep
  /\ pc[p] = "readdat" => op = "fetch"
  /\ pc[p] \in {"dellock", "delblank"} \cup DeletePcs =>
       op \in (IF rep THEN {"replace", "store"} ELSE {"delete"})
  /\ pc[p] = "overwrite" => op \in {"replace", "store"}
  /\ pc[p] = "refront" => rep
  /\ pc[p] \in FindFreePcs => ~rep
  /\ pc[p] \in FindFreePcs \cup AppendPcs =>
       op \in (IF rep THEN {"replace", "store"} ELSE {"insert", "store"})

CallInv == DOMAIN ret = Procs /\ \A p \in Procs : CallKnown(p)

LEMMA InitCallInv == Init => CallInv
  BY DEF Init, CallInv, CallKnown, FindFreePcs, Midway, DeletePcs, AppendPcs

LEMMA StepCallKnown ==
  ASSUME IInv, FileInv, NEW p \in Procs, CallKnown(p),
         Begin(p) \/ Rewind(p) \/ Step(p) \/ Crash(p)
  PROVE  CallKnown(p)'
  <1> USE DEF Goto, CallKnown, FindFreePcs, Midway, DeletePcs, AppendPcs
  <1>1. /\ pc \in [Procs -> Positions] /\ db \in [Procs -> Handles]
        /\ call \in [Procs -> Calls \cup {NoCall}]
        /\ InChain(p) => call[p].op \in {"fetch", "delete", "insert", "replace", "store"}
    BY DEF IInv, LocksTypeOK, FileInv, Calls, WriteOps
  <1>2. CASE Begin(p)
    <2>1. PICK c \in Requests : db' = [db EXCEPT ![p] = [NoDB EXCEPT !.ptroff = Hash[c.key]]]
      BY <1>2 DEF Begin
    <2>2. db'[p].rep = FALSE /\ pc'[p] = "lock"
      BY <1>1, <1>2, <2>1 DEF Begin, NoDB
    <2>3. QED
      BY <2>2
  <1>3. CASE Rewind(p) \/ Crash(p) \/ Nextrec(p)
    BY <1>1, <1>3 DEF Rewind, Crash, Nextrec, NextLock, NextRead, NextDat, NextUnlock
  <1>4. CASE LockChain(p) \/ ReadDat(p) \/ UnlockChain(p)
    BY <1>1, <1>4 DEF LockChain, ReadDat, UnlockChain
  <1>5. CASE ReadHead(p)
    <2>1. db'[p].rep = db[p].rep
      BY <1>1, <1>5 DEF ReadHead, Handles
    <2>2. QED
      BY <1>1, <1>5, <2>1 DEF ReadHead, NotFound
  <1>6. CASE Walk(p)
    <2> DEFINE w == WithIdx(db[p], db[p].off)
    <2>1. w.rep = db[p].rep /\ "rep" \in DOMAIN w /\ InChain(p)
      BY <1>1, <1>6 DEF WithIdx, Handles, Walk, InChain, OutsideChain
    <2>2. CASE rec[db[p].off].key = call[p].key
      <3> DEFINE b == call[p].op \in {"replace", "store"}
                 d == [w EXCEPT !.rep = b]
      <3>1. db' = [db EXCEPT ![p] = d] /\ Found(p, w.datlen) /\ UNCHANGED call
        BY <1>6, <2>2 DEF Walk
      <3>2. b \in BOOLEAN
        OBVIOUS
      <3> HIDE DEF w
      <3>3. d.rep = b
        BY <2>1, <3>2
      <3>4. db'[p] = d
        BY <1>1, <3>1
      <3>5. db'[p].rep = (call[p].op \in {"replace", "store"})
        BY <3>3, <3>4
      <3>6. /\ pc'[p] \in {"readdat", "unlock", "dellock", "overwrite"}
            /\ pc'[p] = "readdat" => call[p].op = "fetch"
            /\ pc'[p] \in {"dellock", "overwrite"} =>
                 call[p].op \notin {"fetch", "insert"}
            /\ pc'[p] = "overwrite" => call[p].op # "delete"
        BY <1>1, <3>1 DEF Found
      <3>7. QED
        BY <1>1, <2>1, <3>1, <3>5, <3>6
    <2>3. CASE rec[db[p].off].key # call[p].key
      <3> DEFINE d == [w EXCEPT !.ptroff = db[p].off, !.off = w.ptrval]
      <3>1. db' = [db EXCEPT ![p] = d] /\ UNCHANGED call
        BY <1>6, <2>3 DEF Walk
      <3>2. /\ pc'[p] \in {"front", "unlock", "walk"}
            /\ pc'[p] = "front" => call[p].op \in {"insert", "store"}
        BY <1>1, <1>6, <2>3 DEF Walk, NotFound
      <3> HIDE DEF w
      <3>3. d.rep = w.rep
        BY <2>1
      <3>4. db'[p].rep = db[p].rep
        BY <1>1, <2>1, <3>1, <3>3
      <3>5. QED
        BY <1>6, <3>1, <3>2, <3>4 DEF Walk
    <2>4. QED
      BY <2>2, <2>3
  <1>7. CASE Delete(p)
    <2>1. db'[p].rep = db[p].rep /\ InChain(p)
      BY <1>1, <1>7 DEF Delete, DelLock, DelBlankData, DelReadFree, DelWriteIdx, DelWriteFree,
         DelUnlink, DelUnlock, Handles, InChain, OutsideChain
    <2>2. QED
      BY <1>1, <1>7, <2>1 DEF Delete, DelLock, DelBlankData, DelReadFree, DelWriteIdx,
         DelWriteFree, DelUnlink, DelUnlock
  <1>8. CASE FreeWalk(p)
    <2> DEFINE w == WithIdx(db[p], db[p].off)
               d == [w EXCEPT !.save = db[p].off, !.off = w.ptrval]
    <2>1. w.rep = db[p].rep /\ d.rep = db[p].rep
      BY <1>1 DEF WithIdx, Handles
    <2>2. /\ db' = [db EXCEPT ![p] = w] \/ db' = [db EXCEPT ![p] = d]
          /\ pc[p] = "ffwalk" /\ pc'[p] \in {"ffunlink", "ffunlock", "ffwalk"} /\ UNCHANGED call
      BY <1>1, <1>8 DEF FreeWalk
    <2> HIDE DEF w, d
    <2>3. db'[p].rep = db[p].rep
      BY <1>1, <2>1, <2>2
    <2>4. QED
      BY <2>2, <2>3
  <1>9. CASE FreeLock(p) \/ FreeHead(p) \/ FreeUnlink(p) \/ FreeUnlock(p)
    <2>1. db'[p].rep = db[p].rep
      BY <1>1, <1>9 DEF FreeLock, FreeHead, FreeUnlink, FreeUnlock, Handles
    <2>2. QED
      BY <1>1, <1>9, <2>1 DEF FreeLock, FreeHead, FreeUnlink, FreeUnlock
  <1>10. CASE Write(p)
    <2>1. db'[p].rep = db[p].rep
      BY <1>1, <1>10 DEF Write, ReadFront, DatLock, DatSeekEnd, DatWrite, DatUnlock, IdxLock,
         IdxSeekEnd, IdxWrite, IdxUnlock, Link, Handles
    <2>2. QED
      BY <1>1, <1>10, <2>1 DEF Write, ReadFront, DatLock, DatSeekEnd, DatWrite, DatUnlock,
         IdxLock, IdxSeekEnd, IdxWrite, IdxUnlock, Link
  <1>11. QED
    BY <1>2, <1>3, <1>4, <1>5, <1>6, <1>7, <1>8, <1>9, <1>10 DEF Step, Find, FindFree

LEMMA StepRet ==
  ASSUME NEW p \in Procs, Begin(p) \/ Rewind(p) \/ Step(p) \/ Crash(p)
  PROVE  ret' = [ret EXCEPT ![p] = ret'[p]] \/ ret' = ret
  <1> USE DEF locks, files
  <1>1. CASE Begin(p) \/ Rewind(p) \/ Crash(p) \/ Nextrec(p)
    BY <1>1 DEF Begin, Rewind, Crash, Nextrec, NextLock, NextRead, NextDat, NextUnlock
  <1>2. CASE Find(p)
    BY <1>2 DEF Find, LockChain, ReadHead, Walk, NotFound, Found, ReadDat, UnlockChain
  <1>3. CASE Delete(p)
    BY <1>3 DEF Delete, DelLock, DelBlankData, DelReadFree, DelWriteIdx, DelWriteFree,
       DelUnlink, DelUnlock
  <1>4. CASE FindFree(p) \/ Write(p)
    BY <1>4 DEF FindFree, FreeLock, FreeHead, FreeWalk, FreeUnlink, FreeUnlock, Write, ReadFront,
       DatLock, DatSeekEnd, DatWrite, DatUnlock, IdxLock, IdxSeekEnd, IdxWrite, IdxUnlock, Link
  <1>5. QED
    BY <1>1, <1>2, <1>3, <1>4 DEF Step

LEMMA NextCallInv == ASSUME IInv, FileInv, CallInv, [Next]_vars PROVE CallInv'
  <1>1. CASE UNCHANGED vars
    BY <1>1 DEF vars, CallInv, CallKnown
  <1>2. CASE Next /\ ~UNCHANGED vars
    <2>1. PICK p \in Procs : Begin(p) \/ Rewind(p) \/ Step(p) \/ Crash(p)
      BY <1>2 DEF Next, Finished
    <2>2. CallKnown(p)'
      BY <2>1, StepCallKnown DEF CallInv
    <2>3. \A q \in Procs : q # p => CallKnown(q)'
      BY <2>1, StepAlone DEF CallInv, CallKnown, Alone
    <2>4. DOMAIN ret' = Procs
      BY <2>1, StepRet DEF CallInv
    <2>5. QED
      BY <2>2, <2>3, <2>4 DEF CallInv
  <1>3. QED
    BY <1>1, <1>2

-----------------------------------------------------------------------------
(* What the abstract map holds for a key                                   *)

Inv == IInv /\ FileInv /\ ListInv /\ CallInv

TookKey(p, k) == TookEffect(p) /\ call[p].key = k

LookupIs ==
  \A k \in Keys :
    /\ \A p \in Procs : TookKey(p, k) => Lookup(k) = Blank
    /\ (\A p \in Procs : ~TookKey(p, k)) =>
         /\ \A o \in List(Hash[k]) : rec[o].key = k => Lookup(k) = dat[rec[o].datoff]
         /\ (\A o \in List(Hash[k]) : rec[o].key # k) => Lookup(k) = Blank

(* A call that took effect still has its chain write locked.               *)
LEMMA TookLocked ==
  ASSUME IInv, NEW p \in Procs, TookEffect(p)
  PROVE  /\ InChain(p) /\ call[p].op # "fetch" /\ call[p].key \in Keys
         /\ \A q \in Procs : q # p /\ InChain(q) => ChainOff(q) # ChainOff(p)
  <1>1. InChain(p) /\ call[p].op # "fetch"
    BY DEF TookEffect, Midway, DeletePcs, AppendPcs, InChain, OutsideChain, IInv, FetchPath
  <1>2. call[p] \in Calls
    BY <1>1 DEF IInv, LocksTypeOK
  <1>3. QED
    BY <1>1, <1>2, LocksExclude DEF Exclusion, Calls

LEMMA LookupIsSo == (Inv => LookupIs) /\ (Inv' => LookupIs')
  <1>1. Inv => LookupIs
    <2> SUFFICES ASSUME Inv, NEW k \in Keys
                 PROVE  /\ \A p \in Procs : TookKey(p, k) => Lookup(k) = Blank
                        /\ (\A p \in Procs : ~TookKey(p, k)) =>
                             /\ \A o \in List(Hash[k]) :
                                  rec[o].key = k => Lookup(k) = dat[rec[o].datoff]
                             /\ (\A o \in List(Hash[k]) : rec[o].key # k) => Lookup(k) = Blank
      BY DEF LookupIs
    <2>1. Hash[k] \in Heads /\ k # Blank /\ Chain(Hash[k]) = List(Hash[k])
      BY HashAssumption, BlankAssumption DEF Chains, Heads, Chain
    <2>2. \A o, n \in List(Hash[k]) : rec[o].key = k /\ rec[n].key = k => o = n
      BY <2>1, HomeFacts DEF ListsOK, Inv, ListInv
    <2>3. ASSUME NEW p \in Procs, TookKey(p, k) PROVE Lookup(k) = Blank
      BY <2>3 DEF Lookup, TookKey
    <2>4. ASSUME \A p \in Procs : ~TookKey(p, k), NEW o \in List(Hash[k]), rec[o].key = k
          PROVE  Lookup(k) = dat[rec[o].datoff]
      BY <2>1, <2>2, <2>4 DEF Lookup, TookKey
    <2>5. ASSUME \A p \in Procs : ~TookKey(p, k), \A o \in List(Hash[k]) : rec[o].key # k
          PROVE  Lookup(k) = Blank
      BY <2>1, <2>5 DEF Lookup, TookKey
    <2>6. QED
      BY <2>3, <2>4, <2>5
  <1>2. QED
    BY <1>1, PTL

(* A record found in a chain has data, but to the call that deletes it.    *)
LEMMA Present ==
  ASSUME Inv, NEW p \in Procs, InChain(p), pc[p] \notin {"delfree", "delidx"},
         NEW o \in List(ChainOff(p))
  PROVE  o \in Records /\ dat[rec[o].datoff] # Blank
  <1>1. /\ ChainOff(p) \in Heads /\ ChainOff(p) # FREE_OFF /\ ListsOK /\ LiveData
        /\ \A q \in Procs : ChainKnown(q) /\ FetchPath(q)
    BY AfterType DEF Inv, ListInv, Known, IInv
  <1>2. o \in Records /\ Home(o) = ChainOff(p)
    BY <1>1, HomeFacts DEF Inv
  <1>3. rec[o].key # Blank
    BY <1>1, <1>2, KeyFacts DEF Inv
  <1>4. ASSUME NEW q \in Procs, pc[q] \in {"delfree", "delidx"}, db[q].idxoff = o PROVE FALSE
    <2>1. InChain(q) /\ call[q].op # "fetch" /\ o \in List(ChainOff(q))
      BY <1>1, <1>4 DEF InChain, OutsideChain, FetchPath, ChainKnown
    <2>2. ChainOff(q) \in Heads
      BY <2>1, AfterType DEF Inv
    <2>3. ChainOff(q) = ChainOff(p) /\ q # p
      BY <1>1, <1>2, <1>4, <2>1, <2>2, HomeFacts DEF Inv
    <2>4. QED
      BY <2>1, <2>3, LocksExclude DEF Exclusion, Inv
  <1>5. QED
    BY <1>1, <1>2, <1>3, <1>4 DEF LiveData

-----------------------------------------------------------------------------
(* What a step does to the abstract map                                    *)

(* Only p's call changes, and only when p begins one; only where it blanks *)
(* data does a call take effect and stay in the chain.                     *)
LEMMA StepCalls ==
  ASSUME Inv, NEW p \in Procs, Begin(p) \/ Rewind(p) \/ Step(p) \/ Crash(p)
  PROVE  /\ \A q \in Procs : q # p => Alone(p, q) /\ ret'[q] = ret[q]
         /\ InChain(p)' => call'[p] = call[p]
         /\ TookEffect(p)' => InChain(p)' /\ (TookEffect(p) \/ pc[p] = "delblank")
  <1> USE DEF Goto
  <1>1. /\ pc \in [Procs -> Positions] /\ db \in [Procs -> Handles]
        /\ call \in [Procs -> Calls \cup {NoCall}]
    BY DEF Inv, IInv, LocksTypeOK, FileInv
  <1>2. \A q \in Procs : q # p => Alone(p, q) /\ ret'[q] = ret[q]
    <2>1. \A q \in Procs : q # p => Alone(p, q)
      BY StepAlone DEF Inv
    <2>2. QED
      BY <2>1, StepRet DEF Inv, CallInv
  <1>3. CASE Begin(p) \/ Rewind(p) \/ Crash(p) \/ Nextrec(p)
    BY <1>1, <1>2, <1>3
       DEF Begin, Rewind, Crash, Nextrec, NextLock, NextRead, NextDat, NextUnlock, InChain,
           OutsideChain, TookEffect, Midway, DeletePcs, AppendPcs
  <1>4. CASE Find(p)
    <2>1. /\ call' = call
          /\ pc'[p] \in {"head", "front", "unlock", "walk", "readdat", "dellock", "overwrite", "idle"}
      BY <1>1, <1>4 DEF Find, LockChain, ReadHead, Walk, NotFound, Found, ReadDat, UnlockChain
    <2>2. QED
      BY <1>2, <2>1 DEF TookEffect, Midway, DeletePcs, AppendPcs
  <1>5. CASE Delete(p)
    BY <1>1, <1>2, <1>5
       DEF Delete, DelLock, DelBlankData, DelReadFree, DelWriteIdx, DelWriteFree, DelUnlink,
           DelUnlock, InChain, OutsideChain, TookEffect, Midway, DeletePcs, AppendPcs
  <1>6. CASE FindFree(p)
    <2>1. /\ call' = call /\ pc[p] \in FindFreePcs
          /\ pc'[p] \in FindFreePcs \/ (pc'[p] = "datlock" /\ db' = db)
      BY <1>1, <1>6
         DEF FindFreePcs, FindFree, FreeLock, FreeHead, FreeWalk, FreeUnlink, FreeUnlock
    <2>2. ~db[p].rep
      BY <2>1 DEF Inv, CallInv, CallKnown
    <2>3. QED
      BY <1>2, <2>1, <2>2
         DEF TookEffect, Midway, DeletePcs, AppendPcs, FindFreePcs, InChain, OutsideChain
  <1>7. CASE Write(p)
    <2>1. db'[p].rep = db[p].rep /\ call' = call
      BY <1>1, <1>7 DEF Write, ReadFront, DatLock, DatSeekEnd, DatWrite, DatUnlock, IdxLock,
         IdxSeekEnd, IdxWrite, IdxUnlock, Link, Handles
    <2>2. /\ pc[p] \in FindFreePcs => ~db[p].rep
          /\ pc'[p] \in AppendPcs => pc[p] \in AppendPcs \cup FindFreePcs
          /\ pc'[p] \notin DeletePcs
      BY <1>1, <1>7 DEF Write, ReadFront, DatLock, DatSeekEnd, DatWrite, DatUnlock, IdxLock,
         IdxSeekEnd, IdxWrite, IdxUnlock, Link, AppendPcs, FindFreePcs, Midway, DeletePcs, Inv, CallInv,
         CallKnown
    <2>3. QED
      BY <1>2, <2>1, <2>2 DEF TookEffect, AppendPcs, InChain, OutsideChain
  <1>8. QED
    BY <1>3, <1>4, <1>5, <1>6, <1>7 DEF Step

(* The other keys keep their data, and so does the key of a call that has  *)
(* not begun to change its chain.                                          *)
LEMMA OtherKeys ==
  ASSUME ~CrashMidway, Inv, Inv', NEW p \in Procs,
         Begin(p) \/ Rewind(p) \/ Step(p) \/ Crash(p),
         NEW k \in Keys, ~(InChain(p) /\ call[p].key = k)
  PROVE  Lookup(k)' = Lookup(k)
  <1>1. /\ \A q \in Procs : q # p => Alone(p, q)
        /\ \A q \in Procs : TookKey(q, k)' = TookKey(q, k)
        /\ ~TookKey(p, k)
    <2>1. \A q \in Procs : q # p => Alone(p, q)
      BY StepCalls
    <2>2. ~TookKey(p, k)
      BY TookLocked DEF Inv, TookKey
    <2>3. ~TookKey(p, k)'
      <3>1. pc[p] = "delblank" => InChain(p)
        BY DEF InChain, OutsideChain
      <3>2. TookEffect(p)' => call'[p] = call[p] /\ InChain(p)
        BY <3>1, StepCalls, TookLocked DEF Inv
      <3>3. QED
        BY <3>2 DEF TookKey
    <2>4. QED
      BY <2>1, <2>2, <2>3 DEF Alone, TookKey, TookEffect
  <1>2. LookupIs /\ LookupIs'
    BY LookupIsSo
  <1>3. CASE \E q \in Procs : TookKey(q, k)
    <2>1. PICK q \in Procs : TookKey(q, k)
      BY <1>3
    <2>2. call'[q] = call[q] /\ TookKey(q, k)'
      BY <1>1, <2>1 DEF Alone
    <2>3. QED
      BY <1>2, <2>1, <2>2 DEF LookupIs
  <1>4. CASE \A q \in Procs : ~TookKey(q, k)
    <2>1. PICK h : h = Hash[k]
      OBVIOUS
    <2>2. h \in Chains /\ h \in Heads /\ k # Blank /\ 0 \notin Records /\ 0 \notin Records'
          /\ List(h) \subseteq Records
      <3>1. FilesTypeOK /\ FilesTypeOK' /\ \A m : 0 \notin (NHash + 1)..m
        BY NHashAssumption DEF Inv, FileInv
      <3>2. h \in Chains /\ h \in Heads /\ k # Blank
        BY <2>1, HashAssumption, BlankAssumption, NHashAssumption DEF Chains, Heads
      <3>3. List(h) \subseteq Records
        BY <3>2, ListFacts DEF Inv
      <3>4. QED
        BY <3>1, <3>2, <3>3 DEF FilesTypeOK
    <2>3. 0 \notin List(h) /\ 0 \notin List(h)'
      BY <2>2 DEF List, Reach, Records
    <2>4. \/ KeptBut(h, 0)
          \/ /\ KeptBut(h, db[p].idxoff) /\ rec[db[p].idxoff].key # k
             /\ rec'[db[p].idxoff].key # k
      BY <2>1, <2>2, StepLists DEF ChainsKept, Inv
    <2>5. PICK o : /\ KeptBut(h, o) /\ (o \in List(h) => rec[o].key # k)
                   /\ (o \in List(h)' => rec'[o].key # k)
      BY <2>3, <2>4
    <2>6. ASSUME NEW x \in List(h), rec[x].key = k PROVE Lookup(k)' = Lookup(k)
      <3>1. x \in List(h)' /\ rec'[x].key = k /\ rec'[x].datoff = rec[x].datoff
            /\ dat'[rec[x].datoff] = dat[rec[x].datoff]
        BY <2>5, <2>6 DEF KeptBut
      <3>2. Lookup(k)' = dat'[rec'[x].datoff]
        BY <1>1, <1>2, <1>4, <2>1, <3>1 DEF LookupIs
      <3>3. Lookup(k) = dat[rec[x].datoff]
        BY <1>2, <1>4, <2>1, <2>6 DEF LookupIs
      <3>4. QED
        BY <3>1, <3>2, <3>3
    <2>7. ASSUME \A x \in List(h) : rec[x].key # k PROVE Lookup(k)' = Lookup(k)
      <3>1. \A x \in List(h)' : rec'[x].key # k
        BY <2>5, <2>7 DEF KeptBut
      <3>2. Lookup(k)' = Blank
        BY <1>1, <1>2, <1>4, <2>1, <3>1 DEF LookupIs
      <3>3. Lookup(k) = Blank
        BY <1>2, <1>4, <2>1, <2>7 DEF LookupIs
      <3>4. QED
        BY <3>2, <3>3
    <2>8. QED
      BY <2>6, <2>7
  <1>5. QED
    BY <1>3, <1>4

(* The key of a call that has its chain locked and has not taken effect    *)
OwnIs(p) ==
  InChain(p) /\ ~TookEffect(p) =>
    /\ \A o \in List(ChainOff(p)) : rec[o].key = call[p].key =>
         Lookup(call[p].key) = dat[rec[o].datoff] /\ Lookup(call[p].key) # Blank
    /\ (\A o \in List(ChainOff(p)) : rec[o].key # call[p].key) => Lookup(call[p].key) = Blank
    /\ call[p] \in Calls

LEMMA OwnIsSo ==
  /\ Inv => \A p \in Procs : OwnIs(p)
  /\ Inv' => (\A p \in Procs : OwnIs(p))'
  <1>1. Inv => \A p \in Procs : OwnIs(p)
    <2> SUFFICES ASSUME Inv, NEW p \in Procs, InChain(p), ~TookEffect(p)
                 PROVE  /\ \A o \in List(ChainOff(p)) : rec[o].key = call[p].key =>
                             /\ Lookup(call[p].key) = dat[rec[o].datoff]
                             /\ Lookup(call[p].key) # Blank
                        /\ (\A o \in List(ChainOff(p)) : rec[o].key # call[p].key) =>
                             Lookup(call[p].key) = Blank
                        /\ call[p] \in Calls
      BY DEF OwnIs
    <2>1. call[p] \in Calls /\ call[p].key \in Keys /\ LookupIs
      BY LookupIsSo DEF Inv, IInv, LocksTypeOK, Calls
    <2>2. \A q \in Procs : ~TookKey(q, call[p].key)
      BY TookLocked DEF Inv, TookKey, ChainOff
    <2>3. pc[p] \notin {"delfree", "delidx"}
      BY DEF TookEffect, Midway, DeletePcs
    <2>4. QED
      BY <2>1, <2>2, <2>3, Present DEF LookupIs, ChainOff
  <1>2. QED
    BY <1>1, PTL

(* ... and that of a call that has                                         *)
TookIs(p) == TookEffect(p) => Lookup(call[p].key) = Blank

LEMMA TookIsSo ==
  /\ Inv => \A p \in Procs : TookIs(p)
  /\ Inv' => (\A p \in Procs : TookIs(p))'
  <1>1. Inv => \A p \in Procs : TookIs(p)
    BY LookupIsSo, TookLocked DEF Inv, LookupIs, TookIs, TookKey
  <1>2. QED
    BY <1>1, PTL

(* A step that neither takes effect nor writes to its chain changes        *)
(* nothing.                                                                *)
LEMMA OwnKey ==
  ASSUME ~CrashMidway, Inv, Inv', NEW p \in Procs,
         Begin(p) \/ Rewind(p) \/ Step(p) \/ Crash(p),
         call'[p] = call[p],
         \/ TookEffect(p) /\ TookEffect(p)'
         \/ /\ ~TookEffect(p) /\ ~TookEffect(p)'
            /\ pc[p] \notin {"delblank", "overwrite", "link"} \/ Crash(p)
  PROVE  \A k \in Keys : Lookup(k)' = Lookup(k)
  <1> SUFFICES ASSUME NEW k \in Keys, InChain(p), call[p].key = k PROVE Lookup(k)' = Lookup(k)
    BY OtherKeys
  <1>1. LookupIs /\ LookupIs'
    BY LookupIsSo
  <1>2. CASE TookEffect(p) /\ TookEffect(p)'
    BY <1>1, <1>2 DEF LookupIs, TookKey
  <1>3. CASE /\ ~TookEffect(p) /\ ~TookEffect(p)'
             /\ pc[p] \notin {"delblank", "overwrite", "link"} \/ Crash(p)
    <2>1. PICK h : h = Hash[k]
      OBVIOUS
    <2>2. h \in Chains /\ h \in Heads /\ h = ChainOff(p) /\ pc[p] # "delidx"
          /\ 0 \notin List(h) /\ 0 \notin List(h)'
      <3>1. FilesTypeOK /\ FilesTypeOK' /\ \A m : 0 \notin (NHash + 1)..m
        BY NHashAssumption DEF Inv, FileInv
      <3>2. 0 \notin Records /\ 0 \notin Records'
        BY <3>1 DEF FilesTypeOK
      <3>3. 0 \notin List(h) /\ 0 \notin List(h)'
        BY <3>2 DEF List, Reach, Records
      <3>4. QED
        BY <1>3, <2>1, <3>3, HashAssumption, NHashAssumption
           DEF Chains, Heads, ChainOff, TookEffect, Midway, DeletePcs
    <2>3. KeptBut(h, 0)
      <3>1. CASE pc[p] \notin {"delblank", "overwrite", "link"}
        BY <2>2, <3>1, StepLists DEF ChainsKept, Inv
      <3>2. CASE Crash(p)
        <4>1. UNCHANGED <<ptr, rec, dat>> /\ p \notin Unlinking /\ p \notin Unlinking'
          <5>1. pc \in [Procs -> Positions]
            BY DEF Inv, IInv, LocksTypeOK
          <5>2. QED
            BY <1>3, <3>2, <5>1 DEF Crash, files, Goto, Unlinking, TookEffect, Midway, DeletePcs
        <4>2. After' = After
          BY <4>1, StepCalls, AfterSame DEF Inv
        <4>3. QED
          BY <4>1, <4>2, QuietLists DEF KeptBut
      <3>3. QED
        BY <1>3, <3>1, <3>2
    <2>4. /\ \A q \in Procs : ~TookKey(q, k)
          /\ \A q \in Procs : ~TookKey(q, k)'
      <3>1. \A q \in Procs : ~TookKey(q, k)
        BY <1>3, TookLocked DEF Inv, TookKey, ChainOff
      <3>2. QED
        BY <1>3, <3>1, StepCalls DEF Alone, TookKey, TookEffect
    <2>5. ASSUME NEW x \in List(h), rec[x].key = k PROVE Lookup(k)' = Lookup(k)
      <3>1. x \in List(h)' /\ rec'[x].key = k /\ rec'[x].datoff = rec[x].datoff
            /\ dat'[rec[x].datoff] = dat[rec[x].datoff]
        BY <2>2, <2>3, <2>5 DEF KeptBut
      <3>2. Lookup(k)' = dat'[rec'[x].datoff]
        BY <1>1, <2>1, <2>4, <3>1 DEF LookupIs
      <3>3. Lookup(k) = dat[rec[x].datoff]
        BY <1>1, <2>1, <2>4, <2>5 DEF LookupIs
      <3>4. QED
        BY <3>1, <3>2, <3>3
    <2>6. ASSUME \A x \in List(h) : rec[x].key # k PROVE Lookup(k)' = Lookup(k)
      <3>1. \A x \in List(h)' : rec'[x].key # k
        BY <2>2, <2>3, <2>6 DEF KeptBut
      <3>2. Lookup(k)' = Blank
        BY <1>1, <2>1, <2>4, <3>1 DEF LookupIs
      <3>3. Lookup(k) = Blank
        BY <1>1, <2>1, <2>4, <2>6 DEF LookupIs
      <3>4. QED
        BY <3>2, <3>3
    <2>7. QED
      BY <2>5, <2>6
  <1>4. QED
    BY <1>2, <1>3

-----------------------------------------------------------------------------
(* Each step of the library is a step of the abstract specification, or    *)
(* none                                                                    *)

Stutters(p) ==
  /\ call' = call /\ PhaseOf(p)' = PhaseOf(p) /\ RetOf(p)' = RetOf(p)
  /\ \A k \in Keys : Lookup(k)' = Lookup(k)

Performs(p) ==
  /\ call' = call /\ PhaseOf(p) = "called" /\ PhaseOf(p)' = "returning" /\ InChain(p)
  /\ RetOf(p)' = Abs!Result(TheStore, call[p])
  /\ \A k \in Keys : Lookup(k)' = Abs!Effect(TheStore, call[p])[k]

(* The two halves of a replacement with data of another length             *)
Removes(p) ==
  /\ call' = call /\ PhaseOf(p) = "called" /\ PhaseOf(p)' = "storing" /\ InChain(p)
  /\ RetOf(p)' = RetOf(p)
  /\ call[p].op \in {"replace", "store"} /\ Lookup(call[p].key) # Blank
  /\ call[p].key \in Keys /\ Lookup(call[p].key)' = Blank
  /\ \A k \in Keys : k # call[p].key => Lookup(k)' = Lookup(k)

Stores(p) ==
  /\ call' = call /\ PhaseOf(p) = "storing" /\ PhaseOf(p)' = "returning"
  /\ RetOf(p)' = OK
  /\ call[p].key \in Keys /\ Lookup(call[p].key)' = call[p].data
  /\ \A k \in Keys : k # call[p].key => Lookup(k)' = Lookup(k)

(* The step of a call that finds its key absent, or stores nothing         *)
LEMMA PerformsRead ==
  ASSUME NEW p \in Procs, call[p] \in Calls, call' = call, InChain(p),
         PhaseOf(p) = "called", PhaseOf(p)' = "returning",
         \A k \in Keys : Lookup(k)' = Lookup(k),
         LET l == Lookup(call[p].key)
         IN  \/ /\ call[p].op \in {"fetch", "delete", "replace"} /\ l = Blank
                /\ RetOf(p)' = Absent
             \/ call[p].op = "insert" /\ l # Blank /\ RetOf(p)' = Exists
             \/ call[p].op = "fetch" /\ l # Blank /\ RetOf(p)' = l
  PROVE  Performs(p)
  <1>1. call[p].key \in Keys /\ TheStore[call[p].key] = Lookup(call[p].key)
    BY DEF Calls, TheStore
  <1>2. RetOf(p)' = Abs!Result(TheStore, call[p])
    BY <1>1 DEF Abs!Result, Abs!Absent, Abs!Exists, Abs!OK, Absent, Exists, OK
  <1>3. Abs!Effect(TheStore, call[p]) = TheStore
    BY <1>1 DEF Abs!Effect, Abs!Result, Abs!Absent, Abs!Exists, Abs!OK, Absent, Exists, OK
  <1>4. QED
    BY <1>2, <1>3 DEF Performs, TheStore

(* The step of a call that changes the data of its key                     *)
LEMMA PerformsWrite ==
  ASSUME NEW p \in Procs, call[p] \in Calls, call' = call, InChain(p),
         PhaseOf(p) = "called", PhaseOf(p)' = "returning", RetOf(p)' = OK,
         \A k \in Keys : k # call[p].key => Lookup(k)' = Lookup(k),
         Lookup(call[p].key)' = call[p].data,
         LET present == Lookup(call[p].key) # Blank
         IN  \/ call[p].op \in {"delete", "replace"} /\ present
             \/ call[p].op = "insert" /\ ~present
             \/ call[p].op = "store"
  PROVE  Performs(p)
  <1>1. call[p].key \in Keys /\ TheStore[call[p].key] = Lookup(call[p].key)
    BY DEF Calls, TheStore
  <1>2. Abs!Result(TheStore, call[p]) = OK /\ call[p].op # "fetch"
    BY <1>1 DEF Abs!Result, Abs!OK, OK
  <1>3. Abs!Effect(TheStore, call[p]) = [TheStore EXCEPT ![call[p].key] = call[p].data]
    BY <1>2 DEF Abs!Effect, Abs!OK, OK
  <1>4. \A k \in Keys : Lookup(k)' = Abs!Effect(TheStore, call[p])[k]
    BY <1>1, <1>3 DEF TheStore
  <1>5. QED
    BY <1>2, <1>4 DEF Performs

(* A step inside a call that leaves its effect and its phase alone         *)
CallPcs == {"lock", "head", "walk", "readdat", "dellock", "delblank", "overwrite"}
             \cup DeletePcs \cup FindFreePcs \cup AppendPcs

LEMMA StaysInCall ==
  ASSUME ~CrashMidway, Inv, Inv', NEW p \in Procs,
         Begin(p) \/ Rewind(p) \/ Step(p) \/ Crash(p),
         call' = call, ret' = ret, pc[p] \in CallPcs, pc'[p] \in CallPcs,
         TookEffect(p) => db'[p].rep = db[p].rep,
         \/ TookEffect(p) /\ TookEffect(p)'
         \/ /\ ~TookEffect(p) /\ ~TookEffect(p)'
            /\ pc[p] \notin {"delblank", "overwrite", "link"}
  PROVE  Stutters(p)
  <1>1. \A k \in Keys : Lookup(k)' = Lookup(k)
    BY OwnKey
  <1>2. PhaseOf(p)' = PhaseOf(p) /\ RetOf(p)' = RetOf(p)
    BY DEF PhaseOf, RetOf, Replacing, Deleted, InNext, CallPcs, Midway, DeletePcs, FindFreePcs,
       AppendPcs
  <1>3. QED
    BY <1>1, <1>2 DEF Stutters

(* A step by which a call returns with what it has read                    *)
LEMMA ReadsAndReturns ==
  ASSUME ~CrashMidway, Inv, Inv', NEW p \in Procs,
         Begin(p) \/ Rewind(p) \/ Step(p) \/ Crash(p),
         call' = call, pc[p] \in {"head", "walk", "readdat"}, pc'[p] = "unlock"
  PROVE  /\ call[p] \in Calls /\ PhaseOf(p) = "called" /\ PhaseOf(p)' = "returning"
         /\ InChain(p) /\ RetOf(p)' = ret'[p] /\ \A k \in Keys : Lookup(k)' = Lookup(k)
  <1>1. ~TookEffect(p) /\ ~TookEffect(p)' /\ InChain(p)
    BY DEF TookEffect, Midway, DeletePcs, AppendPcs, InChain, OutsideChain
  <1>2. PhaseOf(p) = "called" /\ PhaseOf(p)' = "returning" /\ RetOf(p)' = ret'[p]
    BY <1>1 DEF PhaseOf, RetOf, Replacing, Deleted, InNext
  <1>3. QED
    BY <1>1, <1>2, OwnKey DEF Inv, IInv, LocksTypeOK

LEMMA FindStore ==
  ASSUME ~CrashMidway, Inv, Inv', NEW p \in Procs,
         LockChain(p) \/ ReadHead(p) \/ Walk(p) \/ ReadDat(p)
  PROVE  Stutters(p) \/ Performs(p)
  <1> USE DEF Goto
  <1>1. /\ Begin(p) \/ Rewind(p) \/ Step(p) \/ Crash(p)
        /\ pc \in [Procs -> Positions] /\ db \in [Procs -> Handles] /\ DOMAIN ret = Procs
        /\ IInv /\ FileInv /\ ListInv /\ Known(p) /\ HandleOK(p) /\ OwnIs(p) /\ CallKnown(p)
        /\ call' = call
    BY OwnIsSo DEF Inv, IInv, LocksTypeOK, FileInv, CallInv, ListInv, Step, Find, LockChain,
       ReadHead, Walk, ReadDat
  <1>2. ~TookEffect(p) /\ ~TookEffect(p)' /\ (pc[p] # "lock" => InChain(p))
    <2>1. /\ pc[p] \in {"lock", "head", "walk", "readdat"}
          /\ pc'[p] \in {"head", "front", "unlock", "walk", "readdat", "dellock", "overwrite"}
      BY <1>1 DEF LockChain, ReadHead, Walk, NotFound, Found, ReadDat
    <2>2. QED
      BY <2>1 DEF TookEffect, Midway, DeletePcs, AppendPcs, InChain, OutsideChain
  <1>3. InChain(p) =>
          /\ ChainOff(p) \in Heads /\ List(ChainOff(p)) \subseteq Records
          /\ \A x \in {ChainOff(p)} \cup List(ChainOff(p)) :
               pc[p] \in {"head", "walk"} => After[x] = ptr[x]
          /\ Closed(After, List(ChainOff(p)), ChainOff(p))
    BY <1>1, AfterType, ListFacts, PointerRead DEF Unlinking
  <1>4. \A x \in Heads \cup Records : After[x] = 0 => Reach(After, Records, x) = {}
    BY <1>1, AfterType, ReachUnfold
  <1>5. CASE LockChain(p)
    BY <1>1, <1>2, <1>5, StaysInCall DEF LockChain, CallPcs
  <1>6. CASE ReadHead(p)
    <2>1. CASE ptr[ChainOff(p)] = 0 /\ call[p].op \notin {"insert", "store"}
      <3>1. pc'[p] = "unlock" /\ ret'[p] = Absent /\ pc[p] = "head"
        BY <1>1, <1>6, <2>1 DEF ReadHead, NotFound
      <3>2. List(ChainOff(p)) = {}
        BY <1>2, <1>3, <1>4, <2>1, <3>1 DEF List, Records
      <3>3. Lookup(call[p].key) = Blank /\ call[p] \in Calls
        BY <1>1, <1>2, <3>1, <3>2 DEF OwnIs
      <3>4. call[p].op \in {"fetch", "delete", "replace"}
        BY <2>1, <3>3 DEF Calls, WriteOps
      <3>5. QED
        BY <1>1, <3>1, <3>3, <3>4, ReadsAndReturns, PerformsRead
    <2>2. CASE ~(ptr[ChainOff(p)] = 0 /\ call[p].op \notin {"insert", "store"})
      <3>1. pc'[p] \in {"front", "walk"} /\ ret' = ret /\ pc[p] = "head"
        BY <1>1, <1>6, <2>2 DEF ReadHead, NotFound
      <3>2. QED
        BY <1>1, <1>2, <3>1, StaysInCall DEF CallPcs, FindFreePcs
    <2>3. QED
      BY <2>1, <2>2
  <1>7. CASE Walk(p)
    <2> DEFINE o == db[p].off
    <2>1. /\ pc[p] = "walk" /\ o \in List(ChainOff(p)) /\ o \in Records /\ ptr[o] = After[o]
          /\ \A x \in List(ChainOff(p)) : rec[x].key = call[p].key =>
               x = o \/ x \in Reach(After, Records, o)
          /\ call[p] \in Calls /\ WithIdx(db[p], o).ptrval = ptr[o]
      <3>1. pc[p] = "walk"
        BY <1>7 DEF Walk
      <3>2. WithIdx(db[p], o).ptrval = ptr[o]
        BY <1>1 DEF WithIdx, Handles
      <3>3. QED
        BY <1>1, <1>2, <1>3, <3>1, <3>2 DEF Known, ChainKnown, OwnIs
    <2>2. CASE rec[o].key = call[p].key
      <3>1. Lookup(call[p].key) # Blank
        BY <1>1, <1>2, <2>1, <2>2 DEF OwnIs
      <3>2. CASE call[p].op = "insert"
        <4>1. pc'[p] = "unlock" /\ ret'[p] = Exists
          BY <1>1, <1>7, <2>2, <3>2 DEF Walk, Found
        <4>2. QED
          BY <1>1, <2>1, <3>1, <3>2, <4>1, ReadsAndReturns, PerformsRead
      <3>3. CASE call[p].op # "insert"
        <4>1. pc'[p] \in {"readdat", "dellock", "overwrite"} /\ ret' = ret
          BY <1>1, <1>7, <2>2, <3>3 DEF Walk, Found
        <4>2. QED
          BY <1>1, <1>2, <2>1, <4>1, StaysInCall DEF CallPcs, FindFreePcs
      <3>4. QED
        BY <3>2, <3>3
    <2>3. CASE rec[o].key # call[p].key
      <3>1. CASE ptr[o] = 0 /\ call[p].op \notin {"insert", "store"}
        <4>1. pc'[p] = "unlock" /\ ret'[p] = Absent
          BY <1>1, <1>7, <2>1, <2>3, <3>1 DEF Walk, NotFound
        <4>2. \A x \in List(ChainOff(p)) : rec[x].key # call[p].key
          BY <1>4, <2>1, <2>3, <3>1
        <4>3. Lookup(call[p].key) = Blank
          BY <1>1, <1>2, <2>1, <4>2 DEF OwnIs
        <4>4. call[p].op \in {"fetch", "delete", "replace"}
          BY <2>1, <3>1 DEF Calls, WriteOps
        <4>5. QED
          BY <1>1, <2>1, <4>1, <4>3, <4>4, ReadsAndReturns, PerformsRead
      <3>2. CASE ~(ptr[o] = 0 /\ call[p].op \notin {"insert", "store"})
        <4>1. pc'[p] \in {"front", "walk"} /\ ret' = ret
          BY <1>1, <1>7, <2>1, <2>3, <3>2 DEF Walk, NotFound
        <4>2. QED
          BY <1>1, <1>2, <2>1, <4>1, StaysInCall DEF CallPcs, FindFreePcs
      <3>3. QED
        BY <3>1, <3>2
    <2>4. QED
      BY <2>2, <2>3
  <1>8. CASE ReadDat(p)
    <2>1. /\ pc[p] = "readdat" /\ pc'[p] = "unlock" /\ ret'[p] = dat[db[p].datoff]
      BY <1>1, <1>8 DEF ReadDat
    <2>2. /\ db[p].idxoff \in List(ChainOff(p)) /\ rec[db[p].idxoff].key = call[p].key
          /\ db[p].datoff = rec[db[p].idxoff].datoff /\ call[p].op = "fetch"
      BY <1>1, <2>1 DEF Known, ChainKnown, HandleOK, AtRecord, CallKnown
    <2>3. Lookup(call[p].key) = ret'[p] /\ Lookup(call[p].key) # Blank
      BY <1>1, <1>2, <2>1, <2>2 DEF OwnIs
    <2>4. QED
      BY <1>1, <2>1, <2>2, <2>3, ReadsAndReturns, PerformsRead
  <1>9. QED
    BY <1>5, <1>6, <1>7, <1>8

(* The last step of a deletion: its chain now shows that the key is gone.  *)
LEMMA EndsInCall ==
  ASSUME ~CrashMidway, Inv, Inv', NEW p \in Procs,
         Begin(p) \/ Rewind(p) \/ Step(p) \/ Crash(p),
         call' = call, Deleted(p), pc'[p] = "unlock", ret'[p] = OK,
         Lookup(call[p].key)' = Blank
  PROVE  Stutters(p)
  <1>1. ~TookEffect(p)'
    BY DEF TookEffect, Midway, DeletePcs, AppendPcs
  <1>2. PhaseOf(p)' = PhaseOf(p) /\ RetOf(p)' = RetOf(p)
    <2>1. PhaseOf(p) = "returning" /\ RetOf(p) = OK
      BY DEF PhaseOf, RetOf, Replacing, Deleted, InNext, TookEffect, Midway, DeletePcs, AppendPcs
    <2>2. PhaseOf(p)' = "returning" /\ RetOf(p)' = OK
      BY <1>1 DEF PhaseOf, RetOf, Replacing, Deleted, InNext
    <2>3. QED
      BY <2>1, <2>2
  <1>3. Lookup(call[p].key)' = Lookup(call[p].key)
    BY TookIsSo DEF TookIs, Deleted
  <1>4. \A k \in Keys : Lookup(k)' = Lookup(k)
    BY <1>3, OtherKeys
  <1>5. QED
    BY <1>2, <1>4 DEF Stutters

LEMMA DeleteStore ==
  ASSUME ~CrashMidway, Inv, Inv', NEW p \in Procs, Delete(p)
  PROVE  Stutters(p) \/ Performs(p) \/ Removes(p)
  <1> USE DEF Goto
  <1>1. /\ Begin(p) \/ Rewind(p) \/ Step(p) \/ Crash(p)
        /\ pc \in [Procs -> Positions] /\ db \in [Procs -> Handles] /\ DOMAIN ret = Procs
        /\ IInv /\ FileInv /\ ListInv /\ Known(p) /\ HandleOK(p) /\ OwnIs(p) /\ CallKnown(p)
        /\ call' = call /\ InChain(p)
    BY OwnIsSo DEF Inv, IInv, LocksTypeOK, FileInv, CallInv, ListInv, Step, Delete, DelLock,
       DelBlankData, DelReadFree, DelWriteIdx, DelWriteFree, DelUnlink, DelUnlock, InChain,
       OutsideChain
  <1>2. CASE DelLock(p)
    <2>1. pc[p] = "dellock" /\ pc'[p] = "delblank" /\ ret' = ret
      BY <1>1, <1>2 DEF DelLock
    <2>2. ~TookEffect(p) /\ ~TookEffect(p)'
      BY <2>1 DEF TookEffect, Midway, DeletePcs, AppendPcs
    <2>3. QED
      BY <1>1, <2>1, <2>2, StaysInCall DEF CallPcs
  <1>3. CASE DelBlankData(p)
    <2>1. pc[p] = "delblank" /\ pc'[p] = "delfree" /\ ret' = ret
      BY <1>1, <1>3 DEF DelBlankData
    <2>2. ~TookEffect(p) /\ TookEffect(p)'
      BY <2>1 DEF TookEffect, Midway, DeletePcs, AppendPcs
    <2>3. PhaseOf(p) = "called" /\ RetOf(p) = ret[p] /\ db' = db
      BY <1>3, <2>1, <2>2 DEF DelBlankData, PhaseOf, RetOf, Replacing, Deleted, InNext
    <2>4. Lookup(call[p].key) # Blank /\ call[p] \in Calls
      BY <1>1, <2>1, <2>2 DEF OwnIs, Known, ChainKnown
    <2>5. Lookup(call[p].key)' = Blank
      <3>1. TookIs(p)'
        BY TookIsSo
      <3>2. QED
        BY <1>1, <2>2, <3>1 DEF TookIs
    <2>6. call[p].op \in {"delete", "replace", "store"} /\ (db[p].rep <=> call[p].op # "delete")
      BY <1>1, <2>1 DEF CallKnown
    <2>7. \A k \in Keys : k # call[p].key => Lookup(k)' = Lookup(k)
      BY <1>1, OtherKeys
    <2>8. CASE call[p].op = "delete"
      <3>1. PhaseOf(p)' = "returning" /\ RetOf(p)' = OK
        BY <2>1, <2>2, <2>3, <2>6, <2>8 DEF PhaseOf, RetOf, Replacing, Deleted, InNext
      <3>2. call[p].data = Blank
        BY <2>4, <2>8 DEF Calls, WriteOps
      <3>3. QED
        BY <1>1, <2>3, <2>4, <2>5, <2>7, <2>8, <3>1, <3>2, PerformsWrite
    <2>9. CASE call[p].op # "delete"
      <3>1. PhaseOf(p)' = "storing" /\ RetOf(p)' = RetOf(p)
        BY <2>1, <2>2, <2>3, <2>6, <2>9 DEF PhaseOf, RetOf, Replacing, Deleted, InNext
      <3>2. call[p].key \in Keys
        BY <2>4 DEF Calls
      <3>3. QED
        BY <1>1, <2>3, <2>4, <2>5, <2>6, <2>7, <2>9, <3>1, <3>2 DEF Removes
    <2>10. QED
      BY <2>8, <2>9
  <1>4. CASE DelReadFree(p) \/ DelWriteIdx(p) \/ DelWriteFree(p) \/ DelUnlink(p)
    <2>1. /\ pc[p] \in DeletePcs /\ pc'[p] \in DeletePcs /\ ret' = ret
          /\ db'[p].rep = db[p].rep
      BY <1>1, <1>4 DEF DelReadFree, DelWriteIdx, DelWriteFree, DelUnlink, Midway, DeletePcs,
         Handles
    <2>2. QED
      BY <1>1, <2>1, StaysInCall DEF CallPcs, TookEffect
  <1>5. CASE DelUnlock(p)
    <2>1. pc[p] = "delunlock" /\ db' = db /\ rec' = rec /\ UNCHANGED <<ptr, dat>>
      BY <1>5 DEF DelUnlock, files
    <2>2. TookEffect(p)
      BY <2>1 DEF TookEffect, Midway, DeletePcs
    <2>3. CASE call[p].op = "delete"
      <3>1. pc'[p] = "unlock" /\ ret'[p] = OK /\ InChain(p)' /\ ~TookEffect(p)'
        BY <1>1, <1>5, <2>3
           DEF DelUnlock, InChain, OutsideChain, TookEffect, Midway, DeletePcs, AppendPcs
      <3>2. PICK h : h = ChainOff(p)
        OBVIOUS
      <3>3. After' = After
        BY <1>1, <2>1, <3>1, StepCalls, AfterSame DEF Unlinking, Inv
      <3>4. List(h)' = List(h)
        BY <2>1, <3>3, QuietLists
      <3>5. \A o \in List(h) : rec[o].key # call[p].key
        BY <1>1, <2>1, <3>2 DEF Known, ChainKnown, MissingPcs
      <3>6. OwnIs(p)' /\ ChainOff(p)' = h
        BY <1>1, <3>2, OwnIsSo DEF ChainOff
      <3>7. Lookup(call[p].key)' = Blank
        BY <1>1, <2>1, <3>1, <3>4, <3>5, <3>6 DEF OwnIs
      <3>8. Deleted(p)
        BY <1>1, <2>1, <2>2, <2>3 DEF Deleted, CallKnown, Midway, DeletePcs
      <3>9. QED
        BY <1>1, <3>1, <3>7, <3>8, EndsInCall
    <2>4. CASE call[p].op # "delete"
      <3>1. pc'[p] = "refront" /\ ret' = ret /\ db[p].rep
        BY <1>1, <1>5, <2>1, <2>4 DEF DelUnlock, CallKnown, Midway, DeletePcs
      <3>2. QED
        BY <1>1, <2>1, <2>2, <3>1, StaysInCall DEF CallPcs, TookEffect, Midway, DeletePcs, AppendPcs
    <2>5. QED
      BY <2>3, <2>4
  <1>6. QED
    BY <1>2, <1>3, <1>4, <1>5 DEF Delete

LEMMA FindFreeStore ==
  ASSUME ~CrashMidway, Inv, Inv', NEW p \in Procs, FindFree(p)
  PROVE  Stutters(p)
  <1> USE DEF Goto
  <1>1. Begin(p) \/ Rewind(p) \/ Step(p) \/ Crash(p)
    BY DEF Step
  <1>2. /\ call' = call /\ ret' = ret /\ pc[p] \in FindFreePcs
        /\ pc'[p] \in FindFreePcs \cup {"datlock"}
    <2>1. pc \in [Procs -> Positions]
      BY DEF Inv, IInv, LocksTypeOK
    <2>2. QED
      BY <2>1 DEF FindFree, FreeLock, FreeHead, FreeWalk, FreeUnlink, FreeUnlock, FindFreePcs
  <1>3. ~TookEffect(p)
    BY <1>2 DEF Inv, CallInv, CallKnown, TookEffect, FindFreePcs, Midway, DeletePcs
  <1>4. pc[p] \notin {"delblank", "overwrite", "link"}
    BY <1>2 DEF FindFreePcs
  <1>5. ~TookEffect(p)'
    BY <1>1, <1>3, <1>4, StepCalls
  <1>6. pc[p] \in CallPcs /\ pc'[p] \in CallPcs
    BY <1>2 DEF CallPcs, AppendPcs
  <1>7. QED
    BY <1>1, <1>2, <1>3, <1>4, <1>5, <1>6, StaysInCall

(* What db_store and _db_writedat, _db_writeidx do before the end          *)
WriteOn(p) ==
  ReadFront(p) \/ DatLock(p) \/ DatSeekEnd(p) \/ (DatWrite(p) /\ pc[p] # "overwrite")
    \/ DatUnlock(p) \/ IdxLock(p) \/ IdxSeekEnd(p) \/ IdxWrite(p) \/ IdxUnlock(p)

LEMMA WriteOnStore ==
  ASSUME ~CrashMidway, Inv, Inv', NEW p \in Procs, WriteOn(p)
  PROVE  Stutters(p)
  <1> USE DEF Goto
  <1>1. Begin(p) \/ Rewind(p) \/ Step(p) \/ Crash(p)
    BY DEF Step, Write, WriteOn
  <1>2. /\ pc \in [Procs -> Positions] /\ db \in [Procs -> Handles]
    BY DEF Inv, IInv, LocksTypeOK, FileInv
  <1>3. call' = call /\ ret' = ret
    BY DEF WriteOn, ReadFront, DatLock, DatSeekEnd, DatWrite, DatUnlock, IdxLock, IdxSeekEnd,
       IdxWrite, IdxUnlock
  <1>4. /\ pc[p] \in {"front", "datwrite", "idxwrite"} \cup AppendPcs /\ pc[p] # "link"
        /\ pc'[p] \in {"fflock", "idxwrite"} \cup AppendPcs
        /\ pc[p] \in AppendPcs => pc'[p] \in AppendPcs
    BY <1>2 DEF WriteOn, ReadFront, DatLock, DatSeekEnd, DatWrite, DatUnlock, IdxLock,
       IdxSeekEnd, IdxWrite, IdxUnlock, AppendPcs
  <1>5. db'[p].rep = db[p].rep
    BY <1>2 DEF WriteOn, ReadFront, DatLock, DatSeekEnd, DatWrite, DatUnlock, IdxLock,
       IdxSeekEnd, IdxWrite, IdxUnlock, Handles
  <1>6. pc[p] \notin DeletePcs /\ pc[p] \notin {"delblank", "overwrite", "link"}
    BY <1>4 DEF Midway, DeletePcs, AppendPcs
  <1>7. TookEffect(p) => TookEffect(p)'
    BY <1>4, <1>5, <1>6 DEF TookEffect
  <1>8. TookEffect(p)' => TookEffect(p)
    BY <1>1, <1>6, StepCalls
  <1>9. pc[p] \in CallPcs /\ pc'[p] \in CallPcs
    BY <1>4 DEF CallPcs, FindFreePcs
  <1>10. QED
    BY <1>1, <1>3, <1>5, <1>6, <1>7, <1>8, <1>9, StaysInCall

(* New data for a record found, of the length of the old                   *)
LEMMA OverwriteStore ==
  ASSUME ~CrashMidway, Inv, Inv', NEW p \in Procs, DatWrite(p), pc[p] = "overwrite"
  PROVE  Performs(p)
  <1> USE DEF Goto
  <1>1. /\ Begin(p) \/ Rewind(p) \/ Step(p) \/ Crash(p)
        /\ pc \in [Procs -> Positions] /\ db \in [Procs -> Handles] /\ DOMAIN ret = Procs
        /\ Known(p) /\ HandleOK(p) /\ CallKnown(p) /\ InChain(p)
    BY DEF Inv, IInv, LocksTypeOK, FileInv, CallInv, ListInv, Step, Write, InChain, OutsideChain
  <1>2. pc'[p] = "unlock" /\ call' = call /\ ret'[p] = OK /\ UNCHANGED <<ptr, rec>>
    BY <1>1 DEF DatWrite
  <1>3. ~TookEffect(p) /\ ~TookEffect(p)' /\ InChain(p)'
    BY <1>2 DEF TookEffect, Midway, DeletePcs, AppendPcs, InChain, OutsideChain
  <1>4. PhaseOf(p) = "called" /\ PhaseOf(p)' = "returning" /\ RetOf(p)' = OK
    BY <1>2, <1>3 DEF PhaseOf, RetOf, Replacing, Deleted, InNext
  <1>5. PICK h, o : h = ChainOff(p) /\ o = db[p].idxoff
    OBVIOUS
  <1>6. /\ o \in List(h) /\ rec[o].key = call[p].key
        /\ dat'[rec[o].datoff] = call[p].data
    BY <1>1, <1>5 DEF Known, ChainKnown, HandleOK, AtRecord, DatWrite, Put
  <1>7. After' = After
    BY <1>1, <1>2, StepCalls, AfterSame DEF Unlinking, Inv
  <1>8. List(h)' = List(h)
    BY <1>2, <1>7, QuietLists
  <1>9. OwnIs(p) /\ OwnIs(p)' /\ ChainOff(p)' = h
    BY <1>2, <1>5, OwnIsSo DEF ChainOff
  <1>10. Lookup(call[p].key) # Blank /\ call[p] \in Calls
    BY <1>1, <1>3, <1>5, <1>6, <1>9 DEF OwnIs
  <1>11. Lookup(call[p].key)' = call[p].data
    BY <1>2, <1>3, <1>6, <1>8, <1>9 DEF OwnIs
  <1>12. \A k \in Keys : k # call[p].key => Lookup(k)' = Lookup(k)
    BY <1>1, OtherKeys
  <1>13. call[p].op \in {"replace", "store"}
    BY <1>1 DEF CallKnown
  <1>14. QED
    BY <1>1, <1>2, <1>4, <1>10, <1>11, <1>12, <1>13, PerformsWrite

(* The new record enters its chain.                                        *)
LEMMA LinkStore ==
  ASSUME ~CrashMidway, Inv, Inv', NEW p \in Procs, Link(p)
  PROVE  Stores(p) \/ Performs(p)
  <1> USE DEF Goto
  <1>1. /\ Begin(p) \/ Rewind(p) \/ Step(p) \/ Crash(p)
        /\ pc \in [Procs -> Positions] /\ db \in [Procs -> Handles] /\ DOMAIN ret = Procs
        /\ IInv /\ FileInv /\ ListInv /\ Known(p) /\ CallKnown(p) /\ HandsOK
    BY DEF Inv, IInv, LocksTypeOK, FileInv, CallInv, ListInv, Step, Write
  <1>2. /\ pc[p] = "link" /\ pc'[p] = "unlock" /\ call' = call /\ ret'[p] = OK /\ db' = db
        /\ UNCHANGED <<rec, dat>> /\ InChain(p)
    BY <1>1 DEF Link, InChain, OutsideChain
  <1>3. ~TookEffect(p)' /\ InChain(p)'
    BY <1>2 DEF TookEffect, Midway, DeletePcs, AppendPcs, InChain, OutsideChain
  <1>4. PICK h, o : h = ChainOff(p) /\ o = db[p].idxoff
    OBVIOUS
  <1>5. OwnIs(p) /\ OwnIs(p)' /\ ChainOff(p)' = h /\ call[p] \in Calls /\ h \in Chains
    <2>1. call[p] \in Calls
      BY <1>1, <1>2 DEF IInv, LocksTypeOK
    <2>2. h \in Chains
      BY <1>4, <2>1, HashAssumption DEF ChainOff, Calls
    <2>3. QED
      BY <1>2, <1>4, <2>1, <2>2, OwnIsSo DEF ChainOff
  <1>6. o \in List(h)' /\ rec[o].key = call[p].key /\ dat[rec[o].datoff] = call[p].data
    <2>1. o \in List(h)'
      BY <1>1, <1>2, <1>4, <1>5, StepLists DEF ChainsKept
    <2>2. QED
      BY <1>1, <1>2, <1>4, <2>1 DEF Known, HandKnown, Wrote
  <1>7. Lookup(call[p].key)' = call[p].data
    BY <1>2, <1>3, <1>5, <1>6 DEF OwnIs
  <1>8. CASE db[p].rep
    <2>1. Replacing(p)
      BY <1>2, <1>8 DEF Replacing, TookEffect, AppendPcs
    <2>2. PhaseOf(p) = "storing" /\ PhaseOf(p)' = "returning" /\ RetOf(p)' = OK
      BY <1>2, <1>3, <2>1 DEF PhaseOf, RetOf, Replacing, Deleted, InNext
    <2>3. \A k \in Keys : k # call[p].key => Lookup(k)' = Lookup(k)
      BY <1>1, OtherKeys
    <2>4. call[p].key \in Keys
      BY <1>5 DEF Calls
    <2>5. QED
      BY <1>2, <1>7, <2>2, <2>3, <2>4 DEF Stores
  <1>9. CASE ~db[p].rep
    <2>1. ~TookEffect(p)
      BY <1>2, <1>9 DEF TookEffect, Midway, DeletePcs
    <2>2. PhaseOf(p) = "called" /\ PhaseOf(p)' = "returning" /\ RetOf(p)' = OK
      BY <1>2, <1>3, <2>1 DEF PhaseOf, RetOf, Replacing, Deleted, InNext
    <2>3. Lookup(call[p].key) = Blank
      <3>1. \A x \in List(h) : rec[x].key # call[p].key
        BY <1>1, <1>2, <1>4 DEF Known, ChainKnown, MissingPcs, FrontPcs
      <3>2. QED
        BY <1>2, <1>4, <1>5, <2>1, <3>1 DEF OwnIs
    <2>4. call[p].op \in {"insert", "store"}
      BY <1>1, <1>2, <1>9 DEF CallKnown, AppendPcs
    <2>5. \A k \in Keys : k # call[p].key => Lookup(k)' = Lookup(k)
      BY <1>1, OtherKeys
    <2>6. QED
      BY <1>2, <1>5, <1>7, <2>2, <2>3, <2>4, <2>5, PerformsWrite
  <1>10. QED
    BY <1>8, <1>9

(* The steps of db_rewind and db_nextrec                                   *)
LEMMA ScanStore ==
  ASSUME ~CrashMidway, Inv, Inv', NEW p \in Procs, Rewind(p) \/ Nextrec(p)
  PROVE  Stutters(p)
  <1> USE DEF Goto
  <1>1. /\ Begin(p) \/ Rewind(p) \/ Step(p) \/ Crash(p)
        /\ pc \in [Procs -> Positions] /\ call' = call /\ ret' = ret
    BY DEF Inv, IInv, LocksTypeOK, Step, Rewind, Nextrec, NextLock, NextRead, NextDat,
       NextUnlock
  <1>2. /\ pc[p] \in {"idle", "scan", "nextread", "nextdat", "nextunlock"}
        /\ pc'[p] \in {"idle", "scan", "nextread", "nextdat", "nextunlock"}
    BY <1>1 DEF Rewind, Nextrec, NextLock, NextRead, NextDat, NextUnlock
  <1>3. ~TookEffect(p) /\ ~TookEffect(p)'
    BY <1>2 DEF TookEffect, Midway, DeletePcs, AppendPcs
  <1>4. PhaseOf(p) = "idle" /\ PhaseOf(p)' = "idle"
    BY <1>2 DEF PhaseOf, InNext
  <1>5. RetOf(p)' = RetOf(p)
    BY <1>1, <1>3 DEF RetOf, Deleted
  <1>6. \A k \in Keys : Lookup(k)' = Lookup(k)
    BY <1>1, <1>2, <1>3, OwnKey
  <1>7. QED
    BY <1>1, <1>4, <1>5, <1>6 DEF Stutters

(* A call cut short after its deletion: its key is on no chain.            *)
LEMMA DiesAfter ==
  ASSUME ~CrashMidway, Inv, Inv', NEW p \in Procs, Crash(p), TookEffect(p)
  PROVE  \A k \in Keys : Lookup(k)' = Lookup(k)
  <1>1. /\ pc \in [Procs -> Positions] /\ call' = call /\ pc'[p] = "dead"
        /\ pc[p] \in {"delunlock"} \cup AppendPcs /\ UNCHANGED <<ptr, rec, dat>>
        /\ ~TookEffect(p)' /\ p \notin Unlinking /\ p \notin Unlinking'
    <2>1. /\ pc \in [Procs -> Positions] /\ call' = call /\ UNCHANGED <<ptr, rec, dat>>
          /\ pc' = [pc EXCEPT ![p] = "dead"] /\ pc[p] \notin Midway
      BY DEF Inv, IInv, LocksTypeOK, Crash, Goto, files
    <2>2. QED
      BY <2>1 DEF TookEffect, Midway, DeletePcs, AppendPcs, Unlinking
  <1>2. TookIs(p) /\ LookupIs' /\ Known(p) /\ InChain(p) /\ call[p] \in Calls
        /\ \A q \in Procs : q # p /\ InChain(q) => ChainOff(q) # ChainOff(p)
    BY <1>1, TookIsSo, LookupIsSo, TookLocked DEF Inv, ListInv, IInv, LocksTypeOK
  <1>3. PICK k \in Keys : k = call[p].key
    BY <1>2 DEF Calls
  <1>4. Lookup(k)' = Blank
    <2>1. \A q \in Procs : ~TookKey(q, k)'
      <3>1. \A q \in Procs : q # p => ~TookKey(q, k)
        BY <1>2, <1>3, TookLocked DEF Inv, TookKey, ChainOff
      <3>2. QED
        BY <1>1, <3>1, StepCalls DEF Alone, TookKey, TookEffect
    <2>2. After' = After
      BY <1>1, StepCalls, AfterSame DEF Inv
    <2>3. List(Hash[k])' = List(Hash[k])
      BY <1>1, <2>2, QuietLists
    <2>4. \A o \in List(Hash[k]) : rec[o].key # k
      BY <1>1, <1>2, <1>3 DEF Known, ChainKnown, MissingPcs, FrontPcs, AppendPcs, ChainOff
    <2>5. QED
      BY <1>1, <1>2, <2>1, <2>3, <2>4 DEF LookupIs
  <1>5. QED
    BY <1>2, <1>3, <1>4, OtherKeys DEF TookIs

(* What a step shows of the other processes                                *)
LEMMA StepMaps ==
  ASSUME Inv, NEW p \in Procs, Begin(p) \/ Rewind(p) \/ Step(p) \/ Crash(p)
  PROVE  /\ Phases' = [Phases EXCEPT ![p] = PhaseOf(p)']
         /\ Rets' = [Rets EXCEPT ![p] = RetOf(p)']
         /\ Phases[p] = PhaseOf(p)
  <1>1. ASSUME NEW q \in Procs, q # p PROVE PhaseOf(q)' = PhaseOf(q) /\ RetOf(q)' = RetOf(q)
    <2>1. pc'[q] = pc[q] /\ db'[q] = db[q] /\ ret'[q] = ret[q]
      BY <1>1, StepCalls DEF Alone
    <2>2. QED
      BY <2>1 DEF PhaseOf, RetOf, TookEffect, Replacing, Deleted, InNext
  <1>2. QED
    BY <1>1 DEF Phases, Rets

(* Whoever has its chain locked meets no replacement of its key half done. *)
LEMMA NoneStoring ==
  ASSUME Inv, NEW p \in Procs, InChain(p)
  PROVE  Abs!Undisturbed(p)
  <1> SUFFICES ASSUME NEW q \in Procs \ {p}, Phases[q] = "storing"
               PROVE  call[q].key # call[p].key
    BY DEF Abs!Undisturbed
  <1>1. TookEffect(q)
    BY DEF Phases, PhaseOf, Replacing
  <1>2. QED
    BY <1>1, TookLocked DEF Inv, ChainOff

LEMMA StepStore ==
  ASSUME ~CrashMidway, Inv, Inv', NEW p \in Procs,
         Begin(p) \/ Rewind(p) \/ Step(p) \/ Crash(p)
  PROVE  \/ Abs!Call(p) \/ Abs!Perform(p) \/ Abs!Remove(p) \/ Abs!Store(p)
         \/ Abs!Return(p) \/ Abs!Die(p) \/ UNCHANGED Abs!vars
  <1> USE DEF Goto
  <1>1. /\ pc \in [Procs -> Positions] /\ db \in [Procs -> Handles] /\ DOMAIN ret = Procs
        /\ call \in [Procs -> Calls \cup {NoCall}] /\ ~CrashMidway
    BY DEF Inv, IInv, LocksTypeOK, FileInv, CallInv
  <1>2. ASSUME Stutters(p) PROVE UNCHANGED Abs!vars
    <2>1. Phases' = Phases /\ Rets' = Rets
      BY <1>2, StepMaps DEF Stutters, Phases, Rets
    <2>2. TheStore' = TheStore /\ call' = call
      BY <1>2 DEF Stutters, TheStore
    <2>3. QED
      BY <2>1, <2>2 DEF Abs!vars
  <1>3. ASSUME Performs(p) PROVE Abs!Perform(p)
    <2>1. TheStore' = Abs!Effect(TheStore, call[p])
      <3>1. \A k \in Keys : Lookup(k)' = Abs!Effect(TheStore, call[p])[k]
        BY <1>3 DEF Performs
      <3>2. /\ DOMAIN Abs!Effect(TheStore, call[p]) = Keys
            /\ Abs!Effect(TheStore, call[p])
                 = [k \in Keys |-> Abs!Effect(TheStore, call[p])[k]]
        BY DEF Abs!Effect, TheStore
      <3>3. QED
        BY <3>1, <3>2 DEF TheStore
    <2>2. QED
      BY <1>3, <2>1, StepMaps, NoneStoring DEF Abs!Perform, Performs
  <1>4. ASSUME Removes(p) PROVE Abs!Remove(p)
    <2>1. TheStore' = [TheStore EXCEPT ![call[p].key] = Blank]
      BY <1>4 DEF Removes, TheStore
    <2>2. TheStore[call[p].key] # Blank
      BY <1>4 DEF Removes, TheStore
    <2>3. Phases' = [Phases EXCEPT ![p] = "storing"] /\ Phases[p] = "called" /\ Rets' = Rets
      BY <1>4, StepMaps DEF Removes, Rets
    <2>4. Abs!Undisturbed(p) /\ call' = call /\ call[p].op \in {"replace", "store"}
      BY <1>4, NoneStoring DEF Removes
    <2>5. QED
      BY <2>1, <2>2, <2>3, <2>4 DEF Abs!Remove
  <1>5. ASSUME Stores(p) PROVE Abs!Store(p)
    <2>1. TheStore' = [TheStore EXCEPT ![call[p].key] = call[p].data]
      BY <1>5 DEF Stores, TheStore
    <2>2. /\ Phases' = [Phases EXCEPT ![p] = "returning"] /\ Phases[p] = "storing"
          /\ Rets' = [Rets EXCEPT ![p] = OK] /\ call' = call
      BY <1>5, StepMaps DEF Stores
    <2>3. QED
      BY <2>1, <2>2 DEF Abs!Store, Abs!OK, OK
  <1>6. CASE Begin(p)
    <2>1. pc[p] = "idle" /\ pc'[p] = "lock" /\ ret'[p] = None
      BY <1>1, <1>6 DEF Begin
    <2>2. PhaseOf(p) = "idle" /\ PhaseOf(p)' = "called" /\ RetOf(p)' = None
      BY <2>1 DEF PhaseOf, RetOf, InNext, Replacing, Deleted, TookEffect, Midway, DeletePcs, AppendPcs
    <2>3. TheStore' = TheStore
      BY <1>6, <2>1, OtherKeys DEF TheStore, InChain, OutsideChain
    <2>4. \E c \in Calls : call' = [call EXCEPT ![p] = c]
      BY <1>6, RequestAssumption DEF Begin
    <2>5. Abs!Calls = Calls /\ Abs!None = None
      BY DEF Abs!Calls, Abs!WriteOps, Calls, WriteOps, Abs!None, None
    <2>6. QED
      BY <2>2, <2>3, <2>4, <2>5, StepMaps DEF Abs!Call
  <1>7. CASE UnlockChain(p)
    <2>1. pc[p] = "unlock" /\ pc'[p] = "idle" /\ ret' = ret /\ call' = call
      BY <1>1, <1>7 DEF UnlockChain
    <2>2. ~TookEffect(p) /\ ~TookEffect(p)'
      BY <2>1 DEF TookEffect, Midway, DeletePcs, AppendPcs
    <2>3. PhaseOf(p) = "returning" /\ PhaseOf(p)' = "idle" /\ RetOf(p)' = RetOf(p)
      BY <2>1, <2>2 DEF PhaseOf, RetOf, InNext, Replacing, Deleted
    <2>4. TheStore' = TheStore
      BY <2>1, <2>2, OwnKey DEF TheStore
    <2>5. Rets' = Rets
      BY <2>3, StepMaps DEF Rets
    <2>6. QED
      BY <2>1, <2>3, <2>4, <2>5, StepMaps DEF Abs!Return
  <1>8. CASE Crash(p)
    <2>1. /\ pc'[p] = "dead" /\ ret'[p] = None /\ call' = call
      BY <1>1, <1>8 DEF Crash
    <2>2. ~TookEffect(p)'
      BY <2>1 DEF TookEffect, Midway, DeletePcs, AppendPcs
    <2>3. PhaseOf(p)' = "dead" /\ RetOf(p)' = None
      BY <2>1, <2>2 DEF PhaseOf, RetOf, InNext, Deleted
    <2>4. TheStore' = TheStore
      <3>1. CASE ~TookEffect(p)
        BY <1>8, <2>1, <2>2, <3>1, OwnKey DEF TheStore
      <3>2. CASE TookEffect(p)
        BY <1>1, <1>8, <3>2, DiesAfter DEF TheStore
      <3>3. QED
        BY <3>1, <3>2
    <2>5. QED
      BY <2>1, <2>3, <2>4, StepMaps DEF Abs!Die, Abs!None, None
  <1>9. CASE Rewind(p) \/ Nextrec(p)
    BY <1>2, <1>9, ScanStore
  <1>10. CASE LockChain(p) \/ ReadHead(p) \/ Walk(p) \/ ReadDat(p)
    BY <1>2, <1>3, <1>10, FindStore
  <1>11. CASE Delete(p)
    BY <1>2, <1>3, <1>4, <1>11, DeleteStore
  <1>12. CASE FindFree(p)
    BY <1>2, <1>12, FindFreeStore
  <1>13. CASE Write(p)
    <2>1. WriteOn(p) \/ (DatWrite(p) /\ pc[p] = "overwrite") \/ Link(p)
      BY <1>13 DEF Write, WriteOn
    <2>2. QED
      BY <1>2, <1>3, <1>5, <2>1, WriteOnStore, OverwriteStore, LinkStore
  <1>14. QED
    BY <1>6, <1>7, <1>8, <1>9, <1>10, <1>11, <1>12, <1>13 DEF Step, Find

-----------------------------------------------------------------------------
(* The theorems                                                            *)

(* The positions of every call, its record and its data hold together.     *)
THEOREM CallsSound == ~CrashMidway => (Spec => []Inv)
  <1> SUFFICES ASSUME ~CrashMidway PROVE Spec => []Inv
    OBVIOUS
  <1>1. IInv /\ FileInv /\ CallInv /\ [Next]_vars => CallInv'
    BY NextCallInv
  <1>2. QED
    BY <1>1, InitCallInv, LockDiscipline, FilesSound, ListsSound, PTL DEF Spec, Inv

(* Every db_fetch, db_store and db_delete acts on the map from keys to     *)
(* data as if in one step between its call and its return, whatever the    *)
(* other processes do meanwhile: for any number of processes, keys and     *)
(* chains, as long as none dies between the four writes of a deletion      *)
(* (db.c:464).  A process that dies in db_store between the deletion of a  *)
(* record and the link of the one in its place (db.c:713) has taken the    *)
(* key out, and no other death leaves a call half done.                    *)
THEOREM CallsTakeEffectAtOnce == ~CrashMidway => (Spec => ImplementsStore)
  <1> SUFFICES ASSUME ~CrashMidway PROVE Spec => ImplementsStore
    OBVIOUS
  <1>1. Init => Abs!Init
    <2> SUFFICES ASSUME Init PROVE Abs!Init
      OBVIOUS
    <2>1. \A p \in Procs : pc[p] = "idle" /\ ret[p] = None /\ ~TookEffect(p)
      BY DEF Init, TookEffect, Midway, DeletePcs, AppendPcs
    <2>2. \A p \in Procs : PhaseOf(p) = "idle" /\ RetOf(p) = None
      BY <2>1 DEF PhaseOf, RetOf, Deleted
    <2>3. \A k \in Keys : Lookup(k) = Blank
      <3>1. \A h : Chain(h) = {}
        BY DEF Init, Chain, List, Reach
      <3>2. QED
        BY <2>1, <3>1 DEF Lookup
    <2>4. call = [p \in Procs |-> NoCall]
      BY DEF Init
    <2>5. QED
      BY <2>2, <2>3, <2>4
         DEF Abs!Init, Phases, Rets, TheStore, Abs!NoCall, Abs!None, NoCall, None
  <1>2. Inv /\ Inv' /\ [Next]_vars => [Abs!Next]_(Abs!vars)
    <2> SUFFICES ASSUME Inv, Inv', [Next]_vars, ~UNCHANGED Abs!vars PROVE Abs!Next
      OBVIOUS
    <2>1. ~UNCHANGED vars
      <3>1. SUFFICES ASSUME UNCHANGED vars PROVE UNCHANGED Abs!vars
        OBVIOUS
      <3>2. UNCHANGED <<ptr, rec, dat, pc, db, call, ret>>
        BY <3>1 DEF vars, files
      <3>3. After' = After /\ \A p \in Procs : TookEffect(p)' = TookEffect(p)
        BY <3>2 DEF After, Unlinking, TookEffect
      <3>4. \A h : List(h)' = List(h)
        BY <3>2, <3>3, QuietLists
      <3>5. \A k \in Keys : Lookup(k)' = Lookup(k)
        BY <3>2, <3>3, <3>4 DEF Lookup, Chain
      <3>6. QED
        BY <3>2, <3>3, <3>5
           DEF Abs!vars, TheStore, Phases, Rets, PhaseOf, RetOf, InNext, Replacing, Deleted
    <2>2. PICK p \in Procs : Begin(p) \/ Rewind(p) \/ Step(p) \/ Crash(p)
      BY <2>1 DEF Next, Finished
    <2>3. QED
      BY <2>2, StepStore DEF Abs!Next
  <1>3. QED
    BY <1>1, <1>2, CallsSound, PTL DEF Spec, ImplementsStore, Abs!Spec

=============================================================================
