--------------------------- MODULE FooTableProofs --------------------------
(***************************************************************************)
(* What the proofs about mutex2.c and mutex3.c share: the inductive        *)
(* invariant, with the positions at which hashlock (H) and the lock in the *)
(* object (O) are held as parameters, and what each kind of step does to   *)
(* it.                                                                     *)
(*                                                                         *)
(* The argument: a position says which locks its thread holds and what its *)
(* pointer variable refers to; an object outside the table belongs to one  *)
(* thread (Private); every other object a thread works on is in the table, *)
(* because it is referenced, or because the thread holds the lock that its *)
(* removal needs.                                                          *)
(***************************************************************************)
EXTENDS FooTable, FiniteSetTheorems, TLAPS

Wants == {"alloc_lock", "hold", "find", "find_hold"}
Has == {"alloc_flock", "alloc_unhash", "alloc_init", "hold_done", "find_held",
        "rele", "rele_again", "rele_hash", "rele_check"}
Locked == {"find_hold", "rele_done", "rele_kept"}
Private == {"alloc_lock", "rele_gone", "rele_unlock", "rele_free"}

(* A position holds its locks, and a lock is held at such a position.      *)
LocksAt(H, O) ==
  /\ \A t \in Threads : hashlock = t <=> pc[t] \in H
  /\ \A t \in Threads, o \in Objs : f_lock[o] = t <=> pc[t] \in O /\ fp[t] = o

(* Calls in progress use different pointer variables.                      *)
Apart ==
  \A t, u \in Threads : t # u /\ ~Idle(t) /\ ~Idle(u) =>
    dst[t] # dst[u] /\ dst[t] # src[u] /\ src[t] # src[u]

(* What a thread knows at its position                                     *)
Mine(t) ==
  /\ pc[t] \in Wants => ref[dst[t]] = NULL
  /\ pc[t] \in Has => fp[t] \in Objs /\ ref[dst[t]] = fp[t]
  /\ pc[t] = "hold" => fp[t] \in Objs /\ ref[src[t]] = fp[t]
  /\ pc[t] \in Locked => fp[t] \in Objs /\ InTable(fp[t])
  /\ pc[t] \in Private => fp[t] \in alive /\ ~InTable(fp[t])
  /\ pc[t] = "alloc_lock" => f_id[fp[t]] = want[t] /\ f_count[fp[t]] = 1
  /\ pc[t] \in {"alloc_lock", "find"} => want[t] \in Ids

PrivateApart ==
  \A t, u \in Threads :
    t # u /\ pc[t] \in Private /\ pc[u] \in Private => fp[t] # fp[u]

TableAlive == \A o \in Objs : InTable(o) => o \in alive

Owned ==
  \A o \in alive : InTable(o) \/ \E t \in Threads : pc[t] \in Private /\ fp[t] = o

FooInv(H, O) ==
  /\ TypeOK /\ ChainsSound /\ LocksAt(H, O) /\ Apart
  /\ \A t \in Threads : Mine(t)
  /\ PrivateApart /\ TableAlive /\ CountRight /\ Owned

(* The variables that say where the threads are and which locks are held   *)
PlacesTyped ==
  /\ pc \in [Threads -> Positions]
  /\ fp \in [Threads -> Objs \cup {NULL}]
  /\ hashlock \in Threads \cup {NoThread}
  /\ f_lock \in [Objs -> Threads \cup {NoThread}]

(* The positions of foo_alloc and of the calls, which are in both programs *)
Shared(H, O) ==
  /\ {"idle", "alloc_lock", "hold", "find", "rele"} \cap (H \cup O) = {}
  /\ "alloc_flock" \in H \ O /\ "alloc_unhash" \in H \cap O /\ "alloc_init" \in O \ H
  /\ O \subseteq Has \cup Locked \cup Private

-----------------------------------------------------------------------------
(* Counting references                                                     *)
LEMMA CountType == \A o \in Objs : Count(o) \in Nat
<1> SUFFICES ASSUME NEW o \in Objs PROVE Count(o) \in Nat
  OBVIOUS
<1>1. IsFiniteSet({r \in Refs : ref[r] = o})
  BY RefsAssumption, FS_Subset
<1> QED BY <1>1, FS_CardinalityType DEF Count

(* A variable that was NULL now refers to o.                               *)
LEMMA CountAdd ==
  ASSUME TypeOK, NEW r \in Refs, NEW o \in Objs, ref[r] = NULL,
         ref' = [ref EXCEPT ![r] = o]
  PROVE  \A p \in Objs : Count(p)' = IF p = o THEN Count(p) + 1 ELSE Count(p)
<1> SUFFICES ASSUME NEW p \in Objs
             PROVE  Count(p)' = IF p = o THEN Count(p) + 1 ELSE Count(p)
  OBVIOUS
<1> DEFINE R == {s \in Refs : ref[s] = p}
           Q == {s \in Refs : ref'[s] = p}
<1>1. IsFiniteSet(R)
  BY RefsAssumption, FS_Subset
<1>2. r \notin R
  BY NullAssumption
<1>3. CASE p = o
  <2>1. Q = R \cup {r}
    BY <1>3 DEF TypeOK
  <2> QED BY <1>1, <1>2, <1>3, <2>1, FS_AddElement DEF Count
<1>4. CASE p # o
  <2>1. Q = R
    BY <1>4, NullAssumption DEF TypeOK
  <2> QED BY <1>4, <2>1 DEF Count
<1> QED BY <1>3, <1>4

(* A variable that referred to o is now NULL.                              *)
LEMMA CountDrop ==
  ASSUME TypeOK, NEW r \in Refs, NEW o \in Objs, ref[r] = o,
         ref' = [ref EXCEPT ![r] = NULL]
  PROVE  \A p \in Objs : Count(p)' = IF p = o THEN Count(p) - 1 ELSE Count(p)
<1> SUFFICES ASSUME NEW p \in Objs
             PROVE  Count(p)' = IF p = o THEN Count(p) - 1 ELSE Count(p)
  OBVIOUS
<1> DEFINE R == {s \in Refs : ref[s] = p}
           Q == {s \in Refs : ref'[s] = p}
<1>1. IsFiniteSet(R)
  BY RefsAssumption, FS_Subset
<1>2. CASE p = o
  <2>1. Q = R \ {r} /\ r \in R
    BY <1>2, NullAssumption DEF TypeOK
  <2> QED BY <1>1, <1>2, <2>1, FS_RemoveElement DEF Count
<1>3. CASE p # o
  <2>1. Q = R
    BY <1>3, NullAssumption DEF TypeOK
  <2> QED BY <1>3, <2>1 DEF Count
<1> QED BY <1>2, <1>3

(* Two different variables that refer to o make its count at least two.    *)
LEMMA CountTwo ==
  ASSUME NEW o \in Objs, NEW r \in Refs, NEW s \in Refs,
         ref[r] = o, ref[s] = o, r # s
  PROVE  Count(o) # 1
<1> DEFINE R == {q \in Refs : ref[q] = o}
<1>1. IsFiniteSet(R) /\ r \in R /\ s \in R \ {r}
  BY RefsAssumption, FS_Subset
<1>2. Cardinality(R \ {r}) = Cardinality(R) - 1 /\ IsFiniteSet(R \ {r})
  BY <1>1, FS_RemoveElement
<1>3. Cardinality(R \ {r}) # 0
  BY <1>1, <1>2, FS_EmptySet
<1>4. Cardinality(R) # 1
  BY <1>1, <1>2, <1>3, FS_CardinalityType
<1> QED BY <1>4 DEF Count

LEMMA CountOne ==
  ASSUME NEW o \in Objs, NEW r \in Refs, ref[r] = o, \A s \in Refs \ {r} : ref[s] # o
  PROVE  Count(o) = 1
<1>1. {q \in Refs : ref[q] = o} = {r}
  OBVIOUS
<1> QED BY <1>1, FS_Singleton DEF Count

LEMMA CountNone ==
  ASSUME NEW o \in Objs, \A r \in Refs : ref[r] # o
  PROVE  Count(o) = 0
<1>1. {r \in Refs : ref[r] = o} = {}
  OBVIOUS
<1> QED BY <1>1, FS_EmptySet DEF Count

-----------------------------------------------------------------------------
(* The table                                                               *)
LEMMA TableSame ==
  ASSUME UNCHANGED <<fh, f_id>>
  PROVE  /\ ChainsSound => ChainsSound'
         /\ \A o : InTable(o)' <=> InTable(o)
BY DEF ChainsSound, InTable, Chain

LEMMA ConsEntries ==
  ASSUME NEW S, NEW s \in Seq(S), NEW e \in S
  PROVE  /\ <<e>> \o s \in Seq(S) /\ DOMAIN (<<e>> \o s) = 1..(Len(s) + 1)
         /\ (<<e>> \o s)[1] = e
         /\ \A j \in 2..(Len(s) + 1) : (<<e>> \o s)[j] = s[j - 1] /\ j - 1 \in DOMAIN s
         /\ \A j \in DOMAIN s : s[j] = (<<e>> \o s)[j + 1] /\ j + 1 \in 2..(Len(s) + 1)
<1>1. /\ <<e>> \o s \in Seq(S) /\ DOMAIN (<<e>> \o s) = 1..(Len(s) + 1)
      /\ (<<e>> \o s)[1] = e
  OBVIOUS
<1>2. \A j \in 2..(Len(s) + 1) : (<<e>> \o s)[j] = s[j - 1] /\ j - 1 \in DOMAIN s
  OBVIOUS
<1>3. \A j \in DOMAIN s : s[j] = (<<e>> \o s)[j + 1] /\ j + 1 \in 2..(Len(s) + 1)
  <2>1. \A j \in DOMAIN s : j + 1 \in 2..(Len(s) + 1) /\ (j + 1) - 1 = j
    OBVIOUS
  <2> QED BY <1>2, <2>1
<1> QED BY <1>1, <1>2, <1>3

LEMMA Consing ==
  ASSUME NEW S, NEW s \in Seq(S), NEW e \in S, IsInjective(s), e \notin Range(s)
  PROVE  /\ <<e>> \o s \in Seq(S) /\ IsInjective(<<e>> \o s)
         /\ Range(<<e>> \o s) = Range(s) \cup {e}
<1> DEFINE q == <<e>> \o s
<1>1. /\ q \in Seq(S) /\ DOMAIN q = 1..(Len(s) + 1) /\ q[1] = e
      /\ \A j \in 2..(Len(s) + 1) : q[j] = s[j - 1] /\ j - 1 \in DOMAIN s
      /\ \A j \in DOMAIN s : s[j] = q[j + 1] /\ j + 1 \in 2..(Len(s) + 1)
  BY ConsEntries
<1> HIDE DEF q
<1>2. IsInjective(q)
  <2> SUFFICES ASSUME NEW a \in DOMAIN q, NEW b \in DOMAIN q, q[a] = q[b] PROVE a = b
    BY DEF IsInjective
  <2>1. \A j \in DOMAIN q : /\ q[j] \in Range(s) => j # 1
                            /\ j # 1 => j \in 2..(Len(s) + 1) /\ q[j] \in Range(s)
    BY <1>1 DEF Range
  <2>2. CASE a = 1
    BY <1>1, <2>1, <2>2
  <2>3. CASE a # 1
    <3>1. b # 1 /\ a \in 2..(Len(s) + 1) /\ b \in 2..(Len(s) + 1)
      BY <1>1, <2>1, <2>3
    <3>2. s[a - 1] = s[b - 1] /\ a - 1 \in DOMAIN s /\ b - 1 \in DOMAIN s
      BY <1>1, <3>1
    <3>3. a - 1 = b - 1
      BY <3>2 DEF IsInjective
    <3> QED BY <3>1, <3>3
  <2> QED BY <2>2, <2>3
<1>3. Range(q) = Range(s) \cup {e}
  <2>1. ASSUME NEW a \in DOMAIN q PROVE q[a] \in Range(s) \cup {e}
    <3>1. CASE a = 1
      BY <3>1, <1>1
    <3>2. CASE a # 1
      <4>1. a \in 2..(Len(s) + 1)
        BY <3>2, <1>1
      <4> QED BY <4>1, <1>1 DEF Range
    <3> QED BY <3>1, <3>2
  <2>2. e \in Range(q)
    <3>1. 1 \in DOMAIN q
      BY <1>1
    <3> QED BY <1>1, <3>1 DEF Range
  <2>3. ASSUME NEW a \in DOMAIN s PROVE s[a] \in Range(q)
    <3>1. a + 1 \in DOMAIN q /\ s[a] = q[a + 1]
      BY <1>1
    <3> QED BY <3>1 DEF Range
  <2> QED BY <2>1, <2>2, <2>3 DEF Range
<1> QED BY <1>1, <1>2, <1>3 DEF q

(* A new first element comes before all others and moves none of them.     *)
LEMMA ConsOrder ==
  ASSUME NEW S, NEW s \in Seq(S), NEW e \in S, NEW o, NEW p
  PROVE  Before(<<e>> \o s, o, p) <=> Before(s, o, p) \/ (o = e /\ p \in Range(s))
<1> DEFINE q == <<e>> \o s
<1>1. /\ q \in Seq(S) /\ DOMAIN q = 1..(Len(s) + 1) /\ q[1] = e
      /\ \A j \in 2..(Len(s) + 1) : q[j] = s[j - 1] /\ j - 1 \in DOMAIN s
      /\ \A j \in DOMAIN s : s[j] = q[j + 1] /\ j + 1 \in 2..(Len(s) + 1)
      /\ DOMAIN s = 1..Len(s) /\ Len(s) \in Nat
  BY ConsEntries
<1> HIDE DEF q
<1>2. ASSUME Before(q, o, p) PROVE Before(s, o, p) \/ (o = e /\ p \in Range(s))
  <2>1. PICK i, j \in DOMAIN q : i < j /\ q[i] = o /\ q[j] = p
    BY <1>2 DEF Before
  <2>2. j \in 2..(Len(s) + 1) /\ p = s[j - 1] /\ j - 1 \in DOMAIN s
    BY <1>1, <2>1
  <2>3. CASE i = 1
    BY <1>1, <2>1, <2>2, <2>3 DEF Range
  <2>4. CASE i # 1
    <3>1. i \in 2..(Len(s) + 1) /\ i - 1 < j - 1
      BY <1>1, <2>1, <2>2, <2>4
    <3>2. o = s[i - 1] /\ i - 1 \in DOMAIN s
      BY <1>1, <2>1, <3>1
    <3> QED BY <2>2, <3>1, <3>2 DEF Before
  <2> QED BY <2>3, <2>4
<1>3. ASSUME Before(s, o, p) PROVE Before(q, o, p)
  <2>1. PICK i, j \in DOMAIN s : i < j /\ s[i] = o /\ s[j] = p
    BY <1>3 DEF Before
  <2>2. i + 1 \in DOMAIN q /\ j + 1 \in DOMAIN q /\ i + 1 < j + 1
    BY <1>1, <2>1
  <2>3. q[i + 1] = o /\ q[j + 1] = p
    BY <1>1, <2>1
  <2> QED BY <2>2, <2>3 DEF Before
<1>4. ASSUME o = e, p \in Range(s) PROVE Before(q, o, p)
  <2>1. PICK j \in DOMAIN s : s[j] = p
    BY <1>4 DEF Range
  <2>2. 1 \in DOMAIN q /\ j + 1 \in DOMAIN q /\ 1 < j + 1 /\ q[1] = o /\ q[j + 1] = p
    BY <1>1, <1>4, <2>1
  <2> QED BY <2>2 DEF Before
<1> QED BY <1>2, <1>3, <1>4 DEF q

(* Where the entries of a sequence come from when entry i is removed, and  *)
(* where the others go                                                     *)
Old(i, j) == IF j < i THEN j ELSE j + 1
New(i, k) == IF k < i THEN k ELSE k - 1

LEMMA RemoveEntries ==
  ASSUME NEW S, NEW s \in Seq(S), NEW i \in DOMAIN s
  PROVE  /\ RemoveAt(s, i) \in Seq(S) /\ DOMAIN RemoveAt(s, i) = 1..(Len(s) - 1)
         /\ \A j \in 1..(Len(s) - 1) :
              RemoveAt(s, i)[j] = s[Old(i, j)] /\ Old(i, j) \in DOMAIN s \ {i}
         /\ \A k \in DOMAIN s \ {i} :
              New(i, k) \in 1..(Len(s) - 1) /\ RemoveAt(s, i)[New(i, k)] = s[k]
<1> DEFINE q == RemoveAt(s, i)
<1> USE DEF Old, New
<1>1. q \in Seq(S) /\ Len(q) = Len(s) - 1 /\ DOMAIN q = 1..(Len(s) - 1)
  BY DEF RemoveAt
<1>2. \A j \in DOMAIN q : q[j] = s[Old(i, j)] /\ Old(i, j) \in DOMAIN s \ {i}
  <2> DEFINE a == SubSeq(s, 1, i - 1)
             b == SubSeq(s, i + 1, Len(s))
  <2>1. i \in 1..Len(s) /\ Len(s) \in Nat /\ DOMAIN s = 1..Len(s)
    OBVIOUS
  <2>2. a \in Seq(S) /\ Len(a) = i - 1 /\ \A j \in 1..(i - 1) : a[j] = s[j]
    BY <2>1
  <2>3. /\ b \in Seq(S) /\ Len(b) = Len(s) - i
        /\ \A j \in 1..(Len(s) - i) : b[j] = s[i + j]
    BY <2>1
  <2>4. q = a \o b
    BY DEF RemoveAt
  <2> HIDE DEF a, b, q
  <2>5. \A j \in 1..(Len(a) + Len(b)) :
          q[j] = IF j <= Len(a) THEN a[j] ELSE b[j - Len(a)]
    <3>1. a \in Seq(S) /\ b \in Seq(S)
      BY <2>2, <2>3
    <3>2. \A j \in 1..(Len(a) + Len(b)) :
            (a \o b)[j] = IF j <= Len(a) THEN a[j] ELSE b[j - Len(a)]
      BY <3>1
    <3> QED BY <2>4, <3>2
  <2> SUFFICES ASSUME NEW j \in DOMAIN q
               PROVE  q[j] = s[Old(i, j)] /\ Old(i, j) \in DOMAIN s \ {i}
    OBVIOUS
  <2>6. CASE j < i
    BY <2>6, <2>1, <2>2, <2>3, <2>5, <1>1
  <2>7. CASE ~(j < i)
    <3> DEFINE k == j - (i - 1)
    <3>1. k \in 1..(Len(s) - i) /\ q[j] = b[k]
      <4>1. j \in 1..(Len(s) - 1) /\ k \in 1..(Len(s) - i)
        BY <2>7, <2>1, <1>1
      <4>2. Len(a) = i - 1 /\ Len(b) = Len(s) - i
        BY <2>2, <2>3
      <4>3. j \in 1..(Len(a) + Len(b)) /\ ~(j <= Len(a))
        BY <4>1, <4>2, <2>7, <2>1
      <4>4. q[j] = b[j - Len(a)]
        BY <4>3, <2>5
      <4> QED BY <4>1, <4>2, <4>4
    <3>2. b[k] = s[i + k]
      BY <3>1, <2>3
    <3>3. i + k = j + 1
      BY <2>1, <1>1
    <3> HIDE DEF k
    <3> QED BY <3>1, <3>2, <3>3, <2>7, <2>1, <1>1
  <2> QED BY <2>6, <2>7
<1>3. ASSUME NEW k \in DOMAIN s \ {i}
      PROVE  New(i, k) \in DOMAIN q /\ q[New(i, k)] = s[k]
  <2>1. New(i, k) \in DOMAIN q /\ Old(i, New(i, k)) = k
    BY <1>1
  <2> QED BY <2>1, <1>2
<1> QED BY <1>1, <1>2, <1>3

LEMMA Removing ==
  ASSUME NEW S, NEW s \in Seq(S), NEW i \in DOMAIN s, IsInjective(s)
  PROVE  /\ RemoveAt(s, i) \in Seq(S) /\ IsInjective(RemoveAt(s, i))
         /\ Range(RemoveAt(s, i)) = Range(s) \ {s[i]}
<1> DEFINE q == RemoveAt(s, i)
<1>1. /\ q \in Seq(S) /\ DOMAIN q = 1..(Len(s) - 1)
      /\ \A j \in DOMAIN q : q[j] = s[Old(i, j)] /\ Old(i, j) \in DOMAIN s \ {i}
      /\ \A k \in DOMAIN s \ {i} : New(i, k) \in DOMAIN q /\ q[New(i, k)] = s[k]
  BY RemoveEntries
<1> HIDE DEF q
<1>2. IsInjective(q)
  BY <1>1 DEF IsInjective, Old
<1>3. Range(q) = Range(s) \ {s[i]}
  BY <1>1 DEF Range, IsInjective
<1> QED BY <1>1, <1>2, <1>3 DEF q

(* The entries that stay keep their order.                                 *)
LEMMA RemoveOrder ==
  ASSUME NEW S, NEW s \in Seq(S), NEW i \in DOMAIN s, IsInjective(s), NEW o, NEW p
  PROVE  Before(RemoveAt(s, i), o, p) <=> Before(s, o, p) /\ o # s[i] /\ p # s[i]
<1> DEFINE q == RemoveAt(s, i)
<1>1. /\ q \in Seq(S) /\ DOMAIN q = 1..(Len(s) - 1) /\ DOMAIN s = 1..Len(s)
      /\ \A j \in DOMAIN q : q[j] = s[Old(i, j)] /\ Old(i, j) \in DOMAIN s \ {i}
      /\ \A k \in DOMAIN s \ {i} : New(i, k) \in DOMAIN q /\ q[New(i, k)] = s[k]
  BY RemoveEntries
<1> HIDE DEF q
<1>2. ASSUME Before(q, o, p) PROVE Before(s, o, p) /\ o # s[i] /\ p # s[i]
  <2>1. PICK a, b \in DOMAIN q : a < b /\ q[a] = o /\ q[b] = p
    BY <1>2 DEF Before
  <2>2. Old(i, a) < Old(i, b)
    BY <1>1, <2>1 DEF Old
  <2>3. /\ Old(i, a) \in DOMAIN s \ {i} /\ s[Old(i, a)] = o
        /\ Old(i, b) \in DOMAIN s \ {i} /\ s[Old(i, b)] = p
    BY <1>1, <2>1
  <2> QED BY <2>2, <2>3 DEF Before, IsInjective
<1>3. ASSUME Before(s, o, p), o # s[i], p # s[i] PROVE Before(q, o, p)
  <2>1. PICK a, b \in DOMAIN s : a < b /\ s[a] = o /\ s[b] = p
    BY <1>3 DEF Before
  <2>2. a # i /\ b # i
    BY <1>3, <2>1
  <2>3. New(i, a) < New(i, b)
    BY <1>1, <2>1, <2>2 DEF New
  <2>4. New(i, a) \in DOMAIN q /\ q[New(i, a)] = o /\ New(i, b) \in DOMAIN q /\ q[New(i, b)] = p
    BY <1>1, <2>1, <2>2
  <2> QED BY <2>3, <2>4 DEF Before
<1> QED BY <1>2, <1>3 DEF q

LEMMA Inserted ==
  ASSUME TypeOK, ChainsSound, NEW t \in Threads, want[t] \in Ids, fp[t] \in Objs,
         f_id[fp[t]] = want[t], ~InTable(fp[t]), UNCHANGED f_id,
         fh' = [fh EXCEPT ![Hash[want[t]]] = <<fp[t]>> \o @]
  PROVE  /\ fh' \in [Buckets -> Seq(Objs)] /\ ChainsSound'
         /\ \A o \in Objs : InTable(o)' <=> InTable(o) \/ o = fp[t]
<1> DEFINE b == Hash[want[t]]
<1>1. b \in Buckets /\ fh[b] \in Seq(Objs) /\ IsInjective(fh[b]) /\ fp[t] \notin Range(fh[b])
  BY HashAssumption DEF TypeOK, ChainsSound, InTable, Chain
<1>2. /\ fh'[b] \in Seq(Objs) /\ IsInjective(fh'[b])
      /\ Range(fh'[b]) = Range(fh[b]) \cup {fp[t]}
  BY <1>1, Consing DEF TypeOK
<1>3. \A c \in Buckets : c # b => fh'[c] = fh[c]
  BY <1>1 DEF TypeOK
<1>4. fh' \in [Buckets -> Seq(Objs)]
  BY <1>1, <1>2, <1>3 DEF TypeOK
<1>5. \A c \in Buckets : IsInjective(fh'[c])
  BY <1>2, <1>3 DEF ChainsSound
<1>6. \A c \in Buckets : \A o \in Range(fh'[c]) : Hash[f_id[o]] = c
  BY <1>2, <1>3 DEF ChainsSound
<1>7. \A o \in Objs : InTable(o)' <=> InTable(o) \/ o = fp[t]
  BY <1>1, <1>2, <1>3, HashAssumption DEF TypeOK, InTable, Chain
<1> QED BY <1>4, <1>5, <1>6, <1>7 DEF ChainsSound

LEMMA Unlinked ==
  ASSUME TypeOK, ChainsSound, NEW t \in Threads, fp[t] \in Objs, Unlink(t), UNCHANGED f_id
  PROVE  /\ fh' \in [Buckets -> Seq(Objs)] /\ ChainsSound'
         /\ \A o \in Objs : InTable(o)' <=> InTable(o) /\ o # fp[t]
<1> DEFINE b == Hash[f_id[fp[t]]]
<1>1. PICK i \in DOMAIN fh[b] : /\ fh[b][i] = fp[t]
                                /\ fh' = [fh EXCEPT ![b] = RemoveAt(@, i)]
  BY DEF Unlink
<1>2. b \in Buckets /\ fh[b] \in Seq(Objs) /\ IsInjective(fh[b])
  BY HashAssumption DEF TypeOK, ChainsSound
<1>3. /\ fh'[b] \in Seq(Objs) /\ IsInjective(fh'[b])
      /\ Range(fh'[b]) = Range(fh[b]) \ {fp[t]}
  BY <1>1, <1>2, Removing DEF TypeOK
<1>4. \A c \in Buckets : c # b => fh'[c] = fh[c]
  BY <1>1, <1>2 DEF TypeOK
<1>5. fh' \in [Buckets -> Seq(Objs)]
  BY <1>1, <1>2, <1>3, <1>4 DEF TypeOK
<1>6. \A c \in Buckets : IsInjective(fh'[c])
  BY <1>3, <1>4 DEF ChainsSound
<1>7. \A c \in Buckets : \A o \in Range(fh'[c]) : Hash[f_id[o]] = c
  BY <1>3, <1>4 DEF ChainsSound
<1>8. \A o \in Objs : InTable(o)' <=> InTable(o) /\ o # fp[t]
  BY <1>2, <1>3, <1>4, HashAssumption DEF TypeOK, InTable, Chain
<1> QED BY <1>5, <1>6, <1>7, <1>8 DEF ChainsSound


-----------------------------------------------------------------------------
(* The locks                                                               *)
Moves(t) == \A u \in Threads \ {t} : pc'[u] = pc[u] /\ fp'[u] = fp[u]
KeepsHash(t, H) == pc[t] \in H <=> pc'[t] \in H
KeepsObj(t, O) == \/ pc[t] \notin O /\ pc'[t] \notin O
                  \/ pc[t] \in O /\ pc'[t] \in O /\ fp'[t] = fp[t]

LEMMA NoLock ==
  ASSUME NEW H, NEW O, LocksAt(H, O), NEW t \in Threads, Moves(t),
         KeepsHash(t, H), KeepsObj(t, O), UNCHANGED <<hashlock, f_lock>>
  PROVE  LocksAt(H, O)'
BY DEF LocksAt, Moves, KeepsHash, KeepsObj

LEMMA TakeHash ==
  ASSUME NEW H, NEW O, LocksAt(H, O), NEW t \in Threads, Moves(t), KeepsObj(t, O),
         LockHash(t), UNCHANGED f_lock, pc'[t] \in H
  PROVE  LocksAt(H, O)'
BY NullAssumption DEF LocksAt, Moves, KeepsObj, LockHash

LEMMA DropHash ==
  ASSUME NEW H, NEW O, LocksAt(H, O), NEW t \in Threads, Moves(t), KeepsObj(t, O),
         UnlockHash, UNCHANGED f_lock, pc[t] \in H, pc'[t] \notin H
  PROVE  LocksAt(H, O)'
BY NullAssumption DEF LocksAt, Moves, KeepsObj, UnlockHash

LEMMA TakeObj ==
  ASSUME NEW H, NEW O, TypeOK, LocksAt(H, O), NEW t \in Threads, Moves(t),
         KeepsHash(t, H), LockObj(t), fp[t] \in Objs, fp'[t] = fp[t], UNCHANGED hashlock,
         pc[t] \notin O, pc'[t] \in O
  PROVE  LocksAt(H, O)'
<1>1. \A o \in Objs : f_lock'[o] = IF o = fp[t] THEN t ELSE f_lock[o]
  BY DEF TypeOK, LockObj
<1>2. f_lock[fp[t]] = NoThread
  BY DEF LockObj
<1> QED BY <1>1, <1>2, NullAssumption DEF LocksAt, Moves, KeepsHash

LEMMA DropObj ==
  ASSUME NEW H, NEW O, TypeOK, LocksAt(H, O), NEW t \in Threads, Moves(t),
         KeepsHash(t, H), UnlockObj(t), fp[t] \in Objs, fp'[t] = fp[t], UNCHANGED hashlock,
         pc[t] \in O, pc'[t] \notin O
  PROVE  LocksAt(H, O)'
<1>1. \A o \in Objs : f_lock'[o] = IF o = fp[t] THEN NoThread ELSE f_lock[o]
  BY DEF TypeOK, UnlockObj
<1>2. f_lock[fp[t]] = t
  BY DEF LocksAt
<1> QED BY <1>1, <1>2, NullAssumption DEF LocksAt, Moves, KeepsHash

-----------------------------------------------------------------------------
(* What each kind of step does to the invariant                            *)
LEMMA InitFoo ==
  ASSUME NEW H, NEW O, Shared(H, O), Init
  PROVE  FooInv(H, O)
<1>1. TypeOK
  BY DEF Init, TypeOK, Positions
<1>2. \A o \in Objs : ~InTable(o)
  BY <1>1, HashAssumption DEF Init, InTable, Chain, Range, TypeOK
<1>3. ChainsSound
  BY DEF Init, ChainsSound, IsInjective, Range
<1>4. LocksAt(H, O)
  BY NullAssumption DEF Init, LocksAt, Shared
<1>5. Apart /\ PrivateApart
  BY DEF Init, Apart, PrivateApart, Idle, Private
<1>6. \A t \in Threads : Mine(t)
  BY DEF Init, Mine, Wants, Has, Locked, Private
<1>7. TableAlive /\ CountRight /\ Owned
  BY <1>2 DEF Init, TableAlive, CountRight, Owned
<1> QED BY <1>1, <1>3, <1>4, <1>5, <1>6, <1>7 DEF FooInv

LEMMA StutterFoo ==
  ASSUME NEW H, NEW O, FooInv(H, O), UNCHANGED vars
  PROVE  FooInv(H, O)'
<1> USE DEF FooInv, vars
<1>1. TypeOK' /\ ChainsSound' /\ LocksAt(H, O)' /\ Apart'
  BY TableSame DEF TypeOK, LocksAt, Apart, Idle
<1>2. \A t \in Threads : Mine(t)'
  BY TableSame DEF Mine
<1>3. PrivateApart' /\ TableAlive' /\ Owned'
  BY TableSame DEF PrivateApart, TableAlive, Owned
<1>4. CountRight'
  BY TableSame DEF CountRight, Count
<1> QED BY <1>1, <1>2, <1>3, <1>4

(* A thread at a position with an object works on memory that is allocated. *)
LEMMA Held ==
  ASSUME NEW H, NEW O, FooInv(H, O), NEW t \in Threads,
         pc[t] \in Has \cup Locked \cup Private \cup {"hold"}
  PROVE  fp[t] \in Objs /\ fp[t] \in alive /\ (pc[t] \notin Private => InTable(fp[t]))
BY NullAssumption
   DEF FooInv, Mine, TableAlive, CountRight, TypeOK, Has, Locked, Private

(* The steps that leave the table, the counts and the references alone     *)
LEMMA DataSame ==
  ASSUME NEW H, NEW O, FooInv(H, O), UNCHANGED data
  PROVE  /\ ChainsSound' /\ TableAlive' /\ CountRight'
         /\ \A o : InTable(o)' <=> InTable(o)
BY TableSame DEF FooInv, TableAlive, CountRight, Count, data

(* A step of t that only takes or releases locks, or looks at the table    *)
LEMMA QuietStep ==
  ASSUME NEW H, NEW O, FooInv(H, O), NEW t \in Threads, UNCHANGED <<data, calls>>,
         PlacesTyped', LocksAt(H, O)', Moves(t), ~Idle(t), Mine(t)',
         pc'[t] \in Private => pc[t] \in Private, pc[t] \in Private => pc'[t] \in Private,
         pc[t] \in Private => fp'[t] = fp[t]
  PROVE  FooInv(H, O)'
<1> USE DEF FooInv, calls
<1>1. ChainsSound' /\ TableAlive' /\ CountRight' /\ \A o : InTable(o)' <=> InTable(o)
  BY DataSame
<1>2. UNCHANGED <<fh, f_count, f_id, alive, ref, dst, src, want>>
  BY DEF data
<1>3. TypeOK' /\ Apart'
  <2>1. TypeOK /\ Apart
    OBVIOUS
  <2>2. TypeOK'
    BY ONLY <1>2, <2>1, PlacesTyped' DEF TypeOK, PlacesTyped
  <2>3. \A u \in Threads : Idle(u) => Idle(u)'
    BY ONLY Moves(t), ~Idle(t) DEF Idle, Moves
  <2>4. Apart'
    BY ONLY <1>2, <2>1, <2>3 DEF Apart
  <2> QED BY <2>2, <2>4
<1>4. ASSUME NEW u \in Threads PROVE Mine(u)'
  BY <1>1, <1>2 DEF Mine, Moves
<1>5. PrivateApart'
  BY DEF PrivateApart, Moves
<1>6. Owned'
  BY <1>1, <1>2 DEF Owned, Moves
<1> QED BY <1>1, <1>3, <1>4, <1>5, <1>6

LEMMA AllocNewStep ==
  ASSUME NEW H, NEW O, Shared(H, O), FooInv(H, O), NEW t \in Threads, NEW id \in Ids,
         NEW r \in Refs, NEW o \in Objs, AllocNew(t, id, r, o)
  PROVE  FooInv(H, O)' /\ f_lock' = f_lock
<1> USE DEF FooInv, AllocNew, Call, Goto
<1>1. /\ TypeOK /\ o \notin alive /\ ~InTable(o) /\ ref[r] = NULL
      /\ pc[t] = "idle" /\ pc'[t] = "alloc_lock" /\ Moves(t)
      /\ fp'[t] = o /\ want'[t] = id /\ dst'[t] = r /\ src'[t] = r
      /\ f_id'[o] = id /\ f_count'[o] = 1
  BY DEF TypeOK, TableAlive, Unused, Moves
<1>2. TypeOK'
  BY DEF TypeOK, Positions
<1>3. \A p \in Objs : p # o => f_id'[p] = f_id[p] /\ f_count'[p] = f_count[p]
  BY DEF TypeOK
<1>4. ChainsSound' /\ \A p \in Objs : InTable(p)' <=> InTable(p)
  <2>1. \A b \in Buckets : o \notin Range(fh[b])
    BY <1>1 DEF ChainsSound, InTable, Chain
  <2>2. \A b \in Buckets : Range(fh[b]) \subseteq Objs
    BY DEF TypeOK, Range
  <2>3. ChainsSound'
    BY <1>3, <2>1, <2>2 DEF ChainsSound
  <2>4. \A p \in Objs : InTable(p)' <=> InTable(p)
    BY <1>1, <1>3, <2>1, HashAssumption DEF InTable, Chain, TypeOK
  <2> QED BY <2>3, <2>4
<1>5. f_lock' = f_lock
  <2>1. ASSUME NEW u \in Threads, f_lock[o] = u PROVE FALSE
    <3>1. pc[u] \in Has \cup Locked \cup Private /\ fp[u] = o
      BY <2>1 DEF LocksAt, Shared
    <3> QED BY <1>1, <3>1, Held
  <2> QED BY <2>1 DEF TypeOK
<1>6. LocksAt(H, O)'
  BY <1>1, <1>5, NoLock DEF KeepsHash, KeepsObj, Shared
<1>7. Apart'
  BY <1>1 DEF Apart, Unused, Busy, Idle, TypeOK
<1>8. \A u \in Threads : Mine(u)'
  <2>1. Mine(t)'
    BY <1>1, <1>4 DEF Mine, Wants, Has, Locked, Private
  <2>2. ASSUME NEW u \in Threads, u # t PROVE Mine(u)'
    <3>1. /\ pc'[u] = pc[u] /\ fp'[u] = fp[u] /\ dst'[u] = dst[u] /\ src'[u] = src[u]
          /\ want'[u] = want[u]
      BY <2>2 DEF TypeOK
    <3>2. pc[u] \in Private => fp[u] # o
      BY <1>1 DEF Mine
    <3>3. pc[u] = "alloc_lock" => fp[u] \in Objs
      BY DEF TypeOK, Mine, Private
    <3> QED BY <1>1, <1>3, <1>4, <2>2, <3>1, <3>2, <3>3 DEF Mine, TypeOK, Private
  <2> QED BY <2>1, <2>2
<1>9. PrivateApart'
  BY <1>1 DEF PrivateApart, Mine, TypeOK, Moves
<1>10. TableAlive'
  BY <1>4 DEF TableAlive
<1>11. CountRight'
  <2>1. \A p \in Objs : Count(p)' = Count(p)
    BY DEF Count
  <2>2. \A p \in Objs : InTable(p)' => f_count'[p] = Count(p)' /\ f_count'[p] > 0
    BY <1>1, <1>3, <1>4, <2>1 DEF CountRight
  <2>3. \A q \in Refs : ref'[q] # NULL => InTable(ref[q])'
    BY <1>4 DEF CountRight, TypeOK
  <2> QED BY <2>2, <2>3 DEF CountRight
<1>12. Owned'
  BY <1>1, <1>4 DEF Owned, Moves, Private, TypeOK
<1> QED BY <1>2, <1>4, <1>5, <1>6, <1>7, <1>8, <1>9, <1>10, <1>11, <1>12

LEMMA AllocInsertStep ==
  ASSUME NEW H, NEW O, Shared(H, O), FooInv(H, O), NEW t \in Threads, AllocInsert(t)
  PROVE  FooInv(H, O)'
<1> USE DEF FooInv, AllocInsert, Goto, calls
<1>1. /\ TypeOK /\ pc[t] = "alloc_lock" /\ pc'[t] = "alloc_flock" /\ Moves(t)
      /\ ~InTable(fp[t]) /\ fp[t] \in alive /\ fp[t] \in Objs /\ want[t] \in Ids
      /\ f_id[fp[t]] = want[t] /\ f_count[fp[t]] = 1 /\ ref[dst[t]] = NULL
      /\ ref' = [ref EXCEPT ![dst[t]] = fp[t]] /\ dst[t] \in Refs
  BY DEF TypeOK, Mine, Wants, Private, Moves
<1>2. /\ fh' \in [Buckets -> Seq(Objs)] /\ ChainsSound'
      /\ \A o \in Objs : InTable(o)' <=> InTable(o) \/ o = fp[t]
  BY <1>1, Inserted
<1>3. TypeOK'
  BY <1>1, <1>2 DEF TypeOK, Positions, LockHash
<1>4. LocksAt(H, O)'
  BY <1>1, TakeHash DEF KeepsObj, Shared
<1>5. Apart'
  BY <1>1 DEF Apart, Idle, Moves
<1>6. \A u \in Threads : Mine(u)'
  <2>1. Mine(t)'
    BY <1>1, <1>2 DEF Mine, TypeOK, Wants, Has, Locked, Private
  <2>2. ASSUME NEW u \in Threads, u # t PROVE Mine(u)'
    <3>1. pc'[u] = pc[u] /\ fp'[u] = fp[u]
      BY <1>1, <2>2 DEF Moves
    <3>2. ~Idle(u) => ref'[dst[u]] = ref[dst[u]] /\ ref'[src[u]] = ref[src[u]]
      BY <1>1, <2>2 DEF Apart, Idle, TypeOK
    <3>3. pc[u] \in Private => fp[u] # fp[t]
      BY <1>1, <2>2 DEF PrivateApart, Private
    <3> QED BY <1>1, <1>2, <3>1, <3>2, <3>3
            DEF Mine, Idle, Wants, Has, Locked, Private, TypeOK
  <2> QED BY <2>1, <2>2
<1>7. PrivateApart'
  BY <1>1 DEF PrivateApart, Moves, Private
<1>8. TableAlive'
  BY <1>1, <1>2 DEF TableAlive
<1>9. CountRight'
  <2>1. \A p \in Objs : Count(p)' = IF p = fp[t] THEN Count(p) + 1 ELSE Count(p)
    BY <1>1, CountAdd
  <2>2. Count(fp[t]) = 0
    BY <1>1, CountNone, NullAssumption DEF CountRight
  <2>3. \A q \in Refs : ref'[q] # NULL => InTable(ref[q])'
    BY <1>1, <1>2 DEF CountRight, TypeOK
  <2>4. \A o \in Objs : InTable(o)' => f_count'[o] = Count(o)' /\ f_count'[o] > 0
    BY <1>1, <1>2, <2>1, <2>2 DEF CountRight
  <2> QED BY <2>3, <2>4 DEF CountRight
<1>10. Owned'
  BY <1>1, <1>2 DEF Owned, Moves, TypeOK
<1> QED BY <1>2, <1>3, <1>4, <1>5, <1>6, <1>7, <1>8, <1>9, <1>10

(* The rest of foo_alloc: the lock in the object, then hashlock is released *)
LEMMA AllocLockStep ==
  ASSUME NEW H, NEW O, Shared(H, O), FooInv(H, O), NEW t \in Threads,
         AllocLock(t) \/ AllocUnhash(t) \/ AllocDone(t)
  PROVE  FooInv(H, O)'
<1> USE DEF AllocLock, AllocUnhash, AllocDone, Goto
<1>1. /\ UNCHANGED <<data, fp, calls>> /\ Moves(t) /\ TypeOK /\ fp[t] \in Objs
      /\ pc[t] \in {"alloc_flock", "alloc_unhash", "alloc_init"}
      /\ pc'[t] \in {"alloc_unhash", "alloc_init", "idle"}
  BY Held DEF FooInv, TypeOK, Moves, data, Has
<1>2. PlacesTyped'
  BY <1>1 DEF TypeOK, PlacesTyped, Positions, LockObj, UnlockObj, UnlockHash
<1>3. LocksAt(H, O)'
  <2> USE <1>1 DEF Shared, KeepsHash, KeepsObj
  <2>1. LocksAt(H, O) /\ fp'[t] = fp[t]
    BY DEF FooInv
  <2>2. CASE AllocLock(t)
    <3>1. pc[t] = "alloc_flock" /\ pc'[t] = "alloc_unhash"
      BY <2>2 DEF TypeOK
    <3> QED BY <2>1, <2>2, <3>1, TakeObj
  <2>3. CASE AllocUnhash(t)
    <3>1. pc[t] = "alloc_unhash" /\ pc'[t] = "alloc_init"
      BY <2>3 DEF TypeOK
    <3> QED BY <2>1, <2>3, <3>1, DropHash
  <2>4. CASE AllocDone(t)
    <3>1. pc[t] = "alloc_init" /\ pc'[t] = "idle"
      BY <2>4 DEF TypeOK
    <3> QED BY <2>1, <2>4, <3>1, DropObj
  <2> QED BY <2>2, <2>3, <2>4
<1>4. Mine(t)'
  <2>1. fp'[t] \in Objs /\ ref'[dst'[t]] = fp'[t]
    BY <1>1 DEF FooInv, Mine, Has, data, calls
  <2> QED BY <1>1, <2>1 DEF Mine, Wants, Has, Locked, Private
<1> QED BY <1>1, <1>2, <1>3, <1>4, QuietStep DEF Private, Idle

LEMMA EnterStep ==
  ASSUME NEW H, NEW O, Shared(H, O), FooInv(H, O), NEW t \in Threads, Enter(t)
  PROVE  FooInv(H, O)'
<1> USE DEF FooInv, Enter, HoldCall, FindCall, ReleCall, Call, Goto, data
<1>1. PICK r \in Refs, s \in Refs :
        /\ r \notin Busy /\ s \notin Busy
        /\ dst' = [dst EXCEPT ![t] = r] /\ src' = [src EXCEPT ![t] = s]
        /\ \/ /\ pc'[t] = "hold" /\ ref[r] = NULL /\ ref[s] # NULL /\ fp'[t] = ref[s]
           \/ pc'[t] = "find" /\ ref[r] = NULL /\ want'[t] \in Ids
           \/ pc'[t] = "rele" /\ ref[r] # NULL /\ fp'[t] = ref[r]
  <2>1. CASE \E r, s \in Refs : HoldCall(t, r, s)
    BY <2>1 DEF Unused, InUse, TypeOK
  <2>2. CASE \E id \in Ids, r \in Refs : FindCall(t, id, r)
    BY <2>2 DEF Unused, TypeOK
  <2>3. CASE \E r \in Refs : ReleCall(t, r)
    BY <2>3 DEF InUse, TypeOK
  <2> QED BY <2>1, <2>2, <2>3
<1>2. UNCHANGED <<fh, f_count, f_id, alive, ref, f_lock, hashlock>> /\ Moves(t) /\ pc[t] = "idle"
  BY DEF TypeOK, Moves
<1>3. ChainsSound' /\ TableAlive' /\ CountRight' /\ \A o : InTable(o)' <=> InTable(o)
  BY <1>2, DataSame
<1>4. TypeOK'
  <2>1. CASE \E a, b \in Refs : HoldCall(t, a, b)
    BY <2>1 DEF TypeOK, Positions
  <2>2. CASE \E id \in Ids, a \in Refs : FindCall(t, id, a)
    BY <2>2 DEF TypeOK, Positions
  <2>3. CASE \E a \in Refs : ReleCall(t, a)
    BY <2>3 DEF TypeOK, Positions
  <2> QED BY <2>1, <2>2, <2>3
<1>5. LocksAt(H, O)'
  BY <1>1, <1>2, NoLock DEF KeepsHash, KeepsObj, Shared
<1>6. Apart'
  BY <1>1, <1>2 DEF Apart, Idle, Busy, Moves, TypeOK
<1>7. \A u \in Threads : Mine(u)'
  <2>1. Mine(t)'
    BY <1>1, <1>2 DEF Mine, Wants, Has, Locked, Private, TypeOK
  <2>2. ASSUME NEW u \in Threads, u # t PROVE Mine(u)'
    <3>1. /\ pc'[u] = pc[u] /\ fp'[u] = fp[u] /\ dst'[u] = dst[u] /\ src'[u] = src[u]
          /\ want'[u] = want[u]
      BY <2>2 DEF TypeOK
    <3> QED BY <1>2, <1>3, <3>1 DEF Mine
  <2> QED BY <2>1, <2>2
<1>8. PrivateApart'
  BY <1>1, <1>2 DEF PrivateApart, Moves, Private
<1>9. Owned'
  BY <1>1, <1>2, <1>3 DEF Owned, Moves, Private
<1> QED BY <1>3, <1>4, <1>5, <1>6, <1>7, <1>8, <1>9

(* A reference to an object of the table is taken and counted.             *)
LEMMA TakeStep ==
  ASSUME NEW H, NEW O, FooInv(H, O), NEW t \in Threads, pc[t] \in Wants \ {"alloc_lock"},
         NEW o \in Objs, InTable(o),
         f_count' = [f_count EXCEPT ![o] = @ + 1], ref' = [ref EXCEPT ![dst[t]] = o],
         UNCHANGED <<fh, f_id, alive, calls>>,
         PlacesTyped', LocksAt(H, O)', Moves(t), pc'[t] \notin Private \cup Wants, fp'[t] = o
  PROVE  FooInv(H, O)'
<1> USE DEF FooInv, calls
<1>1. TypeOK /\ dst[t] \in Refs /\ ref[dst[t]] = NULL
  BY DEF TypeOK, Mine, Wants
<1>2. ChainsSound' /\ TableAlive' /\ \A p : InTable(p)' <=> InTable(p)
  BY TableSame DEF TableAlive
<1>3. TypeOK'
  BY <1>1 DEF TypeOK, PlacesTyped
<1>4. Apart'
  BY DEF Apart, Idle, Moves, Wants
<1>5. \A u \in Threads : Mine(u)'
  <2>1. Mine(t)'
    BY <1>1, <1>2 DEF Mine, TypeOK, Wants, Has, Locked, Private
  <2>2. ASSUME NEW u \in Threads, u # t PROVE Mine(u)'
    <3>1. pc'[u] = pc[u] /\ fp'[u] = fp[u]
      BY <2>2 DEF Moves
    <3>2. ~Idle(u) => ref'[dst[u]] = ref[dst[u]] /\ ref'[src[u]] = ref[src[u]]
      BY <1>1, <2>2 DEF Apart, Idle, TypeOK, Wants
    <3>3. pc[u] = "alloc_lock" => f_count'[fp[u]] = f_count[fp[u]]
      BY <1>1 DEF Mine, Private, TypeOK
    <3> QED BY <1>2, <3>1, <3>2, <3>3 DEF Mine, Idle, Wants, Has, Locked, Private
  <2> QED BY <2>1, <2>2
<1>6. PrivateApart'
  BY DEF PrivateApart, Moves
<1>7. CountRight'
  <2>1. \A p \in Objs : Count(p)' = IF p = o THEN Count(p) + 1 ELSE Count(p)
    BY <1>1, CountAdd
  <2>2. \A q \in Refs : ref'[q] # NULL => InTable(ref[q])'
    BY <1>1, <1>2 DEF CountRight, TypeOK
  <2>3. \A p \in Objs : InTable(p)' => f_count'[p] = Count(p)' /\ f_count'[p] > 0
    BY <1>1, <1>2, <2>1 DEF CountRight, TypeOK
  <2> QED BY <2>2, <2>3 DEF CountRight
<1>8. Owned'
  BY <1>2 DEF Owned, Moves, Wants, Private
<1> QED BY <1>2, <1>3, <1>5, <1>6, <1>7, <1>8, <1>4

(* A reference is dropped and it was not the last.                         *)
LEMMA DropStep ==
  ASSUME NEW H, NEW O, FooInv(H, O), NEW t \in Threads, pc[t] \in {"rele", "rele_check"},
         f_count[fp[t]] # 1, f_count' = [f_count EXCEPT ![fp[t]] = @ - 1],
         ref' = [ref EXCEPT ![dst[t]] = NULL], UNCHANGED <<fh, f_id, alive, fp, calls>>,
         PlacesTyped', LocksAt(H, O)', Moves(t),
         pc'[t] \in {"rele_done", "rele_kept"}
  PROVE  FooInv(H, O)'
<1> USE DEF FooInv, calls
<1>1. /\ TypeOK /\ fp[t] \in Objs /\ InTable(fp[t]) /\ ref[dst[t]] = fp[t] /\ dst[t] \in Refs
      /\ f_count[fp[t]] = Count(fp[t]) /\ f_count[fp[t]] \in Nat /\ f_count[fp[t]] > 1
  <2>1. TypeOK /\ pc[t] \in Has /\ pc[t] \notin Private
    BY DEF Has, Private
  <2>2. fp[t] \in Objs /\ InTable(fp[t])
    BY <2>1, Held
  <2>3. f_count[fp[t]] = Count(fp[t]) /\ f_count[fp[t]] \in Nat /\ f_count[fp[t]] > 0
    BY <2>2 DEF CountRight, TypeOK
  <2> QED BY <2>1, <2>2, <2>3 DEF TypeOK, Mine
<1>2. TypeOK'
  BY <1>1 DEF TypeOK, PlacesTyped
<1>3. ChainsSound' /\ TableAlive' /\ \A o : InTable(o)' <=> InTable(o)
  BY TableSame DEF TableAlive
<1>4. Apart'
  BY DEF Apart, Idle, Moves
<1>5. \A u \in Threads : Mine(u)'
  <2>1. Mine(t)'
    BY <1>1, <1>3 DEF Mine, TypeOK, Wants, Has, Locked, Private
  <2>2. ASSUME NEW u \in Threads, u # t PROVE Mine(u)'
    <3>1. pc'[u] = pc[u] /\ fp'[u] = fp[u]
      BY <2>2 DEF Moves
    <3>2. ~Idle(u) => ref'[dst[u]] = ref[dst[u]] /\ ref'[src[u]] = ref[src[u]]
      BY <1>1, <2>2 DEF Apart, Idle, TypeOK
    <3>3. pc[u] = "alloc_lock" => f_count'[fp[u]] = f_count[fp[u]]
      BY <1>1 DEF Mine, Private, TypeOK
    <3> QED BY <1>1, <1>3, <3>1, <3>2, <3>3 DEF Mine, Idle, Wants, Has, Locked, Private
  <2> QED BY <2>1, <2>2
<1>6. PrivateApart'
  BY DEF PrivateApart, Moves, Private
<1>7. CountRight'
  <2>1. \A p \in Objs : Count(p)' = IF p = fp[t] THEN Count(p) - 1 ELSE Count(p)
    BY <1>1, CountDrop
  <2>2. \A q \in Refs : ref'[q] # NULL => InTable(ref[q])'
    BY <1>1, <1>3 DEF CountRight, TypeOK
  <2>3. \A o \in Objs : InTable(o)' => f_count'[o] = Count(o)' /\ f_count'[o] > 0
    BY <1>1, <1>3, <2>1 DEF CountRight, TypeOK
  <2> QED BY <2>2, <2>3 DEF CountRight
<1>8. Owned'
  BY <1>3 DEF Owned, Moves, Private
<1> QED BY <1>2, <1>3, <1>4, <1>5, <1>6, <1>7, <1>8

(* The last reference is dropped and the object leaves the table: nobody   *)
(* else refers to it, or looks at it at a position of Locked.              *)
LEMMA RemoveStep ==
  ASSUME NEW H, NEW O, FooInv(H, O), NEW t \in Threads, pc[t] \in {"rele", "rele_check"},
         f_count[fp[t]] = 1, Unlink(t), ref' = [ref EXCEPT ![dst[t]] = NULL],
         \A o \in Objs : o # fp[t] => f_count'[o] = f_count[o],
         UNCHANGED <<f_id, alive, fp, calls>>,
         f_count' \in [Objs -> Nat], PlacesTyped', LocksAt(H, O)', Moves(t),
         pc'[t] = "rele_gone",
         \A u \in Threads \ {t} : pc[u] \in Locked => fp[u] # fp[t]
  PROVE  FooInv(H, O)'
<1> USE DEF FooInv, calls
<1>1. /\ TypeOK /\ ChainsSound /\ fp[t] \in Objs /\ InTable(fp[t]) /\ fp[t] \in alive
      /\ ref[dst[t]] = fp[t] /\ dst[t] \in Refs /\ Count(fp[t]) = 1
  BY Held DEF TypeOK, Mine, Has, Private, CountRight
<1>2. /\ fh' \in [Buckets -> Seq(Objs)] /\ ChainsSound'
      /\ \A o \in Objs : InTable(o)' <=> InTable(o) /\ o # fp[t]
  BY <1>1, Unlinked
<1>3. TypeOK'
  BY <1>1, <1>2 DEF TypeOK, PlacesTyped
<1>4. Apart'
  BY DEF Apart, Idle, Moves
<1>5. \A q \in Refs : q # dst[t] => ref[q] # fp[t]
  BY <1>1, CountTwo
<1>6. \A u \in Threads : Mine(u)'
  <2>1. Mine(t)'
    BY <1>1, <1>2 DEF Mine, TypeOK, Wants, Has, Locked, Private
  <2>2. ASSUME NEW u \in Threads, u # t PROVE Mine(u)'
    <3>1. pc'[u] = pc[u] /\ fp'[u] = fp[u]
      BY <2>2 DEF Moves
    <3>2. ~Idle(u) => ref'[dst[u]] = ref[dst[u]] /\ ref'[src[u]] = ref[src[u]]
      BY <1>1, <2>2 DEF Apart, Idle, TypeOK
    <3>3. pc[u] \in Private => fp[u] \in Objs /\ fp[u] # fp[t]
      BY <1>1 DEF Mine, TypeOK
    <3>4. pc[u] = "alloc_lock" => f_count'[fp[u]] = f_count[fp[u]]
      BY <3>3 DEF Private
    <3>5. pc[u] \in Locked => fp[u] # fp[t]
      BY <2>2
    <3> QED BY <1>1, <1>2, <2>2, <3>1, <3>2, <3>3, <3>4, <3>5
            DEF Mine, Idle, Wants, Has, Locked, Private
  <2> QED BY <2>1, <2>2
<1>7. PrivateApart'
  <2>1. \A u \in Threads \ {t} : pc[u] \in Private => fp[u] # fp[t]
    BY <1>1 DEF Mine
  <2> QED BY <2>1 DEF PrivateApart, Moves
<1>8. TableAlive'
  BY <1>2 DEF TableAlive
<1>9. CountRight'
  <2>1. \A p \in Objs : Count(p)' = IF p = fp[t] THEN Count(p) - 1 ELSE Count(p)
    BY <1>1, CountDrop
  <2>2. \A q \in Refs : ref'[q] # NULL => InTable(ref[q])'
    BY <1>1, <1>2, <1>5 DEF CountRight, TypeOK
  <2>3. \A o \in Objs : InTable(o)' => f_count'[o] = Count(o)' /\ f_count'[o] > 0
    BY <1>1, <1>2, <2>1 DEF CountRight, TypeOK
  <2> QED BY <2>2, <2>3 DEF CountRight
<1>10. Owned'
  <2> SUFFICES ASSUME NEW o \in alive, ~InTable(o)'
               PROVE  \E u \in Threads : pc'[u] \in Private /\ fp'[u] = o
    BY DEF Owned
  <2>1. CASE o = fp[t]
    BY <2>1 DEF Private
  <2>2. CASE o # fp[t]
    <3>1. ~InTable(o)
      BY <1>1, <1>2, <2>2 DEF TypeOK
    <3>2. PICK u \in Threads : pc[u] \in Private /\ fp[u] = o
      BY <3>1 DEF Owned
    <3> QED BY <3>2, <2>2 DEF Moves
  <2> QED BY <2>1, <2>2
<1> QED BY <1>2, <1>3, <1>4, <1>6, <1>7, <1>8, <1>9, <1>10

LEMMA FreeStep ==
  ASSUME NEW H, NEW O, FooInv(H, O), "rele_free" \notin H \cup O, "idle" \notin H \cup O,
         NEW t \in Threads, Goto(t, "rele_free", "idle"), Free(t),
         UNCHANGED <<fh, f_count, f_id, ref, f_lock, hashlock, fp, calls>>
  PROVE  FooInv(H, O)'
<1> USE DEF FooInv, Goto, Free, calls
<1>1. /\ TypeOK /\ Moves(t) /\ pc[t] = "rele_free" /\ pc'[t] = "idle"
      /\ ~InTable(fp[t]) /\ alive' = alive \ {fp[t]}
  BY DEF TypeOK, Moves, Mine, Private
<1>2. TypeOK'
  BY <1>1 DEF TypeOK, Positions
<1>3. ChainsSound' /\ \A o : InTable(o)' <=> InTable(o)
  BY <1>1, TableSame
<1>4. LocksAt(H, O)'
  BY <1>1, NoLock DEF KeepsHash, KeepsObj
<1>5. Apart'
  BY <1>1 DEF Apart, Idle, Moves
<1>6. \A u \in Threads : Mine(u)'
  <2>1. Mine(t)'
    BY <1>1 DEF Mine, Wants, Has, Locked, Private
  <2>2. ASSUME NEW u \in Threads, u # t PROVE Mine(u)'
    BY <1>1, <1>3, <2>2 DEF Mine, Moves, PrivateApart, Private
  <2> QED BY <2>1, <2>2
<1>7. PrivateApart'
  BY <1>1 DEF PrivateApart, Moves, Private
<1>8. TableAlive' /\ CountRight'
  BY <1>1, <1>3 DEF TableAlive, CountRight, Count
<1>9. Owned'
  BY <1>1, <1>3 DEF Owned, Moves
<1> QED BY <1>2, <1>3, <1>4, <1>5, <1>6, <1>7, <1>8, <1>9

-----------------------------------------------------------------------------
(* An object that is allocated is in the table or in the hands of a thread. *)
LEMMA NothingLost ==
  ASSUME NEW H, NEW O, FooInv(H, O)
  PROVE  NoLeak
BY DEF FooInv, Owned, NoLeak, Private, Idle

(* Every object on a chain is allocated.                                   *)
LEMMA ChainsAlive ==
  ASSUME NEW H, NEW O, FooInv(H, O), NEW b \in Buckets
  PROVE  Range(fh[b]) \subseteq alive
<1> SUFFICES ASSUME NEW o \in Range(fh[b]) PROVE o \in alive
  OBVIOUS
<1>1. o \in Objs
  BY DEF FooInv, TypeOK, Range
<1>2. InTable(o)
  BY DEF FooInv, ChainsSound, InTable, Chain
<1> QED BY <1>1, <1>2 DEF FooInv, TableAlive

-----------------------------------------------------------------------------
(* The table as its callers know it                                        *)
LEMMA ViewSame ==
  ASSUME UNCHANGED <<fh, f_id>>
  PROVE  (\A id \in Ids : Listed(id)' = Listed(id)) /\ Newer' = Newer
BY TableSame DEF Listed, Newer, Before, Chain

LEMMA ViewNew ==
  ASSUME NEW H, NEW O, FooInv(H, O), NEW t \in Threads, NEW id \in Ids,
         NEW r \in Refs, NEW o \in Objs, AllocNew(t, id, r, o)
  PROVE  (\A i \in Ids : Listed(i)' = Listed(i)) /\ Newer' = Newer
<1>1. /\ o \notin alive /\ fh' = fh /\ f_id' = [f_id EXCEPT ![o] = id]
      /\ f_id \in [Objs -> Ids] /\ fh \in [Buckets -> Seq(Objs)]
  BY DEF AllocNew, FooInv, TypeOK
<1>2. \A b \in Buckets : o \notin Range(fh[b])
  BY <1>1, ChainsAlive
<1>3. \A p \in Objs : p # o => f_id'[p] = f_id[p] /\ Chain(f_id[p])' = Chain(f_id[p])
  BY <1>1 DEF Chain
<1>4. \A p \in Objs : InTable(p)' <=> InTable(p)
  <2>1. ~InTable(o) /\ ~InTable(o)'
    BY <1>1, <1>2, HashAssumption DEF InTable, Chain
  <2> QED BY <1>3, <2>1 DEF InTable
<1>5. \A i \in Ids : Listed(i)' = Listed(i)
  <2>1. \A p \in Objs : InTable(p) => p # o
    BY <1>1, <1>2, HashAssumption DEF InTable, Chain
  <2> QED BY <1>3, <1>4, <2>1 DEF Listed
<1>6. \A p, q \in Objs : p = o \/ q = o =>
        ~Before(Chain(f_id[p]), p, q) /\ ~Before(Chain(f_id[p])', p, q)
  BY <1>1, <1>2, HashAssumption DEF Before, Chain, Range
<1>7. \A p, q \in Objs : <<p, q>> \in Newer' <=> <<p, q>> \in Newer
  BY <1>3, <1>6 DEF Newer
<1>8. Newer \subseteq Objs \X Objs /\ Newer' \subseteq Objs \X Objs
  BY DEF Newer
<1> QED BY <1>5, <1>7, <1>8

LEMMA ViewInserted ==
  ASSUME NEW H, NEW O, FooInv(H, O), NEW t \in Threads, AllocInsert(t)
  PROVE  /\ fp[t] \in Objs /\ want[t] \in Ids /\ ref[dst[t]] = NULL
         /\ \A id \in Ids : fp[t] \notin Listed(id)
         /\ \A id \in Ids :
              Listed(id)' = IF id = want[t] THEN Listed(id) \cup {fp[t]} ELSE Listed(id)
         /\ Newer' = Newer \cup ({fp[t]} \X Listed(want[t]))
<1>1. /\ TypeOK /\ ChainsSound /\ ~InTable(fp[t]) /\ fp[t] \in Objs /\ want[t] \in Ids
      /\ f_id[fp[t]] = want[t] /\ ref[dst[t]] = NULL /\ f_id' = f_id
      /\ fh' = [fh EXCEPT ![Hash[want[t]]] = <<fp[t]>> \o @]
  BY DEF AllocInsert, Goto, FooInv, TypeOK, Mine, Wants, Private
<1>2. \A o \in Objs : InTable(o)' <=> InTable(o) \/ o = fp[t]
  BY <1>1, Inserted
<1>3. \A id \in Ids :
        Listed(id)' = IF id = want[t] THEN Listed(id) \cup {fp[t]} ELSE Listed(id)
  BY <1>1, <1>2 DEF Listed
<1>4. ASSUME NEW o \in Objs, NEW p \in Objs, f_id[o] = f_id[p]
      PROVE  Before(Chain(f_id[o])', o, p) <=>
               Before(Chain(f_id[o]), o, p) \/ (o = fp[t] /\ p \in Listed(want[t]))
  <2> DEFINE b == Hash[f_id[o]]
             s == fh[b]
  <2>1. b \in Buckets /\ s \in Seq(Objs) /\ Chain(f_id[o]) = s /\ Chain(f_id[o])' = fh'[b]
    BY <1>1, HashAssumption DEF TypeOK, Chain
  <2>2. CASE b = Hash[want[t]]
    <3>1. fh'[b] = <<fp[t]>> \o s
      BY <1>1, <2>1, <2>2 DEF TypeOK
    <3>2. Before(fh'[b], o, p) <=> Before(s, o, p) \/ (o = fp[t] /\ p \in Range(s))
      BY <1>1, <2>1, <3>1, ConsOrder
    <3>3. o = fp[t] => (p \in Range(s) <=> p \in Listed(want[t]))
      BY <1>1, <1>4, <2>1 DEF Listed, InTable
    <3> QED BY <2>1, <3>2, <3>3
  <2>3. CASE b # Hash[want[t]]
    <3>1. fh'[b] = s /\ o # fp[t]
      BY <1>1, <2>1, <2>3 DEF TypeOK
    <3> QED BY <2>1, <3>1
  <2> QED BY <2>2, <2>3
<1>5. \A o, p \in Objs :
        <<o, p>> \in Newer' <=> <<o, p>> \in Newer \cup ({fp[t]} \X Listed(want[t]))
  <2>1. \A p \in Listed(want[t]) : f_id[p] = f_id[fp[t]]
    BY <1>1 DEF Listed
  <2> QED BY <1>1, <1>4, <2>1 DEF Newer
<1>6. /\ Newer' \subseteq Objs \X Objs
      /\ Newer \cup ({fp[t]} \X Listed(want[t])) \subseteq Objs \X Objs
  BY <1>1 DEF Newer, Listed
<1> QED BY <1>1, <1>3, <1>5, <1>6 DEF Listed

LEMMA ViewUnlinked ==
  ASSUME TypeOK, ChainsSound, NEW t \in Threads, fp[t] \in Objs, Unlink(t), UNCHANGED f_id
  PROVE  /\ \A id \in Ids : Listed(id)' = Listed(id) \ {fp[t]}
         /\ Newer' = {x \in Newer : fp[t] \notin {x[1], x[2]}}
<1>1. \A o \in Objs : InTable(o)' <=> InTable(o) /\ o # fp[t]
  BY Unlinked
<1>2. \A id \in Ids : Listed(id)' = Listed(id) \ {fp[t]}
  BY <1>1 DEF Listed
<1>3. ASSUME NEW o \in Objs, NEW p \in Objs, f_id[o] = f_id[p]
      PROVE  Before(Chain(f_id[o])', o, p) <=>
               Before(Chain(f_id[o]), o, p) /\ o # fp[t] /\ p # fp[t]
  <2> DEFINE b == Hash[f_id[o]]
             s == fh[b]
  <2>1. b \in Buckets /\ s \in Seq(Objs) /\ Chain(f_id[o]) = s /\ Chain(f_id[o])' = fh'[b]
    BY HashAssumption DEF TypeOK, Chain
  <2>2. PICK i \in DOMAIN fh[Hash[f_id[fp[t]]]] :
          /\ fh[Hash[f_id[fp[t]]]][i] = fp[t]
          /\ fh' = [fh EXCEPT ![Hash[f_id[fp[t]]]] = RemoveAt(@, i)]
    BY DEF Unlink
  <2>3. CASE b = Hash[f_id[fp[t]]]
    <3>1. fh'[b] = RemoveAt(s, i) /\ i \in DOMAIN s /\ s[i] = fp[t] /\ IsInjective(s)
      BY <2>1, <2>2, <2>3 DEF TypeOK, ChainsSound
    <3> QED BY <2>1, <3>1, RemoveOrder
  <2>4. CASE b # Hash[f_id[fp[t]]]
    <3>1. fh'[b] = s /\ o # fp[t] /\ p # fp[t]
      BY <1>3, <2>1, <2>2, <2>4 DEF TypeOK
    <3> QED BY <2>1, <3>1
  <2> QED BY <2>3, <2>4
<1>4. \A o, p \in Objs : <<o, p>> \in Newer' <=> <<o, p>> \in Newer /\ fp[t] \notin {o, p}
  BY <1>3 DEF Newer
<1>5. Newer' \subseteq Objs \X Objs /\ Newer \subseteq Objs \X Objs
  BY DEF Newer
<1>6. ASSUME NEW x \in Objs \X Objs
      PROVE  x \in Newer' <=> x \in {y \in Newer : fp[t] \notin {y[1], y[2]}}
  <2>1. x = <<x[1], x[2]>> /\ x[1] \in Objs /\ x[2] \in Objs
    OBVIOUS
  <2> QED BY <1>4, <2>1
<1> QED BY <1>2, <1>5, <1>6

(* The walk along a chain finds the newest object of the id.               *)
LEMMA FoundNewest ==
  ASSUME TypeOK, ChainsSound, NEW t \in Threads, want[t] \in Ids,
         NEW o \in Objs, Finds(t, o)
  PROVE  /\ InTable(o) /\ o \in Listed(want[t])
         /\ \A p \in Listed(want[t]) : <<p, o>> \notin Newer
<1> DEFINE s == Chain(want[t])
<1>1. PICK i \in DOMAIN s : /\ o = s[i] /\ f_id[o] = want[t]
                            /\ \A j \in 1..(i - 1) : f_id[s[j]] # want[t]
  BY DEF Finds
<1>2. s \in Seq(Objs) /\ IsInjective(s) /\ DOMAIN s = 1..Len(s) /\ Len(s) \in Nat
  BY HashAssumption DEF TypeOK, ChainsSound, Chain
<1>3. InTable(o) /\ o \in Listed(want[t])
  BY <1>1 DEF InTable, Listed, Range
<1>4. ASSUME NEW p \in Listed(want[t]), <<p, o>> \in Newer PROVE FALSE
  <2>1. f_id[p] = want[t] /\ Before(s, p, o)
    BY <1>4 DEF Listed, Newer
  <2>2. PICK a, b \in DOMAIN s : a < b /\ s[a] = p /\ s[b] = o
    BY <2>1 DEF Before
  <2>3. b = i
    BY <1>1, <1>2, <2>2 DEF IsInjective
  <2>4. a \in 1..(i - 1)
    BY <1>2, <2>2, <2>3
  <2> QED BY <1>1, <2>1, <2>2, <2>4
<1> QED BY <1>3, <1>4

LEMMA NoneListed ==
  ASSUME NEW t \in Threads, NothingFound(t)
  PROVE  Listed(want[t]) = {}
BY DEF NothingFound, Listed, InTable

=============================================================================
