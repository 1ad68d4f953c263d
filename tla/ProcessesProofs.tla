-------------------------- MODULE ProcessesProofs ---------------------------
(***************************************************************************)
(* The programs of one process and its children or threads, proved for any *)
(* number of children, descriptors, turns, lines, buffers, threads and     *)
(* signals, and any input and output.                                      *)
(***************************************************************************)
EXTENDS MCProcesses, FiniteSetTheorems, SequenceTheorems, WellFoundedInduction, TLAPS

-----------------------------------------------------------------------------
LEMMA LeastNat ==
  ASSUME NEW T \in SUBSET Nat, T # {}
  PROVE  \E x \in T : \A y \in T : x <= y
<1> DEFINE R == OpToRel(<, Nat)
<1>1. IsWellFoundedOn(R, Nat)
  BY NatLessThanWellFounded
<1>2. \A x, y \in Nat : x < y => <<x, y>> \in R
  BY DEF OpToRel
<1> HIDE DEF R
<1>3. PICK x \in T : \A y \in T : ~(<<y, x>> \in R)
  BY <1>1, WFMin
<1>4. ASSUME NEW y \in T PROVE x <= y
  <2>1. ~(y < x) /\ x \in Nat /\ y \in Nat
    BY <1>2, <1>3
  <2> QED BY <2>1
<1> QED BY <1>4

(* popen and pclose.  The ends of the pipes of the children made so far    *)
PopEnds(n) == {Pop!End(p, side) : p \in 1 .. n, side \in {"read", "write"}}
Tables(n) == [Pop!Fd -> PopEnds(n) \cup {Pop!None, Pop!Std}]
Alive == {"forked", "running", "ended"}

PopTypeOK ==
  /\ forked \in Nat /\ fds \in Tables(forked) /\ childpid \in [Pop!Fd -> Pids \cup {0}]
  /\ pop_child \in [Pids -> Alive \cup {"none", "reaped"}] /\ type \in [Pids -> {"r", "w"}]
  /\ holds \in [Pids -> SUBSET PopEnds(forked)]
  /\ copy \in [Pids -> [fds : Tables(forked), childpid : [Pop!Fd -> Pids \cup {0}]]]
  /\ closing \in Pids \cup {0}

(* No two descriptors are the same end.                                    *)
OnceIn(f) == \A e, g \in Pop!Fd : f[e] = f[g] /\ f[e] \notin {Pop!None, Pop!Std} => e = g

(* childpid[] says which child is behind a descriptor, and no entry is     *)
(* left of one that pclose waits for or has had, nor of one not yet made.  *)
EntryRight(e) ==
  childpid[e] # 0 =>
    /\ childpid[e] <= forked /\ childpid[e] # closing
    /\ pop_child[childpid[e]] \in Alive /\ fds[e] = Pop!Stream(childpid[e])

(* A child that is forked has a copy of every entry that is there still:   *)
(* it closes these streams.                                                *)
CopyRight(p) ==
  pop_child[p] = "forked" =>
    /\ copy[p].fds \in Tables(p) /\ OnceIn(copy[p].fds)
    /\ \A e \in Pop!Fd : childpid[e] # 0 /\ childpid[e] < p =>
         copy[p].childpid[e] = childpid[e] /\ copy[p].fds[e] = fds[e]

(* A command holds ends of pipes that were made before its own, and no     *)
(* stream that is open.                                                    *)
HoldsRight(p) ==
  /\ holds[p] \subseteq PopEnds(p)
  /\ pop_child[p] = "running" => \A e \in Pop!Fd : childpid[e] # 0 => fds[e] \notin holds[p]

ChildRight(p) ==
  /\ p > forked => pop_child[p] = "none" /\ holds[p] = {}
  /\ CopyRight(p) /\ HoldsRight(p)

PopInv ==
  /\ PopTypeOK /\ OnceIn(fds)
  /\ \A e \in Pop!Fd : EntryRight(e)
  /\ \A p \in Pids : ChildRight(p)

LEMMA PidsAre == \A p \in Pids : p \in Nat /\ p > 0 /\ \A n \in 1 .. p : n \in Pids
<1>1. PICK c \in Nat : c = Cardinality(Pids)
  BY PopenAssumption, FS_CardinalityType
<1> QED BY <1>1, PopenAssumption

LEMMA FdIs == Pop!Fd \subseteq Nat /\ IsFiniteSet(Pop!Fd) /\ Cardinality(Pop!Fd) = maxfd
<1>1. maxfd \in Nat /\ Pop!Fd = 0 .. maxfd - 1 /\ 0 <= maxfd - 1
  BY PopenAssumption DEF Pop!Fd
<1> QED BY <1>1, FS_Interval

LEMMA EndIs ==
  ASSUME NEW p \in Nat, NEW q \in Nat, NEW side, NEW other
  PROVE  /\ Pop!End(p, side) = Pop!End(q, other) <=> p = q /\ side = other
         /\ p # 0 => Pop!End(p, side) \notin {Pop!None, Pop!Std}
BY DEF Pop!End, Pop!None, Pop!Std

LEMMA EndsGrow ==
  ASSUME NEW m \in Nat, NEW n \in Nat, m <= n
  PROVE  PopEnds(m) \subseteq PopEnds(n) /\ Tables(m) \subseteq Tables(n)
<1>1. 1 .. m \subseteq 1 .. n
  OBVIOUS
<1>2. PopEnds(m) \subseteq PopEnds(n)
  BY <1>1 DEF PopEnds
<1> QED BY <1>2 DEF Tables

LEMMA EndIn ==
  ASSUME NEW p \in Nat, NEW n \in Nat, NEW side \in {"read", "write"}
  PROVE  Pop!End(p, side) \in PopEnds(n) <=> p \in 1 .. n
BY EndIs DEF PopEnds

LEMMA StreamIs ==
  ASSUME NEW p \in Pids
  PROVE  /\ Pop!Stream(p) \in {Pop!End(p, "read"), Pop!End(p, "write")}
         /\ Pop!Mine(p) \in {Pop!End(p, "read"), Pop!End(p, "write")}
         /\ Pop!Stream(p) # Pop!Mine(p)
<1>1. p \in Nat
  BY PidsAre
<1>2. Pop!End(p, "read") # Pop!End(p, "write")
  BY <1>1, EndIs
<1> QED BY <1>2 DEF Pop!Stream, Pop!Mine

(* The lowest descriptor that is free                                      *)
LEMMA LowestIs ==
  ASSUME NEW f, NEW g \in Pop!Fd, f[g] = Pop!None
  PROVE  Pop!Lowest(f) \in Pop!Fd /\ f[Pop!Lowest(f)] = Pop!None
<1> DEFINE T == Pop!Fd \ Pop!Open(f)
<1>1. T \in SUBSET Nat /\ g \in T
  BY FdIs DEF Pop!Open
<1>2. \E x \in T : \A y \in T : x <= y
  BY <1>1, LeastNat
<1>3. Pop!Lowest(f) \in T
  BY <1>2 DEF Pop!Lowest
<1> QED BY <1>3 DEF Pop!Open

LEMMA FreeFd ==
  ASSUME NEW f, Cardinality(Pop!Open(f)) < maxfd
  PROVE  \E g \in Pop!Fd : f[g] = Pop!None
<1>1. Pop!Open(f) \subseteq Pop!Fd
  BY DEF Pop!Open
<1>2. Pop!Open(f) # Pop!Fd
  BY FdIs, PopenAssumption
<1> QED BY <1>1, <1>2 DEF Pop!Open

LEMMA PopCardinality == ASSUME NEW S PROVE Pop!Cardinality(S) = Cardinality(S)
BY DEF Pop!Cardinality, Cardinality

(* pipe, when two descriptors are free                                     *)
LEMMA PipeIs ==
  ASSUME NEW n \in Nat, NEW f \in Tables(n), NEW q \in Nat, q # 0,
         ~(maxfd - Pop!Cardinality(Pop!Open(f)) < 2),
         NEW r, r = Pop!Lowest(f), NEW half, half = [f EXCEPT ![r] = Pop!End(q, "read")],
         NEW w, w = Pop!Lowest(half)
  PROVE  /\ r \in Pop!Fd /\ f[r] = Pop!None
         /\ w \in Pop!Fd /\ f[w] = Pop!None /\ w # r
<1> DEFINE S == Pop!Open(f)
<1>1. S \subseteq Pop!Fd /\ IsFiniteSet(S) /\ Cardinality(S) \in Nat
  BY FdIs, FS_Subset, FS_CardinalityType DEF Pop!Open
<1>2. Cardinality(S) < maxfd /\ Cardinality(S) + 1 < maxfd
  BY <1>1, PopenAssumption, PopCardinality
<1>3. r \in Pop!Fd /\ f[r] = Pop!None
  BY <1>2, FreeFd, LowestIs
<1>4. r \notin S /\ Pop!Open(half) = S \cup {r}
  <2>1. half[r] # Pop!None /\ \A e \in Pop!Fd : e # r => half[e] = f[e]
    BY <1>3, EndIs DEF Tables
  <2> QED BY <1>3, <2>1 DEF Pop!Open
<1>5. Cardinality(Pop!Open(half)) = Cardinality(S) + 1
  BY <1>1, <1>4, FS_AddElement
<1>6. w \in Pop!Fd /\ half[w] = Pop!None
  <2>1. Cardinality(Pop!Open(half)) < maxfd
    BY <1>2, <1>5
  <2> HIDE DEF S
  <2> QED BY <2>1, FreeFd, LowestIs
<1>7. half[r] # Pop!None /\ \A e \in Pop!Fd : e # r => half[e] = f[e]
  BY <1>3, EndIs DEF Tables
<1> QED BY <1>3, <1>6, <1>7

LEMMA PopInit == Pop!Init => PopInv
<1> SUFFICES ASSUME Pop!Init PROVE PopInv
  OBVIOUS
<1>1. /\ fds = [e \in Pop!Fd |-> IF e <= 2 THEN Pop!Std ELSE Pop!None]
      /\ childpid = [e \in Pop!Fd |-> 0] /\ forked = 0 /\ closing = 0
      /\ pop_child = [p \in Pids |-> "none"] /\ type = [p \in Pids |-> "r"]
      /\ holds = [p \in Pids |-> {}]
      /\ copy = [p \in Pids |-> [fds |-> fds, childpid |-> childpid]]
  BY DEF Pop!Init
<1>2. PopTypeOK
  BY <1>1 DEF PopTypeOK, Tables, Alive
<1>3. OnceIn(fds)
  BY <1>1 DEF OnceIn
<1>4. \A e \in Pop!Fd : EntryRight(e)
  BY <1>1 DEF EntryRight
<1>5. \A p \in Pids : ChildRight(p)
  BY <1>1 DEF ChildRight, CopyRight, HoldsRight
<1> QED BY <1>2, <1>3, <1>4, <1>5 DEF PopInv

(* A child is made, or the fork failed: fds has the two ends of its pipe,  *)
(* or the one that is the stream.                                          *)
TwoEnds(both, f, r, w, p) ==
  both = [[f EXCEPT ![r] = Pop!End(p, "read")] EXCEPT ![w] = Pop!End(p, "write")]

LEMMA NewEnds ==
  ASSUME NEW n \in Nat, NEW p, p = n + 1, NEW f \in Tables(n), OnceIn(f),
         NEW r \in Pop!Fd, NEW w \in Pop!Fd, f[r] = Pop!None, f[w] = Pop!None, w # r,
         NEW both, TwoEnds(both, f, r, w, p)
  PROVE  /\ both \in Tables(p) /\ OnceIn(both)
         /\ both[r] = Pop!End(p, "read") /\ both[w] = Pop!End(p, "write")
         /\ \A e \in Pop!Fd : e \notin {r, w} => both[e] = f[e]
         /\ Pop!Ends(both) \subseteq PopEnds(p)
<1>0. p \in Nat /\ p # 0
  OBVIOUS
<1>1. f \in [Pop!Fd -> PopEnds(p) \cup {Pop!None, Pop!Std}]
  BY EndsGrow DEF Tables
<1>2. Pop!End(p, "read") \in PopEnds(p) /\ Pop!End(p, "write") \in PopEnds(p)
  BY EndIn
<1>3. both \in Tables(p)
  BY <1>1, <1>2 DEF Tables, TwoEnds
<1>4. /\ both[r] = Pop!End(p, "read") /\ both[w] = Pop!End(p, "write")
      /\ \A e \in Pop!Fd : e \notin {r, w} => both[e] = f[e]
  BY <1>1 DEF TwoEnds
<1>5. \A e \in Pop!Fd : f[e] # both[r] /\ f[e] # both[w]
  <2>1. Pop!End(p, "read") \notin PopEnds(n) /\ Pop!End(p, "write") \notin PopEnds(n)
    BY EndIn
  <2>2. Pop!End(p, "read") \notin {Pop!None, Pop!Std} /\ Pop!End(p, "write") \notin {Pop!None, Pop!Std}
    BY <1>0, EndIs
  <2> QED BY <1>4, <2>1, <2>2 DEF Tables
<1>6. both[r] # both[w]
  <2>1. p \in Nat /\ "read" # "write"
    OBVIOUS
  <2> QED BY <1>4, <2>1, EndIs
<1>7. OnceIn(both)
  BY <1>4, <1>5, <1>6 DEF OnceIn
<1>8. Pop!Ends(both) \subseteq PopEnds(p)
  BY <1>3 DEF Pop!Ends, Tables
<1> QED BY <1>3, <1>4, <1>7, <1>8

LEMMA PopenStep ==
  ASSUME PopInv, NEW t \in {"r", "w"}, Pop!popen(t) PROVE PopInv'
<1>0. PICK p : p = forked + 1
  OBVIOUS
<1> DEFINE r == Pop!Lowest(fds)
           half == [fds EXCEPT ![r] = Pop!End(p, "read")]
           w == Pop!Lowest(half)
           both == [half EXCEPT ![w] = Pop!End(p, "write")]
           mine == IF t = "r" THEN r ELSE w
           other == IF t = "r" THEN w ELSE r
<1>1. CASE UNCHANGED Pop!vars
  BY <1>1 DEF PopInv, PopTypeOK, OnceIn, EntryRight, ChildRight, CopyRight, HoldsRight, Pop!vars,
    Pop!Stream
<1>2. CASE ~UNCHANGED Pop!vars
  <2>1. /\ closing = 0 /\ p \in Pids /\ ~(maxfd - Pop!Cardinality(Pop!Open(fds)) < 2)
        /\ forked' = p /\ UNCHANGED closing
    BY <1>0, <1>2 DEF Pop!popen, Pop!vars
  <2>2. \/ fds' = both /\ UNCHANGED <<childpid, pop_child, type, holds, copy>>
        \/ /\ pop_child' = [pop_child EXCEPT ![p] = "forked"]
           /\ type' = [type EXCEPT ![p] = t]
           /\ holds' = [holds EXCEPT ![p] = Pop!Ends(both)]
           /\ copy' = [copy EXCEPT ![p] = [fds |-> both, childpid |-> childpid]]
           /\ fds' = [both EXCEPT ![other] = Pop!None]
           /\ childpid' \in {childpid, [childpid EXCEPT ![mine] = p]}
    BY <1>0, <1>2, <2>1 DEF Pop!popen, Pop!vars
  <2>3. /\ forked \in Nat /\ fds \in Tables(forked) /\ p \in Nat /\ p = forked + 1 /\ OnceIn(fds)
        /\ Tables(forked) \subseteq Tables(p) /\ PopEnds(forked) \subseteq PopEnds(p)
    BY <1>0, EndsGrow DEF PopInv, PopTypeOK
  <2>4. r \in Pop!Fd /\ fds[r] = Pop!None /\ w \in Pop!Fd /\ fds[w] = Pop!None /\ w # r
    BY <2>1, <2>3, PipeIs
  <2>a. TwoEnds(both, fds, r, w, p)
    BY DEF TwoEnds
  <2> HIDE DEF both, w, half, r
  <2>5. /\ both \in Tables(p) /\ OnceIn(both)
        /\ both[r] = Pop!End(p, "read") /\ both[w] = Pop!End(p, "write")
        /\ \A e \in Pop!Fd : e \notin {r, w} => both[e] = fds[e]
        /\ Pop!Ends(both) \subseteq PopEnds(p)
    BY ONLY <2>3, <2>4, <2>a, NewEnds
  <2>6. \A e \in Pop!Fd : childpid[e] # 0 => e \notin {r, w}
    <3> SUFFICES ASSUME NEW e \in Pop!Fd, childpid[e] # 0 PROVE e \notin {r, w}
      OBVIOUS
    <3>1. childpid[e] \in Pids /\ fds[e] = Pop!Stream(childpid[e])
      BY DEF PopInv, PopTypeOK, EntryRight
    <3>2. fds[e] # Pop!None
      BY <3>1, StreamIs, EndIs, PidsAre
    <3> QED BY <2>4, <3>2
  <2>7. CASE fds' = both /\ UNCHANGED <<childpid, pop_child, type, holds, copy>>
    <3>1. PopTypeOK'
      BY <2>1, <2>3, <2>5, <2>7 DEF PopInv, PopTypeOK
    <3>2. OnceIn(fds)'
      BY <2>5, <2>7 DEF OnceIn
    <3>3. ASSUME NEW e \in Pop!Fd PROVE EntryRight(e)'
      <4>1. EntryRight(e) /\ childpid[e] \in Pids \cup {0}
        BY DEF PopInv, PopTypeOK
      <4>2. childpid[e] # 0 => fds'[e] = fds[e] /\ childpid[e] \in Nat
        BY <2>5, <2>6, <2>7, <4>1, PidsAre
      <4> QED BY <2>1, <2>3, <2>7, <4>1, <4>2 DEF EntryRight, Pop!Stream
    <3>4. \A q \in Pids : ChildRight(q)'
      BY <2>1, <2>3, <2>5, <2>6, <2>7, PidsAre DEF PopInv, PopTypeOK, ChildRight, CopyRight, HoldsRight, OnceIn
    <3> QED BY <3>1, <3>2, <3>3, <3>4 DEF PopInv
  <2>8. CASE /\ pop_child' = [pop_child EXCEPT ![p] = "forked"]
             /\ type' = [type EXCEPT ![p] = t]
             /\ holds' = [holds EXCEPT ![p] = Pop!Ends(both)]
             /\ copy' = [copy EXCEPT ![p] = [fds |-> both, childpid |-> childpid]]
             /\ fds' = [both EXCEPT ![other] = Pop!None]
             /\ childpid' \in {childpid, [childpid EXCEPT ![mine] = p]}
    <3>1. /\ \A e \in Pop!Fd : fds'[e] = IF e = other THEN Pop!None ELSE both[e]
          /\ {mine, other} = {r, w} /\ mine # other
          /\ fds'[mine] = (IF t = "r" THEN Pop!End(p, "read") ELSE Pop!End(p, "write"))
          /\ \A e \in Pop!Fd : childpid[e] # 0 => childpid'[e] = childpid[e] /\ fds'[e] = fds[e]
          /\ \A e \in Pop!Fd : childpid'[e] # childpid[e] => e = mine /\ childpid'[e] = p
      BY <2>4, <2>5, <2>6, <2>8 DEF Tables, PopInv, PopTypeOK
    <3>2. /\ Pop!Stream(p)' = fds'[mine]
          /\ \A q \in Pids : q # p => Pop!Stream(q)' = Pop!Stream(q)
      BY <2>1, <2>8, <3>1 DEF PopInv, PopTypeOK, Pop!Stream
    <3>3. PopTypeOK'
      <4>1. fds' \in Tables(p)
        BY <2>5, <2>8 DEF Tables
      <4>2. childpid' \in [Pop!Fd -> Pids \cup {0}]
        BY <2>1, <2>8 DEF PopInv, PopTypeOK
      <4>3. holds' \in [Pids -> SUBSET PopEnds(p)]
        BY <2>1, <2>3, <2>5, <2>8 DEF PopInv, PopTypeOK
      <4>4. pop_child' \in [Pids -> Alive \cup {"none", "reaped"}] /\ type' \in [Pids -> {"r", "w"}]
        BY <2>8 DEF PopInv, PopTypeOK, Alive
      <4>5. copy' \in [Pids -> [fds : Tables(p), childpid : [Pop!Fd -> Pids \cup {0}]]]
        BY <2>1, <2>3, <2>5, <2>8 DEF PopInv, PopTypeOK
      <4> QED BY <2>1, <2>3, <4>1, <4>2, <4>3, <4>4, <4>5 DEF PopInv, PopTypeOK
    <3>4. OnceIn(fds)'
      BY <2>5, <3>1 DEF OnceIn
    <3>5. \A e \in Pop!Fd : EntryRight(e)'
      BY <2>1, <2>3, <2>8, <3>1, <3>2, PidsAre DEF PopInv, PopTypeOK, EntryRight, Alive
    <3>6. ASSUME NEW q \in Pids PROVE ChildRight(q)'
      <4>1. CASE q = p
        <5>1. /\ pop_child'[p] = "forked" /\ holds'[p] = Pop!Ends(both)
              /\ copy'[p].fds = both /\ copy'[p].childpid = childpid
          BY <2>1, <2>8 DEF PopInv, PopTypeOK
        <5>2. CopyRight(p)'
          BY <2>3, <2>5, <2>6, <3>1, <5>1 DEF CopyRight, OnceIn
        <5> QED BY <2>1, <2>3, <2>5, <4>1, <5>1, <5>2 DEF ChildRight, HoldsRight
      <4>2. CASE q # p
        <5>1. /\ pop_child'[q] = pop_child[q] /\ holds'[q] = holds[q] /\ copy'[q] = copy[q]
          BY <2>8, <4>2
        <5>2. ChildRight(q) /\ q \in Nat /\ (pop_child[q] # "none" => q <= forked)
          BY PidsAre, <2>3 DEF PopInv, ChildRight
        <5>3. CopyRight(q)'
          <6> SUFFICES ASSUME pop_child[q] = "forked" PROVE CopyRight(q)'
            BY <5>1 DEF CopyRight
          <6>1. q <= forked /\ q < p
            BY <2>3, <5>2, PidsAre
          <6> QED BY <2>3, <3>1, <5>1, <5>2, <6>1 DEF ChildRight, CopyRight, PopInv
        <5>4. HoldsRight(q)'
          <6> SUFFICES ASSUME pop_child[q] = "running", NEW e \in Pop!Fd, childpid'[e] # 0
                       PROVE  fds'[e] \notin holds[q]
            BY <5>1, <5>2 DEF ChildRight, HoldsRight
          <6>1. CASE childpid[e] # 0
            BY <3>1, <5>2, <6>1 DEF ChildRight, HoldsRight
          <6>2. CASE childpid[e] = 0
            <7>1. e = mine /\ fds'[e] \in {Pop!End(p, "read"), Pop!End(p, "write")}
              BY <3>1, <6>2
            <7>2. q < p
              BY <2>3, <5>2
            <7>3. Pop!End(p, "read") \notin PopEnds(q) /\ Pop!End(p, "write") \notin PopEnds(q)
              BY <2>3, <5>2, <7>2, EndIn
            <7> QED BY <5>2, <7>1, <7>3 DEF ChildRight, HoldsRight
          <6> QED BY <6>1, <6>2
        <5> QED BY <2>1, <2>3, <5>1, <5>2, <5>3, <5>4, PidsAre DEF ChildRight
      <4> QED BY <4>1, <4>2
    <3> QED BY <3>3, <3>4, <3>5, <3>6 DEF PopInv
  <2> QED BY <2>2, <2>7, <2>8
<1> QED BY <1>1, <1>2

(* Steps of a child                                                        *)
LEMMA PopChildStep ==
  ASSUME PopInv, NEW p \in Pids, Pop!Child(p) PROVE PopInv'
<1> DEFINE c == copy[p]
           kept == [e \in Pop!Fd |-> IF c.fds[e] \in {Pop!Stream(p), Pop!Mine(p)} \/ c.childpid[e] > 0
                                     THEN Pop!None ELSE c.fds[e]]
<1>1. /\ pop_child[p] = "forked" /\ pop_child' = [pop_child EXCEPT ![p] = "running"]
      /\ holds' = [holds EXCEPT ![p] = Pop!Ends(kept) \cup {Pop!Mine(p)}]
      /\ UNCHANGED <<fds, childpid, forked, type, copy, closing>>
  BY DEF Pop!Child
<1>2. /\ p \in Nat /\ p > 0 /\ p <= forked /\ forked \in Nat
      /\ c.fds \in Tables(p) /\ OnceIn(c.fds)
      /\ \A e \in Pop!Fd : childpid[e] # 0 /\ childpid[e] < p =>
           c.childpid[e] = childpid[e] /\ c.fds[e] = fds[e]
  BY <1>1, PidsAre DEF PopInv, PopTypeOK, ChildRight, CopyRight
<1>3. Pop!Mine(p) \in PopEnds(p) /\ Pop!Mine(p) # Pop!Stream(p)
  <2>1. Pop!End(p, "read") \in PopEnds(p) /\ Pop!End(p, "write") \in PopEnds(p)
    BY <1>2, EndIn
  <2> QED BY <2>1, StreamIs
<1> HIDE DEF c
<1>4. \A x \in Pop!Ends(kept) : \E e \in Pop!Fd :
        x = c.fds[e] /\ x \notin {Pop!Stream(p), Pop!Mine(p), Pop!None, Pop!Std} /\ ~(c.childpid[e] > 0)
  BY DEF Pop!Ends
<1> HIDE DEF kept
<1>5. Pop!Ends(kept) \cup {Pop!Mine(p)} \subseteq PopEnds(p)
  BY <1>2, <1>3, <1>4 DEF Tables
<1>6. ASSUME NEW e \in Pop!Fd, childpid[e] # 0
      PROVE  fds[e] \notin Pop!Ends(kept) \cup {Pop!Mine(p)}
  <2>1. PICK q \in Pids : q = childpid[e] /\ q <= forked /\ fds[e] = Pop!Stream(q) /\ q \in Nat /\ q > 0
    BY <1>6, PidsAre DEF PopInv, PopTypeOK, EntryRight
  <2>2. CASE q = p
    BY <1>3, <1>4, <2>1, <2>2
  <2>3. CASE q < p
    <3>1. c.childpid[e] = q /\ c.fds[e] = Pop!Stream(q)
      BY <1>2, <1>6, <2>1, <2>3
    <3>2. Pop!Stream(q) \notin {Pop!None, Pop!Std}
      BY <2>1, StreamIs, EndIs
    <3>3. Pop!Stream(q) # Pop!Mine(p)
      BY <1>2, <2>1, <2>3, StreamIs, EndIs
    <3>4. Pop!Stream(q) \notin Pop!Ends(kept)
      <4> SUFFICES ASSUME Pop!Stream(q) \in Pop!Ends(kept) PROVE FALSE
        OBVIOUS
      <4>1. PICK g \in Pop!Fd : Pop!Stream(q) = c.fds[g] /\ ~(c.childpid[g] > 0)
        BY <1>4
      <4>2. g = e
        BY <1>2, <3>1, <3>2, <4>1 DEF OnceIn
      <4> QED BY <2>1, <3>1, <4>1, <4>2
    <3> QED BY <2>1, <3>3, <3>4
  <2>4. CASE q > p
    <3>1. Pop!End(q, "read") \notin PopEnds(p) /\ Pop!End(q, "write") \notin PopEnds(p)
      BY <1>2, <2>1, <2>4, EndIn
    <3> QED BY <1>5, <2>1, <3>1, StreamIs
  <2> QED BY <1>2, <2>1, <2>2, <2>3, <2>4
<1>7. PopTypeOK'
  <2>1. PopEnds(p) \subseteq PopEnds(forked)
    BY <1>2, EndsGrow
  <2> QED BY <1>1, <1>5, <2>1 DEF PopInv, PopTypeOK, Alive
<1>8. \A q \in Pids : Pop!Stream(q)' = Pop!Stream(q)
  BY <1>1 DEF Pop!Stream
<1>9. ASSUME NEW e \in Pop!Fd PROVE EntryRight(e)'
  BY <1>1, <1>8 DEF PopInv, PopTypeOK, EntryRight, Alive
<1>10. ASSUME NEW q \in Pids PROVE ChildRight(q)'
  <2>1. CASE q = p
    <3>1. pop_child'[p] = "running" /\ holds'[p] = Pop!Ends(kept) \cup {Pop!Mine(p)}
      BY <1>1 DEF PopInv, PopTypeOK
    <3> QED BY <1>1, <1>2, <1>5, <1>6, <2>1, <3>1 DEF ChildRight, CopyRight, HoldsRight
  <2>2. CASE q # p
    <3>1. pop_child'[q] = pop_child[q] /\ holds'[q] = holds[q]
      BY <1>1, <2>2 DEF PopInv, PopTypeOK
    <3> QED BY <1>1, <3>1 DEF PopInv, ChildRight, CopyRight, HoldsRight
  <2> QED BY <2>1, <2>2
<1> QED BY <1>1, <1>7, <1>9, <1>10 DEF PopInv, OnceIn

LEMMA PopExitStep ==
  ASSUME PopInv, NEW p \in Pids, Pop!Exit(p) PROVE PopInv'
<1>1. /\ pop_child[p] = "running" /\ pop_child' = [pop_child EXCEPT ![p] = "ended"]
      /\ holds' = [holds EXCEPT ![p] = {}]
      /\ UNCHANGED <<fds, childpid, forked, type, copy, closing>>
  BY DEF Pop!Exit
<1>2. PopTypeOK'
  BY <1>1 DEF PopInv, PopTypeOK, Alive
<1>3. ASSUME NEW e \in Pop!Fd PROVE EntryRight(e)'
  BY <1>1 DEF PopInv, PopTypeOK, EntryRight, Alive, Pop!Stream
<1>4. ASSUME NEW q \in Pids PROVE ChildRight(q)'
  BY <1>1 DEF PopInv, PopTypeOK, ChildRight, CopyRight, HoldsRight
<1> QED BY <1>1, <1>2, <1>3, <1>4 DEF PopInv, OnceIn

LEMMA PcloseStep ==
  ASSUME PopInv, NEW f \in Pop!Fd, Pop!pclose(f) PROVE PopInv'
<1>1. /\ closing = 0 /\ childpid[f] # 0 /\ closing' \in {closing, childpid[f]}
      /\ childpid' = [childpid EXCEPT ![f] = 0] /\ fds' = [fds EXCEPT ![f] = Pop!None]
      /\ UNCHANGED <<forked, pop_child, type, holds, copy>>
  BY DEF Pop!pclose
<1>2. PopTypeOK'
  BY <1>1 DEF PopInv, PopTypeOK, Tables
<1>3. /\ childpid'[f] = 0 /\ fds'[f] = Pop!None
      /\ \A e \in Pop!Fd : e # f => childpid'[e] = childpid[e] /\ fds'[e] = fds[e]
  BY <1>1 DEF PopInv, PopTypeOK, Tables
<1>4. OnceIn(fds)'
  BY <1>3 DEF PopInv, OnceIn
<1>5. ASSUME NEW e \in Pop!Fd PROVE EntryRight(e)'
  <2> SUFFICES ASSUME e # f, childpid[e] # 0 PROVE EntryRight(e)'
    BY <1>3 DEF EntryRight
  <2>1. /\ childpid[e] \in Pids /\ childpid[f] \in Pids
        /\ fds[e] = Pop!Stream(childpid[e]) /\ fds[f] = Pop!Stream(childpid[f])
    BY <1>1 DEF PopInv, PopTypeOK, EntryRight
  <2>2. fds[e] \notin {Pop!None, Pop!Std}
    BY <2>1, StreamIs, EndIs, PidsAre
  <2>3. childpid[e] # childpid[f]
    BY <2>1, <2>2 DEF PopInv, OnceIn
  <2> QED BY <1>1, <1>3, <2>3 DEF PopInv, EntryRight, Pop!Stream
<1>6. ASSUME NEW q \in Pids PROVE ChildRight(q)'
  BY <1>1, <1>3 DEF PopInv, PopTypeOK, ChildRight, CopyRight, HoldsRight
<1> QED BY <1>2, <1>4, <1>5, <1>6 DEF PopInv

LEMMA ReapStep ==
  ASSUME PopInv, Pop!Reap PROVE PopInv'
<1>1. /\ closing # 0 /\ closing \in Pids /\ pop_child[closing] = "ended"
      /\ pop_child' = [pop_child EXCEPT ![closing] = "reaped"] /\ closing' = 0
      /\ UNCHANGED <<fds, childpid, forked, type, holds, copy>>
  BY DEF Pop!Reap, PopInv, PopTypeOK
<1>2. PopTypeOK'
  BY <1>1 DEF PopInv, PopTypeOK
<1>3. ASSUME NEW e \in Pop!Fd PROVE EntryRight(e)'
  BY <1>1 DEF PopInv, PopTypeOK, EntryRight, Alive, Pop!Stream
<1>4. ASSUME NEW q \in Pids PROVE ChildRight(q)'
  BY <1>1 DEF PopInv, PopTypeOK, ChildRight, CopyRight, HoldsRight
<1> QED BY <1>1, <1>2, <1>3, <1>4 DEF PopInv, OnceIn

LEMMA PopNext == PopInv /\ [MCNext]_all => PopInv'
<1> SUFFICES ASSUME PopInv, [MCNext]_all PROVE PopInv'
  OBVIOUS
<1>1. CASE UNCHANGED popVars
  BY <1>1 DEF PopInv, PopTypeOK, OnceIn, EntryRight, ChildRight, CopyRight, HoldsRight, popVars,
    Pop!Stream
<1>2. CASE Pop!Next
  BY <1>2, PopenStep, PopChildStep, PopExitStep, PcloseStep, ReapStep DEF Pop!Next, Pop!Run
<1> QED BY <1>1, <1>2 DEF MCNext, Runs, all

(* However popen and pclose are called, and whichever children, forks,     *)
(* fdopens and fcloses fail: no command holds the stream of another one, which would   *)
(* keep that one from its end of input, and what childpid[] says of a      *)
(* descriptor is the child behind it.                                      *)
THEOREM StreamsArePrivate == MCSpec => []StreamsPrivate
<1>1. MCInit => PopInv
  BY PopInit DEF MCInit
<1>2. PopInv => StreamsPrivate
  <2> SUFFICES ASSUME PopInv PROVE StreamsPrivate
    OBVIOUS
  <2>1. ASSUME NEW e \in Pop!Fd, childpid[e] # 0
        PROVE  fds[e] = Pop!Stream(childpid[e]) /\ pop_child[childpid[e]] \notin {"none", "reaped"}
    BY <2>1 DEF PopInv, EntryRight, Alive
  <2>2. ASSUME NEW p \in Pids, pop_child[p] = "running" PROVE holds[p] \cap Pop!Streams = {}
    BY <2>2 DEF PopInv, ChildRight, HoldsRight, Pop!Streams
  <2> QED BY <2>1, <2>2 DEF StreamsPrivate, Pop!StreamsPrivate
<1> QED BY <1>1, <1>2, PopNext, PTL DEF MCSpec

-----------------------------------------------------------------------------
(* TELL and WAIT.  In the programs of a few steps, TELL is the second and  *)
(* WAIT the first or the third; what a process has heard, or has acted on, *)
(* the other one has told it.                                              *)
TurnPcs == {"start", "suspend", "asleep", "clear", "unmask", "locked"}

TurnTypeOK ==
  /\ <<build, program>> \in Turns
  /\ op \in [Turn!Procs -> Nat] /\ at \in [Turn!Procs -> TurnPcs]
  /\ sigflag \in [Turn!Procs -> BOOLEAN] /\ pending \in [Turn!Procs -> BOOLEAN]
  /\ blocked \in [Turn!Procs -> BOOLEAN] /\ pipe \in [Turn!Procs -> Nat] /\ counter \in Nat
  /\ locks \in [0 .. 1 -> Turn!Procs \cup {"none"}] /\ failed \subseteq Turn!Procs

HasWait(p) == program = "deadlock" \/ p = "child"
WaitAt == IF program = "deadlock" THEN 3 ELSE 1
Heard(p) ==
  \/ pending[p] \/ sigflag[p] \/ pipe[p] > 0 \/ at[p] \in {"clear", "unmask"}
  \/ HasWait(p) /\ op[p] > WaitAt
PlaceRight(p) ==
  /\ at[p] \in {"suspend", "asleep", "clear", "unmask"} => HasWait(p) /\ op[p] = WaitAt
  /\ at[p] = "locked" => program = "deadlock" /\ op[p] = 4
  /\ op[p] > 0 /\ op[p] <= IF program = "deadlock" THEN 5
                         ELSE IF program = "mandatory" /\ p = "parent" THEN 4 ELSE 3
HeardRight ==
  program # "devzero" =>
    \A p \in Turn!Procs : PlaceRight(p) /\ (Heard(p) => op[Turn!Other(p)] > 2)

(* The parent prints before it tells, and locks the file until the child   *)
(* has looked.                                                             *)
PrintRight == program = "tellwait2" => failed = {} /\ (op["parent"] > 1 => counter > 0)
ProbeRight ==
  program = "mandatory" =>
    /\ failed = {} /\ (op["parent"] \in 2 .. 3 => locks = [b \in 0 .. 1 |-> "parent"])
    /\ op["parent"] = 4 => op["child"] = 3

(* Each has its own byte from its first step to its last one; the first    *)
(* that ends was told of the deadlock, and the other one then has both.    *)
OwnByte(p) == IF p = "parent" THEN 1 ELSE 0
Holds(p) == {b \in 0 .. 1 : locks[b] = p}
LocksRight(p) ==
  /\ Holds(p) = IF op[p] \in 2 .. 4 THEN {OwnByte(p)} ELSE {}
  /\ op[p] < 5 => p \notin failed
  /\ op[p] = 5 /\ op[Turn!Other(p)] < 5 => p \in failed
  /\ op[p] = 5 /\ op[Turn!Other(p)] = 5 => (p \in failed <=> Turn!Other(p) \notin failed)
DeadlockRight == program = "deadlock" => \A p \in Turn!Procs : LocksRight(p)

(* devzero.c: the bytes in the pipes and the count follow from how far the *)
(* two are.                                                                *)
Counts(a, b, toChild, toParent, n) ==
  /\ toChild = (a \div 3) - ((b + 1) \div 3)
  /\ toParent = ((b - 1) \div 3) - ((a - 1) \div 3)
  /\ n = ((a + 1) \div 3) + (b \div 3)
DevzeroRight ==
  program = "devzero" =>
    /\ build = "pipes" /\ failed = {}
    /\ \A p \in Turn!Procs : at[p] = "start" /\ ~pending[p] /\ op[p] > 0
    /\ Counts(op["parent"], op["child"], pipe["child"], pipe["parent"], counter)

TurnInv ==
  TurnTypeOK /\ HeardRight /\ PrintRight /\ ProbeRight /\ DeadlockRight /\ DevzeroRight

LEMMA TurnIs ==
  /\ Turn!Procs = {"parent", "child"}
  /\ \A p \in Turn!Procs : Turn!Other(p) \in Turn!Procs /\ Turn!Other(p) # p
                         /\ Turn!Other(Turn!Other(p)) = p
  /\ \A p, q \in Turn!Procs : q = p \/ q = Turn!Other(p)
BY DEF Turn!Procs, Turn!Other

(* What the processes of the short programs do where                       *)
LEMMA DoesIs ==
  ASSUME TurnTypeOK, HeardRight, program # "devzero", NEW p \in Turn!Procs
  PROVE  /\ Turn!Does(p, "tell") => op[p] = 2
         /\ Turn!Does(p, "wait") => HasWait(p) /\ op[p] = WaitAt
         /\ Turn!Does(p, "print") => program = "tellwait2" /\ op[p] = IF p = "parent" THEN 1 ELSE 2
         /\ Turn!Does(p, "lockfile") => program = "mandatory" /\ p = "parent" /\ op[p] = 1
         /\ Turn!Does(p, "probe") => program = "mandatory" /\ p = "child" /\ op[p] = 2
         /\ Turn!Does(p, "waitpid") => program = "mandatory" /\ p = "parent" /\ op[p] = 3
         /\ ~Turn!Does(p, "update")
         /\ Turn!Asks(p) => program = "deadlock" /\ op[p] \in {1, 4}
         /\ Turn!Asks(p) => Turn!Byte(p) = IF op[p] = 1 THEN OwnByte(p) ELSE OwnByte(Turn!Other(p))
         /\ Len(Turn!Script(p)) = IF program = "deadlock" THEN 4
                                  ELSE IF program = "mandatory" /\ p = "parent" THEN 3 ELSE 2
<1>1. program \in {"tellwait2", "deadlock", "mandatory"} /\ op[p] \in Nat /\ op[p] > 0
  BY DEF TurnTypeOK, Turns, TurnPrograms, HeardRight, PlaceRight
<1>2. CASE program = "tellwait2"
  <2>1. Turn!Script(p) = IF p = "parent" THEN <<"print", "tell">> ELSE <<"wait", "print">>
    BY <1>2 DEF Turn!Script, Turn!tellwait2
  <2> QED BY <1>1, <1>2, <2>1, TurnIs DEF Turn!Does, Turn!Asks, Turn!Ended, HasWait, WaitAt
<1>3. CASE program = "deadlock"
  <2>1. Turn!Script(p) = IF p = "parent" THEN <<"lock1", "tell", "wait", "lock0">>
                         ELSE <<"lock0", "tell", "wait", "lock1">>
    BY <1>3 DEF Turn!Script, Turn!deadlock
  <2> QED
    BY <1>1, <1>3, <2>1, TurnIs
    DEF Turn!Does, Turn!Asks, Turn!Ended, Turn!Byte, Turn!Other, OwnByte, HasWait, WaitAt
<1>4. CASE program = "mandatory"
  <2>1. Turn!Script(p) = IF p = "parent" THEN <<"lockfile", "tell", "waitpid">> ELSE <<"wait", "probe">>
    BY <1>4 DEF Turn!Script, Turn!mandatory
  <2> QED BY <1>1, <1>4, <2>1, TurnIs DEF Turn!Does, Turn!Asks, Turn!Ended, HasWait, WaitAt
<1> QED BY <1>1, <1>2, <1>3, <1>4

LEMMA TurnInit == Turn!Init => TurnInv
<1> SUFFICES ASSUME Turn!Init PROVE TurnInv
  OBVIOUS
<1> USE DEF Turn!Init, Turn!TELL_WAIT, Turn!PipesEmpty
<1>1. TurnTypeOK
  BY DEF TurnTypeOK, TurnPcs, Turns
<1>2. HeardRight
  BY TurnIs DEF HeardRight, PlaceRight, Heard, HasWait, WaitAt
<1>3. PrintRight /\ ProbeRight
  BY DEF PrintRight, ProbeRight, Turn!Procs
<1>4. DeadlockRight
  BY TurnIs DEF DeadlockRight, LocksRight, Holds
<1>5. DevzeroRight
  <2>1. program = "devzero" => build = "pipes"
    BY <1>1 DEF TurnTypeOK, Turns, TurnPrograms
  <2>2. 1 \div 3 = 0 /\ 2 \div 3 = 0 /\ 0 \div 3 = 0 /\ 1 + 1 = 2 /\ 1 - 1 = 0
    OBVIOUS
  <2>3. Counts(1, 1, 0, 0, 0)
    BY <2>2 DEF Counts
  <2> QED BY <2>1, <2>3 DEF DevzeroRight, Turn!Procs
<1> QED BY <1>1, <1>2, <1>3, <1>4, <1>5 DEF TurnInv

(* What the other steps of the short programs leave right, whichever way   *)
(* they tell and wait                                                      *)
LEMMA TellOrWait ==
  ASSUME TurnInv, program # "devzero", NEW p \in Turn!Procs,
         build' = build, program' = program,
         counter' = counter, locks' = locks, failed' = failed,
         \/ op' = op
         \/ (op' = [op EXCEPT ![p] = @ + 1] /\ (op[p] = 2 \/ (HasWait(p) /\ op[p] = WaitAt)))
  PROVE  PrintRight' /\ ProbeRight' /\ DeadlockRight' /\ DevzeroRight'
<1>1. op \in [Turn!Procs -> Nat] /\ \A q \in Turn!Procs : op[q] > 0
  BY DEF TurnInv, TurnTypeOK, HeardRight, PlaceRight
<1>2. PrintRight'
  BY <1>1, TurnIs DEF TurnInv, PrintRight, HasWait, WaitAt
<1>3. ProbeRight'
  BY <1>1, TurnIs DEF TurnInv, ProbeRight, HasWait, WaitAt
<1>4. ASSUME program = "deadlock", NEW q \in Turn!Procs PROVE LocksRight(q)'
  <2>1. op'[p] = op[p] \/ (op[p] \in 2 .. 3 /\ op'[p] = op[p] + 1)
    BY <1>1, <1>4 DEF WaitAt
  <2>2. \A r \in Turn!Procs : r # p => op'[r] = op[r]
    BY <1>1
  <2>3. LocksRight(q)
    BY <1>4 DEF TurnInv, DeadlockRight
  <2>4. op'[q] \in Nat /\ (op'[q] \in 2 .. 4 <=> op[q] \in 2 .. 4) /\ (op'[q] = 5 <=> op[q] = 5)
    /\ (op'[q] < 5 <=> op[q] < 5)
    BY <1>1, <2>1, <2>2
  <2>5. PICK r \in Turn!Procs : r = Turn!Other(q)
    BY TurnIs
  <2>6. op'[r] \in Nat /\ (op'[r] = 5 <=> op[r] = 5) /\ (op'[r] < 5 <=> op[r] < 5)
    BY <1>1, <2>1, <2>2
  <2>7. Holds(q)' = Holds(q)
    BY DEF Holds
  <2> QED BY <2>3, <2>4, <2>5, <2>6, <2>7 DEF LocksRight
<1> QED BY <1>2, <1>3, <1>4 DEF DeadlockRight, DevzeroRight

LEMMA ShortTell ==
  ASSUME TurnInv, program # "devzero", NEW p \in Turn!Procs,
         Turn!TellBySignal(p) \/ Turn!TellByPipe(p)
  PROVE  TurnInv'
<1>1. /\ Turn!Does(p, "tell")
      /\ build' = build /\ program' = program
      /\ counter' = counter /\ locks' = locks /\ failed' = failed
      /\ op' = [op EXCEPT ![p] = @ + 1] /\ at' = [at EXCEPT ![p] = "start"]
      /\ sigflag' = sigflag /\ blocked' = blocked
      /\ pending' = pending \/ pending' = [pending EXCEPT ![Turn!Other(p)] = TRUE]
      /\ pipe' = pipe \/ pipe' = [pipe EXCEPT ![Turn!Other(p)] = @ + 1]
  BY DEF Turn!TellBySignal, Turn!TellByPipe, Turn!Continue, Turn!Goto, Turn!signals, Turn!shared
<1>2. TurnTypeOK /\ HeardRight
  BY DEF TurnInv
<1>3. op[p] = 2
  BY <1>1, <1>2, DoesIs
<1>4. PrintRight' /\ ProbeRight' /\ DeadlockRight' /\ DevzeroRight'
  <2>1. op' = op \/ (op' = [op EXCEPT ![p] = @ + 1] /\ (op[p] = 2 \/ (HasWait(p) /\ op[p] = WaitAt)))
    BY <1>1, <1>3 DEF HasWait, WaitAt
  <2> QED BY ONLY TurnInv, program # "devzero", p \in Turn!Procs, <1>1, <2>1, TellOrWait
<1>5. TurnTypeOK'
  <2>1. op \in [Turn!Procs -> Nat] /\ at \in [Turn!Procs -> TurnPcs]
    /\ pending \in [Turn!Procs -> BOOLEAN] /\ pipe \in [Turn!Procs -> Nat]
    BY <1>2 DEF TurnTypeOK
  <2>2. op' \in [Turn!Procs -> Nat]
    BY <1>1, <2>1
  <2>3. at' \in [Turn!Procs -> TurnPcs]
    BY <1>1, <2>1 DEF TurnPcs
  <2>4. pending' \in [Turn!Procs -> BOOLEAN]
    BY <1>1, <2>1
  <2>5. pipe' \in [Turn!Procs -> Nat]
    BY <1>1, <2>1
  <2> QED BY <1>1, <1>2, <2>2, <2>3, <2>4, <2>5 DEF TurnTypeOK
<1>6. op'[p] = 3 /\ at'[p] = "start"
  BY <1>1, <1>2, <1>3 DEF TurnTypeOK
<1>7. ASSUME NEW q \in Turn!Procs PROVE PlaceRight(q)' /\ (Heard(q) => op[Turn!Other(q)] > 2)'
  <2>1. PlaceRight(q) /\ (Heard(q) => op[Turn!Other(q)] > 2)
    BY <1>2 DEF HeardRight
  <2>2. CASE q = p
    <3>1. op'[Turn!Other(p)] = op[Turn!Other(p)]
      BY <1>1, <1>2, TurnIs DEF TurnTypeOK
    <3>2. pending'[p] = pending[p] /\ pipe'[p] = pipe[p]
      BY <1>1, <1>2, TurnIs DEF TurnTypeOK
    <3>3. Heard(p)' => Heard(p)
      BY <1>1, <1>3, <1>6, <3>2 DEF Heard, HasWait, WaitAt
    <3>4. PlaceRight(p)'
      BY ONLY <1>6 DEF PlaceRight
    <3> QED BY <2>1, <2>2, <3>1, <3>3, <3>4
  <2>3. CASE q # p
    <3>1. op'[q] = op[q] /\ at'[q] = at[q]
      BY <1>1, <1>2, <2>3 DEF TurnTypeOK
    <3>2. PICK r \in Turn!Procs : r = Turn!Other(q) /\ r = p
      BY <2>3, TurnIs
    <3>3. PlaceRight(q)'
      BY <1>1, <2>1, <3>1 DEF PlaceRight, HasWait, WaitAt
    <3> QED BY <1>6, <3>2, <3>3
  <2> QED BY <2>2, <2>3
<1>8. HeardRight'
  BY <1>7 DEF HeardRight
<1> QED BY <1>4, <1>5, <1>8 DEF TurnInv

(* WAIT goes on in steps that change only their own process.               *)
WaitStep(p) ==
  \/ Turn!WaitOnPipe(p) \/ Turn!Test(p) \/ Turn!Suspend(p)
  \/ Turn!sig_usr(p) \/ Turn!Clear(p) \/ Turn!Unmask(p)

LEMMA WaitChanges ==
  ASSUME TurnTypeOK, NEW p \in Turn!Procs, WaitStep(p)
  PROVE  /\ build' = build /\ program' = program
         /\ counter' = counter /\ locks' = locks /\ failed' = failed
         /\ TurnTypeOK'
         /\ \A q \in Turn!Procs : q # p =>
              /\ op'[q] = op[q] /\ at'[q] = at[q] /\ pending'[q] = pending[q]
              /\ sigflag'[q] = sigflag[q] /\ pipe'[q] = pipe[q]
<1> USE DEF WaitStep, Turn!WaitOnPipe, Turn!Test, Turn!Suspend, Turn!sig_usr, Turn!Clear, Turn!Unmask,
  Turn!signals, Turn!shared, Turn!Goto, Turn!Continue
<1>1. op \in [Turn!Procs -> Nat] /\ at \in [Turn!Procs -> TurnPcs]
  /\ sigflag \in [Turn!Procs -> BOOLEAN] /\ pending \in [Turn!Procs -> BOOLEAN]
  /\ blocked \in [Turn!Procs -> BOOLEAN] /\ pipe \in [Turn!Procs -> Nat]
  BY DEF TurnTypeOK
<1>2. /\ build' = build /\ program' = program
      /\ counter' = counter /\ locks' = locks /\ failed' = failed
  OBVIOUS
<1>3. op' \in [Turn!Procs -> Nat]
  BY <1>1
<1>4. at' \in [Turn!Procs -> TurnPcs]
  BY <1>1 DEF TurnPcs
<1>5. sigflag' \in [Turn!Procs -> BOOLEAN] /\ blocked' \in [Turn!Procs -> BOOLEAN]
  BY <1>1
<1>6. pending' \in [Turn!Procs -> BOOLEAN]
  BY <1>1
<1>7. pipe' \in [Turn!Procs -> Nat]
  BY <1>1
<1>8. ASSUME NEW q \in Turn!Procs, q # p
      PROVE  /\ op'[q] = op[q] /\ at'[q] = at[q] /\ pending'[q] = pending[q]
             /\ sigflag'[q] = sigflag[q] /\ pipe'[q] = pipe[q]
  BY <1>1, <1>8
<1> QED BY ONLY TurnTypeOK, <1>2, <1>3, <1>4, <1>5, <1>6, <1>7, <1>8 DEF TurnTypeOK

LEMMA WaitGoesOn ==
  ASSUME TurnTypeOK, HeardRight, program # "devzero", NEW p \in Turn!Procs, WaitStep(p)
  PROVE  /\ op' = op \/ (op' = [op EXCEPT ![p] = @ + 1] /\ HasWait(p) /\ op[p] = WaitAt)
         /\ Heard(p)' => Heard(p)
         /\ PlaceRight(p)'
<1>1. PlaceRight(p)
  BY DEF HeardRight
<1>2. op[p] \in Nat /\ pipe[p] \in Nat /\ op \in [Turn!Procs -> Nat] /\ at \in [Turn!Procs -> TurnPcs]
  /\ sigflag \in [Turn!Procs -> BOOLEAN] /\ pending \in [Turn!Procs -> BOOLEAN]
  /\ pipe \in [Turn!Procs -> Nat]
  BY DEF TurnTypeOK
<1>3. program' = program
  BY WaitChanges
<1> USE DEF Turn!Goto, Turn!Continue, Turn!signals, Turn!shared
<1>4. CASE Turn!WaitOnPipe(p)
  <2>1. HasWait(p) /\ op[p] = WaitAt /\ pipe[p] > 0
    BY <1>4, DoesIs DEF Turn!WaitOnPipe
  <2>2. op' = [op EXCEPT ![p] = @ + 1] /\ op'[p] = op[p] + 1 /\ at'[p] = "start"
    BY <1>2, <1>4 DEF Turn!WaitOnPipe
  <2>3. op'[p] = op[p] + 1 /\ at'[p] = "start"
    BY <2>2
  <2>4. op'[p] = IF program' = "deadlock" THEN 4 ELSE 2
    BY ONLY <1>3, <2>1, <2>3 DEF WaitAt
  <2>5. PlaceRight(p)'
    BY ONLY <2>3, <2>4 DEF PlaceRight
  <2> QED BY <2>1, <2>2, <2>5 DEF Heard
<1>5. CASE Turn!Test(p)
  <2>1. HasWait(p) /\ op[p] = WaitAt
    BY <1>5, DoesIs DEF Turn!Test
  <2>2. at'[p] = IF sigflag[p] THEN "clear" ELSE "suspend"
    BY <1>2, <1>5 DEF Turn!Test
  <2>3. op' = op /\ pipe' = pipe /\ pending' = pending /\ sigflag' = sigflag
    BY <1>5 DEF Turn!Test
  <2> QED BY <1>1, <1>2, <1>3, <2>1, <2>2, <2>3 DEF PlaceRight, Heard, HasWait, WaitAt
<1>6. CASE Turn!Suspend(p)
  <2>1. at'[p] = "asleep" /\ at[p] = "suspend"
    BY <1>2, <1>6 DEF Turn!Suspend
  <2>2. op' = op /\ pipe' = pipe /\ pending' = pending /\ sigflag' = sigflag
    BY <1>6 DEF Turn!Suspend
  <2> QED BY <1>1, <1>2, <1>3, <2>1, <2>2 DEF PlaceRight, Heard, HasWait, WaitAt
<1>7. CASE Turn!sig_usr(p)
  <2>1. (at'[p] = "start" \/ at'[p] = at[p]) /\ op' = op /\ pending[p]
    BY <1>2, <1>7 DEF Turn!sig_usr
  <2>2. PlaceRight(p)'
    BY ONLY <1>1, <1>3, <2>1 DEF PlaceRight, HasWait, WaitAt
  <2> QED BY <2>1, <2>2 DEF Heard
<1>8. CASE Turn!Clear(p)
  <2>1. at'[p] = "unmask" /\ at[p] = "clear" /\ op' = op
    BY <1>2, <1>8 DEF Turn!Clear
  <2> QED BY <1>1, <1>2, <1>3, <2>1 DEF PlaceRight, Heard, HasWait, WaitAt
<1>9. CASE Turn!Unmask(p)
  <2>1. at[p] = "unmask" /\ at'[p] = "start" /\ op' = [op EXCEPT ![p] = @ + 1] /\ op'[p] = op[p] + 1
    BY <1>2, <1>9 DEF Turn!Unmask
  <2>2. HasWait(p) /\ op[p] = WaitAt
    BY <1>1, <2>1 DEF PlaceRight
  <2>3. PlaceRight(p)'
    BY <1>1, <1>2, <1>3, <2>1, <2>2 DEF PlaceRight, HasWait, WaitAt
  <2> QED BY <2>1, <2>2, <2>3 DEF Heard
<1> QED BY <1>4, <1>5, <1>6, <1>7, <1>8, <1>9 DEF WaitStep

LEMMA ShortWait ==
  ASSUME TurnInv, program # "devzero", NEW p \in Turn!Procs, WaitStep(p)
  PROVE  TurnInv'
<1>1. TurnTypeOK /\ HeardRight
  BY DEF TurnInv
<1>2. /\ build' = build /\ program' = program
      /\ counter' = counter /\ locks' = locks /\ failed' = failed
      /\ TurnTypeOK'
      /\ \A q \in Turn!Procs : q # p =>
           /\ op'[q] = op[q] /\ at'[q] = at[q] /\ pending'[q] = pending[q]
           /\ sigflag'[q] = sigflag[q] /\ pipe'[q] = pipe[q]
  BY <1>1, WaitChanges
<1>3. op' = op \/ (op' = [op EXCEPT ![p] = @ + 1] /\ HasWait(p) /\ op[p] = WaitAt)
  BY <1>1, WaitGoesOn
<1>4. (Heard(p)' => Heard(p)) /\ PlaceRight(p)'
  BY <1>1, WaitGoesOn
<1>5. PrintRight' /\ ProbeRight' /\ DeadlockRight' /\ DevzeroRight'
  BY <1>2, <1>3, TellOrWait
<1>6. op'[p] >= op[p] /\ op[p] \in Nat /\ op'[p] \in Nat
  BY <1>1, <1>3 DEF TurnTypeOK
<1>7. ASSUME NEW q \in Turn!Procs PROVE PlaceRight(q)' /\ (Heard(q) => op[Turn!Other(q)] > 2)'
  <2>1. PlaceRight(q) /\ (Heard(q) => op[Turn!Other(q)] > 2)
    BY <1>1 DEF HeardRight
  <2>2. CASE q = p
    BY <1>2, <1>4, <2>1, <2>2, TurnIs
  <2>3. CASE q # p
    <3>1. Turn!Other(q) = p
      BY <2>3, TurnIs
    <3>2. PlaceRight(q)' /\ (Heard(q)' => Heard(q))
      BY <1>2, <2>1, <2>3 DEF PlaceRight, Heard, HasWait, WaitAt
    <3> QED BY <1>6, <2>1, <3>1, <3>2
  <2> QED BY <2>2, <2>3
<1>8. HeardRight'
  BY <1>7 DEF HeardRight
<1> QED BY <1>2, <1>5, <1>8 DEF TurnInv

(* What a step between the calls does to the invariant of TELL and WAIT    *)
LEMMA BetweenCalls ==
  ASSUME TurnTypeOK, HeardRight, program # "devzero", NEW p \in Turn!Procs,
         build' = build, program' = program, sigflag' = sigflag, pending' = pending, pipe' = pipe,
         at'[p] \in {"start", "locked"}, op'[p] \in Nat, op'[p] >= op[p],
         HasWait(p) /\ op'[p] > WaitAt => op[p] > WaitAt,
         PlaceRight(p)',
         \A q \in Turn!Procs : q # p => op'[q] = op[q] /\ at'[q] = at[q]
  PROVE  HeardRight'
<1>1. op[p] \in Nat
  BY DEF TurnTypeOK
<1>2. Heard(p)' => Heard(p)
  BY DEF Heard, HasWait, WaitAt
<1>3. ASSUME NEW q \in Turn!Procs PROVE PlaceRight(q)' /\ (Heard(q) => op[Turn!Other(q)] > 2)'
  <2>1. PlaceRight(q) /\ (Heard(q) => op[Turn!Other(q)] > 2)
    BY DEF HeardRight
  <2>2. CASE q = p
    <3>1. PICK r \in Turn!Procs : r = Turn!Other(q) /\ r # p
      BY <2>2, TurnIs
    <3> QED BY <1>2, <2>1, <2>2, <3>1
  <2>3. CASE q # p
    <3>1. Turn!Other(q) = p
      BY <2>3, TurnIs
    <3>2. PlaceRight(q)' /\ (Heard(q)' => Heard(q))
      BY <2>1, <2>3 DEF PlaceRight, Heard, HasWait, WaitAt
    <3>3. op[p] > 2 => op'[p] > 2
      BY ONLY <1>1, op'[p] \in Nat, op'[p] >= op[p]
    <3> QED BY ONLY <2>1, <3>1, <3>2, <3>3
  <2> QED BY <2>2, <2>3
<1> QED BY <1>3 DEF HeardRight

LEMMA ShortPrint ==
  ASSUME TurnInv, program # "devzero", NEW p \in Turn!Procs, Turn!charatatime(p)
  PROVE  TurnInv'
<1>1. TurnTypeOK /\ HeardRight
  BY DEF TurnInv
<1>2. program = "tellwait2" /\ op[p] = IF p = "parent" THEN 1 ELSE 2
  BY <1>1, DoesIs DEF Turn!charatatime
<1>3. /\ op' = [op EXCEPT ![p] = @ + 1] /\ at' = [at EXCEPT ![p] = "start"]
      /\ build' = build /\ program' = program /\ sigflag' = sigflag /\ pending' = pending
      /\ blocked' = blocked /\ pipe' = pipe /\ locks' = locks /\ counter' = counter + 1
      /\ failed' = IF p = "child" /\ counter = 0 THEN failed \cup {p} ELSE failed
  BY DEF Turn!charatatime, Turn!Continue, Turn!Goto, Turn!signals
<1>4. op' \in [Turn!Procs -> Nat] /\ op'[p] = op[p] + 1 /\ at'[p] = "start"
  /\ \A q \in Turn!Procs : q # p => op'[q] = op[q] /\ at'[q] = at[q]
  BY <1>1, <1>3 DEF TurnTypeOK
<1>5. TurnTypeOK'
  <2>1. at' \in [Turn!Procs -> TurnPcs]
    BY <1>1, <1>3 DEF TurnTypeOK, TurnPcs
  <2> QED BY <1>1, <1>3, <1>4, <2>1 DEF TurnTypeOK
<1>6. HeardRight'
  <2>1. PlaceRight(p)'
    <3>1. op'[p] \in 2 .. 3 /\ program' = "tellwait2"
      BY <1>2, <1>3, <1>4
    <3> QED BY ONLY <1>4, <3>1 DEF PlaceRight
  <2>2. HasWait(p) /\ op'[p] > WaitAt => op[p] > WaitAt
    BY <1>2, <1>4, TurnIs DEF HasWait, WaitAt
  <2>3. op'[p] \in Nat /\ op'[p] >= op[p]
    BY <1>2, <1>4
  <2> QED BY <1>1, <1>3, <1>4, <2>1, <2>2, <2>3, BetweenCalls
<1>7. PrintRight'
  <2>1. counter \in Nat /\ failed = {} /\ (op["parent"] > 1 => counter > 0)
    BY <1>1, <1>2 DEF TurnInv, TurnTypeOK, PrintRight
  <2>2. p = "child" => op["parent"] > 2
    <3>1. op[p] > 1 /\ p = "child" => Heard(p)
      BY <1>2 DEF Heard, HasWait, WaitAt
    <3> QED BY <1>1, <1>2, <3>1 DEF HeardRight, Turn!Other
  <2>3. failed' = {}
    BY <1>1, <1>3, <2>1, <2>2, TurnIs DEF TurnTypeOK
  <2> QED BY <1>3, <2>1, <2>3 DEF PrintRight
<1>8. ProbeRight' /\ DeadlockRight' /\ DevzeroRight'
  BY <1>2, <1>3 DEF ProbeRight, DeadlockRight, DevzeroRight
<1> QED BY <1>5, <1>6, <1>7, <1>8 DEF TurnInv

LEMMA ShortFile ==
  ASSUME TurnInv, program # "devzero", NEW p \in Turn!Procs,
         Turn!LockFile(p) \/ Turn!Probe(p) \/ Turn!WaitPid(p)
  PROVE  TurnInv'
<1>1. TurnTypeOK /\ HeardRight /\ op \in [Turn!Procs -> Nat]
  BY DEF TurnInv, TurnTypeOK
<1>2. /\ op' = [op EXCEPT ![p] = @ + 1] /\ at' = [at EXCEPT ![p] = "start"]
      /\ build' = build /\ program' = program /\ sigflag' = sigflag /\ pending' = pending
      /\ blocked' = blocked /\ pipe' = pipe /\ counter' = counter
  BY DEF Turn!LockFile, Turn!Probe, Turn!WaitPid, Turn!Continue, Turn!Goto, Turn!signals
<1>3. program = "mandatory"
  BY <1>1, DoesIs DEF Turn!LockFile, Turn!Probe, Turn!WaitPid
<1>4. \/ p = "parent" /\ op[p] = 1 /\ locks' = [b \in 0 .. 1 |-> p] /\ failed' = failed
      \/ p = "child" /\ op[p] = 2 /\ locks' = locks
           /\ failed' = IF \E b \in 0 .. 1 : locks[b] = "parent" THEN failed ELSE failed \cup {p}
      \/ p = "parent" /\ op[p] = 3 /\ op["child"] > 2 /\ locks' = Turn!Free(p) /\ failed' = failed
  <2>1. CASE Turn!LockFile(p)
    BY <1>1, <2>1, DoesIs DEF Turn!LockFile
  <2>2. CASE Turn!Probe(p)
    BY <1>1, <2>2, DoesIs DEF Turn!Probe, Turn!Other
  <2>3. CASE Turn!WaitPid(p)
    <3>1. p = "parent" /\ op[p] = 3 /\ Turn!Other(p) = "child" /\ "child" \in Turn!Procs
      BY <1>1, <2>3, DoesIs DEF Turn!WaitPid, Turn!Other, Turn!Procs
    <3>2. Len(Turn!Script("child")) = 2
      BY <1>1, <1>3, <3>1, DoesIs
    <3>3. op["child"] > 2
      BY <2>3, <3>1, <3>2 DEF Turn!WaitPid, Turn!Ended
    <3> QED BY <2>3, <3>1, <3>3 DEF Turn!WaitPid
  <2> QED BY <2>1, <2>2, <2>3
<1>5. op' \in [Turn!Procs -> Nat] /\ op'[p] = op[p] + 1 /\ at'[p] = "start"
  /\ \A q \in Turn!Procs : q # p => op'[q] = op[q] /\ at'[q] = at[q]
  BY <1>1, <1>2 DEF TurnTypeOK
<1>6. TurnTypeOK'
  <2>1. at' \in [Turn!Procs -> TurnPcs]
    BY <1>1, <1>2 DEF TurnTypeOK, TurnPcs
  <2>2. locks' \in [0 .. 1 -> Turn!Procs \cup {"none"}] /\ failed' \subseteq Turn!Procs
    BY <1>1, <1>4 DEF TurnTypeOK, Turn!Free
  <2> QED BY <1>1, <1>2, <1>5, <2>1, <2>2 DEF TurnTypeOK
<1>7. HeardRight'
  <2>1. PlaceRight(p)'
    <3>1. op'[p] \in 2 .. 4 /\ (p # "parent" => op'[p] = 3) /\ program' = "mandatory"
      BY <1>2, <1>3, <1>4, <1>5
    <3> QED BY ONLY <1>5, <3>1 DEF PlaceRight
  <2>2. HasWait(p) /\ op'[p] > WaitAt => op[p] > WaitAt
    BY <1>3, <1>4, <1>5 DEF HasWait, WaitAt
  <2>3. op'[p] \in Nat /\ op'[p] >= op[p]
    BY <1>4, <1>5
  <2> QED BY <1>1, <1>2, <1>5, <2>1, <2>2, <2>3, BetweenCalls
<1>8. ProbeRight'
  <2>1. /\ failed = {} /\ (op["parent"] \in 2 .. 3 => locks = [b \in 0 .. 1 |-> "parent"])
        /\ (op["parent"] = 4 => op["child"] = 3)
    BY <1>3 DEF TurnInv, ProbeRight
  <2>2. \A q \in Turn!Procs : PlaceRight(q) /\ (Heard(q) => op[Turn!Other(q)] > 2)
    BY <1>1, <1>3 DEF HeardRight
  <2>3. op["parent"] \in 1 .. 4 /\ op["child"] \in 1 .. 3
    <3>1. PlaceRight("parent") /\ PlaceRight("child") /\ op["parent"] \in Nat /\ op["child"] \in Nat
      BY <1>1, <2>2, TurnIs
    <3>2. op["parent"] > 0 /\ op["parent"] <= 4
      BY ONLY <1>3, <3>1 DEF PlaceRight
    <3>3. op["child"] > 0 /\ op["child"] <= 3
      BY ONLY <1>3, <3>1 DEF PlaceRight
    <3> QED BY <3>1, <3>2, <3>3
  <2>4. op["child"] > 1 => op["parent"] > 2
    <3>1. Heard("child") => op["parent"] > 2
      BY <2>2 DEF Turn!Procs, Turn!Other
    <3> QED BY <1>3, <3>1 DEF Heard, HasWait, WaitAt
  <2>5. CASE p = "child"
    <3>1. op["parent"] = 3 /\ locks = [b \in 0 .. 1 |-> "parent"] /\ op[p] = 2
      BY <1>4, <2>1, <2>3, <2>4, <2>5
    <3>2. locks' = locks /\ failed' = failed
      BY <1>4, <2>5, <3>1
    <3>3. op'["parent"] = 3 /\ op'["child"] = 3
      BY <1>5, <2>5, <3>1, TurnIs
    <3> QED BY <2>1, <3>1, <3>2, <3>3 DEF ProbeRight
  <2>6. CASE p = "parent"
    <3>1. op'["child"] = op["child"] /\ op'["parent"] = op["parent"] + 1
      BY <1>5, <2>6, TurnIs
    <3> QED BY <1>4, <2>1, <2>3, <2>6, <3>1 DEF ProbeRight
  <2> QED BY <1>4, <2>5, <2>6
<1>9. PrintRight' /\ DeadlockRight' /\ DevzeroRight'
  BY <1>2, <1>3 DEF PrintRight, DeadlockRight, DevzeroRight
<1> QED BY <1>6, <1>7, <1>8, <1>9 DEF TurnInv

(* The bytes are locked in opposite orders.                                *)
LEMMA ShortLock ==
  ASSUME TurnInv, program # "devzero", NEW p \in Turn!Procs, Turn!lockabyte(p)
  PROVE  TurnInv'
<1>1. TurnTypeOK /\ HeardRight
  BY DEF TurnInv
<1>2. PICK r \in Turn!Procs : r = Turn!Other(p) /\ r # p /\ Turn!Other(r) = p
                            /\ \A q \in Turn!Procs : q = p \/ q = r
  BY TurnIs
<1>3. PICK own, its \in 0 .. 1 : own = OwnByte(p) /\ its = OwnByte(r) /\ own # its
                               /\ \A b \in 0 .. 1 : b = own \/ b = its
  <2>1. OwnByte(p) \in 0 .. 1 /\ OwnByte(r) \in 0 .. 1 /\ OwnByte(p) # OwnByte(r)
    BY <1>2, TurnIs DEF OwnByte
  <2> QED BY <2>1
<1>4. program = "deadlock" /\ op[p] \in {1, 4} /\ Len(Turn!Script(p)) = 4
  /\ Turn!Byte(p) = (IF op[p] = 1 THEN own ELSE its)
  BY <1>1, <1>2, <1>3, DoesIs DEF Turn!lockabyte
<1>5. op \in [Turn!Procs -> Nat] /\ locks \in [0 .. 1 -> Turn!Procs \cup {"none"}]
  /\ p # "none" /\ r # "none" /\ failed \subseteq Turn!Procs
  BY <1>1, TurnIs DEF TurnTypeOK
<1>6. PlaceRight(p) /\ PlaceRight(r) /\ (Heard(p) => op[r] > 2) /\ LocksRight(p) /\ LocksRight(r)
  BY <1>1, <1>2, <1>4 DEF TurnInv, DeadlockRight, HeardRight
<1>7. op[r] \in 1 .. 5
  <2>1. op[r] \in Nat /\ op[r] > 0 /\ op[r] <= 5
    BY ONLY r \in Turn!Procs, <1>4, <1>5, <1>6 DEF PlaceRight
  <2> QED BY <2>1
<1>8. op[p] = 4 => op[r] > 2
  BY <1>4, <1>6 DEF Heard, HasWait, WaitAt
(* Who has which byte                                                      *)
<1>9. /\ locks[own] = p <=> op[p] \in 2 .. 4
      /\ locks[own] # r /\ locks[its] # p
      /\ locks[its] = r <=> op[r] \in 2 .. 4
  <2>1. Holds(p) = (IF op[p] \in 2 .. 4 THEN {own} ELSE {})
    BY <1>3, <1>6 DEF LocksRight
  <2>2. Holds(r) = (IF op[r] \in 2 .. 4 THEN {its} ELSE {})
    BY <1>3, <1>6 DEF LocksRight
  <2>3. \A b \in 0 .. 1 : (b \in Holds(p) <=> locks[b] = p) /\ (b \in Holds(r) <=> locks[b] = r)
    BY DEF Holds
  <2> QED BY <1>3, <2>1, <2>2, <2>3
<1>10. op[p] < 5 => p \notin failed
  BY <1>6 DEF LocksRight
<1>11. (op[r] < 5 => r \notin failed) /\ (op[r] = 5 /\ op[p] < 5 => r \in failed)
  BY <1>2, <1>6 DEF LocksRight
<1>12. /\ build' = build /\ program' = program /\ sigflag' = sigflag /\ pending' = pending
       /\ blocked' = blocked /\ pipe' = pipe /\ counter' = counter
  BY DEF Turn!lockabyte, Turn!signals
(* The cases: the lock is given, is waited for, or cannot be given.        *)
<1>13. \/ /\ op' = [op EXCEPT ![p] = @ + 1] /\ at' = [at EXCEPT ![p] = "start"]
          /\ locks[Turn!Byte(p)] \in {"none", p}
          /\ locks' = IF op[p] = 4 THEN Turn!Free(p) ELSE [locks EXCEPT ![Turn!Byte(p)] = p]
          /\ failed' = failed
       \/ /\ at' = [at EXCEPT ![p] = "locked"] /\ op' = op /\ locks' = locks /\ failed' = failed
          /\ locks[Turn!Byte(p)] = r
       \/ /\ op' = [op EXCEPT ![p] = 5] /\ at' = [at EXCEPT ![p] = "start"]
          /\ locks' = Turn!Free(p) /\ failed' = failed \cup {p}
          /\ locks[Turn!Byte(p)] = r /\ at[r] = "locked"
  <2>1. Turn!Byte(p) \in 0 .. 1 /\ locks[Turn!Byte(p)] \in {"none", p, r}
    BY <1>2, <1>3, <1>4, <1>5
  <2>2. CASE locks[Turn!Byte(p)] \in {"none", p}
    BY <1>2, <1>4, <1>5, <2>2 DEF Turn!lockabyte, Turn!Continue, Turn!Goto
  <2>3. CASE locks[Turn!Byte(p)] = r /\ at[r] # "locked"
    BY <1>2, <1>4, <1>5, <2>3 DEF Turn!lockabyte, Turn!Waiting, Turn!Goto
  <2>4. CASE locks[Turn!Byte(p)] = r /\ at[r] = "locked"
    <3>1. Turn!Exit(p) /\ locks' = Turn!Free(p) /\ failed' = failed \cup {p}
      BY <1>2, <1>5, <2>4 DEF Turn!lockabyte, Turn!Waiting
    <3> QED BY <1>4, <2>4, <3>1 DEF Turn!Exit, Turn!Goto
  <2> QED BY <2>1, <2>2, <2>3, <2>4
<1>14. op[p] = 1 => locks[own] = "none"
  BY <1>2, <1>5, <1>9
<1>15. at[r] = "locked" => op[r] = 4
  BY <1>6 DEF PlaceRight
<1>16. \/ /\ op[p] = 1 /\ op' = [op EXCEPT ![p] = 2] /\ at' = [at EXCEPT ![p] = "start"]
          /\ locks' = [locks EXCEPT ![own] = p] /\ failed' = failed
       \/ /\ op[p] = 4 /\ op' = [op EXCEPT ![p] = 5] /\ at' = [at EXCEPT ![p] = "start"]
          /\ locks' = Turn!Free(p)
          /\ \/ op[r] = 5 /\ failed' = failed
             \/ op[r] = 4 /\ failed' = failed \cup {p}
       \/ /\ op[p] = 4 /\ at' = [at EXCEPT ![p] = "locked"]
          /\ op' = op /\ locks' = locks /\ failed' = failed
  <2>1. CASE op[p] = 1
    <3>1. locks[Turn!Byte(p)] = "none" /\ Turn!Byte(p) = own
      BY <1>4, <1>14, <2>1
    <3> QED BY <1>5, <1>13, <2>1, <3>1
  <2>2. CASE op[p] = 4
    <3>1. Turn!Byte(p) = its /\ locks[its] # p
      BY <1>4, <1>9, <2>2
    <3>2. CASE op[r] = 5
      <4>1. locks[its] # r
        BY <1>9, <3>2
      <4> QED BY <1>5, <1>13, <2>2, <3>1, <3>2, <4>1
    <3>3. CASE op[r] # 5
      <4>1. op[r] \in 2 .. 4 /\ locks[its] = r
        BY <1>7, <1>8, <1>9, <2>2, <3>3
      <4> QED BY <1>2, <1>5, <1>13, <1>15, <2>2, <3>1, <4>1
    <3> QED BY <3>2, <3>3
  <2> QED BY <1>4, <2>1, <2>2
<1>17. op' \in [Turn!Procs -> Nat] /\ op'[r] = op[r] /\ at'[r] = at[r] /\ at' \in [Turn!Procs -> TurnPcs]
  <2>1. at \in [Turn!Procs -> TurnPcs] /\ "start" \in TurnPcs /\ "locked" \in TurnPcs
    BY <1>1 DEF TurnTypeOK, TurnPcs
  <2>2. op' \in [Turn!Procs -> Nat] /\ op'[r] = op[r]
    BY <1>2, <1>5, <1>16
  <2>3. at' \in [Turn!Procs -> TurnPcs] /\ at'[r] = at[r]
    BY <1>2, <1>16, <2>1
  <2> QED BY <2>2, <2>3
<1>18. /\ op[p] \in Nat /\ op'[p] \in Nat
       /\ \/ op[p] = 1 /\ op'[p] = 2 /\ at'[p] = "start"
          \/ op[p] = 4 /\ op'[p] = 5 /\ at'[p] = "start"
          \/ op[p] = 4 /\ op'[p] = 4 /\ at'[p] = "locked"
  BY <1>1, <1>5, <1>16, <1>17 DEF TurnTypeOK
<1>19. TurnTypeOK'
  <2>1. locks' \in [0 .. 1 -> Turn!Procs \cup {"none"}]
    BY <1>5, <1>16 DEF Turn!Free
  <2>2. failed' \subseteq Turn!Procs
    BY <1>5, <1>16
  <2> QED BY <1>1, <1>12, <1>17, <2>1, <2>2 DEF TurnTypeOK
<1>20. HeardRight'
  <2>1. PlaceRight(p)'
    <3>1. program' = "deadlock"
      BY <1>4, <1>12
    <3> QED BY ONLY <1>18, <3>1 DEF PlaceRight
  <2>2. HasWait(p) /\ op'[p] > WaitAt => op[p] > WaitAt
    BY <1>4, <1>18 DEF WaitAt
  <2>3. op'[p] \in Nat /\ op'[p] >= op[p] /\ at'[p] \in {"start", "locked"}
    BY <1>18
  <2>4. \A q \in Turn!Procs : q # p => op'[q] = op[q] /\ at'[q] = at[q]
    BY <1>2, <1>17
  <2> QED BY <1>1, <1>12, <2>1, <2>2, <2>3, <2>4, BetweenCalls
<1>21. /\ locks'[own] = (IF op'[p] = 5 THEN "none" ELSE p) /\ locks'[its] = locks[its]
  <2>1. CASE op[p] = 1
    BY <1>3, <1>5, <1>16, <1>18, <2>1
  <2>2. CASE op[p] = 4
    <3>1. locks[own] = p /\ locks[its] # p
      BY <1>9, <2>2
    <3>2. CASE op'[p] = 5
      BY <1>3, <1>5, <1>16, <1>18, <2>2, <3>1, <3>2 DEF Turn!Free
    <3>3. CASE op'[p] = 4
      BY <1>3, <1>5, <1>16, <1>18, <2>2, <3>1, <3>3
    <3> QED BY <1>18, <2>2, <3>2, <3>3
  <2> QED BY <1>4, <2>1, <2>2
<1>22. LocksRight(p)'
  <2>1. Holds(p)' = IF op'[p] \in 2 .. 4 THEN {own} ELSE {}
    BY <1>3, <1>5, <1>9, <1>18, <1>21 DEF Holds
  <2>2. op'[p] < 5 => p \notin failed'
    <3>1. p \notin failed
      BY <1>4, <1>10
    <3>2. op'[p] < 5 => failed' = failed
      BY <1>5, <1>16, <1>18
    <3> QED BY <3>1, <3>2
  <2>3. op'[p] = 5 /\ op'[r] < 5 => p \in failed'
    BY <1>7, <1>16, <1>17, <1>18
  <2>4. op'[p] = 5 /\ op'[r] = 5 => (p \in failed' <=> r \notin failed')
    BY <1>10, <1>11, <1>16, <1>17, <1>18
  <2> QED BY <1>2, <1>3, <2>1, <2>2, <2>3, <2>4 DEF LocksRight
<1>23. LocksRight(r)'
  <2>1. Holds(r)' = IF op'[r] \in 2 .. 4 THEN {its} ELSE {}
    BY <1>2, <1>3, <1>5, <1>9, <1>17, <1>18, <1>21 DEF Holds
  <2>2. op'[r] < 5 => r \notin failed'
    BY <1>2, <1>11, <1>16, <1>17
  <2>3. op'[r] = 5 /\ op'[p] < 5 => r \in failed'
    BY <1>11, <1>16, <1>17, <1>18
  <2>4. op'[r] = 5 /\ op'[p] = 5 => (r \in failed' <=> p \notin failed')
    BY <1>10, <1>11, <1>16, <1>17, <1>18
  <2> QED BY <1>2, <1>3, <2>1, <2>2, <2>3, <2>4 DEF LocksRight
<1>24. DeadlockRight' /\ PrintRight' /\ ProbeRight' /\ DevzeroRight'
  BY <1>2, <1>4, <1>12, <1>22, <1>23 DEF DeadlockRight, PrintRight, ProbeRight, DevzeroRight
<1> QED BY <1>19, <1>20, <1>24 DEF TurnInv

(* devzero.c: three steps to a turn                                        *)
LEMMA Thirds ==
  ASSUME NEW m \in Nat
  PROVE  /\ (3 * m) \div 3 = m /\ (3 * m + 1) \div 3 = m /\ (3 * m + 2) \div 3 = m
         /\ (3 * m + 3) \div 3 = m + 1 /\ (3 * m + 4) \div 3 = m + 1 /\ (3 * m + 5) \div 3 = m + 1
         /\ (3 * m) % 3 = 0 /\ (3 * m + 1) % 3 = 1 /\ (3 * m + 2) % 3 = 2
OBVIOUS

LEMMA TurnOf ==
  ASSUME NEW n \in Nat, n > 0
  PROVE  \E m \in Nat : n = 3 * m + 1 \/ n = 3 * m + 2 \/ n = 3 * m + 3
<1>1. (n - 1) \div 3 \in Nat /\ (n - 1) = 3 * ((n - 1) \div 3) + ((n - 1) % 3) /\ (n - 1) % 3 \in 0 .. 2
  OBVIOUS
<1> WITNESS (n - 1) \div 3 \in Nat
<1> QED BY <1>1

LEMMA DevzeroDoes ==
  ASSUME TurnTypeOK, DevzeroRight, program = "devzero", NEW p \in Turn!Procs, ~Turn!Ended(p)
  PROVE  \E m \in Nat :
           \/ op[p] = 3 * m + 1 /\ Turn!Script(p)[op[p]] = IF p = "parent" THEN "update" ELSE "wait"
           \/ op[p] = 3 * m + 2 /\ Turn!Script(p)[op[p]] = IF p = "parent" THEN "tell" ELSE "update"
           \/ op[p] = 3 * m + 3 /\ Turn!Script(p)[op[p]] = IF p = "parent" THEN "wait" ELSE "tell"
<1>1. op[p] \in Nat /\ op[p] > 0
  BY DEF TurnTypeOK, DevzeroRight
<1>2. PICK k : k = 3 * (NLOOPS \div 2)
  OBVIOUS
<1>3. PICK n \in Nat : n = op[p] /\ n > 0
  BY <1>1
<1>4. k \in Nat
  <2>1. NLOOPS \div 2 \in Nat
    BY LoopsAssumption
  <2> QED BY <1>2, <2>1
<1>5. PICK turn : turn = IF p = "parent" THEN <<"update", "tell", "wait">> ELSE <<"wait", "update", "tell">>
  OBVIOUS
<1>6. Turn!Script(p) = [j \in 1 .. k |-> turn[((j - 1) % 3) + 1]]
  BY <1>2, <1>5 DEF Turn!Script, Turn!devzero
<1>7. Len(Turn!Script(p)) = k
  BY <1>4, <1>6
<1>8. Turn!Script(p)[n] = turn[((n - 1) % 3) + 1]
  <2>1. n \in 1 .. k
    BY <1>3, <1>4, <1>7 DEF Turn!Ended
  <2> QED BY <1>6, <2>1
<1>9. PICK m \in Nat : n = 3 * m + 1 \/ n = 3 * m + 2 \/ n = 3 * m + 3
  BY <1>3, TurnOf
<1>10. turn[1] = (IF p = "parent" THEN "update" ELSE "wait")
  /\ turn[2] = (IF p = "parent" THEN "tell" ELSE "update")
  /\ turn[3] = (IF p = "parent" THEN "wait" ELSE "tell")
  BY <1>5
<1>11. CASE n = 3 * m + 1
  <2>1. ((n - 1) % 3) + 1 = 1
    BY <1>11, Thirds
  <2> QED BY <1>3, <1>8, <1>10, <1>11, <2>1
<1>12. CASE n = 3 * m + 2
  <2>1. ((n - 1) % 3) + 1 = 2
    BY <1>12, Thirds
  <2> QED BY <1>3, <1>8, <1>10, <1>12, <2>1
<1>13. CASE n = 3 * m + 3
  <2>1. ((n - 1) % 3) + 1 = 3
    BY <1>13, Thirds
  <2> QED BY <1>3, <1>8, <1>10, <1>13, <2>1
<1> QED BY <1>9, <1>11, <1>12, <1>13

(* The turns: an update finds both at the same turn, the other one waiting *)
LEMMA ParentTurn ==
  ASSUME NEW m \in Nat, NEW b \in Nat, b > 0,
         m - ((b + 1) \div 3) >= 0, ((b - 1) \div 3) - m >= 0
  PROVE  b = 3 * m + 1
<1>1. PICK k \in Nat : b = 3 * k + 1 \/ b = 3 * k + 2 \/ b = 3 * k + 3
  BY TurnOf
<1>2. CASE b = 3 * k + 1
  <2>1. (b + 1) \div 3 = k /\ (b - 1) \div 3 = k
    BY <1>2, Thirds
  <2> QED BY <1>2, <2>1
<1>3. CASE b = 3 * k + 2
  <2>1. (b + 1) \div 3 = k + 1 /\ (b - 1) \div 3 = k
    BY <1>3, Thirds
  <2> QED BY <2>1
<1>4. CASE b = 3 * k + 3
  <2>1. (b + 1) \div 3 = k + 1 /\ (b - 1) \div 3 = k
    BY <1>4, Thirds
  <2> QED BY <2>1
<1> QED BY <1>1, <1>2, <1>3, <1>4

LEMMA ChildTurn ==
  ASSUME NEW m \in Nat, NEW a \in Nat, a > 0,
         (a \div 3) - (m + 1) >= 0, m - ((a - 1) \div 3) >= 0
  PROVE  a = 3 * m + 3
<1>1. PICK k \in Nat : a = 3 * k + 1 \/ a = 3 * k + 2 \/ a = 3 * k + 3
  BY TurnOf
<1>2. CASE a = 3 * k + 1
  <2>1. a \div 3 = k /\ (a - 1) \div 3 = k
    BY <1>2, Thirds
  <2> QED BY <2>1
<1>3. CASE a = 3 * k + 2
  <2>1. a \div 3 = k /\ (a - 1) \div 3 = k
    BY <1>3, Thirds
  <2> QED BY <2>1
<1>4. CASE a = 3 * k + 3
  <2>1. a \div 3 = k + 1 /\ (a - 1) \div 3 = k
    BY <1>4, Thirds
  <2> QED BY <1>4, <2>1
<1> QED BY <1>1, <1>2, <1>3, <1>4

(* What one step of either does to the counts                              *)
LEMMA ParentCounts ==
  ASSUME NEW m \in Nat, NEW b \in Nat, NEW toChild \in Nat, NEW toParent \in Nat, NEW n \in Nat, b > 0
  PROVE  /\ Counts(3 * m + 1, b, toChild, toParent, n) =>
              Counts(3 * m + 2, b, toChild, toParent, n + 1) /\ n = 2 * m
         /\ Counts(3 * m + 2, b, toChild, toParent, n) =>
              Counts(3 * m + 3, b, toChild + 1, toParent, n)
         /\ Counts(3 * m + 3, b, toChild, toParent, n) =>
              Counts(3 * m + 4, b, toChild, toParent - 1, n)
<1>1. b \div 3 \in Nat /\ (b + 1) \div 3 \in Nat /\ (b - 1) \div 3 \in Nat
  OBVIOUS
<1>2. ASSUME Counts(3 * m + 1, b, toChild, toParent, n)
      PROVE  Counts(3 * m + 2, b, toChild, toParent, n + 1) /\ n = 2 * m
  <2>1. toChild = m - ((b + 1) \div 3) /\ toParent = ((b - 1) \div 3) - m /\ n = m + (b \div 3)
    BY <1>2, Thirds DEF Counts
  <2>2. b = 3 * m + 1
    BY <1>1, <2>1, ParentTurn
  <2>3. b \div 3 = m
    BY <2>2, Thirds
  <2> QED BY <1>1, <2>1, <2>3, Thirds DEF Counts
<1>3. Counts(3 * m + 2, b, toChild, toParent, n) => Counts(3 * m + 3, b, toChild + 1, toParent, n)
  BY <1>1, Thirds DEF Counts
<1>4. Counts(3 * m + 3, b, toChild, toParent, n) => Counts(3 * m + 4, b, toChild, toParent - 1, n)
  BY <1>1, Thirds DEF Counts
<1> QED BY <1>2, <1>3, <1>4

LEMMA ChildCounts ==
  ASSUME NEW m \in Nat, NEW a \in Nat, NEW toChild \in Nat, NEW toParent \in Nat, NEW n \in Nat, a > 0
  PROVE  /\ Counts(a, 3 * m + 1, toChild, toParent, n) =>
              Counts(a, 3 * m + 2, toChild - 1, toParent, n)
         /\ Counts(a, 3 * m + 2, toChild, toParent, n) =>
              Counts(a, 3 * m + 3, toChild, toParent, n + 1) /\ n = 2 * m + 1
         /\ Counts(a, 3 * m + 3, toChild, toParent, n) =>
              Counts(a, 3 * m + 4, toChild, toParent + 1, n)
<1>1. a \div 3 \in Nat /\ (a + 1) \div 3 \in Nat /\ (a - 1) \div 3 \in Nat
  OBVIOUS
<1>2. ASSUME Counts(a, 3 * m + 2, toChild, toParent, n)
      PROVE  Counts(a, 3 * m + 3, toChild, toParent, n + 1) /\ n = 2 * m + 1
  <2>1. toChild = (a \div 3) - (m + 1) /\ toParent = m - ((a - 1) \div 3) /\ n = ((a + 1) \div 3) + m
    BY <1>2, Thirds DEF Counts
  <2>2. a = 3 * m + 3
    BY <1>1, <2>1, ChildTurn
  <2>3. (a + 1) \div 3 = m + 1
    BY <2>2, Thirds
  <2> QED BY <1>1, <2>1, <2>3, Thirds DEF Counts
<1>3. Counts(a, 3 * m + 1, toChild, toParent, n) => Counts(a, 3 * m + 2, toChild - 1, toParent, n)
  BY <1>1, Thirds DEF Counts
<1>4. Counts(a, 3 * m + 3, toChild, toParent, n) => Counts(a, 3 * m + 4, toChild, toParent + 1, n)
  BY <1>1, Thirds DEF Counts
<1> QED BY <1>2, <1>3, <1>4

LEMMA DevzeroStep ==
  ASSUME TurnInv, program = "devzero", NEW p \in Turn!Procs, Turn!Step(p)
  PROVE  TurnInv'
<1>1. TurnTypeOK /\ DevzeroRight
  BY DEF TurnInv
<1>2. /\ build = "pipes" /\ failed = {} /\ ~pending[p] /\ at[p] = "start" /\ op[p] > 0
      /\ op \in [Turn!Procs -> Nat] /\ pipe \in [Turn!Procs -> Nat] /\ counter \in Nat
  BY <1>1 DEF DevzeroRight, TurnTypeOK
<1>3. PICK m \in Nat :
        ~Turn!Ended(p) =>
          \/ op[p] = 3 * m + 1 /\ Turn!Script(p)[op[p]] = IF p = "parent" THEN "update" ELSE "wait"
          \/ op[p] = 3 * m + 2 /\ Turn!Script(p)[op[p]] = IF p = "parent" THEN "tell" ELSE "update"
          \/ op[p] = 3 * m + 3 /\ Turn!Script(p)[op[p]] = IF p = "parent" THEN "wait" ELSE "tell"
  <2>1. CASE Turn!Ended(p)
    BY <2>1
  <2>2. CASE ~Turn!Ended(p)
    BY <1>1, <2>2, DevzeroDoes
  <2> QED BY <2>1, <2>2
<1>4. /\ Turn!Does(p, "update") => op[p] = IF p = "parent" THEN 3 * m + 1 ELSE 3 * m + 2
      /\ Turn!Does(p, "tell") => op[p] = IF p = "parent" THEN 3 * m + 2 ELSE 3 * m + 3
      /\ Turn!Does(p, "wait") => op[p] = IF p = "parent" THEN 3 * m + 3 ELSE 3 * m + 1
      /\ \A what \in {"print", "lockfile", "probe", "waitpid"} : ~Turn!Does(p, what)
      /\ ~Turn!Asks(p)
  BY <1>3 DEF Turn!Does, Turn!Asks
<1>5. Turn!TellByPipe(p) \/ Turn!WaitOnPipe(p) \/ Turn!Update(p)
  <2>1. ~Turn!TellBySignal(p) /\ ~Turn!Test(p)
    BY <1>2 DEF Turn!TellBySignal, Turn!Test
  <2>2. ~Turn!Suspend(p) /\ ~Turn!sig_usr(p) /\ ~Turn!Clear(p) /\ ~Turn!Unmask(p)
    BY <1>2 DEF Turn!Suspend, Turn!sig_usr, Turn!Clear, Turn!Unmask
  <2>3. ~Turn!charatatime(p) /\ ~Turn!lockabyte(p) /\ ~Turn!LockFile(p) /\ ~Turn!Probe(p) /\ ~Turn!WaitPid(p)
    BY <1>4 DEF Turn!charatatime, Turn!lockabyte, Turn!LockFile, Turn!Probe, Turn!WaitPid
  <2> QED BY <2>1, <2>2, <2>3 DEF Turn!Step
<1>6. PICK a \in Nat, b \in Nat, toChild \in Nat, toParent \in Nat, n \in Nat :
        /\ a = op["parent"] /\ b = op["child"] /\ a > 0 /\ b > 0
        /\ toChild = pipe["child"] /\ toParent = pipe["parent"] /\ n = counter
        /\ Counts(a, b, toChild, toParent, n)
  <2>1. op["parent"] > 0 /\ op["child"] > 0 /\ op["parent"] \in Nat /\ op["child"] \in Nat
    /\ pipe["parent"] \in Nat /\ pipe["child"] \in Nat
    /\ Counts(op["parent"], op["child"], pipe["child"], pipe["parent"], counter)
    BY <1>1, <1>2, TurnIs DEF DevzeroRight
  <2> QED BY <1>2, <2>1
(* Whatever the step is, the process goes on, and the counts follow.       *)
<1>7. /\ op' = [op EXCEPT ![p] = @ + 1] /\ at' = [at EXCEPT ![p] = "start"]
      /\ build' = build /\ program' = program /\ sigflag' = sigflag /\ pending' = pending
      /\ blocked' = blocked /\ locks' = locks /\ failed' = failed
      /\ \/ Turn!TellByPipe(p) /\ pipe' = [pipe EXCEPT ![Turn!Other(p)] = @ + 1] /\ counter' = counter
         \/ Turn!WaitOnPipe(p) /\ pipe' = [pipe EXCEPT ![p] = @ - 1] /\ counter' = counter
         \/ Turn!Update(p) /\ pipe' = pipe /\ counter' = counter + 1
  <2>1. CASE Turn!TellByPipe(p)
    BY <2>1 DEF Turn!TellByPipe, Turn!Continue, Turn!Goto, Turn!signals, Turn!shared
  <2>2. CASE Turn!WaitOnPipe(p)
    BY <2>2 DEF Turn!WaitOnPipe, Turn!Continue, Turn!Goto, Turn!signals, Turn!shared
  <2>3. CASE Turn!Update(p)
    <3>1. counter = 2 * ((op[p] - 1) \div 3) + (IF p = "parent" THEN 0 ELSE 1)
      <4>1. CASE p = "parent"
        <5>1. a = 3 * m + 1 /\ op[p] = a
          BY <1>4, <1>6, <2>3, <4>1 DEF Turn!Update
        <5>2. n = 2 * m
          BY <1>6, <5>1, ParentCounts
        <5>3. (op[p] - 1) \div 3 = m
          BY <5>1, Thirds
        <5> QED BY <1>6, <4>1, <5>2, <5>3
      <4>2. CASE p = "child"
        <5>1. b = 3 * m + 2 /\ op[p] = b
          BY <1>4, <1>6, <2>3, <4>2 DEF Turn!Update
        <5>2. n = 2 * m + 1
          BY <1>6, <5>1, ChildCounts
        <5>3. (op[p] - 1) \div 3 = m
          BY <5>1, Thirds
        <5> QED BY <1>6, <4>2, <5>2, <5>3
      <4> QED BY <4>1, <4>2, TurnIs
    <3>2. Turn!Continue(p) /\ UNCHANGED failed
      BY <2>3, <3>1 DEF Turn!Update
    <3> QED BY <2>3, <3>2 DEF Turn!Update, Turn!Continue, Turn!Goto, Turn!signals
  <2> QED BY <1>5, <2>1, <2>2, <2>3
<1>8. TurnTypeOK'
  <2>1. op' \in [Turn!Procs -> Nat]
    BY <1>2, <1>7
  <2>2. at' \in [Turn!Procs -> TurnPcs]
    BY <1>1, <1>7 DEF TurnTypeOK, TurnPcs
  <2>3. counter' \in Nat /\ pipe' \in [Turn!Procs -> Nat]
    <3>1. CASE Turn!WaitOnPipe(p)
      <4>1. pipe[p] > 0 /\ pipe' = [pipe EXCEPT ![p] = @ - 1] /\ counter' = counter
        BY <3>1 DEF Turn!WaitOnPipe, Turn!shared
      <4> QED BY <1>2, <4>1
    <3>2. CASE ~Turn!WaitOnPipe(p)
      BY <1>2, <1>7, <3>2
    <3> QED BY <3>1, <3>2
  <2> QED BY <1>1, <1>7, <2>1, <2>2, <2>3 DEF TurnTypeOK
<1>9. Counts(op["parent"], op["child"], pipe["child"], pipe["parent"], counter)'
  <2>1. CASE p = "parent"
    <3>1. op'["parent"] = a + 1 /\ op'["child"] = b /\ Turn!Other(p) = "child"
      BY <1>2, <1>6, <1>7, <2>1, TurnIs DEF Turn!Other
    <3>2. CASE Turn!TellByPipe(p)
      <4>1. a = 3 * m + 2
        BY <1>4, <1>6, <2>1, <3>2 DEF Turn!TellByPipe
      <4>2. pipe'["child"] = toChild + 1 /\ pipe'["parent"] = toParent /\ counter' = n
        <5>1. pipe' = [pipe EXCEPT !["child"] = @ + 1] /\ counter' = counter
          BY <3>1, <3>2 DEF Turn!TellByPipe, Turn!shared
        <5>2. pipe \in [{"parent", "child"} -> Nat]
          BY <1>2, TurnIs
        <5> QED BY <1>6, <5>1, <5>2
      <4>3. Counts(3 * m + 3, b, toChild + 1, toParent, n)
        <5>1. Counts(3 * m + 2, b, toChild, toParent, n) /\ b > 0
          BY <1>6, <4>1, Zenon
        <5> QED BY <5>1, ParentCounts, Zenon
      <4>4. a + 1 = 3 * m + 3
        BY <4>1
      <4> QED BY <3>1, <4>2, <4>3, <4>4
    <3>3. CASE Turn!WaitOnPipe(p)
      <4>1. a = 3 * m + 3
        BY <1>4, <1>6, <2>1, <3>3 DEF Turn!WaitOnPipe
      <4>2. pipe'["child"] = toChild /\ pipe'["parent"] = toParent - 1 /\ counter' = n
        BY <1>2, <1>6, <2>1, <3>3, TurnIs DEF Turn!WaitOnPipe, Turn!shared
      <4>3. Counts(3 * m + 4, b, toChild, toParent - 1, n)
        BY <1>6, <4>1, ParentCounts
      <4>4. a + 1 = 3 * m + 4
        BY <4>1
      <4> QED BY <3>1, <4>2, <4>3, <4>4
    <3>4. CASE Turn!Update(p)
      <4>1. a = 3 * m + 1
        BY <1>4, <1>6, <2>1, <3>4 DEF Turn!Update
      <4>2. pipe'["child"] = toChild /\ pipe'["parent"] = toParent /\ counter' = n + 1
        BY <1>6, <3>4 DEF Turn!Update
      <4>3. Counts(3 * m + 2, b, toChild, toParent, n + 1)
        BY <1>6, <4>1, ParentCounts
      <4>4. a + 1 = 3 * m + 2
        BY <4>1
      <4> QED BY <3>1, <4>2, <4>3, <4>4
    <3> QED BY <1>5, <3>2, <3>3, <3>4
  <2>2. CASE p = "child"
    <3>1. op'["parent"] = a /\ op'["child"] = b + 1 /\ Turn!Other(p) = "parent"
      BY <1>2, <1>6, <1>7, <2>2, TurnIs DEF Turn!Other
    <3>2. CASE Turn!TellByPipe(p)
      <4>1. b = 3 * m + 3
        BY <1>4, <1>6, <2>2, <3>2 DEF Turn!TellByPipe
      <4>2. pipe'["child"] = toChild /\ pipe'["parent"] = toParent + 1 /\ counter' = n
        <5>1. pipe' = [pipe EXCEPT !["parent"] = @ + 1] /\ counter' = counter
          BY <3>1, <3>2 DEF Turn!TellByPipe, Turn!shared
        <5>2. pipe \in [{"parent", "child"} -> Nat]
          BY <1>2, TurnIs
        <5> QED BY <1>6, <5>1, <5>2
      <4>3. Counts(a, 3 * m + 4, toChild, toParent + 1, n)
        <5>1. Counts(a, 3 * m + 3, toChild, toParent, n) /\ a > 0
          BY <1>6, <4>1, Zenon
        <5> QED BY <5>1, ChildCounts, Zenon
      <4>4. b + 1 = 3 * m + 4
        BY <4>1
      <4> QED BY <3>1, <4>2, <4>3, <4>4
    <3>3. CASE Turn!WaitOnPipe(p)
      <4>1. b = 3 * m + 1
        BY <1>4, <1>6, <2>2, <3>3 DEF Turn!WaitOnPipe
      <4>2. pipe'["child"] = toChild - 1 /\ pipe'["parent"] = toParent /\ counter' = n
        BY <1>2, <1>6, <2>2, <3>3, TurnIs DEF Turn!WaitOnPipe, Turn!shared
      <4>3. Counts(a, 3 * m + 2, toChild - 1, toParent, n)
        BY <1>6, <4>1, ChildCounts
      <4>4. b + 1 = 3 * m + 2
        BY <4>1
      <4> QED BY <3>1, <4>2, <4>3, <4>4
    <3>4. CASE Turn!Update(p)
      <4>1. b = 3 * m + 2
        BY <1>4, <1>6, <2>2, <3>4 DEF Turn!Update
      <4>2. pipe'["child"] = toChild /\ pipe'["parent"] = toParent /\ counter' = n + 1
        BY <1>6, <3>4 DEF Turn!Update
      <4>3. Counts(a, 3 * m + 3, toChild, toParent, n + 1)
        BY <1>6, <4>1, ChildCounts
      <4>4. b + 1 = 3 * m + 3
        BY <4>1
      <4> QED BY <3>1, <4>2, <4>3, <4>4
    <3> QED BY <1>5, <3>2, <3>3, <3>4
  <2> QED BY <2>1, <2>2, TurnIs
<1>10. ASSUME NEW q \in Turn!Procs PROVE at'[q] = "start" /\ ~pending'[q] /\ op'[q] > 0
  <2>1. at[q] = "start" /\ ~pending[q] /\ op[q] > 0 /\ op[q] \in Nat /\ at \in [Turn!Procs -> TurnPcs]
    BY <1>1 DEF DevzeroRight, TurnTypeOK
  <2> QED BY <1>2, <1>7, <2>1
<1>11. DevzeroRight'
  BY <1>2, <1>7, <1>9, <1>10 DEF DevzeroRight
<1>12. HeardRight' /\ PrintRight' /\ ProbeRight' /\ DeadlockRight'
  BY <1>7 DEF HeardRight, PrintRight, ProbeRight, DeadlockRight
<1> QED BY <1>8, <1>11, <1>12 DEF TurnInv

LEMMA TurnNext == TurnInv /\ [MCNext]_all => TurnInv'
<1> SUFFICES ASSUME TurnInv, [MCNext]_all PROVE TurnInv'
  OBVIOUS
<1>1. CASE UNCHANGED turnVars
  BY <1>1 DEF turnVars, TurnInv, TurnTypeOK, HeardRight, PlaceRight, Heard, HasWait, WaitAt,
    PrintRight, ProbeRight, DeadlockRight, LocksRight, Holds, DevzeroRight
<1>2. ASSUME NEW p \in Turn!Procs, Turn!Step(p) PROVE TurnInv'
  <2>1. CASE program = "devzero"
    BY <1>2, <2>1, DevzeroStep
  <2>2. CASE program # "devzero"
    <3>1. ~Turn!Update(p)
      BY <2>2, DoesIs DEF Turn!Update, TurnInv
    <3> QED
      BY <1>2, <2>2, <3>1, ShortTell, ShortWait, ShortPrint, ShortFile, ShortLock DEF Turn!Step, WaitStep
  <2> QED BY <2>1, <2>2
<1> QED BY <1>1, <1>2 DEF Turn!Next, MCNext, Runs, all

(* In each program the two processes take turns, with signals and with     *)
(* pipes: every update finds the count it expects however many turns there *)
(* are, nothing is written before its turn, the child finds the lock, and  *)
(* exactly one of two that wait for each other is told of it.              *)
THEOREM TurnsAreKept == MCSpec => []TurnsKept
<1>1. MCInit => TurnInv
  BY TurnInit DEF MCInit
<1>2. TurnInv => TurnsKept
  <2> SUFFICES ASSUME TurnInv PROVE TurnsKept
    OBVIOUS
  <2>1. ASSUME program # "deadlock" PROVE failed = {}
    <3>1. program \in {"devzero", "tellwait2", "mandatory"}
      BY <2>1 DEF TurnInv, TurnTypeOK, Turns, TurnPrograms
    <3> QED BY <3>1 DEF TurnInv, DevzeroRight, PrintRight, ProbeRight
  <2>2. ASSUME program = "deadlock", Turn!AllEnded PROVE Turn!Cardinality(failed) = 1
    <3>1. ASSUME NEW p \in Turn!Procs PROVE op[p] = 5 /\ LocksRight(p)
      <4>1. Len(Turn!Script(p)) = 4
        BY <2>2, DoesIs DEF TurnInv
      <4>2. op[p] \in Nat /\ op[p] > 4
        BY <2>2, <4>1 DEF Turn!AllEnded, Turn!Ended, TurnInv, TurnTypeOK
      <4>3. PlaceRight(p) /\ LocksRight(p)
        BY <2>2 DEF TurnInv, HeardRight, DeadlockRight
      <4>4. op[p] <= 5
        BY <2>2, <4>3 DEF PlaceRight
      <4> QED BY <4>2, <4>3, <4>4
    <3>2. "parent" \in failed <=> "child" \notin failed
      BY <3>1, TurnIs DEF LocksRight, Turn!Other
    <3>3. failed = {"parent"} \/ failed = {"child"}
      <4>1. failed \subseteq {"parent", "child"}
        BY TurnIs DEF TurnInv, TurnTypeOK
      <4>2. CASE "parent" \in failed
        BY <3>2, <4>1, <4>2
      <4>3. CASE "parent" \notin failed
        BY <3>2, <4>1, <4>3
      <4> QED BY <4>2, <4>3
    <3>4. Cardinality(failed) = 1
      BY <3>3, FS_Singleton
    <3> QED BY <3>4 DEF Cardinality, Turn!Cardinality
  <2> QED BY <2>1, <2>2 DEF TurnsKept, Turn!TurnsKept
<1> QED BY <1>1, <1>2, TurnNext, PTL DEF MCSpec

-----------------------------------------------------------------------------
(* The shell.  Every descriptor table it has is a row: 0, 1, and the four  *)
(* descriptors after 2 that a saved terminal or two pipes take.            *)
Row(r0, r1, r3, r4, r5, r6) ==
  [n \in Fds |-> IF n = 0 THEN r0 ELSE IF n = 1 THEN r1 ELSE IF n = 2 THEN Tty
                 ELSE IF n = 3 THEN r3 ELSE IF n = 4 THEN r4 ELSE IF n = 5 THEN r5
                 ELSE IF n = 6 THEN r6 ELSE Closed]

LEMMA EndsDiffer ==
  /\ Tty # Closed
  /\ \A k : /\ ReadEnd(k) \notin {Tty, Closed} /\ WriteEnd(k) \notin {Tty, Closed}
            /\ InFile(k) \notin {Tty, Closed} /\ OutFile(k) \notin {Tty, Closed}
  /\ \A k, m : /\ ReadEnd(k) # WriteEnd(m) /\ (ReadEnd(k) = ReadEnd(m) => k = m)
               /\ (WriteEnd(k) = WriteEnd(m) => k = m)
               /\ InFile(k) \notin {ReadEnd(m), WriteEnd(m)}
BY DEF Tty, Closed, ReadEnd, WriteEnd, InFile, OutFile

LEMMA RowIs ==
  ASSUME NEW r0, NEW r1, NEW r3, NEW r4, NEW r5, NEW r6, NEW t, t = Row(r0, r1, r3, r4, r5, r6)
  PROVE  /\ t = [n \in Fds |-> t[n]]
         /\ t[0] = r0 /\ t[1] = r1 /\ t[2] = Tty /\ t[3] = r3 /\ t[4] = r4 /\ t[5] = r5 /\ t[6] = r6
         /\ t[7] = Closed /\ t[8] = Closed
BY DEF Row, Fds

LEMMA RowSame ==
  ASSUME NEW t, NEW r0, NEW r1, NEW r3, NEW r4, NEW r5, NEW r6,
         t = [n \in Fds |-> t[n]],
         t[0] = r0, t[1] = r1, t[2] = Tty, t[3] = r3, t[4] = r4, t[5] = r5, t[6] = r6,
         t[7] = Closed, t[8] = Closed
  PROVE  t = Row(r0, r1, r3, r4, r5, r6)
<1>1. ASSUME NEW n \in Fds PROVE t[n] = Row(r0, r1, r3, r4, r5, r6)[n]
  BY <1>1 DEF Row, Fds
<1> QED BY <1>1 DEF Row

LEMMA LowestFdIs ==
  ASSUME NEW t, NEW n \in Fds, t[n] = Closed, \A g \in Fds : g < n => t[g] # Closed
  PROVE  LowestFd(t) = n
<1>1. n \in {g \in Fds : t[g] = Closed} /\ \A g \in {m \in Fds : t[m] = Closed} : n <= g
  BY DEF Fds
<1>2. \A x \in {g \in Fds : t[g] = Closed} :
        (\A g \in {m \in Fds : t[m] = Closed} : x <= g) => x = n
  BY <1>1 DEF Fds
<1> QED BY <1>1, <1>2 DEF LowestFd, Min

LEMMA RowOpen ==
  ASSUME NEW r0, NEW r1, NEW r3, NEW r4, NEW r5, NEW r6, NEW e, NEW t,
         t = Row(r0, r1, r3, r4, r5, r6), r0 # Closed, r1 # Closed
  PROVE  /\ r3 = Closed => LowestFd(t) = 3 /\ OpenFd(t, e) = Row(r0, r1, e, r4, r5, r6)
         /\ r3 # Closed /\ r4 = Closed => LowestFd(t) = 4 /\ OpenFd(t, e) = Row(r0, r1, r3, e, r5, r6)
         /\ r3 # Closed /\ r4 # Closed /\ r5 = Closed =>
              LowestFd(t) = 5 /\ OpenFd(t, e) = Row(r0, r1, r3, r4, e, r6)
         /\ r3 # Closed /\ r4 # Closed /\ r5 # Closed /\ r6 = Closed =>
              LowestFd(t) = 6 /\ OpenFd(t, e) = Row(r0, r1, r3, r4, r5, e)
<1>1. /\ t = [n \in Fds |-> t[n]]
      /\ t[0] = r0 /\ t[1] = r1 /\ t[2] = Tty /\ t[3] = r3 /\ t[4] = r4 /\ t[5] = r5 /\ t[6] = r6
      /\ t[7] = Closed /\ t[8] = Closed
  BY RowIs
<1>2. \A g \in Fds : g < 3 => t[g] # Closed
  BY <1>1, EndsDiffer DEF Fds
<1>3. ASSUME NEW n \in 3 .. 6, t[n] = Closed, \A g \in 3 .. 6 : g < n => t[g] # Closed
      PROVE  LowestFd(t) = n
  <2>1. n \in Fds /\ \A g \in Fds : g < n => t[g] # Closed
    BY <1>2, <1>3 DEF Fds
  <2> QED BY <1>3, <2>1, LowestFdIs
<1>4. ASSUME NEW n \in 3 .. 6, LowestFd(t) = n
      PROVE  /\ OpenFd(t, e) = [g \in Fds |-> OpenFd(t, e)[g]]
             /\ OpenFd(t, e)[n] = e /\ \A g \in Fds : g # n => OpenFd(t, e)[g] = t[g]
  <2>1. n \in Fds
    BY DEF Fds
  <2> QED BY <1>1, <1>4, <2>1 DEF OpenFd
<1>5. CASE r3 = Closed
  <2>1. LowestFd(t) = 3
    BY <1>1, <1>3, <1>5
  <2>2. OpenFd(t, e) = Row(r0, r1, e, r4, r5, r6)
    BY <1>1, <1>4, <2>1, RowSame DEF Fds
  <2> QED BY <1>5, <2>1, <2>2
<1>6. CASE r3 # Closed /\ r4 = Closed
  <2>1. LowestFd(t) = 4
    BY <1>1, <1>3, <1>6
  <2>2. OpenFd(t, e) = Row(r0, r1, r3, e, r5, r6)
    BY <1>1, <1>4, <2>1, RowSame DEF Fds
  <2> QED BY <1>6, <2>1, <2>2
<1>7. CASE r3 # Closed /\ r4 # Closed /\ r5 = Closed
  <2>1. LowestFd(t) = 5
    BY <1>1, <1>3, <1>7
  <2>2. OpenFd(t, e) = Row(r0, r1, r3, r4, e, r6)
    BY <1>1, <1>4, <2>1, RowSame DEF Fds
  <2> QED BY <1>7, <2>1, <2>2
<1>8. CASE r3 # Closed /\ r4 # Closed /\ r5 # Closed /\ r6 = Closed
  <2>1. LowestFd(t) = 6
    BY <1>1, <1>3, <1>8
  <2>2. OpenFd(t, e) = Row(r0, r1, r3, r4, r5, e)
    BY <1>1, <1>4, <2>1, RowSame DEF Fds
  <2> QED BY <1>8, <2>1, <2>2
<1> QED BY <1>5, <1>6, <1>7, <1>8

(* dup2 onto 0 and 1, and close of the descriptors after 2                 *)
LEMMA RowClose ==
  ASSUME NEW r0, NEW r1, NEW r3, NEW r4, NEW r5, NEW r6, NEW t, t = Row(r0, r1, r3, r4, r5, r6)
  PROVE  /\ Close(t, 3) = Row(r0, r1, Closed, r4, r5, r6)
         /\ Close(t, 4) = Row(r0, r1, r3, Closed, r5, r6)
         /\ Close(t, 5) = Row(r0, r1, r3, r4, Closed, r6)
         /\ Close(t, 6) = Row(r0, r1, r3, r4, r5, Closed)
<1>1. /\ t = [g \in Fds |-> t[g]]
      /\ t[0] = r0 /\ t[1] = r1 /\ t[2] = Tty /\ t[3] = r3 /\ t[4] = r4 /\ t[5] = r5 /\ t[6] = r6
      /\ t[7] = Closed /\ t[8] = Closed
  BY RowIs
<1>2. Close(t, 3) = Row(r0, r1, Closed, r4, r5, r6)
  <2>1. PICK u : u = Close(t, 3)
    OBVIOUS
  <2>2. 3 \in Fds
    BY DEF Fds
  <2>3. u = [g \in Fds |-> IF g = 3 THEN Closed ELSE t[g]]
    BY ONLY <1>1, <2>1, <2>2 DEF Close
  <2>4. u = [g \in Fds |-> u[g]] /\ u[3] = Closed /\ \A g \in Fds : g # 3 => u[g] = t[g]
    BY ONLY <2>2, <2>3
  <2> QED BY ONLY <1>1, <2>1, <2>4, RowSame DEF Fds
<1>3. Close(t, 4) = Row(r0, r1, r3, Closed, r5, r6)
  <2>1. PICK u : u = Close(t, 4)
    OBVIOUS
  <2>2. 4 \in Fds
    BY DEF Fds
  <2>3. u = [g \in Fds |-> IF g = 4 THEN Closed ELSE t[g]]
    BY ONLY <1>1, <2>1, <2>2 DEF Close
  <2>4. u = [g \in Fds |-> u[g]] /\ u[4] = Closed /\ \A g \in Fds : g # 4 => u[g] = t[g]
    BY ONLY <2>2, <2>3
  <2> QED BY ONLY <1>1, <2>1, <2>4, RowSame DEF Fds
<1>4. Close(t, 5) = Row(r0, r1, r3, r4, Closed, r6)
  <2>1. PICK u : u = Close(t, 5)
    OBVIOUS
  <2>2. 5 \in Fds
    BY DEF Fds
  <2>3. u = [g \in Fds |-> IF g = 5 THEN Closed ELSE t[g]]
    BY ONLY <1>1, <2>1, <2>2 DEF Close
  <2>4. u = [g \in Fds |-> u[g]] /\ u[5] = Closed /\ \A g \in Fds : g # 5 => u[g] = t[g]
    BY ONLY <2>2, <2>3
  <2> QED BY ONLY <1>1, <2>1, <2>4, RowSame DEF Fds
<1>5. Close(t, 6) = Row(r0, r1, r3, r4, r5, Closed)
  <2>1. PICK u : u = Close(t, 6)
    OBVIOUS
  <2>2. 6 \in Fds
    BY DEF Fds
  <2>3. u = [g \in Fds |-> IF g = 6 THEN Closed ELSE t[g]]
    BY ONLY <1>1, <2>1, <2>2 DEF Close
  <2>4. u = [g \in Fds |-> u[g]] /\ u[6] = Closed /\ \A g \in Fds : g # 6 => u[g] = t[g]
    BY ONLY <2>2, <2>3
  <2> QED BY ONLY <1>1, <2>1, <2>4, RowSame DEF Fds
<1> QED BY <1>2, <1>3, <1>4, <1>5

LEMMA RowDup ==
  ASSUME NEW r0, NEW r1, NEW r3, NEW r4, NEW r5, NEW r6, NEW t, t = Row(r0, r1, r3, r4, r5, r6), NEW n
  PROVE  /\ Dup2(t, n, 0) = Row(t[n], r1, r3, r4, r5, r6)
         /\ Dup2(t, n, 1) = Row(r0, t[n], r3, r4, r5, r6)
<1>1. /\ t = [g \in Fds |-> t[g]]
      /\ t[0] = r0 /\ t[1] = r1 /\ t[2] = Tty /\ t[3] = r3 /\ t[4] = r4 /\ t[5] = r5 /\ t[6] = r6
      /\ t[7] = Closed /\ t[8] = Closed
  BY RowIs
<1>2. Dup2(t, n, 0) = Row(t[n], r1, r3, r4, r5, r6)
  <2>1. PICK u, e : u = Dup2(t, n, 0) /\ e = t[n]
    OBVIOUS
  <2>2. 0 \in Fds
    BY DEF Fds
  <2>3. u = [g \in Fds |-> IF g = 0 THEN e ELSE t[g]]
    BY ONLY <1>1, <2>1, <2>2 DEF Dup2
  <2>4. u = [g \in Fds |-> u[g]] /\ u[0] = e /\ \A g \in Fds : g # 0 => u[g] = t[g]
    BY ONLY <2>2, <2>3
  <2>5. u = Row(e, r1, r3, r4, r5, r6)
    BY ONLY <1>1, <2>4, RowSame DEF Fds
  <2> QED BY ONLY <2>1, <2>5
<1>3. Dup2(t, n, 1) = Row(r0, t[n], r3, r4, r5, r6)
  <2>1. PICK u, e : u = Dup2(t, n, 1) /\ e = t[n]
    OBVIOUS
  <2>2. 1 \in Fds
    BY DEF Fds
  <2>3. u = [g \in Fds |-> IF g = 1 THEN e ELSE t[g]]
    BY ONLY <1>1, <2>1, <2>2 DEF Dup2
  <2>4. u = [g \in Fds |-> u[g]] /\ u[1] = e /\ \A g \in Fds : g # 1 => u[g] = t[g]
    BY ONLY <2>2, <2>3
  <2>5. u = Row(r0, e, r3, r4, r5, r6)
    BY ONLY <1>1, <2>4, RowSame DEF Fds
  <2> QED BY ONLY <2>1, <2>5
<1> QED BY <1>2, <1>3

(* The pipes are at descriptors 3 and 4, and 5 and 6, in turn: the shell   *)
(* has both ends of the last one, and while it starts the next command     *)
(* those of the next pipe too.                                             *)
R(k) == IF k = 0 THEN Closed ELSE ReadEnd(k)
W(k) == IF k = 0 THEN Closed ELSE WriteEnd(k)
Slots(x, y) == Row(Tty, Tty, R(x), W(x), R(y), W(y))
Odd(k) == k % 2 = 1
Held(k) == IF Odd(k) THEN Slots(k, 0) ELSE Slots(0, k)
Both(k) == IF Odd(k) THEN Slots(k, k - 1) ELSE Slots(k - 1, k)
EndsOf(k) == IF Odd(k) THEN <<3, 4>> ELSE <<5, 6>>
Plain(a, b) == Row(a, b, Closed, Closed, Closed, Closed)

LEMMA OddIs == ASSUME NEW k \in Nat, k > 0 PROVE (Odd(k) <=> ~Odd(k - 1)) /\ k - 1 \in Nat /\ ~Odd(0)
BY DEF Odd

LEMMA TerminalIs == Terminal = Plain(Tty, Tty) /\ Held(0) = Terminal /\ Both(1) = Held(1)
<1>1. Terminal = Plain(Tty, Tty)
  BY DEF Terminal, Plain, Row, Fds
<1>2. Held(0) = Plain(Tty, Tty)
  BY OddIs DEF Held, Odd, Slots, R, W, Plain
<1>3. Odd(1)
  BY DEF Odd
<1>4. Both(1) = Held(1)
  BY <1>3 DEF Both, Held
<1> QED BY <1>1, <1>2, <1>4

(* pipe(pipefd)                                                            *)
LEMMA PipeMade ==
  ASSUME NEW k \in Nat, k > 0, NEW t, t = OpenFd(Held(k - 1), ReadEnd(k))
  PROVE  /\ LowestFd(Held(k - 1)) = EndsOf(k)[1] /\ LowestFd(t) = EndsOf(k)[2]
         /\ OpenFd(t, WriteEnd(k)) = Both(k)
<1>1. Tty # Closed /\ ReadEnd(k) # Closed /\ R(0) = Closed /\ W(0) = Closed
  /\ R(k) = ReadEnd(k) /\ W(k) = WriteEnd(k)
  BY EndsDiffer DEF R, W
<1>2. PICK j \in Nat : j = k - 1
  BY OddIs
<1>3. CASE Odd(k)
  <2>1. Held(j) = Row(Tty, Tty, Closed, Closed, R(j), W(j)) /\ EndsOf(k)[1] = 3 /\ EndsOf(k)[2] = 4
    BY <1>1, <1>2, <1>3, OddIs DEF Held, EndsOf, Slots
  <2>2. LowestFd(Held(j)) = 3 /\ t = Row(Tty, Tty, ReadEnd(k), Closed, R(j), W(j))
    BY <1>1, <1>2, <2>1, RowOpen
  <2>3. LowestFd(t) = 4 /\ OpenFd(t, WriteEnd(k)) = Row(Tty, Tty, ReadEnd(k), WriteEnd(k), R(j), W(j))
    BY <1>1, <2>2, RowOpen
  <2> QED BY <1>1, <1>2, <1>3, <2>1, <2>2, <2>3 DEF Both, Slots
<1>4. CASE ~Odd(k)
  <2>1. j # 0
    BY <1>2, <1>4 DEF Odd
  <2>2. R(j) # Closed /\ W(j) # Closed
    BY <2>1, EndsDiffer DEF R, W
  <2>3. Held(j) = Row(Tty, Tty, R(j), W(j), Closed, Closed) /\ EndsOf(k)[1] = 5 /\ EndsOf(k)[2] = 6
    BY <1>1, <1>2, <1>4, OddIs DEF Held, EndsOf, Slots
  <2>4. LowestFd(Held(j)) = 5 /\ t = Row(Tty, Tty, R(j), W(j), ReadEnd(k), Closed)
    BY <1>1, <1>2, <2>2, <2>3, RowOpen
  <2>5. LowestFd(t) = 6 /\ OpenFd(t, WriteEnd(k)) = Row(Tty, Tty, R(j), W(j), ReadEnd(k), WriteEnd(k))
    BY <1>1, <2>2, <2>4, RowOpen
  <2> QED BY <1>1, <1>2, <1>4, <2>3, <2>4, <2>5 DEF Both, Slots
<1> QED BY <1>3, <1>4

(* Both ends of a pipe are closed.                                         *)
LEMMA SlotClosed ==
  ASSUME NEW k \in Nat, k > 0, NEW x, NEW y, NEW t
  PROVE  /\ Odd(k) /\ t = Slots(k, y) => Close(Close(t, EndsOf(k)[1]), EndsOf(k)[2]) = Slots(0, y)
         /\ ~Odd(k) /\ t = Slots(x, k) => Close(Close(t, EndsOf(k)[1]), EndsOf(k)[2]) = Slots(x, 0)
<1>1. R(0) = Closed /\ W(0) = Closed
  BY DEF R, W
<1>2. ASSUME Odd(k), t = Slots(k, y)
      PROVE  Close(Close(t, EndsOf(k)[1]), EndsOf(k)[2]) = Slots(0, y)
  <2>1. EndsOf(k)[1] = 3 /\ EndsOf(k)[2] = 4
    BY <1>2 DEF EndsOf
  <2>2. Close(t, 3) = Row(Tty, Tty, Closed, W(k), R(y), W(y))
    BY <1>2, RowClose DEF Slots
  <2>3. Close(Close(t, 3), 4) = Row(Tty, Tty, Closed, Closed, R(y), W(y))
    BY <2>2, RowClose
  <2> QED BY <1>1, <2>1, <2>3 DEF Slots
<1>3. ASSUME ~Odd(k), t = Slots(x, k)
      PROVE  Close(Close(t, EndsOf(k)[1]), EndsOf(k)[2]) = Slots(x, 0)
  <2>1. EndsOf(k)[1] = 5 /\ EndsOf(k)[2] = 6
    BY <1>3 DEF EndsOf
  <2>2. Close(t, 5) = Row(Tty, Tty, R(x), W(x), Closed, W(k))
    BY <1>3, RowClose DEF Slots
  <2>3. Close(Close(t, 5), 6) = Row(Tty, Tty, R(x), W(x), Closed, Closed)
    BY <2>2, RowClose
  <2> QED BY <1>1, <2>1, <2>3 DEF Slots
<1> QED BY <1>2, <1>3

LEMMA PreviousClosed ==
  ASSUME NEW k \in Nat, k > 1, NEW e, e = EndsOf(k - 1)
  PROVE  /\ Close(Close(Both(k), e[1]), e[2]) = Held(k)
         /\ Close(Close(Held(k - 1), e[1]), e[2]) = Terminal
<1>1. PICK j \in Nat : j = k - 1 /\ j > 0
  OBVIOUS
<1>2. Odd(k) <=> ~Odd(j)
  BY <1>1, OddIs
<1>3. Slots(0, 0) = Terminal
  BY TerminalIs, OddIs DEF Held
<1>4. CASE Odd(k)
  <2>1. Both(k) = Slots(k, j) /\ Held(j) = Slots(0, j) /\ Held(k) = Slots(k, 0)
    BY <1>1, <1>2, <1>4 DEF Both, Held
  <2> QED BY <1>1, <1>2, <1>3, <1>4, <2>1, SlotClosed
<1>5. CASE ~Odd(k)
  <2>1. Both(k) = Slots(j, k) /\ Held(j) = Slots(j, 0) /\ Held(k) = Slots(0, k)
    BY <1>1, <1>2, <1>5 DEF Both, Held
  <2> QED BY <1>1, <1>2, <1>3, <1>5, <2>1, SlotClosed
<1> QED BY <1>4, <1>5

(* What the child of a stage makes of the table it is born with            *)
LEMMA RowAttach ==
  ASSUME NEW r0, NEW r1, NEW r3, NEW r4, NEW r5, NEW r6, NEW t, t = Row(r0, r1, r3, r4, r5, r6)
  PROVE  /\ Attach(t, <<3, 4>>, 1, 0) = Row(r3, r1, Closed, Closed, r5, r6)
         /\ Attach(t, <<3, 4>>, 2, 1) = Row(r0, r4, Closed, Closed, r5, r6)
         /\ Attach(t, <<5, 6>>, 1, 0) = Row(r5, r1, r3, r4, Closed, Closed)
         /\ Attach(t, <<5, 6>>, 2, 1) = Row(r0, r6, r3, r4, Closed, Closed)
<1>1. t[3] = r3 /\ t[4] = r4 /\ t[5] = r5 /\ t[6] = r6
  BY RowIs
<1>2. Attach(t, <<3, 4>>, 1, 0) = Row(r3, r1, Closed, Closed, r5, r6)
  <2>1. Dup2(t, 3, 0) = Row(r3, r1, r3, r4, r5, r6)
    BY <1>1, RowDup
  <2>2. Close(Dup2(t, 3, 0), 3) = Row(r3, r1, Closed, r4, r5, r6)
    BY <2>1, RowClose
  <2>3. Close(Close(Dup2(t, 3, 0), 3), 4) = Row(r3, r1, Closed, Closed, r5, r6)
    BY <2>2, RowClose
  <2> QED BY <2>3 DEF Attach
<1>3. Attach(t, <<3, 4>>, 2, 1) = Row(r0, r4, Closed, Closed, r5, r6)
  <2>1. Dup2(t, 4, 1) = Row(r0, r4, r3, r4, r5, r6)
    BY <1>1, RowDup
  <2>2. Close(Dup2(t, 4, 1), 3) = Row(r0, r4, Closed, r4, r5, r6)
    BY <2>1, RowClose
  <2>3. Close(Close(Dup2(t, 4, 1), 3), 4) = Row(r0, r4, Closed, Closed, r5, r6)
    BY <2>2, RowClose
  <2> QED BY <2>3 DEF Attach
<1>4. Attach(t, <<5, 6>>, 1, 0) = Row(r5, r1, r3, r4, Closed, Closed)
  <2>1. Dup2(t, 5, 0) = Row(r5, r1, r3, r4, r5, r6)
    BY <1>1, RowDup
  <2>2. Close(Dup2(t, 5, 0), 5) = Row(r5, r1, r3, r4, Closed, r6)
    BY <2>1, RowClose
  <2>3. Close(Close(Dup2(t, 5, 0), 5), 6) = Row(r5, r1, r3, r4, Closed, Closed)
    BY <2>2, RowClose
  <2> QED BY <2>3 DEF Attach
<1>5. Attach(t, <<5, 6>>, 2, 1) = Row(r0, r6, r3, r4, Closed, Closed)
  <2>1. Dup2(t, 6, 1) = Row(r0, r6, r3, r4, r5, r6)
    BY <1>1, RowDup
  <2>2. Close(Dup2(t, 6, 1), 5) = Row(r0, r6, r3, r4, Closed, r6)
    BY <2>1, RowClose
  <2>3. Close(Close(Dup2(t, 6, 1), 5), 6) = Row(r0, r6, r3, r4, Closed, Closed)
    BY <2>2, RowClose
  <2> QED BY <2>3 DEF Attach
<1> QED BY <1>2, <1>3, <1>4, <1>5

(* The table with which the command of stage k runs                        *)
StageRow(k, fin) == Plain(IF k = 1 THEN Tty ELSE ReadEnd(k - 1), IF fin THEN Tty ELSE WriteEnd(k))

LEMMA Attached ==
  ASSUME NEW k \in Nat, k > 0, NEW fin \in BOOLEAN,
         NEW t, t = IF fin THEN Held(k - 1) ELSE Both(k),
         NEW u, u = IF k = 1 THEN t ELSE Attach(t, EndsOf(k - 1), 1, 0)
  PROVE  (IF fin THEN u ELSE Attach(u, EndsOf(k), 2, 1)) = StageRow(k, fin)
<1>1. PICK j \in Nat : j = k - 1 /\ (Odd(k) <=> ~Odd(j)) /\ (j = 0 <=> k = 1)
  BY OddIs
<1>2. R(0) = Closed /\ W(0) = Closed /\ R(k) = ReadEnd(k) /\ W(k) = WriteEnd(k)
  /\ (j # 0 => R(j) = ReadEnd(j) /\ W(j) = WriteEnd(j))
  BY DEF R, W
<1>3. PICK x, y : x = (IF fin THEN Closed ELSE R(k)) /\ y = (IF fin THEN Closed ELSE W(k))
  OBVIOUS
<1>4. PICK e : e = (IF j = 0 THEN Tty ELSE R(j))
  OBVIOUS
<1>5. CASE Odd(k)
  <2>1. t = Row(Tty, Tty, x, y, R(j), W(j))
    <3>1. CASE fin
      BY <1>1, <1>2, <1>3, <1>5, <3>1 DEF Held, Slots
    <3>2. CASE ~fin
      BY <1>1, <1>2, <1>3, <1>5, <3>2 DEF Both, Slots
    <3> QED BY <3>1, <3>2
  <2>2. EndsOf(k) = <<3, 4>> /\ EndsOf(j) = <<5, 6>>
    BY <1>1, <1>5 DEF EndsOf
  <2>3. u = Row(e, Tty, x, y, Closed, Closed)
    <3>1. CASE j = 0
      BY <1>1, <1>2, <1>4, <2>1, <3>1
    <3>2. CASE j # 0
      <4>1. Attach(t, <<5, 6>>, 1, 0) = Row(R(j), Tty, x, y, Closed, Closed)
        BY <2>1, RowAttach
      <4> QED BY <1>1, <1>4, <2>2, <3>2, <4>1
    <3> QED BY <3>1, <3>2
  <2>4. CASE fin
    BY <1>1, <1>2, <1>3, <1>4, <2>3, <2>4 DEF StageRow, Plain
  <2>5. CASE ~fin
    <3>1. Attach(u, <<3, 4>>, 2, 1) = Row(e, y, Closed, Closed, Closed, Closed)
      BY <2>3, RowAttach
    <3> QED BY <1>1, <1>2, <1>3, <1>4, <2>2, <2>5, <3>1 DEF StageRow, Plain
  <2> QED BY <2>4, <2>5
<1>6. CASE ~Odd(k)
  <2>1. t = Row(Tty, Tty, R(j), W(j), x, y)
    <3>1. CASE fin
      BY <1>1, <1>2, <1>3, <1>6, <3>1 DEF Held, Slots
    <3>2. CASE ~fin
      BY <1>1, <1>2, <1>3, <1>6, <3>2 DEF Both, Slots
    <3> QED BY <3>1, <3>2
  <2>2. EndsOf(k) = <<5, 6>> /\ EndsOf(j) = <<3, 4>>
    BY <1>1, <1>6 DEF EndsOf
  <2>3. u = Row(e, Tty, Closed, Closed, x, y)
    <3>1. CASE j = 0
      BY <1>1, <1>2, <1>4, <2>1, <3>1
    <3>2. CASE j # 0
      <4>1. Attach(t, <<3, 4>>, 1, 0) = Row(R(j), Tty, Closed, Closed, x, y)
        BY <2>1, RowAttach
      <4> QED BY <1>1, <1>4, <2>2, <3>2, <4>1
    <3> QED BY <3>1, <3>2
  <2>4. CASE fin
    BY <1>1, <1>2, <1>3, <1>4, <2>3, <2>4 DEF StageRow, Plain
  <2>5. CASE ~fin
    <3>1. Attach(u, <<5, 6>>, 2, 1) = Row(e, y, Closed, Closed, Closed, Closed)
      BY <2>3, RowAttach
    <3> QED BY <1>1, <1>2, <1>3, <1>4, <2>2, <2>5, <3>1 DEF StageRow, Plain
  <2> QED BY <2>4, <2>5
<1> QED BY <1>5, <1>6

(* The tables follow from where the shell and its child are.  A redirected *)
(* line has the terminal saved at 3 and 4.                                 *)
IsRedir(t) == t = Row(t[0], t[1], Tty, Tty, Closed, Closed) /\ t[0] # Closed /\ t[1] # Closed
Redirected == pc \in {"redirin", "redirout", "restore"} \/ (pc \in {"execute", "wait"} /\ line.op = "redir")
LastStage == stage = Len(cmds)
StageTable == IF LastStage THEN Held(stage - 1) ELSE Both(stage)

LineRight ==
  /\ pc \in {"prompt", "exit", "crashed", "save"} => fd["shell"] = Terminal
  /\ pc \in {"execute", "wait"} /\ line.op # "redir" => fd["shell"] = Terminal
  /\ pc \in {"save", "redirin", "redirout"} => line.op = "redir"
  /\ Redirected => IsRedir(fd["shell"]) /\ saved = <<3, 4>>
StagesRight ==
  pc \in {"stage", "fork", "close", "waitpid"} =>
    /\ Len(cmds) \in Nat /\ stage \in 1 .. Len(cmds)
    /\ stage > 1 /\ pc # "waitpid" => prev_pipefd = EndsOf(stage - 1)
    /\ pc = "waitpid" /\ ~LastStage => prev_pipefd = EndsOf(stage)
    /\ pc \in {"fork", "close"} /\ ~LastStage => pipefd = EndsOf(stage)
    /\ fd["shell"] = CASE pc = "stage" -> Held(stage - 1)
                       [] pc \in {"fork", "close"} -> StageTable
                       [] pc = "waitpid" -> IF LastStage THEN Terminal ELSE Held(stage)
ShellPcs == {"prompt", "exit", "crashed", "failed", "save", "redirin", "redirout", "restore",
             "execute", "wait", "stage", "fork", "close", "waitpid"}

(* The child of a stage has what it needs to find its ends, and then has   *)
(* these only.                                                             *)
BornRight ==
  /\ child.first = (stage = 1) /\ child.last = LastStage
  /\ stage > 1 => child.prev = EndsOf(stage - 1)
  /\ ~LastStage => child.curr = EndsOf(stage)
  /\ fd["child"] = StageTable
CommandRight ==
  /\ "st" \in DOMAIN child
  /\ pc \notin {"wait", "close", "waitpid"} => child = NoChild
  /\ pc = "wait" => child.st \in {"exec", "run", "dead"}
  /\ pc \in {"close", "waitpid"} =>
       /\ child.st \in {"redirect", "ready", "run", "dead"}
       /\ child.st = "redirect" => BornRight
       /\ child.st \in {"ready", "run"} => fd["child"] = StageRow(stage, LastStage)

ShellInv ==
  /\ pc \in ShellPcs /\ fd = [p \in {"shell", "child"} |-> fd[p]]
  /\ LineRight /\ StagesRight /\ CommandRight

LEMMA ShellInit == Init => ShellInv
<1> SUFFICES ASSUME Init PROVE ShellInv
  OBVIOUS
<1>1. fd = [p \in {"shell", "child"} |-> IF p = "shell" THEN Terminal ELSE AllClosed] /\ child = NoChild
  /\ pc = "prompt"
  BY DEF Init, KernelInit
<1>2. fd["shell"] = Terminal /\ fd = [p \in {"shell", "child"} |-> fd[p]]
  BY <1>1
<1>3. "st" \in DOMAIN child
  BY <1>1 DEF NoChild
<1> QED BY <1>1, <1>2, <1>3 DEF ShellInv, ShellPcs, LineRight, Redirected, StagesRight, CommandRight

(* Steps that go from the terminal to the terminal, without a child        *)
LEMMA ReadStep == ASSUME ShellInv, ReadLine \/ ReadEof PROVE ShellInv'
<1>1. pc = "prompt" /\ fd' = fd /\ child' = child /\ fd["shell"] = Terminal
  BY DEF ReadLine, ReadEof, kernel, ShellInv, LineRight
<1>2. fd["shell"][0] = Tty
  BY <1>1 DEF Terminal, Fds
<1>3. child = NoChild /\ "st" \in DOMAIN child
  BY <1>1 DEF ShellInv, CommandRight
<1>4. \/ pc' \in {"exit", "crashed"}
      \/ pc' = "save" /\ line'.op = "redir"
      \/ pc' = "execute" /\ line'.op # "redir"
      \/ pc' = "stage" /\ stage' = 1 /\ Len(cmds') \in Nat /\ Len(cmds') > 0
  <2>1. CASE ReadEof
    BY <1>2, <2>1 DEF ReadEof
  <2>2. CASE ReadLine
    <3>1. PICK l \in Lines :
            /\ line' = l
            /\ CASE l.op = "blank" -> pc' = "crashed" /\ UNCHANGED pipeline
                 [] l.op = "exit" -> pc' = "exit" /\ UNCHANGED pipeline
                 [] l.op = "pipe" -> StartPipeline(l.cmds)
                 [] l.op = "redir" -> pc' = "save" /\ UNCHANGED pipeline
                 [] OTHER -> /\ pc' = "execute"
                             /\ cmds' = l.cmds /\ stage' = 1
                             /\ UNCHANGED <<pipefd, prev_pipefd>>
      BY <2>2 DEF ReadLine
    <3>2. CASE l.op = "pipe"
      <4>1. StartPipeline(l.cmds)
        BY <3>1, <3>2
      <4>2. Len(l.cmds) \in 1 .. MaxPipes + 1
        BY <3>2, LinesAssumption
      <4> QED BY <4>1, <4>2, CapAssumption DEF StartPipeline
    <3>3. CASE l.op # "pipe"
      BY <3>1, <3>3
    <3> QED BY <3>2, <3>3
  <2> QED BY <2>1, <2>2
<1>5. fd' = [p \in {"shell", "child"} |-> fd'[p]]
  BY <1>1 DEF ShellInv
<1>6. pc' \in ShellPcs /\ LineRight'
  BY <1>1, <1>4 DEF ShellPcs, LineRight, Redirected
<1>7. StagesRight'
  BY <1>1, <1>4, TerminalIs DEF StagesRight
<1>8. CommandRight'
  BY <1>1, <1>3, <1>4 DEF CommandRight
<1> QED BY <1>5, <1>6, <1>7, <1>8 DEF ShellInv

(* execute: the command is started with the table of the shell.            *)
LEMMA ExecuteStep == ASSUME ShellInv, ExecuteFork \/ ExecuteWait PROVE ShellInv'
<1>1. "st" \in DOMAIN child /\ fd = [p \in {"shell", "child"} |-> fd[p]] /\ LineRight
  BY DEF ShellInv, CommandRight
<1>2. line' = line /\ saved' = saved /\ fd' = [p \in {"shell", "child"} |-> fd'[p]]
  /\ fd'["shell"] = fd["shell"]
  BY <1>1 DEF ExecuteFork, ExecuteWait, ForkChild
<1>3. CASE ExecuteFork /\ pc' = "wait"
  <2>1. pc = "execute" /\ child' = [st |-> "exec", cmd |-> cmds[stage]]
    BY <1>3 DEF ExecuteFork, ForkChild
  <2>2. "st" \in DOMAIN child' /\ child'.st = "exec"
    BY <2>1
  <2>3. LineRight' /\ CommandRight' /\ StagesRight' /\ pc' \in ShellPcs
    BY <1>1, <1>2, <1>3, <2>1, <2>2 DEF LineRight, Redirected, CommandRight, StagesRight, ShellPcs
  <2> QED BY <1>2, <2>3 DEF ShellInv
<1>4. CASE ExecuteFork /\ pc' = "failed"
  <2>1. pc = "execute" /\ child = NoChild
    BY <1>4 DEF ExecuteFork, ShellInv, CommandRight
  <2>2. child' = child
    BY <1>4 DEF ExecuteFork
  <2>3. LineRight' /\ CommandRight' /\ StagesRight' /\ pc' \in ShellPcs
    BY <1>1, <1>4, <2>1, <2>2 DEF LineRight, Redirected, CommandRight, StagesRight, ShellPcs
  <2> QED BY <1>2, <2>3 DEF ShellInv
<1>5. CASE ExecuteWait
  <2>1. pc = "wait" /\ child' = NoChild /\ pc' \in {"restore", "execute", "prompt"}
    /\ (line.op = "redir" <=> pc' = "restore")
    BY <1>5 DEF ExecuteWait, ReapChild
  <2>2. "st" \in DOMAIN child'
    BY <2>1 DEF NoChild
  <2>3. LineRight' /\ CommandRight' /\ StagesRight' /\ pc' \in ShellPcs
    BY <1>1, <1>2, <2>1, <2>2 DEF LineRight, Redirected, CommandRight, StagesRight, ShellPcs
  <2> QED BY <1>2, <2>3 DEF ShellInv
<1> QED BY <1>3, <1>4, <1>5 DEF ExecuteFork

(* The branch for < and >                                                  *)
LEMMA SaveStep == ASSUME ShellInv, SaveFds PROVE ShellInv'
<1>1. pc = "save" /\ pc' = "redirin" /\ child' = child /\ fd["shell"] = Terminal
  /\ line' = line /\ line.op = "redir"
  /\ fd = [p \in {"shell", "child"} |-> fd[p]] /\ child = NoChild /\ "st" \in DOMAIN child
  BY DEF SaveFds, ShellInv, LineRight, CommandRight
<1>2. PICK t, v : t = OpenFd(fd["shell"], fd["shell"][0]) /\ v = OpenFd(t, t[1])
  OBVIOUS
<1>3. saved' = <<LowestFd(fd["shell"]), LowestFd(t)>> /\ fd' = [fd EXCEPT !["shell"] = v]
  BY <1>2 DEF SaveFds
<1>4. fd["shell"] = Plain(Tty, Tty) /\ fd["shell"][0] = Tty
  BY <1>1, TerminalIs, RowIs DEF Plain
<1>5. LowestFd(fd["shell"]) = 3 /\ t = Row(Tty, Tty, Tty, Closed, Closed, Closed)
  BY <1>2, <1>4, RowOpen, EndsDiffer DEF Plain
<1>6. t[1] = Tty
  BY <1>5, RowIs
<1>7. LowestFd(t) = 4 /\ v = Row(Tty, Tty, Tty, Tty, Closed, Closed)
  BY <1>2, <1>5, <1>6, RowOpen, EndsDiffer
<1>8. IsRedir(v)
  BY <1>7, RowIs, EndsDiffer DEF IsRedir
<1>9. fd'["shell"] = v /\ saved' = <<3, 4>> /\ fd' = [p \in {"shell", "child"} |-> fd'[p]]
  BY <1>1, <1>3, <1>5, <1>7
<1>10. LineRight' /\ CommandRight' /\ StagesRight' /\ pc' \in ShellPcs
  BY <1>1, <1>8, <1>9 DEF LineRight, Redirected, CommandRight, StagesRight, ShellPcs
<1> QED BY <1>9, <1>10 DEF ShellInv

(* open, dup2 and close leave the saved terminal where it is.              *)
LEMMA RedirRow ==
  ASSUME NEW t, IsRedir(t), NEW e, e # Closed, NEW n, n = LowestFd(t), NEW v, v = OpenFd(t, e)
  PROVE  IsRedir(Close(Dup2(v, n, 0), n)) /\ IsRedir(Close(Dup2(v, n, 1), n))
<1>1. PICK a, b : a = t[0] /\ b = t[1] /\ a # Closed /\ b # Closed
  BY DEF IsRedir
<1>2. t = Row(a, b, Tty, Tty, Closed, Closed)
  BY <1>1 DEF IsRedir
<1>3. n = 5 /\ v = Row(a, b, Tty, Tty, e, Closed)
  BY <1>1, <1>2, RowOpen, EndsDiffer
<1>4. v[5] = e
  BY <1>3, RowIs
<1>5. Dup2(v, 5, 0) = Row(e, b, Tty, Tty, e, Closed) /\ Dup2(v, 5, 1) = Row(a, e, Tty, Tty, e, Closed)
  BY <1>3, <1>4, RowDup
<1>6. PICK x, y : x = Close(Dup2(v, 5, 0), 5) /\ y = Close(Dup2(v, 5, 1), 5)
  OBVIOUS
<1>7. x = Row(e, b, Tty, Tty, Closed, Closed)
  BY <1>5, <1>6, RowClose
<1>8. y = Row(a, e, Tty, Tty, Closed, Closed)
  BY <1>5, <1>6, RowClose
<1>9. IsRedir(x)
  BY <1>1, <1>7, RowIs DEF IsRedir
<1>10. IsRedir(y)
  BY <1>1, <1>8, RowIs DEF IsRedir
<1> QED BY <1>3, <1>6, <1>9, <1>10

LEMMA RedirStep == ASSUME ShellInv, RedirIn \/ RedirOut PROVE ShellInv'
<1>1. pc \in {"redirin", "redirout"} /\ pc' \in {"redirout", "execute"} /\ child' = child
  /\ line' = line /\ saved' = saved
  BY DEF RedirIn, RedirOut
<1>2. fd = [p \in {"shell", "child"} |-> fd[p]] /\ child = NoChild /\ "st" \in DOMAIN child
  /\ IsRedir(fd["shell"]) /\ saved = <<3, 4>> /\ line.op = "redir"
  BY <1>1 DEF ShellInv, LineRight, Redirected, CommandRight
<1>3. fd' = [p \in {"shell", "child"} |-> fd'[p]] /\ IsRedir(fd'["shell"])
  <2>1. CASE fd' = fd
    BY <1>2, <2>1
  <2>2. CASE RedirIn /\ fd' # fd
    <3>1. PICK e, n, v : /\ e = InFile(files.in) /\ n = LowestFd(fd["shell"]) /\ v = OpenFd(fd["shell"], e)
                         /\ fd' = [fd EXCEPT !["shell"] = Close(Dup2(v, n, 0), n)]
      BY <2>2 DEF RedirIn
    <3>2. e # Closed
      BY <3>1, EndsDiffer
    <3>3. IsRedir(Close(Dup2(v, n, 0), n))
      BY <1>2, <3>1, <3>2, RedirRow
    <3> QED BY <1>2, <3>1, <3>3
  <2>3. CASE RedirOut /\ fd' # fd
    <3>1. PICK e, n, v : /\ e = OutFile(files.out) /\ n = LowestFd(fd["shell"]) /\ v = OpenFd(fd["shell"], e)
                         /\ fd' = [fd EXCEPT !["shell"] = Close(Dup2(v, n, 1), n)]
      BY <2>3 DEF RedirOut
    <3>2. e # Closed
      BY <3>1, EndsDiffer
    <3>3. IsRedir(Close(Dup2(v, n, 1), n))
      BY <1>2, <3>1, <3>2, RedirRow
    <3> QED BY <1>2, <3>1, <3>3
  <2> QED BY <2>1, <2>2, <2>3
<1>4. LineRight' /\ CommandRight' /\ StagesRight' /\ pc' \in ShellPcs
  BY <1>1, <1>2, <1>3 DEF LineRight, Redirected, CommandRight, StagesRight, ShellPcs
<1> QED BY <1>3, <1>4 DEF ShellInv

LEMMA RestoreStep == ASSUME ShellInv, Restore PROVE ShellInv'
<1>1. pc = "restore" /\ pc' = "prompt" /\ child' = child /\ saved = <<3, 4>>
  /\ fd = [p \in {"shell", "child"} |-> fd[p]] /\ child = NoChild /\ "st" \in DOMAIN child
  /\ IsRedir(fd["shell"])
  BY DEF Restore, ShellInv, LineRight, Redirected, CommandRight
<1>2. PICK a, b, t : t = fd["shell"] /\ t = Row(a, b, Tty, Tty, Closed, Closed)
  BY <1>1 DEF IsRedir
<1>3. PICK v, w, x : v = Dup2(t, 3, 0) /\ w = Dup2(v, 4, 1) /\ x = Close(Close(w, 3), 4)
  OBVIOUS
<1>4. fd' = [fd EXCEPT !["shell"] = x]
  BY <1>1, <1>2, <1>3 DEF Restore
<1>5. t[3] = Tty
  BY <1>2, RowIs
<1>6. v = Row(Tty, b, Tty, Tty, Closed, Closed)
  BY <1>2, <1>3, <1>5, RowDup
<1>7. v[4] = Tty
  BY <1>6, RowIs
<1>8. w = Row(Tty, Tty, Tty, Tty, Closed, Closed)
  BY <1>3, <1>6, <1>7, RowDup
<1>9. Close(w, 3) = Row(Tty, Tty, Closed, Tty, Closed, Closed)
  BY <1>8, RowClose
<1>10. x = Plain(Tty, Tty)
  BY <1>3, <1>9, RowClose DEF Plain
<1>11. fd'["shell"] = Terminal /\ fd' = [p \in {"shell", "child"} |-> fd'[p]]
  BY <1>1, <1>4, <1>10, TerminalIs
<1>12. LineRight' /\ CommandRight' /\ StagesRight' /\ pc' \in ShellPcs
  BY <1>1, <1>11 DEF LineRight, Redirected, CommandRight, StagesRight, ShellPcs
<1> QED BY <1>11, <1>12 DEF ShellInv

(* The stages of a pipeline, as the shell goes through them                *)
LEMMA StageStep ==
  ASSUME ShellInv, PipelineFails \/ MakePipe \/ ForkStage \/ ParentClose \/ WaitStage
  PROVE  ShellInv'
<1>1. pc \in {"stage", "fork", "close", "waitpid"} /\ fd = [p \in {"shell", "child"} |-> fd[p]]
  /\ StagesRight /\ CommandRight
  BY DEF PipelineFails, MakePipe, ForkStage, ParentClose, WaitStage, ShellInv
<1>2. Len(cmds) \in Nat /\ stage \in 1 .. Len(cmds) /\ stage \in Nat /\ stage > 0
  BY <1>1 DEF StagesRight
<1>3. CASE PipelineFails
  <2>1. pc' = "failed" /\ fd' = fd /\ child' = child /\ child = NoChild /\ "st" \in DOMAIN child
    BY <1>1, <1>3 DEF PipelineFails, kernel, CommandRight
  <2>2. LineRight' /\ CommandRight' /\ StagesRight' /\ pc' \in ShellPcs
    BY <2>1 DEF LineRight, Redirected, CommandRight, StagesRight, ShellPcs
  <2> QED BY <1>1, <2>1, <2>2 DEF ShellInv
<1>4. CASE MakePipe
  <2>1. pc = "stage" /\ pc' = "fork" /\ child' = child /\ cmds' = cmds /\ stage' = stage
    /\ prev_pipefd' = prev_pipefd /\ child = NoChild /\ "st" \in DOMAIN child
    /\ fd["shell"] = Held(stage - 1) /\ (stage > 1 => prev_pipefd = EndsOf(stage - 1))
    BY <1>1, <1>4 DEF MakePipe, StagesRight, CommandRight
  <2>2. /\ fd' = [p \in {"shell", "child"} |-> fd'[p]]
        /\ fd'["shell"] = StageTable /\ (~LastStage => pipefd' = EndsOf(stage))
    <3>1. CASE LastStage
      BY <1>1, <1>4, <2>1, <3>1 DEF MakePipe, AtLast, LastStage, StageTable
    <3>2. CASE ~LastStage
      <4>1. PICK k, t : k = stage /\ t = OpenFd(fd["shell"], ReadEnd(k))
        OBVIOUS
      <4>2. fd' = [fd EXCEPT !["shell"] = OpenFd(t, WriteEnd(k))]
        /\ pipefd' = <<LowestFd(fd["shell"]), LowestFd(t)>>
        BY <1>4, <3>2, <4>1 DEF MakePipe, AtLast, LastStage
      <4>3. LowestFd(fd["shell"]) = EndsOf(k)[1] /\ LowestFd(t) = EndsOf(k)[2]
        /\ OpenFd(t, WriteEnd(k)) = Both(k)
        BY <1>2, <2>1, <4>1, PipeMade
      <4>4. pipefd' = EndsOf(k)
        BY <4>2, <4>3 DEF EndsOf
      <4>5. fd'["shell"] = Both(k) /\ fd' = [p \in {"shell", "child"} |-> fd'[p]]
        BY <1>1, <4>2, <4>3
      <4> QED BY <3>2, <4>1, <4>4, <4>5 DEF StageTable
    <3> QED BY <3>1, <3>2
  <2>3. StagesRight'
    BY <1>2, <2>1, <2>2 DEF StagesRight, LastStage, StageTable
  <2>4. LineRight' /\ CommandRight' /\ pc' \in ShellPcs
    BY <2>1 DEF LineRight, Redirected, CommandRight, ShellPcs
  <2> QED BY <2>2, <2>3, <2>4 DEF ShellInv
<1>5. CASE ForkStage
  <2>1. pc = "fork" /\ pc' = "close" /\ cmds' = cmds /\ stage' = stage /\ pipefd' = pipefd
    /\ prev_pipefd' = prev_pipefd /\ fd["shell"] = StageTable
    /\ (stage > 1 => prev_pipefd = EndsOf(stage - 1)) /\ (~LastStage => pipefd = EndsOf(stage))
    BY <1>1, <1>5 DEF ForkStage, pipeline, StagesRight
  <2>2. fd' = [fd EXCEPT !["child"] = fd["shell"]]
    /\ child' = [st |-> "redirect", cmd |-> cmds[stage], first |-> AtFirst, last |-> AtLast,
                 prev |-> prev_pipefd, curr |-> pipefd]
    BY <1>5 DEF ForkStage, ForkChild
  <2>3. fd' = [p \in {"shell", "child"} |-> fd'[p]] /\ fd'["child"] = StageTable /\ fd'["shell"] = StageTable
    BY <1>1, <2>1, <2>2
  <2>4. /\ "st" \in DOMAIN child' /\ child'.st = "redirect"
        /\ child'.first = (stage = 1) /\ child'.last = LastStage
        /\ child'.prev = prev_pipefd /\ child'.curr = pipefd
    BY <2>2 DEF AtFirst, AtLast, LastStage
  <2>5. StagesRight'
    BY <1>2, <2>1, <2>3 DEF StagesRight, LastStage, StageTable
  <2>6. BornRight'
    BY <2>1, <2>3, <2>4 DEF BornRight, LastStage, StageTable
  <2>7. CommandRight'
    BY <2>1, <2>4, <2>6 DEF CommandRight
  <2>8. LineRight' /\ pc' \in ShellPcs
    BY <2>1 DEF LineRight, Redirected, ShellPcs
  <2> QED BY <2>3, <2>5, <2>7, <2>8 DEF ShellInv
<1>6. CASE ParentClose
  <2>1. pc = "close" /\ pc' = "waitpid" /\ cmds' = cmds /\ stage' = stage /\ child' = child
    /\ prev_pipefd' = (IF AtLast THEN prev_pipefd ELSE pipefd) /\ fd["shell"] = StageTable
    /\ (stage > 1 => prev_pipefd = EndsOf(stage - 1)) /\ (~LastStage => pipefd = EndsOf(stage))
    BY <1>1, <1>6 DEF ParentClose, StagesRight
  <2>2. PICK t : t = Close(Close(fd["shell"], prev_pipefd[1]), prev_pipefd[2])
    OBVIOUS
  <2>3. fd' = IF stage = 1 THEN fd ELSE [fd EXCEPT !["shell"] = t]
    BY <1>6, <2>2 DEF ParentClose, CloseInto, AtFirst
  <2>4. fd' = [p \in {"shell", "child"} |-> fd'[p]] /\ fd'["child"] = fd["child"]
    BY <1>1, <2>3
  <2>5. fd'["shell"] = IF LastStage THEN Terminal ELSE Held(stage)
    <3>1. CASE stage = 1
      BY <2>1, <2>3, <3>1, TerminalIs DEF StageTable
    <3>2. CASE stage # 1
      <4>1. PICK k \in Nat : k = stage /\ k > 1
        BY <1>2, <3>2
      <4>2. Close(Close(Both(k), EndsOf(k - 1)[1]), EndsOf(k - 1)[2]) = Held(k)
        /\ Close(Close(Held(k - 1), EndsOf(k - 1)[1]), EndsOf(k - 1)[2]) = Terminal
        BY <4>1, PreviousClosed
      <4>3. fd'["shell"] = t
        BY <1>1, <2>3, <3>2
      <4> QED BY <2>1, <2>2, <4>1, <4>2, <4>3 DEF StageTable
    <3> QED BY <3>1, <3>2
  <2>6. StagesRight'
    BY <1>2, <2>1, <2>5 DEF StagesRight, LastStage, AtLast
  <2>7. CommandRight'
    <3>1. BornRight => BornRight'
      BY <2>1, <2>4 DEF BornRight, LastStage, StageTable
    <3> QED BY <1>1, <2>1, <2>4, <3>1 DEF CommandRight, LastStage
  <2>8. LineRight' /\ pc' \in ShellPcs
    BY <2>1 DEF LineRight, Redirected, ShellPcs
  <2> QED BY <2>4, <2>6, <2>7, <2>8 DEF ShellInv
<1>7. CASE WaitStage
  <2>1. pc = "waitpid" /\ pc' = (IF AtLast THEN "prompt" ELSE "stage") /\ cmds' = cmds
    /\ stage' = stage + 1 /\ prev_pipefd' = prev_pipefd /\ fd' = fd /\ child' = NoChild
    /\ fd["shell"] = (IF LastStage THEN Terminal ELSE Held(stage))
    /\ (~LastStage => prev_pipefd = EndsOf(stage))
    BY <1>1, <1>7 DEF WaitStage, ReapChild, StagesRight
  <2>2. "st" \in DOMAIN child'
    BY <2>1 DEF NoChild
  <2>3. CommandRight' /\ pc' \in ShellPcs
    BY <2>1, <2>2 DEF CommandRight, ShellPcs
  <2>4. StagesRight' /\ LineRight'
    <3>1. CASE LastStage
      BY <2>1, <3>1 DEF StagesRight, LineRight, Redirected, LastStage, AtLast
    <3>2. CASE ~LastStage
      <4>1. pc' = "stage" /\ stage' \in 1 .. Len(cmds') /\ stage' - 1 = stage /\ Len(cmds') \in Nat
        BY <1>2, <2>1, <3>2 DEF LastStage, AtLast
      <4> QED BY <2>1, <3>2, <4>1 DEF StagesRight, LineRight, Redirected
    <3> QED BY <3>1, <3>2
  <2> QED BY <1>1, <2>1, <2>3, <2>4 DEF ShellInv
<1> QED BY <1>3, <1>4, <1>5, <1>6, <1>7

(* What the child does leaves the table of the shell alone.                *)
LEMMA ChildOnly ==
  ASSUME ShellInv, UNCHANGED <<pc, line, saved, cmds, stage, pipefd, prev_pipefd>>,
         fd' = [p \in {"shell", "child"} |-> fd'[p]], fd'["shell"] = fd["shell"], CommandRight'
  PROVE  ShellInv'
<1>1. LineRight' /\ StagesRight' /\ pc' \in ShellPcs
  BY DEF ShellInv, LineRight, Redirected, StagesRight, StageTable, LastStage
<1> QED BY <1>1 DEF ShellInv

LEMMA ChildStarts == ASSUME ShellInv, ExecuteChild \/ ChildRedirect \/ ChildExec,
                            Own \/ ExecuteChild PROVE ShellInv'
<1>1. CommandRight /\ StagesRight /\ fd = [p \in {"shell", "child"} |-> fd[p]] /\ "st" \in DOMAIN child
  BY DEF ShellInv, CommandRight
<1>2. UNCHANGED <<pc, line, saved, cmds, stage, pipefd, prev_pipefd>>
  BY DEF ExecuteChild, ChildRedirect, ChildExec, Own, pipeline
<1>3. child.st \in {"exec", "redirect", "ready"} /\ child # NoChild
  <2>1. NoChild.st = "none"
    BY DEF NoChild
  <2>2. CASE ExecuteChild
    BY <2>1, <2>2 DEF ExecuteChild
  <2>3. CASE ChildRedirect
    BY <2>1, <2>3 DEF ChildRedirect
  <2>4. CASE ChildExec
    BY <2>1, <2>4 DEF ChildExec
  <2> QED BY <2>2, <2>3, <2>4
<1>4. pc \in {"wait", "close", "waitpid"}
  BY <1>1, <1>3 DEF CommandRight
<1>5. CASE ExecuteChild \/ ChildExec
  <2>1. fd' = fd /\ "st" \in DOMAIN child' /\ child'.st = "run"
    /\ (ExecuteChild => child.st = "exec") /\ (ChildExec => child.st = "ready")
    <3>1. CASE ExecuteChild
      <4>1. fd' = fd /\ child.st = "exec" /\ ExecChild(line.op # "listall")
        BY <3>1 DEF ExecuteChild
      <4>2. "st" \in DOMAIN child' /\ child'.st = "run"
        BY <4>1 DEF ExecChild
      <4>3. ~ChildExec
        BY <4>1 DEF ChildExec
      <4> QED BY <4>1, <4>2, <4>3
    <3>2. CASE ChildExec
      <4>1. fd' = fd /\ child.st = "ready" /\ ExecChild(FALSE)
        BY <3>2 DEF ChildExec
      <4>2. "st" \in DOMAIN child' /\ child'.st = "run"
        BY <4>1 DEF ExecChild
      <4>3. ~ExecuteChild
        BY <4>1 DEF ExecuteChild
      <4> QED BY <4>1, <4>2, <4>3
    <3> QED BY <1>5, <3>1, <3>2
  <2>2. CommandRight'
    BY <1>1, <1>2, <1>4, <1>5, <2>1 DEF CommandRight, LastStage
  <2> QED BY <1>1, <1>2, <2>1, <2>2, ChildOnly
<1>6. CASE ChildRedirect
  <2>1. child.st = "redirect" /\ pc \in {"close", "waitpid"} /\ BornRight
    BY <1>1, <1>4, <1>6 DEF ChildRedirect, CommandRight
  <2>2. PICK t, u, v : /\ t = fd["child"]
                       /\ u = IF child.first THEN t ELSE Attach(t, child.prev, 1, 0)
                       /\ v = IF child.last THEN u ELSE Attach(u, child.curr, 2, 1)
    OBVIOUS
  <2>3. fd' = [fd EXCEPT !["child"] = v] /\ child' = [child EXCEPT !.st = "ready"]
    BY <1>6, <2>2 DEF ChildRedirect
  <2>4. PICK k \in Nat, fin \in BOOLEAN : k = stage /\ k > 0 /\ fin = LastStage
    <3>1. stage \in Nat /\ stage > 0
      BY <1>1, <2>1 DEF StagesRight
    <3>2. LastStage \in BOOLEAN
      BY DEF LastStage
    <3> QED BY <3>1, <3>2
  <2>5. /\ t = (IF fin THEN Held(k - 1) ELSE Both(k))
        /\ u = (IF k = 1 THEN t ELSE Attach(t, EndsOf(k - 1), 1, 0))
        /\ v = (IF fin THEN u ELSE Attach(u, EndsOf(k), 2, 1))
    <3>1. child.first = (stage = 1) /\ child.last = LastStage /\ fd["child"] = StageTable
      /\ (stage # 1 => child.prev = EndsOf(stage - 1)) /\ (~LastStage => child.curr = EndsOf(stage))
      <4>1. stage # 1 => stage > 1
        BY <2>4
      <4> QED BY <2>1, <4>1 DEF BornRight
    <3>2. t = (IF fin THEN Held(k - 1) ELSE Both(k))
      BY <2>2, <2>4, <3>1 DEF StageTable
    <3>3. u = (IF k = 1 THEN t ELSE Attach(t, EndsOf(k - 1), 1, 0))
      BY <2>2, <2>4, <3>1
    <3>4. v = (IF fin THEN u ELSE Attach(u, EndsOf(k), 2, 1))
      BY <2>2, <2>4, <3>1
    <3> QED BY <3>2, <3>3, <3>4
  <2>6. v = StageRow(k, fin)
    BY <2>4, <2>5, Attached
  <2>7. fd'["child"] = v /\ fd'["shell"] = fd["shell"] /\ fd' = [p \in {"shell", "child"} |-> fd'[p]]
    BY <1>1, <2>3
  <2>8. "st" \in DOMAIN child' /\ child'.st = "ready"
    BY <1>1, <2>3
  <2>9. CommandRight'
    BY <1>2, <2>1, <2>4, <2>6, <2>7, <2>8 DEF CommandRight, LastStage
  <2> QED BY <1>2, <2>7, <2>9, ChildOnly
<1> QED BY <1>5, <1>6

LEMMA RunStep == ASSUME ShellInv, RunChild, UNCHANGED <<pc, pipeline>>, Own PROVE ShellInv'
<1>1. CommandRight /\ fd = [p \in {"shell", "child"} |-> fd[p]] /\ "st" \in DOMAIN child
  BY DEF ShellInv, CommandRight
<1>2. UNCHANGED <<pc, line, saved, cmds, stage, pipefd, prev_pipefd>>
  BY DEF Own, pipeline
<1>3. child.st = "run" /\ child # NoChild
  BY DEF RunChild, ReadPipe, ReadFile, ReadTty, WritePipe, WriteOut, ExitChild, Reading, Writing, NoChild
<1>4. CASE ExitChild
  <2>1. "st" \in DOMAIN child' /\ child'.st = "dead" /\ fd' = [fd EXCEPT !["child"] = AllClosed]
    BY <1>4 DEF ExitChild, CloseInto
  <2>2. fd'["shell"] = fd["shell"] /\ fd' = [p \in {"shell", "child"} |-> fd'[p]]
    BY <1>1, <2>1
  <2>3. CommandRight'
    BY <1>1, <1>2, <1>3, <2>1 DEF CommandRight
  <2> QED BY <1>2, <2>2, <2>3, ChildOnly
<1>5. CASE ~ExitChild
  <2>1. fd' = fd
    BY <1>5 DEF RunChild, ReadPipe, ReadFile, ReadTty, WritePipe, WriteOut
  <2>2. "st" \in DOMAIN child' /\ child'.st = "run"
    <3>1. ASSUME NEW x, ItemRead(x) PROVE "st" \in DOMAIN child' /\ child'.st = "run"
      BY <1>1, <1>3, <3>1 DEF ItemRead
    <3>2. ASSUME EndRead PROVE "st" \in DOMAIN child' /\ child'.st = "run"
      BY <1>1, <1>3, <3>2 DEF EndRead
    <3>3. ASSUME child' = [child EXCEPT !.left = Tail(@)] PROVE "st" \in DOMAIN child' /\ child'.st = "run"
      BY <1>1, <1>3, <3>3
    <3>4. CASE ReadPipe \/ ReadFile \/ ReadTty
      BY <3>1, <3>2, <3>4 DEF ReadPipe, ReadFile, ReadTty
    <3>5. CASE WritePipe \/ WriteOut
      BY <3>3, <3>5 DEF WritePipe, WriteOut
    <3> QED BY <1>5, <3>4, <3>5 DEF RunChild
  <2>3. CommandRight'
    BY <1>1, <1>2, <1>3, <2>1, <2>2 DEF CommandRight, LastStage
  <2> QED BY <1>1, <1>2, <2>1, <2>3, ChildOnly
<1> QED BY <1>4, <1>5
LEMMA ShellNext == ShellInv /\ [MCNext]_all => ShellInv'
<1> SUFFICES ASSUME ShellInv, [MCNext]_all PROVE ShellInv'
  OBVIOUS
<1>1. CASE UNCHANGED vars
  BY <1>1 DEF vars, kernel, pipeline, ShellInv, LineRight, Redirected, StagesRight, CommandRight,
    BornRight, StageTable, LastStage
<1>2. CASE ShellStep
  BY <1>2, ExecuteStep, SaveStep, RedirStep, RestoreStep, StageStep DEF ShellStep
<1>3. CASE ChildStep
  BY <1>3, ChildStarts, RunStep DEF ChildStep
<1>4. CASE Next
  BY <1>2, <1>3, <1>4, ReadStep DEF Next
<1> QED BY <1>1, <1>4 DEF MCNext, Runs, all

(* Whatever lines are typed, and however many, pipelines of any length     *)
(* among them: at the prompt the shell has its three descriptors on the    *)
(* terminal, no other one and no child, and it never meets an end of input *)
(* that the user did not type.                                             *)
THEOREM PromptIsClean == MCSpec => []PromptClean
<1>1. MCInit => ShellInv
  BY ShellInit DEF MCInit
<1>2. ShellInv => PromptClean
  BY DEF ShellInv, LineRight, CommandRight, ShellPcs, PromptClean
<1> QED BY <1>1, <1>2, ShellNext, PTL DEF MCSpec

(* When the shell waits for a stage of a pipeline, no process has the      *)
(* write end of the pipe that stage reads: the read that finds the pipe    *)
(* empty is told that it has ended.                                        *)
THEOREM ReaderIsToldTheEnd == MCSpec => []ReaderGetsEof
<1>1. MCInit => ShellInv
  BY ShellInit DEF MCInit
<1>2. ShellInv => ReaderGetsEof
  <2> SUFFICES ASSUME ShellInv, NEW k \in Pipes,
                      pc = "waitpid", child.st = "run", fd["child"][0] = ReadEnd(k)
               PROVE  ~IsOpen(WriteEnd(k))
    BY DEF ReaderGetsEof
  <2>1. fd = [p \in {"shell", "child"} |-> fd[p]] /\ StagesRight /\ CommandRight
    BY DEF ShellInv
  <2>2. PICK s, a, b : /\ s = stage /\ a = (IF s = 1 THEN Tty ELSE ReadEnd(s - 1))
                       /\ b = (IF LastStage THEN Tty ELSE WriteEnd(s))
    OBVIOUS
  <2>3. fd["child"] = Row(a, b, Closed, Closed, Closed, Closed)
    BY <2>1, <2>2 DEF CommandRight, StageRow, Plain
  <2>4. s \in Nat /\ s > 0
    BY <2>1, <2>2 DEF StagesRight
  <2>5. s # 1 /\ k = s - 1 /\ k # s
    BY <2>2, <2>3, <2>4, RowIs, EndsDiffer
  <2>6. a # WriteEnd(k) /\ b # WriteEnd(k) /\ Tty # WriteEnd(k) /\ Closed # WriteEnd(k)
    BY <2>2, <2>5, EndsDiffer
  <2>7. \A n \in Fds : fd["child"][n] # WriteEnd(k)
    BY <2>3, <2>6 DEF Row
  <2>8. \A n \in Fds : fd["shell"][n] # WriteEnd(k)
    <3>1. CASE LastStage
      <4>1. fd["shell"] = Terminal
        BY <2>1, <3>1 DEF StagesRight
      <4> QED BY <2>6, <4>1 DEF Terminal
    <3>2. CASE ~LastStage
      <4>1. fd["shell"] = Held(s)
        BY <2>1, <2>2, <3>2 DEF StagesRight
      <4>2. R(s) # WriteEnd(k) /\ W(s) # WriteEnd(k) /\ R(0) # WriteEnd(k) /\ W(0) # WriteEnd(k)
        BY <2>5, <2>6, EndsDiffer DEF R, W
      <4> QED BY <2>6, <4>1, <4>2 DEF Held, Slots, Row
    <3> QED BY <3>1, <3>2
  <2> QED BY <2>1, <2>7, <2>8 DEF IsOpen, HasOpen
<1> QED BY <1>1, <1>2, ShellNext, PTL DEF MCSpec


-----------------------------------------------------------------------------
(* pty.  The mode of the terminal follows from what the two processes will *)
(* do when they exit, and what is still to be copied from what was written.*)

PtyParts == {"start", "raw", "driver", "fork", "install", "loop", "reading", "writing", "tell",
             "exit", "error", "exited", "failed", "killed", "unset"}
BeforeFork == {"start", "raw", "driver", "fork"}

PtyTypeOK ==
  /\ opt \in PtyOptions /\ ppc \in PtyParts
  /\ cpc \in {"none", "reading", "writing", "notify", "exit", "exited", "killed"}
  /\ tty \in {"cooked", "raw"}
  /\ ttystate \in [parent : {"RESET", "RAW"}, copier : {"RESET", "RAW"}]
  /\ atexit \in SUBSET {"parent", "copier"}
  /\ handler \in BOOLEAN /\ sigcaught \in BOOLEAN /\ term \in BOOLEAN

(* Who is to reset the terminal knows that it is raw.                      *)
ParentState ==
  /\ "parent" \in atexit /\ ppc \notin {"exited", "failed"} => ttystate.parent = "RAW"
  /\ "parent" \notin atexit /\ ppc # "unset" => tty = "cooked" /\ ttystate.parent = "RESET"
  /\ ppc \in {"start", "raw", "unset"} \/ opt.driver => atexit = {}
  /\ ppc = "raw" => ~opt.driver
  /\ driver # "none" => opt.driver
CopierState ==
  /\ cpc = "none" => "copier" \notin atexit
  /\ cpc # "none" => ppc \notin BeforeFork \cup {"unset"} /\ ("copier" \in atexit <=> "parent" \in atexit)
  /\ ppc \in {"install", "loop", "reading", "writing", "tell"} => cpc # "none"
  /\ "copier" \in atexit /\ cpc # "exited" => ttystate.copier = "RAW"
  /\ cpc = "exited" => tty = "cooked"

(* SIGTERM, before and after there is a handler for it                     *)
TermRight ==
  /\ ppc \in BeforeFork => ~handler
  /\ ppc \in {"loop", "reading", "writing", "tell", "exit", "exited"} => handler
  /\ cpc = "killed" => ppc \in {"exit", "exited"}
  /\ term => cpc \in {"exit", "exited", "killed"}
  /\ ppc = "killed" => opt.driver \/ cpc \in {"exit", "exited"}
  /\ opt.ignoreeof => cpc # "notify" /\ ~term /\ ~sigcaught

ModeRight ==
  /\ ppc \in {"exited", "failed"} => tty = "cooked"
  /\ atexit # {} /\ ppc \notin Pty!Gone /\ cpc \notin Pty!Gone => tty = "raw"

CopiedRight ==
  /\ made \in Int /\ output \in Nat /\ shown \in Int
  /\ ppc \notin {"error", "failed", "killed"} =>
       made = shown + output + (IF ppc = "writing" THEN 1 ELSE 0)
  /\ ppc \in {"tell", "exit", "exited"} /\ ~sigcaught => cmd = "ended" /\ output = 0

TermInv == PtyTypeOK /\ ParentState /\ CopierState /\ TermRight /\ ModeRight
PtyInv == TermInv /\ CopiedRight

LEMMA TermInit == Pty!Init => TermInv
<1> SUFFICES ASSUME Pty!Init PROVE TermInv
  OBVIOUS
<1>1. /\ opt \in PtyOptions /\ ppc = "start" /\ cpc = "none" /\ driver = "none" /\ tty = "cooked"
      /\ ttystate = [parent |-> "RESET", copier |-> "RESET"] /\ atexit = {}
      /\ handler = FALSE /\ sigcaught = FALSE /\ term = FALSE
  BY DEF Pty!Init
<1>2. ttystate.parent = "RESET" /\ ttystate \in [parent : {"RESET", "RAW"}, copier : {"RESET", "RAW"}]
  BY <1>1
<1>3. PtyTypeOK
  BY <1>1, <1>2 DEF PtyTypeOK, PtyParts
<1> QED BY <1>1, <1>2, <1>3 DEF TermInv, ParentState, CopierState, TermRight, ModeRight, BeforeFork, Pty!Gone

LEMMA TermParent == ASSUME TermInv, Pty!ParentStep PROVE TermInv'
<1> USE DEF TermInv, PtyTypeOK, ParentState, CopierState, TermRight, ModeRight, PtyParts, BeforeFork,
        Pty!Gone, Pty!others, Pty!terminal, Pty!signals, Pty!tty_raw, Pty!tty_reset, Pty!tty_atexit
<1>1. CASE Pty!pty_fork
  BY <1>1 DEF Pty!pty_fork
<1>2. CASE Pty!RawMode
  BY <1>2 DEF Pty!RawMode
<1>3. CASE Pty!do_driver
  BY <1>3 DEF Pty!do_driver
<1>4. CASE Pty!LoopFork
  BY <1>4 DEF Pty!LoopFork
<1>5. CASE Pty!Install
  BY <1>5 DEF Pty!Install
<1>6. CASE Pty!Read
  BY <1>6 DEF Pty!Read
<1>7. CASE Pty!GotOutput
  BY <1>7 DEF Pty!GotOutput
<1>8. CASE Pty!Write
  BY <1>8 DEF Pty!Write
<1>9. CASE Pty!sig_term
  BY <1>9 DEF Pty!sig_term
<1>10. CASE Pty!Tell
  BY <1>10 DEF Pty!Tell
<1>11. CASE Pty!Exit
  BY <1>11 DEF Pty!Exit
<1> QED BY <1>1, <1>2, <1>3, <1>4, <1>5, <1>6, <1>7, <1>8, <1>9, <1>10, <1>11 DEF Pty!ParentStep

LEMMA TermCopier == ASSUME TermInv, Pty!CopierStep PROVE TermInv'
<1> USE DEF TermInv, PtyTypeOK, ParentState, CopierState, TermRight, ModeRight, PtyParts, BeforeFork,
        Pty!Gone, Pty!others, Pty!terminal, Pty!signals, Pty!tty_raw, Pty!tty_reset, Pty!tty_atexit
<1>1. CASE Pty!CopierRead
  BY <1>1 DEF Pty!CopierRead
<1>2. CASE Pty!CopierWrite
  BY <1>2 DEF Pty!CopierWrite
<1>3. CASE Pty!Notify
  BY <1>3 DEF Pty!Notify
<1>4. CASE Pty!CopierExit
  BY <1>4 DEF Pty!CopierExit
<1> QED BY <1>1, <1>2, <1>3, <1>4 DEF Pty!CopierStep

LEMMA TermOthers ==
  ASSUME TermInv, Pty!Exec \/ Pty!Type \/ Pty!Eof \/ Pty!DriverEnds \/ Pty!CommandWrites \/ Pty!CommandEnds
  PROVE  TermInv'
<1>1. /\ UNCHANGED <<opt, ppc, cpc, tty, ttystate, atexit, handler, sigcaught, term>>
      /\ driver' # "none" => driver # "none"
  BY DEF Pty!Exec, Pty!Type, Pty!Eof, Pty!DriverEnds, Pty!CommandWrites, Pty!CommandEnds,
         Pty!others, Pty!terminal, Pty!signals
<1> QED BY <1>1 DEF TermInv, PtyTypeOK, ParentState, CopierState, TermRight, ModeRight

LEMMA CopiedNext == ASSUME PtyInv, Pty!Next PROVE CopiedRight'
<1> USE DEF CopiedRight, PtyTypeOK, PtyParts, Pty!others, Pty!terminal, Pty!signals, Pty!inputs, Pty!outputs
<1>1. CopiedRight /\ PtyTypeOK
  BY DEF PtyInv, TermInv
<1>2. CASE Pty!GotOutput
  BY <1>1, <1>2 DEF Pty!GotOutput
<1>3. CASE Pty!Write
  BY <1>1, <1>3 DEF Pty!Write
<1>4. CASE Pty!sig_term
  BY <1>1, <1>4 DEF Pty!sig_term
<1>5. CASE Pty!Tell \/ Pty!Exit
  BY <1>1, <1>5 DEF Pty!Tell, Pty!Exit
<1>6. CASE Pty!Read \/ Pty!Install
  BY <1>1, <1>6 DEF Pty!Read, Pty!Install
<1>7. CASE Pty!pty_fork
  BY <1>1, <1>7 DEF Pty!pty_fork
<1>8. CASE Pty!RawMode \/ Pty!do_driver \/ Pty!LoopFork
  BY <1>1, <1>8 DEF Pty!RawMode, Pty!do_driver, Pty!LoopFork
<1>9. CASE Pty!CopierStep
  BY <1>1, <1>9 DEF Pty!CopierStep, Pty!CopierRead, Pty!CopierWrite, Pty!Notify, Pty!CopierExit
<1>10. CASE Pty!Exec
  BY <1>1, <1>10 DEF Pty!Exec
<1>11. CASE Pty!Type \/ Pty!Eof \/ Pty!DriverEnds \/ Pty!CommandEnds
  BY <1>1, <1>11 DEF Pty!Type, Pty!Eof, Pty!DriverEnds, Pty!CommandEnds
<1>12. CASE Pty!CommandWrites
  BY <1>1, <1>12 DEF Pty!CommandWrites
<1> QED BY <1>2, <1>3, <1>4, <1>5, <1>6, <1>7, <1>8, <1>9, <1>10, <1>11, <1>12 DEF Pty!Next, Pty!ParentStep

LEMMA PtyNext == PtyInv /\ [MCNext]_all => PtyInv'
<1> SUFFICES ASSUME PtyInv, [MCNext]_all PROVE PtyInv'
  OBVIOUS
<1>1. CASE Pty!Next
  BY <1>1, TermParent, TermCopier, TermOthers, CopiedNext DEF Pty!Next, PtyInv
<1>2. CASE UNCHANGED ptyVars
  BY <1>2 DEF ptyVars, PtyInv, TermInv, PtyTypeOK, ParentState, CopierState, TermRight, ModeRight, CopiedRight
<1> QED BY <1>1, <1>2 DEF MCNext, Runs, all

(* The user has the terminal back as it was, whichever of the two processes*)
(* of pty ends first and however, unless the atexit that should see to it  *)
(* failed (main.c:91); it stays raw while they copy, and all that the      *)
(* command wrote is shown, unless the end of the input ended pty.          *)
THEOREM TerminalIsKept == MCSpec => []TerminalKept
<1>1. MCInit => PtyInv
  <2> SUFFICES ASSUME MCInit PROVE PtyInv
    OBVIOUS
  <2>1. TermInv
    BY TermInit DEF MCInit
  <2>2. ppc = "start" /\ made = 0 /\ output = 0 /\ shown = 0
    BY DEF MCInit, Pty!Init
  <2>3. CopiedRight
    BY <2>2 DEF CopiedRight
  <2> QED BY <2>1, <2>3 DEF PtyInv
<1>2. PtyInv => TerminalKept
  <2> SUFFICES ASSUME PtyInv PROVE TerminalKept
    OBVIOUS
  <2>1. Pty!TerminalRestored
    BY DEF PtyInv, TermInv, PtyTypeOK, ParentState, CopierState, TermRight, ModeRight, BeforeFork,
           Pty!TerminalRestored, Pty!Gone
  <2>2. Pty!OutputComplete
    BY DEF PtyInv, TermInv, CopiedRight, TermRight, Pty!OutputComplete
  <2> QED BY <2>1, <2>2 DEF TerminalKept
<1> QED BY <1>1, <1>2, PtyNext, PTL DEF MCSpec

-----------------------------------------------------------------------------
(* rot13.  What a buffer holds follows from its aiocb; every block that    *)
(* was begun is written or has its buffer, and the last one, which may be  *)
(* short, keeps its buffer.                                                *)

Bytes13 == [from : Int, rot : BOOLEAN]
Translated(p) == [from |-> p, rot |-> TRUE]
Aiocb == [fd : {"none", "in", "out"}, offset : Nat, nbytes : Nat,
          state : {"none", "EINPROGRESS", "done"}, n : Nat]

RotTypeOK ==
  /\ size \in Nat /\ size <= MaxSize /\ length \in Nat /\ length <= size
  /\ rot_op \in [Rot!Buf -> {"UNUSED", "READ_PENDING", "WRITE_PENDING"}]
  /\ last \in [Rot!Buf -> BOOLEAN] /\ data \in [Rot!Buf -> Seq(Bytes13)]
  /\ aio \in [Rot!Buf -> Aiocb]
  /\ aiolist = {b \in Rot!Buf : rot_op[b] # "UNUSED"} /\ numop = Cardinality(aiolist)
  /\ off \in Nat /\ i \in Nat /\ rot_at \in {"scan", "suspend", "exited", "quit"}
  /\ rot_output \in [0 .. MaxSize - 1 -> Bytes13]

Written13(p) == rot_output[p] # Rot!NoByte
Active(b) == rot_op[b] # "UNUSED" \/ last[b]
EndOf(b) == aio[b].offset + Len(data[b])

(* A block ends where the input ends, or has its full length.              *)
EndRight(b) ==
  /\ Len(data[b]) <= BSZ /\ EndOf(b) <= size
  /\ \/ Len(data[b]) = BSZ
     \/ last[b] /\ EndOf(b) \in {size, length}
     \/ last[b] /\ Len(data[b]) = 0 /\ length <= aio[b].offset

(* The same before the loop has looked at it                               *)
ShortRight(b) ==
  /\ Len(data[b]) <= BSZ /\ EndOf(b) <= size
  /\ \/ Len(data[b]) = BSZ \/ EndOf(b) \in {size, length}
     \/ Len(data[b]) = 0 /\ length <= aio[b].offset

UnusedRight(b) == rot_op[b] = "UNUSED" => aio[b].state # "EINPROGRESS"
ReadRight(b) ==
  rot_op[b] = "READ_PENDING" =>
    /\ aio[b].fd = "in" /\ aio[b].nbytes = BSZ /\ aio[b].state # "none"
    /\ aio[b].state = "done" =>
         /\ aio[b].n = Len(data[b]) /\ ShortRight(b)
         /\ \A k \in 1 .. Len(data[b]) : data[b][k] = Rot!Byte(aio[b].offset + k - 1)
WriteRight(b) ==
  rot_op[b] = "WRITE_PENDING" =>
    /\ aio[b].fd = "out" /\ aio[b].nbytes = Len(data[b]) /\ aio[b].state # "none"
    /\ EndRight(b)
    /\ \A k \in 1 .. Len(data[b]) : data[b][k] = Translated(aio[b].offset + k - 1)
    /\ aio[b].state = "done" /\ aio[b].n = aio[b].nbytes =>
         \A p \in 0 .. MaxSize - 1 : aio[b].offset <= p /\ p < EndOf(b) => Written13(p)

(* The blocks of the buffers in use, and the last block                    *)
BlockRight(b) ==
  /\ Active(b) => aio[b].offset < size /\ aio[b].offset + BSZ <= off
  /\ rot_op[b] # "UNUSED" /\ ~last[b] => aio[b].offset + BSZ < size
LastRight(b) ==
  last[b] =>
    /\ off >= size /\ aio[b].offset + BSZ = off
    /\ \A c \in Rot!Buf \ {b} : ~last[c] /\ (Active(c) => aio[c].offset + BSZ <= aio[b].offset)
    /\ \A p \in 0 .. MaxSize - 1 :
         Written13(p) /\ aio[b].offset <= p => rot_op[b] # "READ_PENDING" /\ p < EndOf(b)
    /\ rot_op[b] = "UNUSED" =>
         /\ EndRight(b)
         /\ \A p \in 0 .. MaxSize - 1 : aio[b].offset <= p /\ p < EndOf(b) => Written13(p)
BufferRight(b) == UnusedRight(b) /\ ReadRight(b) /\ WriteRight(b) /\ BlockRight(b) /\ LastRight(b)

Covered ==
  \A p \in 0 .. MaxSize - 1 :
    /\ rot_output[p] \in {Rot!NoByte, Translated(p)}
    /\ Written13(p) => p < off /\ p < size
    /\ p < size /\ p < off =>
         \/ Written13(p)
         \/ \E b \in Rot!Buf : Active(b) /\ aio[b].offset <= p /\ p < aio[b].offset + BSZ
ExitRight == rot_at = "exited" => off >= size /\ aiolist = {}

RotInv == RotTypeOK /\ (\A b \in Rot!Buf : BufferRight(b)) /\ Covered /\ ExitRight

LEMMA TranslateIs ==
  ASSUME NEW p \in Int
  PROVE  /\ Rot!Byte(p) \in Bytes13 /\ Translated(p) \in Bytes13
         /\ Rot!translate(Rot!Byte(p)) = Translated(p)
         /\ Translated(p) # Rot!NoByte /\ Rot!NoByte \in Bytes13
<1>1. Rot!Byte(p) = [from |-> p, rot |-> FALSE] /\ Rot!NoByte = [from |-> -1, rot |-> FALSE]
  BY DEF Rot!Byte, Rot!NoByte
<1>2. Rot!translate(Rot!Byte(p)) = Translated(p)
  <2>1. Rot!translate(Rot!Byte(p)) = [Rot!Byte(p) EXCEPT !.rot = ~Rot!Byte(p).rot]
    BY DEF Rot!translate
  <2>2. (~Rot!Byte(p).rot) = TRUE
    BY <1>1
  <2>3. Rot!translate(Rot!Byte(p)) = [Rot!Byte(p) EXCEPT !.rot = TRUE]
    BY <2>1, <2>2, Zenon
  <2>4. \A x : [[from |-> p, rot |-> FALSE] EXCEPT !.rot = x] = [from |-> p, rot |-> x]
    OBVIOUS
  <2>5. Rot!translate(Rot!Byte(p)) = [[from |-> p, rot |-> FALSE] EXCEPT !.rot = TRUE]
    BY <1>1, <2>3, Zenon
  <2> QED BY <2>4, <2>5, Zenon DEF Translated
<1>3. Translated(p).rot = TRUE /\ Rot!NoByte.rot = FALSE
  BY <1>1 DEF Translated
<1>4. -1 \in Int
  OBVIOUS
<1> QED BY <1>1, <1>2, <1>3, <1>4 DEF Bytes13, Translated

LEMMA BufIs == Rot!Buf = 0 .. NBUF - 1 /\ IsFiniteSet(Rot!Buf)
  BY RotAssumption, FS_Interval DEF Rot!Buf

LEMMA FunctionIsSeq ==
  ASSUME NEW S, NEW l \in Nat, NEW f \in [1 .. l -> S]
  PROVE  f \in Seq(S) /\ Len(f) = l
  OBVIOUS

(* What a read brings                                                      *)
Got(o, m) == [k \in 1 .. m |-> Rot!Byte(o + k - 1)]
LEMMA GotIs ==
  ASSUME NEW o \in Nat, NEW m \in Int
  PROVE  /\ Got(o, m) \in Seq(Bytes13) /\ Len(Got(o, m)) = (IF m > 0 THEN m ELSE 0)
         /\ \A k \in 1 .. Len(Got(o, m)) : Got(o, m)[k] = Rot!Byte(o + k - 1)
<1> DEFINE f == Got(o, m)
<1>1. PICK l \in Nat : l = IF m > 0 THEN m ELSE 0
  OBVIOUS
<1>2. 1 .. m = 1 .. l
  BY <1>1
<1>3. f = [k \in 1 .. l |-> Rot!Byte(o + k - 1)]
  BY <1>2 DEF Got
<1> HIDE DEF f
<1>4. \A k \in 1 .. l : Rot!Byte(o + k - 1) \in Bytes13
  BY TranslateIs
<1>5. f \in [1 .. l -> Bytes13]
  BY <1>3, <1>4
<1>6. f \in Seq(Bytes13) /\ Len(f) = l
  BY <1>5, FunctionIsSeq, Zenon
<1>7. Len(f) = (IF m > 0 THEN m ELSE 0) /\ \A k \in 1 .. Len(f) : f[k] = Rot!Byte(o + k - 1)
  BY <1>1, <1>3, <1>6
<1> QED BY <1>6, <1>7 DEF f

LEMMA CompletedIs ==
  ASSUME NEW b, NEW l \in Nat, aio[b] \in Aiocb, aio'[b] = [aio[b] EXCEPT !.state = "done", !.n = l]
  PROVE  /\ aio'[b] \in Aiocb /\ aio'[b].fd = aio[b].fd /\ aio'[b].offset = aio[b].offset
         /\ aio'[b].nbytes = aio[b].nbytes /\ aio'[b].state = "done" /\ aio'[b].n = l
  BY DEF Aiocb

(* The bytes of a buffer, translated                                       *)
LEMMA TranslatedIs ==
  ASSUME NEW o \in Nat, NEW d \in Seq(Bytes13), \A k \in 1 .. Len(d) : d[k] = Rot!Byte(o + k - 1),
         NEW f, f = [k \in DOMAIN d |-> Rot!translate(d[k])]
  PROVE  /\ f \in Seq(Bytes13) /\ Len(f) = Len(d)
         /\ \A k \in 1 .. Len(d) : f[k] = Translated(o + k - 1)
<1>1. PICK l \in Nat : l = Len(d)
  OBVIOUS
<1>2. DOMAIN d = 1 .. l
  BY <1>1
<1>3. \A k \in 1 .. l : Rot!translate(d[k]) = Translated(o + k - 1) /\ Translated(o + k - 1) \in Bytes13
  BY <1>1, TranslateIs
<1>4. f = [k \in 1 .. l |-> Translated(o + k - 1)]
  BY <1>2, <1>3
<1>5. f \in Seq(Bytes13) /\ Len(f) = l
  BY <1>3, <1>4
<1> QED BY <1>1, <1>4, <1>5

SameBuffer(c) ==
  /\ rot_op'[c] = rot_op[c] /\ last'[c] = last[c] /\ data'[c] = data[c] /\ aio'[c] = aio[c]

(* A buffer that a step does not touch                                     *)
LEMMA OtherKept ==
  ASSUME NEW c \in Rot!Buf, BufferRight(c), SameBuffer(c), UNCHANGED <<size, length>>,
         off \in Nat, off' \in Nat, off' >= off, aio[c] \in Aiocb, BSZ \in Nat,
         \A p \in 0 .. MaxSize - 1 : Written13(p) => Written13(p)'
  PROVE  UnusedRight(c)' /\ ReadRight(c)' /\ WriteRight(c)' /\ BlockRight(c)'
<1>1. aio[c].offset \in Nat
  BY DEF Aiocb
<1>2. UnusedRight(c)' /\ BlockRight(c)'
  BY <1>1 DEF BufferRight, SameBuffer, UnusedRight, BlockRight, Active
<1>3. ReadRight(c)'
  BY DEF BufferRight, SameBuffer, ReadRight, ShortRight, EndOf, Rot!Byte
<1>4. WriteRight(c)'
  BY DEF BufferRight, SameBuffer, WriteRight, EndRight, EndOf, Translated
<1> QED BY <1>2, <1>3, <1>4

(* The last buffer, while the steps of the others keep away from its block *)
LEMMA LastKept ==
  ASSUME NEW c \in Rot!Buf, BufferRight(c), SameBuffer(c), UNCHANGED <<size, length, off>>,
         \A p \in 0 .. MaxSize - 1 : Written13(p) => Written13(p)',
         last[c] => \A b \in Rot!Buf \ {c} :
                      ~last'[b] /\ (Active(b)' => Active(b)) /\ aio'[b].offset = aio[b].offset,
         last[c] => \A p \in 0 .. MaxSize - 1 : Written13(p)' => Written13(p) \/ p < aio[c].offset,
         aio[c].offset \in Nat
  PROVE  LastRight(c)'
<1> SUFFICES ASSUME last'[c] PROVE LastRight(c)'
  BY DEF LastRight
<1>1. last[c] /\ LastRight(c)
  BY DEF SameBuffer, BufferRight
<1>2. off' >= size' /\ aio'[c].offset + BSZ = off'
  BY <1>1 DEF LastRight, SameBuffer
<1>3. \A b \in Rot!Buf \ {c} : ~last'[b] /\ (Active(b)' => aio'[b].offset + BSZ <= aio'[c].offset)
  BY <1>1 DEF LastRight, SameBuffer
<1>4. \A p \in 0 .. MaxSize - 1 :
        Written13(p)' /\ aio'[c].offset <= p => rot_op'[c] # "READ_PENDING" /\ p < EndOf(c)'
  <2> TAKE p \in 0 .. MaxSize - 1
  <2>1. Written13(p)' /\ aio'[c].offset <= p => Written13(p) /\ aio[c].offset <= p
    BY <1>1 DEF SameBuffer
  <2>2. EndOf(c)' = EndOf(c)
    BY DEF EndOf, SameBuffer
  <2> QED BY <1>1, <2>1, <2>2 DEF LastRight, SameBuffer
<1>5. rot_op'[c] = "UNUSED" =>
        EndRight(c)' /\ \A p \in 0 .. MaxSize - 1 : aio'[c].offset <= p /\ p < EndOf(c)' => Written13(p)'
  BY <1>1 DEF LastRight, SameBuffer, EndRight, EndOf
<1> QED BY <1>2, <1>3, <1>4, <1>5 DEF LastRight

(* Steps of the loop that change neither a buffer nor the files            *)
LEMMA RotPasses ==
  ASSUME RotInv, UNCHANGED <<size, length, rot_op, last, data, aio, aiolist, off, numop, rot_output>>,
         i' \in Nat, rot_at' \in {"scan", "suspend", "quit", "exited"},
         rot_at' = "exited" => off >= size /\ aiolist = {}
  PROVE  RotInv'
<1>1. RotTypeOK' /\ ExitRight'
  BY DEF RotInv, RotTypeOK, ExitRight, Rot!Buf
<1>2. Covered'
  BY DEF RotInv, Covered, Written13, Active, Rot!NoByte, Rot!Byte, Translated, Rot!Buf
<1>3. \A b \in Rot!Buf : BufferRight(b)'
  BY DEF RotInv, BufferRight, UnusedRight, ReadRight, WriteRight, BlockRight, LastRight, ShortRight, EndRight,
         EndOf, Active, Written13, Rot!NoByte, Rot!Byte, Translated, Rot!Buf
<1> QED BY <1>1, <1>2, <1>3 DEF RotInv, Rot!Buf
(* The other buffers, when a step changes one, b, and not its block        *)
LEMMA OthersRight ==
  ASSUME RotInv, NEW b \in Rot!Buf, \A c \in Rot!Buf \ {b} : SameBuffer(c),
         UNCHANGED <<size, length, off, last>>, Active(b)' => Active(b), aio'[b].offset = aio[b].offset,
         \A p \in 0 .. MaxSize - 1 : Written13(p) => Written13(p)',
         \A p \in 0 .. MaxSize - 1 :
           Written13(p)' => Written13(p) \/ (Active(b) /\ p < aio[b].offset + BSZ)
  PROVE  \A c \in Rot!Buf \ {b} : BufferRight(c)'
<1> SUFFICES ASSUME NEW c \in Rot!Buf, c # b PROVE BufferRight(c)'
  OBVIOUS
<1>1. /\ aio[c] \in Aiocb /\ aio[b] \in Aiocb /\ off \in Nat /\ BSZ \in Nat /\ MaxSize \in Nat
      /\ BufferRight(c) /\ SameBuffer(c)
  BY RotAssumption DEF RotInv, RotTypeOK
<1>2. aio[c].offset \in Nat /\ aio[b].offset \in Nat
  BY <1>1 DEF Aiocb
<1>3. UnusedRight(c)' /\ ReadRight(c)' /\ WriteRight(c)' /\ BlockRight(c)'
  BY <1>1, OtherKept
<1>4. last[c] => \A d \in Rot!Buf \ {c} :
                   ~last'[d] /\ (Active(d)' => Active(d)) /\ aio'[d].offset = aio[d].offset
  <2> SUFFICES ASSUME last[c], NEW d \in Rot!Buf, d # c
               PROVE  ~last'[d] /\ (Active(d)' => Active(d)) /\ aio'[d].offset = aio[d].offset
    OBVIOUS
  <2>1. ~last[d]
    BY <1>1 DEF BufferRight, LastRight
  <2>2. CASE d = b
    BY <2>1, <2>2
  <2>3. CASE d # b
    BY <2>1, <2>3 DEF SameBuffer, Active
  <2> QED BY <2>2, <2>3
<1>5. last[c] => \A p \in 0 .. MaxSize - 1 : Written13(p)' => Written13(p) \/ p < aio[c].offset
  <2> SUFFICES ASSUME last[c], NEW p \in 0 .. MaxSize - 1, Written13(p)', ~Written13(p)
               PROVE  p < aio[c].offset
    OBVIOUS
  <2>1. Active(b) /\ p < aio[b].offset + BSZ
    OBVIOUS
  <2>2. aio[b].offset + BSZ <= aio[c].offset
    BY <1>1, <2>1 DEF BufferRight, LastRight
  <2> QED BY <1>1, <1>2, <2>1, <2>2
<1>6. LastRight(c)'
  BY <1>1, <1>2, <1>4, <1>5, LastKept
<1> QED BY <1>3, <1>6 DEF BufferRight

(* A read begins: no block is the last one yet.                            *)
LEMMA ReadBegins ==
  ASSUME RotInv, Rot!Unused, off < size
  PROVE  RotInv'
<1> DEFINE a == [fd |-> "in", offset |-> off, nbytes |-> BSZ, state |-> "EINPROGRESS", n |-> 0]
<1>0. PICK b \in Rot!Buf : b = i /\ rot_op[b] = "UNUSED"
  BY DEF Rot!Unused
<1>1. /\ rot_op[b] = "UNUSED" /\ rot_at = "scan" /\ rot_at' = rot_at /\ i' = i + 1
      /\ rot_op' = [rot_op EXCEPT ![b] = "READ_PENDING"]
      /\ last' = [last EXCEPT ![b] = last[b] \/ off + BSZ >= size]
      /\ aio' = [aio EXCEPT ![b] = a]
      /\ aiolist' = aiolist \cup {b} /\ off' = off + BSZ /\ numop' = numop + 1
      /\ UNCHANGED <<size, length, data, rot_output>>
  BY <1>0 DEF Rot!Unused, Rot!Advance, Rot!file
<1>2. RotTypeOK /\ Covered /\ BSZ \in Nat /\ BSZ > 0 /\ MaxSize \in Nat /\ off \in Nat /\ size \in Nat
  BY RotAssumption DEF RotInv, RotTypeOK
<1>3. \A c \in Rot!Buf : ~last[c] /\ BufferRight(c) /\ aio[c] \in Aiocb
  BY <1>2 DEF RotInv, RotTypeOK, BufferRight, LastRight
<1>4. a \in Aiocb
  BY <1>2 DEF Aiocb
<1>5. (last[b] \/ off + BSZ >= size) \in BOOLEAN
  BY <1>1, <1>2 DEF RotTypeOK
<1> HIDE DEF a
<1>6. /\ rot_op'[b] = "READ_PENDING" /\ aio'[b] = a /\ (last'[b] <=> off + BSZ >= size)
      /\ data'[b] = data[b]
  BY <1>1, <1>2, <1>3 DEF RotTypeOK
<1>7. \A c \in Rot!Buf \ {b} : SameBuffer(c)
  BY <1>1, <1>2 DEF RotTypeOK, SameBuffer
<1>8. \A p : Written13(p)' <=> Written13(p)
  BY <1>1 DEF Written13, Rot!NoByte, Rot!Byte
<1>9. RotTypeOK'
  <2>1. rot_op' \in [Rot!Buf -> {"UNUSED", "READ_PENDING", "WRITE_PENDING"}] /\ aio' \in [Rot!Buf -> Aiocb]
    BY <1>1, <1>2, <1>4 DEF RotTypeOK
  <2>2. last' \in [Rot!Buf -> BOOLEAN]
    BY <1>1, <1>2, <1>5, Zenon DEF RotTypeOK
  <2>3. aiolist' = {c \in Rot!Buf : rot_op'[c] # "UNUSED"}
    BY <1>1, <1>2 DEF RotTypeOK
  <2>4. IsFiniteSet(aiolist) /\ b \notin aiolist
    BY <1>1, <1>2, BufIs, FS_Subset DEF RotTypeOK
  <2>5. numop' = Cardinality(aiolist')
    BY <1>1, <1>2, <2>4, FS_AddElement DEF RotTypeOK
  <2>6. off' \in Nat /\ i' \in Nat
    BY <1>1, <1>2 DEF RotTypeOK
  <2> QED BY <1>1, <1>2, <2>1, <2>2, <2>3, <2>5, <2>6 DEF RotTypeOK, Rot!Buf
<1>10. /\ a.fd = "in" /\ a.offset = off /\ a.nbytes = BSZ /\ a.state = "EINPROGRESS" /\ a.n = 0
  BY DEF a
<1>11. \A c \in Rot!Buf : Active(c) => c # b /\ Active(c)' /\ aio'[c].offset = aio[c].offset
  BY <1>1, <1>3, <1>7 DEF Active, SameBuffer
<1>12. \A c \in Rot!Buf \ {b} : Active(c)' => Active(c)
  BY <1>7 DEF Active, SameBuffer
<1>13. BufferRight(b)'
  <2>1. UnusedRight(b)' /\ ReadRight(b)' /\ WriteRight(b)'
    BY <1>6, <1>10 DEF UnusedRight, ReadRight, WriteRight
  <2>2. BlockRight(b)'
    BY <1>1, <1>2, <1>6, <1>10 DEF BlockRight
  <2>3. \A c \in Rot!Buf \ {b} : ~last'[c] /\ (Active(c)' => aio'[c].offset + BSZ <= off)
    BY <1>3, <1>7, <1>12 DEF SameBuffer, BufferRight, BlockRight
  <2>4. \A p \in 0 .. MaxSize - 1 : Written13(p)' => p < off
    BY <1>2, <1>8 DEF Covered
  <2>5. LastRight(b)'
    BY <1>1, <1>2, <1>6, <1>10, <2>3, <2>4 DEF LastRight
  <2> QED BY <2>1, <2>2, <2>5 DEF BufferRight
<1>14. ASSUME NEW c \in Rot!Buf, c # b PROVE BufferRight(c)'
  <2>1. UnusedRight(c)' /\ ReadRight(c)' /\ WriteRight(c)' /\ BlockRight(c)'
    <3>1. off' >= off /\ off' \in Nat
      BY <1>1, <1>2
    <3> QED BY <1>1, <1>2, <1>3, <1>7, <1>8, <1>14, <3>1, OtherKept
  <2>2. LastRight(c)'
    BY <1>3, <1>7, <1>14 DEF LastRight, SameBuffer
  <2> QED BY <2>1, <2>2 DEF BufferRight
<1>15. Covered'
  <2> SUFFICES ASSUME NEW p \in 0 .. MaxSize - 1
               PROVE  /\ rot_output'[p] \in {Rot!NoByte, Translated(p)}
                      /\ Written13(p)' => p < off' /\ p < size'
                      /\ p < size' /\ p < off' =>
                           \/ Written13(p)'
                           \/ \E c \in Rot!Buf : Active(c)' /\ aio'[c].offset <= p /\ p < aio'[c].offset + BSZ
    BY DEF Covered, Rot!NoByte, Rot!Byte, Translated, Rot!Buf
  <2>1. rot_output'[p] \in {Rot!NoByte, Translated(p)} /\ (Written13(p)' => p < off' /\ p < size')
    BY <1>1, <1>2, <1>8 DEF Covered
  <2>2. CASE p < off
    BY <1>1, <1>2, <1>8, <1>11, <2>2 DEF Covered
  <2>3. CASE ~(p < off) /\ p < off'
    <3>1. Active(b)' /\ aio'[b].offset = off
      BY <1>6, <1>10 DEF Active
    <3>2. off <= p /\ p < off + BSZ
      BY <1>1, <1>2, <2>3
    <3> QED BY <2>1, <3>1, <3>2
  <2> QED BY <2>1, <2>2, <2>3
<1>16. ExitRight'
  BY <1>1 DEF ExitRight
<1> QED BY <1>9, <1>13, <1>14, <1>15, <1>16 DEF RotInv, Rot!Buf

(* A read is complete: the buffer is translated, and its write begins.     *)
LEMMA ReadEnds == ASSUME RotInv, Rot!ReadDone PROVE RotInv'
<1>0. PICK b \in Rot!Buf : b = i /\ rot_op[b] = "READ_PENDING" /\ aio[b].state = "done"
  BY DEF Rot!ReadDone
<1>1. /\ RotTypeOK /\ Covered /\ ExitRight /\ rot_at = "scan" /\ BSZ \in Nat /\ MaxSize \in Nat
      /\ UNCHANGED <<size, length, last, aiolist, off, numop, rot_output>>
  BY <1>0, RotAssumption DEF RotInv, Rot!ReadDone, Rot!file
<1>2. CASE rot_at' = "quit" /\ UNCHANGED <<i, rot_op, data, aio>>
  BY <1>1, <1>2, RotPasses DEF RotTypeOK
<1>3. ASSUME aio[b].n = BSZ \/ last[b],
             data' = [data EXCEPT ![b] = [k \in DOMAIN data[b] |-> Rot!translate(data[b][k])]],
             rot_op' = [rot_op EXCEPT ![b] = "WRITE_PENDING"],
             aio' = [aio EXCEPT ![b].fd = "out", ![b].nbytes = aio[b].n, ![b].state = "EINPROGRESS"],
             rot_at' = rot_at, i' = i + 1
      PROVE  RotInv'
  <2>1. /\ data[b] \in Seq(Bytes13) /\ aio[b] \in Aiocb /\ aio[b].offset \in Nat /\ aio[b].n = Len(data[b])
        /\ ShortRight(b) /\ BufferRight(b) /\ aio[b].fd = "in" /\ i \in Nat
        /\ \A k \in 1 .. Len(data[b]) : data[b][k] = Rot!Byte(aio[b].offset + k - 1)
    BY <1>0, <1>1 DEF RotInv, RotTypeOK, BufferRight, ReadRight, Aiocb
  <2>2. /\ data'[b] \in Seq(Bytes13) /\ Len(data'[b]) = Len(data[b])
        /\ \A k \in 1 .. Len(data[b]) : data'[b][k] = Translated(aio[b].offset + k - 1)
    <3>1. data'[b] = [k \in DOMAIN data[b] |-> Rot!translate(data[b][k])]
      BY <1>1, <1>3 DEF RotTypeOK
    <3> DEFINE o == aio[b].offset
               d == data[b]
               f == data'[b]
    <3>2. o \in Nat /\ d \in Seq(Bytes13) /\ f = [k \in DOMAIN d |-> Rot!translate(d[k])]
      BY <2>1, <3>1
    <3>3. \A k \in 1 .. Len(d) : d[k] = Rot!Byte(o + k - 1)
      BY <2>1
    <3> HIDE DEF o, d, f
    <3>4. f \in Seq(Bytes13) /\ Len(f) = Len(d) /\ \A k \in 1 .. Len(d) : f[k] = Translated(o + k - 1)
      BY <3>2, <3>3, TranslatedIs
    <3> QED BY <3>4 DEF o, d, f
  <2>3. /\ aio'[b] \in Aiocb /\ aio'[b].fd = "out" /\ aio'[b].offset = aio[b].offset
        /\ aio'[b].nbytes = Len(data[b]) /\ aio'[b].state = "EINPROGRESS"
        /\ aio' = [aio EXCEPT ![b] = aio'[b]]
    <3>1. aio'[b] = [aio[b] EXCEPT !.fd = "out", !.nbytes = aio[b].n, !.state = "EINPROGRESS"]
      BY <1>1, <1>3 DEF RotTypeOK
    <3>2. \A c \in Rot!Buf : c # b => aio'[c] = aio[c]
      BY <1>1, <1>3 DEF RotTypeOK
    <3> QED BY <1>1, <1>3, <2>1, <3>1, <3>2 DEF RotTypeOK, Aiocb
  <2>4. rot_op'[b] = "WRITE_PENDING" /\ last'[b] = last[b] /\ rot_op[b] # "UNUSED" /\ rot_op'[b] # "UNUSED"
    BY <1>0, <1>1, <1>3 DEF RotTypeOK
  <2>5. \A c \in Rot!Buf \ {b} : SameBuffer(c)
    BY <1>1, <1>3, <2>3 DEF RotTypeOK, SameBuffer
  <2>6. \A p : Written13(p)' <=> Written13(p)
    BY <1>1 DEF Written13, Rot!NoByte, Rot!Byte
  <2>7. RotTypeOK'
    <3>1. rot_op' \in [Rot!Buf -> {"UNUSED", "READ_PENDING", "WRITE_PENDING"}]
      BY <1>1, <1>3 DEF RotTypeOK
    <3>2. aio' \in [Rot!Buf -> Aiocb] /\ data' \in [Rot!Buf -> Seq(Bytes13)]
      <4> DEFINE g == [k \in DOMAIN data[b] |-> Rot!translate(data[b][k])]
      <4>1. data' = [data EXCEPT ![b] = g] /\ data'[b] = g
        BY <1>1, <1>3 DEF RotTypeOK
      <4> HIDE DEF g
      <4> QED BY <1>1, <2>2, <2>3, <4>1 DEF RotTypeOK
    <3>3. aiolist' = {c \in Rot!Buf : rot_op'[c] # "UNUSED"}
      BY <1>1, <2>4, <2>5 DEF RotTypeOK, SameBuffer
    <3>4. i' \in Nat
      BY <1>3, <2>1
    <3> QED BY <1>1, <1>3, <3>1, <3>2, <3>3, <3>4 DEF RotTypeOK, Rot!Buf
  <2>8. /\ \A p \in 0 .. MaxSize - 1 : Written13(p) => Written13(p)'
        /\ \A p \in 0 .. MaxSize - 1 :
             Written13(p)' => Written13(p) \/ (Active(b) /\ p < aio[b].offset + BSZ)
    BY <2>6, Zenon
  <2>9. Active(b) /\ Active(b)'
    BY <2>4 DEF Active
  <2>10. \A c \in Rot!Buf \ {b} : BufferRight(c)'
    BY <1>1, <2>3, <2>5, <2>8, <2>9, OthersRight
  <2>11. BufferRight(b)'
    <3>1. UnusedRight(b)' /\ ReadRight(b)'
      BY <2>4 DEF UnusedRight, ReadRight
    <3>2. EndOf(b)' = EndOf(b) /\ EndRight(b)'
      BY <1>1, <1>3, <2>1, <2>2, <2>3, <2>4 DEF ShortRight, EndRight, EndOf
    <3>3. WriteRight(b)'
      BY <2>2, <2>3, <3>2 DEF WriteRight, Translated
    <3>4. BlockRight(b)'
      BY <1>1, <2>1, <2>3, <2>4, <2>9 DEF BufferRight, BlockRight
    <3>5. LastRight(b)'
      <4> SUFFICES ASSUME last[b] PROVE LastRight(b)'
        BY <2>4 DEF LastRight
      <4>1. LastRight(b)
        BY <2>1 DEF BufferRight
      <4>2. \A c \in Rot!Buf \ {b} : ~last'[c] /\ (Active(c)' => aio'[c].offset + BSZ <= aio'[b].offset)
        BY <2>3, <2>5, <4>1 DEF LastRight, SameBuffer, Active
      <4>3. \A p \in 0 .. MaxSize - 1 : Written13(p)' => ~(aio'[b].offset <= p)
        BY <1>0, <2>3, <2>6, <4>1 DEF LastRight
      <4> QED BY <1>1, <2>3, <2>4, <4>1, <4>2, <4>3 DEF LastRight
    <3> QED BY <3>1, <3>3, <3>4, <3>5 DEF BufferRight
  <2>12. Covered'
    <3>1. \A c \in Rot!Buf : Active(c) => Active(c)' /\ aio'[c].offset = aio[c].offset
      BY <2>3, <2>5, <2>9 DEF Active, SameBuffer
    <3> QED BY <1>1, <2>6, <3>1 DEF Covered, Rot!NoByte, Rot!Byte, Translated, Rot!Buf
  <2>13. ExitRight'
    BY <1>1, <1>3 DEF ExitRight
  <2> QED BY <2>7, <2>10, <2>11, <2>12, <2>13 DEF RotInv, Rot!Buf
<1> QED BY <1>0, <1>1, <1>2, <1>3 DEF Rot!ReadDone, Rot!Advance, RotTypeOK

(* A write is complete: the buffer is free, and its block written.         *)
LEMMA WriteEnds == ASSUME RotInv, Rot!WriteDone PROVE RotInv'
<1>0. PICK b \in Rot!Buf : b = i /\ rot_op[b] = "WRITE_PENDING" /\ aio[b].state = "done"
  BY DEF Rot!WriteDone
<1>1. /\ RotTypeOK /\ Covered /\ ExitRight /\ rot_at = "scan" /\ BSZ \in Nat /\ MaxSize \in Nat
      /\ UNCHANGED <<size, length, last, data, aio, off, rot_output>>
  BY <1>0, RotAssumption DEF RotInv, Rot!WriteDone, Rot!file
<1>2. CASE rot_at' = "quit" /\ UNCHANGED <<i, rot_op, aiolist, numop>>
  BY <1>1, <1>2, RotPasses DEF RotTypeOK
<1>3. ASSUME aio[b].n = aio[b].nbytes, rot_op' = [rot_op EXCEPT ![b] = "UNUSED"],
             aiolist' = aiolist \ {b}, numop' = numop - 1, rot_at' = rot_at, i' = i + 1
      PROVE  RotInv'
  <2>1. /\ data[b] \in Seq(Bytes13) /\ aio[b] \in Aiocb /\ aio[b].offset \in Nat /\ BufferRight(b) /\ i \in Nat
        /\ EndRight(b)
        /\ \A p \in 0 .. MaxSize - 1 : aio[b].offset <= p /\ p < EndOf(b) => Written13(p)
    BY <1>0, <1>1, <1>3 DEF RotInv, RotTypeOK, BufferRight, WriteRight, Aiocb
  <2>2. rot_op'[b] = "UNUSED" /\ rot_op[b] # "UNUSED" /\ aio'[b] = aio[b] /\ last'[b] = last[b] /\ data'[b] = data[b]
    BY <1>0, <1>1, <1>3 DEF RotTypeOK
  <2>3. \A c \in Rot!Buf \ {b} : SameBuffer(c)
    BY <1>1, <1>3 DEF RotTypeOK, SameBuffer
  <2>4. \A p : Written13(p)' <=> Written13(p)
    BY <1>1 DEF Written13, Rot!NoByte, Rot!Byte
  <2>5. RotTypeOK'
    <3>1. rot_op' \in [Rot!Buf -> {"UNUSED", "READ_PENDING", "WRITE_PENDING"}]
      BY <1>1, <1>3 DEF RotTypeOK
    <3>2. aiolist' = {c \in Rot!Buf : rot_op'[c] # "UNUSED"}
      BY <1>1, <1>3, <2>2, <2>3 DEF RotTypeOK, SameBuffer
    <3>3. b \in aiolist /\ IsFiniteSet(aiolist)
      BY <1>1, <2>2, BufIs, FS_Subset DEF RotTypeOK
    <3>4. numop' = Cardinality(aiolist')
      BY <1>1, <1>3, <3>3, FS_RemoveElement DEF RotTypeOK
    <3>5. i' \in Nat
      BY <1>3, <2>1
    <3> QED BY <1>1, <1>3, <3>1, <3>2, <3>4, <3>5 DEF RotTypeOK, Rot!Buf
  <2>6. /\ \A p \in 0 .. MaxSize - 1 : Written13(p) => Written13(p)'
        /\ \A p \in 0 .. MaxSize - 1 :
             Written13(p)' => Written13(p) \/ (Active(b) /\ p < aio[b].offset + BSZ)
    BY <2>4, Zenon
  <2>7. Active(b) /\ (Active(b)' <=> last[b])
    BY <2>2 DEF Active
  <2>8. \A c \in Rot!Buf \ {b} : BufferRight(c)'
    BY <1>1, <2>2, <2>3, <2>6, <2>7, OthersRight
  <2>9. EndOf(b)' = EndOf(b) /\ EndRight(b)'
    BY <1>1, <2>1, <2>2 DEF EndRight, EndOf
  <2>10. BufferRight(b)'
    <3>1. UnusedRight(b)' /\ ReadRight(b)' /\ WriteRight(b)'
      BY <1>0, <2>2 DEF UnusedRight, ReadRight, WriteRight
    <3>2. BlockRight(b)'
      BY <1>1, <2>1, <2>2, <2>7 DEF BufferRight, BlockRight
    <3>3. LastRight(b)'
      <4> SUFFICES ASSUME last[b] PROVE LastRight(b)'
        BY <2>2 DEF LastRight
      <4>1. LastRight(b)
        BY <2>1 DEF BufferRight
      <4>2. \A c \in Rot!Buf \ {b} : ~last'[c] /\ (Active(c)' => aio'[c].offset + BSZ <= aio'[b].offset)
        BY <2>2, <2>3, <4>1 DEF LastRight, SameBuffer, Active
      <4>3. \A p \in 0 .. MaxSize - 1 : Written13(p)' /\ aio'[b].offset <= p => p < EndOf(b)'
        BY <2>2, <2>4, <2>9, <4>1 DEF LastRight
      <4>4. \A p \in 0 .. MaxSize - 1 : aio'[b].offset <= p /\ p < EndOf(b)' => Written13(p)'
        BY <2>1, <2>2, <2>4, <2>9
      <4> QED BY <1>1, <2>2, <2>9, <4>1, <4>2, <4>3, <4>4 DEF LastRight
    <3> QED BY <3>1, <3>2, <3>3 DEF BufferRight
  <2>11. Covered'
    <3> SUFFICES ASSUME NEW p \in 0 .. MaxSize - 1
                 PROVE  /\ rot_output'[p] \in {Rot!NoByte, Translated(p)}
                        /\ Written13(p)' => p < off' /\ p < size'
                        /\ p < size' /\ p < off' =>
                             \/ Written13(p)'
                             \/ \E c \in Rot!Buf : Active(c)' /\ aio'[c].offset <= p /\ p < aio'[c].offset + BSZ
      BY DEF Covered, Rot!NoByte, Rot!Byte, Translated, Rot!Buf
    <3>1. rot_output'[p] \in {Rot!NoByte, Translated(p)} /\ (Written13(p)' => p < off' /\ p < size')
      BY <1>1, <2>4 DEF Covered
    <3>2. ASSUME p < size, p < off, ~Written13(p)
          PROVE  \E c \in Rot!Buf : Active(c)' /\ aio'[c].offset <= p /\ p < aio'[c].offset + BSZ
      <4>1. PICK c \in Rot!Buf : Active(c) /\ aio[c].offset <= p /\ p < aio[c].offset + BSZ
        BY <1>1, <3>2 DEF Covered
      <4>2. CASE c # b
        BY <2>3, <4>1, <4>2 DEF SameBuffer, Active
      <4>3. CASE c = b /\ last[b]
        BY <2>2, <2>7, <4>1, <4>3
      <4>4. CASE c = b /\ ~last[b]
        BY <1>1, <2>1, <3>2, <4>1, <4>4 DEF EndRight, EndOf
      <4> QED BY <4>2, <4>3, <4>4
    <3> QED BY <1>1, <2>4, <3>1, <3>2
  <2>12. ExitRight'
    BY <1>1, <1>3 DEF ExitRight
  <2> QED BY <2>5, <2>8, <2>10, <2>11, <2>12 DEF RotInv, Rot!Buf
<1> QED BY <1>0, <1>1, <1>2, <1>3 DEF Rot!WriteDone, Rot!Advance, RotTypeOK

(* The system reads a block.                                               *)
LEMMA BlockIsRead ==
  ASSUME RotInv, NEW b \in Rot!Buf, aio[b].state = "EINPROGRESS", aio[b].fd = "in",
         NEW m \in Int, m = Rot!Least(aio[b].offset + BSZ, length) - aio[b].offset,
         NEW got, got = [k \in 1 .. m |-> Rot!Byte(aio[b].offset + k - 1)],
         data' = [data EXCEPT ![b] = got],
         aio' = [aio EXCEPT ![b].state = "done", ![b].n = Len(got)],
         UNCHANGED <<size, length, rot_op, last, aiolist, off, numop, i, rot_at, rot_output>>
  PROVE  RotInv'
<1>1. /\ RotTypeOK /\ Covered /\ ExitRight /\ BSZ \in Nat /\ BSZ > 0 /\ MaxSize \in Nat
      /\ BufferRight(b) /\ aio[b] \in Aiocb /\ aio[b].offset \in Nat
  BY RotAssumption DEF RotInv, RotTypeOK, Aiocb
<1>2. rot_op[b] = "READ_PENDING" /\ rot_op'[b] = rot_op[b] /\ last'[b] = last[b]
  BY <1>1 DEF RotTypeOK, BufferRight, UnusedRight, WriteRight
<1>3. /\ got \in Seq(Bytes13) /\ Len(got) = (IF m > 0 THEN m ELSE 0) /\ data'[b] = got
      /\ \A k \in 1 .. Len(got) : got[k] = Rot!Byte(aio[b].offset + k - 1)
  <2>1. data'[b] = got
    BY <1>1 DEF RotTypeOK
  <2>2. got = Got(aio[b].offset, m)
    BY DEF Got
  <2>3. \A o \in Nat :
          /\ Got(o, m) \in Seq(Bytes13) /\ Len(Got(o, m)) = (IF m > 0 THEN m ELSE 0)
          /\ \A k \in 1 .. Len(Got(o, m)) : Got(o, m)[k] = Rot!Byte(o + k - 1)
    BY GotIs
  <2> QED BY <1>1, <2>1, <2>2, <2>3, Zenon
<1>4. /\ aio'[b] \in Aiocb /\ aio'[b].fd = "in" /\ aio'[b].offset = aio[b].offset
      /\ aio'[b].nbytes = aio[b].nbytes /\ aio'[b].state = "done" /\ aio'[b].n = Len(got)
      /\ aio' = [aio EXCEPT ![b] = aio'[b]]
  <2>1. aio'[b] = [aio[b] EXCEPT !.state = "done", !.n = Len(got)]
    BY <1>1 DEF RotTypeOK
  <2>2. \A c \in Rot!Buf : c # b => aio'[c] = aio[c]
    BY <1>1 DEF RotTypeOK
  <2>3. Len(got) \in Nat
    <3>1. got \in Seq(Bytes13)
      BY <1>3
    <3> QED BY <3>1, LenProperties
  <2>4. aio' = [aio EXCEPT ![b] = aio'[b]]
    BY <1>1, <2>2 DEF RotTypeOK
  <2> HIDE DEF RotTypeOK
  <2>5. aio'[b] \in Aiocb /\ aio'[b].fd = "in" /\ aio'[b].offset = aio[b].offset
        /\ aio'[b].nbytes = aio[b].nbytes /\ aio'[b].state = "done" /\ aio'[b].n = Len(got)
    <3>1. aio[b] \in Aiocb /\ aio[b].fd = "in"
      BY <1>1
    <3>2. aio'[b] \in Aiocb /\ aio'[b].fd = aio[b].fd /\ aio'[b].offset = aio[b].offset
          /\ aio'[b].nbytes = aio[b].nbytes /\ aio'[b].state = "done" /\ aio'[b].n = Len(got)
      <4>1. PICK l \in Nat : l = Len(got)
        BY <2>3
      <4>2. aio'[b] = [aio[b] EXCEPT !.state = "done", !.n = l]
        BY <2>1, <4>1
      <4>3. aio'[b] \in Aiocb /\ aio'[b].fd = aio[b].fd /\ aio'[b].offset = aio[b].offset
            /\ aio'[b].nbytes = aio[b].nbytes /\ aio'[b].state = "done" /\ aio'[b].n = l
        BY <3>1, <4>2, CompletedIs, Zenon
      <4> QED BY <4>1, <4>3
    <3> QED BY <3>1, <3>2, Zenon
  <2> QED BY <2>4, <2>5
<1>5. \A c \in Rot!Buf \ {b} : SameBuffer(c)
  BY <1>1, <1>4 DEF RotTypeOK, SameBuffer
<1>6. \A p : Written13(p)' <=> Written13(p)
  BY DEF Written13, Rot!NoByte, Rot!Byte
<1>7. RotTypeOK'
  <2>1. aio' \in [Rot!Buf -> Aiocb] /\ data' \in [Rot!Buf -> Seq(Bytes13)]
    BY <1>1, <1>3, <1>4 DEF RotTypeOK
  <2> QED BY <1>1, <2>1 DEF RotTypeOK, Rot!Buf
<1>8. Active(b) /\ Active(b)'
  BY <1>2 DEF Active
<1>9. \A c \in Rot!Buf \ {b} : BufferRight(c)'
  <2>1. /\ \A p \in 0 .. MaxSize - 1 : Written13(p) => Written13(p)'
        /\ \A p \in 0 .. MaxSize - 1 :
             Written13(p)' => Written13(p) \/ (Active(b) /\ p < aio[b].offset + BSZ)
    BY <1>6, Zenon
  <2> QED BY <1>4, <1>5, <1>8, <2>1, OthersRight
<1>10. ShortRight(b)'
  <2>1. size \in Nat /\ length \in Nat /\ length <= size /\ aio[b].offset < size
    BY <1>1, <1>8 DEF RotTypeOK, BufferRight, BlockRight
  <2> DEFINE o == aio[b].offset
             l == Len(got)
  <2>2. l = (IF m > 0 THEN m ELSE 0) /\ m = (IF o + BSZ < length THEN o + BSZ ELSE length) - o
    BY <1>3 DEF Rot!Least
  <2>3. EndOf(b)' = o + l /\ Len(data[b])' = l /\ aio'[b].offset = o
    BY <1>3, <1>4 DEF EndOf
  <2>4. o \in Nat /\ o < size
    BY <1>1, <2>1
  <2> HIDE DEF o, l
  <2>5. /\ l <= BSZ /\ o + l <= size
        /\ l = BSZ \/ o + l \in {size, length} \/ (l = 0 /\ length <= o)
    BY <1>1, <2>1, <2>2, <2>4
  <2> QED BY <2>3, <2>5 DEF ShortRight
<1>11. BufferRight(b)'
  <2>1. UnusedRight(b)' /\ WriteRight(b)'
    BY <1>2 DEF UnusedRight, WriteRight
  <2>2. aio[b].nbytes = BSZ
    BY <1>1, <1>2 DEF BufferRight, ReadRight
  <2>3. ReadRight(b)'
    <3>1. /\ aio'[b].fd = "in" /\ aio'[b].nbytes = BSZ /\ aio'[b].state = "done"
          /\ aio'[b].n = Len(data'[b])
      BY <1>3, <1>4, <2>2, Zenon
    <3>2. \A k \in 1 .. Len(data'[b]) : data'[b][k] = Rot!Byte(aio'[b].offset + k - 1)
      BY <1>3, <1>4, Zenon
    <3> QED BY <1>10, <3>1, <3>2 DEF ReadRight, Rot!Byte
  <2>4. BlockRight(b)'
    BY <1>1, <1>2, <1>4, <1>8 DEF BufferRight, BlockRight
  <2>5. LastRight(b)'
    <3> SUFFICES ASSUME last[b] PROVE LastRight(b)'
      BY <1>2 DEF LastRight
    <3>1. LastRight(b)
      BY <1>1 DEF BufferRight
    <3>2. \A c \in Rot!Buf \ {b} : ~last'[c] /\ (Active(c)' => aio'[c].offset + BSZ <= aio'[b].offset)
      BY <1>4, <1>5, <3>1 DEF LastRight, SameBuffer, Active
    <3>3. \A p \in 0 .. MaxSize - 1 : Written13(p)' => ~(aio'[b].offset <= p)
      BY <1>2, <1>4, <1>6, <3>1 DEF LastRight
    <3> QED BY <1>2, <1>4, <3>1, <3>2, <3>3 DEF LastRight
  <2> QED BY <2>1, <2>3, <2>4, <2>5 DEF BufferRight
<1>12. Covered'
  <2>1. \A c \in Rot!Buf : Active(c) => Active(c)' /\ aio'[c].offset = aio[c].offset
    BY <1>4, <1>5, <1>8 DEF Active, SameBuffer
  <2> QED BY <1>1, <1>6, <2>1 DEF Covered, Rot!NoByte, Rot!Byte, Translated, Rot!Buf
<1>13. ExitRight'
  BY <1>1 DEF ExitRight
<1> QED BY <1>7, <1>9, <1>11, <1>12, <1>13 DEF RotInv, Rot!Buf

(* The system writes a block, all of it or nothing.                        *)
LEMMA BlockIsWritten ==
  ASSUME RotInv, NEW b \in Rot!Buf, aio[b].state = "EINPROGRESS", aio[b].fd = "out",
         NEW n \in {0, aio[b].nbytes},
         rot_output' = [p \in DOMAIN rot_output |->
                          IF p - aio[b].offset \in 0 .. Rot!Least(n, Len(data[b])) - 1
                          THEN data[b][p - aio[b].offset + 1] ELSE rot_output[p]],
         aio' = [aio EXCEPT ![b].state = "done", ![b].n = n],
         UNCHANGED <<size, length, rot_op, last, data, aiolist, off, numop, i, rot_at>>
  PROVE  RotInv'
<1>1. /\ RotTypeOK /\ Covered /\ ExitRight /\ BSZ \in Nat /\ BSZ > 0 /\ MaxSize \in Nat
      /\ BufferRight(b) /\ aio[b] \in Aiocb /\ aio[b].offset \in Nat /\ data[b] \in Seq(Bytes13)
  BY RotAssumption DEF RotInv, RotTypeOK, Aiocb
<1>2. rot_op[b] = "WRITE_PENDING" /\ rot_op'[b] = rot_op[b] /\ last'[b] = last[b] /\ data'[b] = data[b]
  BY <1>1 DEF RotTypeOK, BufferRight, UnusedRight, ReadRight
<1>3. /\ aio[b].nbytes = Len(data[b]) /\ n \in {0, Len(data[b])} /\ n \in Nat /\ EndRight(b)
      /\ \A k \in 1 .. Len(data[b]) : data[b][k] = Translated(aio[b].offset + k - 1)
  BY <1>1, <1>2 DEF BufferRight, WriteRight
<1>4. /\ aio'[b] \in Aiocb /\ aio'[b].fd = "out" /\ aio'[b].offset = aio[b].offset
      /\ aio'[b].nbytes = aio[b].nbytes /\ aio'[b].state = "done" /\ aio'[b].n = n
      /\ aio' = [aio EXCEPT ![b] = aio'[b]]
  <2>1. aio'[b] = [aio[b] EXCEPT !.state = "done", !.n = n]
    BY <1>1 DEF RotTypeOK
  <2>2. \A c \in Rot!Buf : c # b => aio'[c] = aio[c]
    BY <1>1 DEF RotTypeOK
  <2> QED BY <1>1, <1>3, <2>1, <2>2 DEF RotTypeOK, Aiocb
<1>5. \A c \in Rot!Buf \ {b} : SameBuffer(c)
  BY <1>1, <1>4 DEF RotTypeOK, SameBuffer
<1>6. /\ \A p \in 0 .. MaxSize - 1 :
           rot_output'[p] = IF n # 0 /\ aio[b].offset <= p /\ p < EndOf(b) THEN Translated(p) ELSE rot_output[p]
      /\ rot_output' \in [0 .. MaxSize - 1 -> Bytes13]
  <2>1. Rot!Least(n, Len(data[b])) = n
    BY <1>1, <1>3 DEF Rot!Least
  <2>2. DOMAIN rot_output = 0 .. MaxSize - 1
    BY <1>1 DEF RotTypeOK
  <2>3. ASSUME NEW p \in 0 .. MaxSize - 1
        PROVE  (IF p - aio[b].offset \in 0 .. n - 1 THEN data[b][p - aio[b].offset + 1] ELSE rot_output[p])
               = IF n # 0 /\ aio[b].offset <= p /\ p < EndOf(b) THEN Translated(p) ELSE rot_output[p]
    <3>1. p - aio[b].offset \in 0 .. n - 1 <=> n # 0 /\ aio[b].offset <= p /\ p < EndOf(b)
      <4> DEFINE o == aio[b].offset
                 l == Len(data[b])
      <4>1. o \in Nat /\ l \in Nat /\ n \in {0, l} /\ p \in Int /\ EndOf(b) = o + l
        BY <1>1, <1>3 DEF EndOf
      <4> HIDE DEF o, l
      <4>2. p - o \in 0 .. n - 1 <=> n # 0 /\ o <= p /\ p < EndOf(b)
        BY <4>1
      <4> QED BY <4>2 DEF o
    <3>2. CASE n # 0 /\ aio[b].offset <= p /\ p < EndOf(b)
      <4>1. p - aio[b].offset + 1 \in 1 .. Len(data[b]) /\ aio[b].offset + (p - aio[b].offset + 1) - 1 = p
        <5> DEFINE o == aio[b].offset
                   l == Len(data[b])
        <5>1. o \in Nat /\ l \in Nat /\ p \in Int /\ o <= p /\ p < o + l
          BY <1>1, <3>2 DEF EndOf
        <5> HIDE DEF o, l
        <5>2. p - o + 1 \in 1 .. l /\ o + (p - o + 1) - 1 = p
          BY <5>1
        <5> QED BY <5>2 DEF o, l
      <4>2. data[b][p - aio[b].offset + 1] = Translated(p)
        <5> DEFINE k == p - aio[b].offset + 1
        <5>1. data[b][k] = Translated(aio[b].offset + k - 1)
          BY <1>3, <4>1
        <5> QED BY <4>1, <5>1
      <4> QED BY <3>1, <3>2, <4>2
    <3> QED BY <3>1, <3>2
  <2>4. rot_output' = [p \in 0 .. MaxSize - 1 |->
                         IF n # 0 /\ aio[b].offset <= p /\ p < EndOf(b) THEN Translated(p) ELSE rot_output[p]]
    BY <2>1, <2>2, <2>3
  <2>5. \A p \in 0 .. MaxSize - 1 : Translated(p) \in Bytes13 /\ rot_output[p] \in Bytes13
    BY <1>1, TranslateIs DEF RotTypeOK
  <2> QED BY <2>4, <2>5
<1>7. \A p \in 0 .. MaxSize - 1 :
        Written13(p)' <=> Written13(p) \/ (n # 0 /\ aio[b].offset <= p /\ p < EndOf(b))
  <2> TAKE p \in 0 .. MaxSize - 1
  <2>1. Rot!NoByte' = Rot!NoByte /\ Translated(p) # Rot!NoByte
    <3>1. p \in Int
      BY <1>1
    <3>2. Rot!NoByte' = Rot!NoByte
      BY DEF Rot!NoByte, Rot!Byte
    <3> QED BY <3>1, <3>2, TranslateIs
  <2>2. CASE n # 0 /\ aio[b].offset <= p /\ p < EndOf(b)
    BY <1>6, <2>1, <2>2 DEF Written13
  <2>3. CASE ~(n # 0 /\ aio[b].offset <= p /\ p < EndOf(b))
    <3>1. rot_output'[p] = rot_output[p]
      BY <1>6, <2>3
    <3> QED BY <2>1, <2>3, <3>1 DEF Written13
  <2> QED BY <2>2, <2>3
<1>8. RotTypeOK'
  <2>1. aio' \in [Rot!Buf -> Aiocb]
    BY <1>1, <1>4 DEF RotTypeOK
  <2> QED BY <1>1, <1>6, <2>1 DEF RotTypeOK, Rot!Buf
<1>9. Active(b) /\ Active(b)' /\ EndOf(b) \in Nat /\ EndOf(b)' = EndOf(b)
  BY <1>1, <1>2, <1>4 DEF Active, EndOf
<1>10. EndOf(b) <= size /\ EndOf(b) <= aio[b].offset + BSZ /\ aio[b].offset + BSZ <= off /\ off \in Nat /\ size \in Nat
  BY <1>1, <1>3, <1>9 DEF RotTypeOK, EndRight, EndOf, BufferRight, BlockRight
<1>11. \A c \in Rot!Buf \ {b} : BufferRight(c)'
  <2>1. /\ \A p \in 0 .. MaxSize - 1 : Written13(p) => Written13(p)'
        /\ \A p \in 0 .. MaxSize - 1 :
             Written13(p)' => Written13(p) \/ (Active(b) /\ p < aio[b].offset + BSZ)
    BY <1>1, <1>7, <1>9, <1>10
  <2> QED BY <1>4, <1>5, <1>9, <2>1, OthersRight
<1>12. EndRight(b)'
  BY <1>2, <1>3, <1>4, <1>9 DEF EndRight
<1>13. BufferRight(b)'
  <2>1. UnusedRight(b)' /\ ReadRight(b)'
    BY <1>2 DEF UnusedRight, ReadRight
  <2>2. WriteRight(b)'
    <3>1. \A k \in 1 .. Len(data[b])' : data'[b][k] = Translated(aio'[b].offset + k - 1)
      BY <1>2, <1>3, <1>4
    <3>2. n = Len(data[b]) =>
            \A p \in 0 .. MaxSize - 1 : aio[b].offset <= p /\ p < EndOf(b) => Written13(p)'
      BY <1>1, <1>7 DEF EndOf
    <3> QED BY <1>2, <1>3, <1>4, <1>9, <1>12, <3>1, <3>2 DEF WriteRight, Translated
  <2>3. BlockRight(b)'
    BY <1>1, <1>2, <1>4, <1>9 DEF BufferRight, BlockRight
  <2>4. LastRight(b)'
    <3> SUFFICES ASSUME last[b] PROVE LastRight(b)'
      BY <1>2 DEF LastRight
    <3>1. LastRight(b)
      BY <1>1 DEF BufferRight
    <3>2. \A c \in Rot!Buf \ {b} : ~last'[c] /\ (Active(c)' => aio'[c].offset + BSZ <= aio'[b].offset)
      BY <1>4, <1>5, <3>1 DEF LastRight, SameBuffer, Active
    <3>3. \A p \in 0 .. MaxSize - 1 : Written13(p)' /\ aio'[b].offset <= p => p < EndOf(b)'
      BY <1>4, <1>7, <1>9, <3>1 DEF LastRight
    <3> QED BY <1>2, <1>4, <3>1, <3>2, <3>3 DEF LastRight
  <2> QED BY <2>1, <2>2, <2>3, <2>4 DEF BufferRight
<1>14. Covered'
  <2> SUFFICES ASSUME NEW p \in 0 .. MaxSize - 1
               PROVE  /\ rot_output'[p] \in {Rot!NoByte, Translated(p)}
                      /\ Written13(p)' => p < off' /\ p < size'
                      /\ p < size' /\ p < off' =>
                           \/ Written13(p)'
                           \/ \E c \in Rot!Buf : Active(c)' /\ aio'[c].offset <= p /\ p < aio'[c].offset + BSZ
    BY DEF Covered, Rot!NoByte, Rot!Byte, Translated, Rot!Buf
  <2>1. rot_output'[p] \in {Rot!NoByte, Translated(p)}
    BY <1>1, <1>6 DEF Covered
  <2>2. Written13(p)' => p < off' /\ p < size'
    BY <1>1, <1>7, <1>9, <1>10 DEF Covered
  <2>3. \A c \in Rot!Buf : Active(c) => Active(c)' /\ aio'[c].offset = aio[c].offset
    BY <1>4, <1>5, <1>9 DEF Active, SameBuffer
  <2>4. p < size /\ p < off => \/ Written13(p)
                               \/ \E c \in Rot!Buf : Active(c) /\ aio[c].offset <= p /\ p < aio[c].offset + BSZ
    BY <1>1 DEF Covered
  <2> QED BY <1>7, <2>1, <2>2, <2>3, <2>4
<1>15. ExitRight'
  BY <1>1 DEF ExitRight
<1> QED BY <1>8, <1>11, <1>13, <1>14, <1>15 DEF RotInv, Rot!Buf


(* Someone shortens the input.                                             *)
LEMMA InputShortened ==
  ASSUME RotInv, length = size, length' \in Nat, length' <= length,
         UNCHANGED <<size, rot_op, last, data, aio, aiolist, off, numop, i, rot_at, rot_output>>
  PROVE  RotInv'
<1>1. RotTypeOK' /\ ExitRight'
  BY DEF RotInv, RotTypeOK, ExitRight, Rot!Buf
<1>2. Covered'
  BY DEF RotInv, Covered, Written13, Active, Rot!NoByte, Rot!Byte, Translated, Rot!Buf
<1>3. ASSUME NEW b \in Rot!Buf PROVE BufferRight(b)'
  <2>1. BufferRight(b) /\ size \in Nat /\ aio[b].offset \in Int
    BY DEF RotInv, RotTypeOK, Aiocb
  <2>2. UnusedRight(b)' /\ WriteRight(b)' /\ BlockRight(b)'
    <3>1. EndRight(b) => EndRight(b)'
      BY <2>1 DEF EndRight, EndOf
    <3> QED BY <2>1, <3>1 DEF BufferRight, UnusedRight, WriteRight, BlockRight, EndOf, Active, Written13,
                              Rot!NoByte, Rot!Byte, Translated
  <2>3. ReadRight(b)'
    <3>1. ShortRight(b) => ShortRight(b)'
      BY <2>1 DEF ShortRight, EndOf
    <3> QED BY <2>1, <3>1 DEF BufferRight, ReadRight, Rot!Byte
  <2>4. LastRight(b)'
    <3>1. EndRight(b) => EndRight(b)'
      BY <2>1 DEF EndRight, EndOf
    <3> QED BY <2>1, <3>1 DEF BufferRight, LastRight, EndOf, Active, Written13, Rot!NoByte, Rot!Byte, Rot!Buf
  <2> QED BY <2>2, <2>3, <2>4 DEF BufferRight
<1> QED BY <1>1, <1>2, <1>3 DEF RotInv, Rot!Buf

LEMMA RotInit == Rot!Init => RotInv
<1> SUFFICES ASSUME Rot!Init PROVE RotInv
  OBVIOUS
<1>1. /\ size \in 0 .. MaxSize /\ length = size /\ off = 0 /\ i = 0 /\ numop = 0 /\ aiolist = {} /\ rot_at = "scan"
      /\ MaxSize \in Nat
  BY RotAssumption DEF Rot!Init
<1>2. \A b \in Rot!Buf : rot_op[b] = "UNUSED" /\ last[b] = FALSE /\ aio[b].state = "none"
  BY DEF Rot!Init
<1>3. \A p \in 0 .. MaxSize - 1 : rot_output[p] = Rot!NoByte
  BY DEF Rot!Init
<1>4. RotTypeOK
  <2>1. rot_output \in [0 .. MaxSize - 1 -> Bytes13]
    <3>1. Rot!NoByte \in Bytes13
      BY TranslateIs
    <3> QED BY <3>1 DEF Rot!Init
  <2>2. data \in [Rot!Buf -> Seq(Bytes13)]
    BY DEF Rot!Init
  <2>3. aio \in [Rot!Buf -> Aiocb]
    BY DEF Rot!Init, Aiocb
  <2>4. rot_op \in [Rot!Buf -> {"UNUSED", "READ_PENDING", "WRITE_PENDING"}] /\ last \in [Rot!Buf -> BOOLEAN]
    BY DEF Rot!Init
  <2>5. numop = Cardinality(aiolist)
    BY <1>1, FS_EmptySet
  <2>6. aiolist = {b \in Rot!Buf : rot_op[b] # "UNUSED"}
    BY <1>1, <1>2
  <2> QED BY <1>1, <2>1, <2>2, <2>3, <2>4, <2>5, <2>6 DEF RotTypeOK
<1>5. \A b \in Rot!Buf : BufferRight(b)
  BY <1>2 DEF BufferRight, UnusedRight, ReadRight, WriteRight, BlockRight, LastRight, Active
<1>6. Covered
  BY <1>1, <1>3 DEF Covered, Written13
<1>7. ExitRight
  BY <1>1 DEF ExitRight
<1> QED BY <1>4, <1>5, <1>6, <1>7 DEF RotInv

LEMMA RotStep == ASSUME RotInv, Rot!Next PROVE RotInv'
<1>1. RotTypeOK
  BY DEF RotInv
<1>2. CASE Rot!Unused
  <2>1. CASE off < size
    BY <1>2, <2>1, ReadBegins
  <2>2. CASE ~(off < size)
    <3>1. UNCHANGED <<size, length, rot_op, last, data, aio, aiolist, off, numop, rot_output, rot_at>>
          /\ i' = i + 1 /\ rot_at = "scan"
      BY <1>2, <2>2 DEF Rot!Unused, Rot!Advance, Rot!file
    <3> QED BY <1>1, <3>1, RotPasses DEF RotTypeOK
  <2> QED BY <2>1, <2>2
<1>3. CASE Rot!InProgress
  <2>1. UNCHANGED <<size, length, rot_op, last, data, aio, aiolist, off, numop, rot_output, rot_at>>
        /\ i' = i + 1 /\ rot_at = "scan"
    BY <1>3 DEF Rot!InProgress, Rot!Advance, Rot!file, Rot!bufs
  <2> QED BY <1>1, <2>1, RotPasses DEF RotTypeOK
<1>4. CASE Rot!ReadDone
  BY <1>4, ReadEnds
<1>5. CASE Rot!WriteDone
  BY <1>5, WriteEnds
<1>6. CASE Rot!PassDone
  <2>1. UNCHANGED <<size, length, rot_op, last, data, aio, aiolist, off, numop, rot_output>> /\ i' = 0
    BY <1>6 DEF Rot!PassDone, Rot!file, Rot!bufs
  <2>2. numop \in Nat /\ off \in Nat /\ size \in Nat /\ IsFiniteSet(aiolist)
    <3>1. IsFiniteSet(aiolist)
      BY <1>1, BufIs, FS_Subset DEF RotTypeOK
    <3> QED BY <1>1, <3>1, FS_CardinalityType DEF RotTypeOK
  <2>3. numop = 0 => aiolist = {}
    BY <1>1, <2>2, FS_EmptySet DEF RotTypeOK
  <2>4. /\ numop = 0 /\ off >= size => rot_at' = "exited"
        /\ numop = 0 /\ off < size => rot_at' = "scan"
        /\ numop # 0 => rot_at' = "suspend"
    BY <1>6, <2>2 DEF Rot!PassDone
  <2> QED BY <2>1, <2>2, <2>3, <2>4, RotPasses
<1>7. CASE Rot!Suspend
  <2>1. UNCHANGED <<size, length, rot_op, last, data, aio, aiolist, off, numop, rot_output, i>> /\ rot_at' = "scan"
    BY <1>7 DEF Rot!Suspend, Rot!file, Rot!bufs
  <2> QED BY <1>1, <2>1, RotPasses DEF RotTypeOK
<1>8. CASE Rot!Shorten
  <2>1. /\ length = size /\ length' \in {0, length - 1} /\ length > 0
        /\ UNCHANGED <<size, rot_op, last, data, aio, aiolist, off, numop, rot_output, i, rot_at>>
    BY <1>8 DEF Rot!Shorten, Rot!bufs
  <2> QED BY <1>1, <2>1, InputShortened DEF RotTypeOK
<1>9. ASSUME NEW b \in Rot!Buf, Rot!Complete(b) PROVE RotInv'
  <2> DEFINE m == Rot!Least(aio[b].offset + BSZ, length) - aio[b].offset
             got == [k \in 1 .. m |-> Rot!Byte(aio[b].offset + k - 1)]
  <2>1. /\ aio[b].state = "EINPROGRESS"
        /\ UNCHANGED <<size, length, rot_op, last, aiolist, off, numop, i, rot_at>>
    BY <1>9 DEF Rot!Complete, Rot!file
  <2>2. m \in Int
    BY <1>1, RotAssumption DEF RotTypeOK, Aiocb, Rot!Least
  <2>3. CASE aio[b].fd = "in"
    <3>1. /\ data' = [data EXCEPT ![b] = got]
          /\ aio' = [aio EXCEPT ![b].state = "done", ![b].n = Len(got)] /\ UNCHANGED rot_output
      BY <1>9, <2>3 DEF Rot!Complete
    <3> QED BY <2>1, <2>2, <2>3, <3>1, BlockIsRead
  <2>4. CASE aio[b].fd # "in"
    <3>1. aio[b].fd = "out"
      BY <1>1, <2>1, <2>4 DEF RotInv, BufferRight, UnusedRight, ReadRight, WriteRight, RotTypeOK
    <3>2. PICK n \in {0, aio[b].nbytes} :
            /\ rot_output' = [p \in DOMAIN rot_output |->
                                IF p - aio[b].offset \in 0 .. Rot!Least(n, Len(data[b])) - 1
                                THEN data[b][p - aio[b].offset + 1] ELSE rot_output[p]]
            /\ aio' = [aio EXCEPT ![b].state = "done", ![b].n = n]
            /\ UNCHANGED data
      BY <1>9, <2>4 DEF Rot!Complete
    <3> QED BY <2>1, <3>1, <3>2, BlockIsWritten
  <2> QED BY <2>3, <2>4
<1> QED BY <1>2, <1>3, <1>4, <1>5, <1>6, <1>7, <1>8, <1>9 DEF Rot!Next, Rot!Step

LEMMA RotNext == RotInv /\ [MCNext]_all => RotInv'
<1> SUFFICES ASSUME RotInv, [MCNext]_all PROVE RotInv'
  OBVIOUS
<1>1. CASE Rot!Next
  BY <1>1, RotStep
<1>2. CASE UNCHANGED rotVars
  BY <1>2, RotPasses DEF rotVars, RotInv, RotTypeOK, ExitRight
<1> QED BY <1>1, <1>2 DEF MCNext, Runs, all

(* What is written when the program exits is the input up to the end of    *)
(* its last block.                                                         *)
LEMMA RotEnds == ASSUME RotInv PROVE Rot!Rot13Right
<1>1. /\ RotTypeOK /\ Covered /\ ExitRight /\ BSZ \in Nat /\ MaxSize \in Nat
      /\ \A b \in Rot!Buf : BufferRight(b) /\ aio[b].offset \in Nat /\ data[b] \in Seq(Bytes13)
      /\ Rot!Written = {p \in 0 .. MaxSize - 1 : Written13(p)}
      /\ size \in Nat /\ length \in Nat /\ length <= size /\ size <= MaxSize /\ off \in Nat
  BY RotAssumption DEF RotInv, RotTypeOK, Aiocb, Rot!Written, Written13
<1>2. ASSUME NEW p \in Rot!Written PROVE rot_output[p] = Rot!translate(Rot!Byte(p))
  <2>1. p \in Int /\ rot_output[p] = Translated(p)
    BY <1>1, <1>2 DEF Covered, Written13
  <2> QED BY <2>1, TranslateIs
<1>3. ASSUME rot_at = "exited"
      PROVE  \E n \in {size} \cup (length .. size) : Rot!Written = 0 .. n - 1
  <2>1. off >= size /\ \A b \in Rot!Buf : rot_op[b] = "UNUSED"
    BY <1>1, <1>3 DEF ExitRight, RotTypeOK
  <2>2. CASE \A p \in 0 .. size - 1 : Written13(p)
    <3>1. Rot!Written = 0 .. size - 1
      BY <1>1, <2>2 DEF Covered
    <3> QED BY <3>1
  <2>3. ASSUME NEW p \in 0 .. size - 1, ~Written13(p)
        PROVE  \E n \in {size} \cup (length .. size) : Rot!Written = 0 .. n - 1
    <3>1. PICK b \in Rot!Buf : Active(b) /\ aio[b].offset <= p /\ p < aio[b].offset + BSZ
      BY <1>1, <2>1, <2>3 DEF Covered
    <3>2. last[b] /\ LastRight(b) /\ EndRight(b)
      BY <1>1, <2>1, <3>1 DEF Active, BufferRight, LastRight
    <3>3. PICK o \in Nat, l \in Nat : o = aio[b].offset /\ l = Len(data[b]) /\ o + l = EndOf(b)
      BY <1>1 DEF EndOf
    <3>4. o + l <= p
      BY <1>1, <2>1, <2>3, <3>1, <3>2, <3>3 DEF LastRight
    <3>5. o + l \in length .. size
      BY <1>1, <2>3, <3>1, <3>2, <3>3, <3>4 DEF EndRight
    <3>6. \A q \in 0 .. MaxSize - 1 : Written13(q) => q < o + l
      BY <1>1, <3>2, <3>3 DEF LastRight
    <3>7. ASSUME NEW q \in 0 .. MaxSize - 1, q < o + l PROVE Written13(q)
      <4>1. CASE o <= q
        BY <2>1, <3>2, <3>3, <3>7, <4>1 DEF LastRight
      <4>2. CASE q < o
        <5>1. q < size /\ q < off
          BY <1>1, <2>1, <3>5, <3>7
        <5>2. \A c \in Rot!Buf \ {b} : ~Active(c)
          BY <2>1, <3>2 DEF LastRight, Active
        <5>3. ~(aio[b].offset <= q)
          BY <3>3, <4>2
        <5> QED BY <1>1, <5>1, <5>2, <5>3 DEF Covered
      <4> QED BY <4>1, <4>2
    <3>8. Rot!Written = 0 .. (o + l) - 1
      BY <1>1, <3>5, <3>6, <3>7
    <3> QED BY <3>5, <3>8
  <2> QED BY <2>2, <2>3
<1> QED BY <1>2, <1>3 DEF Rot!Rot13Right

-----------------------------------------------------------------------------
(* barrier.  The main thread merges only when all of the threads returned, *)
(* so all of the parts are sorted; what is merged are the places before    *)
(* next[] of each part.                                                    *)
Places == 1 .. Bar!NUMNUM
ThreadPcs == {"none", "sort", "barrier", "blocked", "returned"}
Merging == mpc \in {"merge", "exited"}
Merged == {k \in Places : \E t \in Bar!Thr : k \in Bar!Part(t) /\ k < next[t]}

SortTypeOK ==
  /\ given \in [Places -> Nat] /\ nums \in [Places -> Nat] /\ snums \in Seq(Nat)
  /\ unsorted \subseteq Bar!Thr
  /\ tpc \in [Bar!Thr -> ThreadPcs]
  /\ mpc \in {"create", "barrier", "blocked", "merge", "exited"}
  /\ next \in [Bar!Thr -> Nat]
  /\ \A t \in Bar!Thr : t * TNUM + 1 <= next[t] /\ next[t] <= (t + 1) * TNUM + 1

(* The threads                                                             *)
ThreadsRight ==
  /\ mpc = "create" => tpc[NTHR - 1] = "none"
  /\ mpc # "create" => \A t \in Bar!Thr : tpc[t] # "none"
  /\ Merging => \A t \in Bar!Thr : tpc[t] = "returned"
  /\ ~Merging => snums = <<>> /\ \A t \in Bar!Thr : next[t] = t * TNUM + 1

(* Their parts                                                             *)
PartsSorted ==
  \A t \in Bar!Thr \ unsorted : tpc[t] \in {"barrier", "blocked", "returned"} =>
    \A j, k \in Bar!Part(t) : j < k => nums[j] <= nums[k]

Permutes(h, S) ==
  /\ h \in [S -> S]
  /\ \A x, y \in S : h[x] = h[y] => x = y
  /\ \A y \in S : \E x \in S : h[x] = y
NumbersKept == \E h : Permutes(h, Places) /\ \A k \in Places : nums[k] = given[h[k]]

(* What is merged                                                          *)
TakenBy(g) ==
  /\ g \in [1 .. Len(snums) -> Places]
  /\ \A m, n \in 1 .. Len(snums) : g[m] = g[n] => m = n
  /\ \A k \in Places : k \in Merged <=> \E n \in 1 .. Len(snums) : g[n] = k
  /\ \A n \in 1 .. Len(snums) : snums[n] = nums[g[n]]
MergedRight ==
  /\ \E g : TakenBy(g)
  /\ Len(snums) = Cardinality(Merged)
  /\ mpc = "merge" => Len(snums) < Bar!NUMNUM
  /\ Bar!Sorted =>
       /\ \A m, n \in 1 .. Len(snums) : m < n => snums[m] <= snums[n]
       /\ \A n \in 1 .. Len(snums), k \in Places \ Merged : snums[n] <= nums[k]

SortInv == SortTypeOK /\ ThreadsRight /\ PartsSorted /\ NumbersKept /\ MergedRight
(* The parts of the numbers                                                *)
LEMMA SortConstants ==
  /\ NTHR \in Nat /\ NTHR > 0 /\ TNUM \in Nat /\ TNUM > 0 /\ Numbers \subseteq Nat
  /\ Bar!Thr = 0 .. NTHR - 1 /\ Bar!NUMNUM = NTHR * TNUM /\ Bar!NUMNUM \in Nat
  /\ IsFiniteSet(Bar!Thr) /\ Cardinality(Bar!Thr) = NTHR
<1>1. NTHR \in Nat /\ NTHR > 0 /\ TNUM \in Nat /\ TNUM > 0 /\ Numbers \subseteq Nat
  BY SortAssumption
<1>2. Bar!Thr = 0 .. NTHR - 1 /\ Bar!NUMNUM = NTHR * TNUM
  BY DEF Bar!Thr, Bar!NUMNUM
<1>3. NTHR * TNUM \in Nat
  BY <1>1
<1>4. IsFiniteSet(0 .. NTHR - 1) /\ Cardinality(0 .. NTHR - 1) = NTHR
  BY <1>1, FS_Interval
<1> QED BY <1>1, <1>2, <1>3, <1>4

LEMMA Multiples ==
  ASSUME NEW a \in Nat, NEW b \in Nat, NEW n \in Nat
  PROVE  /\ a * n \in Nat /\ (a + 1) * n = a * n + n
         /\ a <= b => a * n <= b * n
<1>1. a * n \in Nat /\ (a + 1) * n = a * n + n
  OBVIOUS
<1>2. ASSUME a <= b PROVE a * n <= b * n
  <2>1. PICK d \in Nat : b = a + d
    BY <1>2
  <2>2. b * n = a * n + d * n /\ d * n \in Nat
    BY <2>1
  <2> QED BY <1>1, <2>2
<1> QED BY <1>1, <1>2

LEMMA PartIs ==
  ASSUME NEW t \in Bar!Thr
  PROVE  /\ t \in Nat /\ t * TNUM \in Nat /\ (t + 1) * TNUM = t * TNUM + TNUM
         /\ Bar!Part(t) = t * TNUM + 1 .. (t + 1) * TNUM /\ Bar!Part(t) \subseteq Places
<1>1. t \in Nat /\ t <= NTHR - 1 /\ t + 1 \in Nat /\ t + 1 <= NTHR
  BY SortConstants
<1>2. t * TNUM \in Nat /\ (t + 1) * TNUM = t * TNUM + TNUM /\ (t + 1) * TNUM <= NTHR * TNUM
  BY <1>1, SortConstants, Multiples
<1>3. Bar!Part(t) = t * TNUM + 1 .. (t + 1) * TNUM
  BY DEF Bar!Part
<1> QED BY <1>1, <1>2, <1>3, SortConstants DEF Places

LEMMA PartsApart ==
  ASSUME NEW t \in Bar!Thr, NEW u \in Bar!Thr, NEW k, k \in Bar!Part(t), k \in Bar!Part(u)
  PROVE  t = u
<1>1. ASSUME NEW v \in Bar!Thr, NEW w \in Bar!Thr, v < w, k \in Bar!Part(v), k \in Bar!Part(w)
      PROVE  FALSE
  <2>1. v \in Nat /\ w \in Nat /\ v + 1 \in Nat /\ v + 1 <= w
    BY <1>1, SortConstants
  <2>2. (v + 1) * TNUM <= w * TNUM
    BY <2>1, SortConstants, Multiples
  <2>3. k \in v * TNUM + 1 .. (v + 1) * TNUM /\ k \in w * TNUM + 1 .. (w + 1) * TNUM
    BY <1>1 DEF Bar!Part
  <2> QED BY <2>1, <2>2, <2>3, SortConstants
<1>2. t \in Nat /\ u \in Nat
  BY SortConstants
<1> QED BY <1>1, <1>2

LEMMA EveryPlace ==
  ASSUME NEW k \in Places
  PROVE  \E t \in Bar!Thr : k \in Bar!Part(t)
<1> DEFINE T == {t \in Nat : k <= (t + 1) * TNUM}
<1>1. k \in Nat /\ k >= 1 /\ k <= NTHR * TNUM
  BY SortConstants DEF Places
<1>2. NTHR - 1 \in T
  BY <1>1, SortConstants
<1>3. PICK t \in T : \A u \in T : t <= u
  <2>1. T \in SUBSET Nat /\ T # {}
    BY <1>2
  <2> HIDE DEF T
  <2> QED BY <2>1, LeastNat
<1>4. t \in Nat /\ t <= NTHR - 1 /\ k <= (t + 1) * TNUM
  BY <1>2, <1>3
<1>5. t * TNUM < k
  <2>1. CASE t = 0
    BY <1>1, <2>1, SortConstants
  <2>2. CASE t # 0
    <3>1. t - 1 \in Nat /\ ~(t - 1 \in T)
      <4>1. t - 1 \in Nat /\ ~(t <= t - 1)
        BY <1>4, <2>2
      <4> QED BY <1>3, <4>1
    <3>2. ~(k <= ((t - 1) + 1) * TNUM)
      BY <3>1
    <3>3. (t - 1) + 1 = t
      BY <1>4
    <3>4. t * TNUM \in Nat
      BY <1>4, SortConstants, Multiples
    <3> QED BY <1>1, <3>2, <3>3, <3>4
  <2> QED BY <2>1, <2>2
<1>6. t \in Bar!Thr
  BY <1>4, SortConstants
<1>7. t * TNUM \in Nat /\ (t + 1) * TNUM \in Nat
  BY <1>4, SortConstants, Multiples
<1> QED BY <1>1, <1>4, <1>5, <1>6, <1>7, PartIs

LEMMA BarCardinality == ASSUME NEW S PROVE Bar!Cardinality(S) = Cardinality(S)
BY DEF Bar!Cardinality, Cardinality

(* All of the threads and the main thread are at the barrier.              *)
LEMMA AllThere ==
  ASSUME SortInv
  PROVE  /\ IsFiniteSet(Bar!Blocked) /\ Bar!Blocked \subseteq Bar!Thr
         /\ Bar!LastToCome /\ mpc # "blocked" => Bar!Blocked = Bar!Thr
         /\ \A t \in Bar!Thr \ Bar!Blocked : Bar!LastToCome => mpc = "blocked" /\ Bar!Blocked = Bar!Thr \ {t}
<1>1. IsFiniteSet(Bar!Blocked) /\ Bar!Blocked \subseteq Bar!Thr /\ Cardinality(Bar!Blocked) \in Nat
  <2>1. Bar!Blocked \subseteq Bar!Thr
    BY DEF Bar!Blocked
  <2> QED BY <2>1, SortConstants, FS_Subset, FS_CardinalityType
<1>2. Bar!LastToCome => Cardinality(Bar!Blocked) + (IF mpc = "blocked" THEN 1 ELSE 0) = NTHR
  BY <1>1, SortConstants, BarCardinality DEF Bar!LastToCome, Bar!AtBarrier, Bar!BarrierCount
<1>3. ASSUME Bar!LastToCome, mpc # "blocked" PROVE Bar!Blocked = Bar!Thr
  <2>1. Cardinality(Bar!Blocked) = Cardinality(Bar!Thr)
    BY <1>1, <1>2, <1>3, SortConstants
  <2> QED BY <1>1, <2>1, SortConstants, FS_Subset
<1>4. ASSUME NEW t \in Bar!Thr \ Bar!Blocked, Bar!LastToCome
      PROVE  mpc = "blocked" /\ Bar!Blocked = Bar!Thr \ {t}
  <2>1. mpc = "blocked"
    BY <1>3, <1>4
  <2>2. IsFiniteSet(Bar!Thr \ {t}) /\ Cardinality(Bar!Thr \ {t}) = NTHR - 1
    <3>1. t \in Bar!Thr /\ IsFiniteSet(Bar!Thr) /\ Cardinality(Bar!Thr) = NTHR
      BY <1>4, SortConstants
    <3>2. IsFiniteSet(Bar!Thr \ {t}) /\ Cardinality(Bar!Thr \ {t}) = Cardinality(Bar!Thr) - 1
      BY <3>1, FS_RemoveElement
    <3> QED BY <3>1, <3>2
  <2>3. Bar!Blocked \subseteq Bar!Thr \ {t} /\ Cardinality(Bar!Blocked) = NTHR - 1
    BY <1>1, <1>2, <1>4, <2>1, SortConstants
  <2> QED BY <2>1, <2>2, <2>3, FS_Subset
<1> QED BY <1>1, <1>3, <1>4

(* Steps of the threads that change no number                              *)
LEMMA NumbersStay ==
  ASSUME SortInv, UNCHANGED <<given, nums, snums, next>>, unsorted \subseteq unsorted',
         mpc' = "merge" => mpc = "merge" \/ ~Merging
  PROVE  NumbersKept' /\ MergedRight'
<1>1. NumbersKept'
  BY DEF SortInv, NumbersKept, Permutes, Places, Bar!NUMNUM
<1>2. Merged' = Merged
  BY DEF Merged, Places, Bar!NUMNUM, Bar!Thr, Bar!Part
<1>3. \E g : TakenBy(g)'
  <2>1. PICK g : TakenBy(g)
    BY DEF SortInv, MergedRight
  <2>2. TakenBy(g)'
    BY <1>2, <2>1 DEF TakenBy, Places, Bar!NUMNUM
  <2> QED BY <2>2
<1>4. mpc' = "merge" => Len(snums)' < Bar!NUMNUM
  <2>1. CASE mpc = "merge"
    BY <2>1 DEF SortInv, MergedRight
  <2>2. CASE ~Merging
    <3>1. Len(snums) = 0
      BY <2>2 DEF SortInv, ThreadsRight
    <3>2. Bar!NUMNUM > 0
      <4>1. 1 <= NTHR /\ 1 * TNUM <= NTHR * TNUM
        BY SortConstants, Multiples
      <4> QED BY <4>1, SortConstants
    <3> QED BY <3>1, <3>2
  <2> QED BY <2>1, <2>2
<1>5. MergedRight'
  BY <1>2, <1>3, <1>4 DEF SortInv, MergedRight, Places, Bar!NUMNUM, Bar!Sorted
<1> QED BY <1>1, <1>5

LEMMA CreateStep == ASSUME SortInv, Bar!Create PROVE SortInv'
<1> DEFINE T == {u \in Bar!Thr : tpc[u] = "none"}
<1>1. PICK t \in T : \A w \in T : t <= w
  <2>1. NTHR - 1 \in T
    BY SortConstants DEF Bar!Create, SortInv, ThreadsRight
  <2>2. T \in SUBSET Nat /\ T # {}
    BY <2>1, SortConstants
  <2> HIDE DEF T
  <2> QED BY <2>2, LeastNat
<1>2. t = CHOOSE u \in Bar!Thr : tpc[u] = "none" /\ \A w \in Bar!Thr : tpc[w] = "none" => u <= w
  <2>1. \A u \in Bar!Thr : (tpc[u] = "none" /\ \A w \in Bar!Thr : tpc[w] = "none" => u <= w) => u = t
    BY <1>1, SortConstants
  <2>2. t \in Bar!Thr /\ tpc[t] = "none" /\ \A w \in Bar!Thr : tpc[w] = "none" => t <= w
    BY <1>1
  <2> QED BY <2>1, <2>2
<1>3. /\ mpc = "create" /\ t \in Bar!Thr /\ tpc[t] = "none"
      /\ tpc' = [tpc EXCEPT ![t] = "sort"]
      /\ mpc' = (IF t = NTHR - 1 THEN "barrier" ELSE "create")
      /\ UNCHANGED <<given, nums, snums, unsorted, next>>
  <2>1. /\ mpc = "create" /\ UNCHANGED <<given, nums, snums, unsorted, next>>
        /\ tpc' = [tpc EXCEPT ![CHOOSE u \in Bar!Thr : tpc[u] = "none" /\ \A w \in Bar!Thr : tpc[w] = "none" => u <= w] = "sort"]
        /\ mpc' = (IF (CHOOSE u \in Bar!Thr : tpc[u] = "none" /\ \A w \in Bar!Thr : tpc[w] = "none" => u <= w) = NTHR - 1
                   THEN "barrier" ELSE "create")
    BY DEF Bar!Create
  <2> HIDE DEF T
  <2>2. tpc' = [tpc EXCEPT ![t] = "sort"] /\ mpc' = (IF t = NTHR - 1 THEN "barrier" ELSE "create")
    BY <1>2, <2>1, Zenon
  <2> QED BY <1>1, <2>1, <2>2 DEF T
<1>4. SortTypeOK /\ ThreadsRight /\ PartsSorted
  BY DEF SortInv
<1>5. SortTypeOK'
  BY <1>3, <1>4 DEF SortTypeOK, ThreadPcs, Places, Bar!NUMNUM, Bar!Thr
<1>6. ThreadsRight'
  <2>1. t = NTHR - 1 => \A u \in Bar!Thr : tpc'[u] # "none"
    <3> SUFFICES ASSUME t = NTHR - 1, NEW u \in Bar!Thr PROVE tpc'[u] # "none"
      OBVIOUS
    <3>1. CASE u = t
      BY <1>3, <1>4, <3>1 DEF SortTypeOK
    <3>2. CASE u # t
      <4>1. ~(t <= u)
        BY <3>2, SortConstants
      <4>2. tpc[u] # "none"
        BY <1>1, <4>1
      <4> QED BY <1>3, <1>4, <3>2, <4>2 DEF SortTypeOK
    <3> QED BY <3>1, <3>2
  <2>2. t # NTHR - 1 => tpc'[NTHR - 1] = "none"
    BY <1>3, <1>4, SortConstants DEF SortTypeOK, ThreadsRight
  <2>3. ~Merging /\ ~Merging'
    BY <1>3 DEF Merging
  <2> QED BY <1>3, <1>4, <2>1, <2>2, <2>3 DEF ThreadsRight, Bar!Thr
<1>7. PartsSorted'
  BY <1>3, <1>4 DEF PartsSorted, SortTypeOK, Bar!Thr, Bar!Part
<1>8. NumbersKept' /\ MergedRight'
  BY <1>3, NumbersStay DEF Merging
<1> QED BY <1>5, <1>6, <1>7, <1>8 DEF SortInv

(* The last one comes to the barrier, or one that waits there.             *)
BarrierMoves ==
  /\ UNCHANGED <<given, nums, snums, unsorted, next>> /\ ~Merging
  /\ tpc' \in [Bar!Thr -> ThreadPcs]
  /\ \A u \in Bar!Thr :
       /\ tpc'[u] \in {"barrier", "blocked", "returned"} => tpc[u] \in {"barrier", "blocked", "returned"}
       /\ tpc'[u] = "none" <=> tpc[u] = "none"
  /\ \/ mpc' = "blocked" /\ mpc # "create"
     \/ mpc' = mpc
     \/ mpc' = "merge" /\ mpc # "create" /\ \A u \in Bar!Thr : tpc'[u] = "returned"

LEMMA BarrierStep ==
  ASSUME SortInv, Bar!MainWaits \/ \E t \in Bar!Thr : Bar!ThreadWaits(t)
  PROVE  SortInv'
<1>1. SortTypeOK /\ ThreadsRight /\ PartsSorted
  BY DEF SortInv
<1>2. BarrierMoves
  <2>1. CASE Bar!MainWaits
    <3>1. mpc = "barrier" /\ UNCHANGED <<given, nums, snums, unsorted, next>>
      BY <2>1 DEF Bar!MainWaits
    <3>2. CASE Bar!LastToCome
      <4>1. mpc' = "merge" /\ tpc' = [u \in Bar!Thr |-> IF u \in Bar!Blocked THEN "returned" ELSE tpc[u]]
        BY <2>1, <3>2 DEF Bar!MainWaits
      <4>2. Bar!Blocked = Bar!Thr
        BY <3>1, <3>2, AllThere
      <4>3. \A u \in Bar!Thr : tpc[u] = "blocked" /\ tpc'[u] = "returned"
        BY <4>1, <4>2 DEF Bar!Blocked
      <4> QED BY <1>1, <3>1, <4>1, <4>2, <4>3 DEF ThreadPcs, Merging, BarrierMoves
    <3>3. CASE ~Bar!LastToCome
      BY <1>1, <2>1, <3>1, <3>3 DEF Bar!MainWaits, SortTypeOK, ThreadPcs, Merging, BarrierMoves
    <3> QED BY <3>2, <3>3
  <2>2. ASSUME NEW t \in Bar!Thr, Bar!ThreadWaits(t)
        PROVE  BarrierMoves
    <3>1. tpc[t] = "barrier" /\ UNCHANGED <<given, nums, snums, unsorted, next>> /\ ~Merging
      BY <1>1, <2>2 DEF Bar!ThreadWaits, ThreadsRight
    <3>2. CASE Bar!LastToCome
      <4>1. t \in Bar!Thr \ Bar!Blocked
        BY <2>2, <3>1 DEF Bar!Blocked
      <4>2. mpc = "blocked" /\ Bar!Blocked = Bar!Thr \ {t}
        BY <3>2, <4>1, AllThere
      <4>3. /\ tpc' = [u \in Bar!Thr |-> IF u \in Bar!Blocked \cup {t} THEN "returned" ELSE tpc[u]]
            /\ mpc' = "merge"
        BY <2>2, <3>2, <4>2 DEF Bar!ThreadWaits
      <4>4. \A u \in Bar!Thr : tpc[u] \in {"barrier", "blocked"} /\ tpc'[u] = "returned"
        BY <3>1, <4>2, <4>3 DEF Bar!Blocked
      <4> QED BY <3>1, <4>2, <4>3, <4>4 DEF ThreadPcs, BarrierMoves
    <3>3. CASE ~Bar!LastToCome
      BY <1>1, <2>2, <3>1, <3>3 DEF Bar!ThreadWaits, SortTypeOK, ThreadPcs, BarrierMoves
    <3> QED BY <3>2, <3>3
  <2> QED BY <2>1, <2>2
<1>3. SortTypeOK'
  BY <1>1, <1>2 DEF BarrierMoves, SortTypeOK, Places, Bar!NUMNUM, Bar!Thr
<1>4. ThreadsRight'
  <2>1. mpc = "create" => mpc' = "create"
    BY <1>2 DEF BarrierMoves
  <2>2. NTHR - 1 \in Bar!Thr
    BY SortConstants
  <2> QED BY <1>1, <1>2, <2>1, <2>2 DEF BarrierMoves, ThreadsRight, Merging, Bar!Thr
<1>5. PartsSorted'
  BY <1>1, <1>2 DEF BarrierMoves, PartsSorted, Bar!Thr, Bar!Part
<1>6. NumbersKept' /\ MergedRight'
  BY <1>2, NumbersStay DEF BarrierMoves
<1> QED BY <1>3, <1>4, <1>5, <1>6 DEF SortInv

(* The numbers of a part in another order are the numbers that were given. *)
LEMMA PermutationsCompose ==
  ASSUME NEW S, NEW P, P \subseteq S, NEW h, Permutes(h, S), NEW f, Permutes(f, P)
  PROVE  Permutes([k \in S |-> IF k \in P THEN h[f[k]] ELSE h[k]], S)
<1> DEFINE q == [k \in S |-> IF k \in P THEN h[f[k]] ELSE h[k]]
<1>1. /\ h \in [S -> S] /\ f \in [P -> P]
      /\ \A x, y \in S : h[x] = h[y] => x = y
      /\ \A y \in S : \E x \in S : h[x] = y
      /\ \A x, y \in P : f[x] = f[y] => x = y
      /\ \A y \in P : \E x \in P : f[x] = y
  BY DEF Permutes
<1>2. \A k \in S : k \in P => q[k] = h[f[k]] /\ f[k] \in P /\ f[k] \in S
  BY <1>1
<1>3. \A k \in S : k \notin P => q[k] = h[k]
  OBVIOUS
<1>4. q \in [S -> S]
  BY <1>1
<1> HIDE DEF q
<1>5. ASSUME NEW x \in S, NEW y \in S, q[x] = q[y] PROVE x = y
  <2>1. CASE x \in P /\ y \in P
    <3>1. f[x] = f[y]
      BY <1>1, <1>2, <1>5, <2>1
    <3> QED BY <1>1, <2>1, <3>1
  <2>2. CASE x \in P /\ y \notin P
    BY <1>1, <1>2, <1>3, <1>5, <2>2
  <2>3. CASE x \notin P /\ y \in P
    BY <1>1, <1>2, <1>3, <1>5, <2>3
  <2>4. CASE x \notin P /\ y \notin P
    BY <1>1, <1>3, <1>5, <2>4
  <2> QED BY <2>1, <2>2, <2>3, <2>4
<1>6. ASSUME NEW y \in S PROVE \E x \in S : q[x] = y
  <2>1. PICK x \in S : h[x] = y
    BY <1>1
  <2>2. CASE x \in P
    <3>1. PICK z \in P : f[z] = x
      BY <1>1, <2>2
    <3>2. z \in S /\ q[z] = y
      BY <1>2, <2>1, <3>1
    <3> QED BY <3>2
  <2>3. CASE x \notin P
    BY <1>3, <2>1, <2>3
  <2> QED BY <2>2, <2>3
<1>7. Permutes(q, S)
  BY <1>4, <1>5, <1>6 DEF Permutes
<1> QED BY <1>7 DEF q

(* A heapsort that fails                                                   *)
LEMMA UnsortedStep ==
  ASSUME SortInv, NEW t \in Bar!Thr, Bar!Sort(t), UNCHANGED nums, unsorted' = unsorted \cup {t}
  PROVE  SortInv'
<1>1. SortTypeOK /\ ThreadsRight /\ PartsSorted
  BY DEF SortInv
<1>2. /\ tpc[t] = "sort" /\ tpc' = [tpc EXCEPT ![t] = "barrier"] /\ unsorted' = unsorted \cup {t}
      /\ UNCHANGED <<given, nums, snums, mpc, next>>
  BY DEF Bar!Sort
<1>3. SortTypeOK'
  <2>1. tpc' \in [Bar!Thr -> ThreadPcs] /\ unsorted' \subseteq Bar!Thr
    BY <1>1, <1>2 DEF SortTypeOK, ThreadPcs
  <2> QED BY <1>1, <1>2, <2>1 DEF SortTypeOK, Places, Bar!NUMNUM, Bar!Thr
<1>4. ThreadsRight'
  BY <1>1, <1>2 DEF SortTypeOK, ThreadsRight, Merging, Bar!Thr
<1>5. PartsSorted'
  BY <1>1, <1>2 DEF SortTypeOK, PartsSorted, Bar!Thr, Bar!Part
<1>6. NumbersKept' /\ MergedRight'
  BY <1>2, NumbersStay
<1> QED BY <1>3, <1>4, <1>5, <1>6 DEF SortInv

LEMMA SortStep ==
  ASSUME SortInv, NEW t \in Bar!Thr, Bar!Sort(t), Bar!Heapsort(t), UNCHANGED unsorted
  PROVE  SortInv'
<1>1. SortTypeOK /\ ThreadsRight /\ PartsSorted /\ NumbersKept /\ MergedRight
  BY DEF SortInv
<1>2. /\ tpc[t] = "sort" /\ tpc' = [tpc EXCEPT ![t] = "barrier"]
      /\ \A j, k \in Bar!Part(t) : j < k => Bar!complong(nums'[j], nums'[k]) # 1
      /\ UNCHANGED <<given, snums, unsorted, mpc, next>>
  BY DEF Bar!Sort, Bar!Heapsort
<1>3. PICK f \in Bar!Bijection(Bar!Part(t), Bar!Part(t)) :
        nums' = [k \in DOMAIN nums |-> IF k \in Bar!Part(t) THEN nums[f[k]] ELSE nums[k]]
  BY DEF Bar!Heapsort
<1>4. Permutes(f, Bar!Part(t))
  BY <1>3 DEF Permutes, Bar!Bijection, Bar!Injection, Bar!Surjection, Bar!IsInjective
<1>5. ~Merging /\ snums = <<>> /\ (\A u \in Bar!Thr : next[u] = u * TNUM + 1) /\ ~Merging'
  BY <1>1, <1>2 DEF ThreadsRight, Merging
<1>6. /\ \A k \in Places : nums'[k] = IF k \in Bar!Part(t) THEN nums[f[k]] ELSE nums[k]
      /\ nums' \in [Places -> Nat] /\ Bar!Part(t) \subseteq Places
  <2>1. DOMAIN nums = Places /\ Bar!Part(t) \subseteq Places
    BY <1>1, PartIs DEF SortTypeOK
  <2>2. \A k \in Places : nums[k] \in Nat
    BY <1>1 DEF SortTypeOK
  <2>3. \A k \in Bar!Part(t) : f[k] \in Places
    BY <1>4, <2>1 DEF Permutes
  <2> QED BY <1>3, <2>1, <2>2, <2>3
<1>7. SortTypeOK'
  <2>1. tpc' \in [Bar!Thr -> ThreadPcs]
    BY <1>1, <1>2 DEF SortTypeOK, ThreadPcs
  <2> QED BY <1>1, <1>2, <1>6, <2>1 DEF SortTypeOK, Places, Bar!NUMNUM, Bar!Thr
<1>8. ThreadsRight'
  BY <1>1, <1>2, <1>5 DEF SortTypeOK, ThreadsRight, Merging, Bar!Thr
<1>9. PartsSorted'
  <2> SUFFICES ASSUME NEW u \in Bar!Thr \ unsorted, tpc'[u] \in {"barrier", "blocked", "returned"},
                      NEW j \in Bar!Part(u), NEW k \in Bar!Part(u), j < k
               PROVE  nums'[j] <= nums'[k]
    BY <1>2 DEF PartsSorted, Bar!Thr, Bar!Part
  <2>1. j \in Places /\ k \in Places /\ nums'[j] \in Nat /\ nums'[k] \in Nat
    BY <1>6, PartIs
  <2>2. CASE u = t
    <3>1. Bar!complong(nums'[j], nums'[k]) # 1
      BY <1>2, <2>2
    <3> QED BY <2>1, <3>1 DEF Bar!complong
  <2>3. CASE u # t
    <3>1. j \notin Bar!Part(t) /\ k \notin Bar!Part(t)
      BY <2>3, PartsApart
    <3>2. nums'[j] = nums[j] /\ nums'[k] = nums[k]
      BY <1>6, <2>1, <3>1
    <3>3. tpc[u] \in {"barrier", "blocked", "returned"}
      BY <1>1, <1>2, <2>3 DEF SortTypeOK
    <3> QED BY <1>1, <3>2, <3>3 DEF PartsSorted
  <2> QED BY <2>2, <2>3
<1>10. NumbersKept'
  <2>1. PICK h : Permutes(h, Places) /\ \A k \in Places : nums[k] = given[h[k]]
    BY <1>1 DEF NumbersKept
  <2> DEFINE q == [k \in Places |-> IF k \in Bar!Part(t) THEN h[f[k]] ELSE h[k]]
  <2>2. Permutes(q, Places)
    BY <1>4, <1>6, <2>1, PermutationsCompose
  <2>3. ASSUME NEW k \in Places PROVE nums'[k] = given[q[k]]
    <3>1. CASE k \in Bar!Part(t)
      <4>1. f[k] \in Places /\ nums'[k] = nums[f[k]] /\ q[k] = h[f[k]]
        BY <1>4, <1>6, <3>1 DEF Permutes
      <4> QED BY <2>1, <4>1
    <3>2. CASE k \notin Bar!Part(t)
      BY <1>6, <2>1, <3>2
    <3> QED BY <3>1, <3>2
  <2> HIDE DEF q
  <2>4. Permutes(q, Places)' /\ \A k \in Places : nums'[k] = given'[q[k]]
    BY <1>2, <2>2, <2>3 DEF Permutes, Places, Bar!NUMNUM
  <2> QED BY <2>4 DEF NumbersKept, Places, Bar!NUMNUM
<1>11. MergedRight'
  <2>1. Len(snums) = 0 /\ Len(snums)' = 0 /\ Merged' = Merged
    BY <1>2, <1>5 DEF Merged, Places, Bar!NUMNUM, Bar!Thr, Bar!Part
  <2>2. \E g : TakenBy(g)'
    <3>1. PICK g : TakenBy(g)
      BY <1>1 DEF MergedRight
    <3>2. TakenBy(g)'
      BY <2>1, <3>1, <1>2 DEF TakenBy, Places, Bar!NUMNUM
    <3> QED BY <3>2
  <2>3. Len(snums)' = Cardinality(Merged)' /\ mpc' # "merge"
    <3>1. Len(snums) = Cardinality(Merged) /\ Cardinality(Merged)' = Cardinality(Merged)
      BY <1>1, <2>1, Zenon DEF MergedRight
    <3> QED BY <1>5, <2>1, <3>1 DEF Merging
  <2>4. \A n \in 1 .. Len(snums)' : FALSE
    BY <2>1
  <2> QED BY <2>2, <2>3, <2>4 DEF MergedRight
<1> QED BY <1>7, <1>8, <1>9, <1>10, <1>11 DEF SortInv

LEMMA MergedIs == Merged \subseteq Places /\ IsFiniteSet(Places) /\ Cardinality(Places) = Bar!NUMNUM
                  /\ IsFiniteSet(Merged) /\ Cardinality(Merged) <= Bar!NUMNUM
<1>1. IsFiniteSet(Places) /\ Cardinality(Places) = Bar!NUMNUM
  <2>1. PICK n \in Nat : n = Bar!NUMNUM
    BY SortConstants
  <2>2. IsFiniteSet(1 .. n) /\ Cardinality(1 .. n) = n
    BY FS_Interval
  <2> QED BY <2>1, <2>2 DEF Places
<1>2. Merged \subseteq Places
  BY DEF Merged
<1> QED BY <1>1, <1>2, FS_Subset

(* The smallest number that is left is the next one of its part, when the  *)
(* parts are sorted.                                                       *)
LEMMA MergeTakes ==
  ASSUME SortInv, Bar!Merge
  PROVE  \E t \in Bar!Thr :
           /\ next[t] \in Bar!Part(t) /\ next[t] \in Places /\ next[t] \notin Merged
           /\ snums' = Append(snums, nums[next[t]]) /\ next' = [next EXCEPT ![t] = next[t] + 1]
           /\ Bar!Sorted => \A k \in Places \ Merged : nums[next[t]] <= nums[k]
<1> DEFINE left == {t \in Bar!Thr : next[t] \in Bar!Part(t)}
           comesFirst(t, u) ==
             \/ nums[next[t]] < nums[next[u]]
             \/ nums[next[t]] = nums[next[u]] /\ t <= u
<1>1. SortTypeOK /\ ThreadsRight /\ PartsSorted /\ MergedRight /\ mpc = "merge"
  BY DEF SortInv, Bar!Merge
<1>2. \A t \in Bar!Thr : tpc[t] = "returned" /\ next[t] \in Nat /\ t \in Nat
  BY <1>1, SortConstants DEF ThreadsRight, Merging, SortTypeOK
<1>3. \A t \in left : next[t] \in Places /\ nums[next[t]] \in Nat /\ t \in Bar!Thr /\ t \in Nat
  BY <1>1, <1>2, PartIs DEF SortTypeOK
(* What is not merged is in a part that is left.                           *)
<1>4. ASSUME NEW k \in Places \ Merged
      PROVE  \E u \in left : Bar!Sorted => nums[next[u]] <= nums[k]
  <2>1. PICK u \in Bar!Thr : k \in Bar!Part(u)
    BY EveryPlace
  <2>2. next[u] <= k
    BY <1>2, <2>1, SortConstants DEF Merged, Places
  <2>3. u \in left
    <3>1. PICK a \in Nat, b \in Nat : a = u * TNUM /\ b = (u + 1) * TNUM /\ Bar!Part(u) = a + 1 .. b
      <4>1. u * TNUM \in Nat /\ (u + 1) * TNUM \in Nat
        BY <1>2, SortConstants, Multiples
      <4> QED BY <4>1, PartIs
    <3>2. a + 1 <= next[u] /\ next[u] \in Nat
      BY <1>1, <1>2, <3>1 DEF SortTypeOK
    <3>3. k <= b /\ k \in Nat
      BY <2>1, <3>1
    <3> QED BY <2>2, <3>1, <3>2, <3>3
  <2>4. Bar!Sorted => nums[next[u]] <= nums[k]
    <3>1. CASE next[u] = k
      <4>1. nums[k] \in Nat
        BY <1>1 DEF SortTypeOK
      <4> QED BY <3>1, <4>1
    <3>2. CASE next[u] # k
      <4>1. next[u] < k
        BY <1>2, <2>2, <3>2, SortConstants DEF Places
      <4> QED BY <1>1, <1>2, <2>1, <2>3, <4>1 DEF PartsSorted, Bar!Sorted
    <3> QED BY <3>1, <3>2
  <2> QED BY <2>3, <2>4
<1>5. \E k \in Places : k \notin Merged
  <2>1. Cardinality(Merged) # Cardinality(Places)
    BY <1>1, MergedIs, SortConstants DEF MergedRight
  <2>2. Merged \subseteq Places /\ Merged # Places
    BY <2>1, MergedIs
  <2> QED BY <2>2
<1>6. left # {}
  BY <1>4, <1>5
(* There is a smallest one, and a first part that has it.                  *)
<1>7. \E t \in left : \A u \in left : comesFirst(t, u)
  <2> DEFINE Smallest == {n \in Nat : \E t \in left : n = nums[next[t]]}
  <2>1. PICK v \in Smallest : \A w \in Smallest : v <= w
    <3>1. Smallest \in SUBSET Nat /\ Smallest # {}
      BY <1>3, <1>6
    <3> HIDE DEF Smallest
    <3> QED BY <3>1, LeastNat
  <2> DEFINE Takers == {t \in Nat : t \in left /\ nums[next[t]] = v}
  <2>2. PICK t \in Takers : \A u \in Takers : t <= u
    <3>1. Takers \in SUBSET Nat /\ Takers # {}
      BY <1>3, <2>1
    <3> HIDE DEF Takers
    <3> QED BY <3>1, LeastNat
  <2>3. ASSUME NEW u \in left PROVE comesFirst(t, u)
    <3>1. v <= nums[next[u]] /\ v \in Nat /\ nums[next[u]] \in Nat /\ nums[next[t]] = v
      BY <1>3, <2>1, <2>2
    <3>2. nums[next[u]] = v => t <= u
      BY <1>3, <2>2
    <3> QED BY <3>1, <3>2
  <2> QED BY <2>2, <2>3
<1>8. PICK t \in left : /\ \A u \in left : comesFirst(t, u)
                        /\ t = CHOOSE x \in left : \A u \in left : comesFirst(x, u)
  BY <1>7
<1>9. snums' = Append(snums, nums[next[t]]) /\ next' = [next EXCEPT ![t] = next[t] + 1]
  <2>1. /\ snums' = Append(snums, nums[next[CHOOSE x \in left : \A u \in left : comesFirst(x, u)]])
        /\ next' = [next EXCEPT ![CHOOSE x \in left : \A u \in left : comesFirst(x, u)] =
                      next[CHOOSE x \in left : \A u \in left : comesFirst(x, u)] + 1]
    BY DEF Bar!Merge
  <2> HIDE DEF left, comesFirst
  <2> QED BY <1>8, <2>1, Zenon
<1>10. next[t] \notin Merged
  <2> SUFFICES ASSUME NEW u \in Bar!Thr, next[t] \in Bar!Part(u), next[t] < next[u] PROVE FALSE
    BY <1>3, <1>8 DEF Merged
  <2>1. u = t
    BY <1>8, PartsApart
  <2> QED BY <1>2, <2>1
<1>11. Bar!Sorted => \A k \in Places \ Merged : nums[next[t]] <= nums[k]
  <2> SUFFICES ASSUME Bar!Sorted, NEW k \in Places \ Merged PROVE nums[next[t]] <= nums[k]
    OBVIOUS
  <2>1. PICK u \in left : nums[next[u]] <= nums[k]
    BY <1>4
  <2>2. nums[next[t]] <= nums[next[u]] /\ nums[next[t]] \in Nat /\ nums[next[u]] \in Nat /\ nums[k] \in Nat
    <3>1. nums[next[t]] \in Nat /\ nums[next[u]] \in Nat /\ nums[k] \in Nat
      BY <1>1, <1>3, <1>8 DEF SortTypeOK
    <3>2. comesFirst(t, u)
      BY <1>8
    <3> QED BY <3>1, <3>2
  <2> QED BY <2>1, <2>2
<1> QED BY <1>3, <1>8, <1>9, <1>10, <1>11

LEMMA MergeStep == ASSUME SortInv, Bar!Merge PROVE SortInv'
<1>1. SortTypeOK /\ ThreadsRight /\ PartsSorted /\ NumbersKept /\ MergedRight
  BY DEF SortInv
<1>2. /\ mpc = "merge" /\ mpc' = (IF Len(snums)' = Bar!NUMNUM THEN "exited" ELSE "merge")
      /\ UNCHANGED <<given, nums, unsorted, tpc>> /\ Merging /\ Merging' /\ (Bar!Sorted' => Bar!Sorted)
  BY DEF Bar!Merge, Merging, Bar!Sorted
<1>3. PICK t \in Bar!Thr :
        /\ next[t] \in Bar!Part(t) /\ next[t] \in Places /\ next[t] \notin Merged
        /\ snums' = Append(snums, nums[next[t]]) /\ next' = [next EXCEPT ![t] = next[t] + 1]
        /\ Bar!Sorted => \A k \in Places \ Merged : nums[next[t]] <= nums[k]
  BY MergeTakes
<1>4. PICK k \in Places : k = next[t]
  BY <1>3
<1>5. PICK l \in Nat : l = Len(snums)
  BY <1>1 DEF SortTypeOK
<1>6. /\ nums[k] \in Nat /\ snums' \in Seq(Nat) /\ Len(snums)' = l + 1 /\ snums'[l + 1] = nums[k]
      /\ \A n \in 1 .. l : snums'[n] = snums[n] /\ snums[n] \in Nat
  <2>1. nums[k] \in Nat /\ snums \in Seq(Nat) /\ snums' = Append(snums, nums[k])
    BY <1>1, <1>3, <1>4 DEF SortTypeOK
  <2> QED BY <1>5, <2>1
<1>7. Merged' = Merged \cup {k}
  <2>1. \A u \in Bar!Thr : next'[u] = IF u = t THEN k + 1 ELSE next[u]
    BY <1>1, <1>3, <1>4 DEF SortTypeOK
  <2>2. \A j \in Places : j < k + 1 <=> j < k \/ j = k
    BY SortConstants DEF Places
  <2>3. \A j \in Places : (\E u \in Bar!Thr : j \in Bar!Part(u) /\ j < next'[u])
                          <=> (\E u \in Bar!Thr : j \in Bar!Part(u) /\ j < next[u]) \/ j = k
    BY <1>3, <1>4, <2>1, <2>2
  <2>4. Merged' = {j \in Places : \E u \in Bar!Thr : j \in Bar!Part(u) /\ j < next'[u]}
    BY DEF Merged, Places, Bar!NUMNUM, Bar!Thr, Bar!Part
  <2> QED BY <2>3, <2>4 DEF Merged
<1>8. SortTypeOK'
  <2>1. next' \in [Bar!Thr -> Nat]
    BY <1>1, <1>3 DEF SortTypeOK
  <2>2. \A u \in Bar!Thr : u * TNUM + 1 <= next'[u] /\ next'[u] <= (u + 1) * TNUM + 1
    <3> TAKE u \in Bar!Thr
    <3>1. CASE u = t
      <4>1. PICK a \in Nat, b \in Nat : a = t * TNUM /\ b = (t + 1) * TNUM /\ Bar!Part(t) = a + 1 .. b
        <5>1. t * TNUM \in Nat /\ (t + 1) * TNUM \in Nat
          BY SortConstants, Multiples
        <5> QED BY <5>1, PartIs
      <4>2. next'[t] = next[t] + 1 /\ next[t] \in a + 1 .. b
        BY <1>1, <1>3, <4>1 DEF SortTypeOK
      <4> QED BY <3>1, <4>1, <4>2
    <3>2. CASE u # t
      BY <1>1, <1>3, <3>2 DEF SortTypeOK
    <3> QED BY <3>1, <3>2
  <2> QED BY <1>1, <1>2, <1>6, <2>1, <2>2 DEF SortTypeOK, Places, Bar!NUMNUM, Bar!Thr
<1>9. ThreadsRight' /\ PartsSorted' /\ NumbersKept'
  BY <1>1, <1>2 DEF ThreadsRight, PartsSorted, NumbersKept, Permutes, Merging, Places, Bar!NUMNUM, Bar!Thr, Bar!Part
<1>10. MergedRight'
  <2>1. \E g : TakenBy(g)'
    <3>1. PICK g : TakenBy(g)
      BY <1>1 DEF MergedRight
    <3> DEFINE e == [n \in 1 .. l + 1 |-> IF n = l + 1 THEN k ELSE g[n]]
    <3>2. /\ g \in [1 .. l -> Places]
          /\ \A m, n \in 1 .. l : g[m] = g[n] => m = n
          /\ \A j \in Places : j \in Merged <=> \E n \in 1 .. l : g[n] = j
          /\ \A n \in 1 .. l : snums[n] = nums[g[n]]
      BY <1>5, <3>1 DEF TakenBy
    <3>3. \A n \in 1 .. l + 1 : n \in 1 .. l \/ n = l + 1
      OBVIOUS
    <3>4. /\ \A n \in 1 .. l : e[n] = g[n] /\ n \in 1 .. l + 1 /\ n # l + 1
          /\ e[l + 1] = k /\ l + 1 \in 1 .. l + 1
      OBVIOUS
    <3>5. e \in [1 .. l + 1 -> Places]
      BY <3>2, <3>3
    <3> HIDE DEF e
    <3>6. \A n \in 1 .. l : e[n] # k
      BY <1>3, <1>4, <3>2, <3>4
    <3>7. \A m, n \in 1 .. l + 1 : e[m] = e[n] => m = n
      BY <3>2, <3>3, <3>4, <3>6
    <3>8. \A j \in Places : j \in Merged' <=> \E n \in 1 .. l + 1 : e[n] = j
      BY <1>7, <3>2, <3>3, <3>4
    <3>9. \A n \in 1 .. l + 1 : snums'[n] = nums'[e[n]]
      BY <1>2, <1>6, <3>2, <3>3, <3>4
    <3>10. TakenBy(e)'
      BY <1>6, <3>5, <3>7, <3>8, <3>9 DEF TakenBy, Places, Bar!NUMNUM
    <3> QED BY <3>10
  <2>2. Len(snums)' = Cardinality(Merged)' /\ Len(snums)' <= Bar!NUMNUM
    <3>1. l = Cardinality(Merged) /\ l < Bar!NUMNUM /\ IsFiniteSet(Merged)
      BY <1>1, <1>2, <1>5, MergedIs DEF MergedRight
    <3>2. Cardinality(Merged \cup {k}) = l + 1
      BY <1>3, <1>4, <3>1, FS_AddElement
    <3> QED BY <1>6, <1>7, <3>1, <3>2, SortConstants
  <2>3. mpc' = "merge" => Len(snums)' < Bar!NUMNUM'
    <3>1. Bar!NUMNUM' = Bar!NUMNUM
      BY DEF Bar!NUMNUM
    <3> QED BY <1>2, <1>6, <2>2, <3>1, SortConstants
  <2>4. ASSUME Bar!Sorted, NEW m \in 1 .. Len(snums)', NEW n \in 1 .. Len(snums)', m < n
        PROVE  snums'[m] <= snums'[n]
    <3>1. m \in 1 .. l /\ (n \in 1 .. l \/ n = l + 1)
      BY <1>6, <2>4
    <3>2. CASE n \in 1 .. l
      BY <1>1, <1>5, <1>6, <2>4, <3>1, <3>2 DEF MergedRight
    <3>3. CASE n = l + 1
      <4>1. snums[m] <= nums[k]
        BY <1>1, <1>3, <1>4, <1>5, <2>4, <3>1 DEF MergedRight
      <4> QED BY <1>6, <3>1, <3>3, <4>1
    <3> QED BY <3>1, <3>2, <3>3
  <2>5. ASSUME Bar!Sorted, NEW n \in 1 .. Len(snums)', NEW j \in Places, j \notin Merged'
        PROVE  snums'[n] <= nums'[j]
    <3>1. (n \in 1 .. l \/ n = l + 1) /\ j \in Places \ Merged
      BY <1>6, <1>7, <2>5
    <3>2. CASE n \in 1 .. l
      BY <1>1, <1>2, <1>5, <1>6, <2>5, <3>1, <3>2 DEF MergedRight
    <3>3. CASE n = l + 1
      BY <1>2, <1>3, <1>4, <1>6, <2>5, <3>1, <3>3
    <3> QED BY <3>1, <3>2, <3>3
  <2> QED BY <1>2, <2>1, <2>2, <2>3, <2>4, <2>5 DEF MergedRight, Places, Bar!NUMNUM
<1> QED BY <1>8, <1>9, <1>10 DEF SortInv

LEMMA SortInit == Bar!Init => SortInv
<1> SUFFICES ASSUME Bar!Init PROVE SortInv
  OBVIOUS
<1>1. /\ given \in [Places -> Nat] /\ nums = given /\ snums = <<>> /\ unsorted = {} /\ mpc = "create"
      /\ tpc = [t \in Bar!Thr |-> "none"] /\ next = [t \in Bar!Thr |-> t * TNUM + 1]
  BY SortConstants DEF Bar!Init, Places
<1>2. \A t \in Bar!Thr : /\ tpc[t] = "none" /\ next[t] = t * TNUM + 1 /\ next[t] \in Nat
                         /\ t * TNUM + 1 <= next[t] /\ next[t] <= (t + 1) * TNUM + 1
  <2> TAKE t \in Bar!Thr
  <2>1. next[t] = t * TNUM + 1 /\ tpc[t] = "none"
    BY <1>1
  <2>2. t * TNUM \in Nat /\ (t + 1) * TNUM = t * TNUM + TNUM
    BY SortConstants, Multiples
  <2> QED BY <2>1, <2>2, SortConstants
<1>3. SortTypeOK
  BY <1>1, <1>2 DEF SortTypeOK, ThreadPcs
<1>4. ThreadsRight /\ PartsSorted
  BY <1>1, <1>2, SortConstants DEF ThreadsRight, PartsSorted, Merging
<1>5. NumbersKept
  <2>1. Permutes([k \in Places |-> k], Places)
    BY DEF Permutes
  <2> QED BY <1>1, <2>1 DEF NumbersKept
<1>6. Merged = {}
  <2> SUFFICES ASSUME NEW t \in Bar!Thr, NEW k \in Bar!Part(t), k < next[t] PROVE FALSE
    BY DEF Merged
  <2>1. t * TNUM \in Nat /\ (t + 1) * TNUM \in Nat
    BY SortConstants, Multiples
  <2> QED BY <1>2, <2>1, PartIs
<1>7. MergedRight
  <2>1. Len(snums) = 0 /\ \A n \in 1 .. Len(snums) : FALSE
    BY <1>1
  <2>2. TakenBy([n \in 1 .. 0 |-> 1])
    BY <1>6, <2>1 DEF TakenBy
  <2>3. Cardinality(Merged) = 0
    BY <1>6, FS_EmptySet
  <2> QED BY <1>1, <2>1, <2>2, <2>3 DEF MergedRight
<1> QED BY <1>3, <1>4, <1>5, <1>7 DEF SortInv

LEMMA SortNext == SortInv /\ [MCNext]_all => SortInv'
<1> SUFFICES ASSUME SortInv, [MCNext]_all PROVE SortInv'
  OBVIOUS
<1>1. CASE Bar!Next
  <2>1. ASSUME NEW t \in Bar!Thr, Bar!Sort(t) PROVE SortInv'
    <3>1. CASE Bar!Heapsort(t) /\ UNCHANGED unsorted
      BY <2>1, <3>1, SortStep
    <3>2. CASE UNCHANGED nums /\ unsorted' = unsorted \cup {t}
      BY <2>1, <3>2, UnsortedStep
    <3> QED BY <2>1, <3>1, <3>2 DEF Bar!Sort
  <2> QED BY <1>1, <2>1, CreateStep, BarrierStep, MergeStep DEF Bar!Next, Bar!Step
<1>2. CASE UNCHANGED barVars
  <2>1. UNCHANGED <<given, nums, snums, unsorted, tpc, mpc, next>>
    BY <1>2 DEF barVars
  <2>2. NumbersKept' /\ MergedRight'
    BY <2>1, NumbersStay
  <2>3. SortTypeOK' /\ ThreadsRight' /\ PartsSorted'
    BY <2>1 DEF SortInv, SortTypeOK, ThreadsRight, PartsSorted, Merging, Places, Bar!NUMNUM, Bar!Thr, Bar!Part
  <2> QED BY <2>2, <2>3 DEF SortInv
<1> QED BY <1>1, <1>2 DEF MCNext, Runs, all

LEMMA SortEnds == ASSUME SortInv PROVE Bar!SortRight
<1>1. PICK h : Permutes(h, Places) /\ \A k \in Places : nums[k] = given[h[k]]
  BY DEF SortInv, NumbersKept
<1>2. PICK g : TakenBy(g)
  BY DEF SortInv, MergedRight
<1>3. DOMAIN snums = 1 .. Len(snums) /\ DOMAIN given = Places
  BY DEF SortInv, SortTypeOK
<1> DEFINE S == 1 .. Len(snums)
           from == [n \in S |-> h[g[n]]]
<1>4. /\ g \in [S -> Places] /\ h \in [Places -> Places]
      /\ \A m, n \in S : g[m] = g[n] => m = n
      /\ \A k \in Places : k \in Merged <=> \E n \in S : g[n] = k
      /\ \A n \in S : snums[n] = nums[g[n]]
      /\ \A x, y \in Places : h[x] = h[y] => x = y
      /\ \A y \in Places : \E x \in Places : h[x] = y
  BY <1>1, <1>2 DEF TakenBy, Permutes
<1>5. Bar!Sorted => \A m, n \in S : m < n => snums[m] <= snums[n]
  BY DEF SortInv, MergedRight
<1>6. Bar!Sorted => \A n \in S, k \in Places \ Merged : snums[n] <= nums[k]
  BY DEF SortInv, MergedRight
<1> HIDE DEF S
<1>7. DOMAIN from = S /\ \A n \in S : from[n] = h[g[n]] /\ g[n] \in Places
  BY <1>4
<1>8. from \in Bar!Injection(S, Places)
  <2>1. from \in [S -> Places]
    BY <1>4
  <2> HIDE DEF from
  <2>2. \A m, n \in S : from[m] = from[n] => m = n
    BY <1>4, <1>7
  <2> QED BY <1>7, <2>1, <2>2 DEF Bar!Injection, Bar!IsInjective
<1> HIDE DEF from
<1>9. \A n \in S : snums[n] = given[from[n]]
  BY <1>1, <1>4, <1>7
<1>10. ASSUME Bar!Sorted, NEW n \in S, NEW k \in Places \ Bar!Range(from) PROVE snums[n] <= given[k]
  <2>1. PICK j \in Places : h[j] = k
    BY <1>4
  <2>2. j \notin Merged
    <3> SUFFICES ASSUME j \in Merged PROVE FALSE
      OBVIOUS
    <3>1. PICK m \in S : g[m] = j
      BY <1>4
    <3>2. from[m] = k
      BY <1>7, <2>1, <3>1
    <3> QED BY <1>7, <1>10, <3>2 DEF Bar!Range
  <2>3. given[k] = nums[j]
    BY <1>1, <2>1
  <2> QED BY <1>6, <1>10, <2>2, <2>3
<1>11. \E e \in Bar!Injection(S, Places) :
         /\ \A n \in S : snums[n] = given[e[n]]
         /\ Bar!Sorted => \A n \in S, k \in Places \ Bar!Range(e) : snums[n] <= given[k]
  BY <1>8, <1>9, <1>10
<1>12. DOMAIN snums = S
  BY <1>3 DEF S
<1> QED BY <1>3, <1>5, <1>11, <1>12 DEF Bar!SortRight

-----------------------------------------------------------------------------
(* The coprocess.  A line is on its way to the child, with it, or on its   *)
(* way back as the answer, or the child was killed with it.                *)

ParentEnds == {"fd1 write", "fd2 read"}
ChildEnds == {"fd1 read", "fd2 write"}

Words == {"sum", "invalid args", "SIGPIPE caught", "child closed pipe"} \X Nat
CoTypeOK ==
  /\ co_ppc \in {"start", "close", "fgets", "write", "read", "exited"}
  /\ co_cpc \in {"none", "close", "read", "write", "exited"}
  /\ cut \in SUBSET {"parent", "child"} /\ asked \in Nat
  /\ co_parent \in SUBSET Co!Ends /\ co_child \in SUBSET Co!Ends
  /\ co_shown \in Seq(Words)

(* Who holds which end, and who has ended by itself                        *)
EndsRight ==
  /\ co_ppc = "start" <=> co_cpc = "none"
  /\ co_ppc \in {"close", "fgets", "write", "read"} => ParentEnds \subseteq co_parent
  /\ co_ppc \in {"fgets", "write", "read"} => co_parent = ParentEnds
  /\ co_ppc \in {"start", "exited"} => co_parent = {}
  /\ co_cpc \in {"close", "read", "write"} => ChildEnds \subseteq co_child
  /\ co_cpc \in {"read", "write"} => co_child = ChildEnds
  /\ co_cpc \in {"none", "exited"} => co_child = {}
  /\ co_cpc = "exited" => "child" \in cut \/ co_ppc = "exited"
  /\ "parent" \in cut => co_ppc = "exited"
  /\ "child" \in cut => co_cpc = "exited"

Quiet == fd1 = <<>> /\ fd2 = <<>> /\ co_cpc # "write"
Asked(l) ==
  \/ fd1 = <<l>> /\ fd2 = <<>> /\ co_cpc # "write"
  \/ fd1 = <<>> /\ fd2 = <<>> /\ co_cpc = "write" /\ args = l
  \/ fd1 = <<>> /\ fd2 = <<Co!Answer(l)>> /\ co_cpc # "write"
  \/ fd1 = <<>> /\ fd2 = <<>> /\ co_cpc = "exited"

AnswersRight(m) == \A n \in 1 .. m : co_shown[n] = Co!Answer(n)
ExchangeRight ==
  /\ co_ppc \in {"start", "close", "fgets"} => Quiet /\ Len(co_shown) = asked
  /\ co_ppc \in {"write", "read"} => co_line = asked /\ asked > 0 /\ Len(co_shown) = asked - 1
  /\ co_ppc = "write" => Quiet
  /\ co_ppc = "read" => Asked(asked)
  /\ co_ppc # "exited" => AnswersRight(Len(co_shown))

CoInv == CoTypeOK /\ EndsRight /\ ExchangeRight /\ Co!CoprocessRight

LEMMA AnswerIs == \A l \in Nat : l > 0 => Co!Answer(l)[2] # 0 /\ Co!Answer(l)[2] = l
  BY DEF Co!Answer

LEMMA MessageIs == \A m : Co!Message(m)[2] = 0
  BY DEF Co!Message

(* All answers so far, and perhaps one that is to come                     *)
AllShown ==
  /\ CoTypeOK /\ AnswersRight(Len(co_shown))
  /\ \/ Len(co_shown) = asked
     \/ Len(co_shown) = asked - 1 /\ (co_ppc \in {"write", "read"} \/ (co_ppc = "exited" /\ cut # {}))

(* The last word of the parent                                             *)
LastWord ==
  /\ CoTypeOK /\ AnswersRight(Len(co_shown) - 1) /\ Len(co_shown) = asked /\ asked > 0
  /\ \E m : co_shown[asked] = Co!Message(m)
  /\ co_ppc = "exited" /\ cut = {"child"}

LEMMA AllAnswered == AllShown => Co!CoprocessRight
<1> SUFFICES ASSUME AllShown PROVE Co!CoprocessRight
  OBVIOUS
<1>1. DOMAIN co_shown = 1 .. Len(co_shown) /\ Len(co_shown) \in Nat /\ asked \in Nat
  BY DEF AllShown, CoTypeOK
<1>2. \A n \in 1 .. Len(co_shown) : co_shown[n] = Co!Answer(n) /\ co_shown[n][2] # 0
  <2> TAKE n \in 1 .. Len(co_shown)
  <2>1. co_shown[n] = Co!Answer(n)
    BY DEF AllShown, AnswersRight
  <2>2. n \in Nat /\ n > 0
    BY <1>1
  <2> QED BY <2>1, <2>2, AnswerIs
<1>3. {n \in DOMAIN co_shown : co_shown[n][2] # 0} = 1 .. Len(co_shown)
  BY <1>1, <1>2
<1>4. \A l \in (1 .. asked) \ (1 .. Len(co_shown)) : l = asked /\ Len(co_shown) = asked - 1
  <2>1. \E k \in Nat : k = Len(co_shown) /\ (k = asked \/ k = asked - 1)
    BY <1>1 DEF AllShown
  <2> QED BY <2>1, <1>1
<1> QED BY <1>1, <1>2, <1>3, <1>4 DEF Co!CoprocessRight, AllShown

LEMMA LastIsRight == LastWord => Co!CoprocessRight
<1> SUFFICES ASSUME LastWord PROVE Co!CoprocessRight
  OBVIOUS
<1>1. DOMAIN co_shown = 1 .. asked /\ Len(co_shown) \in Nat /\ asked \in Nat
  BY DEF CoTypeOK, LastWord
<1>2. \A n \in 1 .. asked - 1 : co_shown[n] = Co!Answer(n) /\ co_shown[n][2] # 0
  BY <1>1, AnswerIs DEF AnswersRight, LastWord
<1>3. {n \in DOMAIN co_shown : co_shown[n][2] # 0} = 1 .. asked - 1
  BY <1>1, <1>2, MessageIs DEF LastWord
<1>4. \A l \in (1 .. asked) \ (1 .. asked - 1) : l = asked
  BY <1>1
<1>5. \A n \in (DOMAIN co_shown) \ (1 .. asked - 1) : n = Len(co_shown)
  BY <1>1 DEF LastWord
<1> QED BY <1>1, <1>2, <1>3, <1>4, <1>5 DEF Co!CoprocessRight, LastWord

(* While the parent runs, everything is shown that was asked for.          *)
LEMMA RunningRight == CoTypeOK /\ ExchangeRight /\ co_ppc # "exited" => AllShown
  BY DEF AllShown, CoTypeOK, ExchangeRight

LEMMA OneMore ==
  ASSUME NEW S, NEW s \in Seq(S), NEW x \in S, NEW a \in Nat, Len(s) = a - 1, NEW t, t = Append(s, x)
  PROVE  t \in Seq(S) /\ Len(t) = a /\ t[a] = x /\ \A n \in 1 .. a - 1 : t[n] = s[n]
<1>1. t \in Seq(S) /\ Len(t) = Len(s) + 1
  OBVIOUS
<1>2. t[Len(s) + 1] = x /\ \A n \in 1 .. Len(s) : t[n] = s[n]
  OBVIOUS
<1>3. Len(s) + 1 = a
  OBVIOUS
<1> QED BY <1>1, <1>2, <1>3

(* The parent stops with a message.                                        *)
OneLonger(t, s, x, a) ==
  t \in Seq(Words) /\ Len(t) = a /\ t[a] = x /\ \A n \in 1 .. a - 1 : t[n] = s[n]

LEMMA MessageMore ==
  ASSUME NEW a \in Nat, NEW s \in Seq(Words), Len(s) = a - 1, NEW m, Co!Message(m) \in Words
  PROVE  OneLonger(Append(s, Co!Message(m)), s, Co!Message(m), a)
  BY OneMore DEF OneLonger

LEMMA LastMessage ==
  ASSUME CoTypeOK, EndsRight, ExchangeRight, co_ppc \in {"write", "read"}, cut = {"child"},
         NEW m \in {"SIGPIPE caught", "child closed pipe"},
         co_shown' = Append(co_shown, Co!Message(m)), co_ppc' = "exited", co_parent' = {},
         UNCHANGED <<co_cpc, co_child, asked, cut>>
  PROVE  CoTypeOK' /\ EndsRight' /\ ExchangeRight' /\ LastWord'
<1>1. Len(co_shown) = asked - 1 /\ asked > 0 /\ asked \in Nat /\ co_shown \in Seq(Words)
  BY DEF ExchangeRight, CoTypeOK
<1>2. OneLonger(co_shown', co_shown, Co!Message(m), asked)
  <2>1. Co!Message(m) \in Words
    BY DEF Words, Co!Message
  <2>2. asked \in Nat /\ co_shown \in Seq(Words) /\ Len(co_shown) = asked - 1
    BY <1>1
  <2> QED BY <2>1, <2>2, MessageMore, Zenon
<1>3. /\ co_shown' \in Seq(Words) /\ Len(co_shown') = asked /\ co_shown'[asked] = Co!Message(m)
      /\ \A n \in 1 .. asked - 1 : co_shown'[n] = co_shown[n]
  BY <1>2, Zenon DEF OneLonger
<1>4. CoTypeOK' /\ EndsRight' /\ ExchangeRight'
  BY <1>3 DEF CoTypeOK, EndsRight, ExchangeRight
<1>5. AnswersRight(Len(co_shown) - 1)'
  BY <1>1, <1>3 DEF ExchangeRight, AnswersRight, Co!Answer
<1> QED BY <1>1, <1>3, <1>4, <1>5 DEF LastWord, Co!Message

LEMMA CoParent == CoInv /\ Co!ParentStep => CoInv'
<1> SUFFICES ASSUME CoInv, Co!ParentStep PROVE CoInv'
  OBVIOUS
<1>1. (AllShown \/ LastWord => Co!CoprocessRight)'
  BY AllAnswered, LastIsRight, PTL
<1>2. (CoTypeOK /\ ExchangeRight /\ co_ppc # "exited" => AllShown)'
  BY RunningRight, PTL
<1>3. CoTypeOK /\ EndsRight /\ ExchangeRight
  BY DEF CoInv
<1>4. CASE Co!Fork
  <2>1. CoTypeOK' /\ EndsRight'
    BY <1>3, <1>4 DEF CoTypeOK, EndsRight, Co!Fork, Co!Ends, ParentEnds, ChildEnds
  <2>2. ExchangeRight' /\ co_ppc' # "exited"
    BY <1>3, <1>4 DEF ExchangeRight, Quiet, AnswersRight, Co!Answer, Co!Fork
  <2> QED BY <1>1, <1>2, <2>1, <2>2 DEF CoInv
<1>5. CASE Co!ParentClose
  <2>0. co_parent' \in {co_parent \ {"fd1 read"}, co_parent \ {"fd2 write"}} /\ co_ppc' \in {"close", "fgets"}
        /\ (co_ppc' = "fgets" => "fd1 read" \notin co_parent /\ co_parent' = co_parent \ {"fd2 write"})
    BY <1>5 DEF Co!ParentClose
  <2>1. ParentEnds \subseteq co_parent' /\ co_parent' \in SUBSET Co!Ends
    BY <1>3, <1>5, <2>0 DEF CoTypeOK, EndsRight, Co!ParentClose, ParentEnds
  <2>3. co_ppc' = "fgets" => co_parent' = ParentEnds
    BY <1>3, <2>0, <2>1 DEF CoTypeOK, ParentEnds, Co!Ends
  <2>4. UNCHANGED <<co_cpc, co_child, asked, co_shown, cut>> /\ co_ppc = "close"
    BY <1>5 DEF Co!ParentClose
  <2>5. CoTypeOK' /\ EndsRight'
    BY <1>3, <2>0, <2>1, <2>3, <2>4 DEF CoTypeOK, EndsRight
  <2>2. ExchangeRight' /\ co_ppc' # "exited"
    BY <1>3, <1>5 DEF ExchangeRight, Quiet, AnswersRight, Co!Answer, Co!ParentClose
  <2> QED BY <1>1, <1>2, <2>5, <2>2 DEF CoInv
<1>6. CASE Co!Fgets
  <2>1. UNCHANGED <<co_cpc, co_child, fd1, fd2, args, co_shown, cut>> /\ co_ppc = "fgets"
    BY <1>6 DEF Co!Fgets
  <2>2. CASE asked + 1 \in Inputs
    <3>1. asked' = asked + 1 /\ co_line' = asked + 1 /\ co_ppc' = "write" /\ co_parent' = co_parent
      BY <1>6, <2>2 DEF Co!Fgets
    <3>2. CoTypeOK' /\ EndsRight'
      BY <1>3, <2>1, <3>1 DEF CoTypeOK, EndsRight
    <3>3. AnswersRight(Len(co_shown))'
      BY <1>3, <2>1 DEF ExchangeRight, AnswersRight, Co!Answer
    <3>4. Len(co_shown) = asked /\ asked \in Nat /\ Quiet'
      BY <1>3, <2>1 DEF CoTypeOK, ExchangeRight, Quiet
    <3>5. ExchangeRight'
      BY <2>1, <3>1, <3>3, <3>4 DEF ExchangeRight
    <3> QED BY <1>1, <1>2, <3>1, <3>2, <3>5 DEF CoInv
  <2>3. CASE asked + 1 \notin Inputs
    <3>1. UNCHANGED <<asked, co_line>> /\ co_ppc' = "exited" /\ co_parent' = {}
      BY <1>6, <2>3 DEF Co!Fgets, Co!ParentExit
    <3>2. CoTypeOK' /\ EndsRight' /\ ExchangeRight'
      BY <1>3, <2>1, <3>1 DEF CoTypeOK, EndsRight, ExchangeRight
    <3>3. AllShown'
      BY <1>3, <2>1, <3>1, <3>2 DEF ExchangeRight, AllShown, AnswersRight, Co!Answer
    <3> QED BY <1>1, <3>2, <3>3 DEF CoInv
  <2> QED BY <2>2, <2>3
<1>7. CASE Co!ParentWrite
  <2>1. CASE Co!Open("fd1 read")
    <3>1. CoTypeOK' /\ EndsRight'
      BY <1>3, <1>7, <2>1 DEF CoTypeOK, EndsRight, Co!ParentWrite, ParentEnds, ChildEnds
    <3>2. fd1' = <<co_line>>
      <4>1. fd1 = <<>> /\ fd1' = Append(fd1, co_line)
        BY <1>3, <1>7, <2>1 DEF Co!ParentWrite, ExchangeRight, Quiet
      <4> QED BY <4>1
    <3>3. ExchangeRight' /\ co_ppc' # "exited"
      BY <1>3, <1>7, <2>1, <3>2 DEF ExchangeRight, Quiet, Asked, AnswersRight, Co!Answer, Co!ParentWrite
    <3> QED BY <1>1, <1>2, <3>1, <3>3 DEF CoInv
  <2>2. CASE ~Co!Open("fd1 read")
    <3>1. cut = {"child"}
      BY <1>3, <1>7, <2>2 DEF CoTypeOK, EndsRight, Co!ParentWrite, Co!Open, ParentEnds, ChildEnds
    <3>2. co_shown' = Append(co_shown, Co!Message("SIGPIPE caught")) /\ co_ppc' = "exited"
          /\ co_parent' = {} /\ UNCHANGED <<co_cpc, co_child, asked, cut>>
          /\ co_ppc = "write"
      BY <1>7, <2>2 DEF Co!ParentWrite, Co!ParentExit
    <3> QED BY <1>1, <1>3, <3>1, <3>2, LastMessage DEF ExchangeRight, CoInv
  <2> QED BY <2>1, <2>2
<1>8. CASE Co!ParentRead
  <2>1. UNCHANGED <<co_cpc, co_child, fd1, co_line, args, asked, cut>> /\ co_ppc = "read"
    BY <1>8 DEF Co!ParentRead
  <2>2. CASE fd2 # <<>>
    <3>1. co_shown' = co_shown \o fd2 /\ fd2' = <<>> /\ co_ppc' = "fgets" /\ co_parent' = co_parent
      BY <1>8, <2>2 DEF Co!ParentRead
    <3>2. fd1 = <<>> /\ fd2 = <<Co!Answer(asked)>> /\ co_cpc # "write"
      BY <1>3, <2>1, <2>2 DEF ExchangeRight, Asked
    <3>3. Len(co_shown) = asked - 1 /\ asked > 0 /\ asked \in Nat /\ co_shown \in Seq(Words)
          /\ Co!Answer(asked) \in Words
      BY <1>3, <2>1 DEF ExchangeRight, CoTypeOK, Words, Co!Answer
    <3>4. /\ co_shown' \in Seq(Words) /\ Len(co_shown') = asked /\ co_shown'[asked] = Co!Answer(asked)
          /\ \A n \in 1 .. asked - 1 : co_shown'[n] = co_shown[n]
      BY <3>1, <3>2, <3>3, OneMore
    <3>5. CoTypeOK' /\ EndsRight'
      BY <1>3, <2>1, <3>1, <3>4 DEF CoTypeOK, EndsRight
    <3>6. AnswersRight(Len(co_shown))'
      <4>1. \A n \in 1 .. asked - 1 : co_shown[n] = Co!Answer(n)
        BY <1>3, <2>1, <3>3 DEF ExchangeRight, AnswersRight
      <4>2. \A n \in 1 .. asked : n = asked \/ n \in 1 .. asked - 1
        BY <3>3
      <4>3. \A n \in 1 .. asked : co_shown'[n] = Co!Answer(n)
        BY <3>4, <4>1, <4>2
      <4> QED BY <3>4, <4>3 DEF AnswersRight, Co!Answer
    <3>7. ExchangeRight'
      BY <2>1, <3>1, <3>2, <3>4, <3>6 DEF ExchangeRight, Quiet
    <3> QED BY <1>1, <1>2, <3>1, <3>5, <3>7 DEF CoInv
  <2>3. CASE fd2 = <<>>
    <3>1. co_shown' = Append(co_shown, Co!Message("child closed pipe")) /\ co_ppc' = "exited"
          /\ co_parent' = {} /\ ~Co!Open("fd2 write")
      BY <1>8, <2>3 DEF Co!ParentRead, Co!ParentExit
    <3>2. cut = {"child"}
      BY <1>3, <2>1, <3>1 DEF CoTypeOK, EndsRight, Co!Open, ParentEnds, ChildEnds
    <3> QED BY <1>1, <1>3, <2>1, <3>1, <3>2, LastMessage DEF ExchangeRight, CoInv
  <2> QED BY <2>2, <2>3
<1> QED BY <1>4, <1>5, <1>6, <1>7, <1>8 DEF Co!ParentStep

(* A child that is cut off closes its ends, and says nothing.              *)
LEMMA CoChildCut ==
  ASSUME CoInv, co_cpc \in {"close", "read", "write"}, co_cpc' = "exited", co_child' = {},
         cut' = cut \cup {"child"},
         UNCHANGED <<co_ppc, co_parent, fd1, fd2, co_line, args, asked, co_shown>>
  PROVE  CoInv'
<1>1. (AllShown => Co!CoprocessRight)'
  BY AllAnswered, PTL
<1>2. (CoTypeOK /\ ExchangeRight /\ co_ppc # "exited" => AllShown)'
  BY RunningRight, PTL
<1>3. CoTypeOK /\ EndsRight /\ ExchangeRight /\ Co!CoprocessRight
  BY DEF CoInv
<1>4. CoTypeOK' /\ EndsRight'
  BY <1>3 DEF CoTypeOK, EndsRight
<1>5. ExchangeRight'
  BY <1>3 DEF ExchangeRight, Quiet, Asked, AnswersRight, Co!Answer
<1>6. co_ppc = "exited" => Co!CoprocessRight'
  <2> SUFFICES ASSUME co_ppc = "exited" PROVE Co!CoprocessRight'
    OBVIOUS
  <2>1. "child" \notin cut
    BY <1>3 DEF EndsRight
  <2> QED BY <1>3, <2>1 DEF Co!CoprocessRight, Co!Answer
<1> QED BY <1>1, <1>2, <1>4, <1>5, <1>6 DEF CoInv

LEMMA CoChild == CoInv /\ Co!ChildStep => CoInv'
<1> SUFFICES ASSUME CoInv, Co!ChildStep PROVE CoInv'
  OBVIOUS
<1>1. (AllShown => Co!CoprocessRight)'
  BY AllAnswered, PTL
<1>2. (CoTypeOK /\ ExchangeRight /\ co_ppc # "exited" => AllShown)'
  BY RunningRight, PTL
<1>3. CoTypeOK /\ EndsRight /\ ExchangeRight /\ Co!CoprocessRight
  BY DEF CoInv
<1>4. UNCHANGED <<co_ppc, co_parent, co_line, asked, co_shown>> /\ (Co!ExecFails \/ UNCHANGED cut)
  BY DEF Co!ChildStep, Co!ChildClose, Co!ExecFails, Co!Add2Read, Co!Add2Write
<1>5. UNCHANGED cut => Co!CoprocessRight'
  BY <1>3, <1>4 DEF Co!CoprocessRight, Co!Answer
<1>6. CASE Co!ChildClose
  <2>1. co_child' \in {co_child \ {"fd1 write"}, co_child \ {"fd2 read"}} /\ co_cpc' \in {"close", "read"}
        /\ (co_cpc' = "read" => "fd1 write" \notin co_child /\ co_child' = co_child \ {"fd2 read"})
        /\ co_cpc = "close" /\ UNCHANGED <<fd1, fd2, args>>
    BY <1>6 DEF Co!ChildClose
  <2>0. UNCHANGED cut
    BY <1>6 DEF Co!ChildClose
  <2>2. CoTypeOK' /\ EndsRight'
    BY <1>3, <1>4, <2>0, <2>1 DEF CoTypeOK, EndsRight, ParentEnds, ChildEnds, Co!Ends
  <2>3. ExchangeRight'
    BY <1>3, <1>4, <2>1 DEF ExchangeRight, Quiet, Asked, AnswersRight, Co!Answer
  <2> QED BY <1>5, <2>0, <2>2, <2>3 DEF CoInv
<1>7. CASE Co!Add2Read
  <2>0. UNCHANGED cut
    BY <1>7 DEF Co!Add2Read
  <2>1. CASE fd1 # <<>>
    <3>1. co_cpc = "read" /\ args' = Head(fd1) /\ fd1' = <<>> /\ co_cpc' = "write" /\ UNCHANGED <<co_child, fd2>>
      BY <1>7, <2>1 DEF Co!Add2Read
    <3>2. CoTypeOK' /\ EndsRight'
      BY <1>3, <1>4, <2>0, <3>1 DEF CoTypeOK, EndsRight
    <3>3. co_ppc = "read" \/ co_ppc = "exited"
      BY <1>3, <2>1, <3>1 DEF CoTypeOK, EndsRight, ExchangeRight, Quiet
    <3>4. co_ppc = "read" => fd1 = <<asked>> /\ fd2 = <<>>
      BY <1>3, <2>1 DEF ExchangeRight, Asked
    <3>5. co_ppc = "read" => args' = asked
      BY <3>1, <3>4
    <3>6. ExchangeRight'
      BY <1>3, <1>4, <3>1, <3>3, <3>4, <3>5 DEF ExchangeRight, Quiet, Asked, AnswersRight, Co!Answer
    <3> QED BY <1>5, <2>0, <3>2, <3>6 DEF CoInv
  <2>2. CASE fd1 = <<>>
    <3>1. co_cpc = "read" /\ ~Co!Open("fd1 write") /\ co_cpc' = "exited" /\ co_child' = {}
          /\ UNCHANGED <<fd1, fd2, args>>
      BY <1>7, <2>2 DEF Co!Add2Read
    <3>2. co_ppc = "exited"
      BY <1>3, <3>1 DEF CoTypeOK, EndsRight, Co!Open, ParentEnds
    <3>3. CoTypeOK' /\ EndsRight' /\ ExchangeRight'
      BY <1>3, <1>4, <2>0, <3>1, <3>2 DEF CoTypeOK, EndsRight, ExchangeRight
    <3> QED BY <1>5, <2>0, <3>3 DEF CoInv
  <2> QED BY <2>1, <2>2
<1>8. CASE Co!Add2Write
  <2>0. UNCHANGED cut
    BY <1>8 DEF Co!Add2Write
  <2>1. co_cpc = "write" /\ co_cpc' \in {"read", "exited"} /\ UNCHANGED <<fd1, args>>
    BY <1>8 DEF Co!Add2Write
  <2>2. CASE Co!Open("fd2 read")
    <3>1. co_cpc' = "read" /\ fd2' = Append(fd2, Co!Answer(args)) /\ co_child' = co_child
      BY <1>8, <2>2 DEF Co!Add2Write
    <3>2. CoTypeOK' /\ EndsRight'
      BY <1>3, <1>4, <2>0, <2>1, <3>1 DEF CoTypeOK, EndsRight
    <3>3. co_ppc = "read" \/ co_ppc = "exited"
      BY <1>3, <2>1 DEF CoTypeOK, EndsRight, ExchangeRight, Quiet
    <3>4. co_ppc = "read" => fd1 = <<>> /\ fd2 = <<>> /\ args = asked
      BY <1>3, <2>1 DEF ExchangeRight, Asked
    <3>5. co_ppc = "read" => fd2' = <<Co!Answer(asked)>>
      BY <3>1, <3>4
    <3>6. co_ppc = "read" => Asked(asked)'
      BY <1>4, <2>1, <3>1, <3>4, <3>5 DEF Asked, Co!Answer
    <3>7. ExchangeRight'
      BY <1>3, <1>4, <3>1, <3>3, <3>6 DEF ExchangeRight, Quiet, AnswersRight, Co!Answer
    <3> QED BY <1>5, <2>0, <3>2, <3>7 DEF CoInv
  <2>3. CASE ~Co!Open("fd2 read")
    <3>1. co_cpc' = "exited" /\ co_child' = {} /\ fd2' = fd2
      BY <1>8, <2>3 DEF Co!Add2Write
    <3>2. co_ppc = "exited"
      BY <1>3, <2>1, <2>3 DEF CoTypeOK, EndsRight, Co!Open, ParentEnds
    <3>3. CoTypeOK' /\ EndsRight' /\ ExchangeRight'
      BY <1>3, <1>4, <2>0, <2>1, <3>1, <3>2 DEF CoTypeOK, EndsRight, ExchangeRight
    <3> QED BY <1>5, <2>0, <3>3 DEF CoInv
  <2> QED BY <2>2, <2>3
<1>9. CASE Co!ExecFails
  <2>1. cut' = cut \cup {"child"}
    BY <1>9 DEF Co!ExecFails
  <2> QED BY <1>9, <2>1, CoChildCut DEF Co!ExecFails
<1> QED BY <1>6, <1>7, <1>8, <1>9 DEF Co!ChildStep

(* A process that is killed closes its ends, and says nothing.             *)
LEMMA CoKilled == CoInv /\ Co!Killed => CoInv'
<1> SUFFICES ASSUME CoInv, Co!Killed PROVE CoInv'
  OBVIOUS
<1>1. (AllShown => Co!CoprocessRight)'
  BY AllAnswered, PTL
<1>3. CoTypeOK /\ EndsRight /\ ExchangeRight /\ Co!CoprocessRight
  BY DEF CoInv
<1>4. UNCHANGED <<fd1, fd2, co_line, args, asked, co_shown>>
  BY DEF Co!Killed
<1>5. CASE co_cpc \in {"close", "read", "write"} /\ co_cpc' = "exited" /\ co_child' = {}
           /\ cut' = cut \cup {"child"} /\ UNCHANGED <<co_ppc, co_parent>>
  BY <1>4, <1>5, CoChildCut
<1>6. CASE co_ppc \in {"close", "fgets", "write", "read"} /\ Co!ParentExit
           /\ cut' = cut \cup {"parent"} /\ UNCHANGED <<co_cpc, co_child>>
  <2>1. co_ppc' = "exited" /\ co_parent' = {}
    BY <1>6 DEF Co!ParentExit
  <2>2. CoTypeOK' /\ EndsRight' /\ ExchangeRight'
    BY <1>3, <1>4, <1>6, <2>1 DEF CoTypeOK, EndsRight, ExchangeRight
  <2>3. AnswersRight(Len(co_shown))'
    BY <1>3, <1>4, <1>6 DEF ExchangeRight, AnswersRight, Co!Answer
  <2>4. AllShown'
    BY <1>3, <1>4, <1>6, <2>1, <2>2, <2>3 DEF AllShown, ExchangeRight
  <2> QED BY <1>1, <2>2, <2>4 DEF CoInv
<1> QED BY <1>5, <1>6 DEF Co!Killed

LEMMA CoNext == CoInv /\ [MCNext]_all => CoInv'
<1> SUFFICES ASSUME CoInv, [MCNext]_all PROVE CoInv'
  OBVIOUS
<1>1. CASE Co!Next
  BY <1>1, CoParent, CoChild, CoKilled DEF Co!Next
<1>2. CASE UNCHANGED coVars
  BY <1>2 DEF coVars, CoInv, CoTypeOK, EndsRight, ExchangeRight, Quiet, Asked, AnswersRight,
              Co!Answer, Co!CoprocessRight
<1> QED BY <1>1, <1>2 DEF MCNext, Runs, all

LEMMA CoInit == MCInit => CoInv
<1> SUFFICES ASSUME MCInit PROVE CoInv
  OBVIOUS
<1>1. Co!Init
  BY DEF MCInit
<1>2. co_shown \in Seq(Words) /\ Len(co_shown) = 0
  BY <1>1 DEF Co!Init
<1>3. CoTypeOK /\ EndsRight /\ ExchangeRight /\ co_ppc # "exited"
  BY <1>1, <1>2 DEF Co!Init, CoTypeOK, EndsRight, ExchangeRight, Quiet, AnswersRight
<1> QED BY <1>3, AllAnswered, RunningRight DEF CoInv

(* The output of each of the three is what its input asks for: the bytes   *)
(* of rot13 whatever order its operations complete in; the numbers of the  *)
(* threads whatever order they come to the barrier in, where no heapsort   *)
(* failed; and the answers of the coprocess, unless one of its two         *)
(* processes was killed or never became add2.                              *)
THEOREM TransformsAreRight == MCSpec => []TransformsRight
<1>1. MCInit => RotInv /\ SortInv /\ CoInv
  BY RotInit, SortInit, CoInit DEF MCInit
<1>2. RotInv /\ SortInv /\ CoInv => TransformsRight
  BY RotEnds, SortEnds DEF TransformsRight, CoInv
<1> QED BY <1>1, <1>2, RotNext, SortNext, CoNext, PTL DEF MCSpec

-----------------------------------------------------------------------------
(* sigwait: the flag is set between two steps of the thread, and main goes *)
(* past its loop only after that.                                          *)

WaitInv ==
  /\ main \in {"mask", "create", "lock", "test", "clear", "unmask", "exit", "exited", "killed"}
  /\ thread \in {"none", "sigwait", "lock", "unlock", "signal", "returned"}
  /\ main \in {"mask", "create"} => thread = "none"
  /\ quits = (IF thread \in {"none", "sigwait"} THEN 0 ELSE 1)
  /\ thread \in {"none", "sigwait", "lock"} => quitflag = 0 /\ main \notin {"clear", "unmask", "exit", "exited"}
  /\ main \in {"unmask", "exit", "exited"} => quitflag = 0
  /\ sw_blocked <=> main \in {"create", "lock", "test", "clear", "unmask"}

LEMMA WaitNext == WaitInv /\ [MCNext]_all => WaitInv'
<1> SUFFICES ASSUME WaitInv, [MCNext]_all PROVE WaitInv'
  OBVIOUS
<1>1. CASE Wait!Sigwait \/ Wait!SetFlag \/ Wait!CondSignal
  BY <1>1 DEF WaitInv, Wait!Sigwait, Wait!SetFlag, Wait!CondSignal, Wait!Running, Wait!Ended
<1>2. CASE Wait!BlockAndCreate
  BY <1>2 DEF WaitInv, Wait!BlockAndCreate
<1>3. CASE Wait!MainLock \/ Wait!Test \/ Wait!Spurious
  BY <1>3 DEF WaitInv, Wait!MainLock, Wait!Test, Wait!Spurious
<1>4. CASE Wait!Clear \/ Wait!Unmask \/ Wait!Exit
  BY <1>4 DEF WaitInv, Wait!Clear, Wait!Unmask, Wait!Exit
<1>5. CASE \E s \in {"INT", "QUIT"} : Wait!Send(s)
  BY <1>5 DEF WaitInv, Wait!Send, Wait!Running, Wait!Ended
<1>6. CASE UNCHANGED waitVars
  BY <1>6 DEF WaitInv, waitVars
<1> QED BY <1>1, <1>2, <1>3, <1>4, <1>5, <1>6
        DEF MCNext, Runs, all, Wait!Next, Wait!MainStep, Wait!ThreadStep

(* suspend.c comes out of its wait only after a SIGQUIT, no signal ends it *)
(* while it works, and the flag is clear at its end, however many signals  *)
(* come and whenever main is woken.                                        *)
THEOREM QuitEndsTheWait == MCSpec => []Wait!QuitEndsWait
<1>1. MCInit => WaitInv
  BY DEF MCInit, Wait!Init, WaitInv
<1>2. WaitInv => Wait!QuitEndsWait
  BY DEF WaitInv, Wait!QuitEndsWait
<1> QED BY <1>1, <1>2, WaitNext, PTL DEF MCSpec

-----------------------------------------------------------------------------
(* timeout.c: the times                                                    *)

LEMMA TimeIs ==
  ASSUME NEW n \in Nat
  PROVE  /\ Time!Time(n).sec \in Nat /\ Time!Time(n).nsec \in 0 .. SECTONSEC - 1
         /\ Time!Parts(Time!Time(n)) = n
  BY TimeAssumption DEF Time!Time, Time!Parts

Times == [sec : Nat, nsec : 0 .. SECTONSEC - 1]

LEMMA DifferenceIs ==
  ASSUME NEW t \in Times, NEW u \in Times, Time!Later(t, u)
  PROVE  /\ Time!Difference(t, u) \in Times
         /\ Time!Parts(Time!Difference(t, u)) = Time!Parts(t) - Time!Parts(u)
<1>1. t.sec \in Nat /\ u.sec \in Nat /\ t.nsec \in Nat /\ u.nsec \in Nat
      /\ t.nsec < SECTONSEC /\ u.nsec < SECTONSEC /\ SECTONSEC \in Nat
  BY TimeAssumption DEF Times
<1>2. t.sec * SECTONSEC - u.sec * SECTONSEC = (t.sec - u.sec) * SECTONSEC
      /\ (t.sec - u.sec - 1) * SECTONSEC = (t.sec - u.sec) * SECTONSEC - SECTONSEC
      /\ t.sec * SECTONSEC \in Nat /\ u.sec * SECTONSEC \in Nat
      /\ (t.sec - u.sec) * SECTONSEC \in Int /\ (t.sec - u.sec - 1) * SECTONSEC \in Int
  BY <1>1
<1>3. CASE t.nsec >= u.nsec
  <2>1. Time!Difference(t, u) = [sec |-> t.sec - u.sec, nsec |-> t.nsec - u.nsec] /\ t.sec >= u.sec
    BY <1>1, <1>3 DEF Time!Difference, Time!Later
  <2>2. Time!Difference(t, u) \in Times
    BY <1>1, <1>3, <2>1 DEF Times
  <2>3. Time!Parts(Time!Difference(t, u)) = (t.sec - u.sec) * SECTONSEC + (t.nsec - u.nsec)
    BY <2>1 DEF Time!Parts
  <2> QED BY <1>1, <1>2, <2>2, <2>3 DEF Time!Parts
<1>4. CASE t.nsec < u.nsec
  <2>1. /\ Time!Difference(t, u) = [sec |-> t.sec - u.sec - 1, nsec |-> SECTONSEC - u.nsec + t.nsec]
        /\ t.sec > u.sec
    BY <1>1, <1>4 DEF Time!Difference, Time!Later
  <2>2. Time!Difference(t, u) \in Times
    BY <1>1, <1>4, <2>1 DEF Times
  <2>3. Time!Parts(Time!Difference(t, u)) = (t.sec - u.sec - 1) * SECTONSEC + (SECTONSEC - u.nsec + t.nsec)
    BY <2>1 DEF Time!Parts
  <2> QED BY <1>1, <1>2, <2>2, <2>3 DEF Time!Parts
<1> QED BY <1>1, <1>3, <1>4

(* The retry is not before its time, and made once.                        *)
TimeInv ==
  /\ to_main \in {"lock", "check", "timeout", "makethread", "call", "called", "unlock", "exit", "exited"}
  /\ helper \in {"none", "start", "sleep", "called", "free", "returned"}
  /\ now \in Nat /\ when \in Times /\ to_wait \in Times /\ wake \in Nat
  /\ to_main \in {"lock", "check"} => when = Time!Time(0)
  /\ Time!Parts(when) <= now + Delay * SECTONSEC
  /\ Time!Parts(to_wait) <= Delay * SECTONSEC
  /\ to_main = "makethread" \/ helper = "start" => now + Time!Parts(to_wait) >= Time!Parts(when)
  /\ helper = "sleep" => wake >= Time!Parts(when)
  /\ helper \in {"called", "free", "returned"} => now >= Time!Parts(when)
  /\ helper # "none" => to_main \in {"unlock", "exit", "exited"}
  /\ calls \in {0, 1}
  /\ to_main \in {"lock", "check", "timeout", "makethread", "call"} \/ helper \in {"start", "sleep"} => calls = 0
  /\ to_main = "called" => calls = 1
  /\ to_main \in {"unlock", "exit", "exited"} /\ helper = "none" /\ when # Time!Time(0) => calls = 1
  /\ tips = (IF to_main = "makethread" \/ helper \in {"start", "sleep", "called", "free"} THEN 1 ELSE 0)

LEMMA TimeNext == TimeInv /\ [MCNext]_all => TimeInv'
<1> SUFFICES ASSUME TimeInv, [MCNext]_all PROVE TimeInv'
  OBVIOUS
<1>1. \A n \in Nat : Time!Time(n) \in Times /\ Time!Parts(Time!Time(n)) = n
  <2> TAKE n \in Nat
  <2>1. Time!Time(n) = [sec |-> n \div SECTONSEC, nsec |-> n % SECTONSEC]
    BY DEF Time!Time
  <2> QED BY <2>1, TimeIs DEF Times
<1>2. now \in Nat /\ Delay * SECTONSEC \in Nat
  BY TimeAssumption DEF TimeInv
<1>3. CASE Time!MainLock \/ Time!MainUnlock \/ Time!Exit \/ Time!retry
  BY <1>3 DEF TimeInv, Time!MainLock, Time!MainUnlock, Time!Exit, Time!retry, Time!Parts, Time!Time
<1>4. CASE Time!Check
  <2>1. CASE when' = Time!Time(now + Delay * SECTONSEC) /\ to_main' = "timeout"
    <3>1. now + Delay * SECTONSEC \in Nat
      BY <1>2
    <3>2. when' \in Times /\ Time!Parts(when)' = now + Delay * SECTONSEC
      BY <1>1, <2>1, <3>1 DEF Time!Parts
    <3> QED BY <1>2, <1>4, <2>1, <3>2 DEF TimeInv, Time!Check, Time!Parts, Time!Time
  <2>2. CASE to_main' = "unlock" /\ UNCHANGED when
    BY <1>4, <2>2 DEF TimeInv, Time!Check, Time!Parts, Time!Time
  <2> QED BY <1>4, <2>1, <2>2 DEF Time!Check
<1>5. CASE Time!timeout
  <2>1. CASE to_main' = "call" /\ UNCHANGED <<to_wait, tips>>
    BY <1>5, <2>1 DEF TimeInv, Time!timeout, Time!Parts, Time!Time
  <2>2. CASE /\ Time!Later(when, Time!Time(now)) /\ to_main' = "makethread"
             /\ tips' = tips + 1 /\ to_wait' = Time!Difference(when, Time!Time(now))
    <3>1. when \in Times /\ Time!Parts(when) <= now + Delay * SECTONSEC
      BY DEF TimeInv
    <3>2. Time!Parts(when) \in Nat
      BY <3>1, TimeAssumption DEF Times, Time!Parts
    <3>3. to_wait' \in Times /\ Time!Parts(to_wait)' = Time!Parts(when) - now
      BY <1>1, <1>2, <2>2, <3>1, DifferenceIs DEF Time!Parts
    <3> QED BY <1>2, <1>5, <2>2, <3>1, <3>2, <3>3 DEF TimeInv, Time!timeout, Time!Parts, Time!Time
  <2> QED BY <1>5, <2>1, <2>2 DEF Time!timeout
<1>6. CASE Time!makethread
  BY <1>6 DEF TimeInv, Time!makethread, Time!Parts, Time!Time
<1>7. CASE Time!timeout_helper
  <2>1. Time!Parts(to_wait) \in Nat
    BY TimeAssumption DEF TimeInv, Times, Time!Parts
  <2>2. now + Time!Parts(to_wait) \in Nat
    BY <1>2, <2>1
  <2>3. UNCHANGED <<now, to_main, when, to_wait>>
    BY <1>7 DEF Time!timeout_helper
  <2>4. CASE helper = "start" /\ helper' = "sleep" /\ wake' = now + Time!Parts(to_wait)
             /\ UNCHANGED <<tips, calls>>
    BY <1>2, <2>1, <2>2, <2>3, <2>4 DEF TimeInv, Time!Parts, Time!Time
  <2>5. CASE helper = "sleep" /\ now >= wake /\ helper' = "called" /\ calls' = calls + 1
             /\ UNCHANGED <<wake, tips>>
    <3>1. Time!Parts(when) \in Nat /\ wake >= Time!Parts(when) /\ wake \in Nat
      BY <2>5, TimeAssumption DEF TimeInv, Times, Time!Parts
    <3>2. now >= Time!Parts(when)
      BY <1>2, <2>5, <3>1
    <3> QED BY <2>3, <2>5, <3>2 DEF TimeInv, Time!Parts, Time!Time
  <2>6. CASE helper = "called" /\ helper' = "free" /\ UNCHANGED <<wake, tips, calls>>
    BY <2>3, <2>6 DEF TimeInv, Time!Parts, Time!Time
  <2>7. CASE helper = "free" /\ tips' = tips - 1 /\ helper' = "returned" /\ UNCHANGED <<wake, calls>>
    BY <2>3, <2>7 DEF TimeInv, Time!Parts, Time!Time
  <2> QED BY <1>7, <2>4, <2>5, <2>6, <2>7 DEF Time!timeout_helper
<1>8. CASE Time!Tick
  <2>1. Time!Parts(to_wait) \in Nat /\ Time!Parts(when) \in Nat
    BY TimeAssumption DEF TimeInv, Times, Time!Parts
  <2> QED BY <1>2, <1>8, <2>1 DEF TimeInv, Time!Tick, Time!Parts, Time!Time
<1>9. CASE UNCHANGED timeVars
  BY <1>9 DEF TimeInv, timeVars, Time!Parts, Time!Time
<1> QED BY <1>3, <1>4, <1>5, <1>6, <1>7, <1>8, <1>9
        DEF MCNext, Runs, all, Time!Next, Time!MainStep

(* The retry is made once, by the helper not before its time or at once    *)
(* when there is no helper; a wait is never longer than what was asked for *)
(* and has fewer parts than a second has; and what was allocated is freed, *)
(* at whatever time each step is made.                                     *)
THEOREM RetryIsMadeOnce == MCSpec => []Time!RetryOnce
<1>1. MCInit => TimeInv
  <2> SUFFICES ASSUME MCInit PROVE TimeInv
    OBVIOUS
  <2>1. /\ now \in 0 .. SECTONSEC - 1 /\ to_main = "lock" /\ helper = "none"
        /\ when = Time!Time(0) /\ to_wait = Time!Time(0) /\ wake = 0 /\ tips = 0 /\ calls = 0
    BY DEF MCInit, Time!Init
  <2>2. Time!Time(0) \in Times /\ Time!Parts(Time!Time(0)) = 0
    <3>1. Time!Time(0) = [sec |-> 0 \div SECTONSEC, nsec |-> 0 % SECTONSEC]
      BY DEF Time!Time
    <3> QED BY <3>1, TimeIs DEF Times
  <2>3. now \in Nat /\ Delay * SECTONSEC \in Nat
    BY <2>1, TimeAssumption
  <2> QED BY <2>1, <2>2, <2>3 DEF TimeInv
<1>2. TimeInv => Time!RetryOnce
  BY TimeAssumption DEF TimeInv, Times, Time!RetryOnce
<1> QED BY <1>1, <1>2, TimeNext, PTL DEF MCSpec

=============================================================================
