------------------------------ MODULE MemFile -------------------------------
(***************************************************************************)
(* What a stream on memory that can be read promises: a file of at most    *)
(* limit bytes.                                                            *)
(***************************************************************************)
EXTENDS Integers, Sequences

CONSTANTS Bytes, MaxLen

VARIABLES
  text, pos,
  limit, appends,   \* the size of the memory; every write goes to the end
  answer            \* what the last call gave back

Least(a, b) == IF a < b THEN a ELSE b

Read(n) ==
  /\ LET got == SubSeq(text, pos + 1, Least(pos + n, Len(text)))
     IN answer' = got /\ pos' = pos + Len(got)
  /\ UNCHANGED <<text, limit, appends>>

(* What does not fit is not written.                                       *)
Write(d) ==
  /\ LET at == IF appends THEN Len(text) ELSE pos
         n == Least(Len(d), limit - at)
     IN /\ text' = SubSeq(text, 1, at) \o SubSeq(d, 1, n) \o SubSeq(text, at + n + 1, Len(text))
        /\ pos' = at + n
        /\ answer' = <<n>>
  /\ UNCHANGED <<limit, appends>>

Seek(p) ==
  /\ IF p \in 0 .. Len(text) THEN pos' = p /\ answer' = <<p>>
     ELSE answer' = <<-1>> /\ UNCHANGED pos
  /\ UNCHANGED <<text, limit, appends>>

Data == UNION {[1 .. n -> Bytes] : n \in 0 .. MaxLen}

Step ==
  \/ \E n \in 0 .. MaxLen : Read(n)
  \/ \E d \in Data : Write(d)
  \/ \E p \in -limit .. 2 * limit : Seek(p)
=============================================================================
