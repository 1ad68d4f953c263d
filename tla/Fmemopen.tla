------------------------------ MODULE Fmemopen ------------------------------
(***************************************************************************)
(* The memory streams of apue.3e/exercises/fmemopen.c: fmemopen, and the   *)
(* four functions that stdio calls for a stream.  A program opens one      *)
(* stream after the other on the same memory, or on memory of the stream.  *)
(***************************************************************************)
EXTENDS Integers, Sequences

CONSTANTS
  Bytes,      \* what is written; 0 is the null byte
  Sizes,      \* the sizes of streams
  Types,      \* the type arguments, sequences of characters
  MaxLen,     \* bound on the length of one read or write
  MaxCalls    \* bound on the calls of one stream

VARIABLES
  user,       \* the memory of the program
  ms,         \* of the stream: mine (buf, if MS_MYBUF), rsize, vsize, curpos, flags
  answer,     \* what the last call gave back
  calls,
  wrote       \* this stream has been written to

vars == <<user, ms, answer, calls, wrote>>

Closed == [flags |-> {}, mine |-> <<>>, rsize |-> 0, vsize |-> 0, curpos |-> 0]
Has(flag) == flag \in ms.flags
Open == ms.flags # {}
Least(a, b) == IF a < b THEN a ELSE b
Most == CHOOSE n \in Sizes : \A k \in Sizes : k <= n

(* buf[n] of the code is Buf[n + 1].                                       *)
Buf == IF Has("MYBUF") THEN ms.mine ELSE user

-----------------------------------------------------------------------------
type_to_flags(type) ==
  LET of == [r |-> {"READ"}, w |-> {"WRITE", "TRUNCATE"}, a |-> {"APPEND"},
             plus |-> {"READ", "WRITE"}, b |-> {}]
      Legal(n) == IF n = 1 THEN type[n] \in {"r", "w", "a"} ELSE type[n] \in {"plus", "b"}
  IN IF \A n \in DOMAIN type : Legal(n) THEN UNION {of[type[n]] : n \in DOMAIN type} ELSE {}

\* Mutant: one byte further.
find_end_next(b, len) ==
  CHOOSE n \in 1 .. len :
    /\ n = len \/ b[n] = 0
    /\ \A k \in 1 .. n - 1 : b[k] # 0

find_end(b, len) ==
  CHOOSE n \in 0 .. len :
    /\ n = len \/ b[n + 1] = 0
    /\ \A k \in 1 .. n : b[k] # 0

Fails == answer' = <<-1>> /\ UNCHANGED <<user, ms, calls, wrote>>

(* fmemopen with buf, or with NULL when own is true                        *)
fmemopen(own, size, type) ==
  /\ ~Open
  /\ LET flags == type_to_flags(type)
         end == IF ~own /\ "APPEND" \in flags THEN find_end(user, size) ELSE 0
     IN IF size = 0 \/ flags = {} \/ (own /\ ~({"READ", "WRITE"} \subseteq flags))
        THEN Fails
        ELSE /\ ms' = [flags |-> IF own THEN flags \cup {"MYBUF"} ELSE flags,
                       mine |-> IF own THEN [n \in 1 .. size |-> 0] ELSE <<>>,
                       rsize |-> size, curpos |-> end,
                       vsize |-> CASE "APPEND" \in flags -> end
                                   [] {"APPEND", "TRUNCATE"} \cap flags = {} -> size
                                   [] OTHER -> 0]
             /\ answer' = <<0>> /\ calls' = 0 /\ wrote' = FALSE
             /\ UNCHANGED user

Call == Open /\ calls < MaxCalls /\ calls' = calls + 1

mstream_read(len) ==
  /\ Call
  /\ IF ~Has("READ") THEN answer' = <<-1>> /\ UNCHANGED ms
     ELSE /\ answer' = SubSeq(Buf, ms.curpos + 1, Least(ms.curpos + len, ms.vsize))
          /\ ms' = [ms EXCEPT !.curpos = @ + Len(answer')]
  /\ UNCHANGED <<user, wrote>>

\* Mutant: the null byte behind the data is written whenever there is room.
Terminated_always(b, cur, v) ==
  [n \in DOMAIN b |->
     IF n = cur + 1 THEN 0
     ELSE IF ~Has("READ") /\ cur = ms.rsize /\ n = ms.rsize THEN 0 ELSE b[n]]

(* The null byte after a write: behind the data of a stream that is read   *)
(* too, when they have grown; else behind what was written, or in the      *)
(* place of the last byte.                                                 *)
Terminated(b, cur, v) ==
  [n \in DOMAIN b |->
     IF \/ {"READ", "WRITE"} \subseteq ms.flags /\ cur > v /\ n = cur + 1 /\ cur < ms.rsize
        \/ ~Has("READ") /\ n = (IF cur < ms.rsize THEN cur + 1 ELSE ms.rsize)
     THEN 0 ELSE b[n]]

mstream_write(d) ==
  /\ Call
  /\ IF ms.flags \cap {"APPEND", "WRITE"} = {}
     THEN answer' = <<-1>> /\ UNCHANGED <<user, ms, wrote>>
     ELSE LET off == IF Has("APPEND") THEN ms.vsize ELSE ms.curpos
              nw == Least(Len(d), ms.rsize - off)
              cur == off + nw
              put == [n \in DOMAIN Buf |-> IF n \in off + 1 .. cur THEN d[n - off] ELSE Buf[n]]
              b == Terminated(put, cur, ms.vsize)
          IN /\ ms' = [ms EXCEPT !.curpos = cur, !.vsize = IF cur > @ THEN cur ELSE @,
                                 !.mine = IF Has("MYBUF") THEN b ELSE @]
             /\ user' = IF Has("MYBUF") THEN user ELSE b
             /\ answer' = <<nw>> /\ wrote' = TRUE

mstream_seek(pos, whence) ==
  /\ Call
  /\ LET off == CASE whence = "SET" -> pos
                  [] whence = "END" -> ms.vsize + pos
                  [] whence = "CUR" -> ms.curpos + pos
     IN IF off < 0 \/ off > ms.vsize THEN answer' = <<-1>> /\ UNCHANGED ms
        ELSE answer' = <<off>> /\ ms' = [ms EXCEPT !.curpos = off]
  /\ UNCHANGED <<user, wrote>>

mstream_close ==
  /\ Open /\ ms' = Closed /\ answer' = <<0>> /\ calls' = 0 /\ wrote' = FALSE
  /\ UNCHANGED user

-----------------------------------------------------------------------------
File == INSTANCE MemFile WITH
  text <- SubSeq(Buf, 1, ms.vsize), pos <- ms.curpos,
  limit <- ms.rsize, appends <- Has("APPEND")

Init ==
  /\ user \in [1 .. Most -> {0, CHOOSE b \in Bytes : TRUE}]
  /\ ms = Closed /\ answer = <<0>> /\ calls = 0 /\ wrote = FALSE

Next ==
  \/ \E own \in BOOLEAN, size \in Sizes, type \in Types : fmemopen(own, size, type)
  \/ \E n \in 0 .. MaxLen : mstream_read(n)
  \/ \E d \in File!Data : mstream_write(d)
  \/ \E whence \in {"SET", "END", "CUR"}, p \in -1 .. 1 : mstream_seek(p, whence)
  \/ mstream_close

Spec == Init /\ [][Next]_vars

-----------------------------------------------------------------------------
(* A stream that can be read is a file: each call on it does and answers   *)
(* what it does on a file of that size, the null bytes stay outside of the *)
(* text, and the memory behind the stream is not touched.                  *)
ReadableIsFile ==
  [][/\ Open /\ Open' /\ Has("READ") =>
          File!Step \/ (answer' = <<-1>> /\ UNCHANGED <<user, ms>>)
     /\ \A n \in DOMAIN user : n > ms.rsize => user'[n] = user[n]]_<<user, ms, answer>>

(* The positions stay inside the memory; after a write to a stream that is *)
(* only written the memory is a string; and what is appended to a string   *)
(* follows on it.                                                          *)
MemoryRight ==
  /\ ms.curpos <= ms.vsize /\ ms.vsize <= ms.rsize
  /\ Open /\ wrote /\ ~Has("READ") => \E n \in 1 .. ms.rsize : Buf[n] = 0
  /\ Open /\ Has("APPEND") => \A n \in 1 .. ms.vsize - 1 : Buf[n] # 0

=============================================================================
