------------------------------- MODULE Rot13 --------------------------------
(***************************************************************************)
(* The asynchronous rot13 of apue.3e/advio/rot13c2.c: NBUF buffers, each   *)
(* unused, being read or being written, and one thread that looks at them  *)
(* in turn.  The operations complete in any order, and a write takes what  *)
(* is in the buffer when it is carried out.  A byte is the place in the    *)
(* input that it came from, and whether it is translated.                  *)
(***************************************************************************)
EXTENDS Integers, Sequences

CONSTANTS NBUF, BSZ, MaxSize   \* MaxSize: bound on the size of the input

VARIABLES
  size, length,       \* st_size, and the length of the input now
  op, last, data,     \* of bufs[]
  aio,                \* the aiocb of each buffer: descriptor, offset, nbytes, state, n
  aiolist,            \* the buffers whose aiocb is in the list
  off, numop, i,
  at,                 \* "scan", "suspend", "exited", "quit"
  output              \* the bytes of the output file, by place

bufs == <<op, last, data>>
file == <<size, length>>
vars == <<file, bufs, aio, aiolist, off, numop, i, at, output>>

Buf == 0 .. NBUF - 1
Byte(p) == [from |-> p, rot |-> FALSE]
NoByte == Byte(-1)
translate(c) == [c EXCEPT !.rot = ~@]
Advance == i' = i + 1 /\ UNCHANGED at
Least(a, b) == IF a < b THEN a ELSE b

-----------------------------------------------------------------------------
(* The passes over the buffers                                             *)

Unused ==
  /\ at = "scan" /\ i \in Buf /\ op[i] = "UNUSED"
  /\ IF off < size
     THEN /\ op' = [op EXCEPT ![i] = "READ_PENDING"]
          /\ last' = [last EXCEPT ![i] = @ \/ off + BSZ >= size]
          /\ aio' = [aio EXCEPT ![i] = [fd |-> "in", offset |-> off, nbytes |-> BSZ,
                                        state |-> "EINPROGRESS", n |-> 0]]
          /\ aiolist' = aiolist \cup {i}
          /\ off' = off + BSZ
          /\ numop' = numop + 1
     ELSE UNCHANGED <<op, last, aio, aiolist, off, numop>>
  /\ Advance
  /\ UNCHANGED <<file, data, output>>

(* What is still in progress is left for the next pass.                    *)
InProgress ==
  /\ at = "scan" /\ i \in Buf /\ op[i] # "UNUSED" /\ aio[i].state = "EINPROGRESS"
  /\ Advance
  /\ UNCHANGED <<file, bufs, aio, aiolist, off, numop, output>>

(* A read is complete; a short one has to be the last.  The offset stays.  *)
ReadDone ==
  /\ at = "scan" /\ i \in Buf /\ op[i] = "READ_PENDING" /\ aio[i].state = "done"
  /\ IF aio[i].n # BSZ /\ ~last[i]
     THEN at' = "quit" /\ UNCHANGED <<i, op, data, aio>>
     ELSE /\ data' = [data EXCEPT ![i] = [k \in DOMAIN @ |-> translate(@[k])]]
          /\ op' = [op EXCEPT ![i] = "WRITE_PENDING"]
          /\ aio' = [aio EXCEPT ![i].fd = "out", ![i].nbytes = aio[i].n,
                                ![i].state = "EINPROGRESS"]
          /\ Advance
  /\ UNCHANGED <<file, last, aiolist, off, numop, output>>

\* Mutant: the buffer is free again although its write is in progress.
WriteDoneEarly ==
  /\ at = "scan" /\ i \in Buf /\ op[i] = "WRITE_PENDING"
  /\ op' = [op EXCEPT ![i] = "UNUSED"]
  /\ aiolist' = aiolist \ {i}
  /\ numop' = numop - 1
  /\ Advance
  /\ UNCHANGED <<file, last, data, aio, off, output>>

(* A write is complete; a short one ends the program.                      *)
WriteDone ==
  /\ at = "scan" /\ i \in Buf /\ op[i] = "WRITE_PENDING" /\ aio[i].state = "done"
  /\ IF aio[i].n # aio[i].nbytes
     THEN at' = "quit" /\ UNCHANGED <<i, op, aiolist, numop>>
     ELSE /\ op' = [op EXCEPT ![i] = "UNUSED"]
          /\ aiolist' = aiolist \ {i}
          /\ numop' = numop - 1
          /\ Advance
  /\ UNCHANGED <<file, last, data, aio, off, output>>

(* After a pass: the end and aio_fsync, or aio_suspend, or the next pass.  *)
PassDone ==
  /\ at = "scan" /\ i = NBUF
  /\ at' = CASE numop = 0 /\ off >= size -> "exited"
             [] numop = 0 /\ off < size -> "scan"
             [] numop # 0 -> "suspend"
  /\ i' = 0
  /\ UNCHANGED <<file, bufs, aio, aiolist, off, numop, output>>

(* aio_suspend returns when one operation of the list is complete.         *)
Suspend ==
  /\ at = "suspend" /\ \E b \in aiolist : aio[b].state = "done"
  /\ at' = "scan"
  /\ UNCHANGED <<file, bufs, aio, aiolist, off, numop, i, output>>

-----------------------------------------------------------------------------
(* The system: an operation is carried out; a write may be cut short when  *)
(* the file system is full; someone else shortens the input.               *)
Complete(b) ==
  /\ aio[b].state = "EINPROGRESS" /\ at # "quit"
  /\ LET a == aio[b]  upto == Least(a.offset + BSZ, length) IN
     IF a.fd = "in"
     THEN LET got == [k \in 1 .. upto - a.offset |-> Byte(a.offset + k - 1)] IN
          /\ data' = [data EXCEPT ![b] = got]
          /\ aio' = [aio EXCEPT ![b].state = "done", ![b].n = Len(got)]
          /\ UNCHANGED output
     ELSE \E n \in {0, a.nbytes} :
          /\ output' = [p \in DOMAIN output |->
                          IF p - a.offset \in 0 .. Least(n, Len(data[b])) - 1
                          THEN data[b][p - a.offset + 1] ELSE output[p]]
          /\ aio' = [aio EXCEPT ![b].state = "done", ![b].n = n]
          /\ UNCHANGED data
  /\ UNCHANGED <<file, op, last, aiolist, off, numop, i, at>>

Shorten ==
  /\ length = size /\ length > 0 /\ at \in {"scan", "suspend"}
  /\ length' \in {0, length - 1}
  /\ UNCHANGED <<size, bufs, aio, aiolist, off, numop, i, at, output>>

-----------------------------------------------------------------------------
Init ==
  /\ size \in 0 .. MaxSize /\ length = size
  /\ op = [b \in Buf |-> "UNUSED"] /\ last = [b \in Buf |-> FALSE] /\ data = [b \in Buf |-> <<>>]
  /\ aio = [b \in Buf |-> [fd |-> "none", offset |-> 0, nbytes |-> 0, state |-> "none", n |-> 0]]
  /\ aiolist = {} /\ off = 0 /\ numop = 0 /\ i = 0 /\ at = "scan"
  /\ output = [p \in 0 .. MaxSize - 1 |-> NoByte]

Step == Unused \/ InProgress \/ ReadDone \/ WriteDone \/ PassDone \/ Suspend

Next == Step \/ Shorten \/ \E b \in Buf : Complete(b)

Spec == Init /\ [][Next]_vars

(* The program runs, and the system carries out every operation.           *)
FairSpec == Spec /\ WF_vars(Step) /\ \A b \in Buf : WF_vars(Complete(b))

-----------------------------------------------------------------------------
(* The output is the input, translated and in its order, however late each *)
(* operation is: all of it, or all that was left when the input was        *)
(* shortened, when the program exits; and nothing else at any time.        *)
Written == {p \in DOMAIN output : output[p] # NoByte}
Rot13Right ==
  /\ \A p \in Written : output[p] = translate(Byte(p))
  /\ at = "exited" => \E n \in {size} \cup (length .. size) : Written = 0 .. n - 1

(* It comes to its end.                                                    *)
Busy == off > 0 /\ at \notin {"exited", "quit"}
Rot13Ends == Busy ~> ~Busy

=============================================================================
