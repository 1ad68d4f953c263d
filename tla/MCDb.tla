------------------------------- MODULE MCDb --------------------------------
(* Two or three processes on a database with two hash chains, of which one *)
(* holds two keys.  Keys "a" and "b" share a chain and a length, "c" has   *)
(* its own chain; "x" and "y" are data records of one length, "zz" of      *)
(* another.                                                                *)
EXTENDS DbProps, TLC

CONSTANTS p1, p2, p3

MCHash   == [k \in Keys |-> IF k = "c" THEN 2 ELSE 1]
MCKeyLen == [k \in Keys |-> 1]
MCDatLen == [d \in Data |-> IF d = "zz" THEN 3 ELSE 2]

Req(ops, ks, ds) == {c \in Calls : /\ c.op \in ops /\ c.key \in ks
                                   /\ c.data \in ds \cup {Blank}}

(* Everything on one key, and db_store without a flag and the calls that   *)
(* have none on another key of its chain, with two lengths of data         *)
OneChain ==
  Req({"fetch", "delete", "insert", "replace", "store"}, {"a"}, {"x", "zz"})
    \cup Req({"fetch", "delete", "store"}, {"b"}, {"x", "zz"})

(* Stores and deletes on both chains, which share the free list            *)
TwoChains == Req({"store", "delete"}, {"a", "c"}, {"x", "zz"})

=============================================================================
