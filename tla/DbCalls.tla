------------------------------ MODULE DbCalls ------------------------------
(***************************************************************************)
(* The calls of the database library (apue.3e/db/apue_db.h) and what they  *)
(* return, shared by its abstract and its detailed specification.          *)
(***************************************************************************)
CONSTANTS
  Procs,      \* the processes that have the database open
  Keys,
  Data,       \* the data records
  Blank       \* no data: an absent record, a record of blanks

(* db.c:859: a record with a key of blanks counts as deleted.              *)
ASSUME BlankAssumption == Blank \notin Keys \cup Data

WriteOps == {"insert", "replace", "store"}

(* The calls a process can make; data is Blank unless something is stored *)
Calls == [op : {"fetch", "delete"}, key : Keys, data : {Blank}]
           \cup [op : WriteOps, key : Keys, data : Data]

(* The last call of a process that has made none *)
NoCall == [op |-> "none", key |-> Blank, data |-> Blank]

(* The return values: 0, 1 (exists), -1 (absent), or the data fetched *)
OK     == "ok"
Exists == "exists"
Absent == "absent"
None   == "none"
=============================================================================
