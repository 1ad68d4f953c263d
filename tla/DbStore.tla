------------------------------ MODULE DbStore ------------------------------
(***************************************************************************)
(* What the database library of apue.3e/db promises its callers: a map     *)
(* from keys to data records on which every db_fetch, db_store and         *)
(* db_delete of every process acts between its call and its return as if   *)
(* in one indivisible step, whatever the other processes are doing.        *)
(* db_store's three flags are three operations.  A db_store that finds its *)
(* key may first take the old data out and then put the new data in, while *)
(* no other call sees the key; that, and no more, is what its process can  *)
(* lose by dying: any other call cut short was performed or was not.       *)
(***************************************************************************)
EXTENDS DbCalls

VARIABLES
  store,      \* the data record of each key, or Blank
  phase,      \* "idle", "called", "storing", "returning" or "dead"
  call,       \* the call a process is in, or its last one
  ret         \* what that call returns, None until it has been performed

vars == <<store, phase, call, ret>>

-----------------------------------------------------------------------------

(* Result and effect of call c on the map s *)
Result(s, c) ==
  LET present == s[c.key] # Blank
  IN CASE c.op = "fetch"                 -> IF present THEN s[c.key] ELSE Absent
       [] c.op = "insert" /\ present     -> Exists
       [] c.op \in {"delete", "replace"} -> IF present THEN OK ELSE Absent
       [] OTHER                          -> OK

Effect(s, c) ==
  IF c.op # "fetch" /\ Result(s, c) = OK
  THEN [s EXCEPT ![c.key] = c.data]
  ELSE s

-----------------------------------------------------------------------------

Init ==
  /\ store = [k \in Keys |-> Blank]
  /\ phase = [p \in Procs |-> "idle"]
  /\ call = [p \in Procs |-> NoCall]
  /\ ret = [p \in Procs |-> None]

Call(p) ==
  /\ phase[p] = "idle"
  /\ \E c \in Calls : call' = [call EXCEPT ![p] = c]
  /\ phase' = [phase EXCEPT ![p] = "called"]
  /\ ret' = [ret EXCEPT ![p] = None]
  /\ UNCHANGED store

(* No other process is between the two halves of a replacement of p's key  *)
Undisturbed(p) ==
  \A q \in Procs \ {p} : phase[q] = "storing" => call[q].key # call[p].key

Perform(p) ==
  /\ phase[p] = "called" /\ Undisturbed(p)
  /\ ret' = [ret EXCEPT ![p] = Result(store, call[p])]
  /\ store' = Effect(store, call[p])
  /\ phase' = [phase EXCEPT ![p] = "returning"]
  /\ UNCHANGED call

(* A replacement in two halves                                             *)
Remove(p) ==
  /\ phase[p] = "called" /\ Undisturbed(p)
  /\ call[p].op \in {"replace", "store"} /\ store[call[p].key] # Blank
  /\ store' = [store EXCEPT ![call[p].key] = Blank]
  /\ phase' = [phase EXCEPT ![p] = "storing"]
  /\ UNCHANGED <<call, ret>>

Store(p) ==
  /\ phase[p] = "storing"
  /\ store' = [store EXCEPT ![call[p].key] = call[p].data]
  /\ ret' = [ret EXCEPT ![p] = OK]
  /\ phase' = [phase EXCEPT ![p] = "returning"]
  /\ UNCHANGED call

Return(p) ==
  /\ phase[p] = "returning"
  /\ phase' = [phase EXCEPT ![p] = "idle"]
  /\ UNCHANGED <<store, call, ret>>

Die(p) ==
  /\ phase' = [phase EXCEPT ![p] = "dead"]
  /\ ret' = [ret EXCEPT ![p] = None]
  /\ UNCHANGED <<store, call>>

Next == \E p \in Procs : \/ Call(p) \/ Perform(p) \/ Remove(p) \/ Store(p)
                         \/ Return(p) \/ Die(p)

Spec == Init /\ [][Next]_vars

=============================================================================
