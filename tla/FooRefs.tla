------------------------------ MODULE FooRefs ------------------------------
(***************************************************************************)
(* What the counted objects of apue.3e/threads/mutex2.c and mutex3.c       *)
(* promise their callers: foo_alloc, foo_hold, foo_find and foo_rele take  *)
(* effect in one step each.  An object is in the table exactly as long as  *)
(* somebody holds a reference to it; the newest object of an id is the one *)
(* that is found.                                                          *)
(***************************************************************************)
CONSTANTS
  Threads,  \* callers
  Refs,     \* the callers' pointer variables: each holds one reference or NULL
  Objs,     \* addresses malloc can return
  Ids,      \* values of f_id
  NULL, NoId

VARIABLES
  ref,      \* the object a pointer variable refers to, or NULL
  table,    \* the objects of each id
  newer,    \* the pairs of objects of one id of which the first came later
  asked     \* the id a thread is looking for, or NoId

vars == <<ref, table, newer, asked>>

Listed(o) == \E id \in Ids : o \in table[id]

Init ==
  /\ ref = [r \in Refs |-> NULL]
  /\ table = [id \in Ids |-> {}]
  /\ newer = {}
  /\ asked = [t \in Threads |-> NoId]

Alloc(r, id, o) ==
  /\ ref[r] = NULL
  /\ ref' = [ref EXCEPT ![r] = o]
  /\ ~Listed(o)
  /\ table' = [table EXCEPT ![id] = @ \cup {o}]
  /\ newer' = newer \cup ({o} \X table[id])
  /\ UNCHANGED asked

Hold(r, s) ==
  /\ ref[r] = NULL /\ ref[s] # NULL
  /\ ref' = [ref EXCEPT ![r] = ref[s]]
  /\ UNCHANGED <<table, newer, asked>>

Ask(t, id) ==
  /\ asked[t] = NoId
  /\ asked' = [asked EXCEPT ![t] = id]
  /\ UNCHANGED <<ref, table, newer>>

Newest(id, o) == o \in table[id] /\ \A p \in table[id] : <<p, o>> \notin newer

Hit(t, r, o) ==
  /\ asked[t] # NoId /\ ref[r] = NULL
  /\ ref' = [ref EXCEPT ![r] = o]
  /\ asked' = [asked EXCEPT ![t] = NoId]
  /\ Newest(asked[t], o)
  /\ UNCHANGED <<table, newer>>

Miss(t) ==
  /\ asked[t] # NoId
  /\ asked' = [asked EXCEPT ![t] = NoId]
  /\ table[asked[t]] = {}
  /\ UNCHANGED <<ref, table, newer>>

(* The last reference takes the object out of the table.                   *)
Last(r) == \A s \in Refs \ {r} : ref[s] # ref[r]

Release(r) ==
  /\ ref[r] # NULL
  /\ ref' = [ref EXCEPT ![r] = NULL]
  /\ IF Last(r)
     THEN /\ table' = [id \in Ids |-> table[id] \ {ref[r]}]
          /\ newer' = {x \in newer : ref[r] \notin {x[1], x[2]}}
     ELSE UNCHANGED <<table, newer>>
  /\ UNCHANGED asked

Next ==
  \/ \E r \in Refs, id \in Ids, o \in Objs : Alloc(r, id, o)
  \/ \E r, s \in Refs : Hold(r, s)
  \/ \E t \in Threads, id \in Ids : Ask(t, id)
  \/ \E t \in Threads, r \in Refs, o \in Objs : Hit(t, r, o)
  \/ \E t \in Threads : Miss(t)
  \/ \E r \in Refs : Release(r)

Spec == Init /\ [][Next]_vars

=============================================================================
