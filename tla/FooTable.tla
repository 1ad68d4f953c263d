------------------------------ MODULE FooTable -----------------------------
(***************************************************************************)
(* The state that apue.3e/threads/mutex2.c and mutex3.c share - a hash     *)
(* table of reference-counted objects, one lock for the table and one in   *)
(* each object - and foo_alloc, which is the same in both.                 *)
(*                                                                         *)
(* A reference is a pointer variable of the callers (Refs).  References    *)
(* are not bound to threads: one thread may release what another acquired, *)
(* but while a call uses a variable no other call does.                    *)
(***************************************************************************)
EXTENDS Integers, FiniteSets, SequencesExt

CONSTANTS Threads, Refs, Objs, Ids, Buckets, Hash, NULL, NoId, NoThread

ASSUME HashAssumption == Hash \in [Ids -> Buckets]
ASSUME NullAssumption == NULL \notin Objs /\ NoId \notin Ids /\ NoThread \notin Threads
ASSUME RefsAssumption == IsFiniteSet(Refs)

VARIABLES
  fh,        \* the hash chains, each as the sequence of its objects
  f_count, f_id,
  f_lock,    \* the thread that holds the lock in an object, or NoThread
  hashlock,
  alive,     \* the objects malloc has returned and nobody has freed
  ref,       \* the object a pointer variable refers to, or NULL
  pc,        \* where each thread is
  fp,        \* the local variable fp
  want,      \* the argument id
  dst, src   \* the pointer variables of the call: result or released, and held

vars == <<fh, f_count, f_id, f_lock, hashlock, alive, ref, pc, fp, want, dst, src>>
calls == <<want, dst, src>>
data == <<fh, f_count, f_id, alive, ref>>

Idle(t) == pc[t] = "idle"
Busy == UNION {{dst[t], src[t]} : t \in {u \in Threads : ~Idle(u)}}
Unused(r) == r \notin Busy /\ ref[r] = NULL
InUse(r) == r \notin Busy /\ ref[r] # NULL

Chain(id) == fh[Hash[id]]
Count(o) == Cardinality({r \in Refs : ref[r] = o})

Init ==
  /\ fh = [b \in Buckets |-> <<>>]
  /\ f_count = [o \in Objs |-> 0]
  /\ \E id \in Ids : f_id = [o \in Objs |-> id]
  /\ f_lock = [o \in Objs |-> NoThread]
  /\ hashlock = NoThread
  /\ alive = {}
  /\ ref = [r \in Refs |-> NULL]
  /\ pc = [t \in Threads |-> "idle"]
  /\ fp = [t \in Threads |-> NULL]
  /\ want = [t \in Threads |-> NoId]
  /\ \E r \in Refs : dst = [t \in Threads |-> r] /\ src = [t \in Threads |-> r]

Goto(t, from, to) == pc[t] = from /\ pc' = [pc EXCEPT ![t] = to]

LockHash(t) == hashlock = NoThread /\ hashlock' = t
UnlockHash == hashlock' = NoThread
LockObj(t) == f_lock[fp[t]] = NoThread /\ f_lock' = [f_lock EXCEPT ![fp[t]] = t]
UnlockObj(t) == f_lock' = [f_lock EXCEPT ![fp[t]] = NoThread]

Call(t, to, id, r, s) ==
  /\ Goto(t, "idle", to)
  /\ want' = [want EXCEPT ![t] = id]
  /\ dst' = [dst EXCEPT ![t] = r]
  /\ src' = [src EXCEPT ![t] = s]

-----------------------------------------------------------------------------
(* foo_alloc.  A malloc or pthread_mutex_init that fails changes nothing.  *)
AllocNew(t, id, r, o) ==
  /\ Unused(r) /\ o \notin alive
  /\ Call(t, "alloc_lock", id, r, r)
  /\ fp' = [fp EXCEPT ![t] = o]
  /\ alive' = alive \cup {o}
  /\ f_count' = [f_count EXCEPT ![o] = 1]
  /\ f_id' = [f_id EXCEPT ![o] = id]
  /\ f_lock' = [f_lock EXCEPT ![o] = NoThread]
  /\ UNCHANGED <<fh, hashlock, ref>>

\* Mutant: the new object goes to the end of its chain.
AllocInsertLast(t) ==
  /\ Goto(t, "alloc_lock", "alloc_flock")
  /\ LockHash(t)
  /\ fh' = [fh EXCEPT ![Hash[want[t]]] = Append(@, fp[t])]
  /\ ref' = [ref EXCEPT ![dst[t]] = fp[t]]
  /\ UNCHANGED <<f_count, f_id, f_lock, alive, fp, calls>>

AllocInsert(t) ==
  /\ Goto(t, "alloc_lock", "alloc_flock")
  /\ LockHash(t)
  /\ fh' = [fh EXCEPT ![Hash[want[t]]] = <<fp[t]>> \o @]
  /\ ref' = [ref EXCEPT ![dst[t]] = fp[t]]
  /\ UNCHANGED <<f_count, f_id, f_lock, alive, fp, calls>>

AllocLock(t) ==
  /\ Goto(t, "alloc_flock", "alloc_unhash")
  /\ LockObj(t)
  /\ UNCHANGED <<data, hashlock, fp, calls>>

AllocUnhash(t) ==
  /\ Goto(t, "alloc_unhash", "alloc_init")
  /\ UnlockHash
  /\ UNCHANGED <<data, f_lock, fp, calls>>

AllocDone(t) ==
  /\ Goto(t, "alloc_init", "idle")
  /\ UnlockObj(t)
  /\ UNCHANGED <<data, hashlock, fp, calls>>

Alloc(t) ==
  \/ \E id \in Ids, r \in Refs, o \in Objs : AllocNew(t, id, r, o)
  \/ AllocInsert(t) \/ AllocLock(t) \/ AllocUnhash(t) \/ AllocDone(t)

-----------------------------------------------------------------------------
(* The calls of the other three functions begin here, outside any lock.    *)
HoldCall(t, r, s) ==
  /\ Unused(r) /\ InUse(s)
  /\ Call(t, "hold", NoId, r, s)
  /\ fp' = [fp EXCEPT ![t] = ref[s]]
  /\ UNCHANGED <<data, f_lock, hashlock>>

FindCall(t, id, r) ==
  /\ Unused(r)
  /\ Call(t, "find", id, r, r)
  /\ UNCHANGED <<data, f_lock, hashlock, fp>>

ReleCall(t, r) ==
  /\ InUse(r)
  /\ Call(t, "rele", NoId, r, r)
  /\ fp' = [fp EXCEPT ![t] = ref[r]]
  /\ UNCHANGED <<data, f_lock, hashlock>>

Enter(t) ==
  \/ \E r, s \in Refs : HoldCall(t, r, s)
  \/ \E id \in Ids, r \in Refs : FindCall(t, id, r)
  \/ \E r \in Refs : ReleCall(t, r)

(* The first object of the chain whose f_id is wanted                      *)
Finds(t, o) ==
  LET s == Chain(want[t]) IN
  \E i \in DOMAIN s : /\ o = s[i]
                      /\ f_id[o] = want[t]
                      /\ \A j \in 1..(i - 1) : f_id[s[j]] # want[t]

NothingFound(t) == \A o \in Range(Chain(want[t])) : f_id[o] # want[t]

(* Unlink fp from its chain.  Without fp in its chain the walk dereferences *)
(* NULL: the step is not possible and the thread is stuck.                  *)
Unlink(t) ==
  LET b == Hash[f_id[fp[t]]] IN
  \E i \in DOMAIN fh[b] : /\ fh[b][i] = fp[t]
                          /\ fh' = [fh EXCEPT ![b] = RemoveAt(@, i)]

Free(t) == alive' = alive \ {fp[t]}

-----------------------------------------------------------------------------
Positions ==
  {"idle", "alloc_lock", "alloc_flock", "alloc_unhash", "alloc_init", "hold",
   "hold_done", "find", "find_hold", "find_held", "find_done", "rele", "rele_again",
   "rele_hash", "rele_check", "rele_kept", "rele_unhash", "rele_gone",
   "rele_unlock", "rele_free", "rele_done"}

(* Every variable has its type (foo_alloc 19, struct foo 11).              *)
TypeOK ==
  /\ fh \in [Buckets -> Seq(Objs)]
  /\ f_count \in [Objs -> Nat]
  /\ f_id \in [Objs -> Ids]
  /\ f_lock \in [Objs -> Threads \cup {NoThread}]
  /\ hashlock \in Threads \cup {NoThread}
  /\ alive \subseteq Objs
  /\ ref \in [Refs -> Objs \cup {NULL}]
  /\ pc \in [Threads -> Positions]
  /\ fp \in [Threads -> Objs \cup {NULL}]
  /\ want \in [Threads -> Ids \cup {NoId}]
  /\ dst \in [Threads -> Refs]
  /\ src \in [Threads -> Refs]

(* The chains are sound: an object is on the chain of its id, once.        *)
ChainsSound ==
  \A b \in Buckets :
    /\ IsInjective(fh[b])
    /\ \A o \in Range(fh[b]) : Hash[f_id[o]] = b

InTable(o) == o \in Range(Chain(f_id[o]))

(* The table as its callers know it: the objects of an id, and the pairs   *)
(* of them of which foo_find comes to the first one first                  *)
Listed(id) == {o \in Objs : f_id[o] = id /\ InTable(o)}
Before(s, o, p) == \E i, j \in DOMAIN s : i < j /\ s[i] = o /\ s[j] = p
Newer ==
  {x \in Objs \X Objs : /\ f_id[x[1]] = f_id[x[2]]
                        /\ Before(Chain(f_id[x[1]]), x[1], x[2])}

(* f_count of an object in the table is the number of references callers   *)
(* hold, never 0, and every reference is to an object in the table: the    *)
(* count, the table and the callers agree at every step of every call.     *)
CountRight ==
  /\ \A o \in Objs : InTable(o) => f_count[o] = Count(o) /\ f_count[o] > 0
  /\ \A r \in Refs : ref[r] # NULL => InTable(ref[r])

(* An object that is allocated is in the table, or in the hands of a       *)
(* thread that is creating it or about to free it: foo_rele never leaks.   *)
NoLeak ==
  \A o \in alive : \/ InTable(o)
                   \/ \E t \in Threads : ~Idle(t) /\ fp[t] = o

=============================================================================
