------------------------------ MODULE MsgQueue ------------------------------
(***************************************************************************)
(* The message queue of apue.3e/threads/condvar.c: a list under qlock, and *)
(* the condition qready that is signalled after the lock was given up.     *)
(***************************************************************************)
EXTENDS Integers, FiniteSets

CONSTANTS Threads, Msgs, NULL

VARIABLES
  workq, m_next,
  wpc, mp,                  \* of each thread: "check", "waiting", "work"; its message
  enqueued, signals,        \* messages ever put in; the signals still to come
  handled                   \* how often each message was processed

vars == <<workq, m_next, wpc, mp, enqueued, signals, handled>>

-----------------------------------------------------------------------------
(* The lock is given up before the signal.                                 *)
enqueue_msg(m) ==
  /\ m \notin enqueued
  /\ m_next' = [m_next EXCEPT ![m] = workq] /\ workq' = m
  /\ enqueued' = enqueued \cup {m} /\ signals' = signals + 1
  /\ UNCHANGED <<wpc, mp, handled>>

Waiters == {t \in Threads : wpc[t] = "waiting"}
Signal ==
  /\ signals > 0 /\ signals' = signals - 1
  /\ IF Waiters = {} THEN UNCHANGED wpc
     ELSE \E t \in Waiters : wpc' = [wpc EXCEPT ![t] = "check"]
  /\ UNCHANGED <<workq, m_next, mp, enqueued, handled>>

(* A waiting thread may also wake up for no reason, and looks again.       *)
Spurious(t) ==
  /\ wpc[t] = "waiting" /\ wpc' = [wpc EXCEPT ![t] = "check"]
  /\ UNCHANGED <<workq, m_next, mp, enqueued, signals, handled>>

\* Mutant: a message that is taken takes all others out with it.
process_msg_all(t) ==
  /\ wpc[t] = "check"
  /\ IF workq = NULL THEN wpc' = [wpc EXCEPT ![t] = "waiting"] /\ UNCHANGED <<workq, mp>>
     ELSE /\ mp' = [mp EXCEPT ![t] = workq] /\ workq' = NULL
          /\ wpc' = [wpc EXCEPT ![t] = "work"]
  /\ UNCHANGED <<m_next, enqueued, signals, handled>>

process_msg(t) ==
  /\ wpc[t] = "check"
  /\ IF workq = NULL THEN wpc' = [wpc EXCEPT ![t] = "waiting"] /\ UNCHANGED <<workq, mp>>
     ELSE /\ mp' = [mp EXCEPT ![t] = workq] /\ workq' = m_next[workq]
          /\ wpc' = [wpc EXCEPT ![t] = "work"]
  /\ UNCHANGED <<m_next, enqueued, signals, handled>>

Work(t) ==
  /\ wpc[t] = "work" /\ wpc' = [wpc EXCEPT ![t] = "check"]
  /\ handled' = [handled EXCEPT ![mp[t]] = @ + 1]
  /\ UNCHANGED <<workq, m_next, mp, enqueued, signals>>

-----------------------------------------------------------------------------
Init ==
  /\ workq = NULL /\ m_next = [m \in Msgs |-> NULL]
  /\ wpc = [t \in Threads |-> "check"] /\ mp = [t \in Threads |-> NULL]
  /\ enqueued = {} /\ signals = 0 /\ handled = [m \in Msgs |-> 0]

Next ==
  \/ \E m \in Msgs : enqueue_msg(m)
  \/ Signal
  \/ \E t \in Threads : process_msg(t) \/ Work(t) \/ Spurious(t)

Spec == Init /\ [][Next]_vars

-----------------------------------------------------------------------------
(* What is reached from a message: the least set closed under m_next       *)
Closed(S, m) == m \in S \cup {NULL} /\ \A k \in S : m_next[k] \in S \cup {NULL}
From(m) == {k \in Msgs : \A S \in SUBSET Msgs : Closed(S, m) => k \in S}
Listed == From(workq)

(* Every message that was put in is in the queue, with one thread, or      *)
(* processed, and only once; and none stays behind while all threads sleep *)
(* and no signal is to come, though the signal is given without the lock.  *)
MessagesKept ==
  /\ \A m \in enqueued :
       handled[m] + Cardinality({t \in Threads : wpc[t] = "work" /\ mp[t] = m})
         + Cardinality({m} \cap Listed) = 1
  /\ signals = 0 /\ (\A t \in Threads : wpc[t] = "waiting") => workq = NULL

=============================================================================
