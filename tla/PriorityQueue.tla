--------------------------- MODULE PriorityQueue ---------------------------
(***************************************************************************)
(* What tw-queue.h promises of a PE's queue of pending events: a set that  *)
(* gives up its least event, or any event named.                           *)
(***************************************************************************)
EXTENDS Naturals, FiniteSets

CONSTANTS Event, Sig, Null

VARIABLES
  queued,       \* the pending events
  out,          \* the event the last operation took out, or Null
  least,        \* what tw_pq_minimum_sig_ptr answers from
  nitems        \* what tw_pq_get_size answers

vars == <<queued, out, least, nitems>>

IsLeast(e, s) == e \in s /\ \A f \in s : Sig[e] <= Sig[f]

\* The two answers after each operation.
Answers ==
  /\ IF queued' = {} THEN least' = Null ELSE IsLeast(least', queued')
  /\ nitems' = Cardinality(queued')

Init == queued = {} /\ out = Null /\ least = Null /\ nitems = 0

Enqueue(e) == e \notin queued /\ queued' = queued \cup {e} /\ out' = Null

Dequeue ==
  \/ queued = {} /\ queued' = queued /\ out' = Null
  \/ \E e \in queued : IsLeast(e, queued) /\ queued' = queued \ {e} /\ out' = e

DeleteAny(e) == e \in queued /\ queued' = queued \ {e} /\ out' = e

Next == Answers /\ (Dequeue \/ \E e \in Event : Enqueue(e) \/ DeleteAny(e))

Spec == Init /\ [][Next]_vars
=============================================================================
