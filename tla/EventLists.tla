----------------------------- MODULE EventLists -----------------------------
(***************************************************************************)
(* The event queues of a PE as the scheduler understands them: sequences.  *)
(* Buffers leave free_q at its tail and return to its head; event_q grows  *)
(* at its tail and is taken whole or loses a cancelled event; pevent_q has *)
(* the newest event at its head, loses it to a rollback, and loses its     *)
(* oldest events to fossil collection.                                     *)
(***************************************************************************)
EXTENDS Naturals, Sequences, SequencesExt, Functions

CONSTANT Event

VARIABLES free_q, event_q, pevent_q

vars == <<free_q, event_q, pevent_q>>

InNone(e) == e \notin Range(free_q) \cup Range(event_q) \cup Range(pevent_q)

Init == IsInjective(free_q) /\ event_q = <<>> /\ pevent_q = <<>>

Free(e) ==
  /\ InNone(e) /\ free_q' = <<e>> \o free_q
  /\ UNCHANGED <<event_q, pevent_q>>

\* A new event for this PE takes the buffer last in free_q.
Receive ==
  /\ free_q # <<>> /\ free_q' = Front(free_q)
  /\ event_q' = Append(event_q, Last(free_q))
  /\ UNCHANGED pevent_q

TakeAll == event_q' = <<>> /\ UNCHANGED <<free_q, pevent_q>>

Cancel(e) ==
  /\ \E i \in DOMAIN event_q : event_q[i] = e /\ event_q' = RemoveAt(event_q, i)
  /\ free_q' = <<e>> \o free_q
  /\ UNCHANGED pevent_q

\* An event sent while e is processed takes a buffer.
Process(e) ==
  /\ InNone(e) /\ pevent_q' = <<e>> \o pevent_q
  /\ \/ UNCHANGED free_q
     \/ free_q # <<>> /\ free_q' = Front(free_q)
  /\ UNCHANGED event_q

Undo == pevent_q # <<>> /\ pevent_q' = Tail(pevent_q) /\ UNCHANGED <<free_q, event_q>>

\* The n oldest events go to free_q in their order, and before them come the
\* events they had sent, which are on no list.
Fossil(n) ==
  /\ pevent_q' = SubSeq(pevent_q, 1, Len(pevent_q) - n)
  /\ LET sent == Len(free_q') - n - Len(free_q)
     IN  /\ sent >= 0
         /\ \A i \in 1 .. sent : InNone(free_q'[i])
         /\ SubSeq(free_q', sent + 1, Len(free_q')) =
              SubSeq(pevent_q, Len(pevent_q) - n + 1, Len(pevent_q)) \o free_q
  /\ IsInjective(free_q')
  /\ UNCHANGED event_q

Next ==
  \/ Receive \/ TakeAll \/ Undo
  \/ \E e \in Event : Free(e) \/ Cancel(e) \/ Process(e)
  \/ \E n \in 1 .. Len(pevent_q) : Fossil(n)

Spec == Init /\ [][Next]_vars
=============================================================================
