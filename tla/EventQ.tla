------------------------------- MODULE EventQ -------------------------------
(***************************************************************************)
(* The doubly linked lists of tw-eventq.h, pointer by pointer, driven the  *)
(* way the scheduler drives them: a PE's free_q and event_q and a KP's     *)
(* pevent_q share the next and prev fields of the events, events move      *)
(* between them, and freeing what an event sent puts buffers on free_q     *)
(* while fossil collection is adding a list to it.                         *)
(*                                                                         *)
(* An event on no list is in the pending queue, or has been sent to        *)
(* another PE and is kept for its sender (TW_pe_sevent_q).                 *)
(* A loop over a list is a function of the number of passes, N at most.    *)
(***************************************************************************)
EXTENDS Naturals, Sequences, FiniteSets, SequencesExt

CONSTANTS
  N,            \* the buffers tw_eventq_alloc makes
  Null

ASSUME EventQAssumption == N \in Nat \ {0, 1} /\ Null \notin 1 .. N

Event == 1 .. N
Queue == {"free_q", "event_q", "pevent_q"}

VARIABLES
  m,            \* the memory: [next, prev: by event, head, tail, size: by queue]
  owner,        \* state.owner of each event
  caused,       \* [Event -> Event or Null], the event it sent, if kept
  nev           \* the rest of the list that tw_sched_event_q is walking

listVars == <<m, owner, caused, nev>>

\* In these operators mm is the memory; each returns the one it leaves.
tw_eventq_push(mm, q, e) ==
  LET t == mm.tail[q]
      a == [mm EXCEPT !.next[e] = Null, !.prev[e] = t, !.tail[q] = e, !.size[q] = mm.size[q] + 1]
  IN  IF t # Null THEN [a EXCEPT !.next[t] = e] ELSE [a EXCEPT !.head[q] = e]

tw_eventq_pop(mm, q) ==
  LET t == mm.tail[q]
      p == mm.prev[t]
      a == [mm EXCEPT !.tail[q] = p, !.size[q] = mm.size[q] - 1, !.next[t] = Null, !.prev[t] = Null]
  IN  IF p # Null THEN [a EXCEPT !.next[p] = Null] ELSE [a EXCEPT !.head[q] = Null]

tw_eventq_unshift(mm, q, e) ==
  LET h == mm.head[q]
      a == [mm EXCEPT !.prev[e] = Null, !.next[e] = h, !.head[q] = e, !.size[q] = mm.size[q] + 1]
  IN  IF h # Null THEN [a EXCEPT !.prev[h] = e] ELSE [a EXCEPT !.tail[q] = e]

tw_eventq_shift(mm, q) ==
  LET h == mm.head[q]
      n == mm.next[h]
      a == [mm EXCEPT !.head[q] = n, !.size[q] = mm.size[q] - 1, !.next[h] = Null, !.prev[h] = Null]
  IN  IF n # Null THEN [a EXCEPT !.prev[n] = Null] ELSE [a EXCEPT !.tail[q] = Null]

tw_eventq_delete_any(mm, q, e) ==
  LET p == mm.prev[e]
      n == mm.next[e]
      a == IF p # Null THEN [mm EXCEPT !.next[p] = n] ELSE [mm EXCEPT !.head[q] = n]
      b == IF n # Null THEN [a EXCEPT !.prev[n] = p] ELSE [a EXCEPT !.tail[q] = p]
  IN  [b EXCEPT !.next[e] = Null, !.prev[e] = Null, !.size[q] = mm.size[q] - 1]

tw_eventq_pop_list(mm, q) ==
  [mm EXCEPT !.size[q] = 0, !.head[q] = Null, !.tail[q] = Null]

\* A pass of the walk from t to h by prev: w.at is the event to visit, and
\* tw_event_free is called for what it had sent.
FreeNext(w, h) ==
  IF w.at = Null THEN w
  ELSE LET a == IF caused[w.at] = Null THEN w.mm ELSE tw_eventq_unshift(w.mm, "free_q", caused[w.at])
       IN  [mm |-> a, at |-> IF w.at = h THEN Null ELSE a.prev[w.at]]

FreeSent(mm, t, h) ==
  LET walk[i \in 0 .. N] == IF i = 0 THEN [mm |-> mm, at |-> t] ELSE FreeNext(walk[i - 1], h)
  IN  walk[N].mm

\* A mutant: the sent events are freed before the list is joined to free_q.
tw_eventq_push_list_early(mm, q, h, t, cnt) ==
  LET s == FreeSent(mm, t, h)
      a == [s EXCEPT !.next[t] = mm.head[q], !.size[q] = mm.size[q] + cnt]
      b == IF a.head[q] # Null THEN [a EXCEPT !.prev[a.head[q]] = t] ELSE a
      c == [b EXCEPT !.head[q] = h, !.prev[h] = Null]
  IN  IF c.tail[q] = Null THEN [c EXCEPT !.tail[q] = t] ELSE c

tw_eventq_push_list(mm, q, h, t, cnt) ==
  LET a == [mm EXCEPT !.next[t] = mm.head[q], !.size[q] = mm.size[q] + cnt]
      b == IF a.head[q] # Null THEN [a EXCEPT !.prev[a.head[q]] = t] ELSE a
      c == [b EXCEPT !.head[q] = h, !.prev[h] = Null]
      d == IF c.tail[q] = Null THEN [c EXCEPT !.tail[q] = t] ELSE c
  IN  FreeSent(d, t, h)

\* A pass of the loop toward the head: o.n is the event to look at, o.cnt the
\* events found to be old.
OldNext(mm, o, old) ==
  IF o.n # Null /\ o.n \in old THEN [n |-> mm.prev[o.n], cnt |-> o.cnt + 1] ELSE o

Overshoot(mm, t, old) ==
  LET walk[i \in 0 .. N] == IF i = 0 THEN [n |-> mm.prev[t], cnt |-> 1] ELSE OldNext(mm, walk[i - 1], old)
  IN  walk[N]

\* old holds the events whose signature is below GVT.
tw_eventq_fossil_collect(mm, q, old) ==
  LET h == mm.head[q]
      t == mm.tail[q]
  IN  IF t = Null \/ t \notin old THEN mm
      ELSE IF h \in old
           THEN tw_eventq_pop_list(tw_eventq_push_list(mm, "free_q", h, t, mm.size[q]), q)
           ELSE LET o == Overshoot(mm, t, old)
                    cut == [mm EXCEPT !.tail[q] = o.n, !.next[o.n] = Null, !.size[q] = mm.size[q] - o.cnt]
                IN  tw_eventq_push_list(cut, "free_q", mm.next[o.n], t, o.cnt)

\* The events from e on, by next, and those of a queue: from[<<k, f>>] has k of
\* them at most, from f on.
From(mm, e) ==
  LET from[x \in (0 .. N) \X (Event \cup {Null})] ==
        IF x[1] = 0 \/ x[2] = Null THEN <<>> ELSE <<x[2]>> \o from[<<x[1] - 1, mm.next[x[2]]>>]
  IN  from[<<N, e>>]
Chain(q) == From(m, m.head[q])
-----------------------------------------------------------------------------
\* setup_pes takes abort_event, here 1, from the head.
tw_eventq_alloc ==
  /\ m = [next |-> [e \in Event |-> IF e \in {1, N} THEN Null ELSE e + 1],
          prev |-> [e \in Event |-> IF e <= 2 THEN Null ELSE e - 1],
          head |-> [q \in Queue |-> IF q = "free_q" THEN 2 ELSE Null],
          tail |-> [q \in Queue |-> IF q = "free_q" THEN N ELSE Null],
          size |-> [q \in Queue |-> IF q = "free_q" THEN N - 1 ELSE 0]]
  /\ owner = [e \in Event |-> IF e = 1 THEN "abort" ELSE "free_q"]
  /\ caused = [e \in Event |-> Null]
  /\ nev = Null

\* tw_event_grab; the event goes to the event_q of this PE.
Receive ==
  /\ m.tail["free_q"] # Null
  /\ LET e == m.tail["free_q"]
     IN  /\ m' = tw_eventq_push(tw_eventq_pop(m, "free_q"), "event_q", e)
         /\ owner' = [owner EXCEPT ![e] = "event_q"]
         /\ caused' = [caused EXCEPT ![e] = Null]
  /\ UNCHANGED nev

\* tw_sched_event_q takes the list and walks it, reading next of an event
\* before the event goes to the pending queue, which overwrites it.  Events
\* may arrive on event_q between two of its steps.
PopList ==
  /\ nev = Null /\ m.size["event_q"] # 0
  /\ nev' = m.head["event_q"]
  /\ m' = tw_eventq_pop_list(m, "event_q")
  /\ UNCHANGED <<owner, caused>>

EnqueueNext ==
  /\ nev # Null
  /\ nev' = m.next[nev]
  /\ m' = [m EXCEPT !.next[nev] = Null, !.prev[nev] = Null]
  /\ owner' = [owner EXCEPT ![nev] = "pq"]
  /\ UNCHANGED caused

\* tw_sched_cancel_q frees an event that is on event_q, after the walk.
Cancel(e) ==
  /\ nev = Null /\ owner[e] = "event_q"
  /\ m' = tw_eventq_unshift(tw_eventq_delete_any(m, "event_q", e), "free_q", e)
  /\ owner' = [owner EXCEPT ![e] = "free_q"]
  /\ UNCHANGED <<caused, nev>>

\* tw_sched_batch: a pending event is processed, and may send an event to
\* another PE, whose buffer is kept.
Process(e) ==
  /\ nev = Null /\ owner[e] = "pq"
  /\ \/ /\ owner' = [owner EXCEPT ![e] = "pevent_q"]
        /\ m' = tw_eventq_unshift(m, "pevent_q", e)
        /\ UNCHANGED caused
     \/ /\ m.tail["free_q"] # Null
        /\ LET c == m.tail["free_q"]
           IN  /\ m' = tw_eventq_unshift(tw_eventq_pop(m, "free_q"), "pevent_q", e)
               /\ owner' = [owner EXCEPT ![e] = "pevent_q", ![c] = "sevent_q"]
               /\ caused' = [caused EXCEPT ![e] = c, ![c] = Null]
  /\ UNCHANGED nev

\* A rollback undoes the newest event and cancels what it sent; the buffer of
\* that is freed when the anti-message has left.
Undo ==
  /\ m.head["pevent_q"] # Null
  /\ LET e == m.head["pevent_q"]
         c == caused[e]
     IN  /\ m' = tw_eventq_shift(m, "pevent_q")
         /\ owner' = [f \in Event |-> IF f = e THEN "pq" ELSE IF f = c THEN "anti" ELSE owner[f]]
         /\ caused' = [caused EXCEPT ![e] = Null]
  /\ UNCHANGED nev

SendFinish(e) ==
  /\ owner[e] = "anti"
  /\ m' = tw_eventq_unshift(m, "free_q", e)
  /\ owner' = [owner EXCEPT ![e] = "free_q"]
  /\ UNCHANGED <<caused, nev>>

\* tw_pe_fossil_collect when the events of old, the oldest of pevent_q, have
\* signatures below GVT.  (The code leaves the owner of a collected event
\* that sent nothing as it was; tw_event_grab clears it.)
Fossil(old) ==
  /\ nev = Null
  /\ m' = tw_eventq_fossil_collect(m, "pevent_q", old)
  /\ LET freed == old \cup {caused[e] : e \in old}
     IN  owner' = [e \in Event |-> IF e \in freed THEN "free_q" ELSE owner[e]]
  /\ caused' = [e \in Event |-> IF e \in old THEN Null ELSE caused[e]]
  /\ UNCHANGED nev
-----------------------------------------------------------------------------
\* The part of event_q still to be walked.
Walked == From(m, nev)

\* No buffer is lost and none is on two lists: an event is where its owner
\* says, or in the part of event_q still to be walked.
EachInOnePlace ==
  \A e \in Event :
    \A q \in Queue :
      Cardinality({i \in DOMAIN Chain(q) : Chain(q)[i] = e})
        = IF owner[e] = q /\ e \notin Range(Walked) THEN 1 ELSE 0

L == INSTANCE EventLists WITH
       free_q <- Chain("free_q"), event_q <- Chain("event_q"), pevent_q <- Chain("pevent_q")

\* The pointer operations do to the lists what the scheduler expects of them:
\* in particular fossil collection cuts off exactly the events below GVT,
\* although freeing what they sent pushes onto the same free_q.
ImplementsLists == L!Spec
=============================================================================
