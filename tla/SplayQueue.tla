----------------------------- MODULE SplayQueue -----------------------------
(***************************************************************************)
(* The splay tree of queue/splay.c that holds a PE's pending events.  Each *)
(* event carries its own links: LEFT and RIGHT are the next and prev of    *)
(* the event, which every other list uses too, and UP.                     *)
(*                                                                         *)
(* No two events have the same signature, event_id and send_pe, so the     *)
(* comparison that decides between them is a total order, here that of     *)
(* Sig.  The splay is recursive: this is a module for TLC alone.           *)
(***************************************************************************)
EXTENDS Naturals, FiniteSets

CONSTANTS
  Event,
  Sig,          \* [Event -> Nat], injective
  Null

ASSUME SplayAssumption ==
  /\ IsFiniteSet(Event) /\ Null \notin Event
  /\ \A e, f \in Event : Sig[e] \in Nat /\ (Sig[e] = Sig[f] => e = f)

VARIABLES
  link,         \* [up, left, right: Event -> Event or Null]
  root, least, nitems,
  out           \* the event taken out by the last operation

pqVars == <<link, root, least, nitems, out>>

OrNull == Event \cup {Null}

\* ROTATE_R and ROTATE_L, and the cases of splay, are mirror images: a side
\* is the name of the field, kid the pointer, h the links of all events.
Opposite(s) == IF s = "left" THEN "right" ELSE "left"
SideOf(h, n) == IF h.left[h.up[n]] = n THEN "left" ELSE "right"

\* c becomes the child of p on side s, and p its parent unless c is Null.
Attach(h, p, s, c) ==
  LET k == [h EXCEPT ![s][p] = c] IN IF c = Null THEN k ELSE [k EXCEPT !.up[c] = p]

\* n takes the place of g under g's parent, if it has one.
Replace(h, g, n) ==
  LET z == h.up[g]
  IN  IF z = Null THEN [h EXCEPT !.up[n] = z]
      ELSE [h EXCEPT !.up[n] = z, ![SideOf(h, g)][z] = n]

\* n, on side s of p, rises above it.
RiseOver(h, n, p, s) == Attach(Attach(h, p, s, h[Opposite(s)][n]), n, Opposite(s), p)

\* One pass of the loop: a rotation at the root, zig-zig or zig-zag.
SplayStep(h, n) ==
  LET p == h.up[n]
      g == h.up[p]
      s == SideOf(h, n)
  IN  IF g = Null THEN [RiseOver(h, n, p, s) EXCEPT !.up[n] = Null]
      ELSE LET t == SideOf(h, p)
               r == RiseOver(Replace(h, g, n), n, p, s)
           IN  IF s = t THEN RiseOver(r, p, g, t) ELSE RiseOver(r, n, g, t)

RECURSIVE splay(_, _)
splay(h, n) == IF h.up[n] = Null THEN h ELSE splay(SplayStep(h, n), n)

\* The last event reached from n by following side s.
RECURSIVE Outermost(_, _, _)
Outermost(h, n, s) == IF h[s][n] = Null THEN n ELSE Outermost(h, h[s][n], s)

\* The event under which e is hung, and on which side.
RECURSIVE Descend(_, _, _)
Descend(h, n, e) ==
  LET s == IF Sig[n] < Sig[e] THEN "right" ELSE "left"
  IN  IF h[s][n] = Null THEN [at |-> n, side |-> s] ELSE Descend(h, h[s][n], e)

\* A mutant: UP is left as it was.
DetachKeepUp(h, e) == [h EXCEPT !.left[e] = Null, !.right[e] = Null]

Detach(h, e) == [h EXCEPT !.left[e] = Null, !.right[e] = Null, !.up[e] = Null]

Queued(e) == e = root \/ link.up[e] # Null

tw_pq_create ==
  /\ link = [s \in {"up", "left", "right"} |-> [e \in Event |-> Null]]
  /\ root = Null /\ least = Null /\ nitems = 0 /\ out = Null

tw_pq_enqueue(e) ==
  /\ ~Queued(e)
  /\ nitems' = nitems + 1 /\ root' = e /\ out' = Null
  /\ LET h == [link EXCEPT !.left[e] = Null, !.right[e] = Null]
     IN  IF root = Null
         THEN /\ least' = e
              /\ link' = [h EXCEPT !.up[e] = Null]
         ELSE LET d == Descend(h, root, e)
              IN  /\ least' = IF d.side = "left" /\ least = d.at THEN e ELSE least
                  /\ link' = splay(Attach(h, d.at, d.side, e), e)

\* A mutant: after the least event is taken out its parent is the least.
NextLeastUp(h, p, tmp) == IF p = Null /\ tmp # Null THEN Outermost(h, tmp, "left") ELSE p

\* What is least once it is gone: the leftmost event on its right, or else
\* its parent, which is Null when it was alone.
NextLeast(h, p, tmp) == IF tmp # Null THEN Outermost(h, tmp, "left") ELSE p

\* The least event has nothing on its left; what is on its right takes its
\* place.
RemoveLeast ==
  LET p == link.up[least]
      tmp == link.right[least]
      h == IF p # Null THEN Attach(link, p, "left", tmp)
           ELSE IF tmp # Null THEN [link EXCEPT !.up[tmp] = Null] ELSE link
  IN  /\ root' = IF p = Null THEN tmp ELSE root
      /\ least' = NextLeast(h, p, tmp)
      /\ link' = Detach(h, least)
      /\ nitems' = nitems - 1
      /\ out' = least

tw_pq_dequeue ==
  \/ nitems = 0 /\ out' = Null /\ UNCHANGED <<link, root, least, nitems>>
  \/ nitems # 0 /\ RemoveLeast

\* The left and right subtrees of r as one, the greatest event on the left at
\* its root: the links and that root.
Join(h, r) ==
  LET left == h.left[r]
      tmp == h.right[r]
  IN  IF left = Null \/ tmp = Null
      THEN [h |-> h, n |-> IF left # Null THEN left ELSE tmp]
      ELSE LET n == Outermost(h, left, "right")
           IN  [h |-> Attach(splay([h EXCEPT !.up[left] = Null], n), n, "right", tmp), n |-> n]

RemoveInner(r) ==
  LET j == Join(link, r)
      p == link.up[r]
      h == IF j.n = Null THEN j.h ELSE [j.h EXCEPT !.up[j.n] = p]
      k == IF p = Null THEN h ELSE [h EXCEPT ![SideOf(link, r)][p] = j.n]
  IN  /\ root' = IF p = Null THEN j.n ELSE IF j.n = Null THEN root ELSE p
      /\ link' = Detach(IF p = Null \/ j.n = Null THEN k ELSE splay(k, p), r)
      /\ nitems' = nitems - 1 /\ out' = r
      /\ least' = least

\* Called for an event whose owner is TW_pe_pq, when it is cancelled.
tw_pq_delete_any(r) ==
  /\ Queued(r)
  /\ \/ r = least /\ RemoveLeast
     \/ r # least /\ RemoveInner(r)
-----------------------------------------------------------------------------
\* The events under n.
RECURSIVE TreeOf(_)
TreeOf(n) ==
  IF n = Null THEN {} ELSE {n} \cup TreeOf(link.left[n]) \cup TreeOf(link.right[n])

\* An event that is not queued has no links, which the lists it goes to next
\* read as their own: cancel_q and pevent_q use the same two fields.
Unlinked ==
  \A e \in Event \ TreeOf(root) : \A s \in {"left", "right", "up"} : link[s][e] = Null

Q == INSTANCE PriorityQueue WITH queued <- TreeOf(root)

\* Every operation does what tw-queue.h promises: dequeue gives the least of
\* the pending events, delete_any takes out the one named and no other, and
\* tw_pq_minimum_sig_ptr and tw_pq_get_size, which answer from the cached
\* least and nitems, are right after each of them.
IsPriorityQueue == Q!Spec
=============================================================================
