--------------------------- MODULE HashQuadratic ---------------------------
(***************************************************************************)
(* The hash table with quadratic probing of hash-quadratic.c, built in     *)
(* place of the AVL tree with AVL_TREE=OFF: pure operators on a table,     *)
(* [num_stored, cell: [0 .. size - 1 -> an entry or Empty]].  An entry is  *)
(* found by its event_id alone, which the PE that sends counts; there is   *)
(* one table for each such PE.  Recursion makes this a module for TLC      *)
(* alone.                                                                  *)
(***************************************************************************)
EXTENDS Naturals, FiniteSets

Empty == [event_id |-> 0]

hash_size(h) == Cardinality(DOMAIN h.cell)

\* hash_: event_id is unsigned.
hash_(event_id, size) == event_id % size

\* The key the search moves to from key in its i-th step: one subtraction of
\* the size, not a remainder.
NextKey(key, i, size) ==
  LET k == key + 2 * i - 1 IN IF k >= size THEN k - size ELSE k

\* The first key of the probe sequence in stop, or the first beyond the table.
RECURSIVE Probe(_, _, _, _)
Probe(size, key, i, stop) ==
  IF key \in stop \/ key >= size THEN key
  ELSE Probe(size, NextKey(key, i + 1, size), i + 1, stop)

find_empty(h, e) ==
  Probe(hash_size(h), hash_(e.event_id, hash_size(h)), 0,
        {k \in DOMAIN h.cell : h.cell[k] = Empty})

find_entry(h, event_id) ==
  Probe(hash_size(h), hash_(event_id, hash_size(h)), 0,
        {k \in DOMAIN h.cell : h.cell[k] # Empty /\ h.cell[k].event_id = event_id})

\* Odd divisors up to the integer part of the square root and one more.
is_prime(p) ==
  p % 2 # 0 /\ \A a \in 3 .. p : a % 2 # 0 /\ (a - 1) * (a - 1) <= p => p % a # 0

\* From 2p + 1 on, in steps of two.
next_prime(p) ==
  CHOOSE q \in 2 * p + 1 .. 4 * p + 3 :
    is_prime(q) /\ \A r \in 2 * p + 1 .. q - 1 : ~is_prime(r)

allocate_table(size) == [num_stored |-> 0, cell |-> [k \in 0 .. size - 1 |-> Empty]]

\* insert; an entry written beyond the table is lost here, and counted.
Put(h, e) ==
  LET k == find_empty(h, e)
  IN  [num_stored |-> h.num_stored + 1,
       cell |-> [c \in DOMAIN h.cell |-> IF c = k THEN e ELSE h.cell[c]]]

\* The entries of h from key i on, put into g in the order of their keys.
RECURSIVE PutAll(_, _, _)
PutAll(g, h, i) ==
  IF i = hash_size(h) THEN g
  ELSE PutAll(IF h.cell[i] = Empty THEN g ELSE Put(g, h.cell[i]), h, i + 1)

rehash(h) == PutAll(allocate_table(next_prime(hash_size(h))), h, 0)

\* A mutant: the table is filled to the last cell.
TooFullLate(h) == h.num_stored >= hash_size(h)

\* num_stored > floor(hash_size * MAX_FRACTION)
TooFull(h) == h.num_stored > hash_size(h) \div 2

Insert(h, e) == LET g == Put(h, e) IN IF TooFull(g) THEN rehash(g) ELSE g

Remove(h, key) == [h EXCEPT !.cell[key] = Empty, !.num_stored = @ - 1]
=============================================================================
