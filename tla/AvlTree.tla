------------------------------ MODULE AvlTree ------------------------------
(***************************************************************************)
(* The tree in which a KP keeps the events received from other PEs, so     *)
(* that an anti-message finds the event it cancels: pure operators on      *)
(* trees.  Recursion makes this a module for TLC alone.                    *)
(*                                                                         *)
(* A key is the four fields the code compares, in the order it compares    *)
(* them: recv_ts, event_tiebreaker[0], event_id, send_pe.                  *)
(***************************************************************************)
EXTENDS Naturals, Sequences, FiniteSetsExt

AVL_EMPTY == [height |-> 0]

\* child[0] and child[1] of the code are child[1] and child[2] here.
Side == 1 .. 2
Other(d) == 3 - d

avlGetHeight(t) == t.height

avlFixHeight(t) ==
  [t EXCEPT !.height = 1 + Max({avlGetHeight(t.child[d]) : d \in Side})]

avlRotate(root, d) ==
  LET newRoot == root.child[d]
      oldRoot == [root EXCEPT !.child[d] = newRoot.child[Other(d)]]
  IN  avlFixHeight([newRoot EXCEPT !.child[Other(d)] = avlFixHeight(oldRoot)])

\* child[d] is too tall; the strict comparison sends equal grandchildren,
\* which only a deletion leaves, to the double rotation.
TooTall(t, d) == avlGetHeight(t.child[d]) > avlGetHeight(t.child[Other(d)]) + 1

SingleRotation(c, d) == avlGetHeight(c.child[d]) > avlGetHeight(c.child[Other(d)])

\* A mutant: the double rotation lowers child[d] by one and does not measure it,
\* which is wrong for equal grandchildren only.
avlRebalanceLowered(t) ==
  IF t = AVL_EMPTY THEN t
  ELSE IF \A d \in Side : ~TooTall(t, d) THEN avlFixHeight(t)
  ELSE LET d == Min({i \in Side : TooTall(t, i)})
           c == t.child[d]
           g == c.child[Other(d)]
           lowered == [c EXCEPT !.child[Other(d)] = g.child[d], !.height = @ - 1]
       IN  IF SingleRotation(c, d)
           THEN avlRotate(t, d)
           ELSE avlRotate([t EXCEPT !.child[d] = avlFixHeight([g EXCEPT !.child[d] = lowered])], d)

avlRebalance(t) ==
  IF t = AVL_EMPTY THEN t
  ELSE IF \A d \in Side : ~TooTall(t, d) THEN avlFixHeight(t)
  ELSE LET d == Min({i \in Side : TooTall(t, i)})
       IN  IF SingleRotation(t.child[d], d)
           THEN avlRotate(t, d)
           ELSE avlRotate([t EXCEPT !.child[d] = avlRotate(t.child[d], Other(d))], d)

\* The child under which key belongs, when it is not the key of t.
Less(k, l) == \E i \in 1 .. 4 : k[i] < l[i] /\ \A j \in 1 .. i - 1 : k[j] = l[j]
Branch(key, t) == IF Less(t.key, key) THEN 2 ELSE 1

RECURSIVE avlSearch(_, _)
RECURSIVE avlInsert(_, _)
RECURSIVE avlDeleteMin(_)
RECURSIVE avlDelete(_, _)

avlSearch(t, key) ==
  /\ t # AVL_EMPTY
  /\ key # t.key => avlSearch(t.child[Branch(key, t)], key)

avlInsert(t, key) ==
  IF t = AVL_EMPTY
  THEN [key |-> key, child |-> <<AVL_EMPTY, AVL_EMPTY>>, height |-> 1]
  ELSE avlRebalance([t EXCEPT !.child[Branch(key, t)] = avlInsert(@, key)])

\* A mutant: the node above the least one is spliced out with it.
avlDeleteMinDropped(t) ==
  IF t.child[1] = AVL_EMPTY
  THEN [tree |-> AVL_EMPTY, key |-> t.key, freed |-> 1]
  ELSE LET r == avlDeleteMin(t.child[1])
       IN  [r EXCEPT !.tree = avlRebalance([t EXCEPT !.child[1] = r.tree])]

\* The tree without its least key, that key, and how many nodes avl_free got.
avlDeleteMin(t) ==
  IF t.child[1] = AVL_EMPTY
  THEN [tree |-> avlRebalance(t.child[2]), key |-> t.key, freed |-> 1]
  ELSE LET r == avlDeleteMin(t.child[1])
       IN  [r EXCEPT !.tree = avlRebalance([t EXCEPT !.child[1] = r.tree])]

\* The same for the given key; <<>> is the tw_error of an absent one.
avlDelete(t, key) ==
  IF t = AVL_EMPTY THEN [tree |-> t, key |-> <<>>, freed |-> 0]
  ELSE LET r == IF key = t.key
                THEN IF t.child[2] # AVL_EMPTY
                     THEN LET s == avlDeleteMin(t.child[2])
                          IN  [tree |-> [t EXCEPT !.key = s.key, !.child[2] = s.tree],
                               key |-> t.key, freed |-> s.freed]
                     ELSE [tree |-> t.child[1], key |-> t.key, freed |-> 1]
                ELSE LET d == Branch(key, t)
                         s == avlDelete(t.child[d], key)
                     IN  [s EXCEPT !.tree = [t EXCEPT !.child[d] = s.tree]]
       IN  [r EXCEPT !.tree = avlRebalance(r.tree)]

\* The keys of t in the order of avlPrintKeys.
RECURSIVE Keys(_)
Keys(t) == IF t = AVL_EMPTY THEN <<>> ELSE Keys(t.child[1]) \o <<t.key>> \o Keys(t.child[2])

\* What avlSanityCheck asserts: every height is one more than that of the
\* taller child.
RECURSIVE avlSanityCheck(_)
avlSanityCheck(t) ==
  t # AVL_EMPTY => t = avlFixHeight(t) /\ \A d \in Side : avlSanityCheck(t.child[d])
=============================================================================
