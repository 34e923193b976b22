------------------------------- MODULE Buddy -------------------------------
(***************************************************************************)
(* The buddy allocator of buddy.c, from which an event's state delta gets  *)
(* its memory.  Offsets and sizes are in units of the smallest block       *)
(* (2^BUDDY_BLOCK_ORDER bytes), and order k stands for 2^k of them.  Every *)
(* block begins with a header; the buckets are lists of free blocks.  The  *)
(* operators take the table, [hdr: by offset, ptr and count: by order].    *)
(* A loop is a function of the number of passes; there are fewer than      *)
(* MaxOrder + 2 of each.                                                   *)
(***************************************************************************)
EXTENDS Naturals, Sequences, FiniteSets, FiniteSetsExt, SequencesExt

CONSTANT MaxOrder       \* list_count - 1

ASSUME BuddyAssumption == MaxOrder \in Nat

Order == 0 .. MaxOrder

\* Powers of two.
Size[k \in 0 .. MaxOrder] == IF k = 0 THEN 1 ELSE 2 * Size[k - 1]
Arena == 0 .. Size[MaxOrder] - 1

\* Memory that memset cleared; FREE is 0.
Cleared == [use |-> "FREE", units |-> 0]
Header(use, k) == [use |-> use, units |-> Size[k]]

\* (o XOR 2^k), o being a multiple of 2^k.
BuddyOf(o, k) == IF (o \div Size[k]) % 2 = 0 THEN o + Size[k] ELSE o - Size[k]

LIST_REMOVE(bb, k, o) ==
  LET d == CHOOSE d \in DOMAIN bb.ptr[k] : bb.ptr[k][d] = o
  IN  [bb EXCEPT !.ptr[k] = RemoveAt(bb.ptr[k], d), !.count[k] = bb.count[k] - 1]

\* Mark o free, put it at the head of its bucket, clear the rest of it.
LIST_INSERT_HEAD(bb, k, o) ==
  [bb EXCEPT !.ptr[k] = <<o>> \o bb.ptr[k], !.count[k] = bb.count[k] + 1,
             !.hdr = [x \in Arena |-> IF x = o THEN Header("FREE", k)
                                      ELSE IF x \in o + 1 .. o + Size[k] - 1 THEN Cleared
                                      ELSE bb.hdr[x]]]

\* The block at o is free and not yet in its bucket, unless merged: then an
\* earlier pass has put it there.  What lies beyond the arena never passes
\* for a free block here.
CanMerge(bb, o, k) ==
  /\ BuddyOf(o, k) \in Arena
  /\ bb.hdr[BuddyOf(o, k)] = Header("FREE", k)

\* A mutant: a block merged before stays in its bucket.
MergeKept(bb, o, k, merged) ==
  LIST_INSERT_HEAD(LIST_REMOVE(bb, k, BuddyOf(o, k)), k + 1, Min({o, BuddyOf(o, k)}))

Merge(bb, o, k, merged) ==
  LET a == IF merged THEN LIST_REMOVE(bb, k, o) ELSE bb
  IN  LIST_INSERT_HEAD(LIST_REMOVE(a, k, BuddyOf(o, k)), k + 1, Min({o, BuddyOf(o, k)}))

\* A pass: the block, merged so far, is r.at of order r.order, and r.read are
\* the headers looked at.
MergeNext(r) ==
  LET buddy == BuddyOf(r.at, r.order)
  IN  IF r.ended THEN r
      ELSE IF CanMerge(r.b, r.at, r.order)
      THEN [b |-> Merge(r.b, r.at, r.order, r.merged), at |-> Min({r.at, buddy}), order |-> r.order + 1,
            read |-> r.read \cup {buddy}, merged |-> TRUE, ended |-> FALSE]
      ELSE [r EXCEPT !.read = r.read \cup {buddy}, !.ended = TRUE]

buddy_try_merge(bb, o, k) ==
  LET start == [b |-> bb, at |-> o, order |-> k, read |-> {}, merged |-> FALSE, ended |-> FALSE]
      loop[i \in 0 .. MaxOrder + 1] == IF i = 0 THEN start ELSE MergeNext(loop[i - 1])
  IN  loop[MaxOrder + 1]

\* The first block of order k becomes two of order k - 1, the lower one first.
buddy_split(bb, k) ==
  LET o == Head(bb.ptr[k])
      h == o + Size[k - 1]
      a == LIST_REMOVE(bb, k, o)
  IN  [a EXCEPT !.count[k - 1] = a.count[k - 1] + 2, !.ptr[k - 1] = <<o>> \o (<<h>> \o a.ptr[k - 1]),
                !.hdr[o] = Header("FREE", k - 1), !.hdr[h] = Header("FREE", k - 1)]

\* A pass toward order k.
SplitNext(r, k) ==
  IF r.order = k THEN r ELSE [b |-> buddy_split(r.b, r.order), order |-> r.order - 1]

SplitDown(bb, j, k) ==
  LET loop[i \in 0 .. MaxOrder] == IF i = 0 THEN [b |-> bb, order |-> j] ELSE SplitNext(loop[i - 1], k)
  IN  loop[MaxOrder].b

\* One primordial block.
create_buddy_table ==
  [hdr |-> [x \in Arena |-> IF x = 0 THEN Header("FREE", MaxOrder) ELSE Cleared],
   ptr |-> [k \in Order |-> IF k = MaxOrder THEN <<0>> ELSE <<>>],
   count |-> [k \in Order |-> IF k = MaxOrder THEN 1 ELSE 0]]

\* The orders with a free block for one of order k, to which next_power2 rounds
\* the size and the header; with none buddy_alloc calls tw_error.
Enough(bb, k) == {j \in k .. MaxOrder : bb.count[j] > 0}

\* The table after the allocation and the offset of the block.
buddy_alloc(bb, k) ==
  LET s == SplitDown(bb, Min(Enough(bb, k)), k)
      o == Head(s.ptr[k])
      a == LIST_REMOVE(s, k, o)
  IN  [b |-> [a EXCEPT !.hdr[o] = [s.hdr[o] EXCEPT !.use = "USED"]], at |-> o]

\* The table after the block is freed, and whether the look for a buddy went
\* beyond the arena: there it finds no such block, or the program faults.
buddy_free(bb, blk) ==
  LET o == blk.at
      k == blk.order
      r == buddy_try_merge(bb, o, k)
  IN  IF bb.count[k] = 0 THEN [b |-> LIST_INSERT_HEAD(bb, k, o), beyond |-> FALSE]
      ELSE [b |-> IF r.merged THEN r.b ELSE LIST_INSERT_HEAD(bb, k, o),
            beyond |-> ~(r.read \subseteq Arena)]

FreeBlocks(bb) == UNION {{[at |-> o, order |-> k] : o \in ToSet(bb.ptr[k])} : k \in Order}
Units(blk) == blk.at .. blk.at + Size[blk.order] - 1
=============================================================================
