---------------------------- MODULE EventMemory ----------------------------
(***************************************************************************)
(* What an event carries while it may still be undone, beside what it sent *)
(* (EventQ): the difference it made to the state of its LP, in a block of  *)
(* the buddy allocator, and the lines it wants printed, in buffers of its  *)
(* KP.  Both are given back when it is undone, freed or committed.         *)
(*                                                                         *)
(* One LP, whose state is one byte.  A handler that takes a snapshot calls *)
(* tw_snapshot first and tw_snapshot_delta last, and its reverse handler   *)
(* tw_snapshot_restore.  LZ4 decides how large the block is.  What handler *)
(* an event buffer gets is fixed, for each of several programs.            *)
(***************************************************************************)
EXTENDS EventQ, Buddy, Integers

CONSTANTS
  Bytes,        \* the number of values of an unsigned char
  NumOut,       \* NUM_OUT_MESG
  Programs      \* by event: [new: the state its handler leaves, order: that of
                \* the block or Null without a snapshot, line: it prints one]

ASSUME MemoryAssumption ==
  /\ Bytes \in Nat \ {0} /\ NumOut \in Nat
  /\ Null \notin [at : Arena, order : Order]
  /\ \A p \in Programs : \A e \in Event : p[e].new \in 0 .. Bytes - 1 /\ p[e].order \in Order \cup {Null}

VARIABLES
  handler,      \* the program of this run
  b,            \* the table of buddy blocks
  mem,          \* what is in the blocks: by offset, a byte
  delta_buddy,  \* by event, its block or Null
  cur_state,    \* of the LP
  out_msgs,     \* by event, the number of lines it holds
  output,       \* the length of the list at kp->output
  before,       \* history: the state before the event
  stopped       \* tw_error, or a fault

carried == <<b, mem, delta_buddy, cur_state, out_msgs, output, before, stopped>>
vars == <<listVars, handler, carried>>

Init ==
  /\ tw_eventq_alloc /\ handler \in Programs
  /\ b = create_buddy_table /\ mem = [x \in Arena |-> 0]
  /\ delta_buddy = [e \in Event |-> Null]
  /\ cur_state = 0 /\ before = [e \in Event |-> 0]
  /\ out_msgs = [e \in Event |-> 0] /\ output = NumOut
  /\ stopped = FALSE

\* delta_buddy of e, if it has one, given back.
FreeDelta(r, e) ==
  IF e = Null \/ delta_buddy[e] = Null THEN r
  ELSE LET f == buddy_free(r.b, delta_buddy[e])
       IN  [b |-> f.b, beyond |-> r.beyond \/ f.beyond]

\* The events of s, one after the other.
FreeDeltas(s) ==
  LET loop[i \in 0 .. Len(s)] == IF i = 0 THEN [b |-> b, beyond |-> FALSE] ELSE FreeDelta(loop[i - 1], s[i])
  IN  loop[Len(s)]

\* The events of s are freed, committed or undone: deltas and lines go back,
\* and buddy_free clears the memory.
Release(s) ==
  LET r == FreeDeltas(s)
      freed == Range(s) \ {Null}
      blocks == {delta_buddy[e] : e \in freed} \ {Null}
  IN  /\ b' = r.b /\ stopped' \in {FALSE, r.beyond}
      /\ mem' = [x \in Arena |-> IF \E blk \in blocks : x \in Units(blk) THEN 0 ELSE mem[x]]
      /\ delta_buddy' = [e \in Event |-> IF e \in freed THEN Null ELSE delta_buddy[e]]
      /\ out_msgs' = [e \in Event |-> IF e \in freed THEN 0 ELSE out_msgs[e]]
      /\ output' = output + Cardinality({e \in freed : out_msgs[e] # 0})
      /\ before' = [e \in Event |-> IF e \in freed THEN 0 ELSE before[e]]

\* The snapshot's bytes become current minus snapshot, as unsigned chars.
Difference(new, old) == (new - old) % Bytes

\* tw_snapshot, the handler and tw_snapshot_delta: the handler leaves new and
\* the compressed difference needs a block of order k.
tw_snapshot_delta(e, new, k) ==
  \/ /\ Enough(b, k) = {}
     /\ stopped' = TRUE
     /\ UNCHANGED <<b, mem, delta_buddy, cur_state>>
  \/ /\ Enough(b, k) # {}
     /\ LET r == buddy_alloc(b, k)
            blk == [at |-> r.at, order |-> k]
        IN  /\ b' = r.b
            /\ delta_buddy' = [delta_buddy EXCEPT ![e] = blk]
            /\ mem' = [x \in Arena |-> IF x \in Units(blk) THEN Difference(new, cur_state) ELSE mem[x]]
     /\ cur_state' = new
     /\ UNCHANGED stopped

\* A mutant: the difference is added once more.
tw_snapshot_restore_added(e) == (cur_state + mem[delta_buddy[e].at]) % Bytes

tw_snapshot_restore(e) == (cur_state - mem[delta_buddy[e].at]) % Bytes

\* The handler of e asks for a line to be printed: it waits in a buffer, or is
\* printed at once when there is none.
tw_output(e) ==
  /\ output' = IF output = 0 THEN 0 ELSE output - 1
  /\ out_msgs' = IF output = 0 THEN out_msgs ELSE [out_msgs EXCEPT ![e] = 1]

\* tw_sched_batch: the handler may take a snapshot and print a line.
ProcessEvent(e) ==
  /\ Process(e)
  /\ \/ /\ handler[e].order # Null
        /\ tw_snapshot_delta(e, handler[e].new, handler[e].order)
     \/ /\ handler[e].order = Null
        /\ UNCHANGED <<b, mem, delta_buddy, cur_state, stopped>>
  /\ before' = [before EXCEPT ![e] = cur_state]
  /\ IF handler[e].line THEN tw_output(e) ELSE UNCHANGED <<out_msgs, output>>

\* A mutant: only the state is restored.
RollbackKeeping ==
  /\ Undo
  /\ LET e == m.head["pevent_q"]
     IN  cur_state' = IF delta_buddy[e] = Null THEN cur_state ELSE tw_snapshot_restore(e)
  /\ UNCHANGED <<b, mem, delta_buddy, out_msgs, output, before, stopped>>

\* tw_event_rollback of the newest event.
Rollback ==
  /\ Undo
  /\ LET e == m.head["pevent_q"]
     IN  /\ cur_state' = IF delta_buddy[e] = Null THEN cur_state ELSE tw_snapshot_restore(e)
         /\ Release(<<e>>)

\* tw_event_free, which finds nothing to give back.
CancelEvent(e) == Cancel(e) /\ Release(<<e>>) /\ UNCHANGED cur_state
SendFinishEvent(e) == SendFinish(e) /\ Release(<<e>>) /\ UNCHANGED cur_state

\* The walk of tw_eventq_push_list, the oldest first; each event is followed
\* by what it sent, or Null.
FossilOldest(n) ==
  LET q == Chain("pevent_q")
      old == Reverse(SubSeq(q, n, Len(q)))
      walk == [i \in 1 .. 2 * Len(old) |->
                 IF i % 2 = 1 THEN old[(i + 1) \div 2] ELSE caused[old[i \div 2]]]
  IN  Fossil(Range(old)) /\ Release(walk) /\ UNCHANGED cur_state

Stopped == stopped /\ UNCHANGED vars

Next ==
  \/ /\ ~stopped
     /\ \/ (Receive \/ PopList \/ EnqueueNext) /\ UNCHANGED carried
        \/ \E e \in Event : CancelEvent(e) \/ ProcessEvent(e) \/ SendFinishEvent(e)
        \/ \E n \in 1 .. Len(Chain("pevent_q")) : FossilOldest(n)
        \/ Rollback
     /\ UNCHANGED handler
  \/ Stopped

Spec == Init /\ [][Next]_vars
-----------------------------------------------------------------------------
Held == {e \in Event : delta_buddy[e] # Null}
HeldBlocks == {delta_buddy[e] : e \in Held}

\* The free blocks and the ones events hold cover the arena and do not overlap,
\* whatever was split and merged, and memory does not stay fragmented: two free
\* buddies are one block, although buddy_free does not look for a buddy when
\* the bucket is empty.  Headers and counts agree.
Partition ==
  /\ \A x \in Arena : Cardinality({blk \in FreeBlocks(b) \cup HeldBlocks : x \in Units(blk)}) = 1
  /\ \A blk \in HeldBlocks : b.hdr[blk.at] = Header("USED", blk.order)
  /\ \A blk \in FreeBlocks(b) :
       /\ b.hdr[blk.at] = Header("FREE", blk.order)
       /\ [blk EXCEPT !.at = BuddyOf(blk.at, blk.order)] \notin FreeBlocks(b)
  /\ \A k \in Order : b.count[k] = Len(b.ptr[k])

\* Only events that may still be undone carry something, no two of them the
\* same block, and no line buffer is lost: an event buffer used again never
\* restores an old difference or prints an old line.
CarriedByProcessed ==
  /\ \A e \in Event : delta_buddy[e] # Null \/ out_msgs[e] # 0 => e \in Range(Chain("pevent_q"))
  /\ Cardinality(HeldBlocks) = Cardinality(Held)
  /\ output + Cardinality({e \in Event : out_msgs[e] # 0}) = NumOut

\* Undoing the processed events from the newest on, each difference taken from
\* the state as it then is, gives every one of them the state it had found.
RestoresState ==
  LET q == Chain("pevent_q")
      Undone[i \in 0 .. Len(q)] ==
        IF i = 0 THEN cur_state
        ELSE LET s == Undone[i - 1]
             IN  IF delta_buddy[q[i]] = Null THEN s ELSE (s - mem[delta_buddy[q[i]].at]) % Bytes
  IN  \A i \in 1 .. Len(q) : Undone[i] = before[q[i]]
=============================================================================
