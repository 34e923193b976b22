---------------------------- MODULE MCPendingSet ----------------------------
(***************************************************************************)
(* Received events that tie on the time stamp, on the tiebreaker and on    *)
(* the event id, so that each of the four comparisons of the tree decides  *)
(* between some two of them, and whose ids collide in the tables of 3 and  *)
(* of 7 cells that four of them outgrow; and events sent locally, between  *)
(* and after them.                                                         *)
(***************************************************************************)
EXTENDS PendingSet

Ev(ts, tie, id, pe) == [recv_ts |-> ts, tiebreaker |-> tie, event_id |-> id, send_pe |-> pe]

MCReceived == {Ev(1, 1, 1, 1), Ev(1, 1, 1, 2), Ev(1, 1, 8, 1), Ev(1, 2, 15, 1), Ev(2, 1, 22, 1)}
Local == {Ev(ts, 3, 0, 0) : ts \in 1 .. 6}
MCEvent == MCReceived \cup Local
MCSig == [e \in MCEvent |-> Cardinality({f \in MCEvent : Less(KeyOf(f), KeyOf(e))})]

MCLoads ==
  {[build |-> "AVL_TREE", nodes |-> 6, events |-> MCReceived],
   [build |-> "AVL_TREE", nodes |-> 3, events |-> MCReceived \ {Ev(1, 1, 1, 2)}],
   [build |-> "AVL_TREE", nodes |-> 1, events |-> Local],
   [build |-> "hash", nodes |-> 1, events |-> MCReceived \ {Ev(1, 1, 1, 2)}],
   [build |-> "hash", nodes |-> 1, events |-> {Ev(1, 1, 1, 1), Ev(1, 1, 1, 2), Ev(1, 1, 8, 1), Ev(1, 3, 0, 0)}]}
=============================================================================
