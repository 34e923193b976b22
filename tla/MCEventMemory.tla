--------------------------- MODULE MCEventMemory ---------------------------
(***************************************************************************)
(* Programs whose blocks have the same size, grow or shrink from one event *)
(* buffer to the next, that fill the arena of four blocks, and that ask    *)
(* for more lines than there are buffers.  The state is three-valued: the  *)
(* differences wrap.                                                       *)
(***************************************************************************)
EXTENDS EventMemory

Handler(e, order, line) == [new |-> e % Bytes, order |-> order, line |-> line]

MCPrograms ==
  {[e \in Event |-> Handler(e, 0, e % 2 = 0)],
   [e \in Event |-> Handler(e, IF e = 3 THEN Null ELSE e % 2, e > 3)],
   [e \in Event |-> Handler(e, IF e = 2 THEN Null ELSE IF e = 4 THEN 2 ELSE 0, FALSE)]}
=============================================================================
