---------------------------- MODULE MCSchedBatch ----------------------------
(***************************************************************************)
(* An instance of SchedBatch: k1 executes a1, a3 and a6, and k2 executes   *)
(* b9.  x2 and x5 from another PE are late for k1 when it has executed a3  *)
(* or a6, and x5 sends three events, two of them to k2, which may have     *)
(* executed b9 by then.  a3 sends y4 to k2, which may have executed it     *)
(* when k1 has to undo a3.                                                 *)
(***************************************************************************)
EXTENDS SchedBatch

MCKP == {"k1", "k2"}
MCEvent == {"a1", "x2", "a3", "y4", "x5", "a6", "c7", "c8", "b9", "d9"}
MCRoot == {"a1", "a3", "a6", "b9"}
MCArrival == {"x2", "x5"}
MCSig == [e \in MCEvent |-> CASE e = "a1" -> 1 [] e = "x2" -> 2 [] e = "a3" -> 3
                            [] e = "y4" -> 4 [] e = "x5" -> 5 [] e = "a6" -> 6
                            [] e = "c7" -> 7 [] e = "c8" -> 8 [] OTHER -> 9]
MCKp == [e \in MCEvent |-> IF e \in {"y4", "c7", "c8", "b9"} THEN "k2" ELSE "k1"]
MCParent == [e \in MCEvent |-> CASE e = "y4" -> "a3" [] e \in {"c7", "c8", "d9"} -> "x5"
                               [] OTHER -> e]

\* k1 has an LP of its own for d9.  Either the models expect what comes, or l1
\* calls it an error when a3 comes without x2, or a6 without x5 too.
MCLP == {"l1", "l2", "l3"}
MCLp == [e \in MCEvent |-> IF e = "d9" THEN "l2" ELSE IF MCKp[e] = "k1" THEN "l1" ELSE "l3"]
Misses(m) == [e \in MCEvent |-> IF e \in DOMAIN m THEN m[e] ELSE e]
MCModels == {Misses(<<>>), Misses([e \in {"a3"} |-> "x2"]),
             Misses([e \in {"a3", "a6"} |-> IF e = "a3" THEN "x2" ELSE "x5"])}

\* A model that is wrong: a3 comes without a6 in any order.
WrongModels == {Misses([e \in {"a3"} |-> "a6"])}
=============================================================================
