----------------------------- MODULE MCGvtHook -----------------------------
(***************************************************************************)
(* Two PEs, the first with KPs k1 and k2.  h6 and h10 on k1 call the hook; *)
(* x4 from the other PE is late for k1 when h6 was executed, y8 for k2     *)
(* when z12 was.  z12 is sent by h6 and is gone while h6 is undone.        *)
(***************************************************************************)
EXTENDS GvtHook

MCPE == {"a", "b"}
MCEvent == {"b2", "x4", "h6", "y8", "h10", "z12"}
MCRoot == {"b2", "h6", "h10"}
MCParent == [e \in MCEvent |-> CASE e = "x4" -> "b2" [] e = "y8" -> "x4" [] e = "z12" -> "h6"
                               [] OTHER -> e]
MCPe == [e \in MCEvent |-> IF e = "b2" THEN "b" ELSE "a"]
MCKp == [e \in MCEvent |-> CASE e = "b2" -> "k3" [] e \in {"y8", "z12"} -> "k2" [] OTHER -> "k1"]
MCSig == [e \in MCEvent |-> CASE e = "b2" -> 2 [] e = "x4" -> 4 [] e = "h6" -> 6 [] e = "y8" -> 8
                            [] e = "h10" -> 10 [] OTHER -> 12]
=============================================================================
