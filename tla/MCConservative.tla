--------------------------- MODULE MCConservative ---------------------------
(***************************************************************************)
(* Two PEs with a KP each, lookahead 2.  "a" executes a3, which sends x5   *)
(* and x7 to "b", and then a4; "b" has b4, b6 and b5 to execute, the last  *)
(* at the time of x5 and behind it by its tie-breaker, and sends y9 back   *)
(* when it executes x7.                                                    *)
(***************************************************************************)
EXTENDS Conservative

MCPE == {"a", "b"}
MCEvent == {"a3", "a4", "b4", "x5", "b5", "b6", "x7", "y9"}
MCRoot == {"a3", "a4", "b4", "b5", "b6"}
MCParent == [e \in MCEvent |-> CASE e \in {"x5", "x7"} -> "a3" [] e = "y9" -> "x7" [] OTHER -> e]
MCPe == [k \in MCPE |-> k]
MCKp == [e \in MCEvent |-> IF e \in {"a3", "a4", "y9"} THEN "a" ELSE "b"]
MCTs == [e \in MCEvent |-> CASE e = "a3" -> 3 [] e \in {"a4", "b4"} -> 4 [] e \in {"x5", "b5"} -> 5
                           [] e = "b6" -> 6 [] e = "x7" -> 7 [] OTHER -> 9]
MCSig == [e \in MCEvent |-> CASE e = "a3" -> 1 [] e = "a4" -> 2 [] e = "b4" -> 3 [] e = "x5" -> 4
                            [] e = "b5" -> 5 [] e = "b6" -> 6 [] e = "x7" -> 7 [] OTHER -> 8]
=============================================================================
