----------------------------- MODULE MCTimeWarp -----------------------------
(***************************************************************************)
(* Instances of TimeWarp for TLC.                                          *)
(*                                                                         *)
(* Two PEs with a KP each: "a" executes r1 and sends c2 to "b"; "b"        *)
(* executes r2 and sends c1 to "a", where it precedes r1.  When c1 arrives *)
(* late, r1 is rolled back and c2 cancelled; executed again, r1 may send   *)
(* c2 again, as c3 with the same signature.                                *)
(*                                                                         *)
(* Two KPs on one PE: the straggler l1 from "b" makes k2 undo s2, which   *)
(* may have sent l2 to k1, which may have executed that and sent l3 back   *)
(* to "b".  s2 executed again may send l2 when k1 has passed it with s3.   *)
(***************************************************************************)
EXTENDS TimeWarp

MCPE == {"a", "b"}

REvent == {"r1", "r2", "c1", "c2", "c3"}
RRoot == {"r1", "r2"}
RSrc == [e \in REvent |-> IF e \in {"r2", "c1"} THEN "b" ELSE "a"]
RDst == [e \in REvent |-> IF e \in {"r1", "c1"} THEN "a" ELSE "b"]
RParent == [e \in REvent |->
              CASE e \in {"c2", "c3"} -> "r1" [] e = "c1" -> "r2" [] OTHER -> e]
RSig == [e \in REvent |->
           CASE e = "r2" -> 1 [] e = "c1" -> 2 [] e = "r1" -> 3 [] OTHER -> 4]

LKP == {"k1", "k2", "k3"}
LEvent == {"s1", "s2", "s3", "l1", "l2", "l3"}
LRoot == {"s1", "s2", "s3"}
LSrc == [e \in LEvent |-> IF e \in {"s1", "l1"} THEN "b" ELSE "a"]
LDst == [e \in LEvent |-> IF e \in {"s1", "l3"} THEN "b" ELSE "a"]
LKp == [e \in LEvent |-> CASE e \in {"s1", "l3"} -> "k3"
                         [] e \in {"s2", "l1"} -> "k2" [] OTHER -> "k1"]
LParent == [e \in LEvent |-> CASE e = "l1" -> "s1" [] e = "l2" -> "s2"
                             [] e = "l3" -> "l2" [] OTHER -> e]
LSig == [e \in LEvent |-> CASE e = "s1" -> 1 [] e = "l1" -> 2 [] e = "s2" -> 3
                          [] e = "l2" -> 4 [] e = "s3" -> 5 [] OTHER -> 6]
=============================================================================
