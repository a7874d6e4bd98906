---------------------------- MODULE MCSelective ----------------------------
(* Values for TLC: a file in the folder, one beside it, and a name in the   *)
(* folder that nothing has yet.                                             *)
EXTENDS Selective

Start == SelectiveInit /\ head = [f \in Path |-> CASE f = "in" -> 1 [] f = "out" -> 2 [] OTHER -> 0]
Spec == Start /\ [][SelectiveNext]_selectiveVars
=============================================================================
