------------------------------ MODULE MCFileTree ------------------------------
(* Values for TLC.                                                           *)
EXTENDS FileTree

\* Ids other than the root's are interchangeable.
IdSymmetry == Permutations(Id \ {Root})

\* Two names that differ in case only, and a third one.
Names == {"a", "A", "b"}
LowerCase == [n \in Names |-> IF n = "A" THEN "a" ELSE n]
=============================================================================
