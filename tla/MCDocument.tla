------------------------------ MODULE MCDocument ------------------------------
(* Instances of Document for TLC. *)
EXTENDS Document, TLC

CONSTANTS x, y  \* the characters of the initial text

MCInitialText == <<x, y>>
MCPositions == 0 .. 3  \* inside the initial text, at its end and past it
MCSymmetry == Permutations(OpIds)
===============================================================================
