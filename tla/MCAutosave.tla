------------------------------ MODULE MCAutosave ------------------------------
(* Instances of Autosave for TLC. *)
EXTENDS Autosave

MCFromEmpty == [v \in 0 .. MaxVersion |-> v]
MCLength == [v \in 0 .. MaxVersion |-> 1 + (v % 2)]
===============================================================================
