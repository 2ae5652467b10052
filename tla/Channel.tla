------------------------------- MODULE Channel -------------------------------
(***************************************************************************)
(* What a connection promises in one direction: whatever is sent arrives   *)
(* once, whole and in the order it was sent, up to the point where the     *)
(* connection breaks.                                                      *)
(***************************************************************************)
EXTENDS Naturals, Sequences

CONSTANT Received  \* every message the receiver can be given

VARIABLES sent, received

Init == sent = <<>> /\ received = <<>>

Send ==
  /\ \E m \in Received : sent' = Append(sent, m)
  /\ UNCHANGED received

Receive ==
  /\ Len(received) < Len(sent)
  /\ received' = Append(received, sent[Len(received) + 1])
  /\ UNCHANGED sent

Next == Send \/ Receive

Spec == Init /\ [][Next]_<<sent, received>>
===============================================================================
