------------------------------ MODULE MCSession ------------------------------
(* Instances of Session for TLC: what the clients type. *)
EXTENDS Session

CONSTANTS a, b, d,  \* clients
          x      \* the character of the initial text

MCText == <<x>>
MCPositions == 0 .. Len(InitialText) + Cardinality(OpIds)  \* wherever a cursor can be
MCFirstPosition == {0}  \* where the properties of a run do not depend on it
MCTwoEach == Clients \X (1 .. 2)
MCTwoAndOne == {<<a, 1>>, <<a, 2>>, <<b, 1>>}
MCOneEach == {<<c, 1>> : c \in Clients}
MCOnlyA == {<<a, 1>>, <<a, 2>>}
===============================================================================
