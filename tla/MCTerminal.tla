------------------------------ MODULE MCTerminal ------------------------------
(* An instance of Terminal for TLC: characters of one to four bytes. *)
EXTENDS Terminal

CONSTANTS a, b,  \* clients
          x      \* the character of the initial text

MCText == <<x>>
MCPositions == 0 .. Len(InitialText) + Cardinality(OpIds)  \* wherever a cursor can be
MCOpIds == {<<a, 1>>, <<a, 2>>, <<b, 1>>}
MCUtf8Of == [char \in {x} \cup OpIds |->
  CASE char = x -> <<240, 159, 152, 128>>
    [] char = <<a, 1>> -> <<97>>
    [] char = <<b, 1>> -> <<228, 184, 173>>
    [] OTHER -> <<195, 169>>]
===============================================================================
