------------------------------ MODULE SharedText ------------------------------
(***************************************************************************)
(* What the server promises its editors, without a version window and      *)
(* without transformation: every edit takes effect at one point of a       *)
(* single order, and means what its author saw.  An author names a         *)
(* position of an earlier text; the insertion ends up between the          *)
(* characters that stood on its two sides, the deletion removes that very  *)
(* character, whatever happened to the text in between.                    *)
(***************************************************************************)
EXTENDS Integers, Sequences, SequencesExt

CONSTANTS Ids,          \* identities of edits; an inserted character is its edit's id
          InitialText,  \* the text of the file the server was started on
          Positions     \* the positions an author may name

VARIABLES text,     \* the current text
          past,     \* past[v + 1] is the text after the first v edits
          edits     \* edits[v] is the v-th edit as its author stated it

vars == <<text, past, edits>>

Kept(seen) == {i \in 1 .. Len(seen) : Contains(text, seen[i])}
Place(x) == CHOOSE i \in 1 .. Len(text) : text[i] = x

\* The new character may go to any place that keeps it right of what its
\* author saw on its left, and left of what was seen on its right.
InsertBetween(seen, pos, char) ==
  \E q \in 0 .. Len(text) :
    /\ \A i \in Kept(seen) : i <= pos <=> Place(seen[i]) <= q
    /\ text' = InsertAt(text, q + 1, char)

\* A deletion of what another edit already deleted, or of nothing, is void.
DeleteSeen(seen, pos) ==
  text' = IF pos + 1 \in Kept(seen) THEN RemoveAt(text, Place(seen[pos + 1])) ELSE text

Edit(id, base, kind, pos) ==
  /\ IF kind = "insert" THEN InsertBetween(past[base + 1], pos, id)
                        ELSE DeleteSeen(past[base + 1], pos)
  /\ past' = Append(past, text')
  /\ edits' = Append(edits, [id |-> id, base |-> base, kind |-> kind, pos |-> pos])

Init ==
  /\ text = InitialText
  /\ past = <<InitialText>>
  /\ edits = <<>>

Next ==
  \E id \in Ids, base \in 0 .. Len(edits), kind \in {"insert", "delete"}, pos \in Positions :
    Edit(id, base, kind, pos)

Spec == Init /\ [][Next]_vars
===============================================================================
