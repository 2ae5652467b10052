------------------------------ MODULE Operations ------------------------------
(***************************************************************************)
(* Edit operations on a shared text (termsync.h, util.c) and their         *)
(* transformation against one another (document.c).                        *)
(*                                                                         *)
(* A text is a sequence of characters.  The code counts UTF-8 characters   *)
(* from 0, TLA+ indexes from 1: position p is index p + 1.  No code path   *)
(* compares the characters of a text, so a character stands for its own    *)
(* identity and two insertions of the same letter are told apart.          *)
(***************************************************************************)
EXTENDS Integers, Sequences, SequencesExt

\* The three kinds of TsOperation a document applies.  Only an insertion
\* has a character; the reason of a noop is wording.
InsertOp(p, c) == [kind |-> "insert", pos |-> p, ch |-> c]
DeleteOp(p) == [kind |-> "delete", pos |-> p]
NoopOp(p) == [kind |-> "noop", pos |-> p]

Operation(Char) ==
  [kind : {"insert"}, pos : Nat, ch : Char] \cup [kind : {"delete", "noop"}, pos : Nat]

-----------------------------------------------------------------------------
(* Applying an operation to a copy of the text.                            *)

Clamp(p, n) == IF p > n THEN n ELSE p

ApplyOperation(text, op) ==
  CASE op.kind = "insert" -> InsertAt(text, Clamp(op.pos, Len(text)) + 1, op.ch)
    [] op.kind = "delete" /\ op.pos < Len(text) -> RemoveAt(text, op.pos + 1)
    [] OTHER -> text

\* Slips: operations are recorded as they were transformed; a deletion of
\* nothing is moved to the last character, there being one or not.
NormalizeNothing(text, op) == op

NormalizeToLast(text, op) ==
  CASE op.kind = "insert" -> [op EXCEPT !.pos = Clamp(@, Len(text))]
    [] op.kind = "delete" /\ op.pos >= Len(text) -> NoopOp(Len(text) - 1)
    [] OTHER -> op

\* What the server records and broadcasts instead of an operation that falls
\* outside the text it is applied to.
NormalizeForApply(text, op) ==
  CASE op.kind = "insert" -> [op EXCEPT !.pos = Clamp(@, Len(text))]
    [] op.kind = "delete" /\ op.pos >= Len(text) -> NoopOp(op.pos)
    [] OTHER -> op

\* The operation lies inside the text it is applied to.
InRange(text, op) ==
  /\ op.kind = "insert" => op.pos <= Len(text)
  /\ op.kind = "delete" => op.pos < Len(text)

-----------------------------------------------------------------------------
(* Operational transformation.                                             *)

\* Slip: an operation at the very place of an earlier insertion stays there.
ShiftByLaterInsertion(op, previous) ==
  CASE previous.kind = "insert" /\ previous.pos < op.pos -> 1
    [] previous.kind = "delete" /\ previous.pos < op.pos -> -1
    [] OTHER -> 0

\* How far `previous' moves the positions of the operations that follow it.
Shift(op, previous) ==
  CASE previous.kind = "insert" /\ previous.pos <= op.pos -> 1
    [] previous.kind = "delete" /\ previous.pos < op.pos -> -1
    [] OTHER -> 0

\* `op', in the coordinates of the text after `previous' was applied.  Of two
\* deletions of the same character the later one becomes a noop.
TransformAgainst(op, previous) ==
  IF op.kind = "noop" THEN op
  ELSE IF op.kind = "delete" /\ previous.kind = "delete" /\ previous.pos = op.pos
       THEN NoopOp(op.pos)
       ELSE [op EXCEPT !.pos = @ + Shift(op, previous)]
===============================================================================
