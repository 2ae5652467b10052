--------------------------------- MODULE Utf8 ---------------------------------
(***************************************************************************)
(* Texts as bytes (util.c).  Positions count characters: an operation is   *)
(* applied by turning its position into an offset in the UTF-8 text.  The  *)
(* code takes for granted that the text is well formed; so does this       *)
(* module.                                                                 *)
(***************************************************************************)
EXTENDS Integers, Sequences, FiniteSets

IsContinuation(byte) == byte \in 128 .. 191

CharCount(bytes) == Cardinality({i \in DOMAIN bytes : ~ IsContinuation(bytes[i])})

\* Slip: three bytes at most.
CharBytesBasic(first) ==
  CASE first \in 192 .. 223 -> 2 [] first \in 224 .. 255 -> 3 [] OTHER -> 1

\* The first byte of a character tells how many it has.
CharBytes(first) ==
  CASE first \in 192 .. 223 -> 2
    [] first \in 224 .. 239 -> 3
    [] first \in 240 .. 247 -> 4
    [] OTHER -> 1

\* Where the character at pos begins; the end, when there is none.
ByteOffset(bytes, pos) ==
  LET offset[n \in 0 .. pos] ==
        IF n = 0 THEN 0
        ELSE IF offset[n - 1] >= Len(bytes) THEN offset[n - 1]
        ELSE offset[n - 1] + CharBytes(bytes[offset[n - 1] + 1])
  IN  offset[pos]

\* ts_apply_operation_to_text: an insertion past the end goes to the end, a
\* deletion past the end changes nothing.
ApplyToBytes(bytes, op) ==
  LET count == CharCount(bytes)
      at == ByteOffset(bytes, IF op.pos > count THEN count ELSE op.pos)
      next == ByteOffset(bytes, op.pos + 1)
  IN  CASE op.kind = "insert" -> SubSeq(bytes, 1, at) \o op.ch \o SubSeq(bytes, at + 1, Len(bytes))
        [] op.kind = "delete" /\ op.pos < count ->
             SubSeq(bytes, 1, at) \o SubSeq(bytes, next + 1, Len(bytes))
        [] OTHER -> bytes
===============================================================================
