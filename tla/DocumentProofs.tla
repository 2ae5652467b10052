---------------------------- MODULE DocumentProofs ----------------------------
(* The document's invariants hold for every window size, initial text and    *)
(* set of operations, and the document implements SharedText: transformation *)
(* keeps the intentions of the editors.  First the lemmas about single       *)
(* operations.                                                               *)
EXTENDS Document, SequenceTheorems, WellFoundedInduction, TLAPS

\* Induction over the natural numbers, about a set instead of a predicate.
LEMMA NatSetInduction ==
  ASSUME NEW S, 0 \in S, \A n \in Nat : n \in S => n + 1 \in S
  PROVE  Nat \subseteq S
<1> DEFINE R == OpToRel(<, Nat)
           T == Nat \ S
<1>1. IsWellFoundedOn(R, Nat)
  BY NatLessThanWellFounded
<1>2. SUFFICES ASSUME T # {} PROVE FALSE
  OBVIOUS
<1>3. PICK n \in T : \A m \in T : <<m, n>> \notin R
  <2>1. T \subseteq Nat
    OBVIOUS
  <2> HIDE DEF T, R
  <2> QED
    BY <1>1, <1>2, <2>1, WFMin
<1>4. n # 0 /\ n - 1 \in Nat /\ n - 1 \in T
  OBVIOUS
<1>5. <<n - 1, n>> \in R
  BY <1>4 DEF OpToRel
<1> QED
  BY <1>3, <1>4, <1>5

-----------------------------------------------------------------------------

\* Transformation stays within the operations: no position becomes negative,
\* since only a deletion strictly before an operation moves it to the left.
LEMMA TransformAgainstType ==
  ASSUME NEW C, NEW op \in Operation(C), NEW previous \in Operation(C)
  PROVE  TransformAgainst(op, previous) \in Operation(C)
<1>1. CASE op.kind = "noop"
  BY <1>1 DEF TransformAgainst
<1>2. CASE op.kind = "delete"
  BY <1>2 DEF TransformAgainst, NoopOp, Shift, Operation
<1>3. CASE op.kind = "insert"
  BY <1>3 DEF TransformAgainst, Shift, Operation
<1> QED
  BY <1>1, <1>2, <1>3 DEF Operation

\* What the server records lies inside the text it is applied to.
LEMMA NormalizedIsInRange ==
  ASSUME NEW C, NEW txt \in Seq(C), NEW op \in Operation(C)
  PROVE  /\ NormalizeForApply(txt, op) \in Operation(C)
         /\ InRange(txt, NormalizeForApply(txt, op))
<1>1. Len(txt) \in Nat
  OBVIOUS
<1>2. CASE op.kind = "noop"
  BY <1>2 DEF NormalizeForApply, InRange, Operation
<1>3. CASE op.kind = "delete"
  BY <1>1, <1>3 DEF NormalizeForApply, InRange, NoopOp, Operation
<1>4. CASE op.kind = "insert"
  BY <1>1, <1>4 DEF NormalizeForApply, InRange, Clamp, Operation
<1> QED
  BY <1>2, <1>3, <1>4 DEF Operation

\* A text with a character inserted at index i.
LEMMA InsertAtProperties ==
  ASSUME NEW C, NEW txt \in Seq(C), NEW i \in 1 .. Len(txt) + 1, NEW ch \in C
  PROVE  LET new == InsertAt(txt, i, ch)
         IN  /\ new \in Seq(C)
             /\ Len(new) = Len(txt) + 1
             /\ new[i] = ch
             /\ \A j \in 1 .. i - 1 : new[j] = txt[j]
             /\ \A j \in i .. Len(txt) : new[j + 1] = txt[j]
<1> DEFINE left == SubSeq(txt, 1, i - 1)
           right == SubSeq(txt, i, Len(txt))
<1>0. Len(txt) \in Nat /\ i \in Int
  OBVIOUS
<1>1. /\ left \in Seq(C)
      /\ Len(left) = i - 1
      /\ \A j \in 1 .. i - 1 : left[j] = txt[j]
  <2>1. \A j \in 1 .. i - 1 : txt[j] \in C
    BY ElementOfSeq
  <2> QED
    BY <1>0, <2>1, SubSeqProperties
<1>2. /\ right \in Seq(C)
      /\ Len(right) = Len(txt) - i + 1
      /\ \A j \in 1 .. Len(txt) - i + 1 : right[j] = txt[i + j - 1]
  <2>1. \A j \in i .. Len(txt) : txt[j] \in C
    BY ElementOfSeq
  <2> QED
    BY <1>0, <2>1, SubSeqProperties
<1> HIDE DEF left, right
<1>3. /\ <<ch>> \in Seq(C) /\ Len(<<ch>>) = 1 /\ <<ch>>[1] = ch
  OBVIOUS
<1>4. /\ left \o <<ch>> \in Seq(C)
      /\ Len(left \o <<ch>>) = i
      /\ (left \o <<ch>>)[i] = ch
      /\ \A j \in 1 .. i - 1 : (left \o <<ch>>)[j] = txt[j]
  <2> DEFINE one == <<ch>>
  <2>1. one \in Seq(C) /\ Len(one) = 1 /\ one[1] = ch
    BY <1>3
  <2> HIDE DEF one
  <2>2. /\ left \o one \in Seq(C)
        /\ Len(left \o one) = Len(left) + Len(one)
        /\ \A j \in 1 .. Len(left) + Len(one) :
             (left \o one)[j] = IF j <= Len(left) THEN left[j] ELSE one[j - Len(left)]
    BY <1>1, <2>1, ConcatProperties
  <2>3. Len(left) = i - 1 /\ Len(left) + Len(one) = i
    BY <1>0, <1>1, <2>1
  <2>4. (left \o one)[i] = ch
    <3>1. i \in 1 .. Len(left) + Len(one) /\ ~ (i <= Len(left)) /\ i - Len(left) = 1
      BY <1>0, <2>3
    <3> QED
      BY <2>1, <2>2, <3>1
  <2>5. ASSUME NEW j \in 1 .. i - 1
        PROVE  (left \o one)[j] = txt[j]
    <3>1. j \in 1 .. Len(left) + Len(one) /\ j <= Len(left)
      BY <1>0, <2>3
    <3>2. (left \o one)[j] = left[j]
      BY <2>2, <3>1
    <3> QED
      BY <1>1, <3>2
  <2>6. left \o one \in Seq(C) /\ Len(left \o one) = i
    BY <2>2, <2>3
  <2> QED
    BY <2>4, <2>5, <2>6 DEF one
<1>5. InsertAt(txt, i, ch) = (left \o <<ch>>) \o right
  BY DEF InsertAt, left, right
<1> DEFINE new == InsertAt(txt, i, ch)
<1>6. /\ new \in Seq(C)
      /\ Len(new) = Len(txt) + 1
      /\ \A j \in 1 .. Len(txt) + 1 :
           new[j] = IF j <= i THEN (left \o <<ch>>)[j] ELSE right[j - i]
  <2> DEFINE front == left \o <<ch>>
  <2>1. front \in Seq(C) /\ Len(front) = i
    BY <1>4
  <2> HIDE DEF front
  <2>2. /\ front \o right \in Seq(C)
        /\ Len(front \o right) = Len(front) + Len(right)
        /\ \A j \in 1 .. Len(front) + Len(right) :
             (front \o right)[j] = IF j <= Len(front) THEN front[j] ELSE right[j - Len(front)]
    BY <1>2, <2>1, ConcatProperties
  <2>3. Len(front) + Len(right) = Len(txt) + 1
    BY <1>0, <1>2, <2>1
  <2>4. new = front \o right
    BY <1>5 DEF front
  <2> HIDE DEF new
  <2> QED
    BY <2>1, <2>2, <2>3, <2>4 DEF front
<1> HIDE DEF new
<1>7. new[i] = ch /\ \A j \in 1 .. i - 1 : new[j] = txt[j]
  BY <1>0, <1>4, <1>6
<1>8. ASSUME NEW j \in i .. Len(txt)
      PROVE  new[j + 1] = txt[j]
  <2>1. j + 1 - i \in 1 .. Len(txt) - i + 1 /\ i + (j + 1 - i) - 1 = j
    BY <1>0
  <2>2. new[j + 1] = right[j + 1 - i]
    BY <1>0, <1>6
  <2> QED
    BY <1>2, <2>1, <2>2
<1> QED
  BY <1>6, <1>7, <1>8 DEF new

\* A text with the character at index i removed.
LEMMA RemoveAtProperties ==
  ASSUME NEW C, NEW txt \in Seq(C), NEW i \in 1 .. Len(txt)
  PROVE  LET new == RemoveAt(txt, i)
         IN  /\ new \in Seq(C)
             /\ Len(new) = Len(txt) - 1
             /\ \A j \in 1 .. i - 1 : new[j] = txt[j]
             /\ \A j \in i + 1 .. Len(txt) : new[j - 1] = txt[j]
<1> DEFINE left == SubSeq(txt, 1, i - 1)
           right == SubSeq(txt, i + 1, Len(txt))
<1>0. Len(txt) \in Nat /\ i \in Int
  OBVIOUS
<1>1. /\ left \in Seq(C)
      /\ Len(left) = i - 1
      /\ \A j \in 1 .. i - 1 : left[j] = txt[j]
  <2>1. \A j \in 1 .. i - 1 : txt[j] \in C
    BY ElementOfSeq
  <2> QED
    BY <1>0, <2>1, SubSeqProperties
<1>2. /\ right \in Seq(C)
      /\ Len(right) = Len(txt) - i
      /\ \A j \in 1 .. Len(txt) - i : right[j] = txt[i + j]
  <2>1. \A j \in i + 1 .. Len(txt) : txt[j] \in C
    BY ElementOfSeq
  <2> QED
    BY <1>0, <2>1, SubSeqProperties
<1> HIDE DEF left, right
<1>3. RemoveAt(txt, i) = left \o right
  BY DEF RemoveAt, left, right
<1> DEFINE new == RemoveAt(txt, i)
<1>4. /\ new \in Seq(C)
      /\ Len(new) = Len(txt) - 1
      /\ \A j \in 1 .. Len(txt) - 1 : new[j] = IF j <= i - 1 THEN left[j] ELSE right[j - (i - 1)]
  <2>1. /\ left \o right \in Seq(C)
        /\ Len(left \o right) = Len(left) + Len(right)
        /\ \A j \in 1 .. Len(left) + Len(right) :
             (left \o right)[j] = IF j <= Len(left) THEN left[j] ELSE right[j - Len(left)]
    BY <1>1, <1>2, ConcatProperties
  <2>2. Len(left) + Len(right) = Len(txt) - 1
    BY <1>0, <1>1, <1>2
  <2>3. new = left \o right
    BY <1>3
  <2> HIDE DEF new
  <2> QED
    BY <1>1, <2>1, <2>2, <2>3
<1> HIDE DEF new
<1>5. ASSUME NEW j \in 1 .. i - 1
      PROVE  new[j] = txt[j]
  <2>1. j \in 1 .. Len(txt) - 1 /\ j <= i - 1
    BY <1>0
  <2>2. new[j] = left[j]
    BY <1>4, <2>1
  <2> QED
    BY <1>1, <2>2
<1>6. ASSUME NEW j \in i + 1 .. Len(txt)
      PROVE  new[j - 1] = txt[j]
  <2>1. j - i \in 1 .. Len(txt) - i /\ i + (j - i) = j
    BY <1>0
  <2>2. new[j - 1] = right[(j - 1) - (i - 1)] /\ (j - 1) - (i - 1) = j - i
    BY <1>0, <1>4
  <2> QED
    BY <1>2, <2>1, <2>2
<1> QED
  BY <1>4, <1>5, <1>6 DEF new

\* Inserting and deleting characters makes a text of the same characters
\* (ts_apply_operation_to_text).
LEMMA ApplyOperationType ==
  ASSUME NEW C, NEW txt \in Seq(C), NEW op \in Operation(C)
  PROVE  ApplyOperation(txt, op) \in Seq(C)
<1>0. Len(txt) \in Nat
  OBVIOUS
<1>1. CASE op.kind = "insert"
  <2>1. op.ch \in C /\ Clamp(op.pos, Len(txt)) + 1 \in 1 .. Len(txt) + 1
    BY <1>0, <1>1 DEF Operation, Clamp
  <2> QED
    BY <1>1, <2>1, InsertAtProperties DEF ApplyOperation
<1>2. CASE op.kind = "delete" /\ op.pos < Len(txt)
  <2>1. op.pos + 1 \in 1 .. Len(txt)
    BY <1>0, <1>2 DEF Operation
  <2> QED
    BY <1>2, <2>1, RemoveAtProperties DEF ApplyOperation
<1>3. CASE ~(op.kind = "insert") /\ ~(op.kind = "delete" /\ op.pos < Len(txt))
  BY <1>3 DEF ApplyOperation
<1> QED
  BY <1>1, <1>2, <1>3

-----------------------------------------------------------------------------

\* Where the character at index j of a text stands after `previous'.
IndexAfter(j, previous) ==
  CASE previous.kind = "insert" /\ previous.pos < j -> j + 1
    [] previous.kind = "delete" /\ previous.pos + 1 < j -> j - 1
    [] OTHER -> j

\* Characters keep their identity: whatever `previous' does not delete is
\* found again where IndexAfter says.
LEMMA CharactersMove ==
  ASSUME NEW C, NEW txt \in Seq(C), NEW previous \in Operation(C), InRange(txt, previous),
         NEW j \in 1 .. Len(txt), ~(previous.kind = "delete" /\ previous.pos + 1 = j)
  PROVE  LET after == ApplyOperation(txt, previous)
         IN  /\ IndexAfter(j, previous) \in 1 .. Len(after)
             /\ after[IndexAfter(j, previous)] = txt[j]
<1>0. Len(txt) \in Nat /\ previous.pos \in Nat
  BY DEF Operation
<1>1. CASE previous.kind = "insert"
  <2>1. previous.ch \in C /\ previous.pos <= Len(txt)
    BY <1>1 DEF Operation, InRange
  <2> DEFINE after == InsertAt(txt, previous.pos + 1, previous.ch)
  <2>2. ApplyOperation(txt, previous) = after
    BY <1>0, <1>1, <2>1 DEF ApplyOperation, Clamp
  <2>3. /\ Len(after) = Len(txt) + 1
        /\ \A i \in 1 .. previous.pos : after[i] = txt[i]
        /\ \A i \in previous.pos + 1 .. Len(txt) : after[i + 1] = txt[i]
    <3>1. previous.pos + 1 \in 1 .. Len(txt) + 1 /\ (previous.pos + 1) - 1 = previous.pos
      BY <1>0, <2>1
    <3> QED
      BY <2>1, <3>1, InsertAtProperties
  <2>4. IndexAfter(j, previous) = IF previous.pos < j THEN j + 1 ELSE j
    BY <1>1 DEF IndexAfter
  <2> HIDE DEF after
  <2>5. /\ IndexAfter(j, previous) \in 1 .. Len(after)
        /\ after[IndexAfter(j, previous)] = txt[j]
    <3>1. CASE previous.pos < j
      BY <1>0, <2>3, <2>4, <3>1
    <3>2. CASE j <= previous.pos
      BY <1>0, <2>3, <2>4, <3>2
    <3> QED
      BY <1>0, <3>1, <3>2
  <2> QED
    BY <2>2, <2>5
<1>2. CASE previous.kind = "delete"
  <2>1. previous.pos < Len(txt)
    BY <1>2 DEF InRange
  <2> DEFINE after == RemoveAt(txt, previous.pos + 1)
  <2>2. ApplyOperation(txt, previous) = after
    BY <1>2, <2>1 DEF ApplyOperation
  <2>3. /\ Len(after) = Len(txt) - 1
        /\ \A i \in 1 .. previous.pos : after[i] = txt[i]
        /\ \A i \in previous.pos + 2 .. Len(txt) : after[i - 1] = txt[i]
    <3>1. /\ previous.pos + 1 \in 1 .. Len(txt)
          /\ (previous.pos + 1) - 1 = previous.pos
          /\ (previous.pos + 1) + 1 = previous.pos + 2
      BY <1>0, <2>1
    <3> QED
      BY <3>1, RemoveAtProperties
  <2>4. IndexAfter(j, previous) = IF previous.pos + 1 < j THEN j - 1 ELSE j
    BY <1>2 DEF IndexAfter
  <2> HIDE DEF after
  <2> QED
    BY <1>0, <1>2, <2>1, <2>2, <2>3, <2>4
<1>3. CASE previous.kind = "noop"
  BY <1>3 DEF ApplyOperation, IndexAfter
<1> QED
  BY <1>1, <1>2, <1>3 DEF Operation

\* A transformed deletion still names the character it was aimed at, unless
\* `previous' deleted that character: then it is a noop (the delete cases of
\* ts_transform_against).
THEOREM DeletionKeepsItsTarget ==
  ASSUME NEW C, NEW txt \in Seq(C), NEW previous \in Operation(C), InRange(txt, previous),
         NEW op \in Operation(C), op.kind = "delete", op.pos < Len(txt)
  PROVE  LET after == ApplyOperation(txt, previous)
             done == TransformAgainst(op, previous)
         IN  IF previous.kind = "delete" /\ previous.pos = op.pos
             THEN done.kind = "noop"
             ELSE /\ done.kind = "delete"
                  /\ done.pos + 1 \in 1 .. Len(after)
                  /\ after[done.pos + 1] = txt[op.pos + 1]
<1>0. op.pos \in Nat /\ previous.pos \in Nat /\ Len(txt) \in Nat
  BY DEF Operation
<1>1. CASE previous.kind = "delete" /\ previous.pos = op.pos
  BY <1>1 DEF TransformAgainst, NoopOp
<1>2. CASE ~(previous.kind = "delete" /\ previous.pos = op.pos)
  <2> DEFINE done == TransformAgainst(op, previous)
  <2>1. done.kind = "delete" /\ done.pos = op.pos + Shift(op, previous)
    BY <1>2 DEF TransformAgainst, Operation
  <2>2. done.pos + 1 = IndexAfter(op.pos + 1, previous)
    <3>1. CASE previous.kind = "insert"
      BY <1>0, <2>1, <3>1 DEF Shift, IndexAfter
    <3>2. CASE previous.kind = "delete"
      BY <1>0, <1>2, <2>1, <3>2 DEF Shift, IndexAfter
    <3>3. CASE previous.kind = "noop"
      BY <1>0, <2>1, <3>3 DEF Shift, IndexAfter
    <3> QED
      BY <3>1, <3>2, <3>3 DEF Operation
  <2>3. op.pos + 1 \in 1 .. Len(txt) /\ ~(previous.kind = "delete" /\ previous.pos + 1 = op.pos + 1)
    BY <1>0, <1>2
  <2> HIDE DEF done
  <2>4. /\ IndexAfter(op.pos + 1, previous) \in 1 .. Len(ApplyOperation(txt, previous))
        /\ ApplyOperation(txt, previous)[IndexAfter(op.pos + 1, previous)] = txt[op.pos + 1]
    BY <2>3, CharactersMove
  <2> QED
    BY <1>2, <2>1, <2>2, <2>4 DEF done
<1> QED
  BY <1>1, <1>2

\* A transformed insertion keeps every surviving character on the side of the
\* cursor its author saw it on (the insert cases of ts_transform_against).
THEOREM InsertionKeepsItsPlace ==
  ASSUME NEW C, NEW txt \in Seq(C), NEW previous \in Operation(C), InRange(txt, previous),
         NEW op \in Operation(C), op.kind = "insert",
         NEW j \in 1 .. Len(txt), ~(previous.kind = "delete" /\ previous.pos + 1 = j)
  PROVE  LET after == ApplyOperation(txt, previous)
             done == TransformAgainst(op, previous)
         IN  /\ done.kind = "insert" /\ done.ch = op.ch
             /\ after[IndexAfter(j, previous)] = txt[j]
             /\ j <= op.pos <=> IndexAfter(j, previous) <= done.pos
<1>0. op.pos \in Nat /\ previous.pos \in Nat /\ Len(txt) \in Nat
  BY DEF Operation
<1> DEFINE done == TransformAgainst(op, previous)
<1>1. done.kind = "insert" /\ done.ch = op.ch /\ done.pos = op.pos + Shift(op, previous)
  BY DEF TransformAgainst, Operation
<1>2. j <= op.pos <=> IndexAfter(j, previous) <= done.pos
  <2>1. CASE previous.kind = "insert"
    BY <1>0, <1>1, <2>1 DEF Shift, IndexAfter
  <2>2. CASE previous.kind = "delete"
    BY <1>0, <1>1, <2>2 DEF Shift, IndexAfter
  <2>3. CASE previous.kind = "noop"
    BY <1>0, <1>1, <2>3 DEF Shift, IndexAfter
  <2> QED
    BY <2>1, <2>2, <2>3 DEF Operation
<1>3. ApplyOperation(txt, previous)[IndexAfter(j, previous)] = txt[j]
  BY CharactersMove
<1> QED
  BY <1>1, <1>2, <1>3

\* And nothing comes out of nowhere: a character of the text after `previous'
\* was in the text before, unless `previous' has just inserted it.
LEMMA CharactersCome ==
  ASSUME NEW C, NEW txt \in Seq(C), NEW previous \in Operation(C), InRange(txt, previous),
         NEW k \in 1 .. Len(ApplyOperation(txt, previous))
  PROVE  LET after == ApplyOperation(txt, previous)
         IN  \/ previous.kind = "insert" /\ k = previous.pos + 1 /\ after[k] = previous.ch
             \/ \E j \in 1 .. Len(txt) :
                  /\ ~(previous.kind = "delete" /\ previous.pos + 1 = j)
                  /\ k = IndexAfter(j, previous)
                  /\ after[k] = txt[j]
<1>0. Len(txt) \in Nat /\ previous.pos \in Nat
  BY DEF Operation
<1> DEFINE after == ApplyOperation(txt, previous)
<1>1. CASE previous.kind = "insert"
  <2>1. previous.ch \in C /\ previous.pos + 1 \in 1 .. Len(txt) + 1
    BY <1>0, <1>1 DEF Operation, InRange
  <2>2. after = InsertAt(txt, previous.pos + 1, previous.ch)
    BY <1>0, <1>1, <2>1 DEF ApplyOperation, Clamp
  <2>3. Len(after) = Len(txt) + 1 /\ after[previous.pos + 1] = previous.ch
    BY <2>1, <2>2, InsertAtProperties
  <2> HIDE DEF after
  <2>4. CASE k = previous.pos + 1
    BY <1>1, <2>3, <2>4 DEF after
  <2>5. CASE k # previous.pos + 1
    <3> DEFINE j == IF k <= previous.pos THEN k ELSE k - 1
    <3>1. j \in 1 .. Len(txt) /\ k = IndexAfter(j, previous)
      <4>1. k \in 1 .. Len(txt) + 1
        BY <2>3 DEF after
      <4> QED
        BY <1>0, <1>1, <2>1, <2>5, <4>1 DEF IndexAfter
    <3>2. ~(previous.kind = "delete" /\ previous.pos + 1 = j)
      BY <1>1
    <3> HIDE DEF j
    <3>3. after[k] = txt[j]
      BY <3>1, <3>2, CharactersMove DEF after
    <3> QED
      BY <3>1, <3>2, <3>3 DEF after
  <2> QED
    BY <2>4, <2>5
<1>2. CASE previous.kind = "delete"
  <2>1. previous.pos + 1 \in 1 .. Len(txt)
    BY <1>0, <1>2 DEF InRange
  <2>2. after = RemoveAt(txt, previous.pos + 1)
    BY <1>0, <1>2, <2>1 DEF ApplyOperation
  <2>3. Len(after) = Len(txt) - 1
    BY <2>1, <2>2, RemoveAtProperties
  <2> HIDE DEF after
  <2> DEFINE j == IF k <= previous.pos THEN k ELSE k + 1
  <2>4. j \in 1 .. Len(txt) /\ k = IndexAfter(j, previous) /\ ~(previous.pos + 1 = j)
    <3>1. k \in 1 .. Len(txt) - 1
      BY <2>3 DEF after
    <3> QED
      BY <1>0, <1>2, <2>1, <3>1 DEF IndexAfter
  <2> HIDE DEF j
  <2>5. after[k] = txt[j]
    BY <2>4, CharactersMove DEF after
  <2> QED
    BY <2>4, <2>5 DEF after
<1>3. CASE previous.kind = "noop"
  BY <1>3 DEF ApplyOperation, IndexAfter
<1> QED
  BY <1>1, <1>2, <1>3 DEF Operation

\* No character is in the text twice.
Distinct(txt) == \A i, j \in 1 .. Len(txt) : txt[i] = txt[j] => i = j

\* The character of an insertion is in none of the text.
NewTo(txt, op) == op.kind = "insert" => \A i \in 1 .. Len(txt) : txt[i] # op.ch

\* Inserting new characters and deleting others never doubles one.
LEMMA StaysDistinct ==
  ASSUME NEW C, NEW txt \in Seq(C), NEW previous \in Operation(C), InRange(txt, previous),
         Distinct(txt), NewTo(txt, previous)
  PROVE  Distinct(ApplyOperation(txt, previous))
<1> DEFINE after == ApplyOperation(txt, previous)
           From(k, j) == /\ j \in 1 .. Len(txt)
                         /\ ~(previous.kind = "delete" /\ previous.pos + 1 = j)
                         /\ k = IndexAfter(j, previous)
                         /\ after[k] = txt[j]
           New(k) == previous.kind = "insert" /\ k = previous.pos + 1 /\ after[k] = previous.ch
<1>1. SUFFICES ASSUME NEW k \in 1 .. Len(after), NEW l \in 1 .. Len(after), after[k] = after[l]
               PROVE  k = l
  BY DEF Distinct
<1>c. ASSUME NEW m \in 1 .. Len(after)
      PROVE  New(m) \/ \E j : From(m, j)
  <2>1. \/ New(m)
        \/ \E j \in 1 .. Len(txt) : /\ ~(previous.kind = "delete" /\ previous.pos + 1 = j)
                                   /\ m = IndexAfter(j, previous)
                                   /\ after[m] = txt[j]
    BY CharactersCome
  <2> QED
    BY <2>1
<1>2. New(k) \/ \E j : From(k, j)
  BY <1>c
<1>3. New(l) \/ \E j : From(l, j)
  BY <1>c
<1> HIDE DEF after
<1>4. CASE New(k)
  BY <1>1, <1>3, <1>4 DEF NewTo
<1>5. CASE New(l)
  BY <1>1, <1>2, <1>5 DEF NewTo
<1>6. CASE (\E j : From(k, j)) /\ (\E j : From(l, j))
  BY <1>1, <1>6 DEF Distinct
<1> QED
  BY <1>2, <1>3, <1>4, <1>5, <1>6

-----------------------------------------------------------------------------

\* Of the characters of `now' that an author saw, those right before position
\* pos of what was seen are right before position q.
KeepsSides(seen, pos, now, q) ==
  \A i \in 1 .. Len(seen), j \in 1 .. Len(now) : seen[i] = now[j] => (i <= pos <=> j <= q)

\* One entry of the window: an insertion carried over it stays between the
\* characters its author saw (ts_transform_against).
LEMMA InsertionCarried ==
  ASSUME NEW C, NEW now \in Seq(C), NEW previous \in Operation(C), InRange(now, previous),
         NEW seen \in Seq(C), NewTo(seen, previous), NEW pos \in Nat,
         NEW op \in Operation(C), op.kind = "insert", KeepsSides(seen, pos, now, op.pos)
  PROVE  LET done == TransformAgainst(op, previous)
         IN  /\ done.kind = "insert" /\ done.ch = op.ch
             /\ KeepsSides(seen, pos, ApplyOperation(now, previous), done.pos)
<1> DEFINE done == TransformAgainst(op, previous)
           after == ApplyOperation(now, previous)
<1>1. done.kind = "insert" /\ done.ch = op.ch
  BY DEF TransformAgainst, Operation
<1>2. ASSUME NEW i \in 1 .. Len(seen), NEW k \in 1 .. Len(after), seen[i] = after[k]
      PROVE  i <= pos <=> k <= done.pos
  <2>1. PICK j \in 1 .. Len(now) : /\ ~(previous.kind = "delete" /\ previous.pos + 1 = j)
                                   /\ k = IndexAfter(j, previous)
                                   /\ after[k] = now[j]
    BY <1>2, CharactersCome DEF NewTo
  <2>2. j <= op.pos <=> k <= done.pos
    BY <2>1, InsertionKeepsItsPlace
  <2>3. i <= pos <=> j <= op.pos
    BY <1>2, <2>1 DEF KeepsSides
  <2> QED
    BY <2>2, <2>3
<1> QED
  BY <1>1, <1>2 DEF KeepsSides

\* A deletion that still removes the character c, or has become a noop because
\* c is gone.
AimsAt(op, now, c) ==
  \/ op.kind = "delete" /\ op.pos < Len(now) /\ now[op.pos + 1] = c
  \/ op.kind = "noop" /\ \A j \in 1 .. Len(now) : now[j] # c

\* One entry of the window: a deletion carried over it keeps its target, and
\* what has become a noop stays one (ts_transform_against).
LEMMA DeletionCarried ==
  ASSUME NEW C, NEW now \in Seq(C), NEW previous \in Operation(C), InRange(now, previous),
         Distinct(now), NEW c, previous.kind = "insert" => previous.ch # c,
         NEW op \in Operation(C), AimsAt(op, now, c)
  PROVE  AimsAt(TransformAgainst(op, previous), ApplyOperation(now, previous), c)
<1> DEFINE done == TransformAgainst(op, previous)
           after == ApplyOperation(now, previous)
<1>0. op.pos \in Nat /\ previous.pos \in Nat /\ Len(now) \in Nat
  BY DEF Operation
<1>1. CASE op.kind = "noop"
  <2>1. done = op
    BY <1>1 DEF TransformAgainst
  <2>2. ASSUME NEW k \in 1 .. Len(after)
        PROVE  after[k] # c
    BY <1>1, CharactersCome DEF AimsAt
  <2> QED
    BY <1>1, <2>1, <2>2 DEF AimsAt
<1>2. CASE op.kind = "delete" /\ previous.kind = "delete" /\ previous.pos = op.pos
  <2>1. done.kind = "noop"
    BY <1>2 DEF TransformAgainst, NoopOp
  <2>2. now[op.pos + 1] = c /\ op.pos + 1 \in 1 .. Len(now)
    BY <1>0, <1>2 DEF AimsAt
  <2>3. ASSUME NEW k \in 1 .. Len(after)
        PROVE  after[k] # c
    <3>1. PICK j \in 1 .. Len(now) : j # op.pos + 1 /\ after[k] = now[j]
      BY <1>2, CharactersCome
    <3> QED
      BY <2>2, <3>1 DEF Distinct
  <2> QED
    BY <2>1, <2>3 DEF AimsAt
<1>3. CASE op.kind = "delete" /\ ~(previous.kind = "delete" /\ previous.pos = op.pos)
  <2>1. op.pos < Len(now) /\ now[op.pos + 1] = c
    BY <1>3 DEF AimsAt
  <2>2. done.kind = "delete" /\ done.pos + 1 \in 1 .. Len(after) /\ after[done.pos + 1] = c
    BY <1>3, <2>1, DeletionKeepsItsTarget
  <2>3. Len(after) \in Nat
    BY ApplyOperationType
  <2>4. done.pos \in Nat
    BY TransformAgainstType DEF Operation
  <2> HIDE DEF done, after
  <2>5. done.pos < Len(after)
    BY <2>2, <2>3, <2>4
  <2> QED
    BY <2>2, <2>5 DEF AimsAt, done, after
<1> QED
  BY <1>1, <1>2, <1>3 DEF AimsAt

\* A deletion behind the end of the text.
AimsAtNothing(op, now) == op.kind = "delete" /\ op.pos >= Len(now)

\* One entry of the window: what aimed at nothing does so afterwards
\* (ts_transform_against).
LEMMA NothingCarried ==
  ASSUME NEW C, NEW now \in Seq(C), NEW previous \in Operation(C), InRange(now, previous),
         NEW op \in Operation(C), AimsAtNothing(op, now)
  PROVE  AimsAtNothing(TransformAgainst(op, previous), ApplyOperation(now, previous))
<1> DEFINE done == TransformAgainst(op, previous)
           after == ApplyOperation(now, previous)
<1>0. op.pos \in Nat /\ previous.pos \in Nat /\ Len(now) \in Nat
  BY DEF Operation
<1>1. CASE previous.kind = "insert"
  <2>1. previous.ch \in C /\ previous.pos + 1 \in 1 .. Len(now) + 1
    BY <1>0, <1>1 DEF Operation, InRange
  <2>2. after = InsertAt(now, previous.pos + 1, previous.ch)
    BY <1>0, <1>1, <2>1 DEF ApplyOperation, Clamp
  <2>3. Len(after) = Len(now) + 1
    BY <2>1, <2>2, InsertAtProperties
  <2>4. done.kind = "delete" /\ done.pos = op.pos + 1
    BY <1>0, <1>1, <2>1 DEF TransformAgainst, Shift, AimsAtNothing, Operation
  <2> HIDE DEF done, after
  <2> QED
    BY <1>0, <2>3, <2>4 DEF AimsAtNothing, done, after
<1>2. CASE previous.kind = "delete"
  <2>1. previous.pos + 1 \in 1 .. Len(now)
    BY <1>0, <1>2 DEF InRange
  <2>2. after = RemoveAt(now, previous.pos + 1)
    BY <1>0, <1>2, <2>1 DEF ApplyOperation
  <2>3. Len(after) = Len(now) - 1
    BY <2>1, <2>2, RemoveAtProperties
  <2>4. done.kind = "delete" /\ done.pos = op.pos - 1
    BY <1>0, <1>2, <2>1 DEF TransformAgainst, Shift, AimsAtNothing, Operation
  <2> HIDE DEF done, after
  <2> QED
    BY <1>0, <2>3, <2>4 DEF AimsAtNothing, done, after
<1>3. CASE previous.kind = "noop"
  BY <1>0, <1>3 DEF ApplyOperation, TransformAgainst, Shift, AimsAtNothing, Operation
<1> QED
  BY <1>1, <1>2, <1>3 DEF Operation

-----------------------------------------------------------------------------

\* The loop over the window, one operation after every entry: induction over
\* the entries, twice, since the recursive function `done' has to be shown to
\* exist before it can be shown to hold operations.
LEMMA TransformedSteps ==
  ASSUME history \in Seq(Entry), NEW op \in Operation(Char), NEW base \in Int
  PROVE  \E done \in [0 .. Len(history) -> Operation(Char)] :
           /\ done[0] = op
           /\ \A i \in 1 .. Len(history) :
                done[i] = IF history[i].version > base THEN TransformAgainst(done[i - 1], history[i].op)
                                                       ELSE done[i - 1]
           /\ Transformed(op, base) = done[Len(history)]
<1> DEFINE n == Len(history)
           Step(x, i) == IF history[i].version > base THEN TransformAgainst(x, history[i].op) ELSE x
           Rec(f) == f = [i \in 0 .. n |->
                            IF i = 0 THEN op
                            ELSE IF history[i].version > base THEN TransformAgainst(f[i - 1], history[i].op)
                            ELSE f[i - 1]]
<1>1. n \in Nat
  OBVIOUS
<1>2. ASSUME NEW x \in Operation(Char), NEW i \in 1 .. n
      PROVE  Step(x, i) \in Operation(Char)
  <2>1. history[i] \in Entry
    BY ElementOfSeq
  <2>2. history[i].op \in Operation(Char)
    BY <2>1 DEF Entry
  <2> QED
    BY <2>2, TransformAgainstType
<1>3. \E f : Rec(f)
  <2> DEFINE Stages(f, m) == /\ f \in [0 .. m -> Operation(Char)]
                             /\ f[0] = op
                             /\ \A i \in 1 .. m : f[i] = Step(f[i - 1], i)
             S == {m \in Nat : m <= n => \E f : Stages(f, m)}
  <2> HIDE DEF Step
  <2>1. 0 \in S
    <3>1. Stages([i \in 0 .. 0 |-> op], 0)
      OBVIOUS
    <3> QED
      BY <3>1
  <2>2. ASSUME NEW m \in Nat, m \in S
        PROVE  m + 1 \in S
    <3>1. SUFFICES ASSUME m + 1 <= n
                   PROVE  \E f : Stages(f, m + 1)
      OBVIOUS
    <3>2. PICK f : Stages(f, m)
      BY <1>1, <2>2, <3>1
    <3> DEFINE g == [i \in 0 .. m + 1 |-> IF i <= m THEN f[i] ELSE Step(f[m], m + 1)]
    <3>3. Step(f[m], m + 1) \in Operation(Char)
      BY <1>1, <1>2, <3>1, <3>2
    <3>4. g \in [0 .. m + 1 -> Operation(Char)] /\ g[0] = op
      BY <3>2, <3>3
    <3>5. \A i \in 1 .. m + 1 : g[i] = Step(g[i - 1], i)
      <4> TAKE i \in 1 .. m + 1
      <4>1. CASE i <= m
        BY <3>2, <4>1
      <4>2. CASE i = m + 1
        BY <3>2, <4>2
      <4> QED
        BY <4>1, <4>2
    <3> QED
      BY <3>4, <3>5
  <2> HIDE DEF S
  <2>3. n \in S
    BY <1>1, <2>1, <2>2, NatSetInduction
  <2> USE DEF S
  <2>4. PICK f : Stages(f, n)
    BY <1>1, <2>3
  <2>5. f = [i \in 0 .. n |-> IF i = 0 THEN op ELSE Step(f[i - 1], i)]
    BY <1>1, <2>4
  <2>6. Rec(f)
    BY <2>5 DEF Step
  <2> QED
    BY <2>6
<1> DEFINE done == CHOOSE f : Rec(f)
<1>4. Transformed(op, base) = done[n]
  BY DEF Transformed
<1> HIDE DEF Rec
<1>5. Rec(done)
  BY <1>3
<1> HIDE DEF done
<1>6. done = [i \in 0 .. n |-> IF i = 0 THEN op ELSE Step(done[i - 1], i)]
  BY <1>5 DEF Rec
<1>7. done[0] = op /\ \A i \in 1 .. n : done[i] = Step(done[i - 1], i)
  <2> HIDE DEF Step, n
  <2> QED
    BY <1>1, <1>6
<1>8. \A i \in 0 .. n : done[i] \in Operation(Char)
  <2> DEFINE S == {i \in Nat : i <= n => done[i] \in Operation(Char)}
  <2> HIDE DEF Step, n
  <2>1. 0 \in S
    BY <1>7
  <2>2. ASSUME NEW i \in Nat, i \in S
        PROVE  i + 1 \in S
    BY <1>1, <1>2, <1>7, <2>2
  <2> HIDE DEF S
  <2>3. Nat \subseteq S
    BY <2>1, <2>2, NatSetInduction
  <2> QED
    BY <1>1, <2>3 DEF S
<1>9. done \in [0 .. n -> Operation(Char)]
  <2> HIDE DEF Step, n
  <2> QED
    BY <1>6, <1>8
<1> QED
  BY <1>4, <1>7, <1>9

\* Carrying an operation over the window makes an operation of it.
LEMMA TransformedType ==
  ASSUME history \in Seq(Entry), NEW op \in Operation(Char), NEW base \in Int
  PROVE  Transformed(op, base) \in Operation(Char)
<1>1. PICK done \in [0 .. Len(history) -> Operation(Char)] : Transformed(op, base) = done[Len(history)]
  BY TransformedSteps
<1>2. Len(history) \in 0 .. Len(history)
  OBVIOUS
<1> QED
  BY <1>1, <1>2

\* An insertion is carried over as an insertion: only a deletion becomes void
\* (ts_transform_against, normalize_for_apply).
LEMMA InsertionStays ==
  ASSUME history \in Seq(Entry), NEW op \in Operation(Char), op.kind = "insert", NEW base \in Int
  PROVE  NormalizeForApply(text, Transformed(op, base)).kind = "insert"
<1> DEFINE n == Len(history)
<1>1. PICK done \in [0 .. n -> Operation(Char)] :
        /\ done[0] = op
        /\ \A i \in 1 .. n :
             done[i] = IF history[i].version > base THEN TransformAgainst(done[i - 1], history[i].op)
                                                    ELSE done[i - 1]
        /\ Transformed(op, base) = done[n]
  BY TransformedSteps
<1>2. n \in Nat
  OBVIOUS
<1> HIDE DEF n
<1>3. \A o \in Operation(Char) : \A previous :
        o.kind = "insert" => TransformAgainst(o, previous).kind = "insert"
  <2> SUFFICES ASSUME NEW o \in Operation(Char), NEW previous, o.kind = "insert"
               PROVE  TransformAgainst(o, previous).kind = "insert"
    OBVIOUS
  <2> DEFINE shift == Shift(o, previous)
  <2>1. TransformAgainst(o, previous) = [o EXCEPT !.pos = @ + shift]
    BY DEF TransformAgainst
  <2> HIDE DEF shift
  <2> QED
    BY <2>1 DEF Operation
<1> DEFINE S == {i \in Nat : i <= n => done[i].kind = "insert"}
<1>4. 0 \in S
  BY <1>1
<1>5. ASSUME NEW i \in Nat, i \in S
      PROVE  i + 1 \in S
  <2>1. SUFFICES ASSUME i + 1 <= n PROVE done[i + 1].kind = "insert"
    OBVIOUS
  <2> DEFINE k == i + 1
  <2>2. k \in 1 .. n /\ k - 1 = i /\ i \in 0 .. n /\ done[i].kind = "insert"
    BY <1>2, <1>5, <2>1
  <2> HIDE DEF k
  <2>3. done[k].kind = "insert"
    BY <1>1, <1>3, <2>2
  <2> QED
    BY <2>3 DEF k
<1> HIDE DEF S
<1>6. n \in S
  BY <1>2, <1>4, <1>5, NatSetInduction
<1>7. Transformed(op, base).kind = "insert" /\ Transformed(op, base) \in Operation(Char)
  BY <1>1, <1>2, <1>6 DEF S
<1> QED
  BY <1>7 DEF NormalizeForApply, Operation

-----------------------------------------------------------------------------

\* What accepting an operation does to the variables other than the window.
LEMMA AcceptFacts ==
  ASSUME TypeOK, NEW id \in OpIds, NEW base \in Int, NEW op \in Operation(Char), Accept(id, base, op)
  PROVE  \E entry \in Entry :
           /\ base \in Nat
           /\ entry.version = version + 1 /\ entry.id = id
           /\ InRange(text, entry.op)
           /\ version' = version + 1
           /\ text' = ApplyOperation(text, entry.op)
           /\ text' \in Seq(Char)
           /\ AppendHistory(entry)
           /\ log' = Append(log, entry)
           /\ past' = Append(past, text')
           /\ refused' = refused
<1> DEFINE done == NormalizeForApply(text, Transformed(op, base))
           entry == [version |-> version + 1, id |-> id, base |-> base, original |-> op, op |-> done]
<1>1. Transformed(op, base) \in Operation(Char)
  BY TransformedType DEF TypeOK
<1>2. done \in Operation(Char) /\ InRange(text, done)
  BY <1>1, NormalizedIsInRange DEF TypeOK
<1>3. /\ version' = version + 1
      /\ text' = ApplyOperation(text, done)
      /\ AppendHistory(entry)
      /\ log' = Append(log, entry)
      /\ past' = Append(past, text')
      /\ refused' = refused
  BY DEF Accept
<1>4. base \in Nat
  BY DEF Accept, InWindow, TypeOK
<1> HIDE DEF done
<1>5. entry \in Entry /\ entry.version = version + 1 /\ entry.id = id /\ entry.op = done
  BY <1>2, <1>4 DEF Entry, TypeOK
<1> HIDE DEF entry
<1>6. text' \in Seq(Char)
  BY <1>2, <1>3, ApplyOperationType DEF TypeOK
<1> QED
  BY <1>2, <1>3, <1>4, <1>5, <1>6

\* A step of the document accepts or refuses one operation.
LEMMA NextCases ==
  ASSUME TypeOK, Next
  PROVE  \E id \in OpIds, base \in Int, op \in Operation(Char) :
           Accept(id, base, op) \/ Refuse(id, base)
<1>1. PICK id \in OpIds, base \in -1 .. version + 1 :
        \E op \in Submission(id) : ProcessOperation(id, base, op)
  BY DEF Next
<1>0. PICK op \in Submission(id) : ProcessOperation(id, base, op)
  BY <1>1
<1>2. op \in Operation(Char)
  BY PositionsAssumption DEF Submission, InsertOp, DeleteOp, Operation, Char
<1>3. base \in Int
  BY DEF TypeOK
<1> QED
  BY <1>0, <1>2, <1>3 DEF ProcessOperation

-----------------------------------------------------------------------------

\* HistoryWindow says that the window is the end of the log; with the types it
\* is inductive: dropping the oldest entry and reading history_start_version
\* off the next one moves both ends of the window by one.
WindowInv == TypeOK /\ HistoryWindow

\* The history's newest entries, without its m oldest.
LEMMA EndOfSequence ==
  ASSUME NEW S, NEW s \in Seq(S), NEW m \in Nat, m <= Len(s)
  PROVE  LET end == SubSeq(s, m + 1, Len(s))
         IN  /\ end \in Seq(S)
             /\ Len(end) = Len(s) - m
             /\ \A i \in 1 .. Len(end) : end[i] = s[m + i]
<1> DEFINE end == SubSeq(s, m + 1, Len(s))
<1>1. m + 1 \in Int /\ Len(s) \in Int
  OBVIOUS
<1>2. \A i \in m + 1 .. Len(s) : s[i] \in S
  BY ElementOfSeq
<1>3. /\ end \in Seq(S)
      /\ Len(end) = IF m + 1 <= Len(s) THEN Len(s) - (m + 1) + 1 ELSE 0
      /\ \A i \in 1 .. Len(s) - (m + 1) + 1 : end[i] = s[m + 1 + i - 1]
  BY <1>1, <1>2, SubSeqProperties
<1> HIDE DEF end
<1> QED
  BY <1>1, <1>3 DEF end

\* The step of the window, alone: it is the end of the longer log.
LEMMA WindowSlides ==
  ASSUME WindowInv, NEW entry \in Entry, entry.version = version + 1,
         version' = version + 1, AppendHistory(entry), log' = Append(log, entry)
  PROVE  /\ historyStart' \in Nat
         /\ history' \in Seq(Entry)
         /\ log' \in Seq(Entry)
         /\ HistoryWindow'
<1> USE DEF WindowInv
<1> DEFINE kept == IF Len(history) = HistoryLimit THEN Tail(history) ELSE history
           start == IF Len(history) = HistoryLimit THEN historyStart + 1 ELSE historyStart
<1>0. /\ version \in Nat /\ historyStart \in Nat /\ HistoryLimit \in Nat \ {0}
      /\ history \in Seq(Entry) /\ log \in Seq(Entry)
      /\ version = Len(log)
      /\ Len(history) <= HistoryLimit
      /\ historyStart + Len(history) = version
      /\ history = SubSeq(log, historyStart + 1, version)
      /\ \A v \in 1 .. version : log[v].version = v
  BY HistoryLimitAssumption DEF TypeOK, HistoryWindow
<1>1. Len(history) \in Nat /\ \A i \in 1 .. Len(history) : history[i] = log[historyStart + i]
  <2> HIDE DEF kept, start, WindowInv
  <2>1. /\ log \in Seq(Entry) /\ historyStart \in Nat /\ historyStart <= Len(log)
        /\ history = SubSeq(log, historyStart + 1, Len(log))
    <3>1. version = Len(log) /\ historyStart + Len(history) = version
      BY <1>0
    <3>2. historyStart \in Nat /\ Len(history) \in Nat
      BY <1>0
    <3>3. historyStart <= version
      BY <3>1, <3>2
    <3> QED
      BY <1>0, <3>1, <3>3
  <2> DEFINE end == SubSeq(log, historyStart + 1, Len(log))
  <2>2. /\ end \in Seq(Entry)
        /\ \A i \in 1 .. Len(end) : end[i] = log[historyStart + i]
    BY <2>1, EndOfSequence
  <2>3. history = end
    BY <2>1
  <2> HIDE DEF end
  <2>4. Len(history) \in Nat
    BY <1>0
  <2> QED
    BY <2>2, <2>3, <2>4
<1>2. /\ kept \in Seq(Entry)
      /\ Len(kept) < HistoryLimit
      /\ start \in Nat
      /\ start + Len(kept) = version
      /\ \A i \in 1 .. Len(kept) : kept[i] = log[start + i]
  <2>1. CASE Len(history) = HistoryLimit
    <3>1. history # <<>>
      BY <1>0, <2>1
    <3>2. /\ Tail(history) \in Seq(Entry)
          /\ Len(Tail(history)) = Len(history) - 1
          /\ \A i \in 1 .. Len(Tail(history)) : Tail(history)[i] = history[i + 1]
      BY <1>0, <3>1, HeadTailProperties
    <3>3. kept = Tail(history) /\ start = historyStart + 1
      BY <2>1
    <3> HIDE DEF kept, start
    <3>4. Len(kept) < HistoryLimit /\ start \in Nat /\ start + Len(kept) = version
      <4>1. Len(kept) = Len(history) - 1
        BY <3>2, <3>3
      <4>2. start = historyStart + 1
        BY <3>3
      <4>3. Len(history) = HistoryLimit /\ Len(history) \in Nat /\ historyStart \in Nat
        BY <1>0, <1>1, <2>1
      <4>4. historyStart + Len(history) = version
        BY <1>0
      <4> QED
        BY <4>1, <4>2, <4>3, <4>4
    <3>5. \A i \in 1 .. Len(kept) : kept[i] = log[start + i]
      <4> TAKE i \in 1 .. Len(kept)
      <4>1. i + 1 \in 1 .. Len(history) /\ historyStart + (i + 1) = start + i
        BY <1>0, <1>1, <3>2, <3>3
      <4>2. kept[i] = history[i + 1]
        BY <3>2, <3>3
      <4> QED
        BY <1>1, <4>1, <4>2
    <3> QED
      BY <3>2, <3>3, <3>4, <3>5
  <2>2. CASE Len(history) # HistoryLimit
    BY <1>0, <1>1, <2>2
  <2> QED
    BY <2>1, <2>2
<1>3. history' = Append(kept, entry) /\ historyStart' = Head(history').version - 1
  BY DEF AppendHistory
<1> HIDE DEF kept, start
<1>4. /\ history' \in Seq(Entry)
      /\ Len(history') = Len(kept) + 1
      /\ \A i \in 1 .. Len(kept) : history'[i] = kept[i]
      /\ history'[Len(kept) + 1] = entry
  BY <1>2, <1>3, AppendProperties
<1>5. /\ log' \in Seq(Entry)
      /\ Len(log') = version + 1
      /\ \A i \in 1 .. version : log'[i] = log[i]
      /\ log'[version + 1] = entry
  BY <1>0, AppendProperties
<1>6. \A v \in 1 .. version' : log'[v].version = v
  BY <1>0, <1>5
<1>7. \A i \in 1 .. Len(history') : history'[i] = log'[start + i]
  <2> TAKE i \in 1 .. Len(history')
  <2>0. Len(kept) \in Nat
    BY <1>2
  <2>1. CASE i <= Len(kept)
    <3>1. start + i \in 1 .. version
      BY <1>0, <1>2, <2>0, <2>1
    <3> QED
      BY <1>2, <1>4, <1>5, <2>0, <2>1, <3>1
  <2>2. CASE i = Len(kept) + 1
    BY <1>2, <1>4, <1>5, <2>0, <2>2
  <2>3. i <= Len(kept) \/ i = Len(kept) + 1
    BY <1>4, <2>0
  <2> QED
    BY <2>1, <2>2, <2>3
<1>8. historyStart' = start
  <2>0. Len(kept) \in Nat
    BY <1>2
  <2>1. Head(history') = history'[1]
    BY <1>4, <2>0
  <2>2. 1 \in 1 .. Len(history') /\ start + 1 \in 1 .. version'
    BY <1>0, <1>2, <1>4, <2>0
  <2>3. history'[1].version = start + 1
    BY <1>6, <1>7, <2>2
  <2> QED
    BY <1>2, <1>3, <2>1, <2>3
<1>9. history' = SubSeq(log', historyStart' + 1, version')
  <2> DEFINE window == SubSeq(log', start + 1, Len(log'))
  <2>1. start <= Len(log') /\ Len(history') = Len(log') - start
    BY <1>0, <1>2, <1>4, <1>5
  <2>2. /\ window \in Seq(Entry)
        /\ Len(window) = Len(log') - start
        /\ \A i \in 1 .. Len(window) : window[i] = log'[start + i]
    BY <1>2, <1>5, <2>1, EndOfSequence
  <2> HIDE DEF window
  <2>3. \A i \in 1 .. Len(window) : window[i] = history'[i]
    BY <1>7, <2>1, <2>2
  <2>4. window = history'
    BY <1>4, <2>1, <2>2, <2>3, SeqEqual
  <2> QED
    BY <1>5, <1>8, <2>4 DEF window
<1>10. version' = Len(log') /\ Len(history') <= HistoryLimit /\ historyStart' + Len(history') = version'
  <2>1. Len(kept) \in Nat
    BY <1>2
  <2> QED
    BY <1>0, <1>2, <1>4, <1>5, <1>8, <2>1
<1>11. HistoryWindow'
  BY <1>6, <1>9, <1>10 DEF HistoryWindow
<1> QED
  BY <1>2, <1>4, <1>5, <1>8, <1>11

-----------------------------------------------------------------------------

\* A document that was just initialised has an empty history
\* (ts_document_init).
LEMMA InitType ==
  ASSUME Init
  PROVE  WindowInv
<1>1. TypeOK
  BY InitialTextAssumption DEF Init, TypeOK
<1>2. HistoryWindow
  BY <1>1, HistoryLimitAssumption, SubSeqProperties DEF Init, HistoryWindow
<1> QED
  BY <1>1, <1>2 DEF WindowInv

\* An accepted operation moves the window by one version
\* (ts_document_process_operation).
LEMMA WindowAccept ==
  ASSUME WindowInv, NEW id \in OpIds, NEW base \in Int, NEW op \in Operation(Char), Accept(id, base, op)
  PROVE  WindowInv'
<1>1. PICK entry \in Entry :
        /\ entry.version = version + 1
        /\ version' = version + 1
        /\ text' \in Seq(Char)
        /\ AppendHistory(entry)
        /\ log' = Append(log, entry)
        /\ past' = Append(past, text')
        /\ refused' = refused
  BY AcceptFacts DEF WindowInv
<1>2. /\ historyStart' \in Nat /\ history' \in Seq(Entry) /\ log' \in Seq(Entry)
      /\ HistoryWindow'
  BY <1>1, WindowSlides
<1>3. past' \in Seq(Seq(Char))
  BY <1>1, AppendProperties DEF WindowInv, TypeOK
<1> QED
  BY <1>1, <1>2, <1>3 DEF WindowInv, TypeOK

\* A refused operation leaves the window where it is.
LEMMA WindowStep ==
  ASSUME WindowInv, [Next]_vars
  PROVE  WindowInv'
<1>1. CASE UNCHANGED vars
  BY <1>1 DEF WindowInv, TypeOK, HistoryWindow, vars
<1>2. CASE Next
  <2>1. PICK id \in OpIds, base \in Int, op \in Operation(Char) :
          Accept(id, base, op) \/ Refuse(id, base)
    BY <1>2, NextCases DEF WindowInv
  <2>2. CASE Accept(id, base, op)
    BY <2>2, WindowAccept
  <2>3. CASE Refuse(id, base)
    BY <2>3 DEF Refuse, WindowInv, TypeOK, HistoryWindow
  <2> QED
    BY <2>1, <2>2, <2>3
<1> QED
  BY <1>1, <1>2 DEF vars

\* The history is the window of the newest versions, whatever is submitted and
\* at which base version (ts_document_process_operation,
\* append_history).
THEOREM WindowInvariant == Spec => []WindowInv
<1>1. Init => WindowInv
  BY InitType
<1>2. WindowInv /\ [Next]_vars => WindowInv'
  BY WindowStep
<1> QED
  BY <1>1, <1>2, PTL DEF Spec

\* Whatever operations clients send, the text stays a sequence of inserted or
\* initial characters and every recorded operation is one a client can apply
\* (ts_document_process_operation).
THEOREM TypeCorrect == Spec => []TypeOK
<1>1. WindowInv => TypeOK
  BY DEF WindowInv
<1> QED
  BY <1>1, WindowInvariant, PTL

\* For every window size: an operation whose base the guard lets through is
\* transformed against all the operations accepted after that base, none of
\* them dropped by the sliding of the window (append_history).
THEOREM WindowCorrect == Spec => []HistoryWindow
<1>1. WindowInv => HistoryWindow
  BY DEF WindowInv
<1> QED
  BY <1>1, WindowInvariant, PTL

-----------------------------------------------------------------------------

\* The recorded operations rebuild the text; it needs the log to be as long as
\* the version, which the window invariant has.
ReplayInv == WindowInv /\ ReplayableHistory

\* An accepted operation is recorded in the form in which it was applied: it
\* makes the new text out of the old one.
LEMMA ReplayAccept ==
  ASSUME ReplayInv, NEW id \in OpIds, NEW base \in Int, NEW op \in Operation(Char), Accept(id, base, op)
  PROVE  ReplayableHistory'
<1>1. PICK entry \in Entry :
        /\ InRange(text, entry.op)
        /\ version' = version + 1
        /\ text' = ApplyOperation(text, entry.op)
        /\ text' \in Seq(Char)
        /\ log' = Append(log, entry)
        /\ past' = Append(past, text')
  BY AcceptFacts DEF ReplayInv, WindowInv
<1>2. /\ version \in Nat /\ version = Len(log) /\ Len(past) = version + 1
      /\ log \in Seq(Entry) /\ past \in Seq(Seq(Char))
      /\ past[version + 1] = text
      /\ \A v \in 1 .. version : /\ InRange(past[v], log[v].op)
                                 /\ past[v + 1] = ApplyOperation(past[v], log[v].op)
  BY DEF ReplayInv, WindowInv, TypeOK, HistoryWindow, ReplayableHistory
<1>3. /\ \A v \in 1 .. version : log'[v] = log[v]
      /\ log'[version + 1] = entry
  BY <1>1, <1>2, AppendProperties
<1>4. /\ Len(past') = version + 2
      /\ \A v \in 1 .. version + 1 : past'[v] = past[v]
      /\ past'[version + 2] = text'
  BY <1>1, <1>2, AppendProperties
<1>5. ASSUME NEW v \in 1 .. version'
      PROVE  /\ InRange(past'[v], log'[v].op)
             /\ past'[v + 1] = ApplyOperation(past'[v], log'[v].op)
  <2>1. CASE v <= version
    BY <1>1, <1>2, <1>3, <1>4, <2>1
  <2>2. CASE v = version + 1
    BY <1>1, <1>2, <1>3, <1>4, <2>2
  <2> QED
    BY <1>1, <1>2, <2>1, <2>2
<1>6. Len(past') = version' + 1 /\ past'[version' + 1] = text'
  BY <1>1, <1>2, <1>4
<1> QED
  BY <1>5, <1>6 DEF ReplayableHistory

\* The entries that were recorded before replay as they did.
LEMMA ReplayStep ==
  ASSUME ReplayInv, [Next]_vars
  PROVE  ReplayableHistory'
<1>1. CASE UNCHANGED vars
  BY <1>1 DEF ReplayInv, ReplayableHistory, vars
<1>2. CASE Next
  <2>1. PICK id \in OpIds, base \in Int, op \in Operation(Char) :
          Accept(id, base, op) \/ Refuse(id, base)
    BY <1>2, NextCases DEF ReplayInv, WindowInv
  <2>2. CASE Accept(id, base, op)
    BY <2>2, ReplayAccept
  <2>3. CASE Refuse(id, base)
    BY <2>3 DEF Refuse, ReplayInv, ReplayableHistory
  <2> QED
    BY <2>1, <2>2, <2>3
<1> QED
  BY <1>1, <1>2 DEF vars

\* Accepting an operation, for whoever calls ts_document_process_operation.
LEMMA AcceptKeeps ==
  ASSUME ReplayInv, NEW id \in OpIds, NEW base \in Int, NEW op \in Operation(Char), Accept(id, base, op)
  PROVE  /\ ReplayInv'
         /\ version' = version + 1
         /\ \A v \in 1 .. version : log'[v] = log[v]
         /\ \A v \in 1 .. version + 1 : past'[v] = past[v]
         /\ log'[version + 1] \in Entry /\ log'[version + 1].id = id
         /\ refused' = refused
<1>1. PICK entry \in Entry :
        /\ entry.id = id
        /\ text' \in Seq(Char)
        /\ version' = version + 1
        /\ log' = Append(log, entry)
        /\ past' = Append(past, text')
        /\ refused' = refused
  BY AcceptFacts DEF ReplayInv, WindowInv
<1>2. /\ version \in Nat /\ version = Len(log) /\ Len(past) = version + 1
      /\ log \in Seq(Entry) /\ past \in Seq(Seq(Char))
  BY DEF ReplayInv, WindowInv, TypeOK, HistoryWindow, ReplayableHistory
<1>3. /\ \A v \in 1 .. version : log'[v] = log[v]
      /\ log'[version + 1] = entry
  BY <1>1, <1>2, AppendProperties
<1>4. \A v \in 1 .. version + 1 : past'[v] = past[v]
  BY <1>1, <1>2, AppendProperties
<1>5. ReplayInv'
  BY WindowAccept, ReplayAccept DEF ReplayInv
<1> QED
  BY <1>1, <1>3, <1>4, <1>5

\* A refused operation changes neither the text nor the history.
LEMMA RefuseKeeps ==
  ASSUME ReplayInv, NEW id \in OpIds, NEW base, Refuse(id, base)
  PROVE  ReplayInv'
BY DEF Refuse, ReplayInv, WindowInv, TypeOK, HistoryWindow, ReplayableHistory

\* Every operation is recorded as it was applied and inside its text, so a
\* client at any version that applies the recorded operations after it reaches
\* the server's text (normalize_for_apply, append_history).
THEOREM ReplayCorrect == Spec => []ReplayableHistory
<1>1. Init => ReplayInv
  <2>1. Init => ReplayableHistory
    BY DEF Init, ReplayableHistory
  <2> QED
    BY <2>1, InitType DEF ReplayInv
<1>2. ReplayInv /\ [Next]_vars => ReplayInv'
  BY ReplayStep, WindowStep DEF ReplayInv
<1>3. ReplayInv => ReplayableHistory
  BY DEF ReplayInv
<1> QED
  BY <1>1, <1>2, <1>3, PTL DEF Spec

-----------------------------------------------------------------------------

\* The entries of the window are the last of the log (append_history).
LEMMA WindowEntries ==
  ASSUME WindowInv
  PROVE  /\ historyStart \in Nat /\ version \in Nat /\ Len(history) = version - historyStart
         /\ historyStart <= version
         /\ \A i \in 1 .. Len(history) : history[i] = log[historyStart + i] /\ history[i].version = historyStart + i
<1>1. /\ historyStart \in Nat /\ version \in Nat /\ Len(history) \in Nat /\ log \in Seq(Entry)
      /\ version = Len(log) /\ historyStart + Len(history) = version
      /\ history = SubSeq(log, historyStart + 1, version)
      /\ \A v \in 1 .. version : log[v].version = v
  <2>1. history \in Seq(Entry) /\ log \in Seq(Entry) /\ historyStart \in Nat /\ version \in Nat
    BY DEF WindowInv, TypeOK
  <2>2. Len(history) \in Nat
    BY <2>1
  <2> QED
    BY <2>1, <2>2 DEF WindowInv, HistoryWindow
<1>2. historyStart <= version /\ Len(history) = version - historyStart
  BY <1>1
<1> DEFINE end == SubSeq(log, historyStart + 1, Len(log))
<1>3. \A i \in 1 .. Len(end) : end[i] = log[historyStart + i]
  BY <1>1, <1>2, EndOfSequence
<1>4. history = end
  BY <1>1
<1> HIDE DEF end
<1>5. ASSUME NEW i \in 1 .. Len(history)
      PROVE  history[i] = log[historyStart + i] /\ history[i].version = historyStart + i
  <2>1. historyStart + i \in 1 .. version
    BY <1>1, <1>2
  <2> QED
    BY <1>1, <1>3, <1>4, <2>1
<1> QED
  BY <1>1, <1>2, <1>5

\* Whatever one entry of the log keeps, all the entries since `base' keep: the
\* loop over the window leaves none of them out (ts_document_process_operation).
\* G holds the pairs of a version and an operation carried to it.
LEMMA CarriedOver ==
  ASSUME WindowInv, NEW op \in Operation(Char), NEW base \in Int, InWindow(base),
         NEW G, <<base, op>> \in G,
         \A v \in base + 1 .. version, o \in Operation(Char) :
           <<v - 1, o>> \in G => <<v, TransformAgainst(o, log[v].op)>> \in G
  PROVE  <<version, Transformed(op, base)>> \in G
<1>1. PICK done \in [0 .. Len(history) -> Operation(Char)] :
        /\ done[0] = op
        /\ \A i \in 1 .. Len(history) :
             done[i] = IF history[i].version > base THEN TransformAgainst(done[i - 1], history[i].op)
                                                    ELSE done[i - 1]
        /\ Transformed(op, base) = done[Len(history)]
  <2>1. history \in Seq(Entry)
    BY DEF WindowInv, TypeOK
  <2> QED
    BY <2>1, TransformedSteps
<1>2. /\ historyStart \in Nat /\ version \in Nat /\ Len(history) = version - historyStart
      /\ \A i \in 1 .. Len(history) : history[i] = log[historyStart + i] /\ history[i].version = historyStart + i
      /\ historyStart <= base /\ base <= version
  BY WindowEntries DEF InWindow
<1> DEFINE n == Len(history)
           m == base - historyStart
           Older == {i \in Nat : i <= m => done[i] = op}
           Newer == {d \in Nat : m + d <= n => <<base + d, done[m + d]>> \in G}
<1>3. n \in Nat /\ m \in 0 .. n /\ historyStart + m = base /\ historyStart + n = version
  BY <1>2
<1> HIDE DEF n, m
<1>4. 0 \in Older
  BY <1>1
<1>5. ASSUME NEW i \in Nat, i \in Older
      PROVE  i + 1 \in Older
  <2>1. SUFFICES ASSUME i + 1 <= m
                 PROVE  done[i + 1] = op
    OBVIOUS
  <2>2. i + 1 \in 1 .. n /\ ~(historyStart + (i + 1) > base)
    BY <1>2, <1>3, <2>1
  <2>3. done[i + 1] = done[i]
    <3> DEFINE k == i + 1
    <3>1. k \in 1 .. n /\ ~(historyStart + k > base) /\ k - 1 = i
      BY <2>2
    <3> HIDE DEF k
    <3>2. ~(history[k].version > base)
      BY <1>2, <3>1 DEF n
    <3>3. done[k] = done[i]
      BY <1>1, <3>1, <3>2 DEF n
    <3> QED
      BY <3>3 DEF k
  <2> QED
    BY <1>3, <1>5, <2>1, <2>3
<1>6. done[m] = op
  <2> HIDE DEF Older
  <2>1. m \in Older
    BY <1>3, <1>4, <1>5, NatSetInduction
  <2> QED
    BY <1>3, <2>1 DEF Older
<1>7. 0 \in Newer
  <2>1. base + 0 = base /\ m + 0 = m
    BY <1>2, <1>3
  <2>2. <<base + 0, done[m + 0]>> \in G
    BY <1>6, <2>1
  <2> QED
    BY <2>2
<1>8. ASSUME NEW d \in Nat, d \in Newer
      PROVE  d + 1 \in Newer
  <2>1. SUFFICES ASSUME m + (d + 1) <= n
                 PROVE  <<base + (d + 1), done[m + (d + 1)]>> \in G
    OBVIOUS
  <2> DEFINE i == m + (d + 1)
             v == base + (d + 1)
  <2>2. /\ i \in 1 .. n /\ historyStart + i = v /\ v > base /\ v \in base + 1 .. version
        /\ i - 1 = m + d /\ v - 1 = base + d /\ m + d <= n /\ i - 1 \in 0 .. n
    BY <1>2, <1>3, <2>1
  <2>3. <<v - 1, done[i - 1]>> \in G
    BY <1>8, <2>2
  <2> HIDE DEF i, v
  <2>4. done[i] = TransformAgainst(done[i - 1], log[v].op)
    BY <1>1, <1>2, <2>2 DEF n
  <2>5. done[i - 1] \in Operation(Char)
    BY <1>1, <2>2 DEF n
  <2>6. <<v, done[i]>> \in G
    BY <2>2, <2>3, <2>4, <2>5
  <2> QED
    BY <2>6 DEF i, v
<1>9. n - m \in Newer
  <2> HIDE DEF Newer
  <2>1. n - m \in Nat
    BY <1>3
  <2> QED
    BY <1>7, <1>8, <2>1, NatSetInduction
<1>10. m + (n - m) = n /\ base + (n - m) = version
  BY <1>2, <1>3
<1>11. <<version, done[n]>> \in G
  BY <1>3, <1>9, <1>10
<1> QED
  BY <1>1, <1>11 DEF n

-----------------------------------------------------------------------------

\* The characters that can be in the text at version v.
Known(v) == Range(InitialText) \cup {log[u].id : u \in 1 .. v}

\* Characters are identities, at every version the document ever had.  An
\* insertion puts in a character nobody had before it, so that one that is
\* gone from the text never comes back.
IdentityInv ==
  /\ ReplayInv
  /\ \A u, v \in 1 .. version : log[u].id = log[v].id => u = v
  /\ \A v \in 1 .. version : log[v].op.kind = "insert" => log[v].op.ch = log[v].id
  /\ \A v \in 1 .. version + 1 : Distinct(past[v])
  /\ \A v \in 1 .. version + 1 : \A i \in 1 .. Len(past[v]) : past[v][i] \in Known(v - 1)

\* A later insertion is new to an earlier text.
LEMMA LaterIsNew ==
  ASSUME IdentityInv, NEW v \in 1 .. version + 1, NEW u \in 1 .. version, v <= u
  PROVE  NewTo(past[v], log[u].op)
<1>1. SUFFICES ASSUME log[u].op.kind = "insert", NEW i \in 1 .. Len(past[v])
               PROVE  past[v][i] # log[u].id
  BY DEF IdentityInv, NewTo
<1>2. version \in Nat /\ log \in Seq(Entry) /\ version = Len(log)
  BY DEF IdentityInv, ReplayInv, WindowInv, TypeOK, HistoryWindow
<1>3. log[u].id \in OpIds
  <2>1. log[u] \in Entry
    BY <1>2, ElementOfSeq
  <2> QED
    BY <2>1 DEF Entry
<1>4. past[v][i] \in Known(v - 1)
  BY DEF IdentityInv
<1>5. CASE past[v][i] \in Range(InitialText)
  BY <1>3, <1>5, IdentityAssumption
<1>6. CASE \E w \in 1 .. v - 1 : past[v][i] = log[w].id
  <2>1. PICK w \in 1 .. v - 1 : past[v][i] = log[w].id
    BY <1>6
  <2>2. w \in 1 .. version /\ w # u
    BY <1>2
  <2> QED
    BY <2>1, <2>2 DEF IdentityInv
<1> QED
  BY <1>4, <1>5, <1>6 DEF Known

\* An insertion carried to the current version goes between the characters its
\* author saw around it (ts_document_process_operation).
LEMMA InsertionArrives ==
  ASSUME IdentityInv, NEW op \in Operation(Char), op.kind = "insert",
         NEW base \in Int, InWindow(base)
  PROVE  LET done == NormalizeForApply(text, Transformed(op, base))
         IN  /\ done.kind = "insert" /\ done.ch = op.ch /\ done.pos \in 0 .. Len(text)
             /\ KeepsSides(past[base + 1], op.pos, text, done.pos)
<1> DEFINE seen == past[base + 1]
           Good(v, o) == /\ o.kind = "insert" /\ o.ch = op.ch
                         /\ KeepsSides(seen, op.pos, past[v + 1], o.pos)
           G == {p \in Nat \X Operation(Char) : Good(p[1], p[2])}
<1>1. /\ WindowInv /\ version \in Nat /\ log \in Seq(Entry) /\ past \in Seq(Seq(Char))
      /\ version = Len(log) /\ Len(past) = version + 1 /\ past[version + 1] = text
      /\ base \in Nat /\ base <= version
      /\ \A v \in 1 .. version : /\ InRange(past[v], log[v].op)
                                 /\ past[v + 1] = ApplyOperation(past[v], log[v].op)
  BY DEF IdentityInv, ReplayInv, WindowInv, TypeOK, HistoryWindow, ReplayableHistory, InWindow
<1>2. /\ base + 1 \in 1 .. version + 1
      /\ \A v \in 1 .. version + 1 : past[v] \in Seq(Char)
      /\ \A v \in 1 .. version : log[v].op \in Operation(Char)
  <2>1. \A v \in 1 .. version : log[v] \in Entry
    BY <1>1, ElementOfSeq
  <2>2. \A v \in 1 .. version + 1 : past[v] \in Seq(Char)
    BY <1>1, ElementOfSeq
  <2> QED
    BY <1>1, <2>1, <2>2 DEF Entry
<1>3. <<base, op>> \in G
  <2>1. Distinct(seen)
    BY <1>2 DEF IdentityInv
  <2>2. Len(seen) \in Nat /\ op.pos \in Nat
    BY <1>2 DEF Operation
  <2>3. KeepsSides(seen, op.pos, past[base + 1], op.pos)
    BY <2>1, <2>2 DEF KeepsSides, Distinct
  <2> QED
    BY <1>1, <2>3
<1>4. ASSUME NEW v \in base + 1 .. version, NEW o \in Operation(Char), <<v - 1, o>> \in G
      PROVE  <<v, TransformAgainst(o, log[v].op)>> \in G
  <2> DEFINE done == TransformAgainst(o, log[v].op)
  <2>1. v \in 1 .. version /\ v \in 1 .. version + 1 /\ (v - 1) + 1 = v /\ v \in Nat /\ base + 1 <= v
    BY <1>1
  <2>2. Good(v - 1, o)
    BY <1>4
  <2>3. NewTo(seen, log[v].op)
    BY <1>2, <2>1, LaterIsNew
  <2>4. done.kind = "insert" /\ done.ch = o.ch
        /\ KeepsSides(seen, op.pos, ApplyOperation(past[v], log[v].op), done.pos)
    <3>1. /\ past[v] \in Seq(Char) /\ seen \in Seq(Char) /\ log[v].op \in Operation(Char)
          /\ InRange(past[v], log[v].op) /\ op.pos \in Nat
          /\ o.kind = "insert" /\ KeepsSides(seen, op.pos, past[v], o.pos)
      BY <1>1, <1>2, <2>1, <2>2 DEF Operation
    <3> HIDE DEF seen, Good, G
    <3> QED
      BY <2>3, <3>1, InsertionCarried
  <2>5. done \in Operation(Char)
    BY <1>2, <2>1, TransformAgainstType
  <2>6. Good(v, done)
    BY <1>1, <2>1, <2>2, <2>4
  <2> QED
    BY <2>1, <2>5, <2>6
<1> DEFINE end == Transformed(op, base)
<1>5. <<version, end>> \in G
  <2> HIDE DEF G
  <2> QED
    BY <1>1, <1>3, <1>4, CarriedOver
<1> HIDE DEF end
<1>6. end \in Operation(Char) /\ Good(version, end)
  BY <1>5
<1>7. KeepsSides(seen, op.pos, text, end.pos) /\ end.kind = "insert" /\ end.ch = op.ch
  BY <1>1, <1>6
<1> HIDE DEF seen
<1> DEFINE done == NormalizeForApply(text, end)
<1>8. Len(text) \in Nat /\ end.pos \in Nat
  BY <1>1, <1>6 DEF WindowInv, TypeOK, Operation
<1>9. done.kind = "insert" /\ done.ch = op.ch /\ done.pos = Clamp(end.pos, Len(text))
  BY <1>6, <1>7 DEF NormalizeForApply, Operation
<1>10. done.pos \in 0 .. Len(text) /\ KeepsSides(seen, op.pos, text, done.pos)
  <2> HIDE DEF done
  <2>1. done.pos \in 0 .. Len(text)
    BY <1>8, <1>9 DEF Clamp
  <2>2. \A j \in 1 .. Len(text) : j <= end.pos <=> j <= done.pos
    BY <1>8, <1>9 DEF Clamp
  <2> QED
    BY <1>7, <2>1, <2>2 DEF KeepsSides
<1> QED
  BY <1>9, <1>10 DEF end, seen

\* A deletion carried to the current version removes the character its author
\* saw, or nothing when that is gone or never was
\* (ts_document_process_operation).
LEMMA DeletionArrives ==
  ASSUME IdentityInv, NEW op \in Operation(Char), op.kind = "delete",
         NEW base \in Int, InWindow(base)
  PROVE  LET done == NormalizeForApply(text, Transformed(op, base))
             seen == past[base + 1]
         IN  IF op.pos < Len(seen) THEN AimsAt(done, text, seen[op.pos + 1])
                                   ELSE done.kind = "noop"
<1> DEFINE seen == past[base + 1]
           c == seen[op.pos + 1]
           Good(v, o) == IF op.pos < Len(seen) THEN AimsAt(o, past[v + 1], c)
                                               ELSE AimsAtNothing(o, past[v + 1])
           G == {p \in Nat \X Operation(Char) : Good(p[1], p[2])}
<1>1. /\ WindowInv /\ version \in Nat /\ log \in Seq(Entry) /\ past \in Seq(Seq(Char))
      /\ version = Len(log) /\ Len(past) = version + 1 /\ past[version + 1] = text
      /\ base \in Nat /\ base <= version
      /\ \A v \in 1 .. version : /\ InRange(past[v], log[v].op)
                                 /\ past[v + 1] = ApplyOperation(past[v], log[v].op)
  BY DEF IdentityInv, ReplayInv, WindowInv, TypeOK, HistoryWindow, ReplayableHistory, InWindow
<1>2. /\ base + 1 \in 1 .. version + 1
      /\ \A v \in 1 .. version + 1 : past[v] \in Seq(Char)
      /\ \A v \in 1 .. version : log[v].op \in Operation(Char)
  <2>1. \A v \in 1 .. version : log[v] \in Entry
    BY <1>1, ElementOfSeq
  <2>2. \A v \in 1 .. version + 1 : past[v] \in Seq(Char)
    BY <1>1, ElementOfSeq
  <2> QED
    BY <1>1, <2>1, <2>2 DEF Entry
<1>3. Len(seen) \in Nat /\ op.pos \in Nat
  BY <1>2 DEF Operation
<1>4. <<base, op>> \in G
  BY <1>1, <1>3 DEF AimsAt, AimsAtNothing
<1>5. ASSUME NEW v \in base + 1 .. version, NEW o \in Operation(Char), <<v - 1, o>> \in G
      PROVE  <<v, TransformAgainst(o, log[v].op)>> \in G
  <2> DEFINE done == TransformAgainst(o, log[v].op)
  <2>1. v \in 1 .. version /\ v \in 1 .. version + 1 /\ (v - 1) + 1 = v /\ v \in Nat /\ base + 1 <= v
    BY <1>1
  <2>2. Good(v - 1, o)
    BY <1>5
  <2>3. NewTo(seen, log[v].op)
    BY <1>2, <2>1, LaterIsNew
  <2>4. /\ past[v] \in Seq(Char) /\ log[v].op \in Operation(Char)
        /\ InRange(past[v], log[v].op) /\ Distinct(past[v])
        /\ past[v + 1] = ApplyOperation(past[v], log[v].op)
    BY <1>1, <1>2, <2>1 DEF IdentityInv
  <2>5. ASSUME op.pos < Len(seen)
        PROVE  Good(v, done)
    <3>1. AimsAt(o, past[v], c)
      BY <2>1, <2>2, <2>5
    <3>2. log[v].op.kind = "insert" => log[v].op.ch # c
      BY <1>3, <2>3, <2>5, SMTT(30) DEF NewTo
    <3> HIDE DEF seen, c, Good, G
    <3>3. AimsAt(done, past[v + 1], c)
      BY <2>4, <3>1, <3>2, DeletionCarried
    <3> QED
      BY <2>5, <3>3 DEF Good
  <2>6. ASSUME ~(op.pos < Len(seen))
        PROVE  Good(v, done)
    <3>1. AimsAtNothing(o, past[v])
      BY <2>1, <2>2, <2>6
    <3> HIDE DEF seen, c, Good, G
    <3>2. AimsAtNothing(done, past[v + 1])
      BY <2>4, <3>1, NothingCarried
    <3> QED
      BY <2>6, <3>2 DEF Good
  <2>7. done \in Operation(Char)
    BY <2>4, TransformAgainstType
  <2>8. Good(v, done)
    BY <2>5, <2>6
  <2> QED
    BY <2>1, <2>7, <2>8
<1> DEFINE end == Transformed(op, base)
<1>6. <<version, end>> \in G
  <2> HIDE DEF G
  <2> QED
    BY <1>1, <1>4, <1>5, CarriedOver
<1> HIDE DEF end
<1>7. end \in Operation(Char) /\ Good(version, end)
  BY <1>6
<1> DEFINE done == NormalizeForApply(text, end)
<1>8. CASE op.pos < Len(seen)
  <2>1. AimsAt(end, text, c)
    BY <1>1, <1>7, <1>8
  <2> HIDE DEF seen, c
  <2>2. Len(text) \in Nat /\ end.pos \in Nat
    BY <1>1, <1>7 DEF WindowInv, TypeOK, Operation
  <2>3. done = end
    BY <2>1, <2>2 DEF AimsAt, NormalizeForApply
  <2> QED
    BY <1>8, <2>1, <2>3 DEF end, seen, c
<1>9. CASE ~(op.pos < Len(seen))
  <2>1. AimsAtNothing(end, text)
    BY <1>1, <1>7, <1>9
  <2>2. done.kind = "noop"
    BY <2>1 DEF AimsAtNothing, NormalizeForApply, NoopOp
  <2> QED
    BY <1>9, <2>2 DEF end
<1> QED
  BY <1>8, <1>9

-----------------------------------------------------------------------------

\* What Accept appends to the log, named.
Recorded(id, base, op) ==
  [version |-> version + 1, id |-> id, base |-> base, original |-> op,
   op |-> NormalizeForApply(text, Transformed(op, base))]

\* What a client submits is an operation, and an insertion carries its own
\* edit's character.
LEMMA SubmissionType ==
  ASSUME NEW id \in OpIds, NEW op \in Submission(id)
  PROVE  /\ op \in Operation(Char) /\ op.pos \in Positions /\ op.kind \in {"insert", "delete"}
         /\ op.kind = "insert" => op.ch = id
BY PositionsAssumption DEF Submission, InsertOp, DeleteOp, Operation, Char

\* What is recorded of an edit inserts no character but the edit's own
\* (normalize_for_apply).
LEMMA RecordedInsertion ==
  ASSUME IdentityInv, NEW id \in OpIds, NEW op \in Submission(id), NEW base \in Int, InWindow(base)
  PROVE  LET done == NormalizeForApply(text, Transformed(op, base))
         IN  done \in Operation(Char) /\ InRange(text, done) /\ (done.kind = "insert" => done.ch = id)
<1> DEFINE done == NormalizeForApply(text, Transformed(op, base))
<1>1. op \in Operation(Char) /\ op.kind \in {"insert", "delete"} /\ (op.kind = "insert" => op.ch = id)
  BY SubmissionType
<1>2. text \in Seq(Char) /\ history \in Seq(Entry)
  BY DEF IdentityInv, ReplayInv, WindowInv, TypeOK
<1>3. done \in Operation(Char) /\ InRange(text, done)
  BY <1>1, <1>2, TransformedType, NormalizedIsInRange
<1>4. CASE op.kind = "insert"
  <2>1. done.ch = op.ch
    BY <1>1, <1>4, InsertionArrives
  <2> QED
    BY <1>1, <1>3, <1>4, <2>1
<1>5. CASE op.kind = "delete"
  <2>1. done.kind # "insert"
    BY <1>1, <1>5, DeletionArrives DEF AimsAt
  <2> QED
    BY <1>3, <2>1
<1> QED
  BY <1>1, <1>4, <1>5

\* The document's texts stay texts of different characters when an edit with a
\* new op_id is accepted.
LEMMA IdentityAccept ==
  ASSUME IdentityInv, NEW id \in OpIds \ Answered, NEW op \in Submission(id), NEW base \in Int,
         Accept(id, base, op)
  PROVE  IdentityInv'
<1> DEFINE done == NormalizeForApply(text, Transformed(op, base))
           entry == Recorded(id, base, op)
<1>1. InWindow(base) /\ op \in Operation(Char) /\ id \in OpIds
  BY SubmissionType DEF Accept
<1>2. /\ version' = version + 1
      /\ text' = ApplyOperation(text, done)
      /\ log' = Append(log, entry)
      /\ past' = Append(past, text')
  BY DEF Accept, Recorded
<1>3. entry.id = id /\ entry.op = done
  BY DEF Recorded
<1>4. /\ ReplayInv /\ text \in Seq(Char) /\ version \in Nat /\ log \in Seq(Entry) /\ past \in Seq(Seq(Char))
      /\ version = Len(log) /\ Len(past) = version + 1 /\ past[version + 1] = text
  BY DEF IdentityInv, ReplayInv, WindowInv, TypeOK, HistoryWindow, ReplayableHistory
<1>5. done \in Operation(Char) /\ InRange(text, done) /\ (done.kind = "insert" => done.ch = id)
  BY <1>1, RecordedInsertion
<1>6. ReplayInv'
  BY <1>1, <1>4, AcceptKeeps
<1>7. ASSUME NEW u \in 1 .. version
      PROVE  log[u].id # id
  <2>1. u \in DOMAIN log
    BY <1>4
  <2>2. id \notin {log[i].id : i \in DOMAIN log}
    BY DEF Answered
  <2> QED
    BY <2>1, <2>2
<1>8. id \notin Range(InitialText)
  BY <1>1, IdentityAssumption
<1>9. text' \in Seq(Char)
  BY <1>2, <1>4, <1>5, ApplyOperationType
<1> HIDE DEF done, entry
<1>10. /\ \A v \in 1 .. version : log'[v] = log[v]
       /\ log'[version + 1] = entry
  <2>1. version \in Nat /\ \A v \in 1 .. version : v \in 1 .. Len(log)
    BY <1>4
  <2>2. /\ \A v \in 1 .. Len(log) : log'[v] = log[v]
        /\ log'[Len(log) + 1] = entry
    BY <1>2, <1>4, AppendProperties
  <2> QED
    BY <1>4, <2>1, <2>2
<1>11. /\ \A v \in 1 .. version + 1 : past'[v] = past[v]
       /\ past'[version + 2] = text'
  BY <1>2, <1>4, <1>9, AppendProperties
<1>12. /\ \A v \in 1 .. version + 1 : Distinct(past[v])
       /\ \A v \in 1 .. version + 1 : \A i \in 1 .. Len(past[v]) : past[v][i] \in Known(v - 1)
       /\ \A u, v \in 1 .. version : log[u].id = log[v].id => u = v
       /\ \A v \in 1 .. version : log[v].op.kind = "insert" => log[v].op.ch = log[v].id
  BY DEF IdentityInv
<1>13. \A u, v \in 1 .. version + 1 : log'[u].id = log'[v].id => u = v
  <2> TAKE u \in 1 .. version + 1, v \in 1 .. version + 1
  <2>1. CASE u \in 1 .. version /\ v \in 1 .. version
    BY <1>10, <1>12, <2>1
  <2>2. CASE u = version + 1 /\ v \in 1 .. version
    BY <1>3, <1>7, <1>10, <2>2
  <2>3. CASE u \in 1 .. version /\ v = version + 1
    BY <1>3, <1>7, <1>10, <2>3
  <2> QED
    BY <1>4, <2>1, <2>2, <2>3
<1>14. \A v \in 1 .. version + 1 : log'[v].op.kind = "insert" => log'[v].op.ch = log'[v].id
  <2> TAKE v \in 1 .. version + 1
  <2>1. CASE v \in 1 .. version
    BY <1>10, <1>12, <2>1
  <2>2. CASE v = version + 1
    BY <1>3, <1>5, <1>10, <2>2
  <2> QED
    BY <1>4, <2>1, <2>2
<1>15. \A u \in 0 .. version : Known(u) \subseteq Known(u)'
  <2> TAKE u \in 0 .. version
  <2>1. \A w \in 1 .. u : log'[w] = log[w]
    BY <1>4, <1>10
  <2> QED
    BY <2>1 DEF Known
<1>16. Known(version) \subseteq Known(version)' /\ id \in Known(version)'
  <2>1. \A w \in 1 .. version : w \in 1 .. version + 1 /\ log'[w].id = log[w].id
    BY <1>4, <1>10
  <2>2. version + 1 \in 1 .. version + 1 /\ log'[version + 1].id = id
    BY <1>3, <1>4, <1>10
  <2> QED
    BY <1>2, <2>1, <2>2 DEF Known
<1>17. Distinct(text) /\ \A i \in 1 .. Len(text) : text[i] \in Known(version)
  <2>1. version + 1 \in 1 .. version + 1 /\ (version + 1) - 1 = version
    BY <1>4
  <2> QED
    BY <1>4, <1>12, <2>1
<1>18. NewTo(text, done)
  <2>1. id \notin Known(version)
    BY <1>7, <1>8 DEF Known
  <2> QED
    BY <1>5, <1>17, <2>1 DEF NewTo
<1>19. Distinct(text')
  BY <1>2, <1>4, <1>5, <1>17, <1>18, StaysDistinct
<1>20. \A i \in 1 .. Len(text') : text'[i] \in Known(version)'
  <2> TAKE i \in 1 .. Len(text')
  <2> DEFINE after == ApplyOperation(text, done)
  <2>1. i \in 1 .. Len(after)
    BY <1>2
  <2>2. \/ done.kind = "insert" /\ i = done.pos + 1 /\ after[i] = done.ch
        \/ \E j \in 1 .. Len(text) : /\ ~(done.kind = "delete" /\ done.pos + 1 = j)
                                    /\ i = IndexAfter(j, done)
                                    /\ after[i] = text[j]
    BY <1>4, <1>5, <2>1, CharactersCome
  <2>3. after = text'
    BY <1>2
  <2> HIDE DEF after
  <2> QED
    BY <1>5, <1>16, <1>17, <2>2, <2>3
<1>21. \A v \in 1 .. version + 2 : Distinct(past'[v])
  <2> TAKE v \in 1 .. version + 2
  <2>1. CASE v \in 1 .. version + 1
    BY <1>11, <1>12, <2>1
  <2>2. CASE v = version + 2
    BY <1>11, <1>19, <2>2
  <2> QED
    BY <1>4, <2>1, <2>2
<1>22. \A v \in 1 .. version + 2 : \A i \in 1 .. Len(past'[v]) : past'[v][i] \in Known(v - 1)'
  <2> TAKE v \in 1 .. version + 2
  <2>1. CASE v \in 1 .. version + 1
    <3>1. v - 1 \in 0 .. version
      BY <1>4, <2>1
    <3> QED
      BY <1>11, <1>12, <1>15, <2>1, <3>1
  <2>2. CASE v = version + 2
    <3>1. v - 1 = version'
      BY <1>2, <1>4, <2>2
    <3>2. Known(v - 1)' = Known(version)'
      BY <3>1 DEF Known
    <3> QED
      BY <1>11, <1>20, <2>2, <3>2
  <2> QED
    BY <1>4, <2>1, <2>2
<1>23. version' + 1 = version + 2
  BY <1>2, <1>4
<1> QED
  BY <1>2, <1>6, <1>13, <1>14, <1>21, <1>22, <1>23 DEF IdentityInv, Distinct

\* In a text of different characters a character has one place.
LEMMA PlaceIs ==
  ASSUME Distinct(text), NEW j \in 1 .. Len(text)
  PROVE  Promise!Place(text[j]) = j
BY DEF Distinct, Promise!Place

\* The edit an accepted operation is in the promise to the editors.
LEMMA PromiseEdit ==
  ASSUME IdentityInv, NEW id \in OpIds, NEW op \in Submission(id), NEW base \in Int, Accept(id, base, op)
  PROVE  IF op.kind = "insert" THEN Promise!InsertBetween(past[base + 1], op.pos, id)
                               ELSE Promise!DeleteSeen(past[base + 1], op.pos)
<1> DEFINE done == NormalizeForApply(text, Transformed(op, base))
           seen == past[base + 1]
<1>1. InWindow(base) /\ text' = ApplyOperation(text, done)
  BY DEF Accept
<1>2. op \in Operation(Char) /\ op.kind \in {"insert", "delete"} /\ (op.kind = "insert" => op.ch = id)
  BY SubmissionType
<1>3. /\ text \in Seq(Char) /\ version \in Nat /\ past \in Seq(Seq(Char))
      /\ Len(past) = version + 1 /\ past[version + 1] = text
      /\ base \in 0 .. version
  BY <1>1 DEF IdentityInv, ReplayInv, WindowInv, TypeOK, HistoryWindow, ReplayableHistory, InWindow
<1>4. Distinct(text) /\ Distinct(seen)
  <2>1. version + 1 \in 1 .. version + 1 /\ base + 1 \in 1 .. version + 1
    BY <1>3
  <2> QED
    BY <1>3, <2>1 DEF IdentityInv
<1>5. Len(text) \in Nat /\ Len(seen) \in Nat /\ op.pos \in Nat
  <2>1. base + 1 \in 1 .. Len(past)
    BY <1>3
  <2>2. seen \in Seq(Char)
    BY <1>3, <2>1, ElementOfSeq
  <2> QED
    BY <1>2, <1>3, <2>2 DEF Operation
<1>6. CASE op.kind = "insert"
  <2>1. /\ done.kind = "insert" /\ done.ch = id /\ done.pos \in 0 .. Len(text)
        /\ KeepsSides(seen, op.pos, text, done.pos)
    BY <1>1, <1>2, <1>6, InsertionArrives
  <2> HIDE DEF done, seen
  <2>2. text' = InsertAt(text, done.pos + 1, id)
    BY <1>1, <1>5, <2>1 DEF ApplyOperation, Clamp
  <2>3. ASSUME NEW i \in Promise!Kept(seen)
        PROVE  i <= op.pos <=> Promise!Place(seen[i]) <= done.pos
    <3>1. PICK j \in 1 .. Len(text) : text[j] = seen[i] /\ i \in 1 .. Len(seen)
      BY <2>3 DEF Promise!Kept, Promise!Contains
    <3>2. Promise!Place(seen[i]) = j
      BY <1>4, <3>1, PlaceIs
    <3> QED
      BY <2>1, <3>1, <3>2 DEF KeepsSides
  <2>4. Promise!InsertBetween(seen, op.pos, id)
    BY <2>1, <2>2, <2>3 DEF Promise!InsertBetween, Promise!InsertAt, InsertAt
  <2> QED
    BY <1>6, <2>4 DEF seen
<1>7. CASE op.kind = "delete"
  <2>1. IF op.pos < Len(seen) THEN AimsAt(done, text, seen[op.pos + 1]) ELSE done.kind = "noop"
    BY <1>1, <1>2, <1>7, DeletionArrives
  <2>2. done \in Operation(Char)
    BY <1>1, <1>2, RecordedInsertion
  <2> HIDE DEF done, seen
  <2>3. op.pos + 1 \in Promise!Kept(seen) <=>
          op.pos < Len(seen) /\ \E j \in 1 .. Len(text) : text[j] = seen[op.pos + 1]
    BY <1>5 DEF Promise!Kept, Promise!Contains
  <2>4. CASE op.pos + 1 \in Promise!Kept(seen)
    <3>1. done.kind = "delete" /\ done.pos < Len(text) /\ text[done.pos + 1] = seen[op.pos + 1]
      BY <2>1, <2>3, <2>4 DEF AimsAt
    <3>2. done.pos + 1 \in 1 .. Len(text)
      BY <1>5, <2>2, <3>1 DEF Operation
    <3>3. Promise!Place(seen[op.pos + 1]) = done.pos + 1
      BY <1>4, <3>1, <3>2, PlaceIs
    <3>4. text' = RemoveAt(text, done.pos + 1)
      BY <1>1, <3>1 DEF ApplyOperation
    <3> QED
      BY <1>7, <2>4, <3>3, <3>4 DEF Promise!DeleteSeen, Promise!RemoveAt, RemoveAt, seen
  <2>5. CASE op.pos + 1 \notin Promise!Kept(seen)
    <3>1. done.kind = "noop"
      <4>1. ASSUME done.kind = "delete", done.pos < Len(text), text[done.pos + 1] = seen[op.pos + 1],
                   op.pos < Len(seen)
            PROVE  FALSE
        <5>1. done.pos + 1 \in 1 .. Len(text)
          BY <1>5, <2>2, <4>1 DEF Operation
        <5> QED
          BY <2>3, <2>5, <4>1, <5>1
      <4> QED
        BY <2>1, <4>1 DEF AimsAt
    <3>2. text' = text
      BY <1>1, <3>1 DEF ApplyOperation
    <3> QED
      BY <1>7, <2>5, <3>2 DEF Promise!DeleteSeen, seen
  <2> QED
    BY <2>4, <2>5
<1> QED
  BY <1>2, <1>6, <1>7

\* An accepted operation is one edit of the promise, in the same place of the
\* order (ts_document_process_operation).
LEMMA PromiseAccept ==
  ASSUME IdentityInv, NEW id \in OpIds, NEW op \in Submission(id), NEW base \in Int, Accept(id, base, op)
  PROVE  Promise!Next
<1> DEFINE Stated(e) == [id |-> e.id, base |-> e.base, kind |-> e.original.kind, pos |-> e.original.pos]
           edits == [v \in DOMAIN log |-> [id |-> log[v].id, base |-> log[v].base,
                                           kind |-> log[v].original.kind, pos |-> log[v].original.pos]]
           entry == Recorded(id, base, op)
           edit == [id |-> id, base |-> base, kind |-> op.kind, pos |-> op.pos]
<1>1. log' = Append(log, entry) /\ past' = Append(past, text')
  BY DEF Accept, Recorded
<1>2. entry.id = id /\ entry.base = base /\ entry.original = op
  BY DEF Recorded
<1>3. /\ version \in Nat /\ log \in Seq(Entry) /\ version = Len(log) /\ base \in 0 .. version
  BY DEF IdentityInv, ReplayInv, WindowInv, TypeOK, HistoryWindow, Accept, InWindow
<1> HIDE DEF entry
<1>4. /\ DOMAIN log = 1 .. version /\ DOMAIN log' = 1 .. version + 1
      /\ \A v \in 1 .. version : log'[v] = log[v]
      /\ log'[version + 1] = entry
  BY <1>1, <1>3
<1>5. edits \in Seq({edits[v] : v \in 1 .. version}) /\ Len(edits) = version
  BY <1>3, <1>4
<1>6. edits' = Append(edits, edit)
  <2>1. edits' = [v \in 1 .. version + 1 |-> Stated(log'[v])]
    BY <1>4
  <2>2. Stated(log'[version + 1]) = edit
    BY <1>2, <1>4
  <2>3. \A v \in 1 .. version : Stated(log'[v]) = edits[v]
    BY <1>4
  <2> DEFINE new == [v \in 1 .. version + 1 |-> Stated(log'[v])]
             T == {edits[v] : v \in 1 .. version} \cup {edit}
  <2> HIDE DEF edit, Stated, edits
  <2>4. edits \in Seq(T) /\ edit \in T
    BY <1>3, <1>5
  <2>5. new \in Seq(T) /\ Len(new) = version + 1
    BY <1>3, <2>2, <2>3
  <2>6. \A v \in 1 .. version + 1 : new[v] = IF v = version + 1 THEN edit ELSE edits[v]
    BY <1>3, <2>2, <2>3
  <2> HIDE DEF T, new
  <2>7. /\ Append(edits, edit) \in Seq(T)
        /\ Len(Append(edits, edit)) = version + 1
        /\ \A v \in 1 .. version : Append(edits, edit)[v] = edits[v]
        /\ Append(edits, edit)[version + 1] = edit
    BY <1>3, <1>5, <2>4, AppendProperties
  <2>8. new = Append(edits, edit)
    <3>1. \A v \in 1 .. Len(new) : new[v] = Append(edits, edit)[v]
      BY <1>3, <2>5, <2>6, <2>7
    <3> QED
      BY <2>5, <2>7, <3>1, SeqEqual
  <2> QED
    BY <2>1, <2>8 DEF new
<1>7. op.pos \in Positions /\ op.kind \in {"insert", "delete"}
  BY SubmissionType
<1>8. Promise!Edit(id, base, op.kind, op.pos)
  <2>1. IF op.kind = "insert" THEN Promise!InsertBetween(past[base + 1], op.pos, id)
                              ELSE Promise!DeleteSeen(past[base + 1], op.pos)
    BY PromiseEdit
  <2> QED
    BY <1>1, <1>6, <2>1 DEF Promise!Edit
<1>9. base \in 0 .. Len(edits)
  BY <1>3, <1>5
<1> QED
  BY <1>7, <1>8, <1>9 DEF Promise!Next

\* A refused operation is no edit: the promise stutters.
LEMMA PromiseStep ==
  ASSUME IdentityInv, [Next]_vars
  PROVE  [Promise!Next]_(Promise!vars)
<1>1. CASE UNCHANGED vars
  BY <1>1 DEF vars, Promise!vars
<1>2. CASE Next
  <2>1. PICK id \in OpIds \ Answered, base \in -1 .. version + 1 :
          \E op \in Submission(id) : ProcessOperation(id, base, op)
    BY <1>2 DEF Next
  <2>2. PICK op \in Submission(id) : ProcessOperation(id, base, op)
    BY <2>1
  <2>3. base \in Int
    BY <2>1 DEF IdentityInv, ReplayInv, WindowInv, TypeOK
  <2>4. CASE Accept(id, base, op)
    BY <2>3, <2>4, PromiseAccept
  <2>5. CASE Refuse(id, base)
    BY <2>5 DEF Refuse, Promise!vars
  <2> QED
    BY <2>2, <2>4, <2>5 DEF ProcessOperation
<1> QED
  BY <1>1, <1>2

\* No step doubles a character or brings one back.
LEMMA IdentityStep ==
  ASSUME IdentityInv, [Next]_vars
  PROVE  IdentityInv'
<1>1. CASE UNCHANGED vars
  <2>1. ReplayInv'
    <3>1. ReplayInv /\ [Next]_vars
      BY DEF IdentityInv
    <3> QED
      BY <3>1, WindowStep, ReplayStep DEF ReplayInv
  <2>2. version' = version /\ log' = log /\ past' = past
    BY <1>1 DEF vars
  <2> QED
    BY <2>1, <2>2 DEF IdentityInv, Known
<1>2. CASE Next
  <2>1. PICK id \in OpIds \ Answered, base \in -1 .. version + 1 :
          \E op \in Submission(id) : ProcessOperation(id, base, op)
    BY <1>2 DEF Next
  <2>2. PICK op \in Submission(id) : ProcessOperation(id, base, op)
    BY <2>1
  <2>3. base \in Int
    BY <2>1 DEF IdentityInv, ReplayInv, WindowInv, TypeOK
  <2>4. CASE Accept(id, base, op)
    BY <2>3, <2>4, IdentityAccept
  <2>5. CASE Refuse(id, base)
    <3>1. ReplayInv'
      BY <2>5, RefuseKeeps DEF IdentityInv
    <3>2. version' = version /\ log' = log /\ past' = past
      BY <2>5 DEF Refuse
    <3> QED
      BY <3>1, <3>2 DEF IdentityInv, Known
  <2> QED
    BY <2>2, <2>4, <2>5 DEF ProcessOperation
<1> QED
  BY <1>1, <1>2

\* The initial text is the promise's, and its characters differ.
LEMMA PromiseInit ==
  ASSUME Init
  PROVE  IdentityInv /\ Promise!Init
<1>1. ReplayInv
  <2>1. ReplayableHistory
    BY DEF Init, ReplayableHistory
  <2> QED
    BY <2>1, InitType DEF ReplayInv
<1>2. version = 0 /\ past = <<InitialText>> /\ log = <<>> /\ text = InitialText
  BY DEF Init
<1>3. Len(InitialText) \in Nat /\ DOMAIN InitialText = 1 .. Len(InitialText)
  BY InitialTextAssumption
<1>4. Distinct(InitialText)
  BY <1>3, IdentityAssumption DEF Distinct
<1>5. \A i \in 1 .. Len(InitialText) : InitialText[i] \in Range(InitialText)
  BY <1>3 DEF Range
<1>6. \A v \in 1 .. version + 1 : v = 1 /\ past[v] = InitialText
  BY <1>2
<1>7. IdentityInv
  BY <1>1, <1>2, <1>4, <1>5, <1>6 DEF IdentityInv, Known
<1>8. [v \in DOMAIN log |-> [id |-> log[v].id, base |-> log[v].base,
                             kind |-> log[v].original.kind, pos |-> log[v].original.pos]] = <<>>
  BY <1>2
<1> QED
  BY <1>2, <1>7, <1>8 DEF Promise!Init

\* For every window size, initial text and number of editors: an edit based on
\* any version the window still covers takes effect on the characters its
\* author saw, whatever was accepted in between (ts_transform_against, carried
\* over the window by ts_document_process_operation).
THEOREM IntentionsKept == Spec => KeepsIntentions
<1>1. Init => IdentityInv /\ Promise!Init
  BY PromiseInit
<1>2. IdentityInv /\ [Next]_vars => IdentityInv'
  BY IdentityStep
<1>3. IdentityInv /\ [Next]_vars => [Promise!Next]_(Promise!vars)
  BY PromiseStep
<1> QED
  BY <1>1, <1>2, <1>3, PTL DEF Spec, KeepsIntentions, Promise!Spec
===============================================================================
