------------------------------ MODULE CodecProofs -----------------------------
(* A message is one line, whatever its texts hold: the newline that ends the  *)
(* line is the only one in it (json_escape, ts_encode_message).               *)
EXTENDS Codec, SequenceTheorems, WellFoundedInduction, TLAPS

\* The symbols the encoder writes of its own, and the kinds.  All are strings,
\* which the provers do not know.
Own ==
  {Quote, Backslash, Newline, "n", "t", "r", "u", "0001", "001b", "{", "}", ",", ":",
   "kind", "pos", "char", "reason", "type", "client_id", "op_id", "base_version", "server_version",
   "version", "history_start_version", "op", "original_op", "message", "content"}
  \cup {Numerals[n] : n \in 1 .. 10} \cup Kinds

Symbol == STRING \cup Own

\* What a text is made of: kinds are written like texts.
Letter == STRING \cup Kinds

\* What a line holds before its end.
Plain == Symbol \ {Newline}

\* Induction over the natural numbers, about a set instead of a predicate.
LEMMA NatInductionOnSets ==
  ASSUME NEW S, 0 \in S, \A n \in Nat : n \in S => n + 1 \in S
  PROVE  Nat \subseteq S
<1> DEFINE R == OpToRel(<, Nat)
           T == Nat \ S
<1>1. IsWellFoundedOn(R, Nat)
  BY NatLessThanWellFounded
<1>2. SUFFICES ASSUME T # {} PROVE FALSE
  OBVIOUS
<1>3. PICK n \in T : \A m \in T : <<m, n>> \notin R
  <2>1. T \subseteq Nat
    OBVIOUS
  <2> HIDE DEF T, R
  <2> QED
    BY <1>1, <1>2, <2>1, WFMin
<1>4. n # 0 /\ n - 1 \in Nat /\ n - 1 \in T
  OBVIOUS
<1>5. <<n - 1, n>> \in R
  BY <1>4 DEF OpToRel
<1> QED
  BY <1>3, <1>4, <1>5

\* Writing one after the other is associative.
LEMMA Regrouped ==
  ASSUME NEW S, NEW s \in Seq(S), NEW t \in Seq(S), NEW u \in Seq(S)
  PROVE  (s \o t) \o u = s \o (t \o u)
BY ConcatAssociative

\* A sequence of sequences written one after the other.
LEMMA FlattenedType ==
  ASSUME NEW S, NEW seqs \in Seq(Seq(S))
  PROVE  FlattenSeq(seqs) \in Seq(S)
<1> DEFINE n == Len(seqs)
           T == Seq(S)
           Step(x, i) == IF i = 1 THEN seqs[i] ELSE x \o seqs[i]
           Rec(f) == f = [i \in 1 .. n |-> IF i = 1 THEN seqs[i] ELSE f[i - 1] \o seqs[i]]
<1>1. n \in Nat /\ \A i \in 1 .. n : seqs[i] \in T
  OBVIOUS
<1>2. CASE n = 0
  <2>1. seqs = <<>>
    BY <1>2
  <2> QED
    BY <1>2, <2>1 DEF FlattenSeq
<1>3. CASE n # 0
  <2>1. ASSUME NEW i \in 1 .. n, NEW x, i # 1 => x \in T
        PROVE  Step(x, i) \in T
    <3>1. CASE i = 1
      BY <1>1, <3>1
    <3>2. CASE i # 1
      BY <1>1, <2>1, <3>2, ConcatProperties
    <3> QED
      BY <3>1, <3>2
  <2>2. \E f : Rec(f)
    <3> DEFINE Stages(f, m) == f \in [1 .. m -> T] /\ \A i \in 1 .. m : f[i] = Step(f[i - 1], i)
               I == {m \in Nat : m <= n => \E f : Stages(f, m)}
    <3> HIDE DEF Step, n, T
    <3>1. 0 \in I
      <4>1. Stages([i \in 1 .. 0 |-> <<>>], 0)
        OBVIOUS
      <4> QED
        BY <4>1
    <3>2. ASSUME NEW m \in Nat, m \in I
          PROVE  m + 1 \in I
      <4>1. SUFFICES ASSUME m + 1 <= n
                     PROVE  \E f : Stages(f, m + 1)
        OBVIOUS
      <4>2. PICK f : Stages(f, m)
        <5>1. m <= n
          BY <1>1, <4>1
        <5>2. m <= n => \E f : Stages(f, m)
          <6> HIDE DEF Stages
          <6> QED
            BY <3>2
        <5> QED
          BY <5>1, <5>2
      <4> DEFINE next == Step(f[m], m + 1)
                 g == [i \in 1 .. m + 1 |-> IF i <= m THEN f[i] ELSE next]
      <4>3. next \in T
        BY <1>1, <2>1, <4>1, <4>2
      <4>4. g \in [1 .. m + 1 -> T]
        BY <4>2, <4>3
      <4>5. \A i \in 1 .. m + 1 : g[i] = Step(g[i - 1], i)
        <5> TAKE i \in 1 .. m + 1
        <5>1. CASE i = 1 /\ i <= m
          <6>1. g[i] = Step(f[i - 1], i)
            BY <4>2, <5>1
          <6> QED
            BY <5>1, <6>1 DEF Step
        <5>2. CASE i # 1 /\ i <= m
          BY <4>2, <5>2
        <5>3. CASE i = m + 1 /\ i # 1
          BY <4>2, <5>3
        <5>4. CASE i = m + 1 /\ i = 1
          BY <4>2, <5>4 DEF Step
        <5> QED
          BY <5>1, <5>2, <5>3, <5>4
      <4> QED
        BY <4>4, <4>5
    <3> HIDE DEF I
    <3>3. n \in I
      BY <1>1, <3>1, <3>2, NatInductionOnSets
    <3> USE DEF I
    <3>4. PICK f : Stages(f, n)
      BY <1>1, <3>3
    <3>5. f = [i \in 1 .. n |-> Step(f[i - 1], i)]
      BY <1>1, <3>4
    <3>6. Rec(f)
      BY <3>5 DEF Step
    <3> QED
      BY <3>6
  <2> DEFINE flatten == CHOOSE f : Rec(f)
  <2>3. FlattenSeq(seqs) = flatten[n]
    BY <1>3 DEF FlattenSeq
  <2> HIDE DEF Rec
  <2>4. Rec(flatten)
    BY <2>2
  <2> HIDE DEF flatten
  <2>5. flatten[n] \in T
    <3> DEFINE J == {i \in Nat : 1 <= i /\ i <= n => flatten[i] \in T}
    <3>1. flatten = [i \in 1 .. n |-> Step(flatten[i - 1], i)]
      BY <2>4 DEF Rec
    <3> HIDE DEF n, T, Step
    <3>2. 0 \in J
      OBVIOUS
    <3>3. ASSUME NEW i \in Nat, i \in J
          PROVE  i + 1 \in J
      <4>1. SUFFICES ASSUME i + 1 <= n
                     PROVE  flatten[i + 1] \in T
        OBVIOUS
      <4>2. flatten[i + 1] = Step(flatten[i], i + 1)
        BY <1>1, <3>1, <4>1
      <4>3. i # 0 => flatten[i] \in T
        BY <1>1, <3>3, <4>1
      <4> QED
        BY <1>1, <2>1, <4>1, <4>2, <4>3
    <3> HIDE DEF J
    <3>4. n \in J
      BY <1>1, <3>2, <3>3, NatInductionOnSets
    <3> QED
      BY <1>1, <1>3, <3>4 DEF J
  <2> QED
    BY <2>3, <2>5
<1> QED
  BY <1>2, <1>3
-----------------------------------------------------------------------------

\* Each of the encoder's own symbols but the end of a line is no newline.
LEMMA OwnSymbols ==
  /\ Quote \in Plain /\ Backslash \in Plain /\ "n" \in Plain /\ "t" \in Plain /\ "r" \in Plain
  /\ "u" \in Plain /\ "0001" \in Plain /\ "001b" \in Plain
  /\ "{" \in Plain /\ "}" \in Plain /\ "," \in Plain /\ ":" \in Plain
BY DEF Plain, Symbol, Own, Quote, Backslash, Newline

\* Nor is the name of a field or of a kind.
LEMMA NamesAndKinds ==
  /\ "kind" \in Plain /\ "pos" \in Plain /\ "char" \in Plain /\ "reason" \in Plain
  /\ "type" \in Plain /\ "client_id" \in Plain /\ "op_id" \in Plain /\ "message" \in Plain
  /\ "base_version" \in Plain /\ "server_version" \in Plain /\ "version" \in Plain
  /\ "history_start_version" \in Plain /\ "op" \in Plain /\ "original_op" \in Plain
  /\ "content" \in Plain
  /\ Kinds \subseteq Plain
  /\ Newline \in Symbol
BY DEF Plain, Symbol, Own, Newline, Kinds

\* A sequence of one element.
LEMMA ShortSequences ==
  ASSUME NEW S, NEW x \in S
  PROVE  <<x>> \in Seq(S)
OBVIOUS

\* A function on an interval that begins with 1 is a sequence.
LEMMA FunctionsAreSequences ==
  ASSUME NEW S, NEW n \in Nat, NEW f \in [1 .. n -> S]
  PROVE  f \in Seq(S)
OBVIOUS

\* Every symbol is escaped into symbols that are no newline (json_escape).
LEMMA EscapedIsPlain ==
  ASSUME NEW c \in Letter
  PROVE  Escaped(c) \in Seq(Plain)
<1>1. \A x, y, z \in Plain : <<x>> \in Seq(Plain) /\ <<x, y>> \in Seq(Plain) /\ <<x, y, z>> \in Seq(Plain)
  OBVIOUS
<1>2. CASE c \in {Quote, Backslash}
  <2>1. Escaped(c) = <<Backslash, c>>
    BY <1>2 DEF Escaped, Quote, Backslash, Newline, Controls
  <2> QED
    BY <1>1, <1>2, <2>1, OwnSymbols
<1>3. CASE c = Newline
  <2>1. Escaped(c) = <<Backslash, "n">>
    BY <1>3 DEF Escaped, Quote, Backslash, Newline, Controls
  <2> QED
    BY <1>1, <2>1, OwnSymbols
<1>4. CASE c = "\t"
  <2>1. Escaped(c) = <<Backslash, "t">>
    BY <1>4 DEF Escaped, Quote, Backslash, Newline, Controls
  <2> QED
    BY <1>1, <2>1, OwnSymbols
<1>5. CASE c = "\r"
  <2>1. Escaped(c) = <<Backslash, "r">>
    BY <1>5 DEF Escaped, Quote, Backslash, Newline, Controls
  <2> QED
    BY <1>1, <2>1, OwnSymbols
<1>6. CASE c \in DOMAIN Controls
  <2>1. Escaped(c) = <<Backslash, "u", Controls[c]>>
    BY <1>6 DEF Escaped, Quote, Backslash, Newline, Controls
  <2>2. Controls[c] \in {"0001", "001b"}
    BY <1>6 DEF Controls
  <2> QED
    BY <1>1, <2>1, <2>2, OwnSymbols
<1>7. CASE c \notin {Quote, Backslash, Newline, "\t", "\r"} \cup DOMAIN Controls
  <2>1. Escaped(c) = <<c>>
    BY <1>7 DEF Escaped
  <2>2. c \in Symbol
    BY DEF Symbol, Own, Letter
  <2> QED
    BY <1>1, <1>7, <2>1, <2>2 DEF Plain
<1> QED
  BY <1>2, <1>3, <1>4, <1>5, <1>6, <1>7

\* The parts of a line: symbols between quotes, a text, a number, a field, an
\* object (append_string_field, append_int_field, append_json_field_prefix).
LEMMA QuotedIsPlain ==
  ASSUME NEW symbols \in Seq(Plain)
  PROVE  Quoted(symbols) \in Seq(Plain)
<1>1. <<Quote>> \in Seq(Plain)
  BY OwnSymbols, ShortSequences
<1>2. <<Quote>> \o symbols \in Seq(Plain)
  BY <1>1, ConcatProperties
<1> QED
  BY <1>1, <1>2, ConcatProperties DEF Quoted

\* A text, whatever it holds.
LEMMA StringValueIsPlain ==
  ASSUME NEW text \in Seq(STRING)
  PROVE  StringValue(text) \in Seq(Plain)
<1> DEFINE parts == [i \in DOMAIN text |-> Escaped(text[i])]
<1>1. \A i \in DOMAIN text : Escaped(text[i]) \in Seq(Plain)
  <2>1. \A i \in DOMAIN text : text[i] \in STRING
    OBVIOUS
  <2> QED
    BY <2>1, EscapedIsPlain DEF Letter
<1>2. DOMAIN text = 1 .. Len(text) /\ Len(text) \in Nat
  OBVIOUS
<1>3. parts \in [1 .. Len(text) -> Seq(Plain)]
  BY <1>1, <1>2
<1> HIDE DEF parts
<1>4. parts \in Seq(Seq(Plain))
  BY <1>2, <1>3, FunctionsAreSequences
<1>5. FlattenSeq(parts) \in Seq(Plain)
  BY <1>4, FlattenedType
<1> QED
  BY <1>5, QuotedIsPlain DEF StringValue, parts

\* A number of one digit.
LEMMA NumeralIsPlain ==
  ASSUME NEW n \in 0 .. 9
  PROVE  Numeral(n) \in Seq(Plain)
<1>1. Numerals[n + 1] \in Plain
  <2>1. n + 1 \in 1 .. 10
    OBVIOUS
  <2>2. Numerals[n + 1] # Newline
    BY <2>1 DEF Numerals, Newline
  <2> QED
    BY <2>1, <2>2 DEF Plain, Symbol, Own
<1> QED
  BY <1>1 DEF Numeral

\* A field with its name.
LEMMA FieldIsPlain ==
  ASSUME NEW name \in Plain, NEW value \in Seq(Plain)
  PROVE  Field(name, value) \in Seq(Seq(Plain))
<1>1. <<name>> \in Seq(Plain) /\ <<":">> \in Seq(Plain)
  BY OwnSymbols, ShortSequences
<1>2. Quoted(<<name>>) \in Seq(Plain)
  BY <1>1, QuotedIsPlain
<1>3. Quoted(<<name>>) \o <<":">> \in Seq(Plain)
  BY <1>1, <1>2, ConcatProperties
<1>4. Quoted(<<name>>) \o <<":">> \o value \in Seq(Plain)
  BY <1>3, ConcatProperties
<1> DEFINE T == Seq(Plain)
           x == Quoted(<<name>>) \o <<":">> \o value
<1>5. x \in T /\ Field(name, value) = <<x>>
  BY <1>4 DEF Field
<1> HIDE DEF T, x
<1>6. Field(name, value) \in Seq(T)
  BY <1>5
<1> QED
  BY <1>6 DEF T

\* A field that is left out when it is empty, or negative.
LEMMA MaybeFieldIsPlain ==
  ASSUME NEW name \in Plain
  PROVE  /\ <<>> \in Seq(Seq(Plain))
         /\ \A text \in Seq(STRING) : StringField(name, text) \in Seq(Seq(Plain))
         /\ \A n \in -1 .. 9 : IntField(name, n) \in Seq(Seq(Plain))
<1>1. <<>> \in Seq(Seq(Plain))
  BY EmptySeq
<1>2. ASSUME NEW text \in Seq(STRING)
      PROVE  StringField(name, text) \in Seq(Seq(Plain))
  BY <1>1, StringValueIsPlain, FieldIsPlain DEF StringField
<1>3. ASSUME NEW n \in -1 .. 9
      PROVE  IntField(name, n) \in Seq(Seq(Plain))
  <2>1. CASE n < 0
    BY <1>1, <2>1 DEF IntField
  <2>2. CASE ~ n < 0
    <3>1. n \in 0 .. 9 /\ IntField(name, n) = Field(name, Numeral(n))
      BY <2>2 DEF IntField
    <3>2. Numeral(n) \in Seq(Plain)
      BY <3>1, NumeralIsPlain
    <3> QED
      BY <3>1, <3>2, FieldIsPlain
  <2> QED
    BY <2>1, <2>2
<1> QED
  BY <1>1, <1>2, <1>3

\* An object of fields.
LEMMA ObjectIsPlain ==
  ASSUME NEW fields \in Seq(Seq(Plain))
  PROVE  Object(fields) \in Seq(Plain)
<1> DEFINE T == Seq(Plain)
           parts == [i \in DOMAIN fields |-> IF i = 1 THEN fields[i] ELSE <<",">> \o fields[i]]
<1>1. DOMAIN fields = 1 .. Len(fields) /\ Len(fields) \in Nat
  OBVIOUS
<1>2. \A i \in DOMAIN fields : fields[i] \in T /\ <<",">> \o fields[i] \in T
  <2> TAKE i \in DOMAIN fields
  <2>1. fields[i] \in T
    OBVIOUS
  <2>2. <<",">> \in Seq(Plain)
    BY OwnSymbols, ShortSequences
  <2> QED
    BY <2>1, <2>2, ConcatProperties
<1>3. parts \in [1 .. Len(fields) -> T]
  <2> HIDE DEF T
  <2> QED
    BY <1>1, <1>2
<1> HIDE DEF parts
<1>4. parts \in Seq(Seq(Plain))
  BY <1>1, <1>3, FunctionsAreSequences
<1>5. FlattenSeq(parts) \in Seq(Plain)
  BY <1>4, FlattenedType
<1>6. <<"{">> \in Seq(Plain) /\ <<"}">> \in Seq(Plain)
  BY OwnSymbols, ShortSequences
<1>7. <<"{">> \o FlattenSeq(parts) \in Seq(Plain)
  BY <1>5, <1>6, ConcatProperties
<1>8. <<"{">> \o FlattenSeq(parts) \o <<"}">> \in Seq(Plain)
  BY <1>6, <1>7, ConcatProperties
<1> QED
  BY <1>8 DEF Object, parts

\* An operation inside a message (append_operation_field).
LEMMA OperationFieldIsPlain ==
  ASSUME NEW name \in Plain, NEW op, IsOperation(op)
  PROVE  OperationField(name, op) \in Seq(Seq(Plain))
<1> DEFINE kind == Field("kind", Quoted(<<op.kind>>))
           pos == Field("pos", Numeral(op.pos))
           char == IF op.kind = "insert" THEN Field("char", StringValue(op.char)) ELSE <<>>
           reason == StringField("reason", op.reason)
<1>1. op.kind \in Plain /\ op.pos \in 0 .. 9 /\ op.char \in Seq(STRING) /\ op.reason \in Seq(STRING)
  BY NamesAndKinds DEF IsOperation, TsOperation
<1>2. kind \in Seq(Seq(Plain))
  <2>1. <<op.kind>> \in Seq(Plain)
    BY <1>1
  <2> QED
    BY <2>1, NamesAndKinds, QuotedIsPlain, FieldIsPlain
<1>3. pos \in Seq(Seq(Plain))
  BY <1>1, NamesAndKinds, NumeralIsPlain, FieldIsPlain
<1>4. char \in Seq(Seq(Plain))
  BY <1>1, NamesAndKinds, StringValueIsPlain, FieldIsPlain, MaybeFieldIsPlain
<1>5. reason \in Seq(Seq(Plain))
  BY <1>1, NamesAndKinds, MaybeFieldIsPlain
<1>6. OperationField(name, op) = Field(name, Object(kind \o pos \o char \o reason))
  BY DEF OperationField
<1> HIDE DEF kind, pos, char, reason
<1>7. kind \o pos \o char \o reason \in Seq(Seq(Plain))
  BY <1>2, <1>3, <1>4, <1>5, ConcatProperties
<1> QED
  BY <1>6, <1>7, ObjectIsPlain, FieldIsPlain

\* What may be missing in a message is there once or not at all (has_op,
\* has_original_op and content of TsMessage).
LEMMA WhatMayBeMissing ==
  ASSUME NEW S, NEW maybe \in Seq(S), Len(maybe) <= 1
  PROVE  maybe = None \/ (maybe[1] \in S /\ 1 \in DOMAIN maybe /\ maybe = Some(maybe[1]))
<1> DEFINE n == Len(maybe)
<1>1. n \in Nat /\ n <= 1 /\ maybe \in [1 .. n -> S]
  OBVIOUS
<1> HIDE DEF n
<1>2. CASE n = 0
  BY <1>2 DEF None, n
<1>3. CASE n = 1
  <2>1. maybe \in [1 .. 1 -> S]
    BY <1>1, <1>3
  <2>2. maybe[1] \in S /\ 1 \in DOMAIN maybe
    BY <2>1
  <2>3. maybe = <<maybe[1]>>
    BY <1>3 DEF n
  <2> QED
    BY <2>2, <2>3 DEF Some
<1> QED
  BY <1>1, <1>2, <1>3

\* The parts of a message.
LEMMA MessageParts ==
  ASSUME NEW m, IsMessage(m)
  PROVE  /\ m.type \in STRING
         /\ m.client_id \in Seq(STRING) /\ m.op_id \in Seq(STRING)
         /\ m.message \in Seq(STRING) /\ m.reason \in Seq(STRING)
         /\ m.base_version \in -1 .. 9 /\ m.server_version \in -1 .. 9
         /\ m.version \in -1 .. 9 /\ m.history_start_version \in -1 .. 9
         /\ m.op = None \/ (IsOperation(m.op[1]) /\ m.op = Some(m.op[1]))
         /\ m.original_op = None \/ (IsOperation(m.original_op[1]) /\ m.original_op = Some(m.original_op[1]))
         /\ m.content = None \/ (m.content[1] \in Seq(STRING) /\ m.content = Some(m.content[1]))
<1>1. m \in TsMessage
  BY DEF IsMessage
<1>2. /\ m.type \in STRING
      /\ m.client_id \in Seq(STRING) /\ m.op_id \in Seq(STRING)
      /\ m.message \in Seq(STRING) /\ m.reason \in Seq(STRING)
      /\ m.base_version \in -1 .. 9 /\ m.server_version \in -1 .. 9
      /\ m.version \in -1 .. 9 /\ m.history_start_version \in -1 .. 9
  BY <1>1 DEF TsMessage
<1>3. m.op \in Seq(TsOperation) /\ m.original_op \in Seq(TsOperation) /\ m.content \in Seq(Seq(STRING))
  BY <1>1 DEF TsMessage
<1>4. m.op = None \/ (IsOperation(m.op[1]) /\ m.op = Some(m.op[1]))
  <2>1. m.op = None \/ (1 \in DOMAIN m.op /\ m.op = Some(m.op[1]))
    BY <1>3, WhatMayBeMissing DEF IsMessage
  <2> QED
    BY <2>1 DEF IsMessage
<1>5. m.original_op = None \/ (IsOperation(m.original_op[1]) /\ m.original_op = Some(m.original_op[1]))
  <2>1. m.original_op = None \/ (1 \in DOMAIN m.original_op /\ m.original_op = Some(m.original_op[1]))
    BY <1>3, WhatMayBeMissing DEF IsMessage
  <2> QED
    BY <2>1 DEF IsMessage
<1>6. m.content = None \/ (m.content[1] \in Seq(STRING) /\ m.content = Some(m.content[1]))
  BY <1>3, WhatMayBeMissing DEF IsMessage
<1> QED
  BY <1>2, <1>4, <1>5, <1>6

\* For every message, whatever its texts hold, a newline in one included: the
\* line is a sequence of symbols of which the last is a newline and no other
\* is (ts_encode_message).
THEOREM OneLinePerMessage ==
  ASSUME NEW m, IsMessage(m)
  PROVE  /\ Encode(m) \in Seq(Symbol)
         /\ Len(Encode(m)) \in Nat \ {0}
         /\ \A i \in 1 .. Len(Encode(m)) : Encode(m)[i] = Newline <=> i = Len(Encode(m))
<1> DEFINE T == Seq(Plain)
           type == StringField("type", <<m.type>>)
           clientId == StringField("client_id", m.client_id)
           opId == StringField("op_id", m.op_id)
           base == IntField("base_version", m.base_version)
           server == IntField("server_version", m.server_version)
           version == IntField("version", m.version)
           start == IntField("history_start_version", m.history_start_version)
           op == IF m.op = None THEN <<>> ELSE OperationField("op", m.op[1])
           original == IF m.original_op = None THEN <<>> ELSE OperationField("original_op", m.original_op[1])
           message == StringField("message", m.message)
           reason == StringField("reason", m.reason)
           content == IF m.content = None THEN <<>> ELSE Field("content", StringValue(m.content[1]))
           object == Object(type \o clientId \o opId \o base \o server \o version \o start
                              \o op \o original \o message \o reason \o content)
<1>1. Encode(m) = object \o <<Newline>>
  BY DEF Encode
<1>2. type \in Seq(T) /\ clientId \in Seq(T) /\ opId \in Seq(T) /\ message \in Seq(T) /\ reason \in Seq(T)
  <2>1. /\ <<m.type>> \in Seq(STRING)
        /\ m.client_id \in Seq(STRING) /\ m.op_id \in Seq(STRING)
        /\ m.message \in Seq(STRING) /\ m.reason \in Seq(STRING)
    BY MessageParts
  <2>2. /\ "type" \in Plain /\ "client_id" \in Plain /\ "op_id" \in Plain
        /\ "message" \in Plain /\ "reason" \in Plain
    BY NamesAndKinds
  <2> QED
    BY <2>1, <2>2, MaybeFieldIsPlain
<1>3. base \in Seq(T) /\ server \in Seq(T) /\ version \in Seq(T) /\ start \in Seq(T)
  <2>1. /\ m.base_version \in -1 .. 9 /\ m.server_version \in -1 .. 9
        /\ m.version \in -1 .. 9 /\ m.history_start_version \in -1 .. 9
    BY MessageParts
  <2>2. /\ "base_version" \in Plain /\ "server_version" \in Plain
        /\ "version" \in Plain /\ "history_start_version" \in Plain
    BY NamesAndKinds
  <2> QED
    BY <2>1, <2>2, MaybeFieldIsPlain
<1>4. op \in Seq(T) /\ original \in Seq(T)
  <2>1. "op" \in Plain /\ "original_op" \in Plain /\ <<>> \in Seq(T)
    BY NamesAndKinds, EmptySeq
  <2>2. /\ m.op = None \/ IsOperation(m.op[1])
        /\ m.original_op = None \/ IsOperation(m.original_op[1])
    BY MessageParts
  <2> QED
    BY <2>1, <2>2, OperationFieldIsPlain
<1>5. content \in Seq(T)
  <2>1. "content" \in Plain /\ <<>> \in Seq(T)
    BY NamesAndKinds, EmptySeq
  <2>2. m.content = None \/ m.content[1] \in Seq(STRING)
    BY MessageParts
  <2> QED
    BY <2>1, <2>2, StringValueIsPlain, FieldIsPlain
<1>6. object \in Seq(Plain)
  <2> HIDE DEF T, type, clientId, opId, base, server, version, start, op, original, message, reason, content
  <2>1. type \o clientId \o opId \o base \o server \o version \in Seq(T)
    BY <1>2, <1>3, ConcatProperties
  <2>2. type \o clientId \o opId \o base \o server \o version \o start \o op \o original \in Seq(T)
    BY <1>3, <1>4, <2>1, ConcatProperties
  <2>3. type \o clientId \o opId \o base \o server \o version \o start \o op \o original
          \o message \o reason \o content \in Seq(T)
    BY <1>2, <1>5, <2>2, ConcatProperties
  <2> QED
    BY <2>3, ObjectIsPlain DEF T
<1> HIDE DEF object
<1>7. /\ object \in Seq(Symbol) /\ <<Newline>> \in Seq(Symbol)
      /\ \A i \in 1 .. Len(object) : object[i] # Newline
  BY <1>6, NamesAndKinds DEF Plain
<1>8. /\ Encode(m) \in Seq(Symbol)
      /\ Len(Encode(m)) = Len(object) + 1
      /\ \A i \in 1 .. Len(object) + 1 :
           Encode(m)[i] = IF i <= Len(object) THEN object[i] ELSE Newline
  BY <1>1, <1>7, ConcatProperties
<1>9. Len(object) \in Nat
  BY <1>6
<1> QED
  BY <1>7, <1>8, <1>9

-------------------------------------------------------------------------------

\* What one pass over a definition makes of a candidate depends on what the
\* candidate is at smaller places only.
Local(B, D, V, measure) ==
  \A f, g \in [D -> V] : \A x \in D :
    (\A y \in D : measure[y] < measure[x] => f[y] = g[y]) => B[f][x] = B[g][x]

\* The candidate is a fixed point below n.
FixedBelow(B, D, V, measure, f, n) ==
  f \in [D -> V] /\ \A x \in D : measure[x] < n => f[x] = B[f][x]

\* There is a measure that keeps the definition from going on for ever.
ComesCloser(B, D, V, measure, N) ==
  /\ N \in Nat
  /\ measure \in [D -> 0 .. N]
  /\ B \in [[D -> V] -> [D -> V]]
  /\ Local(B, D, V, measure)

\* The function that is defined.
Fixed(B, D, V, f) == f \in [D -> V] /\ f = B[f]

\* A recursive definition that comes closer to its end with every call defines a
\* function (the loops of parse_json_string_alloc and json_get_object end).
LEMMA Recursion ==
  ASSUME NEW D, NEW V, NEW v \in V, NEW N, NEW measure, NEW B, ComesCloser(B, D, V, measure, N)
  PROVE  \E f : Fixed(B, D, V, f)
<1> USE DEF ComesCloser
<1> DEFINE I == {n \in Nat : \E f : FixedBelow(B, D, V, measure, f, n)}
<1>1. 0 \in I
  <2> DEFINE f == [x \in D |-> v]
  <2>1. f \in [D -> V]
    OBVIOUS
  <2>2. \A x \in D : ~ measure[x] < 0
    OBVIOUS
  <2> HIDE DEF f
  <2>3. FixedBelow(B, D, V, measure, f, 0)
    BY <2>1, <2>2 DEF FixedBelow
  <2> QED
    BY <2>3
<1>2. ASSUME NEW n \in Nat, n \in I
      PROVE  n + 1 \in I
  <2>1. PICK f : FixedBelow(B, D, V, measure, f, n)
    BY <1>2
  <2> DEFINE g == B[f]
  <2>2. f \in [D -> V] /\ g \in [D -> V]
    BY <2>1 DEF FixedBelow
  <2>3. ASSUME NEW x \in D, measure[x] < n + 1
        PROVE  g[x] = B[g][x]
    <3>1. \A y \in D : measure[y] < measure[x] => f[y] = g[y]
      <4> TAKE y \in D
      <4>1. measure[y] \in Nat /\ measure[x] \in Nat
        OBVIOUS
      <4>2. measure[y] < measure[x] => measure[y] < n
        BY <2>3, <4>1
      <4> QED
        BY <2>1, <4>2 DEF FixedBelow
    <3> HIDE DEF g
    <3>2. B[f][x] = B[g][x]
      BY <2>2, <3>1 DEF Local
    <3> QED
      BY <3>2 DEF g
  <2>4. FixedBelow(B, D, V, measure, g, n + 1)
    <3> HIDE DEF g
    <3> QED
      BY <2>2, <2>3 DEF FixedBelow
  <2> QED
    BY <2>4
<1>3. N + 1 \in I
  <2> HIDE DEF I
  <2>1. Nat \subseteq I
    BY <1>1, <1>2, NatInductionOnSets
  <2> QED
    BY <2>1
<1>4. PICK f : FixedBelow(B, D, V, measure, f, N + 1)
  BY <1>3
<1>5. f \in [D -> V] /\ \A x \in D : f[x] = B[f][x]
  <2>1. \A x \in D : measure[x] < N + 1
    OBVIOUS
  <2> QED
    BY <1>4, <2>1 DEF FixedBelow
<1>6. B[f] \in [D -> V]
  BY <1>5
<1>7. f = B[f]
  BY <1>5, <1>6
<1> QED
  BY <1>5, <1>7 DEF Fixed

\* A sequence of sequences written one after the other, part by part.
Writes(f, seqs, S) ==
  /\ f \in [0 .. Len(seqs) -> Seq(S)]
  /\ f[0] = <<>>
  /\ \A i \in 1 .. Len(seqs) : f[i] = f[i - 1] \o seqs[i]
  /\ FlattenSeq(seqs) = f[Len(seqs)]

\* A flattened sequence is written part by part: the fields of an object as the
\* encoder appends them one after the other (append_json_field_prefix).
LEMMA PartByPart ==
  ASSUME NEW S, NEW seqs \in Seq(Seq(S))
  PROVE  \E f : Writes(f, seqs, S)
<1> DEFINE n == Len(seqs)
           T == Seq(S)
           none == <<>>
<1>1. n \in Nat /\ \A i \in 1 .. n : seqs[i] \in T
  OBVIOUS
<1>2. none \in T /\ \A w \in T : none \o w = w
  BY EmptySeq, ConcatEmptySeq
<1>3. \A u, w \in T : u \o w \in T
  BY ConcatProperties
<1> DEFINE Stages(f, k) == f \in [0 .. k -> T] /\ f[0] = none /\ \A i \in 1 .. k : f[i] = f[i - 1] \o seqs[i]
           I == {k \in Nat : k <= n => \E f : Stages(f, k)}
<1> HIDE DEF n, T, none, Stages
<1>4. 0 \in I
  <2> DEFINE f == [i \in 0 .. 0 |-> none]
  <2>1. none \in T
    BY <1>2
  <2>2. f \in [0 .. 0 -> T] /\ f[0] = none
    BY <2>1
  <2> HIDE DEF f
  <2>3. Stages(f, 0)
    BY <2>2 DEF Stages
  <2> QED
    BY <2>3
<1>5. ASSUME NEW k \in Nat, k \in I
      PROVE  k + 1 \in I
  <2>1. SUFFICES ASSUME k + 1 <= n
                 PROVE  \E f : Stages(f, k + 1)
    OBVIOUS
  <2>2. PICK f : Stages(f, k)
    <3>1. k <= n
      BY <1>1, <2>1
    <3> QED
      BY <1>5, <3>1
  <2> DEFINE next == f[k] \o seqs[k + 1]
             g == [i \in 0 .. k + 1 |-> IF i <= k THEN f[i] ELSE next]
  <2>3. next \in T
    <3>1. k + 1 \in 1 .. n /\ k \in 0 .. k
      BY <1>1, <2>1
    <3>2. f[k] \in T /\ seqs[k + 1] \in T
      BY <1>1, <2>2, <3>1 DEF Stages
    <3> QED
      BY <1>3, <3>2
  <2> HIDE DEF next
  <2>4. g \in [0 .. k + 1 -> T] /\ g[0] = none
    BY <2>2, <2>3 DEF Stages
  <2>5. ASSUME NEW i \in 1 .. k + 1
        PROVE  g[i] = g[i - 1] \o seqs[i]
    <3> DEFINE j == i - 1
    <3>1. j \in 0 .. k /\ j \in 0 .. k + 1 /\ g[j] = f[j]
      OBVIOUS
    <3> HIDE DEF j
    <3>2. CASE i <= k
      <4>1. i \in 1 .. k /\ g[i] = f[i]
        BY <3>2
      <4>2. f[i] = f[i - 1] \o seqs[i]
        BY <2>2, <4>1 DEF Stages
      <4> HIDE DEF g
      <4> QED
        BY <3>1, <4>1, <4>2 DEF j
    <3>3. CASE ~ i <= k
      <4>1. i = k + 1 /\ j = k /\ g[i] = next
        BY <3>3 DEF j
      <4> HIDE DEF g
      <4> QED
        BY <3>1, <4>1 DEF j, next
    <3> QED
      BY <3>2, <3>3
  <2>6. Stages(g, k + 1)
    <3> HIDE DEF g
    <3> QED
      BY <2>4, <2>5 DEF Stages
  <2> QED
    BY <2>6
<1> HIDE DEF I
<1>6. n \in I
  BY <1>1, <1>4, <1>5, NatInductionOnSets
<1> USE DEF I
<1>7. PICK f : Stages(f, n)
  BY <1>1, <1>6
<1> USE DEF Stages
<1>8. FlattenSeq(seqs) = f[n]
  <2>1. CASE n = 0
    <3>1. seqs = <<>>
      BY <2>1 DEF n
    <3> QED
      BY <1>7, <2>1, <3>1 DEF FlattenSeq, none
  <2>2. CASE n # 0
    <3> DEFINE Rec(h) == h = [i \in 1 .. n |-> IF i = 1 THEN seqs[i] ELSE h[i - 1] \o seqs[i]]
               flatten == CHOOSE h : Rec(h)
               g == [i \in 1 .. n |-> f[i]]
    <3>1. FlattenSeq(seqs) = flatten[n]
      BY <2>2 DEF FlattenSeq, n
    <3>2. ASSUME NEW i \in 1 .. n
          PROVE  f[i] = IF i = 1 THEN seqs[i] ELSE f[i - 1] \o seqs[i]
      <4>1. f[i] = f[i - 1] \o seqs[i] /\ seqs[i] \in T
        BY <1>1, <1>7
      <4>2. CASE i = 1
        <5>1. f[i - 1] = none
          BY <1>7, <4>2
        <5> QED
          BY <1>2, <4>1, <4>2, <5>1
      <4>3. CASE i # 1
        BY <4>1, <4>3
      <4> QED
        BY <4>2, <4>3
    <3>3. Rec(g)
      <4>1. ASSUME NEW i \in 1 .. n
            PROVE  g[i] = IF i = 1 THEN seqs[i] ELSE g[i - 1] \o seqs[i]
        <5>1. g[i] = f[i] /\ (i # 1 => i - 1 \in 1 .. n /\ g[i - 1] = f[i - 1])
          BY <1>1
        <5> QED
          BY <3>2, <5>1
      <4> QED
        BY <4>1
    <3> HIDE DEF Rec
    <3>4. Rec(flatten)
      BY <3>3
    <3> HIDE DEF flatten
    <3>5. flatten = [i \in 1 .. n |-> IF i = 1 THEN seqs[i] ELSE flatten[i - 1] \o seqs[i]]
      BY <3>4 DEF Rec
    <3> DEFINE J == {i \in Nat : 1 <= i /\ i <= n => flatten[i] = f[i]}
    <3>6. 0 \in J
      OBVIOUS
    <3>7. ASSUME NEW i \in Nat, i \in J
          PROVE  i + 1 \in J
      <4>1. SUFFICES ASSUME i + 1 <= n
                     PROVE  flatten[i + 1] = f[i + 1]
        OBVIOUS
      <4> DEFINE l == i + 1
      <4>2. l \in 1 .. n /\ l - 1 = i /\ (l # 1 => flatten[i] = f[i])
        BY <1>1, <3>7, <4>1
      <4> HIDE DEF l, J
      <4>3. flatten[l] = IF l = 1 THEN seqs[l] ELSE flatten[l - 1] \o seqs[l]
        BY <3>5, <4>2
      <4>4. f[l] = IF l = 1 THEN seqs[l] ELSE f[l - 1] \o seqs[l]
        BY <3>2, <4>2
      <4>5. flatten[l] = f[l]
        BY <4>2, <4>3, <4>4
      <4> QED
        BY <4>5 DEF l
    <3> HIDE DEF J
    <3>8. n \in J
      BY <1>1, <3>6, <3>7, NatInductionOnSets
    <3>9. flatten[n] = f[n]
      BY <1>1, <2>2, <3>8 DEF J
    <3> QED
      BY <3>1, <3>9
  <2> QED
    BY <2>1, <2>2
<1>9. Writes(f, seqs, S)
  BY <1>7, <1>8 DEF Writes, n, T, none
<1> QED
  BY <1>9

\* An empty sequence of parts, one more part, and one part only.
LEMMA NothingFlattened ==
  FlattenSeq(<<>>) = <<>>
BY DEF FlattenSeq

\* A part appended goes behind what is written (append_json_field_prefix).
LEMMA OneMorePart ==
  ASSUME NEW S, NEW seqs \in Seq(Seq(S)), NEW e \in Seq(S)
  PROVE  FlattenSeq(Append(seqs, e)) = FlattenSeq(seqs) \o e
<1> DEFINE T == Seq(S)
           n == Len(seqs)
           more == Append(seqs, e)
<1>1. n \in Nat /\ more \in Seq(T) /\ Len(more) = n + 1
  <2>1. seqs \in Seq(T) /\ e \in T
    OBVIOUS
  <2> HIDE DEF T
  <2> QED
    BY <2>1
<1>2. more[n + 1] = e /\ \A i \in 1 .. n : more[i] = seqs[i]
  OBVIOUS
<1>3. PICK f : Writes(f, seqs, S)
  BY PartByPart
<1>4. PICK g : Writes(g, more, S)
  BY <1>1, PartByPart
<1> HIDE DEF more, n
<1> DEFINE I == {i \in Nat : i <= n => g[i] = f[i]}
<1>5. 0 \in I
  BY <1>3, <1>4 DEF Writes
<1>6. ASSUME NEW i \in Nat, i \in I
      PROVE  i + 1 \in I
  <2>1. SUFFICES ASSUME i + 1 <= n
                 PROVE  g[i + 1] = f[i + 1]
    OBVIOUS
  <2> DEFINE l == i + 1
  <2>2. l \in 1 .. n /\ l \in 1 .. n + 1 /\ l - 1 = i /\ g[i] = f[i]
    BY <1>1, <1>6, <2>1
  <2> HIDE DEF l, I
  <2>3. f[l] = f[l - 1] \o seqs[l]
    BY <1>3, <2>2 DEF Writes, n
  <2>4. g[l] = g[l - 1] \o more[l]
    BY <1>1, <1>4, <2>2 DEF Writes
  <2>5. g[l] = f[l]
    BY <1>2, <2>2, <2>3, <2>4
  <2> QED
    BY <2>5 DEF l
<1> HIDE DEF I
<1>7. n \in I
  BY <1>1, <1>5, <1>6, NatInductionOnSets
<1>8. g[n] = f[n]
  BY <1>1, <1>7 DEF I
<1> DEFINE l == n + 1
<1>9. l \in 1 .. n + 1 /\ l - 1 = n
  BY <1>1
<1> HIDE DEF l
<1>10. g[l] = g[l - 1] \o more[l] /\ FlattenSeq(more) = g[l]
  BY <1>1, <1>4, <1>9 DEF Writes, l
<1>11. FlattenSeq(seqs) = f[n]
  BY <1>3 DEF Writes, n
<1>12. more[l] = e
  BY <1>2 DEF l
<1>13. FlattenSeq(more) = FlattenSeq(seqs) \o e
  BY <1>8, <1>9, <1>10, <1>11, <1>12
<1> QED
  BY <1>13 DEF more

\* One part alone is written as it is (append_json_field_prefix).
LEMMA OnePart ==
  ASSUME NEW S, NEW e \in Seq(S)
  PROVE  FlattenSeq(<<e>>) = e
<1>1. <<>> \in Seq(Seq(S)) /\ Append(<<>>, e) = <<e>>
  OBVIOUS
<1>2. FlattenSeq(Append(<<>>, e)) = <<>> \o e
  BY <1>1, OneMorePart, NothingFlattened
<1>3. <<>> \o e = e
  BY ConcatEmptySeq
<1> QED
  BY <1>1, <1>2, <1>3

\* The fields of an object, separated by commas, and what one more field adds to
\* them (append_json_field_prefix).
WithCommas(fields) == [i \in DOMAIN fields |-> IF i = 1 THEN fields[i] ELSE <<",">> \o fields[i]]
Separated(fields) == FlattenSeq(WithCommas(fields))
Comma(field) == IF field = <<>> THEN <<>> ELSE <<",">> \o field[1]

\* The first field gets no comma (append_json_field_prefix).
LEMMA OneField ==
  ASSUME NEW w \in Seq(Symbol)
  PROVE  Separated(<<w>>) = w
<1> DEFINE fields == <<w>>
           parts == WithCommas(fields)
<1>1. DOMAIN fields = 1 .. 1 /\ fields[1] = w
  OBVIOUS
<1> HIDE DEF fields
<1>2. parts = [i \in 1 .. 1 |-> w]
  BY <1>1 DEF WithCommas
<1>3. [i \in 1 .. 1 |-> w] = <<w>>
  OBVIOUS
<1>4. FlattenSeq(parts) = w
  BY <1>2, <1>3, OnePart
<1> QED
  BY <1>4 DEF Separated, fields

\* Every field but the first gets a comma in front of it (append_json_field_prefix).
LEMMA WithCommasType ==
  ASSUME NEW fields \in Seq(Seq(Symbol))
  PROVE  /\ WithCommas(fields) \in Seq(Seq(Symbol))
         /\ Len(WithCommas(fields)) = Len(fields)
         /\ Len(fields) \in Nat
         /\ \A i \in 1 .. Len(fields) :
              WithCommas(fields)[i] = IF i = 1 THEN fields[i] ELSE <<",">> \o fields[i]
<1> DEFINE n == Len(fields)
           T == Seq(Symbol)
<1>1. n \in Nat /\ DOMAIN fields = 1 .. n
  OBVIOUS
<1>2. <<",">> \in Seq(Symbol)
  <2>1. "," \in Symbol
    BY OwnSymbols DEF Plain
  <2> QED
    BY <2>1, ShortSequences
<1>3. ASSUME NEW i \in 1 .. n
      PROVE  fields[i] \in T /\ <<",">> \o fields[i] \in T
  <2>1. fields[i] \in Seq(Symbol)
    OBVIOUS
  <2> QED
    BY <1>2, <2>1, ConcatProperties
<1> HIDE DEF n, T
<1>4. WithCommas(fields) \in [1 .. n -> T]
  BY <1>1, <1>3 DEF WithCommas
<1>5. WithCommas(fields) \in Seq(T)
  BY <1>1, <1>4, FunctionsAreSequences
<1>6. Len(WithCommas(fields)) = n
  BY <1>1, <1>4, <1>5
<1>7. \A i \in 1 .. n : WithCommas(fields)[i] = IF i = 1 THEN fields[i] ELSE <<",">> \o fields[i]
  BY <1>1 DEF WithCommas
<1> QED
  BY <1>1, <1>5, <1>6, <1>7 DEF n, T

\* One field more, or none, goes with its comma behind the fields that are written
\* (append_json_field_prefix).
LEMMA OneMoreField ==
  ASSUME NEW fields \in Seq(Seq(Symbol)), fields # <<>>,
         NEW field \in Seq(Seq(Symbol)), Len(field) <= 1
  PROVE  /\ fields \o field \in Seq(Seq(Symbol)) /\ fields \o field # <<>>
         /\ Separated(fields \o field) = Separated(fields) \o Comma(field)
<1> DEFINE T == Seq(Symbol)
           n == Len(fields)
           u == WithCommas(fields)
<1>0. n \in Nat /\ n # 0
  BY EmptySeq
<1>1. /\ u \in Seq(T) /\ Len(u) = n
      /\ \A i \in 1 .. n : u[i] = IF i = 1 THEN fields[i] ELSE <<",">> \o fields[i]
  BY WithCommasType
<1>2. CASE field = <<>>
  <2>1. fields \o field = fields
    BY <1>2, ConcatEmptySeq
  <2> DEFINE w == Separated(fields)
  <2>2. w \in Seq(Symbol)
    BY <1>1, FlattenedType DEF Separated, T
  <2> HIDE DEF w
  <2>3. w \o <<>> = w
    BY <2>2, ConcatEmptySeq
  <2> QED
    BY <1>2, <2>1, <2>3 DEF Comma, w
<1>3. CASE field # <<>>
  <2>1. field[1] \in Seq(Symbol) /\ field = <<field[1]>>
    BY <1>3, WhatMayBeMissing DEF None, Some
  <2> DEFINE w == field[1]
             more == fields \o field
             comma == <<",">> \o w
  <2>2. fields \o field = Append(fields, w)
    <3> HIDE DEF w
    <3>1. field = <<w>> /\ w \in T
      BY <2>1 DEF w
    <3> HIDE DEF T
    <3>2. fields \in Seq(T)
      BY DEF T
    <3> QED
      BY <3>1, <3>2
  <2>3. more \in Seq(T) /\ Len(more) = n + 1 /\ more[n + 1] = w /\ \A i \in 1 .. n : more[i] = fields[i]
    <3> HIDE DEF w
    <3>1. w \in T /\ fields \in Seq(T)
      BY <2>1 DEF w
    <3> HIDE DEF T
    <3> QED
      BY <2>2, <3>1
  <2>4. comma \in T
    <3>1. "," \in Symbol
      BY OwnSymbols DEF Plain
    <3>2. <<",">> \in Seq(Symbol)
      BY <3>1, ShortSequences
    <3> QED
      BY <2>1, <3>2, ConcatProperties
  <2> DEFINE s == WithCommas(more)
             t == Append(u, comma)
  <2>5. s \in Seq(T) /\ Len(s) = n + 1 /\ \A i \in 1 .. n + 1 : s[i] = IF i = 1 THEN more[i] ELSE <<",">> \o more[i]
    <3> HIDE DEF more, n
    <3> QED
      BY <2>3, WithCommasType
  <2> HIDE DEF w, more, comma, T, n, s, u
  <2>6. t \in Seq(T) /\ Len(t) = n + 1 /\ t[n + 1] = comma /\ \A i \in 1 .. n : t[i] = u[i]
    <3>1. u \in Seq(T) /\ Len(u) = n
      BY <1>1
    <3> QED
      BY <1>0, <2>4, <3>1
  <2> HIDE DEF t
  <2>7. ASSUME NEW i \in 1 .. n + 1
        PROVE  s[i] = t[i]
    <3>1. s[i] = IF i = 1 THEN more[i] ELSE <<",">> \o more[i]
      BY <2>5
    <3>2. CASE i \in 1 .. n
      <4>1. t[i] = IF i = 1 THEN fields[i] ELSE <<",">> \o fields[i]
        BY <1>1, <2>6, <3>2
      <4>2. more[i] = fields[i]
        BY <2>3, <3>2
      <4> QED
        BY <3>1, <4>1, <4>2
    <3>3. CASE i = n + 1
      <4>1. i # 1
        BY <1>0, <3>3
      <4>2. more[i] = w /\ t[i] = comma
        BY <2>3, <2>6, <3>3
      <4> QED
        BY <3>1, <4>1, <4>2 DEF comma
    <3> QED
      BY <1>0, <3>2, <3>3
  <2>8. s = t
    <3>1. s = [i \in 1 .. n + 1 |-> s[i]]
      <4>1. s \in Seq(T) /\ Len(s) = n + 1
        BY <2>5
      <4> QED
        BY <4>1
    <3>2. t = [i \in 1 .. n + 1 |-> t[i]]
      <4>1. t \in Seq(T) /\ Len(t) = n + 1
        BY <2>6
      <4> QED
        BY <4>1
    <3> QED
      BY <2>7, <3>1, <3>2
  <2>9. FlattenSeq(Append(u, comma)) = FlattenSeq(u) \o comma
    BY <1>1, <2>4, OneMorePart DEF T
  <2>10. Separated(more) = Separated(fields) \o comma
    BY <2>8, <2>9 DEF Separated, s, t, u
  <2>11. Comma(field) = comma
    BY <1>3 DEF Comma, comma, w
  <2>12. more # <<>>
    <3>1. Len(more) # 0
      BY <1>0, <2>3
    <3> QED
      BY <3>1, EmptySeq
  <2> QED
    BY <2>3, <2>10, <2>11, <2>12 DEF more, T
<1> QED
  BY <1>2, <1>3

-------------------------------------------------------------------------------

\* The names the decoder looks for.
Keys ==
  {"kind", "pos", "char", "reason", "type", "client_id", "op_id", "base_version", "server_version",
   "version", "history_start_version", "op", "original_op", "message", "content"}

\* A place of a word where the field of that name begins: the one thing find_key
\* looks for.
Hit(w, key, p) ==
  /\ p \in 1 .. Len(w) - 3
  /\ w[p] = Quote /\ w[p + 1] = key /\ w[p + 2] = Quote /\ w[p + 3] = ":"

\* Part is in w, right after the first n symbols.
Occurs(part, w, n) ==
  /\ n \in Nat
  /\ n + Len(part) <= Len(w)
  /\ \A i \in 1 .. Len(part) : w[n + i] = part[i]

\* The value of the first field of that name in w, if there is one.
Finds(w, key, value) ==
  \/ value = None /\ \A p \in Nat : ~ Hit(w, key, p)
  \/ \E p \in Nat : /\ Hit(w, key, p) /\ \A q \in Nat : Hit(w, key, q) => p <= q
                    /\ \E v \in Seq(Symbol) : v # <<>> /\ value = Some(v) /\ Occurs(v, w, p + 3)

\* No field begins across the ends of a word and what is written before or after
\* it.
Edges(w) == w = <<>> \/ (w[1] \notin Keys \cup {":"} /\ w[Len(w)] \notin Keys)

\* A part of a line, and what the decoder finds in it.
Shows(w, found) == w \in Seq(Symbol) /\ Edges(w) /\ \A key \in Keys : Finds(w, key, found[key])

Nothing == [key \in Keys |-> None]
Only(name, value) == [key \in Keys |-> IF key = name THEN Some(value) ELSE None]
First(found, then) == [key \in Keys |-> IF found[key] # None THEN found[key] ELSE then[key]]

\* Two words, one after the other.
LEMMA TwoWords ==
  ASSUME NEW S, NEW a \in Seq(S), NEW b \in Seq(S)
  PROVE  /\ a \o b \in Seq(S)
         /\ Len(a) \in Nat /\ Len(b) \in Nat /\ Len(a \o b) = Len(a) + Len(b)
         /\ \A i \in 1 .. Len(a) : (a \o b)[i] = a[i]
         /\ \A i \in 1 .. Len(b) : (a \o b)[Len(a) + i] = b[i]
OBVIOUS

\* A field of two words side by side begins in one of them.
LEMMA HitsOfTwoWords ==
  ASSUME NEW a \in Seq(Symbol), NEW b \in Seq(Symbol), Edges(a), Edges(b), NEW key \in Keys, NEW p \in Nat
  PROVE  /\ Hit(a, key, p) => Hit(a \o b, key, p)
         /\ Hit(b, key, p) => Hit(a \o b, key, Len(a) + p)
         /\ Hit(a \o b, key, p) => Hit(a, key, p) \/ (p > Len(a) /\ Hit(b, key, p - Len(a)))
<1> DEFINE n == Len(a)
           l == Len(b)
           c == a \o b
<1>1. /\ n \in Nat /\ l \in Nat /\ Len(c) = n + l
      /\ \A i \in 1 .. n : c[i] = a[i]
      /\ \A i \in 1 .. l : c[n + i] = b[i]
  BY TwoWords
<1>2. n = 0 \/ a[n] \notin Keys
  <2>1. a = <<>> => n = 0
    OBVIOUS
  <2> QED
    BY <2>1 DEF Edges
<1>3. l = 0 \/ b[1] \notin Keys \cup {":"}
  <2>1. b = <<>> => l = 0
    OBVIOUS
  <2> QED
    BY <2>1 DEF Edges
<1> HIDE DEF n, l, c
<1>4. ASSUME Hit(a, key, p) PROVE Hit(c, key, p)
  <2>1. p \in 1 .. n - 3
    BY <1>4 DEF Hit, n
  <2>2. p \in 1 .. n /\ p + 1 \in 1 .. n /\ p + 2 \in 1 .. n /\ p + 3 \in 1 .. n
    BY <1>1, <2>1
  <2>3. c[p] = a[p] /\ c[p + 1] = a[p + 1] /\ c[p + 2] = a[p + 2] /\ c[p + 3] = a[p + 3]
    BY <1>1, <2>2
  <2>4. p \in 1 .. Len(c) - 3
    BY <1>1, <2>1
  <2> QED
    BY <1>4, <2>3, <2>4 DEF Hit
<1>5. ASSUME Hit(b, key, p) PROVE Hit(c, key, n + p)
  <2>1. p \in 1 .. l - 3
    BY <1>5 DEF Hit, l
  <2>2. /\ c[n + p] = b[p] /\ c[n + (p + 1)] = b[p + 1] /\ c[n + (p + 2)] = b[p + 2] /\ c[n + (p + 3)] = b[p + 3]
    BY <1>1, <2>1
  <2>3. n + (p + 1) = (n + p) + 1 /\ n + (p + 2) = (n + p) + 2 /\ n + (p + 3) = (n + p) + 3
    BY <1>1
  <2>4. n + p \in 1 .. Len(c) - 3
    BY <1>1, <2>1
  <2> QED
    BY <1>5, <2>2, <2>3, <2>4 DEF Hit
<1>6. ASSUME Hit(c, key, p) PROVE Hit(a, key, p) \/ (p > n /\ Hit(b, key, p - n))
  <2>1. /\ p \in 1 .. n + l - 3
        /\ c[p] = Quote /\ c[p + 1] = key /\ c[p + 2] = Quote /\ c[p + 3] = ":"
    BY <1>1, <1>6 DEF Hit
  <2>2. CASE p + 3 <= n
    <3>1. c[p] = a[p] /\ c[p + 1] = a[p + 1] /\ c[p + 2] = a[p + 2] /\ c[p + 3] = a[p + 3]
      BY <1>1, <2>1, <2>2
    <3> QED
      BY <1>1, <2>1, <2>2, <3>1 DEF Hit, n
  <2>3. CASE p > n
    <3> DEFINE q == p - n
    <3>1. q \in 1 .. l - 3 /\ n + q = p /\ n + (q + 1) = p + 1 /\ n + (q + 2) = p + 2 /\ n + (q + 3) = p + 3
      BY <1>1, <2>1, <2>3
    <3> HIDE DEF q
    <3>2. /\ c[n + q] = b[q] /\ c[n + (q + 1)] = b[q + 1] /\ c[n + (q + 2)] = b[q + 2] /\ c[n + (q + 3)] = b[q + 3]
      BY <1>1, <3>1
    <3>3. Hit(b, key, q)
      BY <2>1, <3>1, <3>2 DEF Hit, l
    <3> QED
      BY <2>3, <3>3 DEF q
  <2>4. CASE p = n
    <3>1. l # 0 /\ c[n + 1] = b[1]
      BY <1>1, <2>1, <2>4
    <3> QED
      BY <1>3, <2>1, <2>4, <3>1
  <2>5. CASE p + 1 = n
    <3>1. n # 0 /\ c[n] = a[n]
      BY <1>1, <2>1, <2>5
    <3> QED
      BY <1>2, <2>1, <2>5, <3>1
  <2>6. CASE p + 2 = n
    <3>1. l # 0 /\ c[n + 1] = b[1] /\ n + 1 = p + 3
      BY <1>1, <2>1, <2>6
    <3> QED
      BY <1>3, <2>1, <3>1
  <2> QED
    BY <1>1, <2>1, <2>2, <2>3, <2>4, <2>5, <2>6
<1> QED
  BY <1>4, <1>5, <1>6 DEF n, c

\* What is found in two words side by side: what is found in the first, else in
\* the second.
LEMMA FoundInTwoWords ==
  ASSUME NEW a \in Seq(Symbol), NEW b \in Seq(Symbol), Edges(a), Edges(b), NEW key \in Keys,
         NEW u, NEW v, Finds(a, key, u), Finds(b, key, v)
  PROVE  Finds(a \o b, key, IF u # None THEN u ELSE v)
<1> DEFINE n == Len(a)
           c == a \o b
<1>1. /\ n \in Nat /\ Len(b) \in Nat /\ Len(c) = n + Len(b)
      /\ \A i \in 1 .. n : c[i] = a[i]
      /\ \A i \in 1 .. Len(b) : c[n + i] = b[i]
  BY TwoWords
<1>2. \A p \in Nat : /\ Hit(a, key, p) => Hit(c, key, p)
                     /\ Hit(b, key, p) => Hit(c, key, n + p)
                     /\ Hit(c, key, p) => Hit(a, key, p) \/ (p > n /\ Hit(b, key, p - n))
  BY HitsOfTwoWords
<1>3. \A p \in Nat : Hit(a, key, p) => p <= n
  BY <1>1 DEF Hit
<1> HIDE DEF c, n
<1>4. CASE u = None
  <2>1. \A p \in Nat : ~ Hit(a, key, p)
    BY <1>4 DEF Finds, None, Some
  <2>2. CASE v = None
    <3>1. \A p \in Nat : ~ Hit(b, key, p)
      BY <2>2 DEF Finds, None, Some
    <3>2. ASSUME NEW p \in Nat, Hit(c, key, p) PROVE FALSE
      <4>1. p > n /\ Hit(b, key, p - n)
        BY <1>2, <2>1, <3>2
      <4>2. p - n \in Nat
        BY <1>1, <4>1
      <4> QED
        BY <3>1, <4>1, <4>2
    <3> QED
      BY <1>4, <2>2, <3>2 DEF Finds, c
  <2>3. CASE v # None
    <3>1. PICK p \in Nat : /\ Hit(b, key, p) /\ \A q \in Nat : Hit(b, key, q) => p <= q
                           /\ \E w \in Seq(Symbol) : w # <<>> /\ v = Some(w) /\ Occurs(w, b, p + 3)
      BY <2>3 DEF Finds
    <3>2. PICK w \in Seq(Symbol) : w # <<>> /\ v = Some(w) /\ Occurs(w, b, p + 3)
      BY <3>1
    <3> DEFINE r == n + p
    <3>3. r \in Nat /\ Hit(c, key, r)
      BY <1>1, <1>2, <3>1
    <3>4. ASSUME NEW q \in Nat, Hit(c, key, q) PROVE r <= q
      <4>1. q > n /\ Hit(b, key, q - n)
        BY <1>2, <2>1, <3>4
      <4>2. q - n \in Nat
        BY <1>1, <4>1
      <4>3. p <= q - n
        BY <3>1, <4>1, <4>2
      <4> QED
        BY <1>1, <4>3
    <3>5. Occurs(w, c, r + 3)
      <4> DEFINE k == Len(w)
      <4>1. k \in Nat /\ p + 3 + k <= Len(b) /\ \A i \in 1 .. k : b[p + 3 + i] = w[i]
        BY <3>2 DEF Occurs
      <4> HIDE DEF k
      <4>2. ASSUME NEW i \in 1 .. k PROVE c[r + 3 + i] = w[i]
        <5> DEFINE j == p + 3 + i
        <5>1. j \in 1 .. Len(b) /\ r + 3 + i = n + j
          BY <1>1, <4>1
        <5>2. b[j] = w[i]
          BY <4>1
        <5> HIDE DEF j
        <5> QED
          BY <1>1, <5>1, <5>2
      <4>3. r + 3 \in Nat /\ r + 3 + k <= Len(c)
        BY <1>1, <4>1
      <4> QED
        BY <4>2, <4>3 DEF Occurs, k
    <3> HIDE DEF r
    <3>6. Finds(c, key, v)
      BY <3>2, <3>3, <3>4, <3>5 DEF Finds
    <3> QED
      BY <1>4, <3>6 DEF c
  <2> QED
    BY <2>2, <2>3
<1>5. CASE u # None
  <2>1. PICK p \in Nat : /\ Hit(a, key, p) /\ \A q \in Nat : Hit(a, key, q) => p <= q
                         /\ \E w \in Seq(Symbol) : w # <<>> /\ u = Some(w) /\ Occurs(w, a, p + 3)
    BY <1>5 DEF Finds
  <2>2. PICK w \in Seq(Symbol) : w # <<>> /\ u = Some(w) /\ Occurs(w, a, p + 3)
    BY <2>1
  <2>3. Hit(c, key, p)
    BY <1>2, <2>1
  <2>4. ASSUME NEW q \in Nat, Hit(c, key, q) PROVE p <= q
    <3>1. CASE Hit(a, key, q)
      BY <2>1, <3>1
    <3>2. CASE q > n
      <4>1. p <= n
        BY <1>3, <2>1
      <4> QED
        BY <1>1, <3>2, <4>1
    <3> QED
      BY <1>2, <2>4, <3>1, <3>2
  <2>5. Occurs(w, c, p + 3)
    <3> DEFINE k == Len(w)
    <3>1. k \in Nat /\ p + 3 + k <= n /\ \A i \in 1 .. k : a[p + 3 + i] = w[i]
      BY <2>2 DEF Occurs, n
    <3> HIDE DEF k
    <3>2. ASSUME NEW i \in 1 .. k PROVE c[p + 3 + i] = w[i]
      <4> DEFINE j == p + 3 + i
      <4>1. j \in 1 .. n
        BY <1>1, <3>1
      <4>2. a[j] = w[i]
        BY <3>1
      <4> HIDE DEF j
      <4>3. c[j] = w[i]
        BY <1>1, <4>1, <4>2
      <4> QED
        BY <4>3 DEF j
    <3>3. p + 3 \in Nat /\ p + 3 + k <= Len(c)
      BY <1>1, <3>1
    <3> QED
      BY <3>2, <3>3 DEF Occurs, k
  <2>6. Finds(c, key, u)
    BY <2>1, <2>2, <2>3, <2>4, <2>5 DEF Finds
  <2> QED
    BY <1>5, <2>6 DEF c
<1> QED
  BY <1>4, <1>5

\* Two parts of a line side by side are a part.
LEMMA TwoShown ==
  ASSUME NEW a, NEW b, NEW f, NEW g, Shows(a, f), Shows(b, g)
  PROVE  Shows(a \o b, First(f, g))
<1>1. a \in Seq(Symbol) /\ b \in Seq(Symbol) /\ Edges(a) /\ Edges(b)
  BY DEF Shows
<1>2. a \o b \in Seq(Symbol)
  BY <1>1, ConcatProperties
<1>3. Edges(a \o b)
  <2> DEFINE n == Len(a)
             l == Len(b)
             c == a \o b
  <2>1. /\ n \in Nat /\ l \in Nat /\ Len(c) = n + l
        /\ \A i \in 1 .. n : c[i] = a[i]
        /\ \A i \in 1 .. l : c[n + i] = b[i]
    BY <1>1, TwoWords
  <2>2. CASE a = <<>> \/ b = <<>>
    <3>1. c = a \/ c = b
      BY <1>1, <2>2, ConcatEmptySeq
    <3> QED
      BY <1>1, <3>1
  <2>3. CASE a # <<>> /\ b # <<>>
    <3>1. n # 0 /\ l # 0
      BY <1>1, <2>3, EmptySeq
    <3>2. a[1] \notin Keys \cup {":"} /\ b[l] \notin Keys
      BY <1>1, <2>3 DEF Edges
    <3> HIDE DEF n, l, c
    <3>3. c[1] = a[1] /\ c[n + l] = b[l]
      BY <2>1, <3>1
    <3> QED
      BY <2>1, <3>2, <3>3 DEF Edges, c
  <2> QED
    BY <2>2, <2>3
<1>4. ASSUME NEW key \in Keys
      PROVE  Finds(a \o b, key, First(f, g)[key])
  <2> DEFINE u == f[key]
             v == g[key]
  <2>1. Finds(a, key, u) /\ Finds(b, key, v)
    BY DEF Shows
  <2>2. First(f, g)[key] = IF u # None THEN u ELSE v
    BY DEF First
  <2> HIDE DEF u, v
  <2>3. Finds(a \o b, key, IF u # None THEN u ELSE v)
    BY <1>1, <2>1, FoundInTwoWords
  <2> QED
    BY <2>2, <2>3
<1> QED
  BY <1>2, <1>3, <1>4 DEF Shows

-------------------------------------------------------------------------------

\* Where two parts stand one after the other, each stands at its own place
\* (ts_encode_message).
LEMMA OccursInTwo ==
  ASSUME NEW a \in Seq(Symbol), NEW b \in Seq(Symbol), NEW w \in Seq(Symbol), NEW n \in Nat,
         Occurs(a \o b, w, n)
  PROVE  Occurs(a, w, n) /\ Occurs(b, w, n + Len(a))
<1> DEFINE k == Len(a)
           l == Len(b)
           c == a \o b
<1>1. /\ k \in Nat /\ l \in Nat /\ Len(c) = k + l
      /\ \A i \in 1 .. k : c[i] = a[i]
      /\ \A i \in 1 .. l : c[k + i] = b[i]
  BY TwoWords
<1>2. n + (k + l) <= Len(w) /\ \A i \in 1 .. k + l : w[n + i] = c[i]
  BY <1>1 DEF Occurs
<1>3. Len(w) \in Nat
  OBVIOUS
<1> HIDE DEF k, l, c
<1>4. Occurs(a, w, n)
  <2>1. ASSUME NEW i \in 1 .. k PROVE w[n + i] = a[i]
    <3>1. i \in 1 .. k + l
      BY <1>1
    <3> QED
      BY <1>1, <1>2, <3>1
  <2>2. n + k <= Len(w)
    BY <1>1, <1>2, <1>3
  <2> QED
    BY <2>1, <2>2 DEF Occurs, k
<1>5. Occurs(b, w, n + k)
  <2>1. ASSUME NEW i \in 1 .. l PROVE w[n + k + i] = b[i]
    <3> DEFINE j == k + i
    <3>1. j \in 1 .. k + l /\ n + j = n + k + i /\ c[j] = b[i]
      BY <1>1
    <3> HIDE DEF j
    <3>2. w[n + j] = c[j]
      BY <1>2, <3>1
    <3> QED
      BY <3>1, <3>2
  <2>2. n + k \in Nat /\ n + k + l <= Len(w)
    BY <1>1, <1>2, <1>3
  <2> QED
    BY <2>1, <2>2 DEF Occurs, l
<1> QED
  BY <1>4, <1>5 DEF k

-----------------------------------------------------------------------------
\* The end of an object (json_get_object): where the loop is, how deep, and
\* whether inside a string or after its backslash.

Modes == {"outside", "string", "escape"}
Places == [at : Nat, depth : Int, mode : Modes]
Place(i, d, mode) == [at |-> i, depth |-> d, mode |-> mode]

\* What the loop does at each symbol; end tells what it will find.
Scan(json, end) ==
  \A i \in 1 .. Len(json) : \A d \in Int :
    /\ end[Place(i, d, "escape")] = end[Place(i + 1, d, "string")]
    /\ json[i] = Backslash => end[Place(i, d, "string")] = end[Place(i + 1, d, "escape")]
    /\ json[i] = Quote => end[Place(i, d, "string")] = end[Place(i + 1, d, "outside")]
    /\ json[i] \notin {Quote, Backslash} => end[Place(i, d, "string")] = end[Place(i + 1, d, "string")]
    /\ json[i] = Quote => end[Place(i, d, "outside")] = end[Place(i + 1, d, "string")]
    /\ json[i] = "{" => end[Place(i, d, "outside")] = end[Place(i + 1, d + 1, "outside")]
    /\ json[i] = "}" /\ d # 1 => end[Place(i, d, "outside")] = end[Place(i + 1, d - 1, "outside")]
    /\ json[i] = "}" /\ d = 1 => end[Place(i, d, "outside")] = Some(i)
    /\ json[i] \notin {Quote, "{", "}"} => end[Place(i, d, "outside")] = end[Place(i + 1, d, "outside")]

\* One turn of the loop.
Turn(json, end, p) ==
  IF p.at > Len(json) THEN None
  ELSE CASE p.mode = "escape" -> end[Place(p.at + 1, p.depth, "string")]
         [] p.mode = "string" /\ json[p.at] = Backslash -> end[Place(p.at + 1, p.depth, "escape")]
         [] p.mode = "string" /\ json[p.at] = Quote -> end[Place(p.at + 1, p.depth, "outside")]
         [] p.mode = "outside" /\ json[p.at] = Quote -> end[Place(p.at + 1, p.depth, "string")]
         [] p.mode = "outside" /\ json[p.at] = "{" -> end[Place(p.at + 1, p.depth + 1, "outside")]
         [] p.mode = "outside" /\ json[p.at] = "}" ->
              IF p.depth = 1 THEN Some(p.at) ELSE end[Place(p.at + 1, p.depth - 1, "outside")]
         [] OTHER -> end[Place(p.at + 1, p.depth, p.mode)]

\* Places of the loop of json_get_object and their fields.
LEMMA PlaceType ==
  /\ \A i \in Nat, d \in Int, mode \in Modes :
       /\ Place(i, d, mode) \in Places
       /\ Place(i, d, mode).at = i /\ Place(i, d, mode).depth = d /\ Place(i, d, mode).mode = mode
  /\ \A s \in Places : /\ s.at \in Nat /\ s.depth \in Int /\ s.mode \in Modes
                       /\ s = Place(s.at, s.depth, s.mode)
BY DEF Place, Places

\* One turn of the loop of json_get_object, by its mode and the symbol it looks at.
LEMMA TurnAt ==
  ASSUME NEW json \in Seq(Symbol), NEW end, NEW p, p.at \in 1 .. Len(json)
  PROVE  /\ p.mode = "escape" =>
              Turn(json, end, p) = end[Place(p.at + 1, p.depth, "string")]
         /\ p.mode = "string" /\ json[p.at] = Backslash =>
              Turn(json, end, p) = end[Place(p.at + 1, p.depth, "escape")]
         /\ p.mode = "string" /\ json[p.at] = Quote =>
              Turn(json, end, p) = end[Place(p.at + 1, p.depth, "outside")]
         /\ p.mode = "string" /\ json[p.at] \notin {Quote, Backslash} =>
              Turn(json, end, p) = end[Place(p.at + 1, p.depth, "string")]
         /\ p.mode = "outside" /\ json[p.at] = Quote =>
              Turn(json, end, p) = end[Place(p.at + 1, p.depth, "string")]
         /\ p.mode = "outside" /\ json[p.at] = "{" =>
              Turn(json, end, p) = end[Place(p.at + 1, p.depth + 1, "outside")]
         /\ p.mode = "outside" /\ json[p.at] = "}" /\ p.depth # 1 =>
              Turn(json, end, p) = end[Place(p.at + 1, p.depth - 1, "outside")]
         /\ p.mode = "outside" /\ json[p.at] = "}" /\ p.depth = 1 =>
              Turn(json, end, p) = Some(p.at)
         /\ p.mode = "outside" /\ json[p.at] \notin {Quote, "{", "}"} =>
              Turn(json, end, p) = end[Place(p.at + 1, p.depth, "outside")]
<1>1. ~ p.at > Len(json)
  OBVIOUS
<1>2. ASSUME p.mode = "escape"
      PROVE  Turn(json, end, p) = end[Place(p.at + 1, p.depth, "string")]
  BY <1>1, <1>2 DEF Turn, Quote, Backslash
<1>3. ASSUME p.mode = "string" /\ json[p.at] = Backslash
      PROVE  Turn(json, end, p) = end[Place(p.at + 1, p.depth, "escape")]
  BY <1>1, <1>3 DEF Turn, Quote, Backslash
<1>4. ASSUME p.mode = "string" /\ json[p.at] = Quote
      PROVE  Turn(json, end, p) = end[Place(p.at + 1, p.depth, "outside")]
  BY <1>1, <1>4 DEF Turn, Quote, Backslash
<1>5. ASSUME p.mode = "string" /\ json[p.at] \notin {Quote, Backslash}
      PROVE  Turn(json, end, p) = end[Place(p.at + 1, p.depth, "string")]
  BY <1>1, <1>5 DEF Turn, Quote, Backslash
<1>6. ASSUME p.mode = "outside" /\ json[p.at] = Quote
      PROVE  Turn(json, end, p) = end[Place(p.at + 1, p.depth, "string")]
  BY <1>1, <1>6 DEF Turn, Quote, Backslash
<1>7. ASSUME p.mode = "outside" /\ json[p.at] = "{"
      PROVE  Turn(json, end, p) = end[Place(p.at + 1, p.depth + 1, "outside")]
  BY <1>1, <1>7 DEF Turn, Quote, Backslash
<1>8. ASSUME p.mode = "outside" /\ json[p.at] = "}" /\ p.depth # 1
      PROVE  Turn(json, end, p) = end[Place(p.at + 1, p.depth - 1, "outside")]
  BY <1>1, <1>8 DEF Turn, Quote, Backslash
<1>9. ASSUME p.mode = "outside" /\ json[p.at] = "}" /\ p.depth = 1
      PROVE  Turn(json, end, p) = Some(p.at)
  BY <1>1, <1>9 DEF Turn, Quote, Backslash
<1>10. ASSUME p.mode = "outside" /\ json[p.at] \notin {Quote, "{", "}"}
      PROVE  Turn(json, end, p) = end[Place(p.at + 1, p.depth, "outside")]
  BY <1>1, <1>10 DEF Turn, Quote, Backslash
<1> QED
  BY <1>2, <1>3, <1>4, <1>5, <1>6, <1>7, <1>8, <1>9, <1>10

\* The loop comes closer to the end of the line with every turn, so there is
\* something it finds.
LEMMA TheScanEnds ==
  ASSUME NEW json \in Seq(Symbol)
  PROVE  \E end : Scan(json, end) /\ \A start \in Nat : EndOfObject(json, start) = end[Place(start, 0, "outside")]
<1> DEFINE N == Len(json)
           V == Seq(Nat)
           measure == [p \in Places |-> IF p.at > N THEN 0 ELSE N + 1 - p.at]
           B == [f \in [Places -> V] |-> [p \in Places |-> Turn(json, f, p)]]
           Rec(h) == h = [p \in Places |-> Turn(json, h, p)]
           end == CHOOSE h : Rec(h)
<1>1. N \in Nat
  OBVIOUS
<1>2. None \in V /\ \A i \in Nat : Some(i) \in V
  BY DEF None, Some
<1>3. \A start \in Nat : EndOfObject(json, start) = end[Place(start, 0, "outside")]
  BY DEF EndOfObject, Turn, Place, Places, Modes
<1>4. ASSUME NEW p \in Places
      PROVE  /\ p.at \in Nat /\ p.depth \in Int /\ p.mode \in Modes
             /\ \A d \in Int, mode \in Modes : Place(p.at + 1, d, mode) \in Places
                                           /\ Place(p.at + 1, d, mode).at = p.at + 1
  BY PlaceType
<1> HIDE DEF V
<1>5. ASSUME NEW f \in [Places -> V], NEW p \in Places
      PROVE  Turn(json, f, p) \in V
  <2> DEFINE Q(d, mode) == f[Place(p.at + 1, d, mode)]
  <2>1. \A d \in Int, mode \in Modes : Q(d, mode) \in V
    BY <1>4
  <2>2. p.depth \in Int /\ p.depth + 1 \in Int /\ p.depth - 1 \in Int
    BY <1>4
  <2>3. /\ Q(p.depth, "string") \in V /\ Q(p.depth, "escape") \in V /\ Q(p.depth, "outside") \in V
        /\ Q(p.depth + 1, "outside") \in V /\ Q(p.depth - 1, "outside") \in V /\ Q(p.depth, p.mode) \in V
        /\ Some(p.at) \in V
    BY <1>2, <1>4, <2>1, <2>2 DEF Modes
  <2> QED
    BY <1>2, <2>3 DEF Turn
<1>6. measure \in [Places -> 0 .. N + 1]
  <2>1. ASSUME NEW p \in Places PROVE (IF p.at > N THEN 0 ELSE N + 1 - p.at) \in 0 .. N + 1
    BY <1>1, <1>4
  <2> QED
    BY <2>1
<1>7. B \in [[Places -> V] -> [Places -> V]]
  <2>1. \A f \in [Places -> V] : [p \in Places |-> Turn(json, f, p)] \in [Places -> V]
    BY <1>5
  <2> QED
    BY <2>1
<1>8. Local(B, Places, V, measure)
  <2>1. SUFFICES ASSUME NEW f \in [Places -> V], NEW g \in [Places -> V], NEW p \in Places,
                        \A q \in Places : measure[q] < measure[p] => f[q] = g[q]
                 PROVE  B[f][p] = B[g][p]
    BY DEF Local
  <2>2. CASE p.at > N
    <3>1. Turn(json, f, p) = None /\ Turn(json, g, p) = None
      BY <2>2 DEF Turn
    <3> QED
      BY <3>1
  <2>3. CASE ~ p.at > N
    <3>1. ASSUME NEW d \in Int, NEW mode \in Modes
          PROVE  f[Place(p.at + 1, d, mode)] = g[Place(p.at + 1, d, mode)]
      <4> DEFINE q == Place(p.at + 1, d, mode)
      <4>1. q \in Places /\ q.at = p.at + 1
        BY <1>4
      <4> HIDE DEF q
      <4>2. measure[q] = (IF q.at > N THEN 0 ELSE N + 1 - q.at) /\ measure[p] = N + 1 - p.at
        BY <2>3, <4>1
      <4>3. measure[q] < measure[p]
        <5> DEFINE k == p.at
        <5>1. k \in Nat /\ ~ k > N /\ q.at = k + 1
          BY <1>4, <2>3, <4>1
        <5>2. measure[q] = (IF k + 1 > N THEN 0 ELSE N + 1 - (k + 1)) /\ measure[p] = N + 1 - k
          BY <4>2, <5>1
        <5> HIDE DEF k, measure
        <5> QED
          BY <1>1, <5>1, <5>2
      <4> QED
        BY <2>1, <4>1, <4>3 DEF q
    <3>2. p.depth \in Int /\ p.depth + 1 \in Int /\ p.depth - 1 \in Int /\ p.mode \in Modes
      BY <1>4
    <3>3. /\ f[Place(p.at + 1, p.depth, "string")] = g[Place(p.at + 1, p.depth, "string")]
          /\ f[Place(p.at + 1, p.depth, "escape")] = g[Place(p.at + 1, p.depth, "escape")]
          /\ f[Place(p.at + 1, p.depth, "outside")] = g[Place(p.at + 1, p.depth, "outside")]
          /\ f[Place(p.at + 1, p.depth + 1, "outside")] = g[Place(p.at + 1, p.depth + 1, "outside")]
          /\ f[Place(p.at + 1, p.depth - 1, "outside")] = g[Place(p.at + 1, p.depth - 1, "outside")]
          /\ f[Place(p.at + 1, p.depth, p.mode)] = g[Place(p.at + 1, p.depth, p.mode)]
      BY <3>1, <3>2 DEF Modes
    <3>4. Turn(json, f, p) = Turn(json, g, p)
      BY <3>3 DEF Turn
    <3> QED
      BY <3>4
  <2> QED
    BY <2>2, <2>3
<1>9. \E h : Rec(h)
  <2>1. ComesCloser(B, Places, V, measure, N + 1)
    <3> HIDE DEF B, measure
    <3> QED
      BY <1>1, <1>6, <1>7, <1>8 DEF ComesCloser
  <2>2. \E h : Fixed(B, Places, V, h)
    <3> HIDE DEF B, measure, N
    <3> QED
      BY <1>2, <2>1, Recursion
  <2>3. PICK h : Fixed(B, Places, V, h)
    BY <2>2
  <2>4. h = [p \in Places |-> Turn(json, h, p)]
    BY <2>3 DEF Fixed
  <2> QED
    BY <2>4
<1> HIDE DEF Rec
<1>10. Rec(end)
  BY <1>9
<1> HIDE DEF end
<1>11. \A p \in Places : end[p] = Turn(json, end, p)
  BY <1>10 DEF Rec
<1>12. Scan(json, end)
  <2>1. SUFFICES ASSUME NEW i \in 1 .. Len(json), NEW d \in Int
        PROVE  /\ end[Place(i, d, "escape")] = end[Place(i + 1, d, "string")]
               /\ json[i] = Backslash => end[Place(i, d, "string")] = end[Place(i + 1, d, "escape")]
               /\ json[i] = Quote => end[Place(i, d, "string")] = end[Place(i + 1, d, "outside")]
               /\ json[i] \notin {Quote, Backslash} => end[Place(i, d, "string")] = end[Place(i + 1, d, "string")]
               /\ json[i] = Quote => end[Place(i, d, "outside")] = end[Place(i + 1, d, "string")]
               /\ json[i] = "{" => end[Place(i, d, "outside")] = end[Place(i + 1, d + 1, "outside")]
               /\ json[i] = "}" /\ d # 1 => end[Place(i, d, "outside")] = end[Place(i + 1, d - 1, "outside")]
               /\ json[i] = "}" /\ d = 1 => end[Place(i, d, "outside")] = Some(i)
               /\ json[i] \notin {Quote, "{", "}"} => end[Place(i, d, "outside")] = end[Place(i + 1, d, "outside")]
    BY DEF Scan
  <2>2. i \in Nat
    BY <1>1
  <2>3. ASSUME NEW mode \in Modes
        PROVE  /\ Place(i, d, mode).at = i /\ Place(i, d, mode).depth = d /\ Place(i, d, mode).mode = mode
               /\ end[Place(i, d, mode)] = Turn(json, end, Place(i, d, mode))
    BY <1>11, <2>2, PlaceType
  <2> DEFINE a == Place(i, d, "escape")
             b == Place(i, d, "string")
             c == Place(i, d, "outside")
  <2>4. a.at = i /\ a.depth = d /\ a.mode = "escape" /\ end[a] = Turn(json, end, a)
    BY <2>3 DEF Modes
  <2>5. b.at = i /\ b.depth = d /\ b.mode = "string" /\ end[b] = Turn(json, end, b)
    BY <2>3 DEF Modes
  <2>6. c.at = i /\ c.depth = d /\ c.mode = "outside" /\ end[c] = Turn(json, end, c)
    BY <2>3 DEF Modes
  <2> HIDE DEF a, b, c, N
  <2>7. end[a] = end[Place(i + 1, d, "string")]
    <3>1. a.at \in 1 .. Len(json)
      BY <2>4
    <3>2. Turn(json, end, a) = end[Place(a.at + 1, a.depth, "string")]
      BY <2>4, <3>1, TurnAt, ZenonT(40)
    <3> QED
      BY <2>4, <3>2
  <2>8. /\ json[i] = Backslash => end[b] = end[Place(i + 1, d, "escape")]
        /\ json[i] = Quote => end[b] = end[Place(i + 1, d, "outside")]
        /\ json[i] \notin {Quote, Backslash} => end[b] = end[Place(i + 1, d, "string")]
    <3>1. b.at \in 1 .. Len(json)
      BY <2>5
    <3>2. json[b.at] = Backslash => Turn(json, end, b) = end[Place(b.at + 1, b.depth, "escape")]
      BY <2>5, <3>1, TurnAt, ZenonT(40)
    <3>3. json[b.at] = Quote => Turn(json, end, b) = end[Place(b.at + 1, b.depth, "outside")]
      BY <2>5, <3>1, TurnAt, ZenonT(40)
    <3>4. json[b.at] \notin {Quote, Backslash} => Turn(json, end, b) = end[Place(b.at + 1, b.depth, "string")]
      <4>1. ~ b.at > Len(json)
        BY <3>1
      <4> QED
        BY <2>5, <4>1, ZenonT(40) DEF Turn, Quote, Backslash
    <3> QED
      BY <2>5, <3>2, <3>3, <3>4, ZenonT(40)
  <2>9. /\ json[i] = Quote => end[c] = end[Place(i + 1, d, "string")]
        /\ json[i] = "{" => end[c] = end[Place(i + 1, d + 1, "outside")]
        /\ json[i] = "}" /\ d # 1 => end[c] = end[Place(i + 1, d - 1, "outside")]
        /\ json[i] = "}" /\ d = 1 => end[c] = Some(i)
        /\ json[i] \notin {Quote, "{", "}"} => end[c] = end[Place(i + 1, d, "outside")]
    <3>1. c.at \in 1 .. Len(json)
      BY <2>6
    <3>2. json[c.at] = Quote => Turn(json, end, c) = end[Place(c.at + 1, c.depth, "string")]
      BY <2>6, <3>1, TurnAt, ZenonT(40)
    <3>3. json[c.at] = "{" => Turn(json, end, c) = end[Place(c.at + 1, c.depth + 1, "outside")]
      BY <2>6, <3>1, TurnAt, ZenonT(40)
    <3>4. json[c.at] = "}" /\ c.depth # 1 => Turn(json, end, c) = end[Place(c.at + 1, c.depth - 1, "outside")]
      BY <2>6, <3>1, TurnAt, ZenonT(40)
    <3>5. json[c.at] = "}" /\ c.depth = 1 => Turn(json, end, c) = Some(c.at)
      BY <2>6, <3>1, TurnAt, ZenonT(40)
    <3>6. json[c.at] \notin {Quote, "{", "}"} => Turn(json, end, c) = end[Place(c.at + 1, c.depth, "outside")]
      BY <2>6, <3>1, TurnAt, ZenonT(40)
    <3> QED
      BY <2>6, <3>2, <3>3, <3>4, <3>5, <3>6
  <2> QED
    BY <2>7, <2>8, <2>9 DEF a, b, c
<1> QED
  BY <1>3, <1>12

-------------------------------------------------------------------------------

\* Wherever w is in a line, below the top level, the loop that begins it in one mode
\* comes out of it in the other, as deep as before.
Moves(w, mode, then) ==
  \A json \in Seq(Symbol) : \A end : \A n \in Nat : \A d \in Nat \ {0} :
    Scan(json, end) /\ Occurs(w, json, n) =>
      end[Place(n + 1, d, mode)] = end[Place(n + Len(w) + 1, d, then)]

\* An empty part leaves the loop of json_get_object where it is.
LEMMA NothingMoves ==
  ASSUME NEW mode
  PROVE  Moves(<<>>, mode, mode)
BY DEF Moves

\* The loop of json_get_object goes over two parts as over one.
LEMMA MovesOn ==
  ASSUME NEW a \in Seq(Symbol), NEW b \in Seq(Symbol), NEW mode, NEW then, NEW last,
         Moves(a, mode, then), Moves(b, then, last)
  PROVE  Moves(a \o b, mode, last)
<1>1. SUFFICES ASSUME NEW json \in Seq(Symbol), NEW end, NEW n \in Nat, NEW d \in Nat \ {0},
                      Scan(json, end), Occurs(a \o b, json, n)
               PROVE  end[Place(n + 1, d, mode)] = end[Place(n + Len(a \o b) + 1, d, last)]
  BY DEF Moves
<1>2. Occurs(a, json, n) /\ Occurs(b, json, n + Len(a))
  BY <1>1, OccursInTwo
<1>3. Len(a) \in Nat /\ Len(b) \in Nat /\ Len(a \o b) = Len(a) + Len(b)
  BY TwoWords
<1>4. end[Place(n + 1, d, mode)] = end[Place(n + Len(a) + 1, d, then)]
  BY <1>1, <1>2 DEF Moves
<1> DEFINE k == n + Len(a)
<1>5. k \in Nat /\ n + Len(a \o b) + 1 = k + Len(b) + 1
  BY <1>3
<1>6. end[Place(k + 1, d, then)] = end[Place(k + Len(b) + 1, d, last)]
  <2>1. Occurs(b, json, k)
    BY <1>2
  <2> HIDE DEF k
  <2> QED
    BY <1>1, <1>5, <2>1 DEF Moves
<1> QED
  BY <1>4, <1>5, <1>6

\* How the loop of json_get_object goes over one symbol.
LEMMA OneSymbolMoves ==
  ASSUME NEW x \in Symbol
  PROVE  /\ Moves(<<x>>, "escape", "string")
         /\ x = Backslash => Moves(<<x>>, "string", "escape")
         /\ x = Quote => Moves(<<x>>, "string", "outside")
         /\ x \notin {Quote, Backslash} => Moves(<<x>>, "string", "string")
         /\ x = Quote => Moves(<<x>>, "outside", "string")
         /\ x \notin {Quote, "{", "}"} => Moves(<<x>>, "outside", "outside")
<1> DEFINE w == <<x>>
<1>0. Len(w) = 1 /\ w[1] = x
  OBVIOUS
<1> HIDE DEF w
<1>1. ASSUME NEW json \in Seq(Symbol), NEW n \in Nat, Occurs(w, json, n)
      PROVE  n + 1 \in 1 .. Len(json) /\ json[n + 1] = x /\ n + Len(w) + 1 = (n + 1) + 1
  <2> DEFINE l == Len(json)
  <2>1. l \in Nat
    OBVIOUS
  <2>2. n + Len(w) <= l /\ \A j \in 1 .. Len(w) : json[n + j] = w[j]
    BY <1>1 DEF Occurs
  <2> HIDE DEF l
  <2>3. n + 1 \in 1 .. l /\ json[n + 1] = x /\ n + Len(w) + 1 = (n + 1) + 1
    BY <1>0, <2>1, <2>2
  <2> QED
    BY <2>3 DEF l
<1>2. Moves(w, "escape", "string")
  <2>1. ASSUME NEW json \in Seq(Symbol), NEW end, NEW n \in Nat, NEW d \in Nat \ {0},
               Scan(json, end), Occurs(w, json, n)
        PROVE  end[Place(n + 1, d, "escape")] = end[Place(n + Len(w) + 1, d, "string")]
    <3> DEFINE i == n + 1
    <3>1. i \in 1 .. Len(json) /\ json[i] = x /\ n + Len(w) + 1 = i + 1 /\ d \in Int
      BY <1>1, <2>1
    <3> HIDE DEF i
    <3>2. end[Place(i, d, "escape")] = end[Place(i + 1, d, "string")]
      BY <2>1, <3>1 DEF Scan
    <3> QED
      BY <3>1, <3>2 DEF i
  <2> QED
    BY <2>1 DEF Moves
<1>3. x = Backslash => Moves(w, "string", "escape")
  <2>1. SUFFICES ASSUME x = Backslash PROVE Moves(w, "string", "escape")
    OBVIOUS
  <2>2. ASSUME NEW json \in Seq(Symbol), NEW end, NEW n \in Nat, NEW d \in Nat \ {0},
               Scan(json, end), Occurs(w, json, n)
        PROVE  end[Place(n + 1, d, "string")] = end[Place(n + Len(w) + 1, d, "escape")]
    <3> DEFINE i == n + 1
    <3>1. i \in 1 .. Len(json) /\ json[i] = x /\ n + Len(w) + 1 = i + 1 /\ d \in Int
      BY <1>1, <2>2
    <3> HIDE DEF i
    <3>2. end[Place(i, d, "string")] = end[Place(i + 1, d, "escape")]
      BY <2>1, <2>2, <3>1 DEF Scan
    <3> QED
      BY <3>1, <3>2 DEF i
  <2> QED
    BY <2>2 DEF Moves
<1>4. x = Quote => Moves(w, "string", "outside")
  <2>1. SUFFICES ASSUME x = Quote PROVE Moves(w, "string", "outside")
    OBVIOUS
  <2>2. ASSUME NEW json \in Seq(Symbol), NEW end, NEW n \in Nat, NEW d \in Nat \ {0},
               Scan(json, end), Occurs(w, json, n)
        PROVE  end[Place(n + 1, d, "string")] = end[Place(n + Len(w) + 1, d, "outside")]
    <3> DEFINE i == n + 1
    <3>1. i \in 1 .. Len(json) /\ json[i] = x /\ n + Len(w) + 1 = i + 1 /\ d \in Int
      BY <1>1, <2>2
    <3> HIDE DEF i
    <3>2. end[Place(i, d, "string")] = end[Place(i + 1, d, "outside")]
      BY <2>1, <2>2, <3>1 DEF Scan
    <3> QED
      BY <3>1, <3>2 DEF i
  <2> QED
    BY <2>2 DEF Moves
<1>5. x \notin {Quote, Backslash} => Moves(w, "string", "string")
  <2>1. SUFFICES ASSUME x \notin {Quote, Backslash} PROVE Moves(w, "string", "string")
    OBVIOUS
  <2>2. ASSUME NEW json \in Seq(Symbol), NEW end, NEW n \in Nat, NEW d \in Nat \ {0},
               Scan(json, end), Occurs(w, json, n)
        PROVE  end[Place(n + 1, d, "string")] = end[Place(n + Len(w) + 1, d, "string")]
    <3> DEFINE i == n + 1
    <3>1. i \in 1 .. Len(json) /\ json[i] = x /\ n + Len(w) + 1 = i + 1 /\ d \in Int
      BY <1>1, <2>2
    <3> HIDE DEF i
    <3>2. end[Place(i, d, "string")] = end[Place(i + 1, d, "string")]
      BY <2>1, <2>2, <3>1 DEF Scan
    <3> QED
      BY <3>1, <3>2 DEF i
  <2> QED
    BY <2>2 DEF Moves
<1>6. x = Quote => Moves(w, "outside", "string")
  <2>1. SUFFICES ASSUME x = Quote PROVE Moves(w, "outside", "string")
    OBVIOUS
  <2>2. ASSUME NEW json \in Seq(Symbol), NEW end, NEW n \in Nat, NEW d \in Nat \ {0},
               Scan(json, end), Occurs(w, json, n)
        PROVE  end[Place(n + 1, d, "outside")] = end[Place(n + Len(w) + 1, d, "string")]
    <3> DEFINE i == n + 1
    <3>1. i \in 1 .. Len(json) /\ json[i] = x /\ n + Len(w) + 1 = i + 1 /\ d \in Int
      BY <1>1, <2>2
    <3> HIDE DEF i
    <3>2. end[Place(i, d, "outside")] = end[Place(i + 1, d, "string")]
      BY <2>1, <2>2, <3>1 DEF Scan
    <3> QED
      BY <3>1, <3>2 DEF i
  <2> QED
    BY <2>2 DEF Moves
<1>7. x \notin {Quote, "{", "}"} => Moves(w, "outside", "outside")
  <2>1. SUFFICES ASSUME x \notin {Quote, "{", "}"} PROVE Moves(w, "outside", "outside")
    OBVIOUS
  <2>2. ASSUME NEW json \in Seq(Symbol), NEW end, NEW n \in Nat, NEW d \in Nat \ {0},
               Scan(json, end), Occurs(w, json, n)
        PROVE  end[Place(n + 1, d, "outside")] = end[Place(n + Len(w) + 1, d, "outside")]
    <3> DEFINE i == n + 1
    <3>1. i \in 1 .. Len(json) /\ json[i] = x /\ n + Len(w) + 1 = i + 1 /\ d \in Int
      BY <1>1, <2>2
    <3> HIDE DEF i
    <3>2. end[Place(i, d, "outside")] = end[Place(i + 1, d, "outside")]
      BY <2>1, <2>2, <3>1 DEF Scan
    <3> QED
      BY <3>1, <3>2 DEF i
  <2> QED
    BY <2>2 DEF Moves
<1> QED
  BY <1>2, <1>3, <1>4, <1>5, <1>6, <1>7 DEF w

\* How a symbol is written: as it is, after a backslash, or as a code.
LEMMA WaysToEscape ==
  ASSUME NEW c \in Letter
  PROVE  \/ c \notin {Quote, Backslash, Newline} /\ Escaped(c) = <<c>>
         \/ \E x \in Plain : Escaped(c) = <<Backslash>> \o <<x>>
         \/ \E x \in Plain : x \notin {Quote, Backslash} /\ Escaped(c) = <<Backslash>> \o <<"u">> \o <<x>>
<1>1. \A x \in Plain : <<Backslash, x>> = <<Backslash>> \o <<x>> /\ <<Backslash, "u", x>> = <<Backslash>> \o <<"u">> \o <<x>>
  OBVIOUS
<1>2. CASE c \in {Quote, Backslash}
  <2>1. Escaped(c) = <<Backslash, c>>
    BY <1>2 DEF Escaped, Quote, Backslash, Newline, Controls
  <2> QED
    BY <1>1, <1>2, <2>1, OwnSymbols
<1>3. CASE c = Newline
  <2>1. Escaped(c) = <<Backslash, "n">>
    BY <1>3 DEF Escaped, Quote, Backslash, Newline, Controls
  <2> QED
    BY <1>1, <2>1, OwnSymbols
<1>4. CASE c = "\t"
  <2>1. Escaped(c) = <<Backslash, "t">>
    BY <1>4 DEF Escaped, Quote, Backslash, Newline, Controls
  <2> QED
    BY <1>1, <2>1, OwnSymbols
<1>5. CASE c = "\r"
  <2>1. Escaped(c) = <<Backslash, "r">>
    BY <1>5 DEF Escaped, Quote, Backslash, Newline, Controls
  <2> QED
    BY <1>1, <2>1, OwnSymbols
<1>6. CASE c \in DOMAIN Controls
  <2>1. Escaped(c) = <<Backslash, "u", Controls[c]>>
    BY <1>6 DEF Escaped, Quote, Backslash, Newline, Controls
  <2>2. Controls[c] \in {"0001", "001b"}
    BY <1>6 DEF Controls
  <2>3. Controls[c] \in Plain /\ Controls[c] \notin {Quote, Backslash}
    BY <2>2, OwnSymbols DEF Quote, Backslash
  <2> QED
    BY <1>1, <2>1, <2>3
<1>7. CASE c \notin {Quote, Backslash, Newline, "\t", "\r"} \cup DOMAIN Controls
  <2>1. Escaped(c) = <<c>>
    BY <1>7 DEF Escaped
  <2> QED
    BY <1>7, <2>1
<1> QED
  BY <1>2, <1>3, <1>4, <1>5, <1>6, <1>7

\* The loop of json_get_object stays inside the string over what json_escape writes:
\* a quote in a text ends no string, its brace counts for none.
LEMMA EscapedMoves ==
  ASSUME NEW c \in Letter
  PROVE  Moves(Escaped(c), "string", "string")
<1>1. \A x \in Plain : x \in Symbol
  BY DEF Plain
<1>2. c \in Symbol /\ Backslash \in Symbol /\ "u" \in Symbol
  BY OwnSymbols DEF Plain, Symbol, Own, Letter
<1>3. \A x \in Symbol : <<x>> \in Seq(Symbol)
  BY ShortSequences
<1>4. Moves(<<Backslash>>, "string", "escape")
  BY <1>2, OneSymbolMoves
<1>5. CASE c \notin {Quote, Backslash, Newline} /\ Escaped(c) = <<c>>
  BY <1>2, <1>5, OneSymbolMoves
<1>6. ASSUME NEW x \in Plain, Escaped(c) = <<Backslash>> \o <<x>>
      PROVE  Moves(Escaped(c), "string", "string")
  <2>1. Moves(<<x>>, "escape", "string")
    BY <1>1, OneSymbolMoves
  <2> QED
    BY <1>1, <1>2, <1>3, <1>4, <1>6, <2>1, MovesOn
<1>7. ASSUME NEW x \in Plain, x \notin {Quote, Backslash}, Escaped(c) = <<Backslash>> \o <<"u">> \o <<x>>
      PROVE  Moves(Escaped(c), "string", "string")
  <2>1. Moves(<<"u">>, "escape", "string") /\ Moves(<<x>>, "string", "string")
    BY <1>1, <1>2, <1>7, OneSymbolMoves
  <2>2. <<Backslash>> \in Seq(Symbol) /\ <<"u">> \in Seq(Symbol) /\ <<x>> \in Seq(Symbol)
    BY <1>1, <1>2, <1>3
  <2>3. Moves(<<Backslash>> \o <<"u">>, "string", "string") /\ <<Backslash>> \o <<"u">> \in Seq(Symbol)
    BY <1>4, <2>1, <2>2, MovesOn, ConcatProperties
  <2>4. Moves((<<Backslash>> \o <<"u">>) \o <<x>>, "string", "string")
    BY <2>1, <2>2, <2>3, MovesOn
  <2> QED
    BY <1>7, <2>4
<1> QED
  BY <1>5, <1>6, <1>7, WaysToEscape

-------------------------------------------------------------------------------

\* What holds no newline is made of symbols (json_escape).
LEMMA PlainIsSymbol ==
  ASSUME NEW w \in Seq(Plain)
  PROVE  w \in Seq(Symbol)
<1>1. Plain \subseteq Symbol
  BY DEF Plain
<1> HIDE DEF Plain
<1> QED
  BY <1>1

\* A text between its quotes, symbol by symbol.
Escapes(f, text) ==
  /\ f \in [0 .. Len(text) -> Seq(Symbol)]
  /\ f[0] = <<>>
  /\ \A i \in 1 .. Len(text) : f[i] = f[i - 1] \o Escaped(text[i])
  /\ StringValue(text) = Quoted(f[Len(text)])

\* json_escape writes a text symbol by symbol.
LEMMA SymbolBySymbol ==
  ASSUME NEW text \in Seq(Letter)
  PROVE  \E f : Escapes(f, text)
<1> DEFINE parts == [i \in DOMAIN text |-> Escaped(text[i])]
           n == Len(text)
           T == Seq(Symbol)
<1>1. DOMAIN text = 1 .. n /\ n \in Nat
  OBVIOUS
<1>2. ASSUME NEW i \in 1 .. n PROVE Escaped(text[i]) \in T
  <2>1. text[i] \in Letter
    OBVIOUS
  <2> QED
    BY <2>1, EscapedIsPlain, PlainIsSymbol
<1> HIDE DEF n, T
<1>3. parts \in [1 .. n -> T] /\ \A i \in 1 .. n : parts[i] = Escaped(text[i])
  BY <1>1, <1>2
<1>4. StringValue(text) = Quoted(FlattenSeq(parts))
  BY DEF StringValue
<1> HIDE DEF parts
<1>5. parts \in Seq(T) /\ Len(parts) = n
  BY <1>1, <1>3, FunctionsAreSequences
<1>6. PICK f : Writes(f, parts, Symbol)
  BY <1>5, PartByPart DEF T
<1>7. Escapes(f, text)
  <2>1. f \in [0 .. n -> T] /\ f[0] = <<>> /\ FlattenSeq(parts) = f[n]
    BY <1>5, <1>6 DEF Writes, T
  <2>2. ASSUME NEW i \in 1 .. n PROVE f[i] = f[i - 1] \o Escaped(text[i])
    <3>1. f[i] = f[i - 1] \o parts[i]
      BY <1>5, <1>6 DEF Writes
    <3> QED
      BY <1>3, <3>1
  <2> QED
    BY <1>4, <2>1, <2>2 DEF Escapes, n, T
<1> QED
  BY <1>7

\* A word between quotes.
LEMMA QuotedLayout ==
  ASSUME NEW z \in Seq(Symbol)
  PROVE  /\ Quoted(z) \in Seq(Symbol)
         /\ Len(z) \in Nat /\ Len(Quoted(z)) = Len(z) + 2
         /\ Quoted(z)[1] = Quote /\ Quoted(z)[Len(z) + 2] = Quote
         /\ \A i \in 1 .. Len(z) : Quoted(z)[i + 1] = z[i]
<1> DEFINE q == <<Quote>>
           a == q \o z
           n == Len(z)
<1>1. q \in Seq(Symbol) /\ Len(q) = 1 /\ q[1] = Quote
  <2>1. Quote \in Symbol
    BY OwnSymbols DEF Plain
  <2>2. q \in Seq(Symbol)
    BY <2>1, ShortSequences
  <2> QED
    BY <2>2
<1> HIDE DEF q
<1>2. /\ a \in Seq(Symbol) /\ n \in Nat /\ Len(a) = 1 + n
      /\ a[1] = Quote /\ \A i \in 1 .. n : a[1 + i] = z[i]
  <2>1. /\ a \in Seq(Symbol) /\ n \in Nat /\ Len(a) = Len(q) + n
        /\ \A i \in 1 .. Len(q) : a[i] = q[i]
        /\ \A i \in 1 .. n : a[Len(q) + i] = z[i]
    BY <1>1, TwoWords
  <2> HIDE DEF a, n
  <2> QED
    BY <1>1, <2>1
<1> HIDE DEF a, n
<1> DEFINE c == a \o q
<1>3. /\ c \in Seq(Symbol) /\ Len(c) = Len(a) + Len(q)
      /\ \A i \in 1 .. Len(a) : c[i] = a[i]
      /\ \A i \in 1 .. Len(q) : c[Len(a) + i] = q[i]
  <2>1. a \in Seq(Symbol) /\ q \in Seq(Symbol)
    BY <1>1, <1>2
  <2> QED
    BY <2>1, TwoWords
<1>4. Quoted(z) = c
  BY DEF Quoted, a, q
<1> HIDE DEF c
<1>5. Len(c) = n + 2 /\ c[1] = Quote
  BY <1>1, <1>2, <1>3
<1>6. c[n + 2] = Quote
  <2>1. 1 \in 1 .. Len(q) /\ Len(a) + 1 = n + 2
    BY <1>1, <1>2
  <2> QED
    BY <1>1, <1>3, <2>1
<1>7. ASSUME NEW i \in 1 .. n PROVE c[i + 1] = z[i]
  <2>1. i + 1 \in 1 .. Len(a) /\ i + 1 = 1 + i
    BY <1>2
  <2>2. c[i + 1] = a[i + 1]
    BY <1>3, <2>1
  <2> QED
    BY <1>2, <2>1, <2>2
<1> QED
  BY <1>2, <1>3, <1>4, <1>5, <1>6, <1>7 DEF n

\* The loop of json_get_object passes over a quoted part and is outside again.
LEMMA QuotedMoves ==
  ASSUME NEW z \in Seq(Symbol), Moves(z, "string", "string")
  PROVE  Quoted(z) \in Seq(Symbol) /\ Moves(Quoted(z), "outside", "outside")
<1> DEFINE q == <<Quote>>
<1>1. q \in Seq(Symbol) /\ Moves(q, "outside", "string") /\ Moves(q, "string", "outside")
  <2>1. Quote \in Symbol
    BY OwnSymbols DEF Plain
  <2> QED
    BY <2>1, ShortSequences, OneSymbolMoves
<1>2. Quoted(z) = (q \o z) \o q
  BY DEF Quoted
<1> HIDE DEF q
<1>3. q \o z \in Seq(Symbol) /\ Moves(q \o z, "outside", "string")
  BY <1>1, MovesOn, ConcatProperties
<1>4. Moves((q \o z) \o q, "outside", "outside")
  BY <1>1, <1>3, MovesOn
<1>5. Quoted(z) \in Seq(Symbol)
  BY QuotedLayout
<1> QED
  BY <1>2, <1>4, <1>5

\* The loop of json_get_object passes over a text and is outside again
\* (append_string_field).
LEMMA StringMoves ==
  ASSUME NEW text \in Seq(Letter)
  PROVE  StringValue(text) \in Seq(Symbol) /\ Moves(StringValue(text), "outside", "outside")
<1>1. PICK f : Escapes(f, text)
  BY SymbolBySymbol
<1> DEFINE n == Len(text)
<1>2. n \in Nat /\ f \in [0 .. n -> Seq(Symbol)] /\ f[0] = <<>> /\ StringValue(text) = Quoted(f[n])
  BY <1>1 DEF Escapes
<1> DEFINE I == {i \in Nat : i <= n => Moves(f[i], "string", "string")}
<1>3. 0 \in I
  BY <1>2, NothingMoves
<1>4. ASSUME NEW i \in Nat, i \in I
      PROVE  i + 1 \in I
  <2>1. SUFFICES ASSUME i + 1 <= n PROVE Moves(f[i + 1], "string", "string")
    OBVIOUS
  <2> DEFINE j == i + 1
             c == text[j]
  <2>2. j \in 1 .. n /\ j - 1 = i /\ i \in 0 .. n /\ Moves(f[i], "string", "string")
    BY <1>2, <1>4, <2>1
  <2>3. c \in Letter
    BY <2>2, ElementOfSeq
  <2> HIDE DEF j
  <2>4. f[j] = f[j - 1] \o Escaped(c)
    BY <1>1, <2>2 DEF Escapes
  <2> HIDE DEF c, n
  <2>5. Escaped(c) \in Seq(Symbol) /\ Moves(Escaped(c), "string", "string")
    BY <2>3, EscapedIsPlain, PlainIsSymbol, EscapedMoves
  <2>6. f[i] \in Seq(Symbol)
    BY <1>2, <2>2
  <2>7. Moves(f[i] \o Escaped(c), "string", "string")
    BY <2>2, <2>5, <2>6, MovesOn
  <2>8. Moves(f[j], "string", "string")
    BY <2>2, <2>4, <2>7
  <2> QED
    BY <2>8 DEF j
<1> HIDE DEF I, n
<1>5. n \in I
  BY <1>2, <1>3, <1>4, NatInductionOnSets
<1>6. f[n] \in Seq(Symbol) /\ Moves(f[n], "string", "string")
  BY <1>2, <1>5 DEF I
<1> QED
  BY <1>2, <1>6, QuotedMoves

\* A quote inside a text follows a backslash.
Guarded(w) == \A i \in 1 .. Len(w) : w[i] = Quote => i > 1 /\ w[i - 1] = Backslash

\* A quote json_escape writes has a backslash in front of it.
LEMMA EscapedIsGuarded ==
  ASSUME NEW c \in Letter
  PROVE  Guarded(Escaped(c))
<1>0. Backslash # Quote /\ "u" # Quote
  BY DEF Backslash, Quote
<1>1. ASSUME c \notin {Quote, Backslash, Newline} /\ Escaped(c) = <<c>>
      PROVE  Guarded(Escaped(c))
  <2> DEFINE w == <<c>>
  <2>1. Len(w) = 1 /\ w[1] = c
    OBVIOUS
  <2> HIDE DEF w
  <2>2. ASSUME NEW i \in 1 .. Len(w), w[i] = Quote
        PROVE  FALSE
    <3>1. i = 1
      BY <2>1
    <3> QED
      BY <1>1, <2>1, <2>2, <3>1
  <2>3. Guarded(w)
    BY <2>2 DEF Guarded
  <2> QED
    BY <1>1, <2>3 DEF w
<1>2. ASSUME NEW x \in Plain, Escaped(c) = <<Backslash>> \o <<x>>
      PROVE  Guarded(Escaped(c))
  <2> DEFINE w == <<Backslash>> \o <<x>>
  <2>1. Len(w) = 2 /\ w[1] = Backslash
    OBVIOUS
  <2> HIDE DEF w
  <2>2. ASSUME NEW i \in 1 .. Len(w), w[i] = Quote
        PROVE  i > 1 /\ w[i - 1] = Backslash
    <3>1. i = 1 \/ i = 2
      BY <2>1
    <3>2. i # 1
      BY <1>0, <2>1, <2>2
    <3> QED
      BY <2>1, <3>1, <3>2
  <2>3. Guarded(w)
    BY <2>2 DEF Guarded
  <2> QED
    BY <1>2, <2>3 DEF w
<1>3. ASSUME NEW x \in Plain, x \notin {Quote, Backslash}, Escaped(c) = <<Backslash>> \o <<"u">> \o <<x>>
      PROVE  Guarded(Escaped(c))
  <2> DEFINE w == <<Backslash>> \o <<"u">> \o <<x>>
  <2>1. Len(w) = 3 /\ w[1] = Backslash /\ w[2] = "u" /\ w[3] = x
    OBVIOUS
  <2> HIDE DEF w
  <2>2. ASSUME NEW i \in 1 .. Len(w), w[i] = Quote
        PROVE  FALSE
    <3>1. i = 1 \/ i = 2 \/ i = 3
      BY <2>1
    <3> QED
      BY <1>0, <1>3, <2>1, <2>2, <3>1
  <2>3. Guarded(w)
    BY <2>2 DEF Guarded
  <2> QED
    BY <1>3, <2>3 DEF w
<1> QED
  BY <1>1, <1>2, <1>3, WaysToEscape

\* Two parts in which every quote is escaped make one such part (json_escape).
LEMMA GuardedInTwo ==
  ASSUME NEW a \in Seq(Symbol), NEW b \in Seq(Symbol), Guarded(a), Guarded(b)
  PROVE  Guarded(a \o b)
<1> DEFINE n == Len(a)
           l == Len(b)
           c == a \o b
<1>1. /\ n \in Nat /\ l \in Nat /\ Len(c) = n + l
      /\ \A i \in 1 .. n : c[i] = a[i]
      /\ \A i \in 1 .. l : c[n + i] = b[i]
  BY TwoWords
<1>2. /\ \A i \in 1 .. n : a[i] = Quote => i > 1 /\ a[i - 1] = Backslash
      /\ \A i \in 1 .. l : b[i] = Quote => i > 1 /\ b[i - 1] = Backslash
  BY DEF Guarded
<1> HIDE DEF n, l, c
<1>3. ASSUME NEW i \in 1 .. n + l, c[i] = Quote
      PROVE  i > 1 /\ c[i - 1] = Backslash
  <2>1. CASE i <= n
    <3>1. i \in 1 .. n /\ a[i] = Quote
      BY <1>1, <1>3, <2>1
    <3>2. i > 1 /\ a[i - 1] = Backslash
      BY <1>2, <3>1
    <3>3. i - 1 \in 1 .. n
      BY <1>1, <3>1, <3>2
    <3> QED
      BY <1>1, <3>2, <3>3
  <2>2. CASE ~ i <= n
    <3> DEFINE j == i - n
    <3>1. j \in 1 .. l /\ i = n + j
      BY <1>1, <2>2
    <3> HIDE DEF j
    <3>2. b[j] = Quote
      BY <1>1, <1>3, <3>1
    <3>3. j > 1 /\ b[j - 1] = Backslash
      BY <1>2, <3>1, <3>2
    <3>4. j - 1 \in 1 .. l /\ i - 1 = n + (j - 1) /\ i > 1
      BY <1>1, <3>1, <3>3
    <3>5. c[n + (j - 1)] = b[j - 1]
      BY <1>1, <3>4
    <3> QED
      BY <3>3, <3>4, <3>5
  <2> QED
    BY <2>1, <2>2
<1> QED
  BY <1>1, <1>3 DEF Guarded, c

\* Between its quotes a text holds escaped quotes only (json_escape).
LEMMA StringIsGuarded ==
  ASSUME NEW text \in Seq(Letter)
  PROVE  \E z \in Seq(Symbol) : StringValue(text) = Quoted(z) /\ Guarded(z)
<1>1. PICK f : Escapes(f, text)
  BY SymbolBySymbol
<1> DEFINE n == Len(text)
<1>2. n \in Nat /\ f \in [0 .. n -> Seq(Symbol)] /\ f[0] = <<>> /\ StringValue(text) = Quoted(f[n])
  BY <1>1 DEF Escapes
<1> DEFINE I == {i \in Nat : i <= n => Guarded(f[i])}
<1>3. 0 \in I
  BY <1>2 DEF Guarded
<1>4. ASSUME NEW i \in Nat, i \in I
      PROVE  i + 1 \in I
  <2>1. SUFFICES ASSUME i + 1 <= n PROVE Guarded(f[i + 1])
    OBVIOUS
  <2> DEFINE j == i + 1
             c == text[j]
  <2>2. j \in 1 .. n /\ j - 1 = i /\ i \in 0 .. n /\ Guarded(f[i])
    BY <1>2, <1>4, <2>1
  <2>3. c \in Letter
    BY <2>2, ElementOfSeq
  <2> HIDE DEF j
  <2>4. f[j] = f[j - 1] \o Escaped(c)
    BY <1>1, <2>2 DEF Escapes
  <2> HIDE DEF c, n
  <2>5. Escaped(c) \in Seq(Symbol) /\ Guarded(Escaped(c))
    BY <2>3, EscapedIsPlain, PlainIsSymbol, EscapedIsGuarded
  <2>6. f[i] \in Seq(Symbol)
    BY <1>2, <2>2
  <2>7. Guarded(f[i] \o Escaped(c))
    BY <2>2, <2>5, <2>6, GuardedInTwo
  <2>8. Guarded(f[j])
    BY <2>2, <2>4, <2>7
  <2> QED
    BY <2>8 DEF j
<1> HIDE DEF I, n
<1>5. n \in I
  BY <1>2, <1>3, <1>4, NatInductionOnSets
<1>6. Guarded(f[n]) /\ f[n] \in Seq(Symbol)
  BY <1>2, <1>5 DEF I
<1> QED
  BY <1>2, <1>6

-------------------------------------------------------------------------------

\* What a text or a number holds is the name of no field (find_key).
LEMMA NoKey ==
  /\ Quote \notin Keys \cup {":"} /\ "{" \notin Keys \cup {":"} /\ "}" \notin Keys \cup {":"}
  /\ "," \notin Keys \cup {":"} /\ ":" \notin Keys /\ Backslash \notin Keys /\ Backslash # Quote /\ ":" # Quote
  /\ \A n \in 1 .. 10 : Numerals[n] \in Symbol /\ Numerals[n] \notin Keys \cup {":", Quote, "{", "}"}
<1>1. /\ Quote \notin Keys \cup {":"} /\ "{" \notin Keys \cup {":"} /\ "}" \notin Keys \cup {":"}
      /\ "," \notin Keys \cup {":"} /\ ":" \notin Keys /\ Backslash \notin Keys /\ Backslash # Quote /\ ":" # Quote
  BY DEF Keys, Quote, Backslash
<1>2. ASSUME NEW n \in 1 .. 10
      PROVE  Numerals[n] \in Symbol /\ Numerals[n] \notin Keys \cup {":", Quote, "{", "}"}
  <2>1. Numerals[n] \in Symbol
    BY DEF Symbol, Own
  <2>2. Numerals[n] \in {"0", "1", "2", "3", "4", "5", "6", "7", "8", "9"}
    BY DEF Numerals
  <2>3. Numerals[n] \notin Keys \cup {":", Quote, "{", "}"}
    BY <2>2 DEF Keys, Quote
  <2> QED
    BY <2>1, <2>3
<1> QED
  BY <1>1, <1>2

\* In a word without a field nothing is found.
LEMMA NoHitNothingShown ==
  ASSUME NEW w \in Seq(Symbol), Edges(w), \A key \in Keys : \A p \in Nat : ~ Hit(w, key, p)
  PROVE  Shows(w, Nothing)
<1>1. ASSUME NEW key \in Keys PROVE Finds(w, key, Nothing[key])
  <2>1. Nothing[key] = None
    BY DEF Nothing
  <2> QED
    BY <2>1 DEF Finds
<1> QED
  BY <1>1 DEF Shows

\* In an empty part find_key finds no field.
LEMMA EmptyShows ==
  Shows(<<>>, Nothing)
<1> DEFINE w == <<>>
<1>1. w \in Seq(Symbol) /\ Edges(w) /\ Len(w) = 0
  BY EmptySeq DEF Edges
<1> HIDE DEF w
<1>2. \A key \in Keys : \A p \in Nat : ~ Hit(w, key, p)
  BY <1>1 DEF Hit
<1> QED
  BY <1>1, <1>2, NoHitNothingShown DEF w

\* In one symbol that is no name and no colon find_key finds no field.
LEMMA OneSymbolShows ==
  ASSUME NEW x \in Symbol, x \notin Keys \cup {":"}
  PROVE  Shows(<<x>>, Nothing)
<1> DEFINE w == <<x>>
<1>1. w \in Seq(Symbol)
  BY ShortSequences
<1>2. Len(w) = 1 /\ w[1] = x
  OBVIOUS
<1> HIDE DEF w
<1>3. Edges(w)
  BY <1>2 DEF Edges
<1>4. \A key \in Keys : \A p \in Nat : ~ Hit(w, key, p)
  BY <1>2 DEF Hit
<1> QED
  BY <1>1, <1>3, <1>4, NoHitNothingShown DEF w

\* Nothing is found in a text, whatever it holds: its quotes follow a backslash.
LEMMA StringShows ==
  ASSUME NEW text \in Seq(Letter)
  PROVE  Shows(StringValue(text), Nothing)
<1>1. PICK z \in Seq(Symbol) : StringValue(text) = Quoted(z) /\ Guarded(z)
  BY StringIsGuarded
<1> DEFINE w == Quoted(z)
           n == Len(z)
<1>2. /\ w \in Seq(Symbol) /\ n \in Nat /\ Len(w) = n + 2
      /\ w[1] = Quote /\ w[n + 2] = Quote
      /\ \A i \in 1 .. n : w[i + 1] = z[i]
  BY QuotedLayout
<1>3. \A i \in 1 .. n : z[i] = Quote => i > 1 /\ z[i - 1] = Backslash
  BY <1>1 DEF Guarded
<1> HIDE DEF w, n
<1>4. Edges(w)
  BY <1>2, NoKey DEF Edges
<1>5. ASSUME NEW key \in Keys, NEW p \in Nat, Hit(w, key, p)
      PROVE  FALSE
  <2>1. p \in 1 .. n - 1 /\ w[p + 1] = key /\ w[p + 2] = Quote
    BY <1>2, <1>5 DEF Hit
  <2> DEFINE i == p + 1
  <2>2. i \in 1 .. n /\ i + 1 = p + 2 /\ i - 1 = p /\ p \in 1 .. n
    BY <1>2, <2>1
  <2> HIDE DEF i
  <2>3. z[i] = Quote
    BY <1>2, <2>1, <2>2
  <2>4. z[p] = Backslash
    BY <1>3, <2>2, <2>3
  <2>5. w[p + 1] = Backslash
    BY <1>2, <2>2, <2>4
  <2> QED
    BY <2>1, <2>5, NoKey
<1> QED
  BY <1>1, <1>2, <1>4, <1>5, NoHitNothingShown DEF w

\* A part of a line: what the decoder finds in it, and that it passes over it when it
\* looks for the end of an object (json_get_object).
Part(w, found) == Shows(w, found) /\ Moves(w, "outside", "outside")

\* An empty part (append_string_field of a text that is not set).
LEMMA EmptyPart ==
  Part(<<>>, Nothing)
BY EmptyShows, NothingMoves DEF Part

\* A comma is a part that holds no field (append_json_field_prefix).
LEMMA OneSymbolPart ==
  ASSUME NEW x \in Symbol, x \notin Keys \cup {":", Quote, "{", "}"}
  PROVE  Part(<<x>>, Nothing)
BY OneSymbolShows, OneSymbolMoves DEF Part

\* A text is a part that holds no field, whatever it is (append_string_field).
LEMMA StringPart ==
  ASSUME NEW text \in Seq(Letter)
  PROVE  Part(StringValue(text), Nothing)
BY StringShows, StringMoves DEF Part

\* A number is a part that holds no field (append_int_field).
LEMMA NumeralPart ==
  ASSUME NEW n \in 0 .. 9
  PROVE  Part(Numeral(n), Nothing)
<1>1. n + 1 \in 1 .. 10
  OBVIOUS
<1> QED
  BY <1>1, NoKey, OneSymbolPart DEF Numeral

\* Of two parts find_key finds what the first holds, then what the second holds.
LEMMA TwoParts ==
  ASSUME NEW a, NEW b, NEW f, NEW g, Part(a, f), Part(b, g)
  PROVE  Part(a \o b, First(f, g))
<1>1. Shows(a \o b, First(f, g))
  BY TwoShown DEF Part
<1>2. Moves(a \o b, "outside", "outside")
  BY MovesOn DEF Part, Shows
<1> QED
  BY <1>1, <1>2 DEF Part

\* Only what is found matters, not how it is put.
LEMMA SameFound ==
  ASSUME NEW w, NEW f, NEW g, Part(w, f), \A key \in Keys : f[key] = g[key]
  PROVE  Part(w, g)
<1>1. ASSUME NEW key \in Keys PROVE Finds(w, key, g[key])
  <2>1. Finds(w, key, f[key])
    BY DEF Part, Shows
  <2> QED
    BY <2>1
<1> QED
  BY <1>1 DEF Part, Shows

-------------------------------------------------------------------------------

\* A name is one symbol and none of those that lay a line out (find_key).
LEMMA KeysAreSymbols ==
  ASSUME NEW key \in Keys
  PROVE  key \in Symbol /\ key \notin {Quote, Backslash, ":"}
<1>1. key \in Symbol
  BY DEF Keys, Symbol, Own
<1>2. key \notin {Quote, Backslash, ":"}
  BY NoKey
<1> QED
  BY <1>1, <1>2

\* The name of a field with its colon (append_json_field_prefix).
Label(name) == Quoted(<<name>>) \o <<":">>

\* The name of a field, its quotes and its colon (append_json_field_prefix).
LEMMA LabelLayout ==
  ASSUME NEW name \in Keys
  PROVE  /\ Label(name) \in Seq(Symbol) /\ Len(Label(name)) = 4
         /\ Label(name)[1] = Quote /\ Label(name)[2] = name
         /\ Label(name)[3] = Quote /\ Label(name)[4] = ":"
         /\ Moves(Label(name), "outside", "outside")
<1> DEFINE z == <<name>>
           q == Quoted(z)
           c == <<":">>
           w == q \o c
<1>1. z \in Seq(Symbol) /\ Len(z) = 1 /\ z[1] = name
  <2>1. z \in Seq(Symbol)
    BY KeysAreSymbols, ShortSequences
  <2> QED
    BY <2>1
<1>2. Moves(z, "string", "string")
  BY KeysAreSymbols, OneSymbolMoves
<1>3. c \in Seq(Symbol) /\ Len(c) = 1 /\ c[1] = ":" /\ Moves(c, "outside", "outside")
  <2>1. ":" \in Symbol
    BY OwnSymbols DEF Plain
  <2>2. c \in Seq(Symbol)
    BY <2>1, ShortSequences
  <2>3. Moves(c, "outside", "outside")
    <3>1. ":" \notin {Quote, "{", "}"}
      BY DEF Quote
    <3> QED
      BY <2>1, <3>1, OneSymbolMoves
  <2> QED
    BY <2>2, <2>3
<1> HIDE DEF z, c
<1>4. q \in Seq(Symbol) /\ Moves(q, "outside", "outside")
  BY <1>1, <1>2, QuotedMoves
<1>5. Len(q) = 3 /\ q[1] = Quote /\ q[2] = name /\ q[3] = Quote
  <2>1. /\ Len(q) = Len(z) + 2 /\ q[1] = Quote /\ q[Len(z) + 2] = Quote
        /\ \A i \in 1 .. Len(z) : q[i + 1] = z[i]
    BY <1>1, QuotedLayout
  <2> HIDE DEF q
  <2>2. 1 \in 1 .. Len(z) /\ Len(z) + 2 = 3 /\ 1 + 1 = 2
    BY <1>1
  <2>3. q[1 + 1] = z[1]
    BY <2>1, <2>2
  <2> QED
    BY <1>1, <2>1, <2>2, <2>3
<1> HIDE DEF q
<1>6. w \in Seq(Symbol) /\ Moves(w, "outside", "outside")
  BY <1>3, <1>4, MovesOn, ConcatProperties
<1>7. /\ Len(w) = Len(q) + Len(c)
      /\ \A i \in 1 .. Len(q) : w[i] = q[i]
      /\ \A i \in 1 .. Len(c) : w[Len(q) + i] = c[i]
  BY <1>3, <1>4, TwoWords
<1>8. Label(name) = w
  BY DEF Label, w, q, z, c
<1> HIDE DEF w
<1>9. Len(w) = 4 /\ w[1] = Quote /\ w[2] = name /\ w[3] = Quote
  BY <1>3, <1>5, <1>7
<1>10. w[4] = ":"
  <2>1. w[Len(q) + 1] = c[1]
    BY <1>3, <1>7
  <2>2. Len(q) + 1 = 4
    BY <1>5
  <2> QED
    BY <1>3, <2>1, <2>2
<1> QED
  BY <1>6, <1>8, <1>9, <1>10

\* The only field that begins in a name with its colon is that one, at its start.
LEMMA LabelHits ==
  ASSUME NEW name \in Keys, NEW key \in Keys, NEW p \in Nat
  PROVE  Hit(Label(name), key, p) <=> key = name /\ p = 1
<1> DEFINE w == Label(name)
<1>1. Len(w) = 4 /\ w[1] = Quote /\ w[2] = name /\ w[3] = Quote /\ w[4] = ":"
  BY LabelLayout
<1> HIDE DEF w
<1>2. Hit(w, key, p) => p = 1 /\ key = name
  <2>1. SUFFICES ASSUME Hit(w, key, p) PROVE p = 1 /\ key = name
    OBVIOUS
  <2>2. p = 1
    BY <1>1, <2>1 DEF Hit
  <2> QED
    BY <1>1, <2>1, <2>2 DEF Hit
<1>3. key = name => Hit(w, key, 1)
  <2>1. 1 + 1 = 2 /\ 1 + 2 = 3 /\ 1 + 3 = 4 /\ 1 \in 1 .. Len(w) - 3
    BY <1>1
  <2> QED
    BY <1>1, <2>1 DEF Hit
<1> QED
  BY <1>2, <1>3 DEF w

\* A field: its name, with its value, and what is in the value.
LEMMA FieldPart ==
  ASSUME NEW name \in Keys, NEW value, NEW f, Part(value, f), value # <<>>
  PROVE  /\ Field(name, value) = <<Label(name) \o value>>
         /\ Label(name) \o value # <<>>
         /\ Part(Label(name) \o value, First(Only(name, value), f))
<1> DEFINE a == Label(name)
           w == a \o value
           g == First(Only(name, value), f)
<1>1. /\ a \in Seq(Symbol) /\ Len(a) = 4 /\ a[1] = Quote /\ a[4] = ":" /\ Moves(a, "outside", "outside")
  BY LabelLayout
<1>2. value \in Seq(Symbol) /\ Edges(value) /\ Moves(value, "outside", "outside") /\ \A key \in Keys : Finds(value, key, f[key])
  BY DEF Part, Shows
<1>3. Field(name, value) = <<w>>
  BY DEF Field, Label
<1>4. \A key \in Keys : \A p \in Nat : Hit(a, key, p) <=> key = name /\ p = 1
  BY LabelHits
<1> HIDE DEF a
<1>5. Moves(w, "outside", "outside") /\ w \in Seq(Symbol)
  BY <1>1, <1>2, MovesOn, ConcatProperties
<1>6. /\ Len(value) \in Nat /\ Len(w) = 4 + Len(value)
      /\ \A i \in 1 .. 4 : w[i] = a[i]
      /\ \A i \in 1 .. Len(value) : w[4 + i] = value[i]
  <2>1. a \in Seq(Symbol) /\ value \in Seq(Symbol)
    BY <1>1, <1>2
  <2>2. /\ Len(value) \in Nat /\ Len(w) = Len(a) + Len(value)
        /\ \A i \in 1 .. Len(a) : w[i] = a[i]
        /\ \A i \in 1 .. Len(value) : w[Len(a) + i] = value[i]
    BY <2>1, TwoWords
  <2> HIDE DEF w
  <2> QED
    BY <1>1, <2>2
<1>7. Edges(a)
  BY <1>1, NoKey DEF Edges
<1>8. ASSUME NEW key \in Keys, NEW p \in Nat
      PROVE  /\ Hit(a, key, p) => Hit(w, key, p)
             /\ Hit(w, key, p) => Hit(a, key, p) \/ p > 4
  BY <1>1, <1>2, <1>7, HitsOfTwoWords
<1>9. Len(value) # 0
  BY <1>2, EmptySeq
<1>10. ASSUME NEW key \in Keys PROVE Finds(w, key, g[key])
  <2>1. CASE key = name
    <3>1. g[key] = Some(value)
      BY <2>1 DEF First, Only, Some, None
    <3>2. Hit(w, key, 1)
      BY <1>4, <1>8, <2>1
    <3>3. \A q \in Nat : Hit(w, key, q) => 1 <= q
      BY DEF Hit
    <3>4. Occurs(value, w, 1 + 3)
      BY <1>6 DEF Occurs
    <3> HIDE DEF w, g
    <3> QED
      BY <1>2, <3>1, <3>2, <3>3, <3>4 DEF Finds
  <2>2. CASE key # name
    <3>1. g[key] = f[key]
      BY <2>2 DEF First, Only, None
    <3>2. \A p \in Nat : ~ Hit(a, key, p)
      BY <1>4, <2>2
    <3>3. Finds(a, key, None)
      BY <3>2 DEF Finds
    <3> DEFINE v == f[key]
    <3>4. Finds(value, key, v)
      BY <1>2
    <3> HIDE DEF v
    <3>5. Finds(w, key, IF None # None THEN None ELSE v)
      BY <1>1, <1>2, <1>7, <3>3, <3>4, FoundInTwoWords
    <3>6. Finds(w, key, v)
      BY <3>5
    <3> QED
      BY <3>1, <3>6 DEF v
  <2> QED
    BY <2>1, <2>2
<1>11. Edges(w)
  <2> DEFINE l == Len(value)
  <2>1. value[l] \notin Keys
    BY <1>2 DEF Edges
  <2>2. l \in Nat /\ l # 0 /\ Len(w) = 4 + l
    BY <1>6, <1>9
  <2>3. w[1] = Quote /\ w[4 + l] = value[l]
    BY <1>1, <1>6, <2>2
  <2> HIDE DEF l, w
  <2> QED
    BY <2>1, <2>2, <2>3, NoKey DEF Edges
<1>12. w # <<>>
  BY <1>6
<1> HIDE DEF w, g
<1>13. Part(w, g)
  BY <1>5, <1>10, <1>11 DEF Part, Shows
<1> QED
  BY <1>3, <1>12, <1>13 DEF w, g, a

-------------------------------------------------------------------------------

\* The fields of an object, and what the decoder finds in them.
Fields(fields, found) == fields \in Seq(Seq(Symbol)) /\ fields # <<>> /\ Part(Separated(fields), found)

\* A field, or nothing when it is not set.
MaybeField(field, found) == field \in Seq(Seq(Symbol)) /\ Len(field) <= 1 /\ Part(Comma(field), found)

\* An object's first field (append_json_field_prefix).
LEMMA FirstField ==
  ASSUME NEW w, NEW f, Part(w, f)
  PROVE  Fields(<<w>>, f)
<1>1. w \in Seq(Symbol)
  BY DEF Part, Shows
<1> DEFINE T == Seq(Symbol)
           fields == <<w>>
<1>2. fields \in Seq(T)
  <2> HIDE DEF T
  <2>1. w \in T
    BY <1>1 DEF T
  <2> QED
    BY <2>1, ShortSequences
<1>3. fields # <<>>
  OBVIOUS
<1>4. Separated(fields) = w
  BY <1>1, OneField
<1> HIDE DEF fields
<1>5. Fields(fields, f)
  BY <1>2, <1>3, <1>4 DEF Fields
<1> QED
  BY <1>5 DEF fields

\* One field more, or none: find_key finds what was there, then what is new.
LEMMA AddField ==
  ASSUME NEW fields, NEW f, NEW field, NEW g, Fields(fields, f), MaybeField(field, g)
  PROVE  Fields(fields \o field, First(f, g))
<1>1. /\ fields \o field \in Seq(Seq(Symbol)) /\ fields \o field # <<>>
      /\ Separated(fields \o field) = Separated(fields) \o Comma(field)
  BY OneMoreField DEF Fields, MaybeField
<1>2. Part(Separated(fields) \o Comma(field), First(f, g))
  BY TwoParts DEF Fields, MaybeField
<1> QED
  BY <1>1, <1>2 DEF Fields

\* A field that is not set is not written (append_string_field, append_int_field).
LEMMA NoField ==
  MaybeField(<<>>, Nothing)
<1> DEFINE w == <<>>
           T == Seq(Symbol)
<1>1. w \in Seq(T) /\ Len(w) <= 1
  BY EmptySeq
<1>2. Comma(w) = <<>>
  BY DEF Comma
<1> HIDE DEF w, T
<1>3. MaybeField(w, Nothing)
  BY <1>1, <1>2, EmptyPart DEF MaybeField, T
<1> QED
  BY <1>3 DEF w

\* A field that is set.
LEMMA SomeField ==
  ASSUME NEW name \in Keys, NEW value, NEW f, Part(value, f), value # <<>>
  PROVE  /\ Fields(Field(name, value), First(Only(name, value), f))
         /\ MaybeField(Field(name, value), First(Only(name, value), f))
<1> DEFINE w == Label(name) \o value
           g == First(Only(name, value), f)
           field == <<w>>
           T == Seq(Symbol)
           comma == <<",">>
<1>1. Field(name, value) = field /\ Part(w, g)
  BY FieldPart
<1> HIDE DEF w, g
<1>2. Fields(field, g)
  BY <1>1, FirstField
<1>3. field \in Seq(T)
  BY <1>2 DEF Fields
<1>4. Len(field) <= 1 /\ field # <<>> /\ field[1] = w
  OBVIOUS
<1>5. Comma(field) = comma \o w
  BY <1>4 DEF Comma
<1>6. Part(comma, Nothing)
  <2>1. "," \in Symbol /\ "," \notin Keys \cup {":", Quote, "{", "}"}
    BY OwnSymbols, NoKey DEF Plain, Quote
  <2> QED
    BY <2>1, OneSymbolPart
<1>7. Part(comma \o w, First(Nothing, g))
  BY <1>1, <1>6, TwoParts
<1>8. \A key \in Keys : First(Nothing, g)[key] = g[key]
  BY DEF First, Nothing
<1>9. Part(comma \o w, g)
  BY <1>7, <1>8, SameFound
<1> HIDE DEF field, comma, T
<1>10. MaybeField(field, g)
  BY <1>3, <1>4, <1>5, <1>9 DEF MaybeField, T
<1> QED
  BY <1>1, <1>2, <1>10 DEF g

\* A text and a number are not empty.
LEMMA ValuesNotEmpty ==
  /\ \A text \in Seq(Letter) : StringValue(text) # <<>>
  /\ \A n \in 0 .. 9 : Numeral(n) # <<>>
<1>1. ASSUME NEW text \in Seq(Letter) PROVE StringValue(text) # <<>>
  <2>1. PICK z \in Seq(Symbol) : StringValue(text) = Quoted(z) /\ Guarded(z)
    BY StringIsGuarded
  <2>2. Len(Quoted(z)) = Len(z) + 2 /\ Len(z) \in Nat
    BY QuotedLayout
  <2>3. Len(Quoted(z)) # 0
    BY <2>2
  <2> QED
    BY <2>1, <2>3
<1>2. ASSUME NEW n \in 0 .. 9 PROVE Numeral(n) # <<>>
  BY DEF Numeral
<1> QED
  BY <1>1, <1>2

\* What a text field, a number field and an operation field hold.
TextFound(name, text) == IF text = <<>> THEN Nothing ELSE Only(name, StringValue(text))
NumberFound(name, n) == IF n < 0 THEN Nothing ELSE Only(name, Numeral(n))

\* One field and nothing else (append_json_field_prefix).
LEMMA OnlyFound ==
  ASSUME NEW w, NEW name \in Keys, NEW value, Part(w, First(Only(name, value), Nothing))
  PROVE  Part(w, Only(name, value))
<1>1. \A key \in Keys : First(Only(name, value), Nothing)[key] = Only(name, value)[key]
  BY DEF First, Only, Nothing
<1> QED
  BY <1>1, SameFound

\* A text that is written is found under its name (append_string_field, find_key).
LEMMA TextIsSetField ==
  ASSUME NEW name \in Keys, NEW text \in Seq(Letter)
  PROVE  /\ Fields(Field(name, StringValue(text)), Only(name, StringValue(text)))
         /\ MaybeField(Field(name, StringValue(text)), Only(name, StringValue(text)))
<1> DEFINE value == StringValue(text)
<1>1. Part(value, Nothing) /\ value # <<>>
  BY StringPart, ValuesNotEmpty
<1> HIDE DEF value
<1>2. /\ Fields(Field(name, value), First(Only(name, value), Nothing))
      /\ MaybeField(Field(name, value), First(Only(name, value), Nothing))
  BY <1>1, SomeField
<1>3. Fields(Field(name, value), Only(name, value))
  BY <1>2, OnlyFound DEF Fields
<1>4. MaybeField(Field(name, value), Only(name, value))
  BY <1>2, OnlyFound DEF MaybeField
<1> QED
  BY <1>3, <1>4 DEF value

\* A number that is written is found under its name (append_int_field, find_key).
LEMMA NumberIsSetField ==
  ASSUME NEW name \in Keys, NEW n \in 0 .. 9
  PROVE  MaybeField(Field(name, Numeral(n)), Only(name, Numeral(n)))
<1> DEFINE value == Numeral(n)
<1>1. Part(value, Nothing) /\ value # <<>>
  BY NumeralPart, ValuesNotEmpty
<1> HIDE DEF value
<1>2. MaybeField(Field(name, value), First(Only(name, value), Nothing))
  BY <1>1, SomeField
<1>3. MaybeField(Field(name, value), Only(name, value))
  BY <1>2, OnlyFound DEF MaybeField
<1> QED
  BY <1>3 DEF value

\* A text, written or left out: find_key finds it exactly when it is set
\* (append_string_field).
LEMMA TextField ==
  ASSUME NEW name \in Keys, NEW text \in Seq(Letter)
  PROVE  MaybeField(StringField(name, text), TextFound(name, text))
BY NoField, TextIsSetField DEF StringField, TextFound

\* A number, written or left out: find_key finds it exactly when it is not negative
\* (append_int_field).
LEMMA NumberField ==
  ASSUME NEW name \in Keys, NEW n \in -1 .. 9
  PROVE  MaybeField(IntField(name, n), NumberFound(name, n))
<1>1. CASE n < 0
  BY <1>1, NoField DEF IntField, NumberFound
<1>2. CASE ~ n < 0
  <2>1. n \in 0 .. 9
    BY <1>2
  <2> QED
    BY <1>2, <2>1, NumberIsSetField DEF IntField, NumberFound
<1> QED
  BY <1>1, <1>2

-------------------------------------------------------------------------------

\* An opening and a closing brace are symbols and hold no field (append_operation_field).
LEMMA Braces ==
  /\ "{" \in Symbol /\ "}" \in Symbol
  /\ <<"{">> \in Seq(Symbol) /\ <<"}">> \in Seq(Symbol)
  /\ Shows(<<"{">>, Nothing) /\ Shows(<<"}">>, Nothing)
<1>1. "{" \in Symbol /\ "}" \in Symbol
  BY OwnSymbols DEF Plain
<1> QED
  BY <1>1, ShortSequences, OneSymbolShows, NoKey

\* An object between its braces.
LEMMA ObjectLayout ==
  ASSUME NEW fields, NEW f, Fields(fields, f)
  PROVE  /\ Object(fields) = (<<"{">> \o Separated(fields)) \o <<"}">>
         /\ Separated(fields) \in Seq(Symbol) /\ Len(Separated(fields)) \in Nat
         /\ Object(fields) \in Seq(Symbol)
         /\ Len(Object(fields)) = Len(Separated(fields)) + 2
         /\ Object(fields)[1] = "{"
         /\ Object(fields)[Len(Separated(fields)) + 2] = "}"
<1> DEFINE opening == "{"
           closing == "}"
           a == <<opening>>
           b == Separated(fields)
           c == <<closing>>
           n == Len(b)
           w == a \o b
           v == w \o c
<1>1. b \in Seq(Symbol)
  BY DEF Fields, Part, Shows
<1>2. Object(fields) = v
  BY DEF Object, Separated, WithCommas
<1>3. a \in Seq(Symbol) /\ c \in Seq(Symbol)
  BY Braces
<1> HIDE DEF opening, closing
<1>4. Len(a) = 1 /\ a[1] = opening /\ Len(c) = 1 /\ c[1] = closing
  OBVIOUS
<1> HIDE DEF a, b, c
<1>5. w \in Seq(Symbol) /\ n \in Nat /\ Len(w) = Len(a) + n /\ \A i \in 1 .. Len(a) : w[i] = a[i]
  BY <1>1, <1>3, TwoWords
<1> HIDE DEF w
<1>6. /\ v \in Seq(Symbol) /\ Len(v) = Len(w) + Len(c)
      /\ \A i \in 1 .. Len(w) : v[i] = w[i]
      /\ \A i \in 1 .. Len(c) : v[Len(w) + i] = c[i]
  <2>1. w \in Seq(Symbol) /\ c \in Seq(Symbol)
    BY <1>3, <1>5
  <2> QED
    BY <2>1, TwoWords
<1> HIDE DEF v, n
<1>7. Len(v) = n + 2 /\ v[1] = opening
  BY <1>4, <1>5, <1>6
<1>8. v[n + 2] = closing
  <2>1. v[Len(w) + 1] = c[1]
    BY <1>4, <1>6
  <2>2. Len(w) + 1 = n + 2
    BY <1>4, <1>5
  <2> QED
    BY <1>4, <2>1, <2>2
<1> QED
  BY <1>1, <1>2, <1>5, <1>6, <1>7, <1>8 DEF n, v, w, a, b, c, opening, closing

\* In an object the decoder finds what its fields hold.
LEMMA ObjectShows ==
  ASSUME NEW fields, NEW f, Fields(fields, f)
  PROVE  Shows(Object(fields), f)
<1> DEFINE a == <<"{">>
           b == Separated(fields)
           c == <<"}">>
           g == First(Nothing, f)
           h == First(g, Nothing)
<1>1. Shows(a, Nothing) /\ Shows(c, Nothing)
  BY Braces
<1>2. Shows(b, f)
  BY DEF Fields, Part
<1>3. Object(fields) = (a \o b) \o c
  BY ObjectLayout
<1>4. \A key \in Keys : h[key] = f[key]
  BY DEF First, Nothing
<1> HIDE DEF a, b, c
<1>5. Shows(a \o b, g)
  BY <1>1, <1>2, TwoShown
<1> HIDE DEF g
<1>6. Shows((a \o b) \o c, h)
  BY <1>1, <1>5, TwoShown
<1> HIDE DEF h
<1>7. ASSUME NEW key \in Keys PROVE Finds(Object(fields), key, f[key])
  <2>1. Finds(Object(fields), key, h[key])
    BY <1>3, <1>6 DEF Shows
  <2> QED
    BY <1>4, <2>1
<1> QED
  BY <1>3, <1>6, <1>7 DEF Shows

\* The loop that begins before an object comes out behind it, or stops at its
\* last brace (json_get_object).
LEMMA OverAnObject ==
  ASSUME NEW fields, NEW f, Fields(fields, f),
         NEW json \in Seq(Symbol), NEW end, NEW n \in Nat, NEW d \in Nat,
         Scan(json, end), Occurs(Object(fields), json, n)
  PROVE  /\ d = 0 => end[Place(n + 1, d, "outside")] = Some(n + Len(Object(fields)))
         /\ d # 0 => end[Place(n + 1, d, "outside")] = end[Place(n + Len(Object(fields)) + 1, d, "outside")]
<1> DEFINE opening == "{"
           closing == "}"
           a == <<opening>>
           b == Separated(fields)
           c == <<closing>>
           l == Len(b)
           w == a \o b
           k == Len(json)
<1>1. /\ Object(fields) = w \o c
      /\ b \in Seq(Symbol) /\ l \in Nat /\ Len(Object(fields)) = l + 2
  BY ObjectLayout
<1>2. Moves(b, "outside", "outside")
  BY DEF Fields, Part
<1>3. a \in Seq(Symbol) /\ Len(a) = 1 /\ a[1] = opening /\ c \in Seq(Symbol) /\ Len(c) = 1 /\ c[1] = closing
  <2>1. a \in Seq(Symbol) /\ c \in Seq(Symbol)
    BY Braces
  <2> HIDE DEF opening, closing
  <2> QED
    BY <2>1
<1> HIDE DEF opening, closing, a, b, c, k
<1>4. w \in Seq(Symbol) /\ Len(w) = 1 + l
  <2>1. w \in Seq(Symbol) /\ Len(w) = Len(a) + Len(b)
    BY <1>1, <1>3, TwoWords
  <2> QED
    BY <1>3, <2>1
<1>5. Occurs(w, json, n) /\ Occurs(c, json, n + Len(w))
  <2> HIDE DEF w
  <2> QED
    BY <1>1, <1>3, <1>4, OccursInTwo
<1>6. Occurs(a, json, n) /\ Occurs(b, json, n + Len(a))
  BY <1>1, <1>3, <1>5, OccursInTwo
<1> HIDE DEF w, l
<1> DEFINE i == n + 1
           j == n + l + 2
<1>7. k \in Nat
  BY DEF k
<1>8. i \in 1 .. k /\ json[i] = opening
  BY <1>3, <1>6, <1>7 DEF Occurs, k
<1>9. j \in 1 .. k /\ json[j] = closing
  <2>1. n + Len(w) + 1 <= k /\ json[n + Len(w) + 1] = closing
    BY <1>3, <1>5, <1>7 DEF Occurs, k
  <2>2. n + Len(w) + 1 = j
    BY <1>1, <1>4
  <2> QED
    BY <1>1, <2>1, <2>2
<1>10. i + 1 = (n + Len(a)) + 1 /\ (n + Len(a)) + l + 1 = j /\ n + Len(a) \in Nat
  BY <1>1, <1>3
<1> HIDE DEF i, j
<1>11. d \in Int /\ d + 1 \in Int /\ d + 1 \in Nat \ {0} /\ (d + 1) - 1 = d
  OBVIOUS
<1>12. end[Place(i, d, "outside")] = end[Place(i + 1, d + 1, "outside")]
  BY <1>8, <1>11 DEF Scan, k, opening
<1>13. end[Place(i + 1, d + 1, "outside")] = end[Place(j, d + 1, "outside")]
  <2> DEFINE m == n + Len(a)
             e == d + 1
  <2>1. m \in Nat /\ e \in Nat \ {0} /\ Occurs(b, json, m)
    BY <1>6, <1>10, <1>11
  <2> HIDE DEF m, e
  <2>2. end[Place(m + 1, e, "outside")] = end[Place(m + Len(b) + 1, e, "outside")]
    BY <1>2, <2>1 DEF Moves
  <2>3. m + 1 = i + 1 /\ m + Len(b) + 1 = j
    BY <1>10 DEF m, l
  <2> QED
    BY <2>2, <2>3 DEF e
<1>14. d = 0 => end[Place(j, d + 1, "outside")] = Some(j)
  <2> DEFINE e == d + 1
  <2>1. e \in Int /\ (d = 0 => e = 1)
    OBVIOUS
  <2> HIDE DEF e
  <2>2. e = 1 => end[Place(j, e, "outside")] = Some(j)
    BY <1>9, <2>1 DEF Scan, k, closing
  <2> QED
    BY <2>1, <2>2 DEF e
<1>15. d # 0 => end[Place(j, d + 1, "outside")] = end[Place(j + 1, d, "outside")]
  <2> DEFINE e == d + 1
  <2>1. e \in Int /\ (d # 0 => e # 1) /\ e - 1 = d
    OBVIOUS
  <2> HIDE DEF e
  <2>2. e # 1 => end[Place(j, e, "outside")] = end[Place(j + 1, e - 1, "outside")]
    BY <1>9, <2>1 DEF Scan, k, closing
  <2> QED
    BY <2>1, <2>2 DEF e
<1>16. n + Len(Object(fields)) = j
  BY <1>1 DEF j
<1> QED
  BY <1>12, <1>13, <1>14, <1>15, <1>16 DEF i

\* An object holds the fields that are in it, and the loop of json_get_object passes
\* over it (append_operation_field).
LEMMA ObjectPart ==
  ASSUME NEW fields, NEW f, Fields(fields, f)
  PROVE  Part(Object(fields), f) /\ Object(fields) # <<>>
<1> DEFINE w == Object(fields)
<1>1. Moves(w, "outside", "outside")
  <2>1. ASSUME NEW json \in Seq(Symbol), NEW end, NEW n \in Nat, NEW d \in Nat \ {0},
               Scan(json, end), Occurs(w, json, n)
        PROVE  end[Place(n + 1, d, "outside")] = end[Place(n + Len(w) + 1, d, "outside")]
    <3>1. d \in Nat /\ d # 0
      OBVIOUS
    <3> QED
      BY <2>1, <3>1, OverAnObject
  <2> HIDE DEF w
  <2> QED
    BY <2>1 DEF Moves
<1>2. w # <<>>
  <2> DEFINE n == Len(Separated(fields))
  <2>1. n \in Nat /\ Len(w) = n + 2
    BY ObjectLayout
  <2> HIDE DEF w, n
  <2> QED
    BY <2>1
<1> QED
  BY <1>1, <1>2, ObjectShows DEF Part

\* Where an object begins in a line, it ends with its own last brace.
LEMMA ObjectEnds ==
  ASSUME NEW fields, NEW f, Fields(fields, f), NEW json \in Seq(Symbol), NEW n \in Nat,
         Occurs(Object(fields), json, n)
  PROVE  /\ EndOfObject(json, n + 1) = Some(n + Len(Object(fields)))
         /\ json[n + 1] = "{"
         /\ SubSeq(json, n + 1, n + Len(Object(fields))) = Object(fields)
<1> DEFINE opening == "{"
           w == Object(fields)
           l == Len(w)
           k == Len(json)
           s == SubSeq(json, n + 1, n + l)
<1>1. w \in Seq(Symbol) /\ l \in Nat /\ l # 0 /\ w[1] = opening /\ k \in Nat
  <2> DEFINE z == Len(Separated(fields))
  <2>1. w \in Seq(Symbol) /\ z \in Nat /\ Len(w) = z + 2 /\ w[1] = opening
    BY ObjectLayout
  <2> HIDE DEF w, z, opening
  <2> QED
    BY <2>1
<1>2. EndOfObject(json, n + 1) = Some(n + l)
  <2>1. PICK end : Scan(json, end) /\ \A start \in Nat : EndOfObject(json, start) = end[Place(start, 0, "outside")]
    BY TheScanEnds
  <2>2. end[Place(n + 1, 0, "outside")] = Some(n + l)
    BY <2>1, OverAnObject
  <2>3. n + 1 \in Nat
    OBVIOUS
  <2> HIDE DEF l
  <2> QED
    BY <2>1, <2>2, <2>3
<1>3. n + l <= k /\ \A i \in 1 .. l : json[n + i] = w[i]
  BY DEF Occurs
<1>4. json \in Seq(Symbol)
  OBVIOUS
<1> HIDE DEF w, l, opening
<1>5. s \in Seq(Symbol) /\ Len(s) = l /\ \A i \in 1 .. l : s[i] = json[n + i]
  <2> DEFINE from == n + 1
             to == n + l
  <2>1. from \in 1 .. k + 1 /\ to \in from - 1 .. k /\ to - from + 1 = l /\ \A i \in 1 .. l : from + i - 1 = n + i
    BY <1>1, <1>3
  <2> HIDE DEF from, to
  <2>2. /\ SubSeq(json, from, to) \in Seq(Symbol)
        /\ Len(SubSeq(json, from, to)) = to - from + 1
        /\ \A i \in 1 .. to - from + 1 : SubSeq(json, from, to)[i] = json[from + i - 1]
    BY <1>1, <2>1, SubSeqProperties DEF k
  <2> QED
    BY <2>1, <2>2 DEF from, to
<1> HIDE DEF s, k
<1>6. json[n + 1] = opening
  BY <1>1, <1>3
<1>7. s = w
  <2>1. s = [i \in 1 .. l |-> s[i]]
    BY <1>5
  <2>2. w = [i \in 1 .. l |-> w[i]]
    BY <1>1 DEF l
  <2>3. \A i \in 1 .. l : s[i] = w[i]
    BY <1>3, <1>5
  <2> QED
    BY <2>1, <2>2, <2>3
<1> QED
  BY <1>2, <1>6, <1>7 DEF s, l, w, opening

-------------------------------------------------------------------------------

\* What a text that is read may hold.
Heard == Symbol \cup {Newline, "\r", "\t", "^A", "^["}

\* The next symbol of a text, and how many symbols it takes after the first.
SymbolAt(json, i) ==
  IF json[i] # Backslash THEN Some([char |-> json[i], width |-> 0])
  ELSE IF i = Len(json) THEN None ELSE Unescaped(json, i + 1)

\* One turn of the loop that reads a text (parse_json_string_alloc).
ReadTurn(json, text, i) ==
  IF i > Len(json) THEN None
  ELSE IF json[i] = Quote THEN Some(<<>>)
  ELSE IF SymbolAt(json, i) = None \/ text[i + 1 + SymbolAt(json, i)[1].width] = None THEN None
  ELSE Some(<<SymbolAt(json, i)[1].char>> \o text[i + 1 + SymbolAt(json, i)[1].width][1])

\* What the loop does at each symbol; text tells what it will read from there.
Reads(json, text) ==
  \A i \in 1 .. Len(json) :
    /\ json[i] = Quote => text[i] = Some(<<>>)
    /\ \A c \in Heard, k \in 0 .. 2 : \A rest \in Seq(Heard) :
         json[i] # Quote /\ SymbolAt(json, i) = Some([char |-> c, width |-> k]) /\ text[i + 1 + k] = Some(rest)
           => text[i] = Some(<<c>> \o rest)

\* What one turn of the loop of parse_json_string_alloc makes of a symbol.
LEMMA SymbolAtType ==
  ASSUME NEW json \in Seq(Symbol), NEW i \in 1 .. Len(json)
  PROVE  \/ SymbolAt(json, i) = None
         \/ \E c \in Heard, k \in 0 .. 2 : SymbolAt(json, i) = Some([char |-> c, width |-> k])
<1>1. json[i] \in Heard
  BY ElementOfSeq DEF Heard
<1>2. CASE json[i] # Backslash
  BY <1>1, <1>2 DEF SymbolAt
<1>3. CASE i = Len(json) /\ json[i] = Backslash
  BY <1>3 DEF SymbolAt
<1>4. CASE i # Len(json) /\ json[i] = Backslash
  <2> DEFINE j == i + 1
             x == json[j]
  <2>1. j \in 1 .. Len(json)
    BY <1>4
  <2>2. x \in Heard
    BY <2>1, ElementOfSeq DEF Heard
  <2>3. SymbolAt(json, i) = Unescaped(json, j)
    BY <1>4 DEF SymbolAt
  <2> HIDE DEF j
  <2>4. Newline \in Heard /\ "\r" \in Heard /\ "\t" \in Heard /\ DOMAIN Controls \subseteq Heard
    BY DEF Heard, Controls
  <2>5. 1 \in 0 .. 2 /\ 2 \in 0 .. 2
    OBVIOUS
  <2>6. CASE x \in {Quote, Backslash, "/"}
    <3>1. Unescaped(json, j) = Some([char |-> x, width |-> 1])
      BY <2>6 DEF Unescaped, Quote, Backslash
    <3> QED
      BY <2>2, <2>3, <2>5, <3>1
  <2>7. CASE x = "n"
    <3>1. Unescaped(json, j) = Some([char |-> Newline, width |-> 1])
      BY <2>7 DEF Unescaped, Quote, Backslash
    <3> QED
      BY <2>3, <2>4, <2>5, <3>1
  <2>8. CASE x = "r"
    <3>1. Unescaped(json, j) = Some([char |-> "\r", width |-> 1])
      BY <2>8 DEF Unescaped, Quote, Backslash
    <3> QED
      BY <2>3, <2>4, <2>5, <3>1
  <2>9. CASE x = "t"
    <3>1. Unescaped(json, j) = Some([char |-> "\t", width |-> 1])
      BY <2>9 DEF Unescaped, Quote, Backslash
    <3> QED
      BY <2>3, <2>4, <2>5, <3>1
  <2>10. CASE x = "u" /\ j < Len(json) /\ \E c \in DOMAIN Controls : Controls[c] = json[j + 1]
    <3> DEFINE c == CHOOSE c \in DOMAIN Controls : Controls[c] = json[j + 1]
    <3>1. Unescaped(json, j) = Some([char |-> c, width |-> 2])
      BY <2>10 DEF Unescaped, Quote, Backslash
    <3>2. c \in DOMAIN Controls
      BY <2>10
    <3> HIDE DEF c
    <3> QED
      BY <2>3, <2>4, <2>5, <3>1, <3>2
  <2>11. CASE /\ x \notin {Quote, Backslash, "/"} /\ x # "n" /\ x # "r" /\ x # "t"
              /\ ~ (x = "u" /\ j < Len(json) /\ \E c \in DOMAIN Controls : Controls[c] = json[j + 1])
    <3>1. Unescaped(json, j) = None
      BY <2>11 DEF Unescaped
    <3> QED
      BY <2>3, <3>1
  <2> QED
    BY <2>6, <2>7, <2>8, <2>9, <2>10, <2>11
<1> QED
  BY <1>2, <1>3, <1>4

\* The loop of parse_json_string_alloc ends: its recursive definition has a value
\* everywhere.
LEMMA TheReadEnds ==
  ASSUME NEW json \in Seq(Symbol)
  PROVE  \E text : Reads(json, text) /\ \A start \in Nat \ {0} : ParseFrom(json, start) = text[start]
<1> DEFINE N == Len(json)
           D == Nat \ {0}
           W == Seq(Heard)
           V == Seq(W)
           measure == [i \in D |-> IF i > N THEN 0 ELSE N + 1 - i]
           B == [f \in [D -> V] |-> [i \in D |-> ReadTurn(json, f, i)]]
           Rec(h) == h = [i \in D |-> ReadTurn(json, h, i)]
           text == CHOOSE h : Rec(h)
<1>1. N \in Nat
  OBVIOUS
<1>2. \A start \in D : ParseFrom(json, start) = text[start]
  BY DEF ParseFrom, ReadTurn, SymbolAt
<1>3. <<>> \in W /\ \A c \in Heard : \A rest \in W : <<c>> \o rest \in W
  BY EmptySeq, ShortSequences, ConcatProperties
<1>4. None \in V /\ \A w \in W : Some(w) \in V
  <2> HIDE DEF W
  <2> QED
    BY EmptySeq, ShortSequences DEF None, Some
<1>5. \A v \in V : v # None => v[1] \in W
  <2> HIDE DEF W
  <2> QED
    BY EmptySeq, ElementOfSeq DEF None
<1> HIDE DEF V, W, text
<1>6. ASSUME NEW f, NEW i \in D, i <= N, SymbolAt(json, i) # None
      PROVE  \E c \in Heard, k \in 0 .. 2 :
               /\ SymbolAt(json, i) = Some([char |-> c, width |-> k])
               /\ i + 1 + k \in D
               /\ json[i] # Quote =>
                    ReadTurn(json, f, i) = IF f[i + 1 + k] = None THEN None ELSE Some(<<c>> \o f[i + 1 + k][1])
  <2>1. i \in 1 .. Len(json)
    BY <1>1, <1>6
  <2>2. PICK c \in Heard, k \in 0 .. 2 : SymbolAt(json, i) = Some([char |-> c, width |-> k])
    BY <1>6, <2>1, SymbolAtType
  <2> DEFINE r == SymbolAt(json, i)[1]
  <2>3. r = [char |-> c, width |-> k]
    BY <2>2 DEF Some
  <2>4. r.char = c /\ r.width = k
    BY <2>3
  <2>5. json[i] # Quote =>
          ReadTurn(json, f, i) = IF f[i + 1 + r.width] = None THEN None ELSE Some(<<r.char>> \o f[i + 1 + r.width][1])
    BY <1>1, <1>6 DEF ReadTurn
  <2> HIDE DEF r, D, N
  <2>6. json[i] # Quote =>
          ReadTurn(json, f, i) = IF f[i + 1 + k] = None THEN None ELSE Some(<<c>> \o f[i + 1 + k][1])
    BY <2>4, <2>5
  <2>7. i + 1 + k \in D
    BY DEF D
  <2> QED
    BY <2>2, <2>6, <2>7
<1>7. ASSUME NEW f, NEW i \in D
      PROVE  /\ i > N => ReadTurn(json, f, i) = None
             /\ ~ i > N /\ json[i] = Quote => ReadTurn(json, f, i) = Some(<<>>)
             /\ ~ i > N /\ json[i] # Quote /\ SymbolAt(json, i) = None => ReadTurn(json, f, i) = None
  BY DEF ReadTurn
<1>8. ASSUME NEW f \in [D -> V], NEW i \in D
      PROVE  ReadTurn(json, f, i) \in V
  <2>1. CASE i > N \/ json[i] = Quote \/ SymbolAt(json, i) = None
    <3>1. ReadTurn(json, f, i) = None \/ ReadTurn(json, f, i) = Some(<<>>)
      BY <1>7, <2>1
    <3> QED
      BY <1>3, <1>4, <3>1
  <2>2. CASE ~ i > N /\ json[i] # Quote /\ SymbolAt(json, i) # None
    <3>1. i <= N
      BY <1>1, <2>2
    <3>2. PICK c \in Heard, k \in 0 .. 2 :
            /\ i + 1 + k \in D
            /\ ReadTurn(json, f, i) = IF f[i + 1 + k] = None THEN None ELSE Some(<<c>> \o f[i + 1 + k][1])
      BY <1>6, <2>2, <3>1
    <3> DEFINE v == f[i + 1 + k]
    <3>3. v \in V
      BY <3>2
    <3>4. ReadTurn(json, f, i) = IF v = None THEN None ELSE Some(<<c>> \o v[1])
      BY <3>2
    <3> HIDE DEF v
    <3>5. v # None => v[1] \in W
      BY <1>5, <3>3
    <3>6. v # None => <<c>> \o v[1] \in W
      BY <1>3, <3>5
    <3> QED
      BY <1>4, <3>4, <3>6
  <2> QED
    BY <2>1, <2>2
<1>9. measure \in [D -> 0 .. N + 1]
  <2>1. ASSUME NEW i \in D PROVE (IF i > N THEN 0 ELSE N + 1 - i) \in 0 .. N + 1
    BY <1>1
  <2> QED
    BY <2>1
<1>10. B \in [[D -> V] -> [D -> V]]
  <2>1. \A f \in [D -> V] : [i \in D |-> ReadTurn(json, f, i)] \in [D -> V]
    BY <1>8
  <2> QED
    BY <2>1
<1>11. Local(B, D, V, measure)
  <2>1. SUFFICES ASSUME NEW f \in [D -> V], NEW g \in [D -> V], NEW i \in D,
                        \A j \in D : measure[j] < measure[i] => f[j] = g[j]
                 PROVE  B[f][i] = B[g][i]
    BY DEF Local
  <2>2. B[f][i] = ReadTurn(json, f, i) /\ B[g][i] = ReadTurn(json, g, i)
    OBVIOUS
  <2>3. CASE i > N \/ json[i] = Quote \/ SymbolAt(json, i) = None
    <3>1. ReadTurn(json, f, i) = ReadTurn(json, g, i)
      <4>1. CASE i > N
        BY <1>7, <4>1
      <4>2. CASE ~ i > N /\ json[i] = Quote
        BY <1>7, <4>2
      <4>3. CASE ~ i > N /\ json[i] # Quote /\ SymbolAt(json, i) = None
        BY <1>7, <4>3
      <4> QED
        BY <2>3, <4>1, <4>2, <4>3
    <3> QED
      BY <2>2, <3>1
  <2>4. CASE ~ i > N /\ json[i] # Quote /\ SymbolAt(json, i) # None
    <3>1. i <= N
      BY <1>1, <2>4
    <3>2. PICK c \in Heard, k \in 0 .. 2 :
            /\ SymbolAt(json, i) = Some([char |-> c, width |-> k])
            /\ i + 1 + k \in D
            /\ ReadTurn(json, f, i) = IF f[i + 1 + k] = None THEN None ELSE Some(<<c>> \o f[i + 1 + k][1])
      BY <1>6, <2>4, <3>1
    <3>3. PICK d \in Heard, l \in 0 .. 2 :
            /\ SymbolAt(json, i) = Some([char |-> d, width |-> l])
            /\ ReadTurn(json, g, i) = IF g[i + 1 + l] = None THEN None ELSE Some(<<d>> \o g[i + 1 + l][1])
      BY <1>6, <2>4, <3>1
    <3>4. c = d /\ k = l
      <4> DEFINE r == [char |-> c, width |-> k]
                 s == [char |-> d, width |-> l]
      <4>1. Some(r) = Some(s)
        BY <3>2, <3>3
      <4>2. r = s
        <5> HIDE DEF r, s
        <5> QED
          BY <4>1 DEF Some
      <4>3. r.char = c /\ r.width = k /\ s.char = d /\ s.width = l
        OBVIOUS
      <4> QED
        BY <4>2, <4>3
    <3> DEFINE j == i + 1 + k
    <3>5. j \in D /\ j > i
      BY <3>2
    <3>6. measure[j] < measure[i]
      <4>1. measure[j] = (IF j > N THEN 0 ELSE N + 1 - j) /\ measure[i] = N + 1 - i
        BY <2>4, <3>5
      <4> HIDE DEF j, measure
      <4> QED
        BY <1>1, <3>1, <3>5, <4>1
    <3>7. f[j] = g[j]
      BY <2>1, <3>5, <3>6
    <3>8. ReadTurn(json, f, i) = ReadTurn(json, g, i)
      BY <3>2, <3>3, <3>4, <3>7
    <3> QED
      BY <2>2, <3>8
  <2> QED
    BY <2>3, <2>4
<1>12. \E h : Rec(h)
  <2>1. ComesCloser(B, D, V, measure, N + 1)
    <3> HIDE DEF B, measure, D
    <3> QED
      BY <1>1, <1>9, <1>10, <1>11 DEF ComesCloser
  <2>2. \E h : Fixed(B, D, V, h)
    <3> HIDE DEF B, measure, N, D
    <3> QED
      BY <1>4, <2>1, Recursion
  <2>3. PICK h : Fixed(B, D, V, h)
    BY <2>2
  <2>4. h = [i \in D |-> ReadTurn(json, h, i)]
    BY <2>3 DEF Fixed
  <2> QED
    BY <2>4
<1> HIDE DEF Rec
<1>13. Rec(text)
  BY <1>12 DEF text
<1>14. \A i \in D : text[i] = ReadTurn(json, text, i)
  BY <1>13 DEF Rec
<1>15. ASSUME NEW i \in 1 .. Len(json), json[i] = Quote
       PROVE  text[i] = Some(<<>>)
  <2>1. i \in D /\ ~ i > N
    BY <1>1
  <2> QED
    BY <1>7, <1>14, <1>15, <2>1
<1>16. ASSUME NEW i \in 1 .. Len(json), NEW c \in Heard, NEW k \in 0 .. 2, NEW rest \in Seq(Heard),
              json[i] # Quote, SymbolAt(json, i) = Some([char |-> c, width |-> k]), text[i + 1 + k] = Some(rest)
       PROVE  text[i] = Some(<<c>> \o rest)
  <2>1. i \in D /\ i <= N
    BY <1>1
  <2>2. SymbolAt(json, i) # None
    BY <1>16 DEF Some, None
  <2>3. PICK d \in Heard, l \in 0 .. 2 :
          /\ SymbolAt(json, i) = Some([char |-> d, width |-> l])
          /\ ReadTurn(json, text, i) = IF text[i + 1 + l] = None THEN None ELSE Some(<<d>> \o text[i + 1 + l][1])
    BY <1>6, <1>16, <2>1, <2>2
  <2>4. c = d /\ k = l
    <3> DEFINE r == [char |-> c, width |-> k]
               s == [char |-> d, width |-> l]
    <3>1. Some(r) = Some(s)
      BY <1>16, <2>3
    <3>2. r = s
      <4> HIDE DEF r, s
      <4> QED
        BY <3>1 DEF Some
    <3>3. r.char = c /\ r.width = k /\ s.char = d /\ s.width = l
      OBVIOUS
    <3> QED
      BY <3>2, <3>3
  <2>5. Some(rest) # None /\ Some(rest)[1] = rest
    BY DEF Some, None
  <2>6. ReadTurn(json, text, i) = Some(<<c>> \o rest)
    BY <1>16, <2>3, <2>4, <2>5
  <2> QED
    BY <1>14, <2>1, <2>6
<1> QED
  BY <1>2, <1>15, <1>16 DEF Reads

-------------------------------------------------------------------------------

\* Wherever w is in a line, the loop that reads it reads these symbols and then what
\* follows (parse_json_string_alloc).
Gives(w, symbols) ==
  \A json \in Seq(Symbol) : \A text : \A n \in Nat : \A rest \in Seq(Heard) :
    Reads(json, text) /\ Occurs(w, json, n) /\ text[n + Len(w) + 1] = Some(rest) =>
      text[n + 1] = Some(symbols \o rest)

\* An empty part gives the loop of parse_json_string_alloc nothing.
LEMMA NothingGives ==
  Gives(<<>>, <<>>)
<1> DEFINE w == <<>>
<1>1. Len(w) = 0 /\ \A rest \in Seq(Heard) : w \o rest = rest
  BY ConcatEmptySeq
<1> HIDE DEF w
<1>2. ASSUME NEW json \in Seq(Symbol), NEW text, NEW n \in Nat, NEW rest \in Seq(Heard),
             text[n + Len(w) + 1] = Some(rest)
      PROVE  text[n + 1] = Some(w \o rest)
  <2>1. n + Len(w) + 1 = n + 1
    BY <1>1
  <2> QED
    BY <1>1, <1>2, <2>1
<1>3. Gives(w, w)
  BY <1>2 DEF Gives
<1> QED
  BY <1>3 DEF w

\* The loop of parse_json_string_alloc reads two parts as one.
LEMMA GivesOn ==
  ASSUME NEW a \in Seq(Symbol), NEW b \in Seq(Symbol), NEW s \in Seq(Heard), NEW t \in Seq(Heard),
         Gives(a, s), Gives(b, t)
  PROVE  Gives(a \o b, s \o t)
<1>1. SUFFICES ASSUME NEW json \in Seq(Symbol), NEW text, NEW n \in Nat, NEW rest \in Seq(Heard),
                      Reads(json, text), Occurs(a \o b, json, n), text[n + Len(a \o b) + 1] = Some(rest)
               PROVE  text[n + 1] = Some((s \o t) \o rest)
  BY DEF Gives
<1>2. Occurs(a, json, n) /\ Occurs(b, json, n + Len(a))
  BY <1>1, OccursInTwo
<1>3. Len(a) \in Nat /\ Len(b) \in Nat /\ Len(a \o b) = Len(a) + Len(b)
  BY TwoWords
<1> DEFINE k == n + Len(a)
           more == t \o rest
<1>4. k \in Nat /\ n + Len(a \o b) + 1 = k + Len(b) + 1 /\ n + Len(a) + 1 = k + 1
  BY <1>3
<1>5. more \in Seq(Heard)
  BY ConcatProperties
<1>6. text[k + 1] = Some(more)
  <2>1. Occurs(b, json, k) /\ text[k + Len(b) + 1] = Some(rest)
    BY <1>1, <1>2, <1>4
  <2> HIDE DEF k
  <2> QED
    BY <1>1, <1>4, <2>1 DEF Gives
<1> HIDE DEF more
<1>7. text[n + Len(a) + 1] = Some(more)
  BY <1>4, <1>6
<1>8. text[n + 1] = Some(s \o more)
  <2>1. Reads(json, text) /\ Occurs(a, json, n)
    BY <1>1, <1>2
  <2> HIDE DEF k
  <2>2. Gives(a, s)
    OBVIOUS
  <2> QED
    BY <1>5, <1>7, <2>1, <2>2 DEF Gives
<1>9. s \o more = (s \o t) \o rest
  <2>1. (s \o t) \o rest = s \o (t \o rest)
    BY Regrouped
  <2> QED
    BY <2>1 DEF more
<1> QED
  BY <1>8, <1>9

\* What is written for a symbol is read as that symbol, whatever it is.
LEMMA EscapedGives ==
  ASSUME NEW c \in Letter
  PROVE  Gives(Escaped(c), <<c>>)
<1> DEFINE w == Escaped(c)
<1>1. c \in Heard
  BY DEF Letter, Heard, Symbol, Own
<1>2. w \in Seq(Symbol)
  BY EscapedIsPlain, PlainIsSymbol
<1>3. SUFFICES ASSUME NEW json \in Seq(Symbol), NEW n \in Nat, Occurs(w, json, n)
               PROVE  \E k \in 0 .. 2 : /\ n + 1 \in 1 .. Len(json)
                                        /\ json[n + 1] # Quote
                                        /\ SymbolAt(json, n + 1) = Some([char |-> c, width |-> k])
                                        /\ n + Len(w) + 1 = n + 1 + 1 + k
  <2>1. ASSUME NEW json \in Seq(Symbol), NEW text, NEW n \in Nat, NEW rest \in Seq(Heard),
               Reads(json, text), Occurs(w, json, n), text[n + Len(w) + 1] = Some(rest)
        PROVE  text[n + 1] = Some(<<c>> \o rest)
    <3>1. PICK k \in 0 .. 2 : /\ n + 1 \in 1 .. Len(json)
                              /\ json[n + 1] # Quote
                              /\ SymbolAt(json, n + 1) = Some([char |-> c, width |-> k])
                              /\ n + Len(w) + 1 = n + 1 + 1 + k
      BY <1>3, <2>1
    <3>2. text[n + 1 + 1 + k] = Some(rest)
      BY <2>1, <3>1
    <3> DEFINE i == n + 1
    <3> HIDE DEF i, w
    <3>3. text[i] = Some(<<c>> \o rest)
      <4>1. /\ i \in 1 .. Len(json) /\ json[i] # Quote
            /\ SymbolAt(json, i) = Some([char |-> c, width |-> k]) /\ text[i + 1 + k] = Some(rest)
        BY <3>1, <3>2 DEF i
      <4> QED
        BY <1>1, <2>1, <4>1 DEF Reads
    <3> QED
      BY <3>3 DEF i
  <2> HIDE DEF w
  <2>2. Gives(w, <<c>>)
    BY <2>1 DEF Gives
  <2> QED
    BY <2>2 DEF w
<1> DEFINE i == n + 1
           N == Len(json)
           j == i + 1
<1>4. n + Len(w) <= N /\ \A l \in 1 .. Len(w) : json[n + l] = w[l]
  BY <1>3 DEF Occurs
<1>5. N \in Nat
  OBVIOUS
<1>6. Backslash # Quote
  BY NoKey
<1>7. ASSUME w = <<c>>, c \notin {Quote, Backslash}
      PROVE  /\ i \in 1 .. N /\ json[i] # Quote
             /\ SymbolAt(json, i) = Some([char |-> c, width |-> 0])
             /\ n + Len(w) + 1 = i + 1 + 0
  <2> DEFINE z == <<c>>
  <2>1. Len(z) = 1 /\ z[1] = c
    OBVIOUS
  <2> HIDE DEF z, w, N
  <2>2. Len(w) = 1 /\ w[1] = c
    BY <1>7, <2>1 DEF z
  <2>3. n + 1 <= N /\ json[n + 1] = c /\ n + Len(w) + 1 = i + 1 + 0 /\ i \in 1 .. N
    BY <1>4, <1>5, <2>2
  <2>4. json[i] = c
    BY <2>3
  <2> HIDE DEF i
  <2>5. SymbolAt(json, i) = Some([char |-> c, width |-> 0])
    BY <1>7, <2>4 DEF SymbolAt
  <2> QED
    BY <1>7, <2>3, <2>4, <2>5
<1>8. ASSUME NEW x, w = <<Backslash, x>>
      PROVE  /\ i \in 1 .. N /\ j \in 1 .. N /\ json[i] # Quote /\ json[j] = x
             /\ SymbolAt(json, i) = Unescaped(json, j)
             /\ n + Len(w) + 1 = i + 1 + 1
  <2> DEFINE z == <<Backslash, x>>
  <2>1. Len(z) = 2 /\ z[1] = Backslash /\ z[2] = x
    OBVIOUS
  <2> HIDE DEF z, w, N
  <2>2. Len(w) = 2 /\ w[1] = Backslash /\ w[2] = x
    BY <1>8, <2>1 DEF z
  <2>3. n + 2 <= N /\ json[n + 1] = Backslash /\ json[n + 2] = x /\ n + Len(w) + 1 = i + 1 + 1
    BY <1>4, <1>5, <2>2
  <2>4. i \in 1 .. N /\ j \in 1 .. N /\ i # N /\ json[i] = Backslash /\ json[j] = x
    <3>1. n + 2 = j
      OBVIOUS
    <3>2. i \in 1 .. N /\ j \in 1 .. N /\ i # N
      BY <1>5, <2>3
    <3> QED
      BY <2>3, <3>1, <3>2
  <2> HIDE DEF i, N
  <2>5. SymbolAt(json, i) = Unescaped(json, j)
    BY <2>4 DEF SymbolAt, N
  <2> QED
    BY <1>6, <2>3, <2>4, <2>5
<1>9. ASSUME NEW x, w = <<Backslash, "u", x>>
      PROVE  /\ i \in 1 .. N /\ json[i] # Quote /\ json[j] = "u" /\ j < N /\ json[j + 1] = x
             /\ SymbolAt(json, i) = Unescaped(json, j)
             /\ n + Len(w) + 1 = i + 1 + 2
  <2> DEFINE z == <<Backslash, "u", x>>
  <2>1. Len(z) = 3 /\ z[1] = Backslash /\ z[2] = "u" /\ z[3] = x
    OBVIOUS
  <2> HIDE DEF z, w, N
  <2>2. Len(w) = 3 /\ w[1] = Backslash /\ w[2] = "u" /\ w[3] = x
    BY <1>9, <2>1 DEF z
  <2>3. n + 3 <= N /\ json[n + 1] = Backslash /\ json[n + 2] = "u" /\ json[n + 3] = x /\ n + Len(w) + 1 = i + 1 + 2
    BY <1>4, <1>5, <2>2
  <2>4. i \in 1 .. N /\ j < N /\ i # N /\ json[i] = Backslash /\ json[j] = "u" /\ json[j + 1] = x
    <3>1. n + 2 = j /\ n + 3 = j + 1
      OBVIOUS
    <3>2. i \in 1 .. N /\ j < N /\ i # N
      BY <1>5, <2>3
    <3> QED
      BY <2>3, <3>1, <3>2
  <2> HIDE DEF i, N
  <2>5. SymbolAt(json, i) = Unescaped(json, j)
    BY <2>4 DEF SymbolAt, N
  <2> QED
    BY <1>6, <2>3, <2>4, <2>5
<1>10. 0 \in 0 .. 2 /\ 1 \in 0 .. 2 /\ 2 \in 0 .. 2
  OBVIOUS
<1> HIDE DEF i, j, N
<1>11. CASE c \in {Quote, Backslash}
  <2>1. w = <<Backslash, c>>
    BY <1>11 DEF Escaped, Quote, Backslash, Newline, Controls
  <2> HIDE DEF w
  <2>2. json[j] = c /\ SymbolAt(json, i) = Unescaped(json, j) /\ i \in 1 .. N /\ json[i] # Quote /\ n + Len(w) + 1 = i + 1 + 1
    BY <1>8, <2>1
  <2>3. Unescaped(json, j) = Some([char |-> c, width |-> 1])
    BY <1>11, <2>2 DEF Unescaped, Quote, Backslash
  <2> QED
    BY <1>10, <2>2, <2>3 DEF i, N
<1>12. CASE c = Newline
  <2>1. w = <<Backslash, "n">>
    BY <1>12 DEF Escaped, Quote, Backslash, Newline, Controls
  <2> HIDE DEF w
  <2>2. json[j] = "n" /\ SymbolAt(json, i) = Unescaped(json, j) /\ i \in 1 .. N /\ json[i] # Quote /\ n + Len(w) + 1 = i + 1 + 1
    BY <1>8, <2>1
  <2>3. Unescaped(json, j) = Some([char |-> c, width |-> 1])
    BY <1>12, <2>2 DEF Unescaped, Quote, Backslash
  <2> QED
    BY <1>10, <2>2, <2>3 DEF i, N
<1>13. CASE c = "\t"
  <2>1. w = <<Backslash, "t">>
    BY <1>13 DEF Escaped, Quote, Backslash, Newline, Controls
  <2> HIDE DEF w
  <2>2. json[j] = "t" /\ SymbolAt(json, i) = Unescaped(json, j) /\ i \in 1 .. N /\ json[i] # Quote /\ n + Len(w) + 1 = i + 1 + 1
    BY <1>8, <2>1
  <2>3. Unescaped(json, j) = Some([char |-> c, width |-> 1])
    BY <1>13, <2>2 DEF Unescaped, Quote, Backslash
  <2> QED
    BY <1>10, <2>2, <2>3 DEF i, N
<1>14. CASE c = "\r"
  <2>1. w = <<Backslash, "r">>
    BY <1>14 DEF Escaped, Quote, Backslash, Newline, Controls
  <2> HIDE DEF w
  <2>2. json[j] = "r" /\ SymbolAt(json, i) = Unescaped(json, j) /\ i \in 1 .. N /\ json[i] # Quote /\ n + Len(w) + 1 = i + 1 + 1
    BY <1>8, <2>1
  <2>3. Unescaped(json, j) = Some([char |-> c, width |-> 1])
    BY <1>14, <2>2 DEF Unescaped, Quote, Backslash
  <2> QED
    BY <1>10, <2>2, <2>3 DEF i, N
<1>15. CASE c \in DOMAIN Controls
  <2> DEFINE x == Controls[c]
             d == CHOOSE e \in DOMAIN Controls : Controls[e] = json[j + 1]
  <2>1. w = <<Backslash, "u", x>>
    BY <1>15 DEF Escaped, Quote, Backslash, Newline, Controls
  <2>2. \A e \in DOMAIN Controls : Controls[e] = Controls[c] => e = c
    BY <1>15 DEF Controls
  <2> HIDE DEF w, x
  <2>3. /\ json[j] = "u" /\ j < N /\ json[j + 1] = x
        /\ SymbolAt(json, i) = Unescaped(json, j) /\ i \in 1 .. N /\ json[i] # Quote /\ n + Len(w) + 1 = i + 1 + 2
    BY <1>9, <2>1
  <2>4. \E e \in DOMAIN Controls : Controls[e] = json[j + 1]
    BY <1>15, <2>3 DEF x
  <2>5. d = c
    <3>1. d \in DOMAIN Controls /\ Controls[d] = json[j + 1]
      BY <2>4
    <3> QED
      BY <2>2, <2>3, <3>1 DEF x
  <2>6. Unescaped(json, j) = Some([char |-> d, width |-> 2])
    BY <2>3, <2>4 DEF Unescaped, Quote, Backslash, N
  <2> QED
    BY <1>10, <2>3, <2>5, <2>6 DEF i, N
<1>16. CASE c \notin {Quote, Backslash, Newline, "\t", "\r"} \cup DOMAIN Controls
  <2>1. w = <<c>>
    BY <1>16 DEF Escaped
  <2> HIDE DEF w
  <2>2. /\ i \in 1 .. N /\ json[i] # Quote
        /\ SymbolAt(json, i) = Some([char |-> c, width |-> 0])
        /\ n + Len(w) + 1 = i + 1 + 0
    BY <1>7, <1>16, <2>1
  <2> QED
    BY <1>10, <2>2 DEF i, N
<1> QED
  BY <1>11, <1>12, <1>13, <1>14, <1>15, <1>16

\* Inside its quotes a text reads as itself, whatever it holds.
LEMMA TextGives ==
  ASSUME NEW text \in Seq(Letter)
  PROVE  \E z \in Seq(Symbol) : StringValue(text) = Quoted(z) /\ Gives(z, text)
<1>1. PICK f : Escapes(f, text)
  BY SymbolBySymbol
<1> DEFINE n == Len(text)
           Upto(i) == SubSeq(text, 1, i)
<1>2. n \in Nat /\ f \in [0 .. n -> Seq(Symbol)] /\ f[0] = <<>> /\ StringValue(text) = Quoted(f[n])
  BY <1>1 DEF Escapes
<1>3. Letter \subseteq Heard
  BY DEF Letter, Heard, Symbol, Own
<1>4. ASSUME NEW i \in 0 .. n
      PROVE  Upto(i) \in Seq(Heard)
  <2>1. \A l \in 1 .. i : text[l] \in Heard
    <3> TAKE l \in 1 .. i
    <3>1. l \in 1 .. n
      BY <1>2
    <3>2. text[l] \in Letter
      BY <3>1, ElementOfSeq
    <3> QED
      BY <1>3, <3>2
  <2> HIDE DEF n
  <2>2. i \in Int /\ 1 \in Int
    BY <1>2
  <2> QED
    BY <2>1, <2>2, SubSeqProperties
<1>5. Upto(0) = <<>>
  OBVIOUS
<1>6. Upto(n) = text
  BY SubSeqFull
<1>7. ASSUME NEW i \in Nat, i + 1 <= n
      PROVE  Upto(i + 1) = Upto(i) \o <<text[i + 1]>>
  <2> DEFINE a == SubSeq(text, 1, i)
             b == SubSeq(text, 1, i + 1)
             c == text[i + 1]
             d == a \o <<c>>
             j == i + 1
  <2>1. a \in Seq(Letter) /\ Len(a) = i /\ \A l \in 1 .. i : a[l] = text[l]
    BY <1>2, <1>7
  <2>2. b \in Seq(Letter) /\ Len(b) = j /\ \A l \in 1 .. j : b[l] = text[l]
    BY <1>2, <1>7
  <2>3. c \in Letter
    BY <1>2, <1>7, ElementOfSeq
  <2> HIDE DEF a, b, c
  <2>4. d \in Seq(Letter) /\ Len(d) = j /\ d[j] = c /\ \A l \in 1 .. i : d[l] = a[l]
    BY <2>1, <2>3
  <2> HIDE DEF d
  <2>5. b = [l \in 1 .. j |-> b[l]]
    BY <2>2
  <2>6. d = [l \in 1 .. j |-> d[l]]
    BY <2>4
  <2>7. ASSUME NEW l \in 1 .. j PROVE b[l] = d[l]
    <3>1. CASE l \in 1 .. i
      BY <2>1, <2>2, <2>4, <3>1
    <3>2. CASE l = j
      BY <2>2, <2>4, <3>2 DEF c
    <3> QED
      BY <3>1, <3>2
  <2>8. b = d
    BY <2>5, <2>6, <2>7
  <2> QED
    BY <2>8 DEF a, b, c, d
<1> DEFINE I == {i \in Nat : i <= n => Gives(f[i], Upto(i))}
<1>8. 0 \in I
  BY <1>2, <1>5, NothingGives
<1>9. ASSUME NEW i \in Nat, i \in I
      PROVE  i + 1 \in I
  <2>1. SUFFICES ASSUME i + 1 <= n PROVE Gives(f[i + 1], Upto(i + 1))
    OBVIOUS
  <2> DEFINE j == i + 1
             c == text[j]
             u == Upto(i)
  <2>2. j \in 1 .. n /\ j - 1 = i /\ i \in 0 .. n /\ Gives(f[i], u)
    BY <1>2, <1>9, <2>1
  <2>3. c \in Letter /\ <<c>> \in Seq(Heard)
    <3>1. c \in Letter
      BY <2>2, ElementOfSeq
    <3> HIDE DEF c
    <3>2. c \in Heard
      BY <1>3, <3>1
    <3> QED
      BY <3>1, <3>2, ShortSequences
  <2>4. u \in Seq(Heard)
    BY <1>4, <2>2
  <2>5. Upto(j) = u \o <<c>>
    BY <1>7, <2>1
  <2> HIDE DEF j, Upto, u
  <2>6. f[j] = f[j - 1] \o Escaped(c)
    BY <1>1, <2>2 DEF Escapes
  <2> HIDE DEF c, n
  <2>7. Escaped(c) \in Seq(Symbol) /\ Gives(Escaped(c), <<c>>)
    BY <2>3, EscapedIsPlain, PlainIsSymbol, EscapedGives
  <2>8. f[i] \in Seq(Symbol)
    BY <1>2, <2>2
  <2>9. Gives(f[i] \o Escaped(c), u \o <<c>>)
    BY <2>2, <2>3, <2>4, <2>7, <2>8, GivesOn
  <2>10. Gives(f[j], Upto(j))
    BY <2>2, <2>5, <2>6, <2>9
  <2> QED
    BY <2>10 DEF j
<1> HIDE DEF I, n, Upto
<1>10. n \in I
  BY <1>2, <1>8, <1>9, NatInductionOnSets
<1>11. Gives(f[n], text) /\ f[n] \in Seq(Symbol)
  BY <1>2, <1>6, <1>10 DEF I
<1> QED
  BY <1>2, <1>11

\* Where a text is written between its quotes, it is read.
LEMMA TextIsRead ==
  ASSUME NEW text \in Seq(Letter), NEW json \in Seq(Symbol), NEW n \in Nat,
         Occurs(StringValue(text), json, n)
  PROVE  json[n + 1] = Quote /\ ParseFrom(json, n + 2) = Some(text)
<1>1. PICK z \in Seq(Symbol) : StringValue(text) = Quoted(z) /\ Gives(z, text)
  BY TextGives
<1> DEFINE w == Quoted(z)
           l == Len(z)
           N == Len(json)
           m == n + 1
           k == m + l + 1
           none == <<>>
<1>2. /\ w \in Seq(Symbol) /\ l \in Nat /\ Len(w) = l + 2
      /\ w[1] = Quote /\ w[l + 2] = Quote
      /\ \A i \in 1 .. l : w[i + 1] = z[i]
  BY QuotedLayout
<1>3. n + Len(w) <= N /\ \A i \in 1 .. Len(w) : json[n + i] = w[i]
  BY <1>1 DEF Occurs
<1>4. N \in Nat
  OBVIOUS
<1> HIDE DEF w, l, N
<1>5. json[n + 1] = Quote
  BY <1>2, <1>3
<1>6. json[n + (l + 2)] = Quote /\ k = n + (l + 2) /\ k \in 1 .. N
  BY <1>2, <1>3, <1>4
<1>7. Occurs(z, json, m)
  <2>1. ASSUME NEW i \in 1 .. l PROVE json[m + i] = z[i]
    <3> DEFINE j == i + 1
    <3>1. j \in 1 .. Len(w) /\ m + i = n + j
      BY <1>2
    <3>2. w[j] = z[i]
      BY <1>2
    <3> HIDE DEF j, m
    <3> QED
      BY <1>3, <3>1, <3>2
  <2>2. m \in Nat /\ m + l <= N
    BY <1>2, <1>3, <1>4
  <2> QED
    BY <2>1, <2>2 DEF Occurs, l, N
<1>8. PICK reads : Reads(json, reads) /\ \A start \in Nat \ {0} : ParseFrom(json, start) = reads[start]
  BY TheReadEnds
<1>9. reads[k] = Some(none)
  <2>1. json[k] = Quote
    BY <1>6
  <2> HIDE DEF k
  <2> QED
    BY <1>6, <1>8, <2>1 DEF Reads, N
<1>10. none \in Seq(Heard) /\ \A s \in Seq(Heard) : s \o none = s
  BY EmptySeq, ConcatEmptySeq
<1>11. text \in Seq(Heard)
  <2>1. Letter \subseteq Heard
    BY DEF Letter, Heard, Symbol, Own
  <2> QED
    BY <2>1
<1> HIDE DEF none
<1>12. reads[m + 1] = Some(text \o none)
  <2>1. m \in Nat /\ reads[m + Len(z) + 1] = Some(none)
    BY <1>9 DEF l
  <2> HIDE DEF m, k
  <2> QED
    BY <1>1, <1>7, <1>8, <1>10, <2>1 DEF Gives
<1>13. ParseFrom(json, m + 1) = Some(text)
  <2>1. m + 1 \in Nat \ {0}
    OBVIOUS
  <2>2. text \o none = text
    BY <1>10, <1>11
  <2> HIDE DEF m
  <2> QED
    BY <1>8, <1>12, <2>1, <2>2
<1>14. m + 1 = n + 2
  OBVIOUS
<1> QED
  BY <1>5, <1>13, <1>14

-------------------------------------------------------------------------------

\* Where the value of a field begins: behind the first place with its name, if there
\* is one (find_key).
LEMMA KeyIsFound ==
  ASSUME NEW json \in Seq(Symbol), NEW key \in Keys, NEW value, Finds(json, key, value)
  PROVE  /\ value = None => FindKey(json, key) = None
         /\ value # None => \E n \in Nat, v \in Seq(Symbol) :
              /\ value = Some(v) /\ v # <<>> /\ Occurs(v, json, n)
              /\ FindKey(json, key) = Some(n + 1)
<1> DEFINE N == Len(json)
           found == {p \in 1 .. N - 4 :
                      json[p] = Quote /\ json[p + 1] = key /\ json[p + 2] = Quote /\ json[p + 3] = ":"}
<1>1. N \in Nat
  OBVIOUS
<1>2. FindKey(json, key) = IF found = {} THEN None ELSE Some(Min(found) + 4)
  BY DEF FindKey
<1>3. ASSUME NEW p \in found PROVE p \in Nat /\ Hit(json, key, p)
  <2>1. p \in 1 .. N - 4 /\ p \in 1 .. N - 3 /\ p \in Nat
    BY <1>1
  <2> QED
    BY <2>1 DEF Hit
<1>4. ASSUME NEW p \in Nat, Hit(json, key, p), p <= N - 4 PROVE p \in found
  <2>1. p \in 1 .. N - 4
    BY <1>1, <1>4 DEF Hit
  <2> QED
    BY <1>4, <2>1 DEF Hit
<1> HIDE DEF found
<1>5. ASSUME value = None
      PROVE  FindKey(json, key) = None
  <2>1. \A p \in Nat : ~ Hit(json, key, p)
    BY <1>5 DEF Finds, None, Some
  <2>2. found = {}
    BY <1>3, <2>1
  <2> QED
    BY <1>2, <2>2
<1>6. ASSUME value # None
      PROVE  \E n \in Nat, v \in Seq(Symbol) :
               /\ value = Some(v) /\ v # <<>> /\ Occurs(v, json, n)
               /\ FindKey(json, key) = Some(n + 1)
  <2>1. PICK p \in Nat : /\ Hit(json, key, p) /\ \A q \in Nat : Hit(json, key, q) => p <= q
                         /\ \E v \in Seq(Symbol) : v # <<>> /\ value = Some(v) /\ Occurs(v, json, p + 3)
    BY <1>6 DEF Finds
  <2>2. PICK v \in Seq(Symbol) : v # <<>> /\ value = Some(v) /\ Occurs(v, json, p + 3)
    BY <2>1
  <2>3. p + 3 + Len(v) <= N /\ Len(v) \in Nat /\ Len(v) # 0
    BY <2>2, EmptySeq DEF Occurs
  <2>4. p \in found
    <3>1. p <= N - 4
      BY <1>1, <2>3
    <3> QED
      BY <1>4, <2>1, <3>1
  <2>5. \A q \in found : p <= q
    BY <1>3, <2>1
  <2>6. Min(found) = p
    <3> DEFINE m == Min(found)
    <3>1. m \in found /\ \A q \in found : m <= q
      BY <2>4, <2>5 DEF Min
    <3> HIDE DEF m
    <3>2. m \in Nat /\ m <= p /\ p <= m
      BY <1>3, <2>4, <2>5, <3>1
    <3> QED
      BY <3>2 DEF m
  <2>7. FindKey(json, key) = Some(p + 4)
    BY <1>2, <2>4, <2>6
  <2> DEFINE n == p + 3
  <2>8. n \in Nat /\ n + 1 = p + 4 /\ Occurs(v, json, n)
    BY <2>2
  <2> HIDE DEF n
  <2> QED
    BY <2>2, <2>7, <2>8
<1> QED
  BY <1>5, <1>6

\* A text that is found is read (json_get_string).
LEMMA TextIsFound ==
  ASSUME NEW json \in Seq(Symbol), NEW key \in Keys, NEW text \in Seq(Letter),
         Finds(json, key, Some(StringValue(text)))
  PROVE  GetString(json, key) = Some(text)
<1> DEFINE value == StringValue(text)
           at == FindKey(json, key)
<1>1. Some(value) # None
  BY DEF Some, None
<1>2. PICK n \in Nat, v \in Seq(Symbol) : Some(value) = Some(v) /\ Occurs(v, json, n) /\ at = Some(n + 1)
  BY <1>1, KeyIsFound
<1>3. v = value
  <2> HIDE DEF value
  <2> QED
    BY <1>2 DEF Some
<1>4. json[n + 1] = Quote /\ ParseFrom(json, n + 2) = Some(text)
  BY <1>2, <1>3, TextIsRead
<1>5. at # None /\ at[1] = n + 1 /\ (n + 1) + 1 = n + 2
  BY <1>2 DEF Some, None
<1>6. GetString(json, key) = IF at = None \/ json[at[1]] # Quote THEN None ELSE ParseFrom(json, at[1] + 1)
  BY DEF GetString
<1> HIDE DEF at, value
<1> QED
  BY <1>4, <1>5, <1>6

\* A number that is found is read (json_get_int).
LEMMA NumberIsFound ==
  ASSUME NEW json \in Seq(Symbol), NEW key \in Keys, NEW n \in 0 .. 9, Finds(json, key, Some(Numeral(n)))
  PROVE  GetInt(json, key) = Some(n)
<1> DEFINE value == Numeral(n)
           at == FindKey(json, key)
           x == Numerals[n + 1]
<1>1. Some(value) # None
  BY DEF Some, None
<1>2. PICK k \in Nat, v \in Seq(Symbol) : Some(value) = Some(v) /\ Occurs(v, json, k) /\ at = Some(k + 1)
  BY <1>1, KeyIsFound
<1>3. v = value
  <2> HIDE DEF value
  <2> QED
    BY <1>2 DEF Some
<1>4. Len(v) = 1 /\ v[1] = x
  BY <1>3 DEF Numeral
<1> HIDE DEF value, x
<1>5. json[k + 1] = x
  BY <1>2, <1>4 DEF Occurs
<1>6. at # None /\ at[1] = k + 1
  BY <1>2 DEF Some, None
<1>7. Len(Numerals) = 10 /\ DOMAIN Numerals = 1 .. 10
  BY DEF Numerals
<1>8. \A i, j \in 1 .. 10 : Numerals[i] = Numerals[j] => i = j
  BY DEF Numerals
<1> DEFINE l == n + 1
<1>9. l \in 1 .. 10 /\ l - 1 = n /\ Numerals[l] = x
  BY DEF x
<1> HIDE DEF l, at
<1>10. GetInt(json, key) = IF at = None \/ ~ Contains(Numerals, json[at[1]]) THEN None
                           ELSE Some((CHOOSE d \in DOMAIN Numerals : Numerals[d] = json[at[1]]) - 1)
  BY DEF GetInt, at
<1>11. Contains(Numerals, x)
  BY <1>7, <1>9 DEF Contains
<1>12. (CHOOSE d \in DOMAIN Numerals : Numerals[d] = x) = l
  BY <1>7, <1>8, <1>9
<1> QED
  BY <1>5, <1>6, <1>9, <1>10, <1>11, <1>12

\* An object that is found is taken whole (json_get_object).
LEMMA ObjectIsFound ==
  ASSUME NEW json \in Seq(Symbol), NEW key \in Keys, NEW fields, NEW f, Fields(fields, f),
         Finds(json, key, Some(Object(fields)))
  PROVE  GetObject(json, key) = Some(Object(fields))
<1> DEFINE opening == "{"
           value == Object(fields)
           at == FindKey(json, key)
           end == EndOfObject(json, at[1])
<1>1. Some(value) # None
  BY DEF Some, None
<1>2. PICK n \in Nat, v \in Seq(Symbol) : Some(value) = Some(v) /\ Occurs(v, json, n) /\ at = Some(n + 1)
  BY <1>1, KeyIsFound
<1>3. v = value
  <2> HIDE DEF value
  <2> QED
    BY <1>2 DEF Some
<1>4. /\ EndOfObject(json, n + 1) = Some(n + Len(value))
      /\ json[n + 1] = opening
      /\ SubSeq(json, n + 1, n + Len(value)) = value
  BY <1>2, <1>3, ObjectEnds
<1>5. at # None /\ at[1] = n + 1
  BY <1>2 DEF Some, None
<1>6. GetObject(json, key) = IF at = None \/ json[at[1]] # opening \/ end = None THEN None
                             ELSE Some(SubSeq(json, at[1], end[1]))
  BY DEF GetObject
<1>7. end = Some(n + Len(value))
  BY <1>4, <1>5
<1> HIDE DEF opening, at, value, end
<1>8. end # None /\ end[1] = n + Len(value)
  BY <1>7 DEF Some, None
<1>9. GetObject(json, key) = Some(value)
  BY <1>4, <1>5, <1>6, <1>8
<1> QED
  BY <1>9 DEF value

\* What is not there is not found (json_get_string, json_get_int, json_get_object).
LEMMA NothingIsFound ==
  ASSUME NEW json \in Seq(Symbol), NEW key \in Keys, Finds(json, key, None)
  PROVE  GetString(json, key) = None /\ GetInt(json, key) = None /\ GetObject(json, key) = None
<1>1. FindKey(json, key) = None
  BY KeyIsFound
<1> QED
  BY <1>1 DEF GetString, GetInt, GetObject

-----------------------------------------------------------------------------
\* Messages and their operations.

\* What find_key finds of two parts, name by name.
LEMMA FirstAt ==
  ASSUME NEW f, NEW g, NEW key \in Keys
  PROVE  First(f, g)[key] = IF f[key] # None THEN f[key] ELSE g[key]
BY DEF First

\* What find_key finds of one field, name by name.
LEMMA OnlyAt ==
  ASSUME NEW name, NEW value, NEW key \in Keys
  PROVE  Only(name, value)[key] = (IF key = name THEN Some(value) ELSE None) /\ Nothing[key] = None
BY DEF Only, Nothing

\* The fields of an operation (append_operation_field), and what is found in them.
OperationFields(op) ==
  Field("kind", Quoted(<<op.kind>>)) \o Field("pos", Numeral(op.pos))
    \o (IF op.kind = "insert" THEN Field("char", StringValue(op.char)) ELSE <<>>)
    \o StringField("reason", op.reason)

OperationFound(op) ==
  First(First(First(Only("kind", StringValue(<<op.kind>>)), Only("pos", Numeral(op.pos))),
              IF op.kind = "insert" THEN Only("char", StringValue(op.char)) ELSE Nothing),
        TextFound("reason", op.reason))

\* A kind is written like a text of one symbol.
LEMMA KindIsText ==
  ASSUME NEW kind \in Kinds
  PROVE  <<kind>> \in Seq(Letter) /\ Quoted(<<kind>>) = StringValue(<<kind>>)
<1> DEFINE text == <<kind>>
           parts == [i \in DOMAIN text |-> Escaped(text[i])]
<1>1. text \in Seq(Letter)
  <2>1. kind \in Letter
    BY DEF Letter
  <2> QED
    BY <2>1, ShortSequences
<1>2. Escaped(kind) = <<kind>>
  BY DEF Escaped, Kinds, Quote, Backslash, Newline, Controls
<1>3. parts = <<<<kind>>>>
  BY <1>2
<1>4. kind \in Symbol
  BY DEF Symbol, Own
<1>5. FlattenSeq(<<<<kind>>>>) = <<kind>>
  <2> DEFINE e == <<kind>>
  <2>1. e \in Seq(Symbol)
    BY <1>4, ShortSequences
  <2> HIDE DEF e
  <2>2. FlattenSeq(<<e>>) = e
    BY <2>1, OnePart
  <2> QED
    BY <2>2 DEF e
<1>6. StringValue(text) = Quoted(FlattenSeq(parts))
  BY DEF StringValue
<1> QED
  BY <1>1, <1>3, <1>5, <1>6

\* A text of a message is one json_escape is given.
LEMMA TextIsLetters ==
  ASSUME NEW text \in Seq(STRING)
  PROVE  text \in Seq(Letter)
<1>1. Len(text) \in Nat /\ DOMAIN text = 1 .. Len(text) /\ text = [i \in 1 .. Len(text) |-> text[i]]
  OBVIOUS
<1>2. ASSUME NEW i \in 1 .. Len(text) PROVE text[i] \in Letter
  <2>1. text[i] \in STRING
    BY ElementOfSeq
  <2> QED
    BY <2>1 DEF Letter
<1>3. text \in [1 .. Len(text) -> Letter]
  BY <1>1, <1>2
<1> QED
  BY <1>1, <1>3, FunctionsAreSequences

\* The names ts_decode_message and parse_operation_object ask for.
LEMMA KeyNames ==
  /\ "kind" \in Keys /\ "pos" \in Keys /\ "char" \in Keys /\ "reason" \in Keys
  /\ "type" \in Keys /\ "client_id" \in Keys /\ "op_id" \in Keys /\ "message" \in Keys
  /\ "base_version" \in Keys /\ "server_version" \in Keys /\ "version" \in Keys
  /\ "history_start_version" \in Keys /\ "op" \in Keys /\ "original_op" \in Keys /\ "content" \in Keys
BY DEF Keys

\* The fields of an operation as the program builds them (parse_operation_object).
LEMMA OperationParts ==
  ASSUME NEW op, IsOperation(op)
  PROVE  /\ op.kind \in Kinds /\ op.pos \in 0 .. 9
         /\ op.char \in Seq(STRING) /\ op.reason \in Seq(STRING)
         /\ op.kind = "insert" => Len(op.char) = 1
         /\ op.kind # "insert" => op.char = <<>>
         /\ op = Op(op.kind, op.pos, op.char, op.reason)
<1>1. op \in TsOperation
  BY DEF IsOperation
<1>2. op.kind \in Kinds /\ op.pos \in 0 .. 9 /\ op.char \in Seq(STRING) /\ op.reason \in Seq(STRING)
  BY <1>1 DEF TsOperation
<1>3. op = Op(op.kind, op.pos, op.char, op.reason)
  BY <1>1 DEF TsOperation, Op
<1>4. Len(op.char) = IF op.kind = "insert" THEN 1 ELSE 0
  BY DEF IsOperation
<1>5. op.kind # "insert" => op.char = <<>>
  BY <1>2, <1>4, EmptySeq
<1> QED
  BY <1>2, <1>3, <1>4, <1>5

\* What append_operation_field writes, field by field.
LEMMA OperationHasFields ==
  ASSUME NEW op, IsOperation(op)
  PROVE  Fields(OperationFields(op), OperationFound(op))
<1> DEFINE a == Field("kind", Quoted(<<op.kind>>))
           b == Field("pos", Numeral(op.pos))
           c == IF op.kind = "insert" THEN Field("char", StringValue(op.char)) ELSE <<>>
           d == StringField("reason", op.reason)
           fa == Only("kind", StringValue(<<op.kind>>))
           fb == Only("pos", Numeral(op.pos))
           fc == IF op.kind = "insert" THEN Only("char", StringValue(op.char)) ELSE Nothing
           fd == TextFound("reason", op.reason)
<1>1. op.kind \in Kinds /\ op.pos \in 0 .. 9 /\ op.char \in Seq(Letter) /\ op.reason \in Seq(Letter)
  BY OperationParts, TextIsLetters
<1>2. Fields(a, fa)
  BY <1>1, KindIsText, KeyNames, TextIsSetField
<1>3. MaybeField(b, fb)
  BY <1>1, KeyNames, NumberIsSetField
<1>4. MaybeField(c, fc)
  BY <1>1, KeyNames, NoField, TextIsSetField
<1>5. MaybeField(d, fd)
  BY <1>1, KeyNames, TextField
<1>6. OperationFields(op) = ((a \o b) \o c) \o d /\ OperationFound(op) = First(First(First(fa, fb), fc), fd)
  BY DEF OperationFields, OperationFound
<1> HIDE DEF a, b, c, d, fa, fb, fc, fd
<1>7. Fields(a \o b, First(fa, fb))
  BY <1>2, <1>3, AddField
<1>8. Fields((a \o b) \o c, First(First(fa, fb), fc))
  BY <1>4, <1>7, AddField
<1>9. Fields(((a \o b) \o c) \o d, First(First(First(fa, fb), fc), fd))
  BY <1>5, <1>8, AddField
<1> QED
  BY <1>6, <1>9

\* What find_key finds in an operation, name by name (parse_operation_object).
LEMMA OperationFoundAt ==
  ASSUME NEW op, NEW key \in Keys
  PROVE  /\ key = "kind" => OperationFound(op)[key] = Some(StringValue(<<op.kind>>))
         /\ key = "pos" => OperationFound(op)[key] = Some(Numeral(op.pos))
         /\ key = "char" => OperationFound(op)[key] = IF op.kind = "insert" THEN Some(StringValue(op.char)) ELSE None
         /\ key = "reason" => OperationFound(op)[key] = IF op.reason = <<>> THEN None ELSE Some(StringValue(op.reason))
         /\ key \notin {"kind", "pos", "char", "reason"} => OperationFound(op)[key] = None
<1> DEFINE fa == Only("kind", StringValue(<<op.kind>>))
           fb == Only("pos", Numeral(op.pos))
           fc == IF op.kind = "insert" THEN Only("char", StringValue(op.char)) ELSE Nothing
           fd == TextFound("reason", op.reason)
           ab == First(fa, fb)
           abc == First(ab, fc)
<1>1. fa[key] = IF key = "kind" THEN Some(StringValue(<<op.kind>>)) ELSE None
  BY OnlyAt
<1>2. fb[key] = IF key = "pos" THEN Some(Numeral(op.pos)) ELSE None
  BY OnlyAt
<1>3. fc[key] = IF key = "char" /\ op.kind = "insert" THEN Some(StringValue(op.char)) ELSE None
  BY OnlyAt
<1>4. fd[key] = IF key = "reason" /\ op.reason # <<>> THEN Some(StringValue(op.reason)) ELSE None
  BY OnlyAt DEF TextFound
<1>5. OperationFound(op) = First(abc, fd)
  BY DEF OperationFound
<1>6. \A x : Some(x) # None
  BY DEF Some, None
<1> HIDE DEF fa, fb, fc, fd
<1>7. ab[key] = IF fa[key] # None THEN fa[key] ELSE fb[key]
  BY FirstAt
<1> HIDE DEF ab
<1>8. abc[key] = IF ab[key] # None THEN ab[key] ELSE fc[key]
  BY FirstAt
<1> HIDE DEF abc
<1>9. OperationFound(op)[key] = IF abc[key] # None THEN abc[key] ELSE fd[key]
  BY <1>5, FirstAt
<1> QED
  BY <1>1, <1>2, <1>3, <1>4, <1>6, <1>7, <1>8, <1>9

\* An operation is parsed as it was (parse_operation_object).
LEMMA OperationIsParsed ==
  ASSUME NEW op, IsOperation(op)
  PROVE  ParseOperation(Object(OperationFields(op))) = Some(op)
<1> DEFINE fields == OperationFields(op)
           f == OperationFound(op)
           json == Object(fields)
           kind == GetString(json, "kind")
           char == GetString(json, "char")
           reason == GetString(json, "reason")
           pos == GetInt(json, "pos")
<1>1. Fields(fields, f)
  BY OperationHasFields
<1>2. op.kind \in Kinds /\ op.pos \in 0 .. 9 /\ op.char \in Seq(Letter) /\ op.reason \in Seq(Letter)
  BY OperationParts, TextIsLetters
<1>3. /\ f["kind"] = Some(StringValue(<<op.kind>>))
      /\ f["pos"] = Some(Numeral(op.pos))
      /\ f["char"] = IF op.kind = "insert" THEN Some(StringValue(op.char)) ELSE None
      /\ f["reason"] = IF op.reason = <<>> THEN None ELSE Some(StringValue(op.reason))
  BY KeyNames, OperationFoundAt
<1> HIDE DEF fields, f
<1>4. Shows(json, f)
  BY <1>1, ObjectShows
<1>5. json \in Seq(Symbol) /\ \A key \in Keys : Finds(json, key, f[key])
  BY <1>4 DEF Shows
<1> HIDE DEF json
<1>6. kind = Some(<<op.kind>>)
  <2> DEFINE t == <<op.kind>>
  <2>1. t \in Seq(Letter)
    BY <1>2, KindIsText
  <2>2. Finds(json, "kind", Some(StringValue(t)))
    <3>1. Finds(json, "kind", f["kind"])
      BY <1>5, KeyNames
    <3> QED
      BY <1>3, <3>1
  <2> HIDE DEF t
  <2>3. kind = Some(t)
    BY <1>5, <2>1, <2>2, KeyNames, TextIsFound
  <2> QED
    BY <2>3 DEF t
<1>7. pos = Some(op.pos)
  BY <1>2, <1>3, <1>5, KeyNames, NumberIsFound
<1>8. op.kind = "insert" => char = Some(op.char)
  BY <1>2, <1>3, <1>5, KeyNames, TextIsFound
<1>9. reason = IF op.reason = <<>> THEN None ELSE Some(op.reason)
  <2>1. CASE op.reason = <<>>
    BY <1>3, <1>5, <2>1, KeyNames, NothingIsFound
  <2>2. CASE op.reason # <<>>
    BY <1>2, <1>3, <1>5, <2>2, KeyNames, TextIsFound
  <2> QED
    BY <2>1, <2>2
<1>10. ParseOperation(json) =
         IF \/ kind = None \/ Len(kind[1]) # 1 \/ kind[1][1] \notin Kinds
            \/ kind[1][1] = "insert" /\ (char = None \/ Len(char[1]) # 1)
         THEN None
         ELSE Some(Op(kind[1][1], Default(pos, 0),
                      IF kind[1][1] = "insert" THEN char[1] ELSE <<>>,
                      Default(reason, <<>>)))
  BY DEF ParseOperation
<1> HIDE DEF kind, char, reason, pos
<1>11. kind # None /\ Len(kind[1]) = 1 /\ kind[1][1] = op.kind
  <2> DEFINE t == <<op.kind>>
  <2>1. Len(t) = 1 /\ t[1] = op.kind /\ kind = Some(t)
    BY <1>6
  <2> HIDE DEF t
  <2>2. kind # None /\ kind[1] = t
    BY <2>1 DEF Some, None
  <2> QED
    BY <2>1, <2>2
<1>12. Default(pos, 0) = op.pos
  BY <1>7 DEF Default, Some, None
<1>13. op.kind = "insert" => char # None /\ char[1] = op.char
  BY <1>8 DEF Some, None
<1>14. Default(reason, <<>>) = op.reason
  BY <1>9 DEF Default, Some, None
<1>15. /\ op.kind = "insert" => Len(op.char) = 1
       /\ op.kind # "insert" => op.char = <<>>
       /\ op = Op(op.kind, op.pos, op.char, op.reason)
  BY OperationParts
<1>16. ParseOperation(json) = Some(Op(op.kind, op.pos, op.char, op.reason))
  BY <1>2, <1>10, <1>11, <1>12, <1>13, <1>14, <1>15
<1> QED
  BY <1>15, <1>16 DEF json, fields

-------------------------------------------------------------------------------

\* A field that is an operation (append_operation_field).
MaybeOperation(name, op) == IF op = None THEN <<>> ELSE OperationField(name, op[1])

OperationIn(name, op) ==
  IF op = None THEN Nothing
  ELSE First(Only(name, Object(OperationFields(op[1]))), OperationFound(op[1]))

\* An operation, written or left out, is a part of the message that holds it
\* (append_operation_field).
LEMMA OperationIsField ==
  ASSUME NEW name \in Keys, NEW op, op = None \/ IsOperation(op[1])
  PROVE  MaybeField(MaybeOperation(name, op), OperationIn(name, op))
<1>1. CASE op = None
  BY <1>1, NoField DEF MaybeOperation, OperationIn
<1>2. CASE op # None
  <2> DEFINE fields == OperationFields(op[1])
             f == OperationFound(op[1])
             value == Object(fields)
  <2>1. Fields(fields, f)
    BY <1>2, OperationHasFields
  <2>2. MaybeOperation(name, op) = Field(name, value)
    BY <1>2 DEF MaybeOperation, OperationField, OperationFields
  <2>3. OperationIn(name, op) = First(Only(name, value), f)
    BY <1>2 DEF OperationIn
  <2> HIDE DEF fields, f
  <2>4. Part(value, f) /\ value # <<>>
    BY <2>1, ObjectPart
  <2> HIDE DEF value
  <2> QED
    BY <2>2, <2>3, <2>4, SomeField
<1> QED
  BY <1>1, <1>2

\* What find_key finds in a message's operation, name by name: the operation under its
\* own name and, as find_key sees no braces, its reason.
LEMMA OperationInAt ==
  ASSUME NEW name \in {"op", "original_op"}, NEW op, NEW key \in Keys
  PROVE  /\ key = name =>
              OperationIn(name, op)[key] = IF op = None THEN None ELSE Some(Object(OperationFields(op[1])))
         /\ key = "reason" =>
              OperationIn(name, op)[key] =
                IF op = None \/ op[1].reason = <<>> THEN None ELSE Some(StringValue(op[1].reason))
         /\ key \notin {name, "reason", "kind", "pos", "char"} => OperationIn(name, op)[key] = None
<1> DEFINE f == OperationFound(op[1])
           value == Object(OperationFields(op[1]))
           only == Only(name, value)
<1>1. CASE op = None
  BY <1>1, OnlyAt DEF OperationIn
<1>2. CASE op # None
  <2>1. OperationIn(name, op) = First(only, f)
    BY <1>2 DEF OperationIn
  <2>2. only[key] = IF key = name THEN Some(value) ELSE None
    BY OnlyAt
  <2>3. /\ key = "reason" => f[key] = IF op[1].reason = <<>> THEN None ELSE Some(StringValue(op[1].reason))
        /\ key \notin {"kind", "pos", "char", "reason"} => f[key] = None
    BY OperationFoundAt
  <2>4. Some(value) # None
    BY DEF Some, None
  <2> HIDE DEF f, value, only
  <2>5. OperationIn(name, op)[key] = IF only[key] # None THEN only[key] ELSE f[key]
    BY <2>1, FirstAt
  <2>6. key = "reason" => key # name
    OBVIOUS
  <2>7. key = name => OperationIn(name, op)[key] = Some(value)
    BY <2>2, <2>4, <2>5
  <2>8. key # name => OperationIn(name, op)[key] = f[key]
    BY <2>2, <2>5
  <2> QED
    BY <1>2, <2>3, <2>6, <2>7, <2>8 DEF value
<1> QED
  BY <1>1, <1>2

\* The text of a message.
MaybeText(name, content) == IF content = None THEN <<>> ELSE Field(name, StringValue(content[1]))
MaybeTextFound(name, content) == IF content = None THEN Nothing ELSE Only(name, StringValue(content[1]))

\* The fields of a message, in the order of ts_encode_message, and what is found in
\* them.
MessageFields(m) ==
  StringField("type", <<m.type>>)
    \o StringField("client_id", m.client_id)
    \o StringField("op_id", m.op_id)
    \o IntField("base_version", m.base_version)
    \o IntField("server_version", m.server_version)
    \o IntField("version", m.version)
    \o IntField("history_start_version", m.history_start_version)
    \o MaybeOperation("op", m.op)
    \o MaybeOperation("original_op", m.original_op)
    \o StringField("message", m.message)
    \o StringField("reason", m.reason)
    \o MaybeText("content", m.content)

MessageFound(m) ==
  First(First(First(First(First(First(First(First(First(First(First(
    TextFound("type", <<m.type>>),
    TextFound("client_id", m.client_id)),
    TextFound("op_id", m.op_id)),
    NumberFound("base_version", m.base_version)),
    NumberFound("server_version", m.server_version)),
    NumberFound("version", m.version)),
    NumberFound("history_start_version", m.history_start_version)),
    OperationIn("op", m.op)),
    OperationIn("original_op", m.original_op)),
    TextFound("message", m.message)),
    TextFound("reason", m.reason)),
    MaybeTextFound("content", m.content))

\* What ts_encode_message writes, field by field.
LEMMA MessageHasFields ==
  ASSUME NEW m, IsMessage(m)
  PROVE  Fields(MessageFields(m), MessageFound(m))
<1> DEFINE a1 == StringField("type", <<m.type>>)
           a2 == StringField("client_id", m.client_id)
           a3 == StringField("op_id", m.op_id)
           a4 == IntField("base_version", m.base_version)
           a5 == IntField("server_version", m.server_version)
           a6 == IntField("version", m.version)
           a7 == IntField("history_start_version", m.history_start_version)
           a8 == MaybeOperation("op", m.op)
           a9 == MaybeOperation("original_op", m.original_op)
           a10 == StringField("message", m.message)
           a11 == StringField("reason", m.reason)
           a12 == MaybeText("content", m.content)
           f1 == TextFound("type", <<m.type>>)
           f2 == TextFound("client_id", m.client_id)
           f3 == TextFound("op_id", m.op_id)
           f4 == NumberFound("base_version", m.base_version)
           f5 == NumberFound("server_version", m.server_version)
           f6 == NumberFound("version", m.version)
           f7 == NumberFound("history_start_version", m.history_start_version)
           f8 == OperationIn("op", m.op)
           f9 == OperationIn("original_op", m.original_op)
           f10 == TextFound("message", m.message)
           f11 == TextFound("reason", m.reason)
           f12 == MaybeTextFound("content", m.content)
<1>1. /\ m.type \in STRING
      /\ m.client_id \in Seq(Letter) /\ m.op_id \in Seq(Letter)
      /\ m.message \in Seq(Letter) /\ m.reason \in Seq(Letter)
      /\ m.base_version \in -1 .. 9 /\ m.server_version \in -1 .. 9
      /\ m.version \in -1 .. 9 /\ m.history_start_version \in -1 .. 9
      /\ m.op = None \/ IsOperation(m.op[1])
      /\ m.original_op = None \/ IsOperation(m.original_op[1])
      /\ m.content = None \/ m.content[1] \in Seq(Letter)
  BY MessageParts, TextIsLetters
<1>2. Fields(a1, f1)
  <2> DEFINE t == <<m.type>>
  <2>1. t \in Seq(Letter)
    <3>1. m.type \in Letter
      BY <1>1 DEF Letter
    <3> QED
      BY <3>1, ShortSequences
  <2>2. t # <<>>
    OBVIOUS
  <2> HIDE DEF t
  <2>3. Fields(Field("type", StringValue(t)), Only("type", StringValue(t)))
    BY <2>1, KeyNames, TextIsSetField
  <2>4. StringField("type", t) = Field("type", StringValue(t)) /\ TextFound("type", t) = Only("type", StringValue(t))
    BY <2>2 DEF StringField, TextFound
  <2> QED
    BY <2>3, <2>4 DEF t
<1>3. MaybeField(a2, f2) /\ MaybeField(a3, f3) /\ MaybeField(a10, f10) /\ MaybeField(a11, f11)
  BY <1>1, KeyNames, TextField
<1>4. MaybeField(a4, f4) /\ MaybeField(a5, f5) /\ MaybeField(a6, f6) /\ MaybeField(a7, f7)
  BY <1>1, KeyNames, NumberField
<1>5. MaybeField(a8, f8) /\ MaybeField(a9, f9)
  BY <1>1, KeyNames, OperationIsField
<1>6. MaybeField(a12, f12)
  BY <1>1, KeyNames, NoField, TextIsSetField DEF MaybeText, MaybeTextFound
<1>7. MessageFields(m) = a1 \o a2 \o a3 \o a4 \o a5 \o a6 \o a7 \o a8 \o a9 \o a10 \o a11 \o a12
  BY DEF MessageFields
<1>8. MessageFound(m) =
        First(First(First(First(First(First(First(First(First(First(First(
          f1, f2), f3), f4), f5), f6), f7), f8), f9), f10), f11), f12)
  BY DEF MessageFound
<1> HIDE DEF a1, a2, a3, a4, a5, a6, a7, a8, a9, a10, a11, a12, f1, f2, f3, f4, f5, f6, f7, f8, f9, f10, f11, f12
<1> DEFINE b2 == a1 \o a2
           g2 == First(f1, f2)
<1>9. Fields(b2, g2)
  BY <1>2, <1>3, AddField
<1> HIDE DEF b2, g2
<1> DEFINE b3 == b2 \o a3
           g3 == First(g2, f3)
<1>10. Fields(b3, g3)
  BY <1>9, <1>3, AddField
<1> HIDE DEF b3, g3
<1> DEFINE b4 == b3 \o a4
           g4 == First(g3, f4)
<1>11. Fields(b4, g4)
  BY <1>10, <1>4, AddField
<1> HIDE DEF b4, g4
<1> DEFINE b5 == b4 \o a5
           g5 == First(g4, f5)
<1>12. Fields(b5, g5)
  BY <1>11, <1>4, AddField
<1> HIDE DEF b5, g5
<1> DEFINE b6 == b5 \o a6
           g6 == First(g5, f6)
<1>13. Fields(b6, g6)
  BY <1>12, <1>4, AddField
<1> HIDE DEF b6, g6
<1> DEFINE b7 == b6 \o a7
           g7 == First(g6, f7)
<1>14. Fields(b7, g7)
  BY <1>13, <1>4, AddField
<1> HIDE DEF b7, g7
<1> DEFINE b8 == b7 \o a8
           g8 == First(g7, f8)
<1>15. Fields(b8, g8)
  BY <1>14, <1>5, AddField
<1> HIDE DEF b8, g8
<1> DEFINE b9 == b8 \o a9
           g9 == First(g8, f9)
<1>16. Fields(b9, g9)
  BY <1>15, <1>5, AddField
<1> HIDE DEF b9, g9
<1> DEFINE b10 == b9 \o a10
           g10 == First(g9, f10)
<1>17. Fields(b10, g10)
  BY <1>16, <1>3, AddField
<1> HIDE DEF b10, g10
<1> DEFINE b11 == b10 \o a11
           g11 == First(g10, f11)
<1>18. Fields(b11, g11)
  BY <1>17, <1>3, AddField
<1> HIDE DEF b11, g11
<1>19. Fields(b11 \o a12, First(g11, f12))
  BY <1>18, <1>6, AddField
<1> QED
  BY <1>7, <1>8, <1>19
     DEF b2, b3, b4, b5, b6, b7, b8, b9, b10, b11, g2, g3, g4, g5, g6, g7, g8, g9, g10, g11

-------------------------------------------------------------------------------

\* What is found of a text and of a number.
TextThere(text) == IF text = <<>> THEN None ELSE Some(StringValue(text))
NumberThere(n) == IF n < 0 THEN None ELSE Some(Numeral(n))

\* The reason that is read: that of the first operation that has one, else the
\* message's own (find_key looks through the whole line).
ReasonOf(op) == IF op = None THEN <<>> ELSE op[1].reason
ReasonRead(m) ==
  IF ReasonOf(m.op) # <<>> THEN ReasonOf(m.op)
  ELSE IF ReasonOf(m.original_op) # <<>> THEN ReasonOf(m.original_op)
  ELSE m.reason

\* What find_key finds of a text, name by name (append_string_field).
LEMMA TextFoundAt ==
  ASSUME NEW name, NEW text, NEW key \in Keys
  PROVE  TextFound(name, text)[key] = IF key = name THEN TextThere(text) ELSE None
BY OnlyAt DEF TextFound, TextThere

\* What find_key finds of a number, name by name (append_int_field).
LEMMA NumberFoundAt ==
  ASSUME NEW name, NEW n, NEW key \in Keys
  PROVE  NumberFound(name, n)[key] = IF key = name THEN NumberThere(n) ELSE None
BY OnlyAt DEF NumberFound, NumberThere

\* What is found in a message's fields, name by name.
LEMMA MessageFoundAt ==
  ASSUME NEW m, NEW key \in Keys
  PROVE  /\ key = "type" => MessageFound(m)[key] = TextThere(<<m.type>>)
         /\ key = "client_id" => MessageFound(m)[key] = TextThere(m.client_id)
         /\ key = "op_id" => MessageFound(m)[key] = TextThere(m.op_id)
         /\ key = "base_version" => MessageFound(m)[key] = NumberThere(m.base_version)
         /\ key = "server_version" => MessageFound(m)[key] = NumberThere(m.server_version)
         /\ key = "version" => MessageFound(m)[key] = NumberThere(m.version)
         /\ key = "history_start_version" => MessageFound(m)[key] = NumberThere(m.history_start_version)
         /\ key = "op" => MessageFound(m)[key] =
              IF m.op = None THEN None ELSE Some(Object(OperationFields(m.op[1])))
         /\ key = "original_op" => MessageFound(m)[key] =
              IF m.original_op = None THEN None ELSE Some(Object(OperationFields(m.original_op[1])))
         /\ key = "message" => MessageFound(m)[key] = TextThere(m.message)
         /\ key = "reason" => MessageFound(m)[key] = TextThere(ReasonRead(m))
         /\ key = "content" => MessageFound(m)[key] =
              IF m.content = None THEN None ELSE Some(StringValue(m.content[1]))
<1> DEFINE f1 == TextFound("type", <<m.type>>)
           f2 == TextFound("client_id", m.client_id)
           f3 == TextFound("op_id", m.op_id)
           f4 == NumberFound("base_version", m.base_version)
           f5 == NumberFound("server_version", m.server_version)
           f6 == NumberFound("version", m.version)
           f7 == NumberFound("history_start_version", m.history_start_version)
           f8 == OperationIn("op", m.op)
           f9 == OperationIn("original_op", m.original_op)
           f10 == TextFound("message", m.message)
           f11 == TextFound("reason", m.reason)
           f12 == MaybeTextFound("content", m.content)
           g2 == First(f1, f2)
           g3 == First(g2, f3)
           g4 == First(g3, f4)
           g5 == First(g4, f5)
           g6 == First(g5, f6)
           g7 == First(g6, f7)
           g8 == First(g7, f8)
           g9 == First(g8, f9)
           g10 == First(g9, f10)
           g11 == First(g10, f11)
<1>1. f1[key] = IF key = "type" THEN TextThere(<<m.type>>) ELSE None
  BY TextFoundAt
<1>2. f2[key] = IF key = "client_id" THEN TextThere(m.client_id) ELSE None
  BY TextFoundAt
<1>3. f3[key] = IF key = "op_id" THEN TextThere(m.op_id) ELSE None
  BY TextFoundAt
<1>4. f4[key] = IF key = "base_version" THEN NumberThere(m.base_version) ELSE None
  BY NumberFoundAt
<1>5. f5[key] = IF key = "server_version" THEN NumberThere(m.server_version) ELSE None
  BY NumberFoundAt
<1>6. f6[key] = IF key = "version" THEN NumberThere(m.version) ELSE None
  BY NumberFoundAt
<1>7. f7[key] = IF key = "history_start_version" THEN NumberThere(m.history_start_version) ELSE None
  BY NumberFoundAt
<1>8. /\ key = "op" => f8[key] = IF m.op = None THEN None ELSE Some(Object(OperationFields(m.op[1])))
      /\ key = "reason" => f8[key] = TextThere(ReasonOf(m.op))
      /\ key \notin {"op", "reason", "kind", "pos", "char"} => f8[key] = None
  BY OperationInAt DEF TextThere, ReasonOf
<1>9. /\ key = "original_op" => f9[key] = IF m.original_op = None THEN None ELSE Some(Object(OperationFields(m.original_op[1])))
      /\ key = "reason" => f9[key] = TextThere(ReasonOf(m.original_op))
      /\ key \notin {"original_op", "reason", "kind", "pos", "char"} => f9[key] = None
  BY OperationInAt DEF TextThere, ReasonOf
<1>10. f10[key] = IF key = "message" THEN TextThere(m.message) ELSE None
  BY TextFoundAt
<1>11. f11[key] = IF key = "reason" THEN TextThere(m.reason) ELSE None
  BY TextFoundAt
<1>12. f12[key] = IF key = "content" THEN (IF m.content = None THEN None ELSE Some(StringValue(m.content[1]))) ELSE None
  BY OnlyAt DEF MaybeTextFound
<1>13. \A x : Some(x) # None
  BY DEF Some, None
<1>14. MessageFound(m) = First(g11, f12)
  BY DEF MessageFound
<1> HIDE DEF f1, f2, f3, f4, f5, f6, f7, f8, f9, f10, f11, f12
<1>15. g2[key] = IF f1[key] # None THEN f1[key] ELSE f2[key]
  BY FirstAt
<1> HIDE DEF g2
<1>16. g3[key] = IF g2[key] # None THEN g2[key] ELSE f3[key]
  BY FirstAt
<1> HIDE DEF g3
<1>17. g4[key] = IF g3[key] # None THEN g3[key] ELSE f4[key]
  BY FirstAt
<1> HIDE DEF g4
<1>18. g5[key] = IF g4[key] # None THEN g4[key] ELSE f5[key]
  BY FirstAt
<1> HIDE DEF g5
<1>19. g6[key] = IF g5[key] # None THEN g5[key] ELSE f6[key]
  BY FirstAt
<1> HIDE DEF g6
<1>20. g7[key] = IF g6[key] # None THEN g6[key] ELSE f7[key]
  BY FirstAt
<1> HIDE DEF g7
<1>21. g8[key] = IF g7[key] # None THEN g7[key] ELSE f8[key]
  BY FirstAt
<1> HIDE DEF g8
<1>22. g9[key] = IF g8[key] # None THEN g8[key] ELSE f9[key]
  BY FirstAt
<1> HIDE DEF g9
<1>23. g10[key] = IF g9[key] # None THEN g9[key] ELSE f10[key]
  BY FirstAt
<1> HIDE DEF g10
<1>24. g11[key] = IF g10[key] # None THEN g10[key] ELSE f11[key]
  BY FirstAt
<1> HIDE DEF g11
<1>25. MessageFound(m)[key] = IF g11[key] # None THEN g11[key] ELSE f12[key]
  BY <1>14, FirstAt
<1>26. \A text : TextThere(text) = None <=> text = <<>>
  BY <1>13 DEF TextThere
<1> HIDE DEF TextThere
<1> DEFINE mine == MessageFound(m)[key]
<1>27. ASSUME key = "type" PROVE mine = TextThere(<<m.type>>)
  <2>1. f1[key] = TextThere(<<m.type>>)
    BY <1>1, <1>27
  <2>2. f2[key] = None /\ f3[key] = None /\ f4[key] = None /\ f5[key] = None /\ f6[key] = None /\ f7[key] = None /\ f8[key] = None /\ f9[key] = None /\ f10[key] = None /\ f11[key] = None /\ f12[key] = None
    BY <1>2, <1>3, <1>4, <1>5, <1>6, <1>7, <1>8, <1>9, <1>10, <1>11, <1>12, <1>27
  <2> QED
    BY <1>15, <1>16, <1>17, <1>18, <1>19, <1>20, <1>21, <1>22, <1>23, <1>24, <1>25, <2>1, <2>2
<1>28. ASSUME key = "client_id" PROVE mine = TextThere(m.client_id)
  <2>1. f2[key] = TextThere(m.client_id)
    BY <1>2, <1>28
  <2>2. f1[key] = None /\ f3[key] = None /\ f4[key] = None /\ f5[key] = None /\ f6[key] = None /\ f7[key] = None /\ f8[key] = None /\ f9[key] = None /\ f10[key] = None /\ f11[key] = None /\ f12[key] = None
    BY <1>1, <1>3, <1>4, <1>5, <1>6, <1>7, <1>8, <1>9, <1>10, <1>11, <1>12, <1>28
  <2> QED
    BY <1>15, <1>16, <1>17, <1>18, <1>19, <1>20, <1>21, <1>22, <1>23, <1>24, <1>25, <2>1, <2>2
<1>29. ASSUME key = "op_id" PROVE mine = TextThere(m.op_id)
  <2>1. f3[key] = TextThere(m.op_id)
    BY <1>3, <1>29
  <2>2. f1[key] = None /\ f2[key] = None /\ f4[key] = None /\ f5[key] = None /\ f6[key] = None /\ f7[key] = None /\ f8[key] = None /\ f9[key] = None /\ f10[key] = None /\ f11[key] = None /\ f12[key] = None
    BY <1>1, <1>2, <1>4, <1>5, <1>6, <1>7, <1>8, <1>9, <1>10, <1>11, <1>12, <1>29
  <2> QED
    BY <1>15, <1>16, <1>17, <1>18, <1>19, <1>20, <1>21, <1>22, <1>23, <1>24, <1>25, <2>1, <2>2
<1>30. ASSUME key = "base_version" PROVE mine = NumberThere(m.base_version)
  <2>1. f4[key] = NumberThere(m.base_version)
    BY <1>4, <1>30
  <2>2. f1[key] = None /\ f2[key] = None /\ f3[key] = None /\ f5[key] = None /\ f6[key] = None /\ f7[key] = None /\ f8[key] = None /\ f9[key] = None /\ f10[key] = None /\ f11[key] = None /\ f12[key] = None
    BY <1>1, <1>2, <1>3, <1>5, <1>6, <1>7, <1>8, <1>9, <1>10, <1>11, <1>12, <1>30
  <2> QED
    BY <1>15, <1>16, <1>17, <1>18, <1>19, <1>20, <1>21, <1>22, <1>23, <1>24, <1>25, <2>1, <2>2
<1>31. ASSUME key = "server_version" PROVE mine = NumberThere(m.server_version)
  <2>1. f5[key] = NumberThere(m.server_version)
    BY <1>5, <1>31
  <2>2. f1[key] = None /\ f2[key] = None /\ f3[key] = None /\ f4[key] = None /\ f6[key] = None /\ f7[key] = None /\ f8[key] = None /\ f9[key] = None /\ f10[key] = None /\ f11[key] = None /\ f12[key] = None
    BY <1>1, <1>2, <1>3, <1>4, <1>6, <1>7, <1>8, <1>9, <1>10, <1>11, <1>12, <1>31
  <2> QED
    BY <1>15, <1>16, <1>17, <1>18, <1>19, <1>20, <1>21, <1>22, <1>23, <1>24, <1>25, <2>1, <2>2
<1>32. ASSUME key = "version" PROVE mine = NumberThere(m.version)
  <2>1. f6[key] = NumberThere(m.version)
    BY <1>6, <1>32
  <2>2. f1[key] = None /\ f2[key] = None /\ f3[key] = None /\ f4[key] = None /\ f5[key] = None /\ f7[key] = None /\ f8[key] = None /\ f9[key] = None /\ f10[key] = None /\ f11[key] = None /\ f12[key] = None
    BY <1>1, <1>2, <1>3, <1>4, <1>5, <1>7, <1>8, <1>9, <1>10, <1>11, <1>12, <1>32
  <2> QED
    BY <1>15, <1>16, <1>17, <1>18, <1>19, <1>20, <1>21, <1>22, <1>23, <1>24, <1>25, <2>1, <2>2
<1>33. ASSUME key = "history_start_version" PROVE mine = NumberThere(m.history_start_version)
  <2>1. f7[key] = NumberThere(m.history_start_version)
    BY <1>7, <1>33
  <2>2. f1[key] = None /\ f2[key] = None /\ f3[key] = None /\ f4[key] = None /\ f5[key] = None /\ f6[key] = None /\ f8[key] = None /\ f9[key] = None /\ f10[key] = None /\ f11[key] = None /\ f12[key] = None
    BY <1>1, <1>2, <1>3, <1>4, <1>5, <1>6, <1>8, <1>9, <1>10, <1>11, <1>12, <1>33
  <2> QED
    BY <1>15, <1>16, <1>17, <1>18, <1>19, <1>20, <1>21, <1>22, <1>23, <1>24, <1>25, <2>1, <2>2
<1>34. ASSUME key = "op" PROVE mine = IF m.op = None THEN None ELSE Some(Object(OperationFields(m.op[1])))
  <2>1. f8[key] = IF m.op = None THEN None ELSE Some(Object(OperationFields(m.op[1])))
    BY <1>8, <1>34
  <2>2. f1[key] = None /\ f2[key] = None /\ f3[key] = None /\ f4[key] = None /\ f5[key] = None /\ f6[key] = None /\ f7[key] = None /\ f9[key] = None /\ f10[key] = None /\ f11[key] = None /\ f12[key] = None
    BY <1>1, <1>2, <1>3, <1>4, <1>5, <1>6, <1>7, <1>9, <1>10, <1>11, <1>12, <1>34
  <2> QED
    BY <1>15, <1>16, <1>17, <1>18, <1>19, <1>20, <1>21, <1>22, <1>23, <1>24, <1>25, <2>1, <2>2
<1>35. ASSUME key = "original_op" PROVE mine = IF m.original_op = None THEN None ELSE Some(Object(OperationFields(m.original_op[1])))
  <2>1. f9[key] = IF m.original_op = None THEN None ELSE Some(Object(OperationFields(m.original_op[1])))
    BY <1>9, <1>35
  <2>2. f1[key] = None /\ f2[key] = None /\ f3[key] = None /\ f4[key] = None /\ f5[key] = None /\ f6[key] = None /\ f7[key] = None /\ f8[key] = None /\ f10[key] = None /\ f11[key] = None /\ f12[key] = None
    BY <1>1, <1>2, <1>3, <1>4, <1>5, <1>6, <1>7, <1>8, <1>10, <1>11, <1>12, <1>35
  <2> QED
    BY <1>15, <1>16, <1>17, <1>18, <1>19, <1>20, <1>21, <1>22, <1>23, <1>24, <1>25, <2>1, <2>2
<1>36. ASSUME key = "message" PROVE mine = TextThere(m.message)
  <2>1. f10[key] = TextThere(m.message)
    BY <1>10, <1>36
  <2>2. f1[key] = None /\ f2[key] = None /\ f3[key] = None /\ f4[key] = None /\ f5[key] = None /\ f6[key] = None /\ f7[key] = None /\ f8[key] = None /\ f9[key] = None /\ f11[key] = None /\ f12[key] = None
    BY <1>1, <1>2, <1>3, <1>4, <1>5, <1>6, <1>7, <1>8, <1>9, <1>11, <1>12, <1>36
  <2> QED
    BY <1>15, <1>16, <1>17, <1>18, <1>19, <1>20, <1>21, <1>22, <1>23, <1>24, <1>25, <2>1, <2>2
<1>37. ASSUME key = "content" PROVE mine = IF m.content = None THEN None ELSE Some(StringValue(m.content[1]))
  <2>1. f12[key] = IF m.content = None THEN None ELSE Some(StringValue(m.content[1]))
    BY <1>12, <1>37
  <2>2. f1[key] = None /\ f2[key] = None /\ f3[key] = None /\ f4[key] = None /\ f5[key] = None /\ f6[key] = None /\ f7[key] = None /\ f8[key] = None /\ f9[key] = None /\ f10[key] = None /\ f11[key] = None
    BY <1>1, <1>2, <1>3, <1>4, <1>5, <1>6, <1>7, <1>8, <1>9, <1>10, <1>11, <1>37
  <2> QED
    BY <1>15, <1>16, <1>17, <1>18, <1>19, <1>20, <1>21, <1>22, <1>23, <1>24, <1>25, <2>1, <2>2
<1>38. ASSUME key = "reason" PROVE mine = TextThere(ReasonRead(m))
  <2>1. f8[key] = TextThere(ReasonOf(m.op)) /\ f9[key] = TextThere(ReasonOf(m.original_op)) /\ f11[key] = TextThere(m.reason)
    BY <1>8, <1>9, <1>11, <1>38
  <2>2. f1[key] = None /\ f2[key] = None /\ f3[key] = None /\ f4[key] = None /\ f5[key] = None /\ f6[key] = None /\ f7[key] = None /\ f10[key] = None /\ f12[key] = None
    BY <1>1, <1>2, <1>3, <1>4, <1>5, <1>6, <1>7, <1>10, <1>12, <1>38
  <2>3. mine = IF f8[key] # None THEN f8[key] ELSE IF f9[key] # None THEN f9[key] ELSE f11[key]
    BY <1>15, <1>16, <1>17, <1>18, <1>19, <1>20, <1>21, <1>22, <1>23, <1>24, <1>25, <2>2
  <2> QED
    BY <1>26, <2>1, <2>3 DEF ReasonRead
<1> QED
  BY <1>27, <1>28, <1>29, <1>30, <1>31, <1>32, <1>33, <1>34, <1>35, <1>36, <1>37, <1>38

\* What a text, a number and an operation are read as.
LEMMA ThereIsRead ==
  ASSUME NEW json \in Seq(Symbol), NEW key \in Keys
  PROVE  /\ \A text \in Seq(Letter) :
              Finds(json, key, TextThere(text)) => Default(GetString(json, key), <<>>) = text
         /\ \A n \in -1 .. 9 :
              Finds(json, key, NumberThere(n)) => Default(GetInt(json, key), -1) = n
<1>1. ASSUME NEW text \in Seq(Letter), Finds(json, key, TextThere(text))
      PROVE  Default(GetString(json, key), <<>>) = text
  <2>1. CASE text = <<>>
    <3>1. GetString(json, key) = None
      BY <1>1, <2>1, NothingIsFound DEF TextThere
    <3> QED
      BY <2>1, <3>1 DEF Default
  <2>2. CASE text # <<>>
    <3>1. GetString(json, key) = Some(text)
      BY <1>1, <2>2, TextIsFound DEF TextThere
    <3> QED
      BY <3>1 DEF Default, Some, None
  <2> QED
    BY <2>1, <2>2
<1>2. ASSUME NEW n \in -1 .. 9, Finds(json, key, NumberThere(n))
      PROVE  Default(GetInt(json, key), -1) = n
  <2>1. CASE n < 0
    <3>1. GetInt(json, key) = None
      BY <1>2, <2>1, NothingIsFound DEF NumberThere
    <3>2. n = -1
      BY <2>1
    <3> QED
      BY <3>1, <3>2 DEF Default
  <2>2. CASE ~ n < 0
    <3>1. n \in 0 .. 9
      BY <2>2
    <3>2. GetInt(json, key) = Some(n)
      BY <1>2, <2>2, <3>1, NumberIsFound DEF NumberThere
    <3> QED
      BY <3>2 DEF Default, Some, None
  <2> QED
    BY <2>1, <2>2
<1> QED
  BY <1>1, <1>2

\* An operation that is found is parsed as the one that was written, and none is
\* parsed where none was (json_get_object, parse_operation_object).
LEMMA OperationIsRead ==
  ASSUME NEW json \in Seq(Symbol), NEW key \in Keys, NEW op, op = None \/ (IsOperation(op[1]) /\ op = Some(op[1])),
         Finds(json, key, IF op = None THEN None ELSE Some(Object(OperationFields(op[1]))))
  PROVE  /\ GetObject(json, key) = None <=> op = None
         /\ (IF GetObject(json, key) = None THEN None ELSE ParseOperation(GetObject(json, key)[1])) = op
<1> DEFINE object == GetObject(json, key)
<1>1. CASE op = None
  <2>1. object = None
    BY <1>1, NothingIsFound
  <2> QED
    BY <1>1, <2>1
<1>2. CASE op # None
  <2> DEFINE fields == OperationFields(op[1])
             f == OperationFound(op[1])
             value == Object(fields)
  <2>1. Fields(fields, f)
    BY <1>2, OperationHasFields
  <2>2. Finds(json, key, Some(value))
    BY <1>2
  <2>3. ParseOperation(value) = op
    BY <1>2, OperationIsParsed
  <2> HIDE DEF fields, f
  <2>4. object = Some(value)
    BY <2>1, <2>2, ObjectIsFound
  <2> HIDE DEF value, object
  <2>5. object # None /\ object[1] = value
    BY <2>4 DEF Some, None
  <2> QED
    BY <1>2, <2>3, <2>5 DEF object
<1> QED
  BY <1>1, <1>2

\* A message as it is read.
AsRead(m) ==
  [type |-> m.type, client_id |-> m.client_id, op_id |-> m.op_id, message |-> m.message, reason |-> ReasonRead(m),
   base_version |-> m.base_version, server_version |-> m.server_version, version |-> m.version,
   history_start_version |-> m.history_start_version,
   content |-> m.content, op |-> m.op, original_op |-> m.original_op]

\* A message is decoded as it was encoded, its reason apart (ts_decode_message).
THEOREM DecodesWhatItEncodes ==
  ASSUME NEW m, IsMessage(m)
  PROVE  Decode(SubSeq(Encode(m), 1, Len(Encode(m)) - 1)) = Some(AsRead(m))
<1> DEFINE fields == MessageFields(m)
           f == MessageFound(m)
           json == Object(fields)
           opening == "{"
<1>1. Fields(fields, f)
  BY MessageHasFields
<1>2. Encode(m) = json \o <<Newline>>
  BY DEF Encode, MessageFields, MaybeOperation, MaybeText
<1>3. /\ m.type \in STRING
      /\ m.client_id \in Seq(Letter) /\ m.op_id \in Seq(Letter)
      /\ m.message \in Seq(Letter) /\ m.reason \in Seq(Letter)
      /\ m.base_version \in -1 .. 9 /\ m.server_version \in -1 .. 9
      /\ m.version \in -1 .. 9 /\ m.history_start_version \in -1 .. 9
      /\ m.op = None \/ (IsOperation(m.op[1]) /\ m.op = Some(m.op[1]))
      /\ m.original_op = None \/ (IsOperation(m.original_op[1]) /\ m.original_op = Some(m.original_op[1]))
      /\ m.content = None \/ (m.content[1] \in Seq(Letter) /\ m.content = Some(m.content[1]))
  BY MessageParts, TextIsLetters
<1>4. ReasonRead(m) \in Seq(Letter)
  <2>1. <<>> \in Seq(Letter)
    BY EmptySeq
  <2>2. ReasonOf(m.op) \in Seq(Letter) /\ ReasonOf(m.original_op) \in Seq(Letter)
    BY <1>3, <2>1, OperationParts, TextIsLetters DEF ReasonOf
  <2> QED
    BY <1>3, <2>2 DEF ReasonRead
<1> HIDE DEF fields
<1>5. Shows(json, f) /\ json \in Seq(Symbol)
  BY <1>1, ObjectShows, ObjectLayout
<1>6. json # <<>> /\ json[1] = opening
  BY <1>1, ObjectLayout, ObjectPart
<1> HIDE DEF json, opening
<1>7. SubSeq(Encode(m), 1, Len(Encode(m)) - 1) = json
  <2> DEFINE l == Len(json)
             w == <<Newline>>
             line == json \o w
             s == SubSeq(line, 1, l)
  <2>1. w \in Seq(Symbol)
    BY NamesAndKinds, ShortSequences
  <2>2. Len(w) = 1
    OBVIOUS
  <2> HIDE DEF w
  <2>3. line \in Seq(Symbol) /\ l \in Nat /\ Len(line) = l + Len(w) /\ \A i \in 1 .. l : line[i] = json[i]
    BY <1>5, <2>1, TwoWords
  <2> HIDE DEF line
  <2>4. s \in Seq(Symbol) /\ Len(s) = l /\ \A i \in 1 .. l : s[i] = line[i]
    <3> HIDE DEF l
    <3> QED
      BY <2>2, <2>3
  <2>5. json = [i \in 1 .. l |-> json[i]]
    BY <1>5
  <2> HIDE DEF s, l
  <2>6. s = [i \in 1 .. l |-> s[i]]
    BY <2>4
  <2>7. s = json
    BY <2>3, <2>4, <2>5, <2>6
  <2>8. Len(line) - 1 = l
    BY <2>2, <2>3
  <2> QED
    BY <1>2, <2>7, <2>8 DEF s, line, w
<1>8. ASSUME NEW key \in Keys PROVE Finds(json, key, f[key])
  BY <1>5 DEF Shows
<1> DEFINE type == GetString(json, "type")
           op == GetObject(json, "op")
           original == GetObject(json, "original_op")
           Text(key) == Default(GetString(json, key), <<>>)
           Number(key) == Default(GetInt(json, key), -1)
           content == GetString(json, "content")
<1>9. type = Some(<<m.type>>)
  <2> DEFINE t == <<m.type>>
  <2>1. t \in Seq(Letter) /\ t # <<>>
    <3>1. m.type \in Letter
      BY <1>3 DEF Letter
    <3> QED
      BY <3>1, ShortSequences
  <2>2. f["type"] = TextThere(t)
    BY KeyNames, MessageFoundAt
  <2> HIDE DEF t, f
  <2>3. Finds(json, "type", Some(StringValue(t)))
    BY <1>8, <2>1, <2>2, KeyNames DEF TextThere
  <2>4. type = Some(t)
    BY <1>5, <2>1, <2>3, KeyNames, TextIsFound
  <2> QED
    BY <2>4 DEF t
<1>10. Text("client_id") = m.client_id
  <2>1. f["client_id"] = TextThere(m.client_id)
    BY KeyNames, MessageFoundAt
  <2> QED
    BY <1>3, <1>5, <1>8, <2>1, KeyNames, ThereIsRead
<1>11. Text("op_id") = m.op_id
  <2>1. f["op_id"] = TextThere(m.op_id)
    BY KeyNames, MessageFoundAt
  <2> QED
    BY <1>3, <1>5, <1>8, <2>1, KeyNames, ThereIsRead
<1>12. Text("message") = m.message
  <2>1. f["message"] = TextThere(m.message)
    BY KeyNames, MessageFoundAt
  <2> QED
    BY <1>3, <1>5, <1>8, <2>1, KeyNames, ThereIsRead
<1>13. Text("reason") = ReasonRead(m)
  <2>1. f["reason"] = TextThere(ReasonRead(m))
    BY KeyNames, MessageFoundAt
  <2> QED
    BY <1>4, <1>5, <1>8, <2>1, KeyNames, ThereIsRead
<1>14. Number("base_version") = m.base_version
  <2>1. f["base_version"] = NumberThere(m.base_version)
    BY KeyNames, MessageFoundAt
  <2> QED
    BY <1>3, <1>5, <1>8, <2>1, KeyNames, ThereIsRead
<1>15. Number("server_version") = m.server_version
  <2>1. f["server_version"] = NumberThere(m.server_version)
    BY KeyNames, MessageFoundAt
  <2> QED
    BY <1>3, <1>5, <1>8, <2>1, KeyNames, ThereIsRead
<1>16. Number("version") = m.version
  <2>1. f["version"] = NumberThere(m.version)
    BY KeyNames, MessageFoundAt
  <2> QED
    BY <1>3, <1>5, <1>8, <2>1, KeyNames, ThereIsRead
<1>17. Number("history_start_version") = m.history_start_version
  <2>1. f["history_start_version"] = NumberThere(m.history_start_version)
    BY KeyNames, MessageFoundAt
  <2> QED
    BY <1>3, <1>5, <1>8, <2>1, KeyNames, ThereIsRead
<1>18. (op = None <=> m.op = None) /\ (IF op = None THEN None ELSE ParseOperation(op[1])) = m.op
  <2>1. f["op"] = IF m.op = None THEN None ELSE Some(Object(OperationFields(m.op[1])))
    BY KeyNames, MessageFoundAt
  <2> QED
    BY <1>3, <1>5, <1>8, <2>1, KeyNames, OperationIsRead
<1>19. (IF original = None THEN None ELSE ParseOperation(original[1])) = m.original_op
  <2>1. f["original_op"] = IF m.original_op = None THEN None ELSE Some(Object(OperationFields(m.original_op[1])))
    BY KeyNames, MessageFoundAt
  <2> QED
    BY <1>3, <1>5, <1>8, <2>1, KeyNames, OperationIsRead
<1>20. content = m.content
  <2>1. f["content"] = IF m.content = None THEN None ELSE Some(StringValue(m.content[1]))
    BY KeyNames, MessageFoundAt
  <2>2. CASE m.content = None
    BY <1>5, <1>8, <2>1, <2>2, KeyNames, NothingIsFound
  <2>3. CASE m.content # None
    BY <1>3, <1>5, <1>8, <2>1, <2>3, KeyNames, TextIsFound
  <2> QED
    BY <2>2, <2>3
<1>21. Decode(json) =
         IF \/ json = <<>> \/ json[1] # opening \/ type = None \/ Len(type[1]) # 1
            \/ op # None /\ ParseOperation(op[1]) = None
         THEN None
         ELSE Some([type |-> type[1][1],
                    client_id |-> Text("client_id"), op_id |-> Text("op_id"),
                    message |-> Text("message"), reason |-> Text("reason"),
                    base_version |-> Number("base_version"),
                    server_version |-> Number("server_version"),
                    version |-> Number("version"),
                    history_start_version |-> Number("history_start_version"),
                    content |-> content,
                    op |-> IF op = None THEN None ELSE ParseOperation(op[1]),
                    original_op |-> IF original = None THEN None ELSE ParseOperation(original[1])])
  BY DEF Decode, opening
<1> HIDE DEF type, op, original, Text, Number, content, f
<1>22. type # None /\ Len(type[1]) = 1 /\ type[1][1] = m.type
  <2> DEFINE t == <<m.type>>
  <2>1. Len(t) = 1 /\ t[1] = m.type /\ type = Some(t)
    BY <1>9
  <2> HIDE DEF t
  <2>2. type # None /\ type[1] = t
    BY <2>1 DEF Some, None
  <2> QED
    BY <2>1, <2>2
<1>23. ~ (op # None /\ ParseOperation(op[1]) = None)
  BY <1>18
<1>24. Decode(json) =
         Some([type |-> m.type,
               client_id |-> Text("client_id"), op_id |-> Text("op_id"),
               message |-> Text("message"), reason |-> Text("reason"),
               base_version |-> Number("base_version"),
               server_version |-> Number("server_version"),
               version |-> Number("version"),
               history_start_version |-> Number("history_start_version"),
               content |-> content,
               op |-> IF op = None THEN None ELSE ParseOperation(op[1]),
               original_op |-> IF original = None THEN None ELSE ParseOperation(original[1])])
  BY <1>6, <1>21, <1>22, <1>23
<1>25. Decode(json) = Some(AsRead(m))
  BY <1>10, <1>11, <1>12, <1>13, <1>14, <1>15, <1>16, <1>17, <1>18, <1>19, <1>20, <1>24 DEF AsRead
<1> QED
  BY <1>7, <1>25
===============================================================================
