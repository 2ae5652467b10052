-------------------------------- MODULE Codec --------------------------------
(***************************************************************************)
(* Messages as lines (protocol.c): one JSON object per message, ended by a *)
(* newline.                                                                *)
(*                                                                         *)
(* A line is a sequence of symbols.  Quotes, backslashes, braces, colons,  *)
(* commas and newlines are symbols of their own, since the code looks for  *)
(* them; a word the code only copies or compares, such as the name of a    *)
(* field, is one symbol, and so is a number.  A text value is a sequence   *)
(* of symbols too, and may hold any of them: what a user types can look    *)
(* like a part of the line.                                                *)
(*                                                                         *)
(* What may be missing is a sequence of length one or zero: a field that   *)
(* is not set, the result of a lookup that fails.                          *)
(***************************************************************************)
EXTENDS Integers, Sequences, SequencesExt, FiniteSetsExt

None == <<>>
Some(x) == <<x>>
Default(maybe, otherwise) == IF maybe = None THEN otherwise ELSE maybe[1]

\* TsMessage.  The strings are empty, the numbers -1 and the rest None until
\* they are set (ts_message_init).
Message(type) ==
  [type |-> type, client_id |-> <<>>, op_id |-> <<>>, message |-> <<>>, reason |-> <<>>,
   base_version |-> -1, server_version |-> -1, version |-> -1, history_start_version |-> -1,
   op |-> None, original_op |-> None, content |-> None]

\* TsOperation: only an insertion has a character, only a noop a reason.
Op(kind, pos, char, reason) == [kind |-> kind, pos |-> pos, char |-> char, reason |-> reason]

Kinds == {"insert", "delete", "noop"}

\* What a message and its operations are made of.  A number is one symbol, so
\* they are small.
TsOperation == [kind : Kinds, pos : 0 .. 9, char : Seq(STRING), reason : Seq(STRING)]

TsMessage ==
  [type : STRING, client_id : Seq(STRING), op_id : Seq(STRING), message : Seq(STRING), reason : Seq(STRING),
   base_version : -1 .. 9, server_version : -1 .. 9, version : -1 .. 9, history_start_version : -1 .. 9,
   op : Seq(TsOperation), original_op : Seq(TsOperation), content : Seq(Seq(STRING))]

\* An insertion has one character, the others have none.
IsOperation(op) == op \in TsOperation /\ Len(op.char) = IF op.kind = "insert" THEN 1 ELSE 0

IsMessage(m) ==
  /\ m \in TsMessage
  /\ Len(m.op) <= 1 /\ Len(m.original_op) <= 1 /\ Len(m.content) <= 1
  /\ \A i \in DOMAIN m.op : IsOperation(m.op[i])
  /\ \A i \in DOMAIN m.original_op : IsOperation(m.original_op[i])

-----------------------------------------------------------------------------
(* Encoding *)

Quote == "\""
Backslash == "\\"
Newline == "\n"
Numerals == <<"0", "1", "2", "3", "4", "5", "6", "7", "8", "9">>

\* The control characters without a short escape, and their code in \u00xx.
Controls == [c \in {"^A", "^["} |-> IF c = "^A" THEN "0001" ELSE "001b"]

\* Slip: the newline is copied like any other character.
EscapedButNewline(c) ==
  CASE c \in {Quote, Backslash} -> <<Backslash, c>>
    [] c = "\t" -> <<Backslash, "t">>
    [] c = "\r" -> <<Backslash, "r">>
    [] c \in DOMAIN Controls -> <<Backslash, "u", Controls[c]>>
    [] OTHER -> <<c>>

Escaped(c) ==
  CASE c \in {Quote, Backslash} -> <<Backslash, c>>
    [] c = Newline -> <<Backslash, "n">>
    [] c = "\t" -> <<Backslash, "t">>
    [] c = "\r" -> <<Backslash, "r">>
    [] c \in DOMAIN Controls -> <<Backslash, "u", Controls[c]>>
    [] OTHER -> <<c>>

Quoted(symbols) == <<Quote>> \o symbols \o <<Quote>>
StringValue(text) == Quoted(FlattenSeq([i \in DOMAIN text |-> Escaped(text[i])]))
Numeral(n) == <<Numerals[n + 1]>>

\* A field is its name and its value; fields that are not set are left out.
Field(name, value) == <<Quoted(<<name>>) \o <<":">> \o value>>
StringField(name, text) == IF text = <<>> THEN <<>> ELSE Field(name, StringValue(text))
IntField(name, n) == IF n < 0 THEN <<>> ELSE Field(name, Numeral(n))

Object(fields) ==
  <<"{">> \o FlattenSeq([i \in DOMAIN fields |-> IF i = 1 THEN fields[i] ELSE <<",">> \o fields[i]])
          \o <<"}">>

OperationField(name, op) ==
  Field(name, Object(Field("kind", Quoted(<<op.kind>>)) \o Field("pos", Numeral(op.pos))
    \o (IF op.kind = "insert" THEN Field("char", StringValue(op.char)) ELSE <<>>)
    \o StringField("reason", op.reason)))

Encode(m) ==
  Object(StringField("type", <<m.type>>)
    \o StringField("client_id", m.client_id)
    \o StringField("op_id", m.op_id)
    \o IntField("base_version", m.base_version)
    \o IntField("server_version", m.server_version)
    \o IntField("version", m.version)
    \o IntField("history_start_version", m.history_start_version)
    \o (IF m.op = None THEN <<>> ELSE OperationField("op", m.op[1]))
    \o (IF m.original_op = None THEN <<>> ELSE OperationField("original_op", m.original_op[1]))
    \o StringField("message", m.message)
    \o StringField("reason", m.reason)
    \o (IF m.content = None THEN <<>> ELSE Field("content", StringValue(m.content[1]))))
  \o <<Newline>>

-----------------------------------------------------------------------------
(* Decoding *)

\* find_key: where the value of the first field of that name begins, whatever
\* object the field belongs to.
FindKey(json, key) ==
  LET found == {p \in 1 .. Len(json) - 4 :
                 json[p] = Quote /\ json[p + 1] = key /\ json[p + 2] = Quote /\ json[p + 3] = ":"}
  IN  IF found = {} THEN None ELSE Some(Min(found) + 4)

\* The symbols an escape stands for, and how many symbols follow the backslash.
Unescaped(json, i) ==
  CASE json[i] \in {Quote, Backslash, "/"} -> Some([char |-> json[i], width |-> 1])
    [] json[i] = "n" -> Some([char |-> Newline, width |-> 1])
    [] json[i] = "r" -> Some([char |-> "\r", width |-> 1])
    [] json[i] = "t" -> Some([char |-> "\t", width |-> 1])
    [] json[i] = "u" /\ i < Len(json) /\ \E c \in DOMAIN Controls : Controls[c] = json[i + 1] ->
         Some([char |-> CHOOSE c \in DOMAIN Controls : Controls[c] = json[i + 1], width |-> 2])
    [] OTHER -> None

\* parse_json_string_alloc, from inside the string on: the text up to the
\* closing quote.
ParseFrom(json, start) ==
  LET text[i \in Nat \ {0}] ==
        IF i > Len(json) THEN None
        ELSE IF json[i] = Quote THEN Some(<<>>)
        ELSE LET symbol == IF json[i] # Backslash THEN Some([char |-> json[i], width |-> 0])
                           ELSE IF i = Len(json) THEN None ELSE Unescaped(json, i + 1)
                 rest == text[i + 1 + symbol[1].width]
             IN  IF symbol = None \/ rest = None THEN None ELSE Some(<<symbol[1].char>> \o rest[1])
  IN  text[start]

GetString(json, key) ==
  LET at == FindKey(json, key)
  IN  IF at = None \/ json[at[1]] # Quote THEN None ELSE ParseFrom(json, at[1] + 1)

GetInt(json, key) ==
  LET at == FindKey(json, key)
  IN  IF at = None \/ ~ Contains(Numerals, json[at[1]]) THEN None
      ELSE Some((CHOOSE n \in DOMAIN Numerals : Numerals[n] = json[at[1]]) - 1)

\* Slip: braces inside strings count.
EndOfObjectBlind(json, start) ==
  LET end[i \in Nat, depth \in Nat] ==
        IF i > Len(json) THEN None
        ELSE CASE json[i] = "{" -> end[i + 1, depth + 1]
               [] json[i] = "}" -> IF depth = 1 THEN Some(i) ELSE end[i + 1, depth - 1]
               [] OTHER -> end[i + 1, depth]
  IN  end[start, 0]

\* The brace that closes the object that starts there; those inside strings do
\* not count, nor does a quote after a backslash end a string.
EndOfObject(json, start) ==
  LET end[p \in [at : Nat, depth : Int, mode : {"outside", "string", "escape"}]] ==
        LET symbol == json[p.at]
            Go(depth, mode) == end[[at |-> p.at + 1, depth |-> depth, mode |-> mode]]
        IN  IF p.at > Len(json) THEN None
            ELSE CASE p.mode = "escape" -> Go(p.depth, "string")
                   [] p.mode = "string" /\ symbol = Backslash -> Go(p.depth, "escape")
                   [] p.mode = "string" /\ symbol = Quote -> Go(p.depth, "outside")
                   [] p.mode = "outside" /\ symbol = Quote -> Go(p.depth, "string")
                   [] p.mode = "outside" /\ symbol = "{" -> Go(p.depth + 1, "outside")
                   [] p.mode = "outside" /\ symbol = "}" ->
                        IF p.depth = 1 THEN Some(p.at) ELSE Go(p.depth - 1, "outside")
                   [] OTHER -> Go(p.depth, p.mode)
  IN  end[[at |-> start, depth |-> 0, mode |-> "outside"]]

GetObject(json, key) ==
  LET at == FindKey(json, key)
      end == EndOfObject(json, at[1])
  IN  IF at = None \/ json[at[1]] # "{" \/ end = None THEN None
      ELSE Some(SubSeq(json, at[1], end[1]))

\* parse_operation_object: the kind is known, an insertion has one character.
ParseOperation(json) ==
  LET kind == GetString(json, "kind")
      char == GetString(json, "char")
  IN  IF \/ kind = None \/ Len(kind[1]) # 1 \/ kind[1][1] \notin Kinds
         \/ kind[1][1] = "insert" /\ (char = None \/ Len(char[1]) # 1)
      THEN None
      ELSE Some(Op(kind[1][1], Default(GetInt(json, "pos"), 0),
                   IF kind[1][1] = "insert" THEN char[1] ELSE <<>>,
                   Default(GetString(json, "reason"), <<>>)))

\* An operation that cannot be parsed makes the whole message fail; an
\* original operation that cannot is left out.
Decode(json) ==
  LET type == GetString(json, "type")
      op == GetObject(json, "op")
      original == GetObject(json, "original_op")
      Text(key) == Default(GetString(json, key), <<>>)
      Number(key) == Default(GetInt(json, key), -1)
  IN  IF \/ json = <<>> \/ json[1] # "{" \/ type = None \/ Len(type[1]) # 1
         \/ op # None /\ ParseOperation(op[1]) = None
      THEN None
      ELSE Some([type |-> type[1][1],
                 client_id |-> Text("client_id"), op_id |-> Text("op_id"),
                 message |-> Text("message"), reason |-> Text("reason"),
                 base_version |-> Number("base_version"),
                 server_version |-> Number("server_version"),
                 version |-> Number("version"),
                 history_start_version |-> Number("history_start_version"),
                 content |-> GetString(json, "content"),
                 op |-> IF op = None THEN None ELSE ParseOperation(op[1]),
                 original_op |-> IF original = None THEN None ELSE ParseOperation(original[1])])
===============================================================================
