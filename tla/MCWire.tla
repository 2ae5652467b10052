-------------------------------- MODULE MCWire --------------------------------
(***************************************************************************)
(* Messages of every type the program sends, with texts that look like     *)
(* parts of a line.                                                        *)
(***************************************************************************)
EXTENDS Wire

Insert(c) == Op("insert", 1, <<c>>, <<>>)
Delete == Op("delete", 0, <<>>, <<>>)
Noop == Op("noop", 0, <<>>, <<"deleted">>)

OpMessage(op) ==
  [Message("OP") EXCEPT !.client_id = <<"u1">>, !.op_id = <<"u1-1">>, !.base_version = 2, !.op = Some(op)]
Ack(op, original) ==
  [Message("ACK") EXCEPT !.op_id = <<"u1-1">>, !.base_version = 2, !.server_version = 3,
                         !.op = Some(op), !.original_op = Some(original)]
RemoteOp(op) ==
  [Message("REMOTE_OP") EXCEPT !.client_id = <<"u1">>, !.version = 3, !.op = Some(op)]
DocState(text) ==
  [Message("DOC_STATE") EXCEPT !.version = 3, !.history_start_version = 0, !.content = Some(text)]

\* A text with a key, a value, every escape and an unbalanced brace in it.
Nasty == <<Quote, "op", Quote, ":", "{", Newline, Backslash, "n", "\t", "\r", "^A", "^[", "}", Quote>>

ShortMessages ==
  {[Message("JOIN") EXCEPT !.client_id = <<"u1">>],
   [Message("WELCOME") EXCEPT !.client_id = <<"u1">>],
   Message("REQUEST_DOC"),
   Message("SAVE"),
   [Message("ERROR") EXCEPT !.message = <<"reason", Quote, ":">>, !.reason = <<"{">>],
   [Message("RESYNC_REQUIRED") EXCEPT !.op_id = <<"u1-1">>, !.server_version = 3, !.reason = <<"too", "old">>]}
  \cup {OpMessage(Insert(c)) : c \in {"x", Newline, Quote, Backslash, "}"}}
  \cup {Ack(Insert("{"), Insert("{")), Ack(Noop, Delete)}
  \cup {RemoteOp(op) : op \in {Insert("^A"), Delete, Noop}}
  \cup {DocState(text) : text \in {<<>>, <<"type">>, Nasty}}

\* Every short message fits, the longest exactly; a document one symbol longer
\* does not.
MCLineLimit == Max({Len(Encode(m)) : m \in ShortMessages})
LongText == [i \in 1 .. MCLineLimit + 1 - Len(Encode(DocState(<<>>))) |-> "x"]

Messages == ShortMessages \cup {DocState(LongText)}

\* A client's own thread sends it anything (a), other threads only operations
\* of others (b).
MCMaySend == [w \in Writers |-> IF w = "a" THEN Messages ELSE {m \in Messages : m.type = "REMOTE_OP"}]
===============================================================================
