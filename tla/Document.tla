------------------------------- MODULE Document -------------------------------
(***************************************************************************)
(* The server's authoritative document (document.c): a text, its version   *)
(* and the window of the most recent operations, against which an edit     *)
(* made on an older version is transformed.  ts_document_process_operation *)
(* runs under the document's mutex, so each call is one step.              *)
(*                                                                         *)
(* log, past and refused are history variables: what the document has      *)
(* done, which the code forgets as its window slides.                      *)
(***************************************************************************)
EXTENDS Operations

CONSTANTS OpIds,         \* op_id of the edits clients submit
          HistoryLimit,  \* --history: how many operations the window holds
          InitialText,   \* the text of the file the server was started on
          Positions      \* the positions a client may name

\* --history 0 selects the default of 1000, so the window is never empty.
ASSUME HistoryLimitAssumption == HistoryLimit \in Nat \ {0}

Char == OpIds \cup Range(InitialText)
ASSUME InitialTextAssumption == InitialText \in Seq(Char)
ASSUME PositionsAssumption == Positions \subseteq Nat

\* A character stands for its own identity: no two characters of the initial
\* text are the same, and none of them is one a client inserts.
ASSUME IdentityAssumption ==
  /\ \A i, j \in DOMAIN InitialText : InitialText[i] = InitialText[j] => i = j
  /\ Range(InitialText) \cap OpIds = {}

VARIABLES text,          \* TsDocument.text
          version,       \* TsDocument.version
          historyStart,  \* TsDocument.history_start_version
          history,       \* TsDocument.history, its first history_count entries
          log,           \* every entry ever appended to history
          past,          \* past[v + 1] is the text at version v
          refused        \* op_id of the edits answered with RESYNC_REQUIRED

vars == <<text, version, historyStart, history, log, past, refused>>

Entry ==
  [version : Nat, id : OpIds, base : Nat, original : Operation(Char), op : Operation(Char)]

TypeOK ==
  /\ text \in Seq(Char)
  /\ version \in Nat
  /\ historyStart \in Nat
  /\ history \in Seq(Entry)
  /\ log \in Seq(Entry)
  /\ past \in Seq(Seq(Char))
  /\ refused \subseteq OpIds

Init ==
  /\ text = InitialText
  /\ version = 0
  /\ historyStart = 0
  /\ history = <<>>
  /\ log = <<>>
  /\ past = <<InitialText>>
  /\ refused = {}

-----------------------------------------------------------------------------

\* The operation carried over every entry of the window newer than `base'.
Transformed(op, base) ==
  LET done[i \in 0 .. Len(history)] ==
        IF i = 0 THEN op
        ELSE IF history[i].version > base THEN TransformAgainst(done[i - 1], history[i].op)
        ELSE done[i - 1]
  IN  done[Len(history)]

\* Slip: the window grows to one entry more than its limit.
AppendBeyondLimit(entry) ==
  /\ history' = Append(IF Len(history) > HistoryLimit THEN Tail(history) ELSE history, entry)
  /\ historyStart' = Head(history').version - 1

\* The window slides: at its limit the oldest entry goes.
AppendHistory(entry) ==
  /\ history' = Append(IF Len(history) = HistoryLimit THEN Tail(history) ELSE history, entry)
  /\ historyStart' = Head(history').version - 1

InWindow(base) == base >= historyStart /\ base <= version

\* An edit based on a version the window covers is transformed, applied and
\* recorded, and takes the next version even when nothing is left to do.
Accept(id, base, op) ==
  LET done == NormalizeForApply(text, Transformed(op, base))
      entry == [version |-> version + 1, id |-> id, base |-> base, original |-> op, op |-> done]
  IN  /\ InWindow(base)
      /\ version' = version + 1
      /\ text' = ApplyOperation(text, done)
      /\ AppendHistory(entry)
      /\ log' = Append(log, entry)
      /\ past' = Append(past, text')
      /\ UNCHANGED refused

\* Any other edit is answered with RESYNC_REQUIRED and the whole document.
Refuse(id, base) ==
  /\ ~InWindow(base)
  /\ refused' = refused \cup {id}
  /\ UNCHANGED <<text, version, historyStart, history, log, past>>

ProcessOperation(id, base, op) == Accept(id, base, op) \/ Refuse(id, base)

\* The clients: every edit has an op_id of its own and inserts a character of
\* its own; its position need not lie inside any text.  A base of -1 is a
\* message without base_version; one above the version claims the future.
Answered == refused \cup {log[i].id : i \in DOMAIN log}

Submission(id) == {InsertOp(p, id) : p \in Positions} \cup {DeleteOp(p) : p \in Positions}

Next ==
  \E id \in OpIds \ Answered, base \in -1 .. version + 1 :
    \E op \in Submission(id) : ProcessOperation(id, base, op)

Spec == Init /\ [][Next]_vars

-----------------------------------------------------------------------------
(* Properties *)

\* The window is exactly the end of the log, never longer than its limit, and
\* starts at history_start_version: a base the guard lets through is followed
\* by all the operations accepted since (append_history).
HistoryWindow ==
  /\ version = Len(log)
  /\ Len(history) <= HistoryLimit
  /\ historyStart + Len(history) = version
  /\ history = SubSeq(log, historyStart + 1, version)
  /\ \A v \in 1 .. version : log[v].version = v

\* What is broadcast is what was done: replaying the recorded operations from
\* any version a client may hold gives the server's later texts, and none of
\* them falls outside its text, where it would shift later edits wrongly
\* (normalize_for_apply before the entry is recorded).
ReplayableHistory ==
  /\ Len(past) = version + 1
  /\ past[version + 1] = text
  /\ \A v \in 1 .. version :
       /\ InRange(past[v], log[v].op)
       /\ past[v + 1] = ApplyOperation(past[v], log[v].op)

\* Transformation keeps intentions: the document implements SharedText, in
\* which an edit acts on the characters its author saw (ts_transform_against).
Promise == INSTANCE SharedText WITH
  Ids <- OpIds,
  edits <- [v \in DOMAIN log |-> [id |-> log[v].id, base |-> log[v].base,
                                  kind |-> log[v].original.kind, pos |-> log[v].original.pos]]

KeepsIntentions == Promise!Spec
===============================================================================
