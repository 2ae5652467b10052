------------------------------- MODULE Terminal -------------------------------
(***************************************************************************)
(* The terminal (client.c): a cursor, the keys that move it and that edit  *)
(* at it, and the client's text as the bytes it is kept in.                *)
(*                                                                         *)
(* Session lets a client type anywhere within its reach.  Here a key edits *)
(* at the cursor, which is held inside the text expected once all that is  *)
(* pending has been applied, and only when a message has been handled or   *)
(* the key for right is pressed.                                           *)
(***************************************************************************)
EXTENDS Session

CONSTANT Utf8Of  \* the bytes of each character

VARIABLES cursor,  \* cursor_pos of each client
          bytes    \* the content of each client

terminalVars == <<sessionVars, cursor, bytes>>

U == INSTANCE Utf8

\* What UTF-8 is, whatever the code makes of it: one to four bytes, the first
\* of which shows how many there are.
ASSUME Utf8Assumption ==
  \A char \in Char :
    /\ Utf8Of[char] \in Seq(1 .. 255)
    /\ \/ Len(Utf8Of[char]) = 1 /\ Utf8Of[char][1] \in 1 .. 127
       \/ Len(Utf8Of[char]) = 2 /\ Utf8Of[char][1] \in 192 .. 223
       \/ Len(Utf8Of[char]) = 3 /\ Utf8Of[char][1] \in 224 .. 239
       \/ Len(Utf8Of[char]) = 4 /\ Utf8Of[char][1] \in 240 .. 247
    /\ \A i \in 2 .. Len(Utf8Of[char]) : Utf8Of[char][i] \in 128 .. 191

BytesOf(chars) == FlattenSeq([i \in DOMAIN chars |-> Utf8Of[chars[i]]])

TerminalInit ==
  /\ SessionInit
  /\ cursor = [c \in Clients |-> 0]
  /\ bytes = [c \in Clients |-> BytesOf(client[c].content)]

-----------------------------------------------------------------------------
(* The cursor *)

\* Slip: the operation in flight is not counted.
ProjectedLengthOfQueue(content, pending) ==
  LET length[n \in 0 .. Len(pending)] ==
        IF n <= 1 THEN U!CharCount(content) ELSE length[n - 1] + Delta(pending[n].op)
      total == length[Len(pending)]
  IN  IF total < 0 THEN 0 ELSE total

\* projected_content_length
ProjectedLength(content, pending) ==
  LET length[n \in 0 .. Len(pending)] ==
        IF n = 0 THEN U!CharCount(content) ELSE length[n - 1] + Delta(pending[n].op)
      total == length[Len(pending)]
  IN  IF total < 0 THEN 0 ELSE total

\* Slip: the cursor stays where it is.
ClampCursorNot(c) == cursor' = cursor

\* clamp_cursor_to_projected_content, after a message
ClampCursor(c) ==
  LET length == ProjectedLength(bytes'[c], Pending(client'[c]))
  IN  cursor' = [cursor EXCEPT ![c] = IF @ > length THEN length ELSE @]

-----------------------------------------------------------------------------
(* Keys *)

Queue(c, op) ==
  /\ client' = [client EXCEPT ![c] = QueueOperation(@, <<c, client[c].nextOp>>, op)]
  /\ UNCHANGED <<document, running, thread, toClient, members, broadcast, bytes>>

MayType(c) == c \in running /\ <<c, client[c].nextOp>> \in OpIds

\* queue_insert: the cursor moves past the character at once.
Insert(c) ==
  /\ MayType(c)
  /\ Queue(c, InsertOp(cursor[c], <<c, client[c].nextOp>>))
  /\ cursor' = [cursor EXCEPT ![c] = @ + 1]

\* Slip: deletes before the first character too.
BackspaceAnywhere(c) ==
  /\ MayType(c)
  /\ Queue(c, DeleteOp(cursor[c] - 1))
  /\ cursor' = [cursor EXCEPT ![c] = @ - 1]

\* delete_before_cursor
Backspace(c) ==
  /\ MayType(c)
  /\ cursor[c] # 0
  /\ Queue(c, DeleteOp(cursor[c] - 1))
  /\ cursor' = [cursor EXCEPT ![c] = @ - 1]

Move(c) ==
  /\ c \in running
  /\ \/ cursor[c] > 0 /\ cursor' = [cursor EXCEPT ![c] = @ - 1]
     \/ /\ cursor[c] < ProjectedLength(bytes[c], Pending(client[c]))
        /\ cursor' = [cursor EXCEPT ![c] = @ + 1]
  /\ UNCHANGED <<sessionVars, bytes>>

-----------------------------------------------------------------------------
(* Messages *)

\* The content after a message; an operation's character is written in UTF-8.
BytesAfter(c, message) ==
  LET s == client[c]
      Applied(op) == U!ApplyToBytes(bytes[c],
        IF op.kind = "insert" THEN [op EXCEPT !.ch = Utf8Of[op.ch]] ELSE op)
  IN  CASE message.type = "DOC_STATE" -> BytesOf(message.text)
        [] message.type = "ACK" /\ s.inflight # <<>> /\ s.inflight[1].id = message.id -> Applied(message.op)
        [] message.type = "REMOTE_OP" /\ message.version = s.version + 1 -> Applied(message.op)
        [] OTHER -> bytes[c]

\* drain_messages handles a message and then looks at the cursor.
Drain(c) ==
  /\ Handle(c)
  /\ bytes' = [bytes EXCEPT ![c] = BytesAfter(c, Head(toClient[c]))]
  /\ ClampCursor(c)

TerminalNext ==
  \E c \in Clients :
    \/ Insert(c) \/ Backspace(c) \/ Move(c) \/ Drain(c)
    \/ (Quit(c) \/ ServerStep(c)) /\ UNCHANGED <<cursor, bytes>>

TerminalSpec == TerminalInit /\ [][TerminalNext]_terminalVars

-----------------------------------------------------------------------------
(* Properties *)

TerminalTypeOK == cursor \in [Clients -> Nat] /\ bytes \in [Clients -> Seq(0 .. 255)]

\* Whatever is typed at the cursor could be typed in Session: no message and no
\* key leaves the cursor farther than what the client has and has typed
\* (clamp_cursor_to_projected_content).
ImplementsSession == SessionSpec

\* The bytes are the UTF-8 of the characters: no operation cuts a character in
\* two or counts bytes for characters (ts_utf8_byte_offset).
BytesAreTheText == \A c \in Clients : bytes[c] = BytesOf(client[c].content)

\* c handles an ACK in this step.
HandlesAck(c) == Len(toClient'[c]) < Len(toClient[c]) /\ Head(toClient[c]).type = "ACK"

\* More deletions are pending than the text has characters, since others
\* deleted them too, and the length the client expects is taken for 0.
Overdrawn(c) == Reach(client[c]) > ProjectedLength(bytes[c], Pending(client[c]))

\* An ACK of what a client typed does not move its cursor, so what is typed
\* next goes where the user sees it (projected_content_length): handling an ACK
\* takes from what is pending what it adds to the text.  The one exception is a
\* deletion too many in what is pending.  Of the other answers nothing is said:
\* RESYNC_REQUIRED drops an insertion in flight, and the cursor may follow.
AnAckMovesNoCursor ==
  [][\A c \in running : HandlesAck(c) /\ ~ Overdrawn(c) => cursor'[c] = cursor[c]]_terminalVars
===============================================================================
