--------------------------------- MODULE Wire ---------------------------------
(***************************************************************************)
(* One direction of a connection (protocol.c, ts_write_all_fd of util.c):  *)
(* several threads of the server send to one client, each message as one   *)
(* line, and the client's reader thread cuts what it reads into lines.     *)
(*                                                                         *)
(* A write may take any part of a line and a read may find any part of     *)
(* what was written.  The sender's process may end in the middle of a      *)
(* line.  The receiver's buffer holds LineLimit symbols.                   *)
(***************************************************************************)
EXTENDS Codec

CONSTANTS Writers, NoWriter,
          MaySend,    \* MaySend[w] is what w may send
          LineLimit,  \* TS_MAX_LINE_BYTES
          MaxSends,   \* bounds the messages each writer sends
          MaxCuts     \* bounds the writes that take a part of a line only

ASSUME WireAssumption ==
  /\ IsFiniteSet(Writers) /\ NoWriter \notin Writers
  /\ DOMAIN MaySend = Writers
  /\ \A w \in Writers : \A m \in MaySend[w] : IsMessage(m)
  /\ {LineLimit, MaxSends} \subseteq Nat \ {0}
  /\ MaxCuts \in Nat

VARIABLES lock,      \* the holder of send_lock
          left,      \* left[w]: what w has yet to write of its line
          stream,    \* written and not read
          ended,     \* the sender's end is closed
          buffer,    \* the receiver's buffer: read and not decoded
          received,  \* the messages the receiver was given
          status,    \* the receiver: reading, or it met an end or an error
          sent,      \* history: the messages, in the order their lines were begun
          written,   \* history: how many of these lines were written to their end
          sends,     \* how many messages each writer has begun
          cuts       \* how many writes have taken a part only

vars == <<lock, left, stream, ended, buffer, received, status, sent, written, sends, cuts>>

Init ==
  /\ lock = NoWriter
  /\ left = [w \in Writers |-> <<>>]
  /\ stream = <<>>
  /\ ended = FALSE
  /\ buffer = <<>>
  /\ received = <<>>
  /\ status = "reading"
  /\ sent = <<>>
  /\ written = 0
  /\ sends = [w \in Writers |-> 0]
  /\ cuts = 0

-----------------------------------------------------------------------------
(* Sending *)

Lines == UNION {{[by |-> w, message |-> m, line |-> Encode(m)] : m \in MaySend[w]} : w \in Writers}

\* Slip: the line is written without the lock.
BeginUnlocked(w) ==
  /\ left[w] = <<>>
  /\ ~ ended
  /\ sends[w] < MaxSends
  /\ \E l \in Lines :
       /\ l.by = w
       /\ left' = [left EXCEPT ![w] = l.line]
       /\ sent' = Append(sent, l.message)
  /\ sends' = [sends EXCEPT ![w] = @ + 1]
  /\ UNCHANGED <<lock, stream, ended, buffer, received, status, written, cuts>>

\* ts_transport_send, up to its first write.
Begin(w) ==
  /\ lock = NoWriter
  /\ ~ ended
  /\ sends[w] < MaxSends
  /\ lock' = w
  /\ \E l \in Lines :
       /\ l.by = w
       /\ left' = [left EXCEPT ![w] = l.line]
       /\ sent' = Append(sent, l.message)
  /\ sends' = [sends EXCEPT ![w] = @ + 1]
  /\ UNCHANGED <<stream, ended, buffer, received, status, written, cuts>>

\* A write of ts_write_all_fd.  The one that completes the line also leaves
\* the lock.
Write(w) ==
  /\ left[w] # <<>>
  /\ \E n \in 1 .. Len(left[w]) :
       /\ stream' = stream \o SubSeq(left[w], 1, n)
       /\ left' = [left EXCEPT ![w] = SubSeq(@, n + 1, Len(@))]
       /\ IF n = Len(left[w]) THEN lock' = NoWriter /\ written' = written + 1 /\ UNCHANGED cuts
          ELSE cuts < MaxCuts /\ cuts' = cuts + 1 /\ UNCHANGED <<lock, written>>
  /\ UNCHANGED <<ended, buffer, received, status, sent, sends>>

\* The sender's process ends or closes the socket.
End ==
  /\ ~ ended
  /\ ended' = TRUE
  /\ left' = [w \in Writers |-> <<>>]
  /\ lock' = NoWriter
  /\ UNCHANGED <<stream, buffer, received, status, sent, written, sends, cuts>>

-----------------------------------------------------------------------------
(* Receiving: ts_transport_recv, called again after every message *)

HasLine == \E i \in DOMAIN buffer : buffer[i] = Newline
Line == SubSeq(buffer, 1, Min({i \in DOMAIN buffer : buffer[i] = Newline}) - 1)

\* Slip: what follows the line in the buffer is thrown away.
TakeLineAlone ==
  /\ status = "reading"
  /\ HasLine
  /\ LET message == Decode(Line)
     IN  IF message = None THEN status' = "failed" /\ UNCHANGED received
         ELSE received' = Append(received, message[1]) /\ UNCHANGED status
  /\ buffer' = <<>>
  /\ UNCHANGED <<lock, left, stream, ended, sent, written, sends, cuts>>

\* The first line of the buffer is decoded and what follows it kept.
TakeLine ==
  /\ status = "reading"
  /\ HasLine
  /\ LET message == Decode(Line)
     IN  IF message = None THEN status' = "failed" /\ UNCHANGED received
         ELSE received' = Append(received, message[1]) /\ UNCHANGED status
  /\ buffer' = SubSeq(buffer, Len(Line) + 2, Len(buffer))
  /\ UNCHANGED <<lock, left, stream, ended, sent, written, sends, cuts>>

Full == ~ HasLine /\ Len(buffer) >= LineLimit

\* The buffer is full and holds no whole line.
GiveUp ==
  /\ status = "reading"
  /\ Full
  /\ status' = "failed"
  /\ UNCHANGED <<lock, left, stream, ended, buffer, received, sent, written, sends, cuts>>

\* Slip: a read takes what is there, wherever the buffer ends.
ReadAll ==
  /\ status = "reading"
  /\ ~ HasLine /\ ~ Full
  /\ stream # <<>>
  /\ buffer' = buffer \o stream
  /\ stream' = <<>>
  /\ UNCHANGED <<lock, left, ended, received, status, sent, written, sends, cuts>>

\* A read takes what is there, as far as the buffer has room.
Read ==
  LET n == Min({Len(stream), LineLimit - Len(buffer)})
  IN  /\ status = "reading"
      /\ ~ HasLine /\ ~ Full
      /\ stream # <<>>
      /\ buffer' = buffer \o SubSeq(stream, 1, n)
      /\ stream' = SubSeq(stream, n + 1, Len(stream))
      /\ UNCHANGED <<lock, left, ended, received, status, sent, written, sends, cuts>>

\* Slip: the end of the stream is noticed before the lines in the buffer.
MeetEndFirst ==
  /\ status = "reading"
  /\ stream = <<>> /\ ended
  /\ status' = "closed"
  /\ UNCHANGED <<lock, left, stream, ended, buffer, received, sent, written, sends, cuts>>

\* A read finds the end: what is left in the buffer is no line.
MeetEnd ==
  /\ status = "reading"
  /\ ~ HasLine /\ ~ Full
  /\ stream = <<>> /\ ended
  /\ status' = "closed"
  /\ UNCHANGED <<lock, left, stream, ended, buffer, received, sent, written, sends, cuts>>

-----------------------------------------------------------------------------

Next ==
  \/ \E w \in Writers : Begin(w) \/ Write(w)
  \/ End
  \/ TakeLine \/ GiveUp \/ Read \/ MeetEnd

Spec == Init /\ [][Next]_vars

\* The reader has something to do: one of its actions is enabled.
ReaderReady == status = "reading" /\ (HasLine \/ Full \/ stream # <<>> \/ ended)

\* A write to a socket that is read makes progress, and the reader reads: it is
\* weakly fair, written without ENABLED, which costs TLC too much here.
Fairness ==
  /\ \A w \in Writers : WF_vars(Write(w))
  /\ []<>(~ ReaderReady) \/ []<><<TRUE>>_<<buffer, status>>

FairSpec == Spec /\ Fairness

-----------------------------------------------------------------------------
(* Properties *)

TypeOK ==
  /\ lock \in Writers \cup {NoWriter}
  /\ DOMAIN left = Writers
  /\ \A w \in Writers : left[w] # <<>> => Last(left[w]) = Newline
  /\ ended \in BOOLEAN
  /\ Len(buffer) <= LineLimit
  /\ sends \in [Writers -> 0 .. MaxSends]
  /\ Len(sent) <= Cardinality(Writers) * MaxSends
  /\ written \in 0 .. Len(sent)
  /\ status \in {"reading", "closed", "failed"}
  /\ cuts \in 0 .. MaxCuts

\* A message arrives as it was sent, but for one field: reason is looked up in
\* the whole line, so the reason of a noop inside it is taken for its own.
AsReceived(m) ==
  LET reasons == <<IF m.op = None THEN <<>> ELSE m.op[1].reason,
                   IF m.original_op = None THEN <<>> ELSE m.original_op[1].reason,
                   m.reason>>
      given == {i \in 1 .. 3 : reasons[i] # <<>>}
  IN  [m EXCEPT !.reason = IF given = {} THEN <<>> ELSE reasons[Min(given)]]

ComesBack(m) ==
  LET line == Encode(m) IN Decode(SubSeq(line, 1, Len(line) - 1)) = Some(AsReceived(m))

\* Decoding its line gives back a message that was sent, whatever its texts hold
\* (json_escape and parse_json_string_alloc, find_key, json_get_object).
MessagesComeBack == \A i \in DOMAIN sent : ComesBack(sent[i])

Arriving == {AsReceived(m) : m \in UNION {MaySend[w] : w \in Writers}}

FIFO == INSTANCE Channel WITH
  sent <- [i \in DOMAIN sent |-> AsReceived(sent[i])],
  Received <- Arriving

\* The lines of several threads never mix, and escaping, splitting into lines
\* and parsing give back every message whatever its texts hold
\* (ts_transport_send, ts_transport_recv, json_escape, find_key).
ImplementsChannel == FIFO!Spec

\* The reader gives up a connection on one ground only: the next message's
\* line does not fit the buffer (protocol.c 542).
OnlyLongLinesFail ==
  status = "failed" =>
    /\ Len(received) < Len(sent)
    /\ Len(Encode(sent[Len(received) + 1])) > LineLimit

\* Whatever was written as a whole line is received before the end of the
\* stream is noticed: only a line the sender did not finish is lost
\* (ts_transport_recv looks for a line in its buffer before it reads on).
WholeLinesArrive == status = "closed" => Len(received) = written

\* Every line that was written to its end is received, and every line that was
\* begun is written to its end unless the sender ends first; or the next line
\* is too long for the receiver (ts_transport_recv, ts_write_all_fd).
EverythingArrives ==
  <>[](\/ Len(received) = written /\ (ended \/ written = Len(sent))
       \/ status = "failed" /\ Len(Encode(sent[Len(received) + 1])) > LineLimit)
===============================================================================
