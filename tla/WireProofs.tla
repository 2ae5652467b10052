------------------------------- MODULE WireProofs -----------------------------
(* For any number of threads that send, any messages, any limit and any       *)
(* division of the writes: lines do not mix, and the receiver is given the    *)
(* messages in the order they were sent, each of them once (ts_transport_send *)
(* and ts_transport_recv).                                                    *)
EXTENDS Wire, CodecProofs, FiniteSetTheorems

Sendable == UNION {MaySend[w] : w \in Writers}

\* The least of the reasons that are given (find_key takes the first one).
LEMMA LeastIs ==
  ASSUME NEW S \in SUBSET Nat, NEW n \in S, \A y \in S : n <= y
  PROVE  Min(S) = n
<1> DEFINE m == Min(S)
<1>1. \E x \in S : \A y \in S : x =< y
  OBVIOUS
<1>2. m \in S /\ \A y \in S : m =< y
  BY <1>1 DEF Min
<1> HIDE DEF m
<1>3. m \in Nat /\ n \in Nat /\ m <= n /\ n <= m
  BY <1>2
<1>4. m = n
  BY <1>3
<1> QED
  BY <1>4 DEF m

\* A message is what its fields are (TsMessage).
LEMMA MessageFieldNames ==
  ASSUME NEW m \in TsMessage
  PROVE  DOMAIN m = {"type", "client_id", "op_id", "message", "reason", "base_version", "server_version",
                     "version", "history_start_version", "op", "original_op", "content"}
BY DEF TsMessage

\* A message arrives as the decoder reads it: with its own reason only when no
\* operation in it has one (find_key).
LEMMA ReceivedAsRead ==
  ASSUME NEW m, IsMessage(m)
  PROVE  AsReceived(m) = AsRead(m)
<1> DEFINE reasons == <<ReasonOf(m.op), ReasonOf(m.original_op), m.reason>>
           given == {i \in 1 .. 3 : reasons[i] # <<>>}
           reason == IF given = {} THEN <<>> ELSE reasons[Min(given)]
<1>1. AsReceived(m) = [m EXCEPT !.reason = reason]
  BY DEF AsReceived, ReasonOf
<1>2. reasons[1] = ReasonOf(m.op) /\ reasons[2] = ReasonOf(m.original_op) /\ reasons[3] = m.reason
  OBVIOUS
<1> HIDE DEF reasons
<1>3. reason = ReasonRead(m)
  <2>1. /\ 1 \in given <=> ReasonOf(m.op) # <<>>
        /\ 2 \in given <=> ReasonOf(m.original_op) # <<>>
        /\ 3 \in given <=> m.reason # <<>>
        /\ given \subseteq 1 .. 3
    BY <1>2
  <2> HIDE DEF given
  <2>2. CASE 1 \in given
    <3>1. Min(given) = 1
      <4>1. given \in SUBSET Nat /\ 1 \in given /\ \A y \in given : 1 <= y
        BY <2>1, <2>2
      <4> QED
        BY <4>1, LeastIs
    <3> QED
      BY <1>2, <2>1, <2>2, <3>1 DEF ReasonRead
  <2>3. CASE 1 \notin given /\ 2 \in given
    <3>1. Min(given) = 2
      <4>1. given \in SUBSET Nat /\ 2 \in given /\ \A y \in given : 2 <= y
        BY <2>1, <2>3
      <4> QED
        BY <4>1, LeastIs
    <3> QED
      BY <1>2, <2>1, <2>3, <3>1 DEF ReasonRead
  <2>4. CASE 1 \notin given /\ 2 \notin given /\ 3 \in given
    <3>1. Min(given) = 3
      <4>1. given \in SUBSET Nat /\ 3 \in given /\ \A y \in given : 3 <= y
        BY <2>1, <2>4
      <4> QED
        BY <4>1, LeastIs
    <3> QED
      BY <1>2, <2>1, <2>4, <3>1 DEF ReasonRead
  <2>5. CASE 1 \notin given /\ 2 \notin given /\ 3 \notin given
    <3>1. given = {}
      BY <2>1, <2>5
    <3> QED
      BY <2>1, <2>5, <3>1 DEF ReasonRead
  <2> QED
    BY <2>2, <2>3, <2>4, <2>5
<1> HIDE DEF reason
<1>4. [m EXCEPT !.reason = reason] = AsRead(m)
  <2>1. m \in TsMessage
    BY DEF IsMessage
  <2> QED
    BY <1>3, <2>1, MessageFieldNames DEF AsRead
<1> QED
  BY <1>1, <1>4

\* What the decoder makes of the line of any message that may be sent
\* (ts_encode_message, ts_decode_message).
LEMMA SentComeBack ==
  ASSUME NEW m \in Sendable
  PROVE  ComesBack(m)
<1>1. IsMessage(m)
  BY WireAssumption DEF Sendable
<1> QED
  BY <1>1, ReceivedAsRead, DecodesWhatItEncodes DEF ComesBack

\* The lines of the messages sent.
SentLines == [i \in 1 .. Len(sent) |-> Encode(sent[i])]

\* Everything written and not yet decoded.
Unread == buffer \o stream

Typed ==
  /\ lock \in Writers \cup {NoWriter}
  /\ left \in [Writers -> Seq(Symbol)]
  /\ stream \in Seq(Symbol)
  /\ ended \in BOOLEAN
  /\ buffer \in Seq(Symbol) /\ Len(buffer) <= LineLimit
  /\ received \in Seq(Arriving)
  /\ status \in {"reading", "closed", "failed"}
  /\ sent \in Seq(Sendable)
  /\ sends \in [Writers -> 0 .. MaxSends]
  /\ cuts \in 0 .. MaxCuts

\* n lines L, of which the first r were taken off unread: start[i] is how many
\* symbols were sent before the i-th line, and `missing' how many of the last
\* line were not written (yet).  What is unread is the other lines, one after
\* the other, up to there.
Frames(start, missing, L, n, r, unread) ==
  /\ start \in [Nat -> Nat] /\ missing \in Nat
  /\ \A i \in 1 .. n : start[i + 1] = start[i] + Len(L[i])
  /\ \A i, j \in 1 .. n + 1 : i <= j => start[i] <= start[j]
  /\ Len(unread) + missing = start[n + 1] - start[r + 1]
  /\ missing > 0 => missing <= Len(L[n])
  /\ \A i \in r + 1 .. n : \A p \in 1 .. Len(L[i]) :
       start[i] - start[r + 1] + p <= Len(unread) => unread[start[i] - start[r + 1] + p] = L[i][p]

\* What was written and not decoded is the lines of the messages sent and not
\* received.
Framed(start, missing) ==
  Frames(start, missing, SentLines, Len(sent), Len(received), Unread)

\* Whoever holds send_lock has the rest of the last line to write; nobody else
\* has anything.  The last line is the only one that may not be written to its
\* end.
Writing(missing) ==
  /\ written = IF missing > 0 THEN Len(sent) - 1 ELSE Len(sent)
  /\ \A w \in Writers : w # lock => left[w] = <<>>
  /\ lock = NoWriter /\ ~ ended => missing = 0
  /\ lock # NoWriter =>
       /\ ~ ended /\ missing > 0
       /\ left[lock] = SubSeq(SentLines[Len(sent)], Len(SentLines[Len(sent)]) - missing + 1,
                              Len(SentLines[Len(sent)]))

\* What the receiver was given are the first messages sent, and it stopped for
\* a reason.
Receiving ==
  /\ Len(received) <= Len(sent)
  /\ \A i \in 1 .. Len(received) : received[i] = AsReceived(sent[i])
  /\ status = "closed" => ended /\ stream = <<>> /\ ~ HasLine
  /\ OnlyLongLinesFail

WireInv ==
  /\ Typed /\ Receiving
  /\ \E start, missing : Framed(start, missing) /\ Writing(missing)

-----------------------------------------------------------------------------

\* A part of a sequence.
LEMMA PartOf ==
  ASSUME NEW S, NEW s \in Seq(S), NEW a \in Nat \ {0}, NEW b \in Nat, a <= b + 1, b <= Len(s)
  PROVE  /\ SubSeq(s, a, b) \in Seq(S) /\ Len(SubSeq(s, a, b)) = b - a + 1
         /\ \A p \in 1 .. b - a + 1 : SubSeq(s, a, b)[p] = s[a + p - 1]
<1>0. Len(s) \in Nat /\ \A p \in 1 .. Len(s) : s[p] \in S
  OBVIOUS
<1>1. \A p \in a .. b : s[p] \in S
  BY <1>0
<1>2. /\ SubSeq(s, a, b) \in Seq(S)
      /\ Len(SubSeq(s, a, b)) = IF a <= b THEN b - a + 1 ELSE 0
      /\ \A p \in 1 .. b - a + 1 : SubSeq(s, a, b)[p] = s[a + p - 1]
  BY <1>1, SubSeqProperties
<1>3. (IF a <= b THEN b - a + 1 ELSE 0) = b - a + 1
  OBVIOUS
<1> QED
  BY <1>2, <1>3

\* The lines are those of messages: they end with their only newline.
LEMMA LinesOfMessages ==
  ASSUME Typed, NEW i \in 1 .. Len(sent)
  PROVE  /\ sent[i] \in Sendable
         /\ SentLines[i] \in Seq(Symbol) /\ Len(SentLines[i]) \in Nat \ {0}
         /\ \A p \in 1 .. Len(SentLines[i]) : SentLines[i][p] = Newline <=> p = Len(SentLines[i])
<1>1. sent[i] \in Sendable
  BY DEF Typed
<1>2. IsMessage(sent[i])
  BY <1>1, WireAssumption DEF Sendable
<1> QED
  BY <1>1, <1>2, OneLinePerMessage DEF SentLines

\* What is unread has the length of its two parts, the buffer first.
LEMMA UnreadParts ==
  ASSUME Typed
  PROVE  /\ Unread \in Seq(Symbol) /\ Len(buffer) \in Nat /\ Len(stream) \in Nat
         /\ Len(Unread) = Len(buffer) + Len(stream)
         /\ Len(sent) \in Nat /\ Len(received) \in Nat
         /\ \A p \in 1 .. Len(buffer) : Unread[p] = buffer[p]
         /\ \A p \in 1 .. Len(stream) : Unread[Len(buffer) + p] = stream[p]
<1>1. /\ buffer \in Seq(Symbol) /\ stream \in Seq(Symbol)
      /\ sent \in Seq(Sendable) /\ received \in Seq(Arriving)
  BY DEF Typed
<1>2. /\ Unread \in Seq(Symbol) /\ Len(Unread) = Len(buffer) + Len(stream)
      /\ \A i \in 1 .. Len(buffer) + Len(stream) :
           Unread[i] = IF i <= Len(buffer) THEN buffer[i] ELSE stream[i - Len(buffer)]
  BY <1>1, ConcatProperties DEF Unread
<1>3. Len(buffer) \in Nat /\ Len(stream) \in Nat /\ Len(sent) \in Nat /\ Len(received) \in Nat
  BY <1>1
<1>4. \A p \in 1 .. Len(stream) : Unread[Len(buffer) + p] = stream[p]
  <2> TAKE p \in 1 .. Len(stream)
  <2>1. Len(buffer) + p \in 1 .. Len(buffer) + Len(stream) /\ ~ Len(buffer) + p <= Len(buffer)
    BY <1>3
  <2>2. Len(buffer) + p - Len(buffer) = p
    BY <1>3
  <2> QED
    BY <1>2, <2>1, <2>2
<1> QED
  BY <1>2, <1>3, <1>4

\* The buffer begins with the line of the next message: a newline in it is
\* that line's end.
LEMMA NextLine ==
  ASSUME Typed, Receiving, NEW start, NEW missing, Framed(start, missing),
         Len(received) < Len(sent)
  PROVE  LET line == SentLines[Len(received) + 1]
         IN  \A p \in 1 .. Len(buffer) : p <= Len(line) =>
               buffer[p] = line[p] /\ (buffer[p] = Newline <=> p = Len(line))
<1> DEFINE r == Len(received) + 1
           line == SentLines[r]
<1>0. /\ Len(received) \in Nat /\ Len(sent) \in Nat /\ Len(buffer) \in Nat /\ Len(stream) \in Nat
      /\ Len(Unread) = Len(buffer) + Len(stream)
      /\ \A p \in 1 .. Len(buffer) : Unread[p] = buffer[p]
  BY UnreadParts
<1>1. r \in 1 .. Len(sent) /\ r \in Len(received) + 1 .. Len(sent) /\ start[r] \in Nat
  <2>1. start \in [Nat -> Nat]
    BY DEF Framed, Frames
  <2>2. r \in 1 .. Len(sent) /\ r \in Len(received) + 1 .. Len(sent) /\ r \in Nat
    BY <1>0
  <2> HIDE DEF r
  <2> QED
    BY <2>1, <2>2
<1>2. Len(line) \in Nat \ {0} /\ \A p \in 1 .. Len(line) : line[p] = Newline <=> p = Len(line)
  BY <1>1, LinesOfMessages
<1>3. \A p \in 1 .. Len(line) : start[r] - start[r] + p <= Len(Unread) => Unread[start[r] - start[r] + p] = line[p]
  BY <1>1 DEF Framed, Frames
<1> SUFFICES ASSUME NEW p \in 1 .. Len(buffer), p <= Len(line)
             PROVE  buffer[p] = line[p] /\ (buffer[p] = Newline <=> p = Len(line))
  OBVIOUS
<1> HIDE DEF line, r
<1>4. start[r] - start[r] + p = p /\ p <= Len(Unread) /\ p \in 1 .. Len(line)
  BY <1>0, <1>1, <1>2
<1>5. Unread[p] = line[p] /\ Unread[p] = buffer[p]
  BY <1>0, <1>3, <1>4
<1> QED
  BY <1>2, <1>4, <1>5

\* Once every message is received nothing is left to decode.
LEMMA NothingLeft ==
  ASSUME Typed, Receiving, NEW start, NEW missing, Framed(start, missing),
         Len(received) = Len(sent)
  PROVE  Len(buffer) = 0 /\ Len(stream) = 0
<1>1. /\ start \in [Nat -> Nat] /\ missing \in Nat
      /\ Len(Unread) + missing = start[Len(sent) + 1] - start[Len(received) + 1]
  BY DEF Framed, Frames
<1>2. /\ Len(sent) \in Nat /\ Len(buffer) \in Nat /\ Len(stream) \in Nat
      /\ Len(Unread) = Len(buffer) + Len(stream)
  BY UnreadParts
<1>3. start[Len(sent) + 1] \in Nat
  BY <1>1, <1>2
<1>4. Len(Unread) + missing = 0
  BY <1>1, <1>3
<1> QED
  BY <1>1, <1>2, <1>4

\* The first line that ts_transport_recv finds in the buffer is the line of
\* the next message.
LEMMA FirstLine ==
  ASSUME Typed, Receiving, NEW start, NEW missing, Framed(start, missing),
         HasLine
  PROVE  LET next == SentLines[Len(received) + 1]
         IN  /\ Len(received) < Len(sent)
             /\ Len(next) <= Len(buffer)
             /\ Line = SubSeq(next, 1, Len(next) - 1)
             /\ Len(Line) = Len(next) - 1
<1> DEFINE next == SentLines[Len(received) + 1]
           c == Len(next)
           D == {i \in DOMAIN buffer : buffer[i] = Newline}
<1>0. DOMAIN buffer = 1 .. Len(buffer) /\ Len(buffer) \in Nat /\ buffer \in Seq(Symbol)
  BY DEF Typed
<1>1. PICK i \in 1 .. Len(buffer) : buffer[i] = Newline
  BY <1>0 DEF HasLine
<1>2. Len(received) < Len(sent)
  <2>1. Len(received) <= Len(sent) /\ Len(received) \in Nat /\ Len(sent) \in Nat
    BY UnreadParts DEF Receiving
  <2>2. Len(received) # Len(sent)
    <3>1. SUFFICES ASSUME Len(received) = Len(sent) PROVE FALSE
      OBVIOUS
    <3>2. Len(buffer) = 0
      BY <3>1, NothingLeft
    <3> QED
      BY <1>1, <3>2
  <2> QED
    BY <2>1, <2>2
<1>3. Len(received) + 1 \in 1 .. Len(sent)
  <2>1. Len(received) \in Nat /\ Len(sent) \in Nat
    BY UnreadParts
  <2> QED
    BY <1>2, <2>1
<1>4. next \in Seq(Symbol) /\ c \in Nat \ {0}
  BY <1>3, LinesOfMessages
<1>5. \A p \in 1 .. Len(buffer) : p <= c => buffer[p] = next[p] /\ (buffer[p] = Newline <=> p = c)
  BY <1>2, NextLine
<1> HIDE DEF next, c
<1>6. c <= Len(buffer)
  BY <1>0, <1>1, <1>4, <1>5
<1>7. c \in D /\ \A d \in D : c <= d
  BY <1>0, <1>4, <1>5, <1>6
<1>8. Min(D) = c
  <2>1. D \subseteq Nat
    BY <1>0
  <2> HIDE DEF D
  <2>2. \A x \in D : (\A y \in D : x <= y) => x = c
    BY <1>4, <1>7, <2>1
  <2> QED
    BY <1>7, <2>2 DEF Min
<1>9. Line = SubSeq(buffer, 1, c - 1)
  BY <1>8 DEF Line
<1>10. /\ SubSeq(buffer, 1, c - 1) \in Seq(Symbol) /\ Len(SubSeq(buffer, 1, c - 1)) = c - 1
       /\ \A p \in 1 .. c - 1 : SubSeq(buffer, 1, c - 1)[p] = buffer[p]
  <2>1. 1 \in Nat \ {0} /\ c - 1 \in Nat /\ 1 <= c - 1 + 1 /\ c - 1 <= Len(buffer)
    BY <1>0, <1>4, <1>6
  <2>2. c - 1 - 1 + 1 = c - 1 /\ \A p \in 1 .. c - 1 : 1 + p - 1 = p
    BY <1>4
  <2> QED
    BY <1>0, <2>1, <2>2, PartOf
<1>11. /\ SubSeq(next, 1, c - 1) \in Seq(Symbol) /\ Len(SubSeq(next, 1, c - 1)) = c - 1
       /\ \A p \in 1 .. c - 1 : SubSeq(next, 1, c - 1)[p] = next[p]
  <2>1. 1 \in Nat \ {0} /\ c - 1 \in Nat /\ 1 <= c - 1 + 1 /\ c - 1 <= c /\ c = Len(next)
    BY <1>4 DEF c
  <2>2. c - 1 - 1 + 1 = c - 1 /\ \A p \in 1 .. c - 1 : 1 + p - 1 = p
    BY <1>4
  <2> QED
    BY <1>4, <2>1, <2>2, PartOf
<1>12. \A p \in 1 .. c - 1 : buffer[p] = next[p]
  BY <1>0, <1>4, <1>5, <1>6
<1>13. SubSeq(buffer, 1, c - 1) = SubSeq(next, 1, c - 1)
  BY <1>10, <1>11, <1>12, SeqEqual
<1> QED
  BY <1>2, <1>6, <1>9, <1>10, <1>13 DEF next, c
-----------------------------------------------------------------------------
(* Receiving *)

\* Framing is about the messages and what is unread of their lines.
LEMMA FramedStays ==
  ASSUME NEW start, NEW missing, Framed(start, missing),
         sent' = sent, received' = received, Unread' = Unread
  PROVE  Framed(start, missing)'
<1>1. SentLines' = SentLines
  BY DEF SentLines
<1> QED
  BY <1>1 DEF Framed

\* So is what a sender has yet to write.
LEMMA WritingStays ==
  ASSUME NEW missing, Writing(missing), sent' = sent, written' = written, lock' = lock, left' = left,
         ended' = ended
  PROVE  Writing(missing)'
<1>1. SentLines' = SentLines
  BY DEF SentLines
<1> QED
  BY <1>1 DEF Writing

\* The smaller of two numbers.
LEMMA MinOfTwo ==
  ASSUME NEW x \in Int, NEW y \in Int
  PROVE  /\ Min({x, y}) \in {x, y}
         /\ Min({x, y}) <= x /\ Min({x, y}) <= y
<1>1. \E z \in {x, y} : \A t \in {x, y} : z <= t
  <2>1. CASE x <= y
    BY <2>1
  <2>2. CASE ~ x <= y
    BY <2>2
  <2> QED
    BY <2>1, <2>2
<1> QED
  BY <1>1 DEF Min

\* A read moves symbols from the stream to the buffer, as many as have room.
LEMMA ReadKeeps ==
  ASSUME WireInv, Read
  PROVE  WireInv'
<1> DEFINE n == Min({Len(stream), LineLimit - Len(buffer)})
<1>1. PICK start, missing : Framed(start, missing) /\ Writing(missing)
  BY DEF WireInv
<1>2. Typed /\ Receiving
  BY DEF WireInv
<1>3. /\ status = "reading" /\ ~ HasLine /\ ~ Full
      /\ buffer' = buffer \o SubSeq(stream, 1, n)
      /\ stream' = SubSeq(stream, n + 1, Len(stream))
      /\ UNCHANGED <<lock, left, ended, received, status, sent, written, sends, cuts>>
      /\ stream # <<>>
  BY DEF Read
<1>4. /\ buffer \in Seq(Symbol) /\ stream \in Seq(Symbol) /\ LineLimit \in Nat
      /\ Len(buffer) \in Nat /\ Len(stream) \in Nat
  BY <1>2, WireAssumption DEF Typed
<1>5. Len(buffer) < LineLimit
  BY <1>3, <1>4 DEF Full
<1>6. n \in 1 .. Len(stream) /\ n <= LineLimit - Len(buffer)
  <2>1. Len(stream) > 0
    BY <1>3, <1>4
  <2>2. Len(stream) \in Int /\ LineLimit - Len(buffer) \in Int
    BY <1>4
  <2>3. n \in {Len(stream), LineLimit - Len(buffer)} /\ n <= Len(stream) /\ n <= LineLimit - Len(buffer)
    BY <2>2, MinOfTwo
  <2> HIDE DEF n
  <2> QED
    BY <1>4, <1>5, <2>1, <2>2, <2>3
<1> HIDE DEF n
<1> DEFINE first == SubSeq(stream, 1, n)
           rest == SubSeq(stream, n + 1, Len(stream))
<1>7. /\ first \in Seq(Symbol) /\ Len(first) = n
      /\ rest \in Seq(Symbol)
      /\ first \o rest = stream
  <2>1. first \in Seq(Symbol) /\ Len(first) = n - 1 + 1
    <3>1. 1 \in Nat \ {0} /\ n \in Nat /\ 1 <= n + 1 /\ n <= Len(stream)
      BY <1>4, <1>6
    <3> QED
      BY <1>4, <3>1, PartOf
  <2>2. rest \in Seq(Symbol)
    <3>1. n + 1 \in Nat \ {0} /\ Len(stream) \in Nat /\ n + 1 <= Len(stream) + 1 /\ Len(stream) <= Len(stream)
      BY <1>4, <1>6
    <3> QED
      BY <1>4, <3>1, PartOf
  <2>3. first \o rest = SubSeq(stream, 1, Len(stream))
    <3>1. 1 \in 1 .. Len(stream) + 1 /\ n \in 1 - 1 .. Len(stream) /\ Len(stream) \in n .. Len(stream)
      BY <1>4, <1>6
    <3> QED
      BY <1>4, <3>1, ConcatAdjacentSubSeq
  <2>4. SubSeq(stream, 1, Len(stream)) = stream
    BY <1>4, SubSeqFull
  <2>5. n - 1 + 1 = n
    BY <1>6
  <2> QED
    BY <2>1, <2>2, <2>3, <2>4, <2>5
<1>8. buffer' = buffer \o first /\ stream' = rest
  BY <1>3
<1> HIDE DEF first, rest
<1>9. buffer' \in Seq(Symbol) /\ Len(buffer') = Len(buffer) + n /\ stream' \in Seq(Symbol)
  BY <1>4, <1>7, <1>8, ConcatProperties
<1>10. Unread' = Unread
  <2>1. (buffer \o first) \o rest = buffer \o (first \o rest)
    <3>1. buffer \in Seq(Symbol) /\ first \in Seq(Symbol) /\ rest \in Seq(Symbol)
      BY <1>4, <1>7
    <3> QED
      BY <3>1, Regrouped
  <2> QED
    BY <1>7, <1>8, <2>1 DEF Unread
<1>11. Typed'
  <2>1. Len(buffer') <= LineLimit
    BY <1>4, <1>6, <1>9
  <2> QED
    BY <1>2, <1>3, <1>9, <2>1 DEF Typed
<1>12. Receiving'
  BY <1>2, <1>3 DEF Receiving, OnlyLongLinesFail
<1>13. Framed(start, missing)' /\ Writing(missing)'
  BY <1>1, <1>3, <1>10, FramedStays, WritingStays
<1> QED
  BY <1>11, <1>12, <1>13 DEF WireInv

\* The end of the stream, or a line that does not fit, is noticed only when
\* the buffer holds no line.
LEMMA StopKeeps ==
  ASSUME WireInv, GiveUp \/ MeetEnd
  PROVE  WireInv'
<1>1. PICK start, missing : Framed(start, missing) /\ Writing(missing)
  BY DEF WireInv
<1>2. Typed /\ Receiving
  BY DEF WireInv
<1>3. UNCHANGED <<lock, left, stream, ended, buffer, received, sent, written, sends, cuts>> /\ status' \in {"closed", "failed"}
  BY DEF GiveUp, MeetEnd
<1>4. Typed'
  BY <1>2, <1>3 DEF Typed
<1>5. Framed(start, missing)' /\ Writing(missing)'
  <2>1. Unread' = Unread
    BY <1>3 DEF Unread
  <2> QED
    BY <1>1, <1>3, <2>1, FramedStays, WritingStays
<1>6. Receiving'
  <2>1. CASE MeetEnd
    <3>1. status' = "closed" /\ stream = <<>> /\ ended /\ ~ HasLine
      BY <2>1 DEF MeetEnd
    <3>2. ~ HasLine'
      BY <1>3, <3>1 DEF HasLine
    <3> QED
      BY <1>2, <1>3, <3>1, <3>2 DEF Receiving, OnlyLongLinesFail
  <2>2. CASE GiveUp
    <3>1. status' = "failed" /\ ~ HasLine /\ Len(buffer) >= LineLimit
      BY <2>2 DEF GiveUp, Full
    <3>2. /\ Len(received) \in Nat /\ Len(sent) \in Nat /\ Len(received) <= Len(sent)
          /\ Len(buffer) \in Nat /\ LineLimit \in Nat \ {0} /\ DOMAIN buffer = 1 .. Len(buffer)
      BY <1>2, UnreadParts, WireAssumption DEF Receiving, Typed
    <3>3. Len(received) < Len(sent)
      <4>1. SUFFICES ASSUME Len(received) = Len(sent) PROVE FALSE
        BY <3>2
      <4>2. Len(buffer) = 0
        BY <1>1, <1>2, <4>1, NothingLeft
      <4> QED
        BY <3>1, <3>2, <4>2
    <3> DEFINE line == SentLines[Len(received) + 1]
    <3>4. Len(line) \in Nat \ {0}
      <4>1. Len(received) + 1 \in 1 .. Len(sent)
        BY <3>2, <3>3
      <4> QED
        BY <1>2, <4>1, LinesOfMessages
    <3>5. \A p \in 1 .. Len(buffer) : p <= Len(line) => (buffer[p] = Newline <=> p = Len(line))
      BY <1>1, <1>2, <3>3, NextLine
    <3>6. \A p \in 1 .. Len(buffer) : buffer[p] # Newline
      BY <3>1, <3>2 DEF HasLine
    <3>7. Len(line) > LineLimit
      <4> HIDE DEF line
      <4>1. SUFFICES ASSUME Len(line) <= Len(buffer) PROVE FALSE
        BY <3>1, <3>2, <3>4
      <4>2. Len(line) \in 1 .. Len(buffer) /\ Len(line) <= Len(line)
        BY <3>2, <3>4, <4>1
      <4> QED
        BY <3>5, <3>6, <4>2
    <3>8. OnlyLongLinesFail'
      BY <1>3, <3>3, <3>7 DEF OnlyLongLinesFail, SentLines
    <3> QED
      BY <1>2, <1>3, <3>1, <3>8 DEF Receiving
  <2> QED
    BY <2>1, <2>2
<1> QED
  BY <1>4, <1>5, <1>6 DEF WireInv
\* The first line of the buffer is the next message's: it is decoded into the
\* message that was sent, and what follows the line is the next one.
LEMMA TakeLineKeeps ==
  ASSUME WireInv, TakeLine
  PROVE  /\ WireInv'
         /\ Len(received) < Len(sent)
         /\ received' = Append(received, AsReceived(sent[Len(received) + 1]))
<1> DEFINE r == Len(received) + 1
           next == SentLines[r]
           c == Len(next)
<1>1. PICK start, missing : Framed(start, missing) /\ Writing(missing)
  BY DEF WireInv
<1>2. Typed /\ Receiving
  BY DEF WireInv
<1>3. /\ HasLine /\ status = "reading"
      /\ buffer' = SubSeq(buffer, Len(Line) + 2, Len(buffer))
      /\ UNCHANGED <<lock, left, stream, ended, sent, written, sends, cuts>>
  BY DEF TakeLine
<1>4. /\ Len(received) < Len(sent) /\ c <= Len(buffer)
      /\ Line = SubSeq(next, 1, c - 1) /\ Len(Line) = c - 1
  BY <1>1, <1>2, <1>3, FirstLine
<1>5. /\ Len(received) \in Nat /\ Len(sent) \in Nat /\ Len(buffer) \in Nat /\ Len(stream) \in Nat
      /\ Len(Unread) = Len(buffer) + Len(stream)
      /\ \A p \in 1 .. Len(buffer) : Unread[p] = buffer[p]
      /\ \A p \in 1 .. Len(stream) : Unread[Len(buffer) + p] = stream[p]
  BY <1>2, UnreadParts
<1>6. r \in 1 .. Len(sent) /\ r + 1 \in 1 .. Len(sent) + 1
  BY <1>4, <1>5
<1>7. c \in Nat \ {0} /\ sent[r] \in Sendable
  BY <1>2, <1>6, LinesOfMessages
<1>8. received' = Append(received, AsReceived(sent[r])) /\ UNCHANGED status
  <2>2. Decode(SubSeq(Encode(sent[r]), 1, Len(Encode(sent[r])) - 1)) = Some(AsReceived(sent[r]))
    BY <1>7, SentComeBack DEF ComesBack
  <2>3. Decode(Line) = <<AsReceived(sent[r])>>
    BY <1>4, <2>2 DEF SentLines, Some
  <2>4. <<AsReceived(sent[r])>> # None /\ <<AsReceived(sent[r])>>[1] = AsReceived(sent[r])
    BY DEF None
  <2> QED
    BY <2>3, <2>4 DEF TakeLine
<1>9. AsReceived(sent[r]) \in Arriving
  BY <1>7 DEF Arriving, Sendable
<1> HIDE DEF r, next, c
<1>10. /\ received' \in Seq(Arriving) /\ Len(received') = Len(received) + 1
       /\ \A i \in 1 .. Len(received) : received'[i] = received[i]
       /\ received'[Len(received) + 1] = AsReceived(sent[r])
  <2>1. received \in Seq(Arriving)
    BY <1>2 DEF Typed
  <2> QED
    BY <1>8, <1>9, <2>1, AppendProperties
<1>11. /\ buffer' \in Seq(Symbol) /\ Len(buffer') = Len(buffer) - c
       /\ \A p \in 1 .. Len(buffer) - c : buffer'[p] = buffer[c + p]
  <2>1. buffer' = SubSeq(buffer, c + 1, Len(buffer))
    <3>1. Len(Line) + 2 = c + 1
      BY <1>4, <1>7
    <3> QED
      BY <1>3, <3>1
  <2>2. /\ buffer \in Seq(Symbol) /\ c + 1 \in Nat \ {0} /\ c + 1 <= Len(buffer) + 1
        /\ Len(buffer) \in Nat /\ Len(buffer) <= Len(buffer)
    BY <1>2, <1>4, <1>5, <1>7 DEF Typed
  <2>3. /\ buffer' \in Seq(Symbol) /\ Len(buffer') = Len(buffer) - (c + 1) + 1
        /\ \A p \in 1 .. Len(buffer) - (c + 1) + 1 : buffer'[p] = buffer[c + 1 + p - 1]
    BY <2>1, <2>2, PartOf
  <2>4. Len(buffer) - (c + 1) + 1 = Len(buffer) - c /\ \A p \in 1 .. Len(buffer) - c : c + 1 + p - 1 = c + p
    BY <1>5, <1>7
  <2> QED
    BY <2>3, <2>4
<1>12. Typed'
  <2>1. Len(buffer') <= LineLimit
    <3>1. Len(buffer) <= LineLimit /\ LineLimit \in Nat
      BY <1>2, WireAssumption DEF Typed
    <3> QED
      BY <1>5, <1>7, <1>11, <3>1
  <2> QED
    BY <1>2, <1>3, <1>8, <1>10, <1>11, <2>1 DEF Typed
<1>13. Receiving'
  <2>1. Len(received') <= Len(sent')
    BY <1>3, <1>4, <1>5, <1>10
  <2>2. \A i \in 1 .. Len(received') : received'[i] = AsReceived(sent'[i])
    <3> TAKE i \in 1 .. Len(received')
    <3>1. CASE i = Len(received) + 1
      BY <1>3, <1>10, <3>1 DEF r
    <3>2. CASE i \in 1 .. Len(received)
      BY <1>2, <1>3, <1>10, <3>2 DEF Receiving
    <3> QED
      BY <1>5, <1>10, <3>1, <3>2
  <2> QED
    BY <1>3, <1>8, <2>1, <2>2 DEF Receiving, OnlyLongLinesFail
<1>14. Writing(missing)'
  BY <1>1, <1>3, WritingStays
<1>15. /\ Len(Unread') = Len(Unread) - c
       /\ \A p \in 1 .. Len(Unread) - c : Unread'[p] = Unread[c + p]
  <2>1. /\ Len(Unread') = Len(buffer') + Len(stream')
        /\ \A p \in 1 .. Len(buffer') : Unread'[p] = buffer'[p]
        /\ \A p \in 1 .. Len(stream') : Unread'[Len(buffer') + p] = stream'[p]
    <3>1. /\ buffer' \in Seq(Symbol) /\ stream' \in Seq(Symbol) /\ sent' \in Seq(Sendable)
      BY <1>12 DEF Typed
    <3>2. /\ Len(Unread') = Len(buffer') + Len(stream')
          /\ \A i \in 1 .. Len(buffer') + Len(stream') :
               Unread'[i] = IF i <= Len(buffer') THEN buffer'[i] ELSE stream'[i - Len(buffer')]
      BY <3>1, ConcatProperties DEF Unread
    <3>3. Len(buffer') \in Nat /\ Len(stream') \in Nat
      BY <3>1
    <3>4. \A p \in 1 .. Len(buffer') : p \in 1 .. Len(buffer') + Len(stream') /\ p <= Len(buffer')
      BY <3>3
    <3>5. \A p \in 1 .. Len(stream') : /\ Len(buffer') + p \in 1 .. Len(buffer') + Len(stream')
                                       /\ ~ Len(buffer') + p <= Len(buffer')
                                       /\ Len(buffer') + p - Len(buffer') = p
      BY <3>3
    <3> QED
      BY <3>2, <3>4, <3>5
  <2>2. Len(Unread') = Len(Unread) - c
    BY <1>3, <1>5, <1>7, <1>11, <2>1
  <2>3. ASSUME NEW p \in 1 .. Len(Unread) - c
        PROVE  Unread'[p] = Unread[c + p]
    <3>1. CASE p <= Len(buffer) - c
      <4>1. p \in 1 .. Len(buffer) - c /\ p \in 1 .. Len(buffer') /\ c + p \in 1 .. Len(buffer)
        BY <1>5, <1>7, <1>11, <3>1
      <4> QED
        BY <1>5, <1>11, <2>1, <4>1
    <3>2. CASE ~ p <= Len(buffer) - c
      <4> DEFINE q == p - (Len(buffer) - c)
      <4>1. q \in 1 .. Len(stream) /\ p = Len(buffer') + q /\ c + p = Len(buffer) + q
        <5> DEFINE x == Len(buffer)
                   y == Len(stream)
                   z == Len(buffer')
        <5>1. /\ x \in Nat /\ y \in Nat /\ c \in Nat /\ c <= x /\ z = x - c
              /\ p \in 1 .. x + y - c /\ ~ p <= x - c
          BY <1>4, <1>5, <1>7, <1>11, <3>2
        <5> HIDE DEF x, y, z
        <5>2. /\ p - (x - c) \in 1 .. y /\ p = z + (p - (x - c)) /\ c + p = x + (p - (x - c))
          BY <5>1
        <5> QED
          BY <5>2 DEF x, y, z
      <4> HIDE DEF q
      <4>2. Unread'[Len(buffer') + q] = stream[q] /\ Unread[Len(buffer) + q] = stream[q]
        BY <1>3, <1>5, <2>1, <4>1
      <4> QED
        BY <4>1, <4>2
    <3> QED
      BY <3>1, <3>2
  <2> QED
    BY <2>2, <2>3
<1>16. Framed(start, missing)'
  <2>0. /\ start \in [Nat -> Nat] /\ missing \in Nat
        /\ \A i \in 1 .. Len(sent) : start[i + 1] = start[i] + Len(SentLines[i])
        /\ \A i, j \in 1 .. Len(sent) + 1 : i <= j => start[i] <= start[j]
        /\ Len(Unread) + missing = start[Len(sent) + 1] - start[r]
        /\ missing > 0 => missing <= Len(SentLines[Len(sent)])
        /\ \A i \in r .. Len(sent) : \A p \in 1 .. Len(SentLines[i]) :
             start[i] - start[r] + p <= Len(Unread) => Unread[start[i] - start[r] + p] = SentLines[i][p]
    BY <1>1 DEF Framed, Frames, r
  <2>1. SentLines' = SentLines
    BY <1>3 DEF SentLines
  <2>2. start[r + 1] = start[r] + c
    BY <1>6, <2>0 DEF c, next
  <2>3. Len(received') + 1 = r + 1 /\ r \in Nat
    BY <1>5, <1>6, <1>10 DEF r
  <2>4. start[r] \in Nat /\ start[r + 1] \in Nat /\ start[Len(sent) + 1] \in Nat /\ Len(Unread) \in Nat
    <3>1. start \in [Nat -> Nat]
      BY <2>0
    <3>2. r \in Nat /\ r + 1 \in Nat /\ Len(sent) + 1 \in Nat /\ Len(Unread) \in Nat
      BY <1>5, <2>3
    <3> QED
      BY <3>1, <3>2
  <2>5. Len(Unread') + missing = start[Len(sent) + 1] - start[r + 1]
    <3>1. missing \in Nat /\ Len(Unread) + missing = start[Len(sent) + 1] - start[r]
      BY <2>0
    <3>2. Len(Unread') = Len(Unread) - c /\ c \in Nat
      BY <1>7, <1>15
    <3> DEFINE a == start[r]
               b == start[r + 1]
               z == start[Len(sent) + 1]
               u == Len(Unread)
               v == Len(Unread')
    <3>3. /\ a \in Nat /\ b \in Nat /\ z \in Nat /\ u \in Nat /\ c \in Nat /\ missing \in Nat
          /\ u + missing = z - a /\ v = u - c /\ b = a + c
      BY <2>2, <2>4, <3>1, <3>2
    <3> HIDE DEF a, b, z, u, v
    <3>4. v + missing = z - b
      BY <3>3
    <3> QED
      BY <3>4 DEF b, z, v
  <2>6. ASSUME NEW i \in r + 1 .. Len(sent), NEW p \in 1 .. Len(SentLines[i]),
               start[i] - start[r + 1] + p <= Len(Unread')
        PROVE  Unread'[start[i] - start[r + 1] + p] = SentLines[i][p]
    <3>1. i \in r .. Len(sent) /\ i \in 1 .. Len(sent) + 1 /\ r + 1 <= i /\ i \in Nat
      BY <1>5, <1>6, <2>3
    <3>2. start[r + 1] <= start[i] /\ start[i] \in Nat
      BY <1>6, <2>0, <3>1
    <3>3. p \in Nat /\ p >= 1
      <4>1. Len(SentLines[i]) \in Nat
        <5>1. i \in 1 .. Len(sent)
          BY <1>5, <2>3
        <5> QED
          BY <1>2, <5>1, LinesOfMessages
      <4> QED
        BY <4>1
    <3> DEFINE q == start[i] - start[r + 1] + p
    <3>4. /\ q \in 1 .. Len(Unread) - c
          /\ c + q = start[i] - start[r] + p
          /\ start[i] - start[r] + p <= Len(Unread)
      <4>1. c \in Nat /\ start[i] - start[r + 1] + p <= Len(Unread) - c
        BY <1>7, <1>15, <2>6
      <4>3. /\ start[r] \in Nat /\ start[r + 1] \in Nat /\ start[i] \in Nat /\ p \in Nat
            /\ start[r + 1] = start[r] + c /\ start[r + 1] <= start[i] /\ p >= 1 /\ Len(Unread) \in Nat
        BY <2>2, <2>4, <3>2, <3>3
      <4> DEFINE a == start[r]
                 b == start[r + 1]
                 d == start[i]
                 u == Len(Unread)
      <4>4. /\ a \in Nat /\ b \in Nat /\ d \in Nat /\ u \in Nat /\ p \in Nat /\ c \in Nat
            /\ b = a + c /\ b <= d /\ p >= 1 /\ d - b + p <= u - c
        BY <4>1, <4>3
      <4> HIDE DEF a, b, d, u
      <4>5. d - b + p \in 1 .. u - c /\ c + (d - b + p) = d - a + p /\ d - a + p <= u
        BY <4>4
      <4> QED
        BY <4>5 DEF a, b, d, u
    <3>5. Unread[start[i] - start[r] + p] = SentLines[i][p]
      BY <2>0, <3>1, <3>4
    <3> HIDE DEF q
    <3>6. Unread'[q] = Unread[c + q]
      BY <1>15, <3>4
    <3> QED
      BY <3>4, <3>5, <3>6 DEF q
  <2>7. Frames(start, missing, SentLines, Len(sent), r, Unread')
    BY <2>0, <2>5, <2>6 DEF Frames
  <2>8. Len(received') = r
    BY <1>10 DEF r
  <2> QED
    BY <1>3, <2>1, <2>7, <2>8 DEF Framed
<1>17. WireInv'
  BY <1>12, <1>13, <1>14, <1>16 DEF WireInv
<1> QED
  BY <1>4, <1>8, <1>17 DEF r

-----------------------------------------------------------------------------
(* Sending *)

\* Another line is framed, of which nothing was written.
LEMMA OneMoreLine ==
  ASSUME NEW n \in Nat, NEW r \in Nat, r <= n, NEW start, NEW L, NEW M, NEW unread, Len(unread) \in Nat,
         Frames(start, 0, L, n, r, unread),
         \A i \in 1 .. n : M[i] = L[i],
         NEW k \in Nat, k > 0, Len(M[n + 1]) = k
  PROVE  \E more : Frames(more, k, M, n + 1, r, unread)
<1> DEFINE more == [start EXCEPT ![n + 2] = start[n + 1] + k]
<1>1. start \in [Nat -> Nat]
  BY DEF Frames
<1>2. \A i \in 1 .. n : start[i + 1] = start[i] + Len(L[i])
  BY DEF Frames
<1>3. \A i, j \in 1 .. n + 1 : i <= j => start[i] <= start[j]
  BY DEF Frames
<1>4. Len(unread) + 0 = start[n + 1] - start[r + 1]
  BY DEF Frames
<1>5. \A i \in r + 1 .. n : \A p \in 1 .. Len(L[i]) :
        start[i] - start[r + 1] + p <= Len(unread) => unread[start[i] - start[r + 1] + p] = L[i][p]
  BY DEF Frames
<1>6. n + 1 \in Nat /\ n + 2 \in Nat /\ r + 1 \in Nat /\ n + 1 # n + 2 /\ r + 1 # n + 2 /\ n + 1 + 1 = n + 2
  OBVIOUS
<1>7. start[n + 1] \in Nat /\ start[r + 1] \in Nat /\ start[n + 1] + k \in Nat
  <2>1. start[n + 1] \in Nat /\ start[r + 1] \in Nat
    BY <1>1, <1>6
  <2> QED
    BY <2>1
<1>8. more \in [Nat -> Nat] /\ more[n + 2] = start[n + 1] + k
  BY <1>1, <1>6, <1>7
<1>9. \A i \in Nat : i # n + 2 => more[i] = start[i]
  BY <1>1, <1>6
<1> HIDE DEF more
<1>10. \A i \in 1 .. n + 1 : more[i] = start[i] /\ i \in Nat
  BY <1>9
<1>11. \A i \in 1 .. n + 1 : more[i + 1] = more[i] + Len(M[i])
  <2> TAKE i \in 1 .. n + 1
  <2>1. CASE i \in 1 .. n
    <3>1. i \in 1 .. n + 1 /\ i + 1 \in 1 .. n + 1
      BY <2>1
    <3>2. more[i] = start[i] /\ more[i + 1] = start[i + 1]
      BY <1>10, <3>1
    <3> QED
      BY <1>2, <2>1, <3>2
  <2>2. CASE i = n + 1
    <3>1. more[i] = start[n + 1] /\ more[i + 1] = more[n + 2]
      BY <1>6, <1>9, <2>2
    <3> QED
      BY <1>8, <2>2, <3>1
  <2> QED
    BY <2>1, <2>2
<1>12. \A i, j \in 1 .. n + 2 : i <= j => more[i] <= more[j]
  <2>1. \A i \in 1 .. n + 1 : start[i] <= start[n + 1] /\ start[i] \in Nat
    <3> TAKE i \in 1 .. n + 1
    <3>1. i \in Nat /\ i <= n + 1 /\ n + 1 \in 1 .. n + 1
      OBVIOUS
    <3> QED
      BY <1>1, <1>3, <3>1
  <2> TAKE i, j \in 1 .. n + 2
  <2> HAVE i <= j
  <2>2. CASE i \in 1 .. n + 1 /\ j \in 1 .. n + 1
    BY <1>3, <1>10, <2>2
  <2>3. CASE i \in 1 .. n + 1 /\ j = n + 2
    <3>1. more[i] = start[i] /\ start[i] <= start[n + 1] /\ start[i] \in Nat
      BY <1>10, <2>1, <2>3
    <3>2. start[i] <= start[n + 1] + k
      BY <1>7, <3>1
    <3> QED
      BY <1>8, <2>3, <3>1, <3>2
  <2>4. CASE i = n + 2 /\ j = n + 2
    <3>1. start[n + 1] + k <= start[n + 1] + k
      BY <1>7
    <3> QED
      BY <1>8, <2>4, <3>1
  <2>5. \/ i \in 1 .. n + 1 /\ j \in 1 .. n + 1
        \/ i \in 1 .. n + 1 /\ j = n + 2
        \/ i = n + 2 /\ j = n + 2
    OBVIOUS
  <2> QED
    BY <2>2, <2>3, <2>4, <2>5
<1>13. more[r + 1] = start[r + 1]
  BY <1>6, <1>9
<1>14. Len(unread) + k = more[n + 1 + 1] - more[r + 1]
  <2> DEFINE a == start[n + 1]
             b == start[r + 1]
             top == more[n + 1 + 1]
             low == more[r + 1]
  <2>1. n + 1 + 1 = n + 2
    BY <1>6
  <2>2. top = more[n + 2]
    BY <2>1, Zenon
  <2>3. top = a + k /\ low = b
    BY <1>8, <1>13, <2>2
  <2>4. a \in Nat /\ b \in Nat /\ Len(unread) + 0 = a - b
    BY <1>4, <1>7
  <2> HIDE DEF a, b, top, low
  <2>5. Len(unread) + k = top - low
    BY <2>3, <2>4
  <2> QED
    BY <2>5 DEF top, low
<1>15. ASSUME NEW i \in r + 1 .. n + 1, NEW p \in 1 .. Len(M[i]), more[i] - more[r + 1] + p <= Len(unread)
       PROVE  unread[more[i] - more[r + 1] + p] = M[i][p]
  <2>1. CASE i \in r + 1 .. n
    <3>1. i \in 1 .. n /\ i \in 1 .. n + 1
      BY <2>1
    <3>2. M[i] = L[i] /\ more[i] = start[i]
      BY <1>10, <3>1
    <3> QED
      BY <1>5, <1>13, <1>15, <2>1, <3>2
  <2>2. CASE i = n + 1
    <3>1. more[i] = start[n + 1] /\ p \in 1 .. k
      BY <1>6, <1>9, <2>2
    <3>2. start[n + 1] - start[r + 1] + p <= Len(unread)
      BY <1>13, <1>15, <3>1
    <3> DEFINE a == start[n + 1]
               b == start[r + 1]
    <3>3. a \in Nat /\ b \in Nat /\ Len(unread) + 0 = a - b /\ a - b + p <= Len(unread)
      BY <1>4, <1>7, <3>2
    <3> HIDE DEF a, b
    <3>4. FALSE
      BY <3>1, <3>3
    <3> QED
      BY <3>4
  <2>3. i \in r + 1 .. n \/ i = n + 1
    OBVIOUS
  <2> QED
    BY <2>1, <2>2, <2>3
<1>16. k > 0 => k <= Len(M[n + 1])
  OBVIOUS
<1>17. \A i, j \in 1 .. n + 1 + 1 : i <= j => more[i] <= more[j]
  BY <1>6, <1>12
<1>18. Frames(more, k, M, n + 1, r, unread)
  BY <1>8, <1>11, <1>14, <1>15, <1>16, <1>17 DEF Frames
<1> QED
  BY <1>18

\* More of the last line is written.
LEMMA MoreWritten ==
  ASSUME NEW n \in Nat, NEW r \in Nat, r <= n, n > 0, NEW start, NEW missing, NEW L, NEW S,
         NEW unread \in Seq(S), NEW part \in Seq(S),
         Frames(start, missing, L, n, r, unread),
         \A i \in 1 .. n : Len(L[i]) \in Nat,
         Len(part) <= missing,
         \A q \in 1 .. Len(part) : part[q] = L[n][Len(L[n]) - missing + q]
  PROVE  Frames(start, missing - Len(part), L, n, r, unread \o part)
<1> DEFINE u == Len(unread)
           k == Len(part)
           base == start[r + 1]
           now == start[n]
           next == start[n + 1]
           c == Len(L[n])
<1>1. start \in [Nat -> Nat] /\ missing \in Nat
  BY DEF Frames
<1>2. \A i \in 1 .. n : start[i + 1] = start[i] + Len(L[i])
  BY DEF Frames
<1>3. \A i, j \in 1 .. n + 1 : i <= j => start[i] <= start[j]
  BY DEF Frames
<1>4. u + missing = next - base
  BY DEF Frames
<1>5. missing > 0 => missing <= c
  BY DEF Frames
<1>6. \A i \in r + 1 .. n : \A p \in 1 .. Len(L[i]) :
        start[i] - base + p <= u => unread[start[i] - base + p] = L[i][p]
  BY DEF Frames
<1>7. u \in Nat /\ k \in Nat /\ unread \o part \in Seq(S) /\ Len(unread \o part) = u + k
  BY ConcatProperties
<1>8. \A i \in 1 .. u + k : (unread \o part)[i] = IF i <= u THEN unread[i] ELSE part[i - u]
  BY ConcatProperties
<1>9. n \in 1 .. n /\ n + 1 \in Nat /\ r + 1 \in Nat
  OBVIOUS
<1>10. base \in Nat /\ next \in Nat /\ now \in Nat /\ c \in Nat /\ next = now + c
  BY <1>1, <1>2, <1>9
<1>11. k <= missing /\ \A q \in 1 .. k : part[q] = L[n][c - missing + q]
  OBVIOUS
<1> HIDE DEF u, k, base, now, next, c
<1>12. missing - k \in Nat /\ u + k + (missing - k) = next - base
  BY <1>1, <1>4, <1>7, <1>10, <1>11
<1>13. ASSUME NEW i \in r + 1 .. n, NEW p \in 1 .. Len(L[i]), start[i] - base + p <= u + k
       PROVE  (unread \o part)[start[i] - base + p] = L[i][p]
  <2> DEFINE s == start[i]
             d == Len(L[i])
  <2>1. /\ i \in 1 .. n /\ i \in 1 .. n + 1 /\ r + 1 \in 1 .. n + 1 /\ n \in 1 .. n + 1 /\ i + 1 \in 1 .. n + 1
        /\ r + 1 <= i /\ i \in Nat
    OBVIOUS
  <2>2. d \in Nat
    BY <2>1
  <2>3. s \in Nat /\ base <= s
    <3>1. s \in Nat
      BY <1>1, <2>1
    <3>2. base <= s
      BY <1>3, <2>1 DEF base
    <3> QED
      BY <3>1, <3>2
  <2>4. p \in 1 .. d /\ s - base + p <= u + k
    BY <1>13
  <2>5. i < n => s + d <= now
    <3>1. start[i + 1] = s + d
      BY <1>2, <2>1
    <3>2. i < n => i + 1 <= n
      BY <2>1
    <3> QED
      BY <1>3, <2>1, <3>1, <3>2 DEF now
  <2>6. i = n => s = now /\ d = c
    BY DEF now, c
  <2>7. CASE s - base + p <= u
    <3> HIDE DEF s, d
    <3>1. s - base + p \in 1 .. u + k
      BY <1>7, <1>10, <2>2, <2>3, <2>4
    <3>2. (unread \o part)[s - base + p] = unread[s - base + p]
      BY <1>8, <2>7, <3>1
    <3> QED
      BY <1>6, <2>7, <3>2 DEF s, d
  <2>8. CASE ~ s - base + p <= u
    <3> HIDE DEF s, d
    <3>1. ~ i < n
      <4>1. SUFFICES ASSUME s + d <= now PROVE FALSE
        BY <2>5
      <4>2. missing > 0 /\ missing <= c
        <5>1. missing > 0
          BY <1>1, <1>4, <1>7, <1>10, <1>11, <2>2, <2>3, <2>4, <2>8, <4>1
        <5> QED
          BY <1>5, <5>1
      <4> QED
        BY <1>1, <1>4, <1>7, <1>10, <2>2, <2>3, <2>4, <2>8, <4>1, <4>2
    <3>2. i = n
      BY <2>1, <3>1
    <3>3. s = now /\ d = c
      BY <2>6, <3>2
    <3> DEFINE q == (s - base + p) - u
    <3>4. q \in 1 .. k /\ c - missing + q = p /\ s - base + p \in 1 .. u + k
      <4>1. p \in Nat /\ p >= 1
        BY <2>2, <2>4
      <4>2. s - base + p >= 1 /\ s - base + p <= u + k /\ s - base + p > u
        BY <1>7, <1>10, <2>3, <2>4, <2>8, <4>1
      <4>3. u + missing = now + c - base
        BY <1>4, <1>10
      <4>4. c - missing + q = p
        <5>1. /\ s = now /\ now \in Nat /\ c \in Nat /\ base \in Nat /\ u \in Nat /\ missing \in Nat /\ p \in Nat
              /\ u + missing = now + c - base
          BY <1>1, <1>7, <1>10, <3>3, <4>1, <4>3
        <5>2. q = (now - base + p) - u
          BY <3>3
        <5> HIDE DEF q
        <5> QED
          BY <5>1, <5>2
      <4>5. s - base + p \in 1 .. u + k
        BY <1>7, <1>10, <2>3, <4>1, <4>2
      <4>6. q \in 1 .. k
        BY <1>7, <1>10, <2>3, <4>1, <4>2
      <4> QED
        BY <4>4, <4>5, <4>6
    <3>5. (unread \o part)[s - base + p] = part[q]
      <4> DEFINE v == s - base + p
      <4>1. v \in 1 .. u + k
        BY <3>4, Zenon
      <4>2. ~ v <= u
        BY <2>8, Zenon
      <4>3. q = v - u
        BY Zenon
      <4> HIDE DEF v, q
      <4>4. (unread \o part)[v] = part[v - u]
        BY <1>8, <4>1, <4>2
      <4> QED
        BY <4>3, <4>4 DEF v
    <3> HIDE DEF q
    <3>6. part[q] = L[n][p]
      BY <1>11, <3>4
    <3> QED
      BY <3>2, <3>5, <3>6 DEF s
  <2> QED
    BY <2>7, <2>8
<1>14. missing - k > 0 => missing - k <= c
  BY <1>1, <1>5, <1>7, <1>10
<1>15. /\ Len(unread \o part) + (missing - k) = next - base
       /\ \A i \in r + 1 .. n : \A p \in 1 .. Len(L[i]) :
            start[i] - base + p <= Len(unread \o part) => (unread \o part)[start[i] - base + p] = L[i][p]
  BY <1>7, <1>12, <1>13
<1> QED
  BY <1>1, <1>2, <1>3, <1>12, <1>14, <1>15 DEF Frames, base, next, c, k

\* The first write of a thread that got send_lock: the line of a message it
\* may send is begun.
LEMMA LineBegun ==
  ASSUME Typed, NEW w \in Writers, Begin(w)
  PROVE  \E m \in MaySend[w] :
           /\ left' = [left EXCEPT ![w] = Encode(m)]
           /\ sent' = Append(sent, m)
<1>1. PICK l \in Lines : l.by = w /\ left' = [left EXCEPT ![w] = l.line] /\ sent' = Append(sent, l.message)
  BY DEF Begin
<1>2. PICK v \in Writers : l \in {[by |-> v, message |-> m, line |-> Encode(m)] : m \in MaySend[v]}
  BY <1>1 DEF Lines
<1>3. PICK m \in MaySend[v] : l = [by |-> v, message |-> m, line |-> Encode(m)]
  BY <1>2
<1>4. l.by = v /\ l.message = m /\ l.line = Encode(m)
  BY <1>3
<1> QED
  BY <1>1, <1>3, <1>4

\* A line begun is the last one, and all of it is missing.
LEMMA BeginKeeps ==
  ASSUME WireInv, NEW w \in Writers, Begin(w)
  PROVE  /\ WireInv'
         /\ \E m \in Sendable : sent' = Append(sent, m)
<1> DEFINE n == Len(sent)
           r == Len(received)
<1>1. PICK start, missing : Framed(start, missing) /\ Writing(missing)
  BY DEF WireInv
<1>2. Typed /\ Receiving
  BY DEF WireInv
<1>3. /\ lock = NoWriter /\ ~ ended /\ sends[w] < MaxSends /\ lock' = w
      /\ sends' = [sends EXCEPT ![w] = @ + 1]
      /\ UNCHANGED <<stream, ended, buffer, received, status, written, cuts>>
  BY DEF Begin
<1>4. PICK m \in MaySend[w] : left' = [left EXCEPT ![w] = Encode(m)] /\ sent' = Append(sent, m)
  BY <1>2, LineBegun
<1>5. m \in Sendable /\ IsMessage(m)
  BY <1>4, WireAssumption DEF Sendable
<1> DEFINE line == Encode(m)
           k == Len(line)
<1>6. line \in Seq(Symbol) /\ k \in Nat /\ k > 0
  BY <1>5, OneLinePerMessage
<1>7. n \in Nat /\ r \in Nat /\ r <= n /\ Len(Unread) \in Nat
  BY <1>2, UnreadParts DEF Receiving
<1>8. /\ sent' \in Seq(Sendable) /\ Len(sent') = n + 1
      /\ \A i \in 1 .. n : sent'[i] = sent[i]
      /\ sent'[n + 1] = m
  <2>1. sent \in Seq(Sendable)
    BY <1>2 DEF Typed
  <2> QED
    BY <1>4, <1>5, <2>1, AppendProperties
<1>9. /\ \A i \in 1 .. n : i \in 1 .. n + 1 /\ i \in 1 .. n
      /\ n + 1 \in 1 .. n + 1
  BY <1>7
<1>10. /\ \A i \in 1 .. n : SentLines'[i] = SentLines[i]
       /\ SentLines'[n + 1] = line
  BY <1>8, <1>9 DEF SentLines
<1>11. missing = 0
  BY <1>1, <1>3 DEF Writing
<1>12. PICK more : Frames(more, k, SentLines', n + 1, r, Unread)
  <2>1. Frames(start, 0, SentLines, n, r, Unread)
    BY <1>1, <1>11 DEF Framed
  <2>2. Len(SentLines'[n + 1]) = k
    BY <1>10
  <2> HIDE DEF n, r, k
  <2> QED
    BY <1>6, <1>7, <1>10, <2>1, <2>2, OneMoreLine
<1>13. Framed(more, k)'
  <2>1. Unread' = Unread /\ Len(received') = r
    BY <1>3 DEF Unread
  <2> QED
    BY <1>8, <1>12, <2>1 DEF Framed
<1>14. Writing(k)'
  <2>1. left \in [Writers -> Seq(Symbol)] /\ \A v \in Writers : left[v] = <<>>
    <3>1. \A v \in Writers : v # lock
      BY <1>3, WireAssumption
    <3> QED
      BY <1>1, <1>2, <3>1 DEF Writing, Typed
  <2> HIDE DEF line
  <2>2. left'[w] = line /\ \A v \in Writers : v # w => left'[v] = <<>>
    BY <1>4, <2>1 DEF line
  <2>3. line = SubSeq(line, k - k + 1, k)
    <3>1. k - k + 1 = 1
      BY <1>6
    <3> QED
      BY <1>6, <3>1, SubSeqFull
  <2>4. lock' # NoWriter
    BY <1>3, WireAssumption
  <2>5. SentLines'[Len(sent')] = line
    BY <1>8, <1>10
  <2>6. written' = Len(sent') - 1
    <3>1. written' = n
      BY <1>1, <1>3, <1>11 DEF Writing
    <3> QED
      BY <1>7, <1>8, <3>1
  <2> QED
    BY <1>3, <1>6, <2>2, <2>3, <2>4, <2>5, <2>6 DEF Writing
<1>15. Typed'
  <2>1. left' \in [Writers -> Seq(Symbol)]
    BY <1>2, <1>4, <1>6 DEF Typed
  <2>2. sends' \in [Writers -> 0 .. MaxSends]
    <3>1. sends \in [Writers -> 0 .. MaxSends] /\ MaxSends \in Nat
      BY <1>2, WireAssumption DEF Typed
    <3>2. sends[w] + 1 \in 0 .. MaxSends
      BY <1>3, <3>1
    <3> QED
      BY <1>3, <3>1, <3>2
  <2> QED
    BY <1>2, <1>3, <1>8, <2>1, <2>2 DEF Typed
<1>16. Receiving'
  <2>1. Len(received') <= Len(sent')
    BY <1>3, <1>7, <1>8
  <2>2. \A i \in 1 .. Len(received') : received'[i] = AsReceived(sent'[i])
    <3> TAKE i \in 1 .. Len(received')
    <3>1. i \in 1 .. n /\ i \in 1 .. r
      BY <1>3, <1>7
    <3> QED
      BY <1>2, <1>3, <1>8, <3>1 DEF Receiving
  <2>3. OnlyLongLinesFail'
    <3>1. SUFFICES ASSUME status = "failed"
                   PROVE  Len(received) < Len(sent') /\ Len(Encode(sent'[Len(received) + 1])) > LineLimit
      BY <1>3 DEF OnlyLongLinesFail
    <3>2. r < n /\ Len(Encode(sent[r + 1])) > LineLimit
      BY <1>2, <3>1 DEF Receiving, OnlyLongLinesFail
    <3>3. r + 1 \in 1 .. n /\ r < n + 1
      BY <1>7, <3>2
    <3> QED
      BY <1>8, <3>2, <3>3
  <2>4. status' # "closed"
    BY <1>2, <1>3 DEF Receiving
  <2> QED
    BY <2>1, <2>2, <2>3, <2>4 DEF Receiving
<1>17. WireInv'
  BY <1>13, <1>14, <1>15, <1>16 DEF WireInv
<1> QED
  BY <1>4, <1>5, <1>17

\* When something is missing, it is the end of the last line.
LEMMA LastLine ==
  ASSUME Typed, Receiving, NEW start, NEW missing, Framed(start, missing), missing > 0
  PROVE  LET line == SentLines[Len(sent)]
         IN  /\ missing \in Nat /\ missing <= Len(line) /\ Len(sent) > 0
             /\ line \in Seq(Symbol) /\ Len(line) \in Nat \ {0}
             /\ line[Len(line)] = Newline
<1> DEFINE n == Len(sent)
           r == Len(received)
           line == SentLines[n]
           c == Len(line)
<1>1. /\ start \in [Nat -> Nat] /\ missing \in Nat
      /\ Len(Unread) + missing = start[n + 1] - start[r + 1]
      /\ missing > 0 => missing <= c
  BY DEF Framed, Frames
<1>2. n \in Nat /\ r \in Nat /\ r <= n /\ Len(Unread) \in Nat
  BY UnreadParts DEF Receiving
<1>3. n # 0
  <2>1. SUFFICES ASSUME n = 0 PROVE FALSE
    OBVIOUS
  <2>2. r = 0
    BY <1>2, <2>1
  <2> DEFINE a == start[r + 1]
             b == start[n + 1]
  <2>3. a \in Nat /\ b = a /\ Len(Unread) + missing = b - a
    BY <1>1, <1>2, <2>1, <2>2
  <2> HIDE DEF a, b
  <2> QED
    BY <1>1, <1>2, <2>3
<1>4. /\ line \in Seq(Symbol) /\ c \in Nat \ {0}
      /\ \A p \in 1 .. c : line[p] = Newline <=> p = c
  <2>1. n \in 1 .. Len(sent)
    BY <1>2, <1>3
  <2> QED
    BY <2>1, LinesOfMessages
<1>5. line[c] = Newline
  <2>1. c \in 1 .. c
    BY <1>4
  <2> QED
    BY <1>4, <2>1
<1>6. n > 0 /\ missing \in Nat /\ missing <= c
  BY <1>1, <1>2, <1>3
<1> QED
  BY <1>4, <1>5, <1>6

\* A write takes the next symbols of the last line; the one that takes the
\* last of them leaves the lock.
LEMMA WriteKeeps ==
  ASSUME WireInv, NEW w \in Writers, Write(w)
  PROVE  WireInv'
<1> DEFINE n == Len(sent)
           r == Len(received)
           line == SentLines[n]
           c == Len(line)
<1>1. PICK start, missing : Framed(start, missing) /\ Writing(missing)
  BY DEF WireInv
<1>2. Typed /\ Receiving
  BY DEF WireInv
<1>3. /\ left[w] # <<>>
      /\ UNCHANGED <<ended, buffer, received, status, sent, sends>>
  BY DEF Write
<1>4. PICK k \in 1 .. Len(left[w]) :
        /\ stream' = stream \o SubSeq(left[w], 1, k)
        /\ left' = [left EXCEPT ![w] = SubSeq(@, k + 1, Len(@))]
        /\ IF k = Len(left[w]) THEN lock' = NoWriter /\ written' = written + 1 /\ UNCHANGED cuts
           ELSE cuts < MaxCuts /\ cuts' = cuts + 1 /\ UNCHANGED <<lock, written>>
  BY DEF Write
<1>5. lock = w /\ ~ ended /\ lock # NoWriter
  BY <1>1, <1>3, WireAssumption DEF Writing
<1>6. /\ missing > 0 /\ left[w] = SubSeq(line, c - missing + 1, c)
      /\ \A v \in Writers : v # w => left[v] = <<>>
  BY <1>1, <1>5 DEF Writing
<1>7. n \in Nat /\ r \in Nat /\ r <= n
  BY <1>2, UnreadParts DEF Receiving
<1>8. missing \in Nat /\ missing <= c /\ n > 0
  BY <1>1, <1>2, <1>6, LastLine
<1>9. line \in Seq(Symbol) /\ c \in Nat \ {0}
  BY <1>1, <1>2, <1>6, LastLine
<1> DEFINE rest == left[w]
           part == SubSeq(rest, 1, k)
<1>10. /\ rest \in Seq(Symbol) /\ Len(rest) = missing
       /\ \A q \in 1 .. missing : rest[q] = line[c - missing + q]
  <2>1. c - missing + 1 \in Nat \ {0} /\ c \in Nat /\ c - missing + 1 <= c + 1 /\ c <= c
    BY <1>8, <1>9
  <2> HIDE DEF line, c
  <2>2. /\ rest \in Seq(Symbol) /\ Len(rest) = c - (c - missing + 1) + 1
        /\ \A q \in 1 .. c - (c - missing + 1) + 1 : rest[q] = line[c - missing + 1 + q - 1]
    BY <1>6, <1>9, <2>1, PartOf DEF c
  <2>3. c - (c - missing + 1) + 1 = missing /\ \A q \in 1 .. missing : c - missing + 1 + q - 1 = c - missing + q
    BY <1>8, <1>9
  <2> QED
    BY <2>2, <2>3
<1> HIDE DEF rest
<1>11. k \in Nat /\ k >= 1 /\ k <= missing /\ Len(left[w]) = missing
  BY <1>4, <1>8, <1>10 DEF rest
<1>12. /\ part \in Seq(Symbol) /\ Len(part) = k
       /\ \A q \in 1 .. k : part[q] = line[c - missing + q]
  <2>1. 1 \in Nat \ {0} /\ 1 <= k + 1 /\ k <= Len(rest)
    BY <1>10, <1>11
  <2>2. /\ part \in Seq(Symbol) /\ Len(part) = k - 1 + 1
        /\ \A q \in 1 .. k - 1 + 1 : part[q] = rest[1 + q - 1]
    BY <1>10, <1>11, <2>1, PartOf
  <2>3. k - 1 + 1 = k /\ \A q \in 1 .. k : 1 + q - 1 = q /\ q \in 1 .. missing
    BY <1>8, <1>11
  <2> HIDE DEF part, line, c
  <2> QED
    BY <1>10, <2>2, <2>3
<1>13. stream' = stream \o part /\ left' = [left EXCEPT ![w] = SubSeq(left[w], k + 1, missing)]
  <2>1. stream' = stream \o part
    BY <1>4 DEF rest
  <2>2. left' = [left EXCEPT ![w] = SubSeq(left[w], k + 1, Len(left[w]))]
    BY <1>4
  <2> QED
    BY <1>11, <2>1, <2>2
<1> HIDE DEF part
<1>14. Unread' = Unread \o part
  <2>1. buffer \in Seq(Symbol) /\ stream \in Seq(Symbol)
    BY <1>2 DEF Typed
  <2>2. (buffer \o stream) \o part = buffer \o (stream \o part)
    BY <1>12, <2>1, Regrouped
  <2> QED
    BY <1>3, <1>13, <2>2 DEF Unread
<1>15. Framed(start, missing - k)'
  <2>1. Frames(start, missing, SentLines, n, r, Unread)
    BY <1>1 DEF Framed
  <2>2. \A i \in 1 .. n : Len(SentLines[i]) \in Nat
    BY <1>2, LinesOfMessages
  <2>3. Unread \in Seq(Symbol)
    BY <1>2, UnreadParts
  <2>4. /\ Len(part) <= missing
        /\ \A q \in 1 .. Len(part) : part[q] = SentLines[n][Len(SentLines[n]) - missing + q]
    BY <1>11, <1>12
  <2> HIDE DEF n, r
  <2>5. Frames(start, missing - Len(part), SentLines, n, r, Unread \o part)
    BY <1>7, <1>8, <1>12, <2>1, <2>2, <2>3, <2>4, MoreWritten
  <2>6. SentLines' = SentLines
    BY <1>3 DEF SentLines
  <2> QED
    BY <1>3, <1>12, <1>14, <2>5, <2>6 DEF Framed, n, r
<1>16. left \in [Writers -> Seq(Symbol)]
  BY <1>2 DEF Typed
<1>17. SubSeq(left[w], k + 1, missing) \in Seq(Symbol)
  <2>1. k + 1 \in Nat \ {0} /\ missing \in Nat /\ k + 1 <= missing + 1 /\ missing <= Len(rest)
    BY <1>8, <1>10, <1>11
  <2> QED
    BY <1>10, <2>1, PartOf DEF rest
<1>18. Writing(missing - k)'
  <2>1. SentLines' = SentLines /\ sent' = sent /\ ended' = ended
    BY <1>3 DEF SentLines
  <2>2. \A v \in Writers : v # w => left'[v] = <<>>
    BY <1>6, <1>13, <1>16
  <2>3. left'[w] = SubSeq(left[w], k + 1, missing)
    BY <1>13, <1>16
  <2>6. written = n - 1
    BY <1>1, <1>6 DEF Writing
  <2>4. CASE k = missing
    <3>1. lock' = NoWriter /\ missing - k = 0 /\ ~ missing - k > 0
      BY <1>4, <1>8, <1>11, <2>4
    <3>3. written' = Len(sent')
      <4>1. written' = written + 1
        BY <1>4, <1>11, <2>4
      <4> QED
        BY <1>7, <2>1, <2>6, <4>1
    <3>2. left'[w] = <<>>
      <4>1. k + 1 \in Int /\ missing \in Int /\ missing < k + 1
        BY <1>11, <2>4
      <4> QED
        BY <2>3, <4>1, SubSeqEmpty
    <3> QED
      BY <2>2, <3>1, <3>2, <3>3 DEF Writing
  <2>5. CASE k # missing
    <3>1. lock' = w /\ missing - k > 0 /\ written' = written
      <4>1. lock' = lock /\ written' = written
        BY <1>4, <1>11, <2>5
      <4> QED
        BY <1>5, <1>8, <1>11, <2>5, <4>1
    <3>2. left'[w] = SubSeq(line, c - (missing - k) + 1, c)
      <4>1. /\ c - missing + 1 \in 1 .. c /\ c \in 1 .. c
            /\ k + 1 \in 1 .. c - (c - missing + 1) + 1
            /\ missing \in 1 .. c - (c - missing + 1) + 1
            /\ (c - missing + 1) + (k + 1) - 1 = c - (missing - k) + 1
            /\ (c - missing + 1) + missing - 1 = c
        BY <1>8, <1>9, <1>11, <2>5
      <4>2. SubSeq(SubSeq(line, c - missing + 1, c), k + 1, missing)
              = SubSeq(line, (c - missing + 1) + (k + 1) - 1, (c - missing + 1) + missing - 1)
        <5> DEFINE i == c - missing + 1
                   m == k + 1
        <5>1. i \in 1 .. c /\ c \in 1 .. c /\ m \in 1 .. c - i + 1 /\ missing \in 1 .. c - i + 1
          BY <4>1
        <5> HIDE DEF i, m, line
        <5>2. SubSeq(SubSeq(line, i, c), m, missing) = SubSeq(line, i + m - 1, i + missing - 1)
          BY <1>9, <5>1, SubSeqOfSubSeq
        <5> QED
          BY <5>2 DEF i, m
      <4> QED
        BY <1>6, <2>3, <4>1, <4>2
    <3> QED
      BY <1>3, <1>5, <2>1, <2>2, <2>6, <3>1, <3>2 DEF Writing
  <2> QED
    BY <2>4, <2>5
<1>19. Typed'
  <2>1. left' \in [Writers -> Seq(Symbol)]
    BY <1>13, <1>16, <1>17
  <2>2. lock' \in Writers \cup {NoWriter} /\ cuts' \in 0 .. MaxCuts
    <3>1. cuts \in 0 .. MaxCuts /\ MaxCuts \in Nat /\ lock \in Writers \cup {NoWriter}
      BY <1>2, WireAssumption DEF Typed
    <3>2. CASE k = Len(left[w])
      BY <1>4, <3>1, <3>2
    <3>3. CASE k # Len(left[w])
      BY <1>4, <3>1, <3>3
    <3> QED
      BY <3>2, <3>3
  <2>3. stream' \in Seq(Symbol)
    <3>1. stream \in Seq(Symbol)
      BY <1>2 DEF Typed
    <3> QED
      BY <1>12, <1>13, <3>1, ConcatProperties
  <2> QED
    BY <1>2, <1>3, <2>1, <2>2, <2>3 DEF Typed
<1>20. Receiving'
  <2>1. status # "closed"
    BY <1>2, <1>5 DEF Receiving
  <2> QED
    BY <1>2, <1>3, <2>1 DEF Receiving, OnlyLongLinesFail
<1> QED
  BY <1>15, <1>18, <1>19, <1>20 DEF WireInv

\* The sender's end closes: what was written of the last line stays.
LEMMA EndKeeps ==
  ASSUME WireInv, End
  PROVE  WireInv'
<1>1. PICK start, missing : Framed(start, missing) /\ Writing(missing)
  BY DEF WireInv
<1>2. Typed /\ Receiving
  BY DEF WireInv
<1>3. /\ ended' = TRUE /\ left' = [v \in Writers |-> <<>>] /\ lock' = NoWriter
      /\ UNCHANGED <<stream, buffer, received, status, sent, written, sends, cuts>>
  BY DEF End
<1>4. Typed'
  <2>1. <<>> \in Seq(Symbol)
    BY EmptySeq
  <2>2. left' \in [Writers -> Seq(Symbol)]
    BY <1>3, <2>1
  <2> QED
    BY <1>2, <1>3, <2>2 DEF Typed
<1>5. Receiving'
  BY <1>2, <1>3 DEF Receiving, OnlyLongLinesFail, HasLine
<1>6. Framed(start, missing)'
  <2>1. Unread' = Unread
    BY <1>3 DEF Unread
  <2> QED
    BY <1>1, <1>3, <2>1, FramedStays
<1>7. Writing(missing)'
  BY <1>1, <1>3 DEF Writing
<1> QED
  BY <1>4, <1>5, <1>6, <1>7 DEF WireInv

-----------------------------------------------------------------------------
(* The invariant *)

\* At first nothing is framed.
LEMMA WireInvInit == Init => WireInv
<1> SUFFICES ASSUME Init PROVE WireInv
  OBVIOUS
<1> DEFINE none == [i \in Nat |-> 0]
<1>1. /\ lock = NoWriter /\ left = [w \in Writers |-> <<>>] /\ stream = <<>> /\ ended = FALSE
      /\ buffer = <<>> /\ received = <<>> /\ status = "reading" /\ sent = <<>>
      /\ sends = [w \in Writers |-> 0] /\ cuts = 0 /\ written = 0
  BY DEF Init
<1>2. Typed
  <2>1. LineLimit \in Nat /\ MaxSends \in Nat /\ MaxCuts \in Nat
    BY WireAssumption
  <2>2. /\ <<>> \in Seq(Symbol) /\ <<>> \in Seq(Arriving) /\ <<>> \in Seq(Sendable)
    BY EmptySeq
  <2>3. left \in [Writers -> Seq(Symbol)]
    BY <1>1, <2>2
  <2>4. sends \in [Writers -> 0 .. MaxSends]
    BY <1>1, <2>1
  <2>5. Len(buffer) <= LineLimit
    BY <1>1, <2>1
  <2>6. cuts \in 0 .. MaxCuts
    BY <1>1, <2>1
  <2> QED
    BY <1>1, <2>2, <2>3, <2>4, <2>5, <2>6 DEF Typed
<1>3. Receiving
  BY <1>1 DEF Receiving, OnlyLongLinesFail
<1>4. Writing(0)
  BY <1>1 DEF Writing
<1>5. Framed(none, 0)
  <2>1. none \in [Nat -> Nat]
    OBVIOUS
  <2>2. Len(sent) = 0 /\ Len(received) = 0 /\ Len(Unread) = 0
    <3>1. Unread = <<>>
      BY <1>1 DEF Unread
    <3> QED
      BY <1>1, <3>1
  <2>3. none[0 + 1] = 0 /\ \A i \in 1 .. 0 + 1 : none[i] = 0
    OBVIOUS
  <2> HIDE DEF none
  <2>4. Frames(none, 0, SentLines, 0, 0, Unread)
    <3>1. /\ \A i \in 1 .. 0 : none[i + 1] = none[i] + Len(SentLines[i])
          /\ \A i \in 0 + 1 .. 0 : \A p \in 1 .. Len(SentLines[i]) :
               none[i] - none[0 + 1] + p <= Len(Unread)
                 => Unread[none[i] - none[0 + 1] + p] = SentLines[i][p]
      OBVIOUS
    <3>2. \A i, j \in 1 .. 0 + 1 : i <= j => none[i] <= none[j]
      BY <2>3
    <3>3. Len(Unread) + 0 = none[0 + 1] - none[0 + 1]
      BY <2>2, <2>3
    <3> QED
      BY <2>1, <3>1, <3>2, <3>3 DEF Frames
  <2> QED
    BY <2>2, <2>4 DEF Framed
<1> QED
  BY <1>2, <1>3, <1>4, <1>5 DEF WireInv

\* What one step does: a thread begins a line, the reader takes one, or neither
\* list of messages changes.
LEMMA WireStep ==
  ASSUME WireInv, [Next]_vars
  PROVE  /\ WireInv'
         /\ \/ received' = received /\ \E m \in Sendable : sent' = Append(sent, m)
            \/ /\ sent' = sent /\ Len(received) < Len(sent)
               /\ received' = Append(received, AsReceived(sent[Len(received) + 1]))
            \/ sent' = sent /\ received' = received
<1>1. CASE \E w \in Writers : Begin(w)
  <2>1. PICK w \in Writers : Begin(w)
    BY <1>1
  <2>2. received' = received
    BY <2>1 DEF Begin
  <2> QED
    BY <2>1, <2>2, BeginKeeps
<1>2. CASE \E w \in Writers : Write(w)
  <2>1. PICK w \in Writers : Write(w)
    BY <1>2
  <2>2. sent' = sent /\ received' = received
    BY <2>1 DEF Write
  <2> QED
    BY <2>1, <2>2, WriteKeeps
<1>3. CASE End
  <2>1. sent' = sent /\ received' = received
    BY <1>3 DEF End
  <2> QED
    BY <1>3, <2>1, EndKeeps
<1>4. CASE TakeLine
  <2>1. sent' = sent
    BY <1>4 DEF TakeLine
  <2> QED
    BY <1>4, <2>1, TakeLineKeeps
<1>5. CASE GiveUp \/ MeetEnd
  <2>1. sent' = sent /\ received' = received
    BY <1>5 DEF GiveUp, MeetEnd
  <2> QED
    BY <1>5, <2>1, StopKeeps
<1>6. CASE Read
  <2>1. sent' = sent /\ received' = received
    BY <1>6 DEF Read
  <2> QED
    BY <1>6, <2>1, ReadKeeps
<1>7. CASE UNCHANGED vars
  <2>1. /\ UNCHANGED <<lock, left, stream, ended, buffer, received, status, sent, written, sends, cuts>>
        /\ Unread' = Unread
    BY <1>7 DEF vars, Unread
  <2>2. PICK start, missing : Framed(start, missing) /\ Writing(missing)
    BY DEF WireInv
  <2>3. Framed(start, missing)' /\ Writing(missing)'
    BY <2>1, <2>2, FramedStays, WritingStays
  <2>4. Typed' /\ Receiving'
    BY <2>1 DEF WireInv, Typed, Receiving, OnlyLongLinesFail, HasLine
  <2> QED
    BY <2>1, <2>3, <2>4 DEF WireInv
<1> QED
  BY <1>1, <1>2, <1>3, <1>4, <1>5, <1>6, <1>7 DEF Next

\* The invariant holds always, whatever the messages are (ts_transport_send,
\* ts_transport_recv).
THEOREM WireInvariant == Spec => []WireInv
<1>1. WireInv /\ [Next]_vars => WireInv'
  BY WireStep
<1> QED
  BY <1>1, WireInvInit, PTL DEF Spec

\* Decoding its line gives back every message that was sent, whatever its texts
\* hold: quotes, backslashes, names of fields, braces (json_escape, find_key,
\* parse_json_string_alloc, json_get_object).
THEOREM DecodingGivesBack == Spec => []MessagesComeBack
<1>1. WireInv => MessagesComeBack
  <2> SUFFICES ASSUME WireInv, NEW i \in DOMAIN sent PROVE ComesBack(sent[i])
    BY DEF MessagesComeBack
  <2>1. sent[i] \in Sendable
    BY DEF WireInv, Typed
  <2> QED
    BY <2>1, SentComeBack
<1> QED
  BY <1>1, WireInvariant, PTL

\* The reader gives up a connection for one reason only: the next line is
\* longer than its buffer (ts_transport_recv).
THEOREM OnlyLongLinesAreGivenUp == Spec => []OnlyLongLinesFail
<1>1. WireInv => OnlyLongLinesFail
  BY DEF WireInv, Receiving
<1> QED
  BY <1>1, WireInvariant, PTL

\* What was written to its end is never lost: once the stream has ended, the
\* messages received are exactly those whose lines were written as a whole, and
\* only a line the sender did not finish is missing (ts_transport_recv).
THEOREM NoWholeLineIsLost == Spec => []WholeLinesArrive
<1>1. WireInv => WholeLinesArrive
  <2> SUFFICES ASSUME WireInv, status = "closed"
               PROVE  Len(received) = written
    BY DEF WholeLinesArrive
  <2> DEFINE n == Len(sent)
             r == Len(received)
             line == SentLines[r + 1]
             c == Len(line)
             e == Len(SentLines[n])
  <2>1. PICK start, missing : Framed(start, missing) /\ Writing(missing)
    BY DEF WireInv
  <2>2. Typed /\ Receiving
    BY DEF WireInv
  <2>3. stream = <<>> /\ ~ HasLine
    BY <2>2 DEF Receiving
  <2>4. /\ n \in Nat /\ r \in Nat /\ r <= n
        /\ Len(buffer) \in Nat /\ Len(Unread) = Len(buffer) + Len(stream)
        /\ DOMAIN buffer = 1 .. Len(buffer)
    BY <2>2, UnreadParts DEF Receiving, Typed
  <2>5. Len(Unread) = Len(buffer)
    <3>1. Len(stream) = 0
      BY <2>3
    <3> QED
      BY <2>4, <3>1
  <2>6. /\ missing \in Nat /\ Len(Unread) + missing = start[n + 1] - start[r + 1]
        /\ missing > 0 => missing <= e
        /\ written = IF missing > 0 THEN n - 1 ELSE n
    BY <2>1 DEF Framed, Frames, Writing
  <2>7. \A i \in 1 .. n + 1 : start[i] \in Nat
    <3>1. start \in [Nat -> Nat]
      BY <2>1 DEF Framed, Frames
    <3> QED
      BY <2>4, <3>1
  <2>8. r <= written
    <3>1. CASE r = n /\ missing > 0
      <4> DEFINE z == start[n + 1]
      <4>1. z \in Nat /\ Len(buffer) + missing = z - z
        BY <2>4, <2>5, <2>6, <2>7, <3>1
      <4> HIDE DEF z
      <4> QED
        BY <2>4, <2>6, <3>1, <4>1
    <3> QED
      BY <2>4, <2>6, <3>1
  <2>9. ASSUME r < written PROVE FALSE
    <3>1. r < n /\ r + 1 \in 1 .. n /\ n \in 1 .. n
      BY <2>4, <2>6, <2>9
    <3>2. c \in Nat \ {0} /\ e \in Nat \ {0}
      BY <2>2, <3>1, LinesOfMessages
    <3> DEFINE a == start[r + 1]
               b == start[r + 2]
               d == start[n]
               z == start[n + 1]
    <3>3. a \in Nat /\ b \in Nat /\ d \in Nat /\ z \in Nat
      <4>1. r + 1 \in 1 .. n + 1 /\ r + 2 \in 1 .. n + 1 /\ n \in 1 .. n + 1 /\ n + 1 \in 1 .. n + 1
        BY <2>4, <3>1
      <4> HIDE DEF r, n
      <4> QED
        BY <2>7, <4>1
    <3>4. b = a + c /\ z = d + e
      <4>1. \A i \in 1 .. n : start[i + 1] = start[i] + Len(SentLines[i])
        BY <2>1 DEF Framed, Frames
      <4>2. start[r + 1 + 1] = a + c /\ z = d + e
        BY <3>1, <4>1
      <4>3. r + 1 + 1 = r + 2
        BY <2>4
      <4>4. start[r + 1 + 1] = b
        BY <4>3, Zenon
      <4> QED
        BY <4>2, <4>4
    <3>5. b <= z /\ (missing > 0 => b <= d)
      <4>1. \A i, j \in 1 .. n + 1 : i <= j => start[i] <= start[j]
        BY <2>1 DEF Framed, Frames
      <4>2. /\ r + 2 \in 1 .. n + 1 /\ n \in 1 .. n + 1 /\ n + 1 \in 1 .. n + 1
            /\ r + 2 <= n + 1 /\ (missing > 0 => r + 2 <= n)
        BY <2>4, <2>6, <2>9, <3>1
      <4> HIDE DEF r, n
      <4> QED
        BY <4>1, <4>2
    <3>6. \A p \in 1 .. Len(buffer) : p <= c => (buffer[p] = Newline <=> p = c)
      BY <2>1, <2>2, <3>1, NextLine
    <3>7. Len(buffer) + missing = z - a
      BY <2>5, <2>6
    <3> HIDE DEF a, b, d, z, c, e
    <3>8. c <= Len(buffer)
      <4>1. CASE missing = 0
        BY <2>4, <3>2, <3>3, <3>4, <3>5, <3>7, <4>1
      <4>2. CASE missing > 0
        BY <2>4, <2>6, <3>2, <3>3, <3>4, <3>5, <3>7, <4>2
      <4> QED
        BY <2>6, <4>1, <4>2
    <3>9. c \in 1 .. Len(buffer) /\ buffer[c] = Newline
      BY <2>4, <3>2, <3>6, <3>8
    <3> QED
      BY <2>3, <2>4, <3>9 DEF HasLine
  <2> QED
    BY <2>4, <2>6, <2>8, <2>9
<1> QED
  BY <1>1, WireInvariant, PTL

\* The messages are received in the order they were sent, each once, as they
\* were sent: the connection is a channel (ts_transport_send, ts_transport_recv).
THEOREM WireIsAChannel == Spec => ImplementsChannel
<1> DEFINE arriving == [i \in DOMAIN sent |-> AsReceived(sent[i])]
<1>1. Init => FIFO!Init
  BY DEF Init, FIFO!Init
<1>2. WireInv /\ [Next]_vars => [FIFO!Next]_<<arriving, received>>
  <2> SUFFICES ASSUME WireInv, [Next]_vars
               PROVE  [FIFO!Next]_<<arriving, received>>
    OBVIOUS
  <2>1. sent \in Seq(Sendable) /\ DOMAIN sent = 1 .. Len(sent) /\ Len(sent) \in Nat /\ Len(received) \in Nat
    BY DEF WireInv, Typed
  <2>2. arriving \in Seq(Arriving) /\ Len(arriving) = Len(sent)
    <3>1. \A i \in 1 .. Len(sent) : AsReceived(sent[i]) \in Arriving
      BY <2>1 DEF Arriving, Sendable
    <3>2. arriving \in [1 .. Len(sent) -> Arriving]
      BY <2>1, <3>1
    <3> HIDE DEF arriving
    <3> QED
      BY <2>1, <3>2
  <2>3. CASE received' = received /\ \E m \in Sendable : sent' = Append(sent, m)
    <3>1. PICK m \in Sendable : sent' = Append(sent, m)
      BY <2>3
    <3>2. AsReceived(m) \in Arriving
      BY DEF Arriving, Sendable
    <3>3. /\ DOMAIN sent' = 1 .. Len(sent) + 1
          /\ \A i \in 1 .. Len(sent) : sent'[i] = sent[i]
          /\ sent'[Len(sent) + 1] = m
      <4>1. /\ sent' \in Seq(Sendable) /\ Len(sent') = Len(sent) + 1
            /\ \A i \in 1 .. Len(sent) : sent'[i] = sent[i]
            /\ sent'[Len(sent) + 1] = m
        BY <2>1, <3>1, AppendProperties
      <4> QED
        BY <4>1
    <3>4. arriving' = Append(arriving, AsReceived(m))
      <4> DEFINE more == Append(arriving, AsReceived(m))
      <4>1. /\ more \in Seq(Arriving) /\ Len(more) = Len(arriving) + 1
            /\ \A i \in 1 .. Len(arriving) : more[i] = arriving[i]
            /\ more[Len(arriving) + 1] = AsReceived(m)
        <5> HIDE DEF arriving
        <5> QED
          BY <2>2, <3>2, AppendProperties
      <4> HIDE DEF more
      <4>2. \A i \in 1 .. Len(sent) + 1 : more[i] = AsReceived(sent'[i])
        <5> TAKE i \in 1 .. Len(sent) + 1
        <5>1. CASE i \in 1 .. Len(sent)
          BY <2>1, <2>2, <3>3, <4>1, <5>1
        <5>2. CASE i = Len(sent) + 1
          BY <2>2, <3>3, <4>1, <5>2
        <5> QED
          BY <2>1, <5>1, <5>2
      <4>3. more = [i \in 1 .. Len(sent) + 1 |-> more[i]]
        BY <2>2, <4>1
      <4>4. more = [i \in 1 .. Len(sent) + 1 |-> AsReceived(sent'[i])]
        BY <4>2, <4>3
      <4> QED
        BY <3>3, <4>4 DEF more
    <3>5. FIFO!Send
      BY <2>3, <3>2, <3>4 DEF FIFO!Send
    <3> QED
      BY <3>5 DEF FIFO!Next
  <2>4. CASE /\ sent' = sent /\ Len(received) < Len(sent)
             /\ received' = Append(received, AsReceived(sent[Len(received) + 1]))
    <3>1. Len(received) + 1 \in DOMAIN sent
      BY <2>1, <2>4
    <3>2. arriving[Len(received) + 1] = AsReceived(sent[Len(received) + 1]) /\ arriving' = arriving
      BY <2>4, <3>1
    <3>3. FIFO!Receive
      BY <2>2, <2>4, <3>2 DEF FIFO!Receive
    <3> QED
      BY <3>3 DEF FIFO!Next
  <2>5. CASE sent' = sent /\ received' = received
    BY <2>5
  <2> QED
    BY <2>3, <2>4, <2>5, WireStep
<1> QED
  BY <1>1, <1>2, WireInvariant, PTL DEF Spec, ImplementsChannel, FIFO!Spec

-----------------------------------------------------------------------------
(* Types *)

\* Each message sent is one of those its writer has begun.
Counted ==
  \E by \in Injection(1 .. Len(sent), Writers \X (1 .. MaxSends)) :
    \A i \in 1 .. Len(sent) : by[i][2] <= sends[by[i][1]]

\* Beginning a message uses up one of its writer's.
LEMMA CountedStep ==
  ASSUME WireInv, Counted, [Next]_vars
  PROVE  Counted'
<1> DEFINE n == Len(sent)
           T == Writers \X (1 .. MaxSends)
<1>1. /\ sent \in Seq(Sendable) /\ sends \in [Writers -> 0 .. MaxSends] /\ n \in Nat /\ MaxSends \in Nat
  BY WireAssumption DEF WireInv, Typed
<1>2. PICK by \in Injection(1 .. n, T) : \A i \in 1 .. n : by[i][2] <= sends[by[i][1]]
  BY DEF Counted
<1>3. CASE \E w \in Writers : Begin(w)
  <2>1. PICK w \in Writers : Begin(w)
    BY <1>3
  <2>2. sends[w] < MaxSends /\ sends' = [sends EXCEPT ![w] = sends[w] + 1]
    BY <2>1 DEF Begin
  <2>3. sends[w] \in Nat /\ sends[w] + 1 \in 1 .. MaxSends
    BY <1>1, <2>2
  <2>4. Len(sent') = n + 1
    <3>1. PICK m \in Sendable : sent' = Append(sent, m)
      BY <2>1, BeginKeeps
    <3> QED
      BY <1>1, <3>1, AppendProperties
  <2> DEFINE new == <<w, sends[w] + 1>>
             more == [i \in 1 .. n + 1 |-> IF i = n + 1 THEN new ELSE by[i]]
  <2>5. new \in T /\ new[1] = w /\ new[2] = sends[w] + 1
    BY <2>3
  <2>6. /\ by \in [1 .. n -> T]
        /\ \A i, j \in 1 .. n : by[i] = by[j] => i = j
    BY <1>2 DEF Injection, IsInjective
  <2>7. \A i \in 1 .. n : by[i][1] \in Writers /\ by[i][2] \in Nat
    BY <1>1, <2>6
  <2>8. \A i \in 1 .. n : by[i] # new
    <3> SUFFICES ASSUME NEW i \in 1 .. n, by[i] = new PROVE FALSE
      OBVIOUS
    <3>1. by[i][1] = w /\ by[i][2] = sends[w] + 1
      BY <2>5
    <3>2. sends[w] + 1 <= sends[w]
      BY <1>2, <3>1
    <3> QED
      BY <2>3, <3>2
  <2>9. \A i \in 1 .. n + 1 : i \in 1 .. n \/ i = n + 1
    BY <1>1
  <2>10. \A i \in 1 .. n : i # n + 1 /\ i \in 1 .. n + 1
    BY <1>1
  <2>11. n + 1 \in 1 .. n + 1
    BY <1>1
  <2> HIDE DEF new, T
  <2>12. more \in [1 .. n + 1 -> T]
    BY <2>5, <2>6, <2>9, <2>10
  <2>13. more[n + 1] = new /\ \A i \in 1 .. n : more[i] = by[i]
    BY <2>10, <2>11
  <2> HIDE DEF more
  <2>14. \A i, j \in 1 .. n + 1 : more[i] = more[j] => i = j
    BY <2>6, <2>8, <2>9, <2>13
  <2>15. more \in Injection(1 .. n + 1, T)
    BY <2>12, <2>14 DEF Injection, IsInjective
  <2>16. \A v \in Writers : sends[v] \in Nat /\ sends[v] <= sends'[v]
    <3> TAKE v \in Writers
    <3>1. sends[v] \in Nat
      BY <1>1
    <3>2. sends'[v] = IF v = w THEN sends[w] + 1 ELSE sends[v]
      BY <1>1, <2>2
    <3> QED
      BY <3>1, <3>2
  <2>17. \A i \in 1 .. n + 1 : more[i][2] <= sends'[more[i][1]]
    <3> TAKE i \in 1 .. n + 1
    <3>1. CASE i \in 1 .. n
      <4>1. /\ more[i] = by[i] /\ by[i][1] \in Writers /\ by[i][2] \in Nat
            /\ by[i][2] <= sends[by[i][1]]
        BY <1>2, <2>7, <2>13, <3>1
      <4>2. sends[by[i][1]] \in Nat /\ sends[by[i][1]] <= sends'[by[i][1]] /\ sends'[by[i][1]] \in Nat
        <5>1. sends' \in [Writers -> Nat]
          <6>1. sends \in [Writers -> Nat]
            BY <1>1
          <6> QED
            BY <2>2, <2>3, <6>1
        <5> QED
          BY <2>16, <4>1, <5>1
      <4> QED
        BY <4>1, <4>2
    <3>2. CASE i = n + 1
      <4>1. more[i][1] = w /\ more[i][2] = sends[w] + 1
        BY <2>5, <2>13, <3>2
      <4>2. sends'[w] = sends[w] + 1
        BY <1>1, <2>2
      <4> QED
        BY <2>3, <4>1, <4>2
    <3> QED
      BY <2>9, <3>1, <3>2
  <2> QED
    BY <2>4, <2>15, <2>17 DEF Counted, T
<1>4. CASE ~ \E w \in Writers : Begin(w)
  <2>1. sends' = sends /\ sent' = sent
    BY <1>4 DEF Next, Write, End, TakeLine, GiveUp, Read, MeetEnd, vars
  <2> QED
    BY <2>1 DEF Counted
<1> QED
  BY <1>3, <1>4

\* Every variable keeps its type, the buffer its limit, and what a thread has
\* left to write ends its line (ts_transport_send, ts_transport_recv).
THEOREM WireTypeCorrect == Spec => []TypeOK
<1>1. Init => Counted
  <2> SUFFICES ASSUME Init PROVE Counted
    OBVIOUS
  <2>1. Len(sent) = 0
    BY DEF Init
  <2> DEFINE none == [i \in 1 .. 0 |-> <<>>]
  <2>2. \A i \in 1 .. 0 : FALSE
    OBVIOUS
  <2>3. none \in Injection(1 .. 0, Writers \X (1 .. MaxSends))
    BY <2>2 DEF Injection, IsInjective
  <2> HIDE DEF none
  <2> QED
    BY <2>1, <2>2, <2>3 DEF Counted
<1>2. WireInv /\ Counted /\ [Next]_vars => Counted'
  BY CountedStep
<1>3. WireInv /\ Counted => TypeOK
  <2> SUFFICES ASSUME WireInv, Counted PROVE TypeOK
    OBVIOUS
  <2>1. PICK start, missing : Framed(start, missing) /\ Writing(missing)
    BY DEF WireInv
  <2>2. Typed /\ Receiving
    BY DEF WireInv
  <2>3. ASSUME NEW w \in Writers, left[w] # <<>>
        PROVE  Last(left[w]) = Newline
    <3> DEFINE line == SentLines[Len(sent)]
               c == Len(line)
    <3>1. lock = w /\ lock # NoWriter
      BY <2>1, <2>3, WireAssumption DEF Writing
    <3>2. missing > 0 /\ left[w] = SubSeq(line, c - missing + 1, c)
      BY <2>1, <3>1 DEF Writing
    <3>3. /\ missing \in Nat /\ missing <= c /\ line \in Seq(Symbol) /\ c \in Nat \ {0}
          /\ line[c] = Newline
      BY <2>1, <2>2, <3>2, LastLine
    <3> HIDE DEF line, c
    <3> DEFINE a == c - missing + 1
    <3>4. a \in Nat \ {0} /\ a <= c + 1 /\ c \in Nat /\ c <= c /\ c - a + 1 = missing /\ a + missing - 1 = c
      BY <3>3
    <3> HIDE DEF a
    <3>5. /\ Len(SubSeq(line, a, c)) = c - a + 1
          /\ \A p \in 1 .. c - a + 1 : SubSeq(line, a, c)[p] = line[a + p - 1]
      <4>1. c = Len(line)
        BY DEF c
      <4>2. line \in Seq(Symbol) /\ a \in Nat \ {0} /\ c \in Nat /\ a <= c + 1 /\ c <= Len(line)
        BY <3>3, <3>4, <4>1
      <4> QED
        BY <4>2, PartOf, ZenonT(30)
    <3>6. Len(SubSeq(line, a, c)) = missing /\ missing \in 1 .. c - a + 1
      BY <3>2, <3>3, <3>4, <3>5
    <3>7. SubSeq(line, a, c)[missing] = line[c]
      BY <3>4, <3>5, <3>6
    <3>8. left[w] = SubSeq(line, a, c)
      BY <3>2 DEF a
    <3>9. Last(left[w]) = left[w][missing]
      BY <3>6, <3>8 DEF Last
    <3> QED
      BY <3>3, <3>7, <3>8, <3>9
  <2>4. Len(sent) <= Cardinality(Writers) * MaxSends
    <3>1. PICK by : by \in Injection(1 .. Len(sent), Writers \X (1 .. MaxSends))
      BY DEF Counted
    <3>2. MaxSends \in Nat /\ IsFiniteSet(Writers) /\ Len(sent) \in Nat
      BY <2>2, WireAssumption DEF Typed
    <3>3. IsFiniteSet(1 .. MaxSends) /\ Cardinality(1 .. MaxSends) = MaxSends
      <4>1. /\ IsFiniteSet(1 .. MaxSends)
            /\ Cardinality(1 .. MaxSends) = IF 1 > MaxSends THEN 0 ELSE MaxSends - 1 + 1
        BY <3>2, FS_Interval
      <4> QED
        BY <3>2, <4>1
    <3>4. Cardinality(1 .. Len(sent)) = Len(sent)
      <4>1. Cardinality(1 .. Len(sent)) = IF 1 > Len(sent) THEN 0 ELSE Len(sent) - 1 + 1
        BY <3>2, FS_Interval
      <4> QED
        BY <3>2, <4>1
    <3> DEFINE T == Writers \X (1 .. MaxSends)
    <3>5. IsFiniteSet(T) /\ Cardinality(T) = Cardinality(Writers) * Cardinality(1 .. MaxSends)
      BY <3>2, <3>3, FS_Product
    <3> HIDE DEF T
    <3>6. Cardinality(1 .. Len(sent)) <= Cardinality(T)
      BY <3>1, <3>5, FS_Injection DEF T
    <3> QED
      BY <3>3, <3>4, <3>5, <3>6
  <2>5. written \in 0 .. Len(sent)
    <3>1. Len(sent) \in Nat /\ missing \in Nat
      BY <2>1, <2>2 DEF Framed, Frames, Typed
    <3>2. missing > 0 => Len(sent) > 0
      BY <2>1, <2>2, LastLine
    <3>3. written = IF missing > 0 THEN Len(sent) - 1 ELSE Len(sent)
      BY <2>1 DEF Writing
    <3> QED
      BY <3>1, <3>2, <3>3
  <2> QED
    BY <2>2, <2>3, <2>4, <2>5 DEF TypeOK, Typed
<1> QED
  BY <1>1, <1>2, <1>3, WireInvariant, PTL DEF Spec
===============================================================================
