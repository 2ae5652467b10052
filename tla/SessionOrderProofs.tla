--------------------------- MODULE SessionOrderProofs ---------------------------
(* Where a client's operations are, in which order, and who still answers      *)
(* them: for any number of clients and whatever they type.                     *)
EXTENDS SessionProofs

-----------------------------------------------------------------------------
(* The inductive invariant *)

OpMessages == [type : {"OP"}, id : OpIds, op : Operation(Char), base : Nat]

\* The elements of q that are in S carry growing numbers.
InOrder(q, S) ==
  \A i, j \in DOMAIN q : i < j /\ q[i] \in S /\ q[j] \in S => q[i].id[2] < q[j].id[2]

\* The numbers of c's operations the server has answered.
Numbers(c, n, entries, dropped) ==
  {entries[v].id[2] : v \in {w \in 1 .. n : entries[w].id[1] = c}}
    \cup {id[2] : id \in {x \in dropped : x[1] = c}}

\* What was answered comes before what is on the wire, and that before what is
\* queued.
Ordered(s, answers) ==
  /\ InOrder(s.queue, Item) /\ InOrder(s.toServer, OpMessages)
  /\ \A m \in Range(s.toServer) \cap OpMessages :
       /\ m.id[2] < s.nextOp
       /\ \A item \in Range(s.queue) : m.id[2] < item.id[2]
       /\ \A k \in answers : k < m.id[2]
  /\ \A item \in Range(s.queue) : item.id[2] < s.nextOp /\ \A k \in answers : k < item.id[2]
  /\ \A k \in answers : k < s.nextOp

\* Nothing that was typed is lost.
Covered(s, answers) ==
  \A k \in 1 .. s.nextOp - 1 :
    \/ k \in answers
    \/ \E m \in Range(s.toServer) \cap OpMessages : m.id[2] = k
    \/ \E item \in Range(s.queue) : item.id[2] = k

\* What is sent is what the user typed.
Submitted(s) ==
  /\ \A item \in Range(s.queue) : item.op \in Submission(item.id)
  /\ \A m \in Range(s.toServer) \cap OpMessages : m.op \in Submission(m.id)

\* A client does not reach the version that its operation in flight made but by
\* its ACK or by a document.
Behind(s, n, entries) ==
  \A v \in 1 .. n : s.inflight # <<>> /\ entries[v].id = s.inflight[1].id => s.version < v

\* What the server answered, it answered once and in order.
AnsweredInOrder(n, entries, dropped) ==
  /\ \A v, w \in 1 .. n :
       v < w /\ entries[v].id[1] = entries[w].id[1] => entries[v].id[2] < entries[w].id[2]
  /\ \A v \in 1 .. n : entries[v].id \notin dropped

Answers(c) == Numbers(c, version, log, refused)

OrderInv ==
  /\ \A c \in Clients : /\ Ordered(client[c], Answers(c))
                        /\ Submitted(client[c])
                        /\ Behind(client[c], version, log)
  /\ \A c \in running : Covered(client[c], Answers(c))
  /\ AnsweredInOrder(version, log, refused)

\* What a client waits for is on its way to the server or back.
Awaited(s, incoming) ==
  /\ s.inflight # <<>> =>
       \/ \E m \in Range(s.toServer) : m.type = "OP" /\ m.id = s.inflight[1].id
       \/ \E m \in incoming : m.type \in {"ACK", "RESYNC_REQUIRED"} /\ m.id = s.inflight[1].id
  /\ s.inflight = <<>> /\ s.queue # <<>> =>
       \/ \E m \in Range(s.toServer) : m.type = "REQUEST_DOC"
       \/ \E m \in incoming : m.type = "DOC_STATE"

Arriving(c) == Range(toClient[c]) \cup Range(thread[c].out)

AwaitedInv ==
  /\ \A c \in running : Awaited(client[c], Arriving(c))
  /\ \A c \in Clients : thread[c].stage \in {"accepted", "registered"} => thread[c].out = <<>>

\* Whoever has had no document is going to get one.
Due(c) ==
  \/ thread[c].stage \in {"accepted", "registered"}
  \/ \E m \in Arriving(c) : m.type = "DOC_STATE"

FirstInv == \A c \in running : client[c].copy = "none" => Due(c)

\* There is one operation in flight at most; on the wire it is what the user
\* typed, and when it is accepted an insertion is recorded as an insertion.
Unaltered(s, n, entries) ==
  /\ Len(s.inflight) <= 1
  /\ s.inflight # <<>> =>
       LET x == s.inflight[1]
       IN  /\ x.op \in Submission(x.id)
           /\ \A m \in Range(s.toServer) \cap OpMessages : m.id = x.id => m.op = x.op
           /\ \A v \in 1 .. n :
                entries[v].id = x.id /\ x.op.kind = "insert" => entries[v].op.kind = "insert"

UnalteredInv == \A c \in Clients : Unaltered(client[c], version, log)

-----------------------------------------------------------------------------
(* Sequences of numbered things *)

\* A sequence is its head and its tail.
LEMMA HeadAndTail ==
  ASSUME NEW T, NEW q \in Seq(T), q # <<>>
  PROVE  Range(q) = Range(Tail(q)) \cup {Head(q)}
<1> DEFINE t == Tail(q)
<1>1. /\ Len(q) \in Nat /\ Head(q) = q[1] /\ 1 \in 1 .. Len(q)
      /\ t \in Seq(T) /\ Len(t) = Len(q) - 1
      /\ \A i \in 1 .. Len(q) - 1 : t[i] = q[i + 1]
  BY HeadTailProperties
<1> HIDE DEF t
<1>2. Range(q) = {q[i] : i \in 1 .. Len(q)} /\ Range(t) = {t[i] : i \in 1 .. Len(t)}
  BY <1>1, RangeEquality
<1>3. \A i \in 1 .. Len(q) - 1 : i + 1 \in 1 .. Len(q)
  BY <1>1
<1>4. ASSUME NEW x \in Range(q), x # Head(q)
      PROVE  x \in Range(t)
  <2>1. PICK i \in 1 .. Len(q) : x = q[i]
    BY <1>2
  <2>2. i - 1 \in 1 .. Len(q) - 1 /\ i - 1 + 1 = i
    BY <1>1, <1>4, <2>1
  <2>3. t[i - 1] = x
    BY <1>1, <2>1, <2>2
  <2> QED
    BY <1>1, <1>2, <2>2, <2>3
<1>5. Range(t) \cup {Head(q)} \subseteq Range(q)
  BY <1>1, <1>2, <1>3
<1>6. Range(q) = Range(t) \cup {Head(q)}
  BY <1>4, <1>5
<1> QED
  BY <1>6 DEF t

\* Taking the first of a sequence leaves the others in order, and behind it.
LEMMA InOrderTail ==
  ASSUME NEW T, NEW q \in Seq(T), q # <<>>, NEW S, InOrder(q, S)
  PROVE  /\ InOrder(Tail(q), S)
         /\ Head(q) \in S => \A m \in Range(Tail(q)) \cap S : Head(q).id[2] < m.id[2]
<1> DEFINE t == Tail(q)
<1>1. /\ Len(q) \in Nat /\ DOMAIN q = 1 .. Len(q) /\ 1 \in 1 .. Len(q) /\ Head(q) = q[1]
      /\ t \in Seq(T) /\ DOMAIN t = 1 .. Len(q) - 1
      /\ \A i \in 1 .. Len(q) - 1 : t[i] = q[i + 1]
  BY HeadTailProperties
<1>2. Range(t) = {t[i] : i \in 1 .. Len(q) - 1}
  BY <1>1 DEF Range
<1> HIDE DEF t
<1>3. \A i \in 1 .. Len(q) - 1 : i + 1 \in 1 .. Len(q) /\ 1 < i + 1
  BY <1>1
<1>4. InOrder(t, S)
  <2> SUFFICES ASSUME NEW i \in 1 .. Len(q) - 1, NEW j \in 1 .. Len(q) - 1, i < j, t[i] \in S, t[j] \in S
               PROVE  t[i].id[2] < t[j].id[2]
    BY <1>1 DEF InOrder
  <2>1. t[i] = q[i + 1] /\ t[j] = q[j + 1] /\ i + 1 \in DOMAIN q /\ j + 1 \in DOMAIN q /\ i + 1 < j + 1
    BY <1>1, <1>3
  <2> QED
    BY <2>1 DEF InOrder
<1>5. ASSUME Head(q) \in S, NEW m \in Range(t) \cap S
      PROVE  Head(q).id[2] < m.id[2]
  <2>1. PICK i \in 1 .. Len(q) - 1 : m = t[i]
    BY <1>2
  <2>2. m = q[i + 1] /\ i + 1 \in DOMAIN q /\ 1 \in DOMAIN q /\ 1 < i + 1
    BY <1>1, <1>3, <2>1
  <2>3. q[1] \in S /\ q[i + 1] \in S
    BY <1>1, <1>5, <2>2
  <2> QED
    BY <1>1, <2>2, <2>3 DEF InOrder
<1> QED
  BY <1>4, <1>5 DEF t

\* What is appended with a higher number than all others is in order.
LEMMA InOrderAppend ==
  ASSUME NEW T, NEW q \in Seq(T), NEW S, NEW x \in T, InOrder(q, S),
         x \in S => \A m \in Range(q) \cap S : m.id[2] < x.id[2]
  PROVE  InOrder(Append(q, x), S)
<1> DEFINE t == Append(q, x)
<1>1. /\ Len(q) \in Nat /\ DOMAIN q = 1 .. Len(q) /\ DOMAIN t = 1 .. Len(q) + 1
      /\ \A i \in 1 .. Len(q) : t[i] = q[i]
      /\ t[Len(q) + 1] = x
  BY AppendProperties
<1>2. Range(q) = {q[i] : i \in 1 .. Len(q)}
  BY <1>1 DEF Range
<1> HIDE DEF t
<1>3. \A i, j \in 1 .. Len(q) + 1 : i < j => i \in 1 .. Len(q) /\ (j \in 1 .. Len(q) \/ j = Len(q) + 1)
  BY <1>1
<1>4. InOrder(t, S)
  BY <1>1, <1>2, <1>3 DEF InOrder
<1> QED
  BY <1>4 DEF t

\* The beginning of what is in order is in order.
LEMMA InOrderPrefix ==
  ASSUME NEW T, NEW q \in Seq(T), NEW S, NEW n \in 0 .. Len(q), InOrder(q, S)
  PROVE  InOrder(SubSeq(q, 1, n), S)
<1> DEFINE t == SubSeq(q, 1, n)
<1>1. n \in Int /\ 1 .. n \subseteq 1 .. Len(q) /\ DOMAIN q = 1 .. Len(q)
  OBVIOUS
<1>2. \A i \in 1 .. n : q[i] \in T
  BY <1>1, ElementOfSeq
<1>3. /\ t \in Seq(T)
      /\ Len(t) = IF 1 <= n THEN n - 1 + 1 ELSE 0
      /\ \A i \in 1 .. n - 1 + 1 : t[i] = q[1 + i - 1]
  BY <1>1, <1>2, SubSeqProperties
<1> HIDE DEF t
<1>4. DOMAIN t = 1 .. n /\ \A i \in 1 .. n : t[i] = q[i]
  BY <1>1, <1>3
<1>5. InOrder(t, S)
  BY <1>1, <1>4 DEF InOrder
<1> QED
  BY <1>5 DEF t

-----------------------------------------------------------------------------
(* What the client's functions keep *)

\* The parts of a client that say where its operations are.
Places(s) == <<s.queue, s.toServer, s.nextOp>>

\* The three facts are about the places where operations are, not about the
\* client's copy of the text.
LEMMA SamePlaces ==
  ASSUME NEW s \in ClientType, NEW t \in ClientType, NEW answers, Places(t) = Places(s)
  PROVE  /\ Ordered(s, answers) => Ordered(t, answers)
         /\ Covered(s, answers) => Covered(t, answers)
         /\ Submitted(s) => Submitted(t)
<1>1. t.queue = s.queue /\ t.toServer = s.toServer /\ t.nextOp = s.nextOp
  BY DEF Places
<1> QED
  BY <1>1 DEF Ordered, Covered, Submitted

\* A request for the document does not come between the operations
\* (handle_remote, ts_client_state_handle_message).
LEMMA RequestOrder ==
  ASSUME NEW s \in ClientType, NEW answers
  PROVE  LET t == Send(s, RequestDoc)
         IN  /\ Ordered(s, answers) => Ordered(t, answers)
             /\ Covered(s, answers) => Covered(t, answers)
             /\ Submitted(s) => Submitted(t)
<1> DEFINE t == Send(s, RequestDoc)
<1>1. RequestDoc \in ClientMessage /\ RequestDoc \notin OpMessages
  BY DEF ClientMessage, RequestDoc, OpMessages
<1>2. s.toServer \in Seq(ClientMessage)
  BY DEF ClientType
<1>3. t.queue = s.queue /\ t.nextOp = s.nextOp /\ t.toServer = Append(s.toServer, RequestDoc)
  BY DEF Send, ClientType
<1>4. Range(Append(s.toServer, RequestDoc)) = Range(s.toServer) \cup {RequestDoc}
  BY <1>1, <1>2, RangeAppend
<1> HIDE DEF t
<1>5. Range(t.toServer) \cap OpMessages = Range(s.toServer) \cap OpMessages
  BY <1>1, <1>3, <1>4
<1>6. InOrder(s.toServer, OpMessages) => InOrder(Append(s.toServer, RequestDoc), OpMessages)
  BY <1>1, <1>2, InOrderAppend
<1>7. Ordered(s, answers) => Ordered(t, answers)
  BY <1>3, <1>5, <1>6 DEF Ordered
<1>8. Covered(s, answers) => Covered(t, answers)
  BY <1>3, <1>5 DEF Covered
<1>9. Submitted(s) => Submitted(t)
  BY <1>3, <1>5 DEF Submitted
<1> QED
  BY <1>7, <1>8, <1>9 DEF t

\* The head of the queue joins the end of the wire, between what is there and
\* what stays queued (state_pump).
LEMMA PumpOrder ==
  ASSUME NEW s \in ClientType, NEW answers, Ordered(s, answers), Submitted(s)
  PROVE  /\ Ordered(Pump(s), answers) /\ Submitted(Pump(s))
         /\ Covered(s, answers) => Covered(Pump(s), answers)
<1>1. CASE Pump(s) = s
  BY <1>1
<1>2. CASE s.queue # <<>> /\ Pump(s) = Pumped(s)
  <2> DEFINE item == Head(s.queue)
             rest == Tail(s.queue)
             m == OpMessage(item, s.version)
             t == Pumped(s)
  <2>1. s.queue \in Seq(Item) /\ s.toServer \in Seq(ClientMessage) /\ s.version \in Nat /\ s.nextOp \in Nat
    BY DEF ClientType
  <2>2. /\ item \in Item /\ item \in Range(s.queue)
        /\ rest \in Seq(Item) /\ Range(rest) \subseteq Range(s.queue)
    BY <1>2, <2>1, RangeFacts, HeadTailProperties
  <2>3. m \in ClientMessage /\ m \in OpMessages /\ m.id = item.id /\ m.op = item.op
    BY <2>1, <2>2 DEF OpMessage, ClientMessage, OpMessages, Item
  <2>4. t.queue = rest /\ t.nextOp = s.nextOp /\ t.toServer = Append(s.toServer, m)
    BY DEF Pumped, ClientType
  <2>5. Range(s.queue) = Range(rest) \cup {item}
    BY <1>2, <2>1, HeadAndTail
  <2>6. /\ InOrder(rest, Item)
        /\ \A x \in Range(rest) : item.id[2] < x.id[2]
    <3>1. Range(rest) \subseteq Item
      BY <2>2, RangeFacts
    <3> QED
      BY <1>2, <2>1, <2>2, <3>1, InOrderTail DEF Ordered
  <2> HIDE DEF item, rest, m, t
  <2>7. Range(t.toServer) = Range(s.toServer) \cup {m}
    BY <2>1, <2>3, <2>4, RangeAppend
  <2>8. InOrder(t.toServer, OpMessages)
    BY <2>1, <2>2, <2>3, <2>4, InOrderAppend DEF Ordered
  <2>9. Ordered(t, answers)
    BY <2>2, <2>3, <2>4, <2>6, <2>7, <2>8 DEF Ordered
  <2>10. Submitted(t)
    BY <2>2, <2>3, <2>4, <2>7 DEF Submitted
  <2>11. ASSUME Covered(s, answers) PROVE Covered(t, answers)
    BY <2>3, <2>4, <2>5, <2>7, <2>11 DEF Covered
  <2> QED
    BY <1>2, <2>9, <2>10, <2>11 DEF t
<1> QED
  BY <1>1, <1>2, PumpFacts

\* No message of the server takes an operation out of the queue but to send it,
\* or puts one on the wire but the queue's first (state_pump).
LEMMA HandleOrder ==
  ASSUME NEW s \in ClientType, NEW m \in ServerMessage, NEW answers, Ordered(s, answers), Submitted(s)
  PROVE  LET t == HandleMessage(s, m)
         IN  /\ Ordered(t, answers) /\ Submitted(t)
             /\ Covered(s, answers) => Covered(t, answers)
<1>1. /\ Places(Loaded(s, m)) = Places(s)
      /\ Places(ApplyAuthoritative(s, m)) = Places(s)
      /\ Places(Acknowledged(s, m)) = Places(s)
      /\ Places(Refused(s)) = Places(s)
  BY DEF Places, Loaded, ApplyAuthoritative, Acknowledged, Refused, ClientType
<1>2. ASSUME NEW t \in ClientType, Places(t) = Places(s)
      PROVE  /\ Ordered(t, answers) /\ Submitted(t)
             /\ Ordered(Pump(t), answers) /\ Submitted(Pump(t))
             /\ Ordered(Send(t, RequestDoc), answers) /\ Submitted(Send(t, RequestDoc))
             /\ Covered(s, answers) => /\ Covered(t, answers)
                                      /\ Covered(Pump(t), answers)
                                      /\ Covered(Send(t, RequestDoc), answers)
  <2>1. Ordered(t, answers) /\ Submitted(t) /\ (Covered(s, answers) => Covered(t, answers))
    BY <1>2, SamePlaces
  <2> QED
    BY <2>1, PumpOrder, RequestOrder
<1> QED
  BY <1>1, <1>2, HandleCases

-----------------------------------------------------------------------------
(* The operation in flight *)

\* An operation that is sent is not yet answered.
LEMMA PumpBehind ==
  ASSUME NEW c, NEW s \in ClientType, NEW n \in Nat, NEW entries, NEW dropped,
         Ordered(s, Numbers(c, n, entries, dropped)), Own(c, s), Behind(s, n, entries)
  PROVE  Behind(Pump(s), n, entries)
<1>1. CASE Pump(s) = s
  BY <1>1
<1>2. CASE s.queue # <<>> /\ Pump(s) = Pumped(s)
  <2> DEFINE item == Head(s.queue)
             t == Pumped(s)
  <2>1. s.queue \in Seq(Item)
    BY DEF ClientType
  <2>2. item \in Range(s.queue) /\ item \in Item
    BY <1>2, <2>1, RangeFacts
  <2>3. t.inflight = <<item>>
    BY DEF Pumped, ClientType
  <2>4. t.inflight[1] = item
    BY <2>3
  <2> HIDE DEF item, t
  <2>5. item.id[1] = c /\ item.id[2] \in Nat
    BY <2>2, SessionAssumption DEF Own, Item
  <2>6. ASSUME NEW v \in 1 .. n, entries[v].id = item.id
        PROVE  FALSE
    <3>1. item.id[2] \in Numbers(c, n, entries, dropped)
      BY <2>5, <2>6 DEF Numbers
    <3>2. item.id[2] < item.id[2]
      BY <2>2, <3>1 DEF Ordered
    <3> QED
      BY <2>5, <3>2
  <2>7. Behind(t, n, entries)
    BY <2>4, <2>6 DEF Behind
  <2> QED
    BY <1>2, <2>7 DEF t
<1> QED
  BY <1>1, <1>2, PumpFacts

\* A message another client caused does not reach the version of the operation
\* in flight; its ACK does, and then nothing is in flight (handle_ack).
LEMMA HandleBehind ==
  ASSUME NEW c, NEW s \in ClientType, NEW m \in ServerMessage, NEW n \in Nat, NEW entries, NEW texts, NEW dropped,
         Right(c, m, n, entries, texts), Submitted(s),
         Ordered(s, Numbers(c, n, entries, dropped)), Own(c, s), Behind(s, n, entries)
  PROVE  /\ Behind(HandleMessage(s, m), n, entries)
         /\ HandleMessage(s, m).version < s.version => m.type = "DOC_STATE"
<1> DEFINE A == Numbers(c, n, entries, dropped)
<1>0. s.version \in Nat
  BY DEF ClientType
<1>1. ASSUME NEW t \in ClientType, Places(t) = Places(s), t.inflight = <<>>
      PROVE  Behind(Pump(t), n, entries) /\ Pump(t).version = t.version
  <2>1. Ordered(t, A)
    BY <1>1, SamePlaces
  <2>2. Own(c, t) /\ Behind(t, n, entries)
    <3>1. Range(t.inflight) = {}
      BY <1>1 DEF Range
    <3> QED
      BY <1>1, <3>1 DEF Own, Behind, Places
  <2>3. Pumped(t).version = t.version
    BY DEF Pumped, ClientType
  <2>4. Pump(t).version = t.version
    BY <2>3, PumpFacts
  <2> QED
    BY <2>1, <2>2, <2>4, PumpBehind
<1>2. CASE m.type = "DOC_STATE" /\ Loaded(s, m) \in ClientType /\ HandleMessage(s, m) = Pump(Loaded(s, m))
  <2>1. Places(Loaded(s, m)) = Places(s) /\ Loaded(s, m).inflight = <<>>
    BY DEF Places, Loaded, ClientType
  <2> QED
    BY <1>1, <1>2, <2>1
<1>3. CASE /\ m.type = "ACK" /\ s.inflight # <<>> /\ s.inflight[1].id = m.id
           /\ Acknowledged(s, m) \in ClientType /\ HandleMessage(s, m) = Pump(Acknowledged(s, m))
  <2>1. /\ Places(Acknowledged(s, m)) = Places(s) /\ Acknowledged(s, m).inflight = <<>>
        /\ Acknowledged(s, m).version = m.version
    BY DEF Places, Acknowledged, ApplyAuthoritative, ClientType
  <2>2. s.version < m.version /\ m.version \in Nat
    BY <1>3 DEF Right, Done, Behind
  <2> QED
    BY <1>0, <1>1, <1>3, <2>1, <2>2
<1>4. CASE HandleMessage(s, m) = s
  BY <1>0, <1>4
<1>5. CASE /\ m.type = "REMOTE_OP" /\ m.version = s.version + 1
           /\ HandleMessage(s, m) = ApplyAuthoritative(s, m)
  <2> DEFINE t == ApplyAuthoritative(s, m)
  <2>1. t.inflight = s.inflight /\ t.version = m.version
    BY DEF ApplyAuthoritative, ClientType
  <2>2. entries[m.version].id[1] # c
    BY <1>5 DEF Right
  <2> HIDE DEF t
  <2>3. ASSUME NEW v \in 1 .. n, s.inflight # <<>>, entries[v].id = s.inflight[1].id
        PROVE  m.version < v
    <3>1. s.version < v
      BY <2>3 DEF Behind
    <3>2. s.inflight[1].id[1] = c
      <4>1. s.inflight \in Seq(Item)
        BY DEF ClientType
      <4>2. s.inflight[1] \in Range(s.inflight)
        BY <2>3, <4>1, RangeFacts
      <4> QED
        BY <4>2 DEF Own
    <3>3. v # m.version
      BY <2>2, <2>3, <3>2
    <3> QED
      BY <1>0, <1>5, <3>1, <3>3
  <2>4. Behind(t, n, entries)
    BY <2>1, <2>3 DEF Behind
  <2> QED
    BY <1>0, <1>5, <2>1, <2>4 DEF t
<1>6. CASE HandleMessage(s, m) = Send(s, RequestDoc)
  <2>1. Send(s, RequestDoc).inflight = s.inflight /\ Send(s, RequestDoc).version = s.version
    BY DEF Send, ClientType
  <2> QED
    BY <1>0, <1>6, <2>1 DEF Behind
<1>7. CASE HandleMessage(s, m) = Send(Refused(s), RequestDoc)
  <2>1. Send(Refused(s), RequestDoc).inflight = <<>> /\ Send(Refused(s), RequestDoc).version = s.version
    BY DEF Send, Refused, ClientType
  <2> QED
    BY <1>0, <1>7, <2>1 DEF Behind
<1> QED
  BY <1>2, <1>3, <1>4, <1>5, <1>6, <1>7, HandleCases

-----------------------------------------------------------------------------
(* The steps *)

\* Taking an operation or refusing it adds its number to its client's, and
\* keeps the order when the number is the highest yet
\* (ts_document_process_operation).
LEMMA AnswersGrow ==
  ASSUME version \in Nat, Grows, AnsweredInOrder(version, log, refused), NEW id \in OpIds,
         \A k \in Answers(id[1]) : k < id[2],
         \/ version' = version + 1 /\ log'[version'].id = id /\ refused' = refused
         \/ version' = version /\ log' = log /\ refused' = refused \cup {id}
  PROVE  /\ \A c : Answers(c)' = Answers(c) \cup (IF c = id[1] THEN {id[2]} ELSE {})
         /\ AnsweredInOrder(version, log, refused)'
<1>1. id[1] \in Clients /\ id[2] \in Nat
  BY SessionAssumption
<1>2. \A v \in 1 .. version : log[v].id[1] = id[1] => log[v].id[2] < id[2]
  BY DEF Answers, Numbers
<1>3. \A x \in refused : x[1] = id[1] => x[2] < id[2]
  BY DEF Answers, Numbers
<1>4. CASE version' = version + 1 /\ log'[version'].id = id /\ refused' = refused
  <2>1. 1 .. version' = 1 .. version \cup {version'} /\ version' \notin 1 .. version
    BY <1>4
  <2>2. \A v \in 1 .. version : log'[v] = log[v]
    BY DEF Grows
  <2>3. ASSUME NEW c
        PROVE  Numbers(c, version', log', refused')
                 = Numbers(c, version, log, refused) \cup (IF c = id[1] THEN {id[2]} ELSE {})
    BY <1>4, <2>1, <2>2 DEF Numbers
  <2>4. \A v \in 1 .. version' : log'[v].id \notin refused'
    <3>1. id \notin refused
      BY <1>1, <1>3
    <3> QED
      BY <1>4, <2>1, <2>2, <3>1 DEF AnsweredInOrder
  <2>5. \A v, w \in 1 .. version' :
          v < w /\ log'[v].id[1] = log'[w].id[1] => log'[v].id[2] < log'[w].id[2]
    <3> SUFFICES ASSUME NEW v \in 1 .. version', NEW w \in 1 .. version',
                        v < w, log'[v].id[1] = log'[w].id[1]
                 PROVE  log'[v].id[2] < log'[w].id[2]
      OBVIOUS
    <3>1. v \in 1 .. version
      BY <1>4
    <3>2. CASE w \in 1 .. version
      BY <2>2, <3>1, <3>2 DEF AnsweredInOrder
    <3>3. CASE w = version'
      BY <1>2, <1>4, <2>2, <3>1, <3>3
    <3> QED
      BY <2>1, <3>2, <3>3
  <2> QED
    BY <2>3, <2>4, <2>5 DEF Answers, AnsweredInOrder
<1>5. CASE version' = version /\ log' = log /\ refused' = refused \cup {id}
  <2>1. ASSUME NEW c
        PROVE  Numbers(c, version', log', refused')
                 = Numbers(c, version, log, refused) \cup (IF c = id[1] THEN {id[2]} ELSE {})
    BY <1>5 DEF Numbers
  <2>2. \A v \in 1 .. version : log[v].id # id
    BY <1>1, <1>2
  <2> QED
    BY <1>5, <2>1, <2>2 DEF Answers, AnsweredInOrder
<1> QED
  BY <1>4, <1>5

\* A step that changes one client's record, and neither the document nor who
\* runs but that a client may leave.
LEMMA OneClient ==
  ASSUME SessionInv, OrderInv, UNCHANGED document, running' \subseteq running, NEW c \in Clients,
         Ordered(client'[c], Answers(c)), Submitted(client'[c]), Behind(client'[c], version, log),
         c \in running' => Covered(client'[c], Answers(c)),
         \A d \in Clients : d # c => client'[d] = client[d]
  PROVE  OrderInv'
<1>1. version' = version /\ log' = log /\ refused' = refused
  BY DEF document, vars
<1>2. \A d : Answers(d)' = Answers(d)
  BY <1>1 DEF Answers, Numbers
<1>3. \A d \in Clients : Ordered(client'[d], Answers(d)') /\ Submitted(client'[d]) /\ Behind(client'[d], version', log')
  BY <1>1, <1>2 DEF OrderInv
<1>4. \A d \in running' : Covered(client'[d], Answers(d)')
  BY <1>2 DEF OrderInv, SessionInv, SessionTypeOK
<1> QED
  BY <1>1, <1>2, <1>3, <1>4 DEF OrderInv

\* A typed operation takes the next number, above all that c has anywhere, and
\* joins the queue (ts_client_state_queue_operation).
LEMMA TypedInQueue ==
  ASSUME SessionInv, OrderInv, NEW c \in Clients, Type(c)
  PROVE  \E q \in ClientType :
           /\ client' = [client EXCEPT ![c] = Pump(q)]
           /\ Ordered(q, Answers(c)) /\ Submitted(q) /\ Behind(q, version, log)
           /\ Covered(q, Answers(c)) /\ Own(c, q)
           /\ q.inflight = client[c].inflight /\ q.toServer = client[c].toServer
<1> DEFINE s == client[c]
           id == <<c, s.nextOp>>
           A == Answers(c)
<1>1. PICK op \in {InsertOp(p, id) : p \in (0 .. Reach(s)) \cap Positions}
                  \cup {DeleteOp(p) : p \in (0 .. Reach(s) - 1) \cap Positions} :
        client' = [client EXCEPT ![c] = QueueOperation(s, id, op)]
  BY DEF Type
<1>2. id \in OpIds /\ c \in running /\ UNCHANGED <<document, running, thread, toClient, members, broadcast>>
  BY DEF Type
<1>3. op \in Operation(Char) /\ op \in Submission(id)
  BY <1>1, <1>2, PositionsAssumption DEF InsertOp, DeleteOp, Operation, Char, Submission
<1>4. s \in ClientType /\ client \in [Clients -> ClientType] /\ version \in Nat /\ Own(c, s)
  BY DEF SessionInv, SessionTypeOK, TypeOK, Copies
<1>5. Ordered(s, A) /\ Submitted(s) /\ Behind(s, version, log) /\ Covered(s, A)
  BY <1>2 DEF OrderInv
<1> DEFINE item == [id |-> id, op |-> op]
           q == [s EXCEPT !.queue = Append(@, item), !.nextOp = @ + 1]
<1>6. item \in Item /\ item.id[1] = c /\ item.id[2] = s.nextOp /\ item.op \in Submission(item.id)
  BY <1>2, <1>3 DEF Item
<1>7. s.queue \in Seq(Item) /\ s.toServer \in Seq(ClientMessage) /\ s.nextOp \in Nat \ {0}
  BY <1>4 DEF ClientType
<1> HIDE DEF s, id
<1>8. client' = [client EXCEPT ![c] = Pump(q)]
  <2>1. QueueOperation(s, id, op) = Pump(q)
    BY DEF QueueOperation
  <2> QED
    BY <1>1, <2>1
<1> HIDE DEF item
<1>9. Range(Append(s.queue, item)) = Range(s.queue) \cup {item} /\ Append(s.queue, item) \in Seq(Item)
  BY <1>6, <1>7, RangeAppend, AppendProperties
<1>10. q \in ClientType
  <2>1. s.nextOp + 1 \in Nat \ {0}
    BY <1>7
  <2> QED
    BY <1>4, <1>9, <2>1 DEF ClientType
<1>11. /\ q.queue = Append(s.queue, item) /\ q.toServer = s.toServer /\ q.nextOp = s.nextOp + 1
       /\ q.inflight = s.inflight /\ q.version = s.version
  BY <1>4 DEF ClientType
<1> HIDE DEF q, A
<1>12. Range(s.queue) \subseteq Item /\ \A x \in Item : x.id[2] \in Nat
  <2>1. Range(s.queue) \subseteq Item
    BY <1>7, RangeFacts
  <2>2. \A x \in Item : x.id \in Clients \X (Nat \ {0})
    BY SessionAssumption DEF Item
  <2> QED
    BY <2>1, <2>2
<1>13. \A m \in OpMessages : m.id[2] \in Nat
  BY SessionAssumption DEF OpMessages
<1>14. \A k \in A : k \in Nat
  <2>1. log \in Seq(Entry) /\ version = Len(log) /\ refused \subseteq OpIds
    BY DEF SessionInv, ReplayInv, WindowInv, TypeOK, HistoryWindow
  <2>2. \A v \in 1 .. version : log[v].id \in OpIds
    <3>1. \A v \in 1 .. version : log[v] \in Entry
      BY <2>1, ElementOfSeq
    <3> QED
      BY <3>1 DEF Entry
  <2> QED
    BY <2>1, <2>2, SessionAssumption DEF A, Answers, Numbers
<1>15. Ordered(q, A)
  <2>1. InOrder(q.queue, Item)
    BY <1>5, <1>6, <1>7, <1>11, <1>12, InOrderAppend DEF Ordered
  <2>2. \A x \in Range(q.queue) : x.id[2] < q.nextOp /\ \A k \in A : k < x.id[2]
    BY <1>5, <1>6, <1>7, <1>9, <1>11, <1>12 DEF Ordered
  <2>3. \A m \in Range(q.toServer) \cap OpMessages :
          m.id[2] < q.nextOp /\ \A x \in Range(q.queue) : m.id[2] < x.id[2]
    BY <1>5, <1>6, <1>7, <1>9, <1>11, <1>13 DEF Ordered
  <2>4. \A k \in A : k < q.nextOp
    BY <1>5, <1>7, <1>11, <1>14 DEF Ordered
  <2> QED
    BY <1>5, <1>11, <2>1, <2>2, <2>3, <2>4 DEF Ordered
<1>16. Submitted(q)
  BY <1>5, <1>6, <1>9, <1>11 DEF Submitted
<1>17. Behind(q, version, log)
  BY <1>5, <1>11 DEF Behind
<1>18. Covered(q, A)
  <2>1. \A k \in 1 .. q.nextOp - 1 : k \in 1 .. s.nextOp - 1 \/ k = s.nextOp
    BY <1>7, <1>11
  <2>2. Range(s.queue) \subseteq Range(q.queue) /\ item \in Range(q.queue)
    BY <1>9, <1>11
  <2> QED
    BY <1>5, <1>6, <1>11, <2>1, <2>2 DEF Covered
<1>19. Own(c, q)
  BY <1>4, <1>6, <1>9, <1>11 DEF Own
<1>20. q.inflight = client[c].inflight /\ q.toServer = client[c].toServer
  BY <1>11 DEF s
<1> QED
  BY <1>8, <1>10, <1>15, <1>16, <1>17, <1>18, <1>19, <1>20 DEF A

\* What is typed keeps the order.
LEMMA TypeOrder ==
  ASSUME SessionInv, OrderInv, NEW c \in Clients, Type(c)
  PROVE  OrderInv'
<1> DEFINE A == Answers(c)
<1>1. PICK q \in ClientType :
        /\ client' = [client EXCEPT ![c] = Pump(q)]
        /\ Ordered(q, A) /\ Submitted(q) /\ Behind(q, version, log) /\ Covered(q, A) /\ Own(c, q)
  BY TypedInQueue
<1>2. version \in Nat /\ client \in [Clients -> ClientType]
  BY DEF SessionInv, SessionTypeOK, TypeOK
<1>3. Ordered(Pump(q), A) /\ Submitted(Pump(q)) /\ Covered(Pump(q), A)
  BY <1>1, PumpOrder
<1>4. Behind(Pump(q), version, log)
  BY <1>1, <1>2, PumpBehind DEF Answers
<1>5. client'[c] = Pump(q) /\ \A d \in Clients : d # c => client'[d] = client[d]
  BY <1>1, <1>2
<1> HIDE DEF A
<1>6. UNCHANGED <<document, running>>
  BY DEF Type
<1> QED
  BY <1>3, <1>4, <1>5, <1>6, OneClient DEF A

\* A client's version goes down at a DOC_STATE only.
LEMMA HandleStepOrder ==
  ASSUME SessionInv, OrderInv, NEW c \in Clients, Handle(c)
  PROVE  /\ OrderInv'
         /\ client'[c].version < client[c].version => Head(toClient[c]).type = "DOC_STATE"
         /\ \A d \in Clients : d # c => client'[d] = client[d]
<1> DEFINE s == client[c]
           m == Head(toClient[c])
           t == HandleMessage(s, m)
<1>1. /\ toClient[c] # <<>> /\ c \in running
      /\ client' = [client EXCEPT ![c] = t]
      /\ UNCHANGED <<document, running, thread, members, broadcast>>
  BY DEF Handle
<1>2. s \in ClientType /\ client \in [Clients -> ClientType] /\ version \in Nat /\ toClient[c] \in Seq(ServerMessage)
  BY DEF SessionInv, SessionTypeOK, TypeOK
<1>3. m \in ServerMessage /\ m \in Range(toClient[c])
  BY <1>1, <1>2, RangeFacts
<1>4. Right(c, m, version, log, past) /\ Own(c, s)
  BY <1>3 DEF SessionInv, Carried, Copies
<1>5. Ordered(s, Answers(c)) /\ Submitted(s) /\ Behind(s, version, log) /\ Covered(s, Answers(c))
  BY <1>1 DEF OrderInv
<1>6. client'[c] = t /\ \A d \in Clients : d # c => client'[d] = client[d]
  BY <1>1, <1>2
<1> HIDE DEF m, s
<1>7. Ordered(t, Answers(c)) /\ Submitted(t) /\ Covered(t, Answers(c))
  BY <1>2, <1>3, <1>5, HandleOrder
<1>8. Behind(t, version, log) /\ (t.version < s.version => m.type = "DOC_STATE")
  BY <1>2, <1>3, <1>4, <1>5, HandleBehind DEF Answers
<1> HIDE DEF t
<1>9. OrderInv'
  BY <1>1, <1>6, <1>7, <1>8, OneClient
<1> QED
  BY <1>6, <1>8, <1>9 DEF s, m

\* What is lost when a user leaves is the end of what was sent.
LEMMA QuitOrder ==
  ASSUME SessionInv, OrderInv, NEW c \in Clients, Quit(c)
  PROVE  OrderInv'
<1> DEFINE s == client[c]
<1>1. PICK n \in 0 .. Len(s.toServer) :
        client' = [client EXCEPT ![c].toServer = SubSeq(@, 1, n)]
  BY DEF Quit
<1>2. running' = running \ {c} /\ UNCHANGED document
  BY DEF Quit
<1>3. s \in ClientType /\ client \in [Clients -> ClientType] /\ s.toServer \in Seq(ClientMessage)
  BY DEF SessionInv, SessionTypeOK, ClientType
<1>4. Ordered(s, Answers(c)) /\ Submitted(s) /\ Behind(s, version, log)
  BY DEF OrderInv
<1> DEFINE sent == SubSeq(s.toServer, 1, n)
           t == [s EXCEPT !.toServer = sent]
<1>5. client'[c] = t /\ \A d \in Clients : d # c => client'[d] = client[d]
  BY <1>1, <1>3
<1>6. Range(sent) \subseteq Range(s.toServer)
  BY <1>3, RangeFacts
<1>7. InOrder(sent, OpMessages)
  BY <1>3, <1>4, InOrderPrefix DEF Ordered
<1>8. /\ t.queue = s.queue /\ t.toServer = sent /\ t.nextOp = s.nextOp
      /\ t.inflight = s.inflight /\ t.version = s.version
  BY <1>3 DEF ClientType
<1> HIDE DEF sent, t, s
<1>9. Ordered(t, Answers(c))
  BY <1>4, <1>6, <1>7, <1>8 DEF Ordered
<1>10. Submitted(t)
  BY <1>4, <1>6, <1>8 DEF Submitted
<1>11. Behind(t, version, log)
  BY <1>4, <1>8 DEF Behind
<1> QED
  BY <1>2, <1>5, <1>9, <1>10, <1>11, OneClient

\* The server answers what is first on the wire: its number is the highest the
\* client's answers have had, so it was never answered before.
LEMMA ReceiveOrder ==
  ASSUME SessionInv, OrderInv, NEW c \in Clients, Receive(c)
  PROVE  OrderInv' /\ [Next]_vars
<1> DEFINE s == client[c]
           m == Head(s.toServer)
           t == [s EXCEPT !.toServer = Tail(s.toServer)]
<1>1. /\ m \in ClientMessage /\ ReplayInv' /\ Grows
      /\ client' = [client EXCEPT ![c].toServer = Tail(@)]
      /\ UNCHANGED running /\ s.toServer # <<>>
      /\ \/ /\ m.type = "OP" /\ m.id \in OpIds /\ m.id[1] = c
            /\ Accept(m.id, m.base, m.op)
            /\ version' = version + 1 /\ log'[version'].id = m.id /\ refused' = refused
         \/ /\ m.type = "OP" /\ m.id \in OpIds /\ m.id[1] = c
            /\ Refuse(m.id, m.base)
            /\ version' = version /\ log' = log /\ refused' = refused \cup {m.id}
         \/ m.type = "REQUEST_DOC" /\ UNCHANGED document
  BY ReceiveCases
<1>2. /\ s \in ClientType /\ client \in [Clients -> ClientType] /\ s.toServer \in Seq(ClientMessage)
      /\ version \in Nat /\ version' \in Nat /\ running \subseteq Clients
  <2>1. version' \in Nat
    BY <1>1 DEF ReplayInv, WindowInv, TypeOK
  <2> QED
    BY <2>1 DEF SessionInv, SessionTypeOK, TypeOK, ClientType
<1>3. Ordered(s, Answers(c)) /\ Submitted(s) /\ AnsweredInOrder(version, log, refused)
  BY DEF OrderInv
<1>4. client'[c] = t /\ \A d \in Clients : d # c => client'[d] = client[d]
  BY <1>1, <1>2
<1>5. /\ t.queue = s.queue /\ t.toServer = Tail(s.toServer) /\ t.nextOp = s.nextOp
      /\ t.inflight = s.inflight /\ t.version = s.version
  BY <1>2 DEF ClientType
<1>6. /\ m \in Range(s.toServer)
      /\ Range(s.toServer) = Range(Tail(s.toServer)) \cup {m}
      /\ InOrder(Tail(s.toServer), OpMessages)
      /\ m \in OpMessages => \A k \in Range(Tail(s.toServer)) \cap OpMessages : m.id[2] < k.id[2]
  BY <1>1, <1>2, <1>3, HeadAndTail, InOrderTail DEF Ordered
<1>7. m.type = "OP" => m \in OpMessages
  BY <1>1 DEF ClientMessage, OpMessages, RequestDoc
<1>8. m.type = "REQUEST_DOC" => m \notin OpMessages
  BY DEF OpMessages
<1>9. \A d \in Clients : Faithful(client[d], version, past)
  BY DEF SessionInv, Copies
<1> HIDE DEF t, m
<1>10. Submitted(t)
  BY <1>3, <1>5, <1>6 DEF Submitted
<1>11. CASE m.type = "REQUEST_DOC" /\ UNCHANGED document
  <2>1. Range(Tail(s.toServer)) \cap OpMessages = Range(s.toServer) \cap OpMessages
    BY <1>6, <1>8, <1>11
  <2>2. Ordered(t, Answers(c))
    BY <1>3, <1>5, <1>6, <2>1 DEF Ordered
  <2>3. c \in running => Covered(t, Answers(c))
    BY <1>5, <2>1 DEF OrderInv, Covered
  <2>4. Behind(t, version, log)
    BY <1>5 DEF OrderInv, Behind
  <2>5. OrderInv'
    BY <1>1, <1>4, <1>10, <1>11, <2>2, <2>3, <2>4, OneClient
  <2> QED
    BY <1>11, <2>5 DEF document
<1>12. CASE /\ m.type = "OP" /\ m.id \in OpIds /\ m.id[1] = c
            /\ \/ Accept(m.id, m.base, m.op) /\ version' = version + 1 /\ log'[version'].id = m.id /\ refused' = refused
               \/ Refuse(m.id, m.base) /\ version' = version /\ log' = log /\ refused' = refused \cup {m.id}
  <2> DEFINE n == m.id[2]
  <2>1. m \in OpMessages /\ \A k \in Answers(c) : k < n
    BY <1>3, <1>6, <1>7, <1>12 DEF Ordered
  <2>2. /\ \A d : Answers(d)' = Answers(d) \cup (IF d = c THEN {n} ELSE {})
        /\ AnsweredInOrder(version, log, refused)'
    BY <1>1, <1>2, <1>3, <1>12, <2>1, AnswersGrow
  <2>3. ASSUME NEW d \in Clients, d # c
        PROVE  /\ Ordered(client'[d], Answers(d)') /\ Submitted(client'[d])
               /\ d \in running' => Covered(client'[d], Answers(d)')
    <3>1. Answers(d)' = Answers(d) /\ client'[d] = client[d]
      BY <1>4, <2>2, <2>3
    <3> QED
      BY <1>1, <3>1 DEF OrderInv
  <2>4. Ordered(t, Answers(c)')
    <3>1. \A k \in Answers(c)' : k \in Answers(c) \/ k = n
      BY <2>2
    <3>2. \A item \in Range(s.queue) : n < item.id[2]
      BY <1>3, <1>6, <2>1 DEF Ordered
    <3>3. n < s.nextOp
      BY <1>3, <1>6, <2>1 DEF Ordered
    <3>4. \A k \in Range(Tail(s.toServer)) \cap OpMessages : n < k.id[2]
      BY <1>6, <2>1
    <3> QED
      BY <1>3, <1>5, <1>6, <3>1, <3>2, <3>3, <3>4 DEF Ordered
  <2>5. c \in running' => Covered(t, Answers(c)')
    <3>1. c \in running => Covered(s, Answers(c))
      BY DEF OrderInv
    <3> QED
      BY <1>1, <1>5, <1>6, <2>2, <3>1 DEF Covered
  <2>6. ASSUME NEW d \in Clients
        PROVE  Behind(client'[d], version', log')
    <3>1. client'[d].inflight = client[d].inflight /\ client'[d].version = client[d].version
      BY <1>4, <1>5
    <3>2. Behind(client[d], version, log) /\ client[d].version <= version /\ client[d].version \in Nat
      BY <1>2, <1>9 DEF OrderInv, Faithful, ClientType
    <3>3. \A v \in 1 .. version' : v \in 1 .. version \/ (v = version' /\ version' = version + 1)
      BY <1>2, <1>12
    <3>4. \A v \in 1 .. version : log'[v] = log[v]
      BY <1>1 DEF Grows
    <3> QED
      BY <1>2, <3>1, <3>2, <3>3, <3>4 DEF Behind
  <2>7. OrderInv'
    <3>1. \A d \in Clients : /\ Ordered(client'[d], Answers(d)') /\ Submitted(client'[d])
                             /\ Behind(client'[d], version', log')
      BY <1>4, <1>10, <2>3, <2>4, <2>6
    <3>2. \A d \in running' : Covered(client'[d], Answers(d)')
      BY <1>1, <1>2, <1>4, <2>3, <2>5
    <3> QED
      BY <2>2, <3>1, <3>2 DEF OrderInv
  <2>8. Next
    <3>1. m.id \notin Answered
      <4>1. version = Len(log) /\ log \in Seq(Entry)
        BY DEF SessionInv, ReplayInv, WindowInv, HistoryWindow, TypeOK
      <4>2. \A i \in DOMAIN log : i \in 1 .. version
        BY <4>1
      <4>3. m.id \in Answered => n \in Answers(c)
        BY <1>12, <4>2 DEF Answered, Answers, Numbers
      <4>4. n \in Nat
        BY <1>12, SessionAssumption
      <4> QED
        BY <2>1, <4>3, <4>4
    <3>2. m.base \in -1 .. version + 1
      <4>1. m.base \in Nat
        BY <2>1 DEF OpMessages
      <4>2. m.base <= version
        BY <1>6, <1>9, <1>12 DEF Faithful
      <4> QED
        BY <1>2, <4>1, <4>2
    <3>3. m.op \in Submission(m.id)
      BY <1>3, <1>6, <2>1 DEF Submitted
    <3>4. ProcessOperation(m.id, m.base, m.op)
      BY <1>12 DEF ProcessOperation
    <3> QED
      BY <1>12, <3>1, <3>2, <3>3, <3>4 DEF Next
  <2> QED
    BY <2>7, <2>8
<1> QED
  BY <1>1, <1>11, <1>12 DEF m

\* A step of the server that answers nothing moves no operation.
LEMMA OrderStays ==
  ASSUME OrderInv, UNCHANGED <<document, client, running>>
  PROVE  OrderInv'
<1>1. /\ client' = client /\ running' = running
      /\ version' = version /\ log' = log /\ refused' = refused
  BY DEF document, vars
<1>2. \A d : Answers(d)' = Answers(d)
  BY <1>1 DEF Answers, Numbers
<1> QED
  BY <1>1, <1>2 DEF OrderInv

\* At the start nothing was typed.
LEMMA InitOrder ==
  ASSUME SessionInit
  PROVE  OrderInv
<1>1. /\ version = 0 /\ log = <<>> /\ refused = {} /\ running = Clients
      /\ \A c \in Clients : \/ client[c] = NewClient
                            \/ client[c] = [NewClient EXCEPT !.content = InitialText, !.copy = "loaded"]
  BY DEF SessionInit, Init
<1>2. ASSUME NEW c \in Clients
      PROVE  /\ client[c].queue = <<>> /\ client[c].inflight = <<>>
             /\ client[c].toServer = <<>> /\ client[c].nextOp = 1
  <2>1. CASE client[c] = NewClient
    BY <2>1 DEF NewClient
  <2>2. CASE client[c] = [NewClient EXCEPT !.content = InitialText, !.copy = "loaded"]
    BY <2>2 DEF NewClient
  <2> QED
    BY <1>1, <2>1, <2>2
<1>3. \A c : Answers(c) = {}
  BY <1>1 DEF Answers, Numbers
<1>4. Range(<<>>) = {} /\ \A S : InOrder(<<>>, S)
  <2>1. DOMAIN <<>> = {}
    OBVIOUS
  <2> QED
    BY <2>1 DEF Range, InOrder
<1>5. \A c \in Clients : Ordered(client[c], Answers(c)) /\ Submitted(client[c]) /\ Covered(client[c], Answers(c))
  BY <1>2, <1>3, <1>4 DEF Ordered, Submitted, Covered
<1>6. \A c \in Clients : Behind(client[c], version, log)
  BY <1>2 DEF Behind
<1>7. AnsweredInOrder(version, log, refused)
  BY <1>1 DEF AnsweredInOrder
<1> QED
  BY <1>1, <1>5, <1>6, <1>7 DEF OrderInv

\* Every step keeps the order, moves the document by one of its own steps or
\* not at all, and takes a client back only by a document.
LEMMA OrderStep ==
  ASSUME SessionInv, OrderInv, [SessionNext]_sessionVars
  PROVE  /\ OrderInv'
         /\ [Next]_vars
         /\ \A c \in running :
              client'[c].version < client[c].version => Head(toClient[c]).type = "DOC_STATE"
<1>1. client \in [Clients -> ClientType] /\ running \subseteq Clients
  BY DEF SessionInv, SessionTypeOK
<1>2. \A c \in Clients : client[c].version \in Nat
  BY <1>1 DEF ClientType
<1>3. ASSUME UNCHANGED <<document, client, running>>
      PROVE  /\ OrderInv' /\ [Next]_vars
             /\ \A c \in running :
                  client'[c].version < client[c].version => Head(toClient[c]).type = "DOC_STATE"
  BY <1>1, <1>2, <1>3, OrderStays DEF document
<1>4. CASE UNCHANGED sessionVars
  BY <1>3, <1>4 DEF sessionVars
<1>5. CASE SessionNext
  <2>1. PICK c \in Clients : Type(c) \/ Handle(c) \/ Quit(c) \/ ServerStep(c)
    BY <1>5 DEF SessionNext
  <2>2. CASE Type(c)
    <3>1. OrderInv'
      BY <2>2, TypeOrder
    <3>2. \A d \in Clients : client'[d].version = client[d].version
      <4>1. PICK op : client' = [client EXCEPT ![c] = QueueOperation(client[c], <<c, client[c].nextOp>>, op)]
        BY <2>2 DEF Type
      <4>2. QueueOperation(client[c], <<c, client[c].nextOp>>, op).version = client[c].version
        BY <1>1 DEF QueueOperation, Pump, Send, ClientType
      <4> QED
        BY <1>1, <4>1, <4>2
    <3>3. UNCHANGED vars
      BY <2>2 DEF Type, document
    <3> QED
      BY <1>1, <1>2, <3>1, <3>2, <3>3
  <2>3. CASE Handle(c)
    <3>1. UNCHANGED vars
      BY <2>3 DEF Handle, document
    <3> QED
      BY <1>1, <1>2, <2>3, <3>1, HandleStepOrder
  <2>4. CASE Quit(c)
    <3>1. OrderInv' /\ UNCHANGED vars
      BY <2>4, QuitOrder DEF Quit, document
    <3>2. \A d \in Clients : client'[d].version = client[d].version
      BY <1>1, <2>4 DEF Quit, ClientType
    <3> QED
      BY <1>1, <1>2, <3>1, <3>2
  <2>5. CASE Receive(c)
    <3>1. OrderInv' /\ [Next]_vars
      BY <2>5, ReceiveOrder
    <3>2. \A d \in Clients : client'[d].version = client[d].version
      BY <1>1, <2>5 DEF Receive, ClientType
    <3> QED
      BY <1>1, <1>2, <3>1, <3>2
  <2>6. CASE Register(c)
    BY <1>3, <2>6 DEF Register
  <2>7. CASE TakeSnapshot(c)
    BY <1>3, <2>7 DEF TakeSnapshot
  <2>8. CASE Answer(c)
    BY <1>3, <2>8 DEF Answer
  <2>9. CASE StartBroadcast(c)
    BY <1>3, <2>9 DEF StartBroadcast
  <2>10. CASE BroadcastNext(c)
    BY <1>3, <2>10 DEF BroadcastNext
  <2>11. CASE EndBroadcast(c)
    BY <1>3, <2>11 DEF EndBroadcast
  <2>12. CASE Leave(c)
    BY <1>3, <2>12 DEF Leave
  <2> QED
    BY <2>1, <2>2, <2>3, <2>4, <2>5, <2>6, <2>7, <2>8, <2>9, <2>10, <2>11, <2>12 DEF ServerStep
<1> QED
  BY <1>4, <1>5

-----------------------------------------------------------------------------
(* Theorems *)

\* For any number of clients: what the server has answered, what is on the wire
\* and what is queued follow each other in the order of the op_ids, each once,
\* and every op_id given out is in one of these places
\* (ts_client_state_queue_operation).
THEOREM OrderInvariant == SessionSpec => []OrderInv
<1>1. SessionInit => OrderInv
  BY InitOrder
<1>2. SessionInv /\ OrderInv /\ [SessionNext]_sessionVars => OrderInv'
  BY OrderStep
<1> QED
  BY <1>1, <1>2, SessionInvariant, PTL DEF SessionSpec

\* The session implements the document's specification for any number of
\* clients: no op_id reaches the document twice, whatever a client
\* resynchronises, and every base is a version the document had.
THEOREM SessionImplementsDocument == SessionSpec => ImplementsDocument
<1>1. SessionInit => Init
  BY DEF SessionInit
<1>2. SessionInv /\ OrderInv /\ [SessionNext]_sessionVars => [Next]_vars
  BY OrderStep
<1> QED
  BY <1>1, <1>2, SessionInvariant, OrderInvariant, PTL DEF SessionSpec, ImplementsDocument, Spec

\* Whatever the server's threads and the clients interleave, every edit means
\* what its author saw: the session keeps the promise of the document
\* (ts_transform_against).
THEOREM SessionKeepsIntentions == SessionSpec => KeepsIntentions
BY SessionImplementsDocument, IntentionsKept, PTL DEF ImplementsDocument

\* For any number of clients: handle_ack may apply its operation without
\* looking at the version, since an ACK never takes a client back.
THEOREM OnlyDocumentsRewind == SessionSpec => OnlyADocumentRewinds
<1>1. SessionInv /\ OrderInv /\ [SessionNext]_sessionVars
        => [\A c \in running :
              client'[c].version < client[c].version => Head(toClient[c]).type = "DOC_STATE"]_sessionVars
  BY OrderStep
<1> QED
  BY <1>1, SessionInvariant, OrderInvariant, PTL DEF SessionSpec, OnlyADocumentRewinds

\* Where the elements of two sequences are when they are put together.
LEMMA OneAfterTheOther ==
  ASSUME NEW T, NEW q \in Seq(T), NEW r \in Seq(T)
  PROVE  /\ q \o r \in Seq(T) /\ Len(q \o r) = Len(q) + Len(r)
         /\ \A i \in 1 .. Len(q) : (q \o r)[i] = q[i]
         /\ \A i \in 1 .. Len(r) : (q \o r)[Len(q) + i] = r[i]
<1>1. Len(q) \in Nat /\ Len(r) \in Nat
  OBVIOUS
<1>2. /\ q \o r \in Seq(T) /\ Len(q \o r) = Len(q) + Len(r)
      /\ \A i \in 1 .. Len(q) + Len(r) : (q \o r)[i] = IF i <= Len(q) THEN q[i] ELSE r[i - Len(q)]
  BY ConcatProperties
<1> DEFINE t == q \o r
<1> HIDE DEF t
<1>3. ASSUME NEW i \in 1 .. Len(q)
      PROVE  t[i] = q[i]
  <2>1. i \in 1 .. Len(q) + Len(r) /\ i <= Len(q)
    BY <1>1
  <2> QED
    BY <1>2, <2>1 DEF t
<1>4. ASSUME NEW i \in 1 .. Len(r)
      PROVE  t[Len(q) + i] = r[i]
  <2>1. Len(q) + i \in 1 .. Len(q) + Len(r) /\ ~ (Len(q) + i <= Len(q)) /\ Len(q) + i - Len(q) = i
    BY <1>1
  <2> QED
    BY <1>2, <2>1 DEF t
<1> QED
  BY <1>2, <1>3, <1>4 DEF t

\* The three places of OnTheirWay, one after the other.
LEMMA PlacesOnTheirWay ==
  ASSUME SessionInv, NEW c \in Clients
  PROVE  LET ids == OnTheirWay(c)
             s == client[c]
             a == version
             b == Len(s.toServer)
             e == Len(s.queue)
         IN  /\ DOMAIN ids = 1 .. a + b + e
             /\ \A i \in 1 .. a : ids[i] = log[i].id
             /\ \A i \in 1 .. b : ids[a + i] = IdIn(s.toServer[i])
             /\ \A i \in 1 .. e : ids[a + b + i] = s.queue[i].id
<1> DEFINE s == client[c]
           a == version
           b == Len(s.toServer)
           e == Len(s.queue)
           T == OpIds \cup {NoOp}
           A == [i \in DOMAIN log |-> log[i].id]
           B == [i \in DOMAIN s.toServer |-> IdIn(s.toServer[i])]
           E == [i \in DOMAIN s.queue |-> s.queue[i].id]
<1>1. /\ log \in Seq(Entry) /\ a = Len(log) /\ a \in Nat
      /\ s.toServer \in Seq(ClientMessage) /\ s.queue \in Seq(Item)
  BY DEF SessionInv, SessionTypeOK, ClientType, ReplayInv, WindowInv, HistoryWindow, TypeOK
<1>2. DOMAIN log = 1 .. a /\ DOMAIN s.toServer = 1 .. b /\ DOMAIN s.queue = 1 .. e /\ b \in Nat /\ e \in Nat
  BY <1>1
<1>3. \A i \in 1 .. a : log[i].id \in T
  <2>1. \A i \in 1 .. a : log[i] \in Entry
    BY <1>1, ElementOfSeq
  <2> QED
    BY <2>1 DEF Entry
<1>4. \A i \in 1 .. b : IdIn(s.toServer[i]) \in T
  <2>1. \A i \in 1 .. b : s.toServer[i] \in ClientMessage
    BY <1>1, ElementOfSeq
  <2>2. \A m \in ClientMessage : IdIn(m) \in T
    BY DEF IdIn, ClientMessage, RequestDoc
  <2> QED
    BY <2>1, <2>2
<1>5. \A i \in 1 .. e : s.queue[i].id \in T
  <2>1. \A i \in 1 .. e : s.queue[i] \in Item
    BY <1>1, ElementOfSeq
  <2> QED
    BY <2>1 DEF Item
<1>6. OnTheirWay(c) = (A \o B) \o E
  BY DEF OnTheirWay
<1> HIDE DEF a, b, e, s, T
<1>7. /\ A \in Seq(T) /\ Len(A) = a /\ B \in Seq(T) /\ Len(B) = b /\ E \in Seq(T) /\ Len(E) = e
      /\ \A i \in 1 .. a : A[i] = log[i].id
      /\ \A i \in 1 .. b : B[i] = IdIn(s.toServer[i])
      /\ \A i \in 1 .. e : E[i] = s.queue[i].id
  BY <1>1, <1>2, <1>3, <1>4, <1>5
<1> HIDE DEF A, B, E
<1>8. /\ A \o B \in Seq(T) /\ Len(A \o B) = a + b
      /\ \A i \in 1 .. a : (A \o B)[i] = A[i]
      /\ \A i \in 1 .. b : (A \o B)[a + i] = B[i]
  <2>1. A \in Seq(T) /\ B \in Seq(T)
    BY <1>7
  <2>2. /\ A \o B \in Seq(T) /\ Len(A \o B) = Len(A) + Len(B)
        /\ \A i \in 1 .. Len(A) : (A \o B)[i] = A[i]
        /\ \A i \in 1 .. Len(B) : (A \o B)[Len(A) + i] = B[i]
    BY <2>1, OneAfterTheOther
  <2> QED
    BY <1>7, <2>2
<1> DEFINE AB == A \o B
<1> HIDE DEF AB
<1>9. /\ AB \o E \in Seq(T) /\ Len(AB \o E) = a + b + e
      /\ \A i \in 1 .. a + b : (AB \o E)[i] = AB[i]
      /\ \A i \in 1 .. e : (AB \o E)[a + b + i] = E[i]
  <2>1. AB \in Seq(T) /\ E \in Seq(T)
    BY <1>7, <1>8 DEF AB
  <2>3. Len(AB) = a + b
    BY <1>8 DEF AB
  <2>2. /\ AB \o E \in Seq(T) /\ Len(AB \o E) = Len(AB) + Len(E)
        /\ \A i \in 1 .. Len(AB) : (AB \o E)[i] = AB[i]
        /\ \A i \in 1 .. Len(E) : (AB \o E)[Len(AB) + i] = E[i]
    BY <2>1, OneAfterTheOther
  <2> QED
    BY <1>7, <2>2, <2>3
<1> DEFINE ids == AB \o E
<1>10. ids = OnTheirWay(c) /\ ids \in Seq(T) /\ Len(ids) = a + b + e
  BY <1>6, <1>9 DEF AB
<1>11. DOMAIN ids = 1 .. a + b + e
  BY <1>10
<1>12. \A i \in 1 .. a : ids[i] = log[i].id
  <2>1. \A i \in 1 .. a : i \in 1 .. a + b
    BY <1>1, <1>2
  <2> QED
    BY <1>7, <1>8, <1>9, <2>1 DEF AB
<1>13. \A i \in 1 .. b : ids[a + i] = IdIn(s.toServer[i])
  <2>1. \A i \in 1 .. b : a + i \in 1 .. a + b
    BY <1>1, <1>2
  <2> QED
    BY <1>7, <1>8, <1>9, <2>1 DEF AB
<1>14. \A i \in 1 .. e : ids[a + b + i] = s.queue[i].id
  BY <1>7, <1>9
<1> HIDE DEF ids
<1> QED
  BY <1>10, <1>11, <1>12, <1>13, <1>14 DEF a, b, e, s

\* What was answered, then what is on the wire, then what is queued: together
\* they are the keystrokes, each once and in order.
LEMMA OrderAccounts ==
  ASSUME SessionInv, OrderInv
  PROVE  KeystrokesAccounted
<1> SUFFICES ASSUME NEW c \in running
             PROVE  LET ids == OnTheirWay(c)
                        typed == {i \in DOMAIN ids : ids[i][1] = c}
                        dropped == {id \in refused : id[1] = c}
                    IN  /\ \A i, j \in typed : i < j => ids[i][2] < ids[j][2]
                        /\ \A i \in typed : ids[i] \notin dropped
                        /\ 1 .. client[c].nextOp - 1
                             = {ids[i][2] : i \in typed} \cup {id[2] : id \in dropped}
  BY DEF KeystrokesAccounted
<1> DEFINE s == client[c]
           a == version
           b == Len(s.toServer)
           e == Len(s.queue)
           ids == OnTheirWay(c)
           typed == {i \in DOMAIN ids : ids[i][1] = c}
           dropped == {id \in refused : id[1] = c}
           K == Answers(c)
<1>1. /\ c \in Clients /\ log \in Seq(Entry) /\ a = Len(log) /\ a \in Nat /\ refused \subseteq OpIds
      /\ s \in ClientType /\ s.toServer \in Seq(ClientMessage) /\ s.queue \in Seq(Item)
      /\ b \in Nat /\ e \in Nat /\ s.nextOp \in Nat /\ Own(c, s)
  <2>1. c \in Clients /\ s \in ClientType /\ Own(c, s)
    BY DEF SessionInv, SessionTypeOK, Copies
  <2>2. log \in Seq(Entry) /\ a = Len(log) /\ a \in Nat /\ refused \subseteq OpIds
    BY DEF SessionInv, ReplayInv, WindowInv, HistoryWindow, TypeOK
  <2>3. s.toServer \in Seq(ClientMessage) /\ s.queue \in Seq(Item) /\ s.nextOp \in Nat
    BY <2>1 DEF ClientType
  <2>4. b \in Nat /\ e \in Nat
    BY <2>3
  <2> QED
    BY <2>1, <2>2, <2>3, <2>4
<1>2. /\ DOMAIN ids = 1 .. a + b + e
      /\ \A i \in 1 .. a : ids[i] = log[i].id
      /\ \A i \in 1 .. b : ids[a + i] = IdIn(s.toServer[i])
      /\ \A i \in 1 .. e : ids[a + b + i] = s.queue[i].id
  BY <1>1, PlacesOnTheirWay
<1>3. Ordered(s, K) /\ Covered(s, K) /\ AnsweredInOrder(version, log, refused)
  BY <1>1 DEF OrderInv
<1>4. K = {log[v].id[2] : v \in {w \in 1 .. a : log[w].id[1] = c}} \cup {id[2] : id \in dropped}
  BY DEF Answers, Numbers
<1> HIDE DEF s, a, b, e, ids, K
<1>5. /\ Range(s.toServer) = {s.toServer[i] : i \in 1 .. b}
      /\ Range(s.queue) = {s.queue[i] : i \in 1 .. e}
      /\ DOMAIN s.toServer = 1 .. b /\ DOMAIN s.queue = 1 .. e
  BY <1>1, RangeFacts DEF b, e
<1>6. /\ \A i \in 1 .. b : s.toServer[i] \in ClientMessage
      /\ \A i \in 1 .. e : s.queue[i] \in Item
      /\ \A i \in 1 .. a : log[i] \in Entry
  BY <1>1, ElementOfSeq DEF b, e
<1>7. ASSUME NEW i \in 1 .. b
      PROVE  IF s.toServer[i] \in OpMessages THEN ids[a + i] = s.toServer[i].id /\ ids[a + i][1] = c
                                             ELSE ids[a + i][1] # c
  <2>1. s.toServer[i] \in ClientMessage /\ s.toServer[i] \in Range(s.toServer)
    BY <1>5, <1>6
  <2>2. CASE s.toServer[i].type = "OP"
    <3>1. ids[a + i] = s.toServer[i].id
      BY <1>2, <2>2 DEF IdIn
    <3>2. s.toServer[i] \in OpMessages
      BY <2>1, <2>2 DEF ClientMessage, OpMessages, RequestDoc
    <3>3. s.toServer[i].id[1] = c
      BY <1>1, <2>1, <2>2 DEF Own
    <3> QED
      BY <3>1, <3>2, <3>3
  <2>3. CASE s.toServer[i].type # "OP"
    BY <1>1, <1>2, <2>1, <2>3, SessionAssumption DEF IdIn, NoOp, OpMessages
  <2> QED
    BY <2>2, <2>3
<1>8. \A i \in 1 .. e : ids[a + b + i][1] = c
  <2>1. \A item \in Range(s.queue) : item.id[1] = c
    BY <1>1 DEF Own
  <2> QED
    BY <1>2, <1>5, <2>1
<1>9. ASSUME NEW i \in typed
      PROVE  \/ i \in 1 .. a /\ ids[i] = log[i].id
             \/ \E j \in 1 .. b : i = a + j /\ s.toServer[j] \in OpMessages /\ ids[i] = s.toServer[j].id
             \/ \E j \in 1 .. e : i = a + b + j /\ ids[i] = s.queue[j].id
  <2>1. i \in 1 .. a + b + e
    BY <1>2
  <2>2. CASE i \in 1 .. a
    BY <1>2, <2>2
  <2>3. CASE i \in a + 1 .. a + b
    <3>1. i - a \in 1 .. b /\ a + (i - a) = i
      BY <1>1, <2>3
    <3>2. s.toServer[i - a] \in OpMessages /\ ids[i] = s.toServer[i - a].id
      BY <1>7, <3>1
    <3> QED
      BY <3>1, <3>2
  <2>4. CASE i \in a + b + 1 .. a + b + e
    <3>1. i - (a + b) \in 1 .. e /\ a + b + (i - (a + b)) = i
      BY <1>1, <2>4
    <3> QED
      BY <1>2, <3>1
  <2> QED
    BY <1>1, <2>1, <2>2, <2>3, <2>4
<1>10. \A i \in 1 .. a : ids[i][1] = c => ids[i][2] \in K
  BY <1>2, <1>4
<1>11. ASSUME NEW i \in typed, NEW j \in typed, i < j
       PROVE  ids[i][2] < ids[j][2]
  <2>1. CASE i \in 1 .. a /\ j \in 1 .. a
    BY <1>2, <1>3, <1>11, <2>1 DEF AnsweredInOrder, a
  <2>2. ASSUME i \in 1 .. a, NEW l \in 1 .. b, j = a + l, s.toServer[l] \in OpMessages, ids[j] = s.toServer[l].id
        PROVE  ids[i][2] < ids[j][2]
    BY <1>3, <1>5, <1>10, <2>2 DEF Ordered
  <2>3. ASSUME i \in 1 .. a, NEW l \in 1 .. e, ids[j] = s.queue[l].id
        PROVE  ids[i][2] < ids[j][2]
    BY <1>3, <1>5, <1>10, <2>3 DEF Ordered
  <2>4. ASSUME NEW k \in 1 .. b, i = a + k, s.toServer[k] \in OpMessages, ids[i] = s.toServer[k].id,
               NEW l \in 1 .. b, j = a + l, s.toServer[l] \in OpMessages, ids[j] = s.toServer[l].id
        PROVE  ids[i][2] < ids[j][2]
    <3>1. k < l
      BY <1>1, <1>11, <2>4
    <3> QED
      BY <1>3, <1>5, <2>4, <3>1 DEF Ordered, InOrder
  <2>5. ASSUME NEW k \in 1 .. b, s.toServer[k] \in OpMessages, ids[i] = s.toServer[k].id,
               NEW l \in 1 .. e, ids[j] = s.queue[l].id
        PROVE  ids[i][2] < ids[j][2]
    BY <1>3, <1>5, <2>5 DEF Ordered
  <2>6. ASSUME NEW k \in 1 .. e, i = a + b + k, ids[i] = s.queue[k].id,
               NEW l \in 1 .. e, j = a + b + l, ids[j] = s.queue[l].id
        PROVE  ids[i][2] < ids[j][2]
    <3>1. k < l
      BY <1>1, <1>11, <2>6
    <3> QED
      BY <1>3, <1>5, <1>6, <2>6, <3>1 DEF Ordered, InOrder
  <2>7. ASSUME NEW k \in 1 .. b, i = a + k, j \in 1 .. a PROVE FALSE
    BY <1>1, <1>11, <2>7
  <2>8. ASSUME NEW k \in 1 .. e, i = a + b + k, j \in 1 .. a PROVE FALSE
    BY <1>1, <1>11, <2>8
  <2>9. ASSUME NEW k \in 1 .. e, i = a + b + k, NEW l \in 1 .. b, j = a + l PROVE FALSE
    BY <1>1, <1>11, <2>9
  <2> QED
    BY <1>9, <2>1, <2>2, <2>3, <2>4, <2>5, <2>6, <2>7, <2>8, <2>9
<1>12. \A id \in dropped : id[2] \in K /\ id[2] \in Nat \ {0}
  BY <1>1, <1>4, SessionAssumption
<1>13. ASSUME NEW i \in typed
       PROVE  ids[i] \notin dropped /\ ids[i] \in OpIds /\ ids[i][2] < s.nextOp
  <2>1. CASE i \in 1 .. a /\ ids[i] = log[i].id
    <3>1. ids[i] \notin refused
      BY <1>3, <2>1 DEF AnsweredInOrder, a
    <3>2. ids[i] \in OpIds
      BY <1>6, <2>1 DEF Entry
    <3>3. ids[i][2] < s.nextOp
      BY <1>3, <1>10, <2>1 DEF Ordered
    <3> QED
      BY <3>1, <3>2, <3>3
  <2>2. ASSUME NEW j \in 1 .. b, s.toServer[j] \in OpMessages, ids[i] = s.toServer[j].id
        PROVE  ids[i] \notin dropped /\ ids[i] \in OpIds /\ ids[i][2] < s.nextOp
    <3>1. s.toServer[j] \in Range(s.toServer) \cap OpMessages
      BY <1>5, <2>2
    <3>2. ids[i] \in OpIds
      BY <2>2 DEF OpMessages
    <3>3. ids[i][2] < s.nextOp /\ \A k \in K : k < ids[i][2]
      BY <1>3, <2>2, <3>1 DEF Ordered
    <3> QED
      BY <1>12, <3>2, <3>3, SessionAssumption
  <2>3. ASSUME NEW j \in 1 .. e, ids[i] = s.queue[j].id
        PROVE  ids[i] \notin dropped /\ ids[i] \in OpIds /\ ids[i][2] < s.nextOp
    <3>1. s.queue[j] \in Range(s.queue)
      BY <1>5
    <3>2. ids[i] \in OpIds
      BY <1>6, <2>3 DEF Item
    <3>3. ids[i][2] < s.nextOp /\ \A k \in K : k < ids[i][2]
      BY <1>3, <2>3, <3>1 DEF Ordered
    <3> QED
      BY <1>12, <3>2, <3>3, SessionAssumption
  <2> QED
    BY <1>9, <2>1, <2>2, <2>3
<1>14. \A i \in typed : ids[i][2] \in Nat \ {0}
  BY <1>13, SessionAssumption
<1>15. \A k \in {ids[i][2] : i \in typed} \cup {id[2] : id \in dropped} : k \in 1 .. s.nextOp - 1
  <2>1. \A k \in K : k < s.nextOp
    BY <1>3 DEF Ordered
  <2>2. \A i \in typed : ids[i][2] \in 1 .. s.nextOp - 1
    BY <1>1, <1>13, <1>14
  <2>3. \A id \in dropped : id[2] \in 1 .. s.nextOp - 1
    BY <1>1, <1>12, <2>1
  <2> QED
    BY <2>2, <2>3
<1>16. ASSUME NEW k \in 1 .. s.nextOp - 1
       PROVE  k \in {ids[i][2] : i \in typed} \cup {id[2] : id \in dropped}
  <2>1. CASE k \in K
    <3>1. ASSUME NEW v \in 1 .. a, log[v].id[1] = c, k = log[v].id[2]
          PROVE  \E i \in typed : k = ids[i][2]
      <4>1. v \in typed
        BY <1>1, <1>2, <3>1
      <4> QED
        BY <1>2, <3>1, <4>1
    <3> QED
      BY <1>4, <2>1, <3>1
  <2>2. ASSUME NEW m \in Range(s.toServer) \cap OpMessages, m.id[2] = k
        PROVE  \E i \in typed : k = ids[i][2]
    <3>1. PICK j \in 1 .. b : m = s.toServer[j]
      BY <1>5
    <3>2. ids[a + j] = m.id /\ ids[a + j][1] = c
      BY <1>7, <3>1
    <3>3. a + j \in typed
      BY <1>1, <1>2, <3>2
    <3> QED
      BY <2>2, <3>2, <3>3
  <2>3. ASSUME NEW item \in Range(s.queue), item.id[2] = k
        PROVE  \E i \in typed : k = ids[i][2]
    <3>1. PICK j \in 1 .. e : item = s.queue[j]
      BY <1>5
    <3>2. ids[a + b + j] = item.id /\ ids[a + b + j][1] = c
      BY <1>2, <1>8, <3>1
    <3>3. a + b + j \in typed
      BY <1>1, <1>2, <3>2
    <3> QED
      BY <2>3, <3>2, <3>3
  <2> QED
    BY <1>3, <2>1, <2>2, <2>3 DEF Covered
<1> QED
  BY <1>11, <1>13, <1>15, <1>16 DEF ids, s

\* For any number of clients: every keystroke is in exactly one place, and the
\* places keep their order, whatever is refused and resynchronised (pop_queue,
\* ts_client_state_set_document).
THEOREM KeystrokesInOrder == SessionSpec => []KeystrokesAccounted
<1>1. SessionInv /\ OrderInv => KeystrokesAccounted
  BY OrderAccounts
<1> QED
  BY <1>1, SessionInvariant, OrderInvariant, PTL

-----------------------------------------------------------------------------
(* Answers *)

\* Whoever has nothing in flight after state_pump has nothing to send.
LEMMA PumpAwaited ==
  ASSUME NEW s \in ClientType, NEW incoming, s.inflight # <<>> => Awaited(s, incoming)
  PROVE  Awaited(Pump(s), incoming)
<1>1. CASE s.inflight # <<>> /\ Pump(s) = s
  BY <1>1
<1>2. CASE s.inflight = <<>> /\ s.queue = <<>> /\ Pump(s) = s
  BY <1>2 DEF Awaited
<1>3. CASE s.queue # <<>> /\ Pump(s) = Pumped(s)
  <2> DEFINE item == Head(s.queue)
             m == OpMessage(item, s.version)
             t == Pumped(s)
  <2>1. s.queue \in Seq(Item) /\ s.toServer \in Seq(ClientMessage) /\ s.version \in Nat
    BY DEF ClientType
  <2>2. item \in Item
    BY <1>3, <2>1, RangeFacts
  <2>3. m \in ClientMessage /\ m.type = "OP" /\ m.id = item.id
    BY <2>1, <2>2 DEF OpMessage, ClientMessage, Item
  <2>4. t.inflight = <<item>> /\ t.toServer = Append(s.toServer, m)
    BY DEF Pumped, ClientType
  <2>5. t.inflight[1] = item /\ t.inflight # <<>>
    BY <2>4
  <2> HIDE DEF item, m, t
  <2>6. m \in Range(t.toServer)
    BY <2>1, <2>3, <2>4, RangeAppend
  <2>7. Awaited(t, incoming)
    BY <2>3, <2>5, <2>6 DEF Awaited
  <2> QED
    BY <1>3, <2>7 DEF t
<1> QED
  BY <1>1, <1>2, <1>3, PumpFacts

\* What arrives besides takes no answer away.
LEMMA MoreArrives ==
  ASSUME NEW s, NEW S, NEW T, Awaited(s, S), S \subseteq T
  PROVE  Awaited(s, T)
BY DEF Awaited

\* A message that answers what is in flight ends the wait, any other leaves it
\* (handle_ack, ts_client_state_handle_message, ts_client_state_set_document).
LEMMA HandleAwaited ==
  ASSUME NEW s \in ClientType, NEW m \in ServerMessage, NEW rest, Awaited(s, rest \cup {m})
  PROVE  Awaited(HandleMessage(s, m), rest)
<1>1. ASSUME NEW t \in ClientType, t.inflight = <<>>
      PROVE  Awaited(Pump(t), rest)
  BY <1>1, PumpAwaited
<1>2. RequestDoc \in ClientMessage /\ RequestDoc.type = "REQUEST_DOC"
  BY DEF ClientMessage, RequestDoc
<1>3. ASSUME NEW t \in ClientType
      PROVE  /\ Range(Send(t, RequestDoc).toServer) = Range(t.toServer) \cup {RequestDoc}
             /\ Send(t, RequestDoc).inflight = t.inflight
             /\ Send(t, RequestDoc).queue = t.queue
  <2>1. t.toServer \in Seq(ClientMessage)
    BY DEF ClientType
  <2>2. Range(Append(t.toServer, RequestDoc)) = Range(t.toServer) \cup {RequestDoc}
    BY <1>2, <2>1, RangeAppend
  <2> QED
    BY <2>2 DEF Send, ClientType
<1>4. CASE m.type = "DOC_STATE" /\ Loaded(s, m) \in ClientType /\ HandleMessage(s, m) = Pump(Loaded(s, m))
  <2>1. Loaded(s, m).inflight = <<>>
    BY DEF Loaded, ClientType
  <2> QED
    BY <1>1, <1>4, <2>1
<1>5. CASE Acknowledged(s, m) \in ClientType /\ HandleMessage(s, m) = Pump(Acknowledged(s, m))
  <2>1. Acknowledged(s, m).inflight = <<>>
    BY DEF Acknowledged, ApplyAuthoritative, ClientType
  <2> QED
    BY <1>1, <1>5, <2>1
<1>6. ASSUME m.type = "REMOTE_OP" \/ (m.type = "ACK" /\ ~ (s.inflight # <<>> /\ s.inflight[1].id = m.id))
      PROVE  Awaited(s, rest)
  BY <1>6 DEF Awaited
<1>7. CASE /\ m.type = "ACK" /\ ~ (s.inflight # <<>> /\ s.inflight[1].id = m.id)
           /\ HandleMessage(s, m) = s
  BY <1>6, <1>7
<1>8. CASE m.type = "REMOTE_OP" /\ HandleMessage(s, m) = s
  BY <1>6, <1>8
<1>9. CASE m.type = "REMOTE_OP" /\ HandleMessage(s, m) = ApplyAuthoritative(s, m)
  <2>1. /\ ApplyAuthoritative(s, m).inflight = s.inflight
        /\ ApplyAuthoritative(s, m).queue = s.queue
        /\ ApplyAuthoritative(s, m).toServer = s.toServer
    BY DEF ApplyAuthoritative, ClientType
  <2> QED
    BY <1>6, <1>9, <2>1 DEF Awaited
<1>10. CASE m.type = "REMOTE_OP" /\ HandleMessage(s, m) = Send(s, RequestDoc)
  BY <1>3, <1>6, <1>10 DEF Awaited
<1>11. CASE Refused(s) \in ClientType /\ HandleMessage(s, m) = Send(Refused(s), RequestDoc)
  <2>1. Refused(s).inflight = <<>>
    BY DEF Refused, ClientType
  <2> QED
    BY <1>2, <1>3, <1>11, <2>1 DEF Awaited
<1> QED
  BY <1>4, <1>5, <1>7, <1>8, <1>9, <1>10, <1>11, HandleCases

\* Nobody else's wait is disturbed.
LEMMA AwaitedStays ==
  ASSUME SessionInv, AwaitedInv, running' \subseteq running,
         \A d \in running' : \/ client'[d] = client[d] /\ Arriving(d) \subseteq Arriving(d)'
                             \/ Awaited(client'[d], Arriving(d)'),
         \A d \in Clients : thread'[d].stage \in {"accepted", "registered"} =>
                              \/ thread'[d].out = <<>>
                              \/ thread'[d].out = thread[d].out /\ thread[d].stage \in {"accepted", "registered"}
  PROVE  AwaitedInv'
<1>1. running \subseteq Clients
  BY DEF SessionInv, SessionTypeOK
<1>2. \A d \in running' : Awaited(client'[d], Arriving(d)')
  BY MoreArrives DEF AwaitedInv
<1>3. \A d \in Clients : thread'[d].stage \in {"accepted", "registered"} => thread'[d].out = <<>>
  BY DEF AwaitedInv
<1> QED
  BY <1>2, <1>3 DEF AwaitedInv

\* A step of a thread that loses none of its messages keeps every answer on its
\* way.
LEMMA AwaitedUntouched ==
  ASSUME SessionInv, AwaitedInv, UNCHANGED <<client, running>>,
         \A d \in Clients : Range(toClient[d]) \subseteq Range(toClient'[d]),
         \A d \in Clients : thread'[d].out = thread[d].out,
         \A d \in Clients : thread'[d].stage \in {"accepted", "registered"}
                              => thread[d].stage \in {"accepted", "registered"}
  PROVE  AwaitedInv'
<1>1. running \subseteq Clients
  BY DEF SessionInv, SessionTypeOK
<1>2. \A d \in Clients : Arriving(d) \subseteq Arriving(d)'
  BY DEF Arriving
<1> QED
  BY <1>1, <1>2, AwaitedStays

\* A keystroke is sent at once, if nothing is in flight, and then awaits its
\* answer; or it waits behind one that does.
LEMMA TypeAwaited ==
  ASSUME SessionInv, AwaitedInv, NEW c \in Clients, Type(c)
  PROVE  AwaitedInv'
<1> DEFINE s == client[c]
           id == <<c, s.nextOp>>
<1>1. PICK op \in {InsertOp(p, id) : p \in (0 .. Reach(s)) \cap Positions}
                  \cup {DeleteOp(p) : p \in (0 .. Reach(s) - 1) \cap Positions} :
        client' = [client EXCEPT ![c] = QueueOperation(s, id, op)]
  BY DEF Type
<1>2. id \in OpIds /\ UNCHANGED <<document, running, thread, toClient, members, broadcast>>
  BY DEF Type
<1>3. op \in Operation(Char)
  BY <1>1, <1>2, PositionsAssumption DEF InsertOp, DeleteOp, Operation, Char
<1>4. s \in ClientType /\ client \in [Clients -> ClientType]
  BY DEF SessionInv, SessionTypeOK
<1> DEFINE item == [id |-> id, op |-> op]
           q == [s EXCEPT !.queue = Append(@, item), !.nextOp = @ + 1]
<1> HIDE DEF s, id
<1>5. client' = [client EXCEPT ![c] = Pump(q)]
  <2>1. QueueOperation(s, id, op) = Pump(q)
    BY DEF QueueOperation
  <2> QED
    BY <1>1, <2>1
<1>6. item \in Item
  BY <1>2, <1>3 DEF Item
<1> HIDE DEF item
<1>7. q \in ClientType
  <2>1. s.queue \in Seq(Item) /\ s.nextOp + 1 \in Nat \ {0}
    BY <1>4 DEF ClientType
  <2>2. Append(s.queue, item) \in Seq(Item)
    BY <1>6, <2>1, AppendProperties
  <2> QED
    BY <1>4, <2>1, <2>2 DEF ClientType
<1>8. q.inflight = s.inflight /\ q.toServer = s.toServer
  BY <1>4 DEF ClientType
<1> HIDE DEF q
<1>9. c \in running => Awaited(Pump(q), Arriving(c))
  <2>1. ASSUME c \in running, q.inflight # <<>>
        PROVE  Awaited(q, Arriving(c))
    BY <1>8, <2>1 DEF AwaitedInv, Awaited, s
  <2> QED
    BY <1>7, <2>1, PumpAwaited
<1>10. \A d \in Clients : client'[d] = IF d = c THEN Pump(q) ELSE client[d]
  BY <1>4, <1>5
<1>11. \A d : Arriving(d)' = Arriving(d)
  BY <1>2 DEF Arriving
<1>12. running \subseteq Clients
  BY DEF SessionInv, SessionTypeOK
<1>13. \A d \in running' : \/ client'[d] = client[d] /\ Arriving(d) \subseteq Arriving(d)'
                           \/ Awaited(client'[d], Arriving(d)')
  BY <1>2, <1>9, <1>10, <1>11, <1>12
<1> QED
  BY <1>2, <1>13, AwaitedStays

\* An answer that is taken is followed by the next request or operation, or
\* there is nothing left to send.
LEMMA HandleStepAwaited ==
  ASSUME SessionInv, AwaitedInv, NEW c \in Clients, Handle(c)
  PROVE  AwaitedInv'
<1> DEFINE s == client[c]
           m == Head(toClient[c])
           t == HandleMessage(s, m)
           rest == Range(Tail(toClient[c])) \cup Range(thread[c].out)
<1>1. /\ toClient[c] # <<>> /\ c \in running
      /\ client' = [client EXCEPT ![c] = t]
      /\ toClient' = [toClient EXCEPT ![c] = Tail(@)]
      /\ UNCHANGED <<document, running, thread, members, broadcast>>
  BY DEF Handle
<1>2. /\ s \in ClientType /\ client \in [Clients -> ClientType] /\ running \subseteq Clients
      /\ toClient \in [Clients -> Seq(ServerMessage)]
  BY DEF SessionInv, SessionTypeOK
<1>3. m \in ServerMessage /\ Range(toClient[c]) = Range(Tail(toClient[c])) \cup {m}
  <2>1. toClient[c] \in Seq(ServerMessage)
    BY <1>2
  <2> QED
    BY <1>1, <2>1, RangeFacts, HeadAndTail
<1>4. Arriving(c) = rest \cup {m}
  BY <1>3 DEF Arriving
<1>5. Awaited(s, Arriving(c))
  BY <1>1 DEF AwaitedInv
<1>6. toClient'[c] = Tail(toClient[c]) /\ \A d \in Clients : d # c => toClient'[d] = toClient[d]
  BY <1>1, <1>2
<1>7. Arriving(c)' = rest
  BY <1>1, <1>6 DEF Arriving
<1>8. \A d \in Clients : d # c => Arriving(d)' = Arriving(d)
  BY <1>1, <1>6 DEF Arriving
<1>9. client'[c] = t /\ \A d \in Clients : d # c => client'[d] = client[d]
  BY <1>1, <1>2
<1> HIDE DEF s, m, rest
<1>10. Awaited(t, rest)
  BY <1>2, <1>3, <1>4, <1>5, HandleAwaited
<1> HIDE DEF t
<1>11. \A d \in running' : \/ client'[d] = client[d] /\ Arriving(d) \subseteq Arriving(d)'
                           \/ Awaited(client'[d], Arriving(d)')
  BY <1>1, <1>2, <1>7, <1>8, <1>9, <1>10
<1> QED
  BY <1>1, <1>11, AwaitedStays

\* What a client waits for is answered as it is read (dispatch_message).
LEMMA ReceiveAwaited ==
  ASSUME SessionInv, AwaitedInv, NEW c \in Clients, Receive(c)
  PROVE  AwaitedInv'
<1> DEFINE s == client[c]
           m == Head(s.toServer)
           t == [s EXCEPT !.toServer = Tail(s.toServer)]
<1>1. /\ client' = [client EXCEPT ![c].toServer = Tail(@)]
      /\ UNCHANGED <<running, toClient, members, broadcast>>
      /\ thread[c] = Idle("serving") /\ s.toServer # <<>>
  BY ReceiveCases
<1>2. /\ s \in ClientType /\ client \in [Clients -> ClientType] /\ running \subseteq Clients
      /\ s.toServer \in Seq(ClientMessage) /\ thread \in [Clients -> ThreadType]
  BY DEF SessionInv, SessionTypeOK, ClientType
<1>3. Range(s.toServer) = Range(Tail(s.toServer)) \cup {m}
  BY <1>1, <1>2, HeadAndTail
<1>4. client'[c] = t /\ \A d \in Clients : d # c => client'[d] = client[d]
  BY <1>1, <1>2
<1>5. t.queue = s.queue /\ t.inflight = s.inflight /\ t.toServer = Tail(s.toServer)
  BY <1>2 DEF ClientType
<1>6. thread[c].out = <<>> /\ thread[c].stage = "serving"
  BY <1>1 DEF Idle
<1>7. /\ thread'[c].stage = "serving"
      /\ \A d \in Clients : d # c => thread'[d] = thread[d]
      /\ m.type = "OP" => \E k \in Range(thread'[c].out) : k.type \in {"ACK", "RESYNC_REQUIRED"} /\ k.id = m.id
      /\ m.type = "REQUEST_DOC" => \E k \in Range(thread'[c].out) : k.type = "DOC_STATE"
  <2> DEFINE done == log'[version'].op
             ack == Ack(m.id, version', done)
             remote == RemoteOp(version', done)
             r == ResyncRequired(m.id)
             doc == DocState(text, version)
  <2>1. /\ ack.type = "ACK" /\ ack.id = m.id /\ r.type = "RESYNC_REQUIRED" /\ r.id = m.id
        /\ doc.type = "DOC_STATE"
    BY DEF Ack, ResyncRequired, DocState
  <2>2. \/ m.type = "OP" /\ thread' = [thread EXCEPT ![c].out = <<ack>>, ![c].remote = <<remote>>]
        \/ m.type = "OP" /\ thread' = [thread EXCEPT ![c].out = <<r, doc>>]
        \/ m.type = "REQUEST_DOC" /\ thread' = [thread EXCEPT ![c].out = <<doc>>]
    BY ReceiveCases
  <2> HIDE DEF ack, r, doc, remote, m
  <2>3. /\ ack \in Range(<<ack>>) /\ r \in Range(<<r, doc>>) /\ doc \in Range(<<doc>>)
    BY DEF Range
  <2>4. /\ thread'[c].stage = thread[c].stage /\ \A d \in Clients : d # c => thread'[d] = thread[d]
        /\ \/ m.type = "OP" /\ thread'[c].out = <<ack>>
           \/ m.type = "OP" /\ thread'[c].out = <<r, doc>>
           \/ m.type = "REQUEST_DOC" /\ thread'[c].out = <<doc>>
    BY <1>2, <2>2 DEF ThreadType
  <2> QED
    BY <1>6, <2>1, <2>3, <2>4
<1> HIDE DEF s, m, t
<1>8. Range(<<>>) = {}
  BY DEF Range
<1>9. Arriving(c) = Range(toClient[c])
  BY <1>6, <1>8 DEF Arriving
<1>10. c \in running => Awaited(t, Arriving(c)')
  <2>1. Arriving(c)' = Range(toClient[c]) \cup Range(thread'[c].out)
    BY <1>1 DEF Arriving
  <2>2. c \in running => Awaited(s, Arriving(c))
    BY DEF AwaitedInv, s
  <2> QED
    BY <1>3, <1>5, <1>7, <1>9, <2>1, <2>2 DEF Awaited
<1>11. \A d \in Clients : d # c => Arriving(d)' = Arriving(d)
  BY <1>1, <1>7 DEF Arriving
<1>12. \A d \in running' : \/ client'[d] = client[d] /\ Arriving(d) \subseteq Arriving(d)'
                           \/ Awaited(client'[d], Arriving(d)')
  BY <1>1, <1>2, <1>4, <1>10, <1>11
<1>13. \A d \in Clients : thread'[d].stage \in {"accepted", "registered"} => thread'[d].out = thread[d].out /\ thread'[d].stage = thread[d].stage
  BY <1>7
<1> QED
  BY <1>1, <1>12, <1>13, AwaitedStays

\* The stream takes over what the thread had at hand (ts_transport_send).
LEMMA AnswerAwaited ==
  ASSUME SessionInv, AwaitedInv, NEW c \in Clients, Answer(c)
  PROVE  AwaitedInv'
<1> DEFINE m == Head(thread[c].out)
<1>1. /\ thread[c].out # <<>>
      /\ Deliver(c, m)
      /\ thread' = [thread EXCEPT ![c].out = Tail(@)]
      /\ UNCHANGED <<document, client, running, members, broadcast>>
  BY DEF Answer
<1>2. /\ thread \in [Clients -> ThreadType] /\ thread[c].out \in Seq(ServerMessage) /\ running \subseteq Clients
      /\ toClient \in [Clients -> Seq(ServerMessage)]
  BY DEF SessionInv, SessionTypeOK, ThreadType
<1>3. m \in ServerMessage /\ Range(thread[c].out) = Range(Tail(thread[c].out)) \cup {m}
  BY <1>1, <1>2, RangeFacts, HeadAndTail
<1> HIDE DEF m
<1>4. /\ c \in running => toClient'[c] = Append(toClient[c], m)
      /\ \A d \in Clients : d # c => toClient'[d] = toClient[d]
  BY <1>1, <1>2, <1>3, DeliverEffect
<1>5. toClient[c] \in Seq(ServerMessage)
  BY <1>2
<1>6. Range(Append(toClient[c], m)) = Range(toClient[c]) \cup {m}
  BY <1>3, <1>5, RangeAppend
<1>7. /\ thread'[c].out = Tail(thread[c].out) /\ thread'[c].stage = thread[c].stage
      /\ \A d \in Clients : d # c => thread'[d] = thread[d]
  BY <1>1, <1>2 DEF ThreadType
<1>8. \A d \in running : Arriving(d) \subseteq Arriving(d)'
  BY <1>2, <1>3, <1>4, <1>6, <1>7 DEF Arriving
<1>9. \A d \in running' : client'[d] = client[d] /\ Arriving(d) \subseteq Arriving(d)'
  BY <1>1, <1>8
<1>10. thread[c].stage \notin {"accepted", "registered"}
  BY <1>1 DEF AwaitedInv
<1>11. running' \subseteq running
  BY <1>1
<1>12. \A d \in Clients : thread'[d].stage \in {"accepted", "registered"} =>
          thread'[d].out = thread[d].out /\ thread[d].stage \in {"accepted", "registered"}
  BY <1>7, <1>10
<1> QED
  BY <1>9, <1>11, <1>12, AwaitedStays

\* A client that quits awaits nothing.
LEMMA QuitAwaited ==
  ASSUME SessionInv, AwaitedInv, NEW c \in Clients, Quit(c)
  PROVE  AwaitedInv'
<1>1. /\ running' = running \ {c}
      /\ toClient' = [toClient EXCEPT ![c] = <<>>]
      /\ UNCHANGED thread
      /\ \A d \in Clients : d # c => client'[d] = client[d]
  BY DEF Quit, SessionInv, SessionTypeOK
<1>2. running \subseteq Clients /\ \A d \in Clients : d # c => toClient'[d] = toClient[d]
  BY <1>1 DEF SessionInv, SessionTypeOK
<1>3. \A d \in running' : client'[d] = client[d] /\ Arriving(d) \subseteq Arriving(d)'
  BY <1>1, <1>2 DEF Arriving
<1> QED
  BY <1>1, <1>3, AwaitedStays

\* Every step keeps an answer on its way to each client that waits.
LEMMA AwaitedStep ==
  ASSUME SessionInv, AwaitedInv, [SessionNext]_sessionVars
  PROVE  AwaitedInv'
<1>1. thread \in [Clients -> ThreadType] /\ toClient \in [Clients -> Seq(ServerMessage)]
  BY DEF SessionInv, SessionTypeOK
<1>2. CASE SessionNext
  <2>1. PICK c \in Clients : Type(c) \/ Handle(c) \/ Quit(c) \/ ServerStep(c)
    BY <1>2 DEF SessionNext
  <2>2. CASE Type(c)
    BY <2>2, TypeAwaited
  <2>3. CASE Handle(c)
    BY <2>3, HandleStepAwaited
  <2>4. CASE Quit(c)
    BY <2>4, QuitAwaited
  <2>5. CASE Receive(c)
    BY <2>5, ReceiveAwaited
  <2>6. CASE Answer(c)
    BY <2>6, AnswerAwaited
  <2>7. CASE Register(c)
    <3>1. /\ UNCHANGED <<client, running, toClient>> /\ thread[c].stage = "accepted"
          /\ \A d \in Clients : thread'[d].out = thread[d].out /\ (d # c => thread'[d].stage = thread[d].stage)
      BY <1>1, <2>7 DEF Register, ThreadType
    <3> QED
      BY <3>1, AwaitedUntouched
  <2>8. CASE TakeSnapshot(c)
    <3>1. /\ UNCHANGED <<client, running, toClient>> /\ thread[c].stage = "registered"
          /\ thread'[c].stage = "serving"
          /\ \A d \in Clients : d # c => thread'[d] = thread[d]
      BY <1>1, <2>8 DEF TakeSnapshot, ThreadType
    <3>2. thread[c].out = <<>> /\ Range(<<>>) = {}
      BY <3>1 DEF AwaitedInv, Range
    <3>3. \A d \in Clients : Arriving(d) \subseteq Arriving(d)'
      BY <3>1, <3>2 DEF Arriving
    <3>4. running \subseteq Clients
      BY DEF SessionInv, SessionTypeOK
    <3>5. \A d \in running' : client'[d] = client[d] /\ Arriving(d) \subseteq Arriving(d)'
      BY <3>1, <3>3, <3>4
    <3> QED
      BY <3>1, <3>5, AwaitedStays
  <2>9. CASE StartBroadcast(c)
    BY <2>9, AwaitedUntouched DEF StartBroadcast
  <2>10. CASE BroadcastNext(c)
    <3> DEFINE m == thread[c].remote[1]
               e == Head(broadcast.to)
    <3>1. /\ UNCHANGED <<client, running, thread>> /\ Deliver(e, m)
          /\ broadcast.by = c /\ broadcast.to # <<>>
      BY <2>10 DEF BroadcastNext
    <3>2. thread[c].remote \in Seq(ServerMessage) /\ thread[c].remote # <<>> /\ broadcast.to \in Seq(Clients)
      BY <1>1, <3>1 DEF SessionInv, SessionTypeOK, ThreadType, Listed
    <3>3. m \in ServerMessage /\ e \in Clients
      BY <3>1, <3>2, RangeFacts
    <3> HIDE DEF m, e
    <3>4. \A d \in Clients : toClient'[d] = toClient[d] \/ toClient'[d] = Append(toClient[d], m)
      BY <1>1, <3>1, <3>3, DeliverEffect
    <3>5. \A d \in Clients : Range(toClient[d]) \subseteq Range(toClient'[d])
      <4>1. ASSUME NEW d \in Clients
            PROVE  Range(toClient[d]) \subseteq Range(Append(toClient[d], m))
        <5>1. toClient[d] \in Seq(ServerMessage)
          BY <1>1
        <5> QED
          BY <3>3, <5>1, RangeAppend
      <4> QED
        BY <3>4, <4>1
    <3> QED
      BY <3>1, <3>5, AwaitedUntouched
  <2>11. CASE EndBroadcast(c)
    <3>1. /\ UNCHANGED <<client, running, toClient>>
          /\ \A d \in Clients : thread'[d].out = thread[d].out /\ thread'[d].stage = thread[d].stage
      BY <1>1, <2>11 DEF EndBroadcast, ThreadType
    <3> QED
      BY <3>1, AwaitedUntouched
  <2>12. CASE Leave(c)
    <3>1. /\ UNCHANGED <<client, running, toClient>> /\ thread'[c].stage = "gone"
          /\ \A d \in Clients : thread'[d].out = thread[d].out /\ (d # c => thread'[d].stage = thread[d].stage)
      BY <1>1, <2>12 DEF Leave, ThreadType
    <3> QED
      BY <3>1, AwaitedUntouched
  <2> QED
    BY <2>1, <2>2, <2>3, <2>4, <2>5, <2>6, <2>7, <2>8, <2>9, <2>10, <2>11, <2>12 DEF ServerStep
<1>3. CASE UNCHANGED sessionVars
  BY <1>3, AwaitedUntouched DEF sessionVars
<1> QED
  BY <1>2, <1>3

\* At the start nobody waits.
LEMMA InitAwaited ==
  ASSUME SessionInit
  PROVE  AwaitedInv
<1>1. \A c \in Clients : \/ client[c] = NewClient
                         \/ client[c] = [NewClient EXCEPT !.content = InitialText, !.copy = "loaded"]
  BY DEF SessionInit
<1>2. \A c \in Clients : thread[c].out = <<>>
  BY DEF SessionInit, Idle
<1>3. ASSUME NEW c \in Clients
      PROVE  client[c].inflight = <<>> /\ client[c].queue = <<>>
  <2>1. CASE client[c] = NewClient
    BY <2>1 DEF NewClient
  <2>2. CASE client[c] = [NewClient EXCEPT !.content = InitialText, !.copy = "loaded"]
    BY <2>2 DEF NewClient
  <2> QED
    BY <1>1, <2>1, <2>2
<1>4. running = Clients
  BY DEF SessionInit
<1> QED
  BY <1>2, <1>3, <1>4 DEF AwaitedInv, Awaited

\* A message on the way is at a place in one of two sequences.
LEMMA ArrivingIncoming ==
  ASSUME SessionInv, NEW c \in Clients, NEW m \in Arriving(c)
  PROVE  \E i \in DOMAIN Incoming(c) : Incoming(c)[i] = m
<1> DEFINE q == toClient[c]
           r == thread[c].out
<1>1. q \in Seq(ServerMessage) /\ r \in Seq(ServerMessage)
  BY DEF SessionInv, SessionTypeOK, ThreadType
<1>2. m \in Range(q) \/ m \in Range(r)
  BY DEF Arriving
<1> HIDE DEF q, r
<1>3. /\ q \o r \in Seq(ServerMessage) /\ Len(q \o r) = Len(q) + Len(r)
      /\ \A i \in 1 .. Len(q) : (q \o r)[i] = q[i]
      /\ \A i \in 1 .. Len(r) : (q \o r)[Len(q) + i] = r[i]
  BY <1>1, OneAfterTheOther
<1> DEFINE t == q \o r
<1>4. DOMAIN t = 1 .. Len(q) + Len(r) /\ Len(q) \in Nat /\ Len(r) \in Nat
  BY <1>1, <1>3
<1>5. Range(q) = {q[i] : i \in 1 .. Len(q)} /\ Range(r) = {r[i] : i \in 1 .. Len(r)}
  BY <1>1, RangeEquality
<1> HIDE DEF t
<1>6. ASSUME NEW i \in 1 .. Len(q), m = q[i]
      PROVE  \E j \in DOMAIN t : t[j] = m
  <2>1. i \in DOMAIN t
    BY <1>4
  <2> QED
    BY <1>3, <1>6, <2>1 DEF t
<1>7. ASSUME NEW i \in 1 .. Len(r), m = r[i]
      PROVE  \E j \in DOMAIN t : t[j] = m
  <2>1. Len(q) + i \in DOMAIN t
    BY <1>4
  <2> QED
    BY <1>3, <1>7, <2>1 DEF t
<1> QED
  BY <1>2, <1>5, <1>6, <1>7 DEF t, q, r, Incoming

\* A client that waits has a message on the wire, or one arriving.
LEMMA AwaitedAnswers ==
  ASSUME SessionInv, AwaitedInv
  PROVE  AnswerOnItsWay
<1> SUFFICES ASSUME NEW c \in running
             PROVE  LET s == client[c]
                    IN  /\ s.inflight # <<>> =>
                             LET id == s.inflight[1].id
                             IN  \/ Has(s.toServer, LAMBDA m : m.type = "OP" /\ m.id = id)
                                 \/ Has(Incoming(c), LAMBDA m : m.type \in {"ACK", "RESYNC_REQUIRED"} /\ m.id = id)
                        /\ s.inflight = <<>> /\ s.queue # <<>> =>
                             \/ Has(s.toServer, LAMBDA m : m.type = "REQUEST_DOC")
                             \/ Has(Incoming(c), LAMBDA m : m.type = "DOC_STATE")
  BY DEF AnswerOnItsWay
<1> DEFINE s == client[c]
           sent == s.toServer
           incoming == Incoming(c)
<1>1. c \in Clients /\ Awaited(s, Arriving(c))
  BY DEF SessionInv, SessionTypeOK, AwaitedInv
<1>2. sent \in Seq(ClientMessage)
  BY <1>1 DEF SessionInv, SessionTypeOK, ClientType
<1>3. \A m \in Range(sent) : \E i \in DOMAIN sent : sent[i] = m
  BY DEF Range
<1>4. \A m \in Arriving(c) : \E i \in DOMAIN incoming : incoming[i] = m
  BY <1>1, ArrivingIncoming
<1> HIDE DEF incoming, sent
<1>5. ASSUME s.inflight # <<>>
      PROVE  \/ \E i \in DOMAIN sent : sent[i].type = "OP" /\ sent[i].id = s.inflight[1].id
             \/ \E i \in DOMAIN incoming :
                  incoming[i].type \in {"ACK", "RESYNC_REQUIRED"} /\ incoming[i].id = s.inflight[1].id
  BY <1>1, <1>3, <1>4, <1>5 DEF Awaited, sent
<1>6. ASSUME s.inflight = <<>> /\ s.queue # <<>>
      PROVE  \/ \E i \in DOMAIN sent : sent[i].type = "REQUEST_DOC"
             \/ \E i \in DOMAIN incoming : incoming[i].type = "DOC_STATE"
  BY <1>1, <1>3, <1>4, <1>6 DEF Awaited, sent
<1> QED
  BY <1>5, <1>6 DEF Has, sent, incoming

\* For any number of clients: an operation in flight is on its way or its
\* answer is, and a queue that does not move waits for a document that comes
\* (state_pump), so a client never waits for something nobody will send.
THEOREM AnswersOnTheirWay == SessionSpec => []AnswerOnItsWay
<1>1. SessionInit => AwaitedInv
  BY InitAwaited
<1>2. SessionInv /\ AwaitedInv /\ [SessionNext]_sessionVars => AwaitedInv'
  BY AwaitedStep
<1>3. SessionInv /\ AwaitedInv => AnswerOnItsWay
  BY AwaitedAnswers
<1> QED
  BY <1>1, <1>2, <1>3, SessionInvariant, PTL DEF SessionSpec

-----------------------------------------------------------------------------
(* First documents *)

\* Nothing but a document ends the wait for the first one: sending changes
\* nothing of it (state_pump, ts_client_state_queue_operation).
LEMMA PumpCopy ==
  ASSUME NEW s \in ClientType
  PROVE  Pump(s).copy = s.copy
BY PumpFacts DEF Pumped, ClientType

\* A client without a document was without one before, and what it handled was
\* not a document (ts_client_state_handle_message).
LEMMA HandleCopy ==
  ASSUME NEW s \in ClientType, NEW m \in ServerMessage, HandleMessage(s, m).copy = "none"
  PROVE  s.copy = "none" /\ m.type # "DOC_STATE"
<1>1. CASE m.type = "DOC_STATE" /\ Loaded(s, m) \in ClientType /\ HandleMessage(s, m) = Pump(Loaded(s, m))
  <2>1. Loaded(s, m).copy = "loaded"
    BY DEF Loaded, ClientType
  <2> QED
    BY <1>1, <2>1, PumpCopy
<1>2. CASE m.type = "ACK" /\ Acknowledged(s, m) \in ClientType /\ HandleMessage(s, m) = Pump(Acknowledged(s, m))
  <2>1. Acknowledged(s, m).copy = CopyAfterAck(s, m.version)
    BY DEF Acknowledged, ApplyAuthoritative, ClientType
  <2> QED
    BY <1>2, <2>1, PumpCopy DEF CopyAfterAck
<1>3. CASE m.type # "DOC_STATE" /\ HandleMessage(s, m) = s
  BY <1>3
<1>4. CASE m.type = "REMOTE_OP" /\ HandleMessage(s, m) = ApplyAuthoritative(s, m)
  BY <1>4 DEF ApplyAuthoritative, ClientType
<1>5. CASE m.type = "REMOTE_OP" /\ HandleMessage(s, m) = Send(s, RequestDoc)
  BY <1>5 DEF Send, ClientType
<1>6. CASE m.type = "RESYNC_REQUIRED" /\ HandleMessage(s, m) = Send(Refused(s), RequestDoc)
  BY <1>6 DEF Send, Refused, ClientType
<1> QED
  BY <1>1, <1>2, <1>3, <1>4, <1>5, <1>6, HandleCases

\* The wait goes on with what it waits for.
LEMMA DueStays ==
  ASSUME SessionInv, FirstInv, running' \subseteq running,
         \A d \in running' : client'[d].copy = "none" => client[d].copy = "none" /\ (Due(d) => Due(d)')
  PROVE  FirstInv'
BY DEF FirstInv

\* A key leaves the wait for the first document as it is.
LEMMA TypeFirst ==
  ASSUME SessionInv, FirstInv, NEW c \in Clients, Type(c)
  PROVE  FirstInv'
<1> DEFINE s == client[c]
           id == <<c, s.nextOp>>
<1>1. PICK op \in {InsertOp(p, id) : p \in (0 .. Reach(s)) \cap Positions}
                  \cup {DeleteOp(p) : p \in (0 .. Reach(s) - 1) \cap Positions} :
        client' = [client EXCEPT ![c] = QueueOperation(s, id, op)]
  BY DEF Type
<1>2. id \in OpIds /\ UNCHANGED <<document, running, thread, toClient, members, broadcast>>
  BY DEF Type
<1>3. op \in Operation(Char)
  BY <1>1, <1>2, PositionsAssumption DEF InsertOp, DeleteOp, Operation, Char
<1>4. s \in ClientType /\ client \in [Clients -> ClientType] /\ running \subseteq Clients
  BY DEF SessionInv, SessionTypeOK
<1> DEFINE item == [id |-> id, op |-> op]
           q == [s EXCEPT !.queue = Append(@, item), !.nextOp = @ + 1]
<1> HIDE DEF s, id
<1>5. client' = [client EXCEPT ![c] = Pump(q)]
  <2>1. QueueOperation(s, id, op) = Pump(q)
    BY DEF QueueOperation
  <2> QED
    BY <1>1, <2>1
<1>6. item \in Item
  BY <1>2, <1>3 DEF Item
<1> HIDE DEF item
<1>7. q \in ClientType
  <2>1. s.queue \in Seq(Item) /\ s.nextOp + 1 \in Nat \ {0}
    BY <1>4 DEF ClientType
  <2>2. Append(s.queue, item) \in Seq(Item)
    BY <1>6, <2>1, AppendProperties
  <2> QED
    BY <1>4, <2>1, <2>2 DEF ClientType
<1>8. q.copy = s.copy
  BY <1>4 DEF ClientType
<1> HIDE DEF q
<1>9. client'[c].copy = s.copy /\ \A d \in Clients : d # c => client'[d] = client[d]
  BY <1>4, <1>5, <1>7, <1>8, PumpCopy
<1>10. \A d \in Clients : Due(d)' = Due(d)
  BY <1>2 DEF Due, Arriving
<1> QED
  BY <1>2, <1>4, <1>9, <1>10, DueStays DEF s

\* Handling anything but a document leaves the document on its way.
LEMMA HandleFirst ==
  ASSUME SessionInv, FirstInv, NEW c \in Clients, Handle(c)
  PROVE  FirstInv'
<1> DEFINE s == client[c]
           m == Head(toClient[c])
           t == HandleMessage(s, m)
           rest == Range(Tail(toClient[c])) \cup Range(thread[c].out)
<1>1. /\ toClient[c] # <<>> /\ c \in running
      /\ client' = [client EXCEPT ![c] = t]
      /\ toClient' = [toClient EXCEPT ![c] = Tail(@)]
      /\ UNCHANGED <<document, running, thread, members, broadcast>>
  BY DEF Handle
<1>2. /\ s \in ClientType /\ client \in [Clients -> ClientType] /\ running \subseteq Clients
      /\ toClient \in [Clients -> Seq(ServerMessage)]
  BY DEF SessionInv, SessionTypeOK
<1>3. m \in ServerMessage /\ Range(toClient[c]) = Range(Tail(toClient[c])) \cup {m}
  <2>1. toClient[c] \in Seq(ServerMessage)
    BY <1>2
  <2> QED
    BY <1>1, <2>1, RangeFacts, HeadAndTail
<1>4. Arriving(c) = rest \cup {m}
  BY <1>3 DEF Arriving
<1>5. toClient'[c] = Tail(toClient[c]) /\ \A d \in Clients : d # c => toClient'[d] = toClient[d]
  BY <1>1, <1>2
<1>6. Arriving(c)' = rest
  BY <1>1, <1>5 DEF Arriving
<1>7. \A d \in Clients : d # c => (Due(d)' = Due(d))
  BY <1>1, <1>5 DEF Due, Arriving
<1>8. client'[c] = t /\ \A d \in Clients : d # c => client'[d] = client[d]
  BY <1>1, <1>2
<1> HIDE DEF m, rest
<1>9. t.copy = "none" => s.copy = "none" /\ m.type # "DOC_STATE"
  BY <1>2, <1>3, HandleCopy
<1> HIDE DEF t, s
<1>10. t.copy = "none" /\ Due(c) => Due(c)'
  BY <1>1, <1>4, <1>6, <1>9 DEF Due
<1> QED
  BY <1>1, <1>2, <1>7, <1>8, <1>9, <1>10, DueStays DEF s

\* A step that touches no client's copy and no message on its way, and serves a
\* client only with its document at hand.
LEMMA FirstUntouched ==
  ASSUME SessionInv, FirstInv, running' \subseteq running,
         \A d \in running' : client'[d].copy = client[d].copy,
         \A d \in running' : Arriving(d) \subseteq Arriving(d)',
         \A d \in running' : \/ thread'[d].stage = thread[d].stage
                             \/ thread'[d].stage = "registered"
                             \/ thread[d].stage \in {"serving", "gone"}
                             \/ \E m \in Range(thread'[d].out) : m.type = "DOC_STATE"
  PROVE  FirstInv'
<1>1. ASSUME NEW d \in running'
      PROVE  client'[d].copy = client[d].copy /\ (Due(d) => Due(d)')
  BY <1>1 DEF Due, Arriving
<1> QED
  BY <1>1, DueStays

\* A thread that receives has nothing at hand before (dispatch_message).
LEMMA ReceiveFirst ==
  ASSUME SessionInv, FirstInv, NEW c \in Clients, Receive(c)
  PROVE  FirstInv'
<1>1. /\ client' = [client EXCEPT ![c].toServer = Tail(@)]
      /\ UNCHANGED <<running, toClient, members, broadcast>>
      /\ thread[c] = Idle("serving")
  BY ReceiveCases
<1>2. /\ client \in [Clients -> ClientType] /\ running \subseteq Clients
      /\ thread \in [Clients -> ThreadType]
  BY DEF SessionInv, SessionTypeOK
<1>3. \A d \in Clients : client'[d].copy = client[d].copy
  <2>1. ASSUME NEW s \in ClientType
        PROVE  [s EXCEPT !.toServer = Tail(@)].copy = s.copy
    BY DEF ClientType
  <2>2. client'[c] = [client[c] EXCEPT !.toServer = Tail(@)] /\ \A d \in Clients : d # c => client'[d] = client[d]
    BY <1>1, <1>2
  <2> QED
    BY <1>2, <2>1, <2>2
<1>4. thread[c].out = <<>> /\ Range(<<>>) = {}
  BY <1>1 DEF Idle, Range
<1>5. \A d \in Clients : thread'[d].stage = thread[d].stage /\ (d # c => thread'[d].out = thread[d].out)
  <2> DEFINE m == Head(client[c].toServer)
             ack == <<Ack(m.id, version', log'[version'].op)>>
             remote == <<RemoteOp(version', log'[version'].op)>>
             both == <<ResyncRequired(m.id), DocState(text, version)>>
             doc == <<DocState(text, version)>>
  <2>1. \/ thread' = [thread EXCEPT ![c].out = ack, ![c].remote = remote]
        \/ thread' = [thread EXCEPT ![c].out = both]
        \/ thread' = [thread EXCEPT ![c].out = doc]
    BY ReceiveCases
  <2> HIDE DEF ack, remote, both, doc
  <2> QED
    BY <1>2, <2>1 DEF ThreadType
<1>6. \A d \in Clients : Arriving(d) \subseteq Arriving(d)'
  BY <1>1, <1>4, <1>5 DEF Arriving
<1>7. running' \subseteq running
  BY <1>1
<1> QED
  BY <1>2, <1>3, <1>5, <1>6, <1>7, FirstUntouched

\* What a thread sends is still on its way (ts_transport_send).
LEMMA AnswerFirst ==
  ASSUME SessionInv, FirstInv, NEW c \in Clients, Answer(c)
  PROVE  FirstInv'
<1> DEFINE m == Head(thread[c].out)
<1>1. /\ thread[c].out # <<>>
      /\ Deliver(c, m)
      /\ thread' = [thread EXCEPT ![c].out = Tail(@)]
      /\ UNCHANGED <<document, client, running, members, broadcast>>
  BY DEF Answer
<1>2. /\ thread \in [Clients -> ThreadType] /\ thread[c].out \in Seq(ServerMessage) /\ running \subseteq Clients
      /\ toClient \in [Clients -> Seq(ServerMessage)]
  BY DEF SessionInv, SessionTypeOK, ThreadType
<1>3. m \in ServerMessage /\ Range(thread[c].out) = Range(Tail(thread[c].out)) \cup {m}
  BY <1>1, <1>2, RangeFacts, HeadAndTail
<1> HIDE DEF m
<1>4. /\ c \in running => toClient'[c] = Append(toClient[c], m)
      /\ \A d \in Clients : d # c => toClient'[d] = toClient[d]
  BY <1>1, <1>2, <1>3, DeliverEffect
<1>5. toClient[c] \in Seq(ServerMessage)
  BY <1>2
<1>6. Range(Append(toClient[c], m)) = Range(toClient[c]) \cup {m}
  BY <1>3, <1>5, RangeAppend
<1>7. /\ thread'[c].out = Tail(thread[c].out) /\ thread'[c].stage = thread[c].stage
      /\ \A d \in Clients : d # c => thread'[d] = thread[d]
  BY <1>1, <1>2 DEF ThreadType
<1>8. \A d \in running : Arriving(d) \subseteq Arriving(d)'
  BY <1>2, <1>3, <1>4, <1>6, <1>7 DEF Arriving
<1>9. \A d \in Clients : thread'[d].stage = thread[d].stage
  BY <1>7
<1>10. running' \subseteq running /\ client' = client
  BY <1>1
<1> QED
  BY <1>2, <1>8, <1>9, <1>10, FirstUntouched

\* A thread that broadcasts adds to what arrives (broadcast_message).
LEMMA BroadcastFirst ==
  ASSUME SessionInv, FirstInv, NEW c \in Clients, BroadcastNext(c)
  PROVE  FirstInv'
<1> DEFINE m == thread[c].remote[1]
           e == Head(broadcast.to)
<1>1. /\ UNCHANGED <<client, running, thread>> /\ Deliver(e, m)
      /\ broadcast.by = c /\ broadcast.to # <<>>
  BY DEF BroadcastNext
<1>2. /\ thread \in [Clients -> ThreadType] /\ toClient \in [Clients -> Seq(ServerMessage)]
      /\ running \subseteq Clients
  BY DEF SessionInv, SessionTypeOK
<1>3. thread[c].remote \in Seq(ServerMessage) /\ thread[c].remote # <<>> /\ broadcast.to \in Seq(Clients)
  BY <1>1, <1>2 DEF SessionInv, SessionTypeOK, ThreadType, Listed
<1>4. m \in ServerMessage /\ e \in Clients
  BY <1>1, <1>3, RangeFacts
<1> HIDE DEF m, e
<1>5. \A d \in Clients : toClient'[d] = toClient[d] \/ toClient'[d] = Append(toClient[d], m)
  BY <1>1, <1>2, <1>4, DeliverEffect
<1>6. ASSUME NEW d \in Clients
      PROVE  Range(toClient[d]) \subseteq Range(Append(toClient[d], m))
  <2>1. toClient[d] \in Seq(ServerMessage)
    BY <1>2
  <2> QED
    BY <1>4, <2>1, RangeAppend
<1>7. \A d \in Clients : Arriving(d) \subseteq Arriving(d)'
  BY <1>1, <1>5, <1>6 DEF Arriving
<1>8. running' \subseteq running /\ client' = client /\ thread' = thread
  BY <1>1
<1> QED
  BY <1>2, <1>7, <1>8, FirstUntouched

\* Every step keeps the first document on its way.
LEMMA FirstStep ==
  ASSUME SessionInv, AwaitedInv, FirstInv, [SessionNext]_sessionVars
  PROVE  FirstInv'
<1>1. thread \in [Clients -> ThreadType] /\ running \subseteq Clients
  BY DEF SessionInv, SessionTypeOK
<1>2. ASSUME UNCHANGED <<client, running, toClient>>,
             \A d \in Clients : thread'[d].out = thread[d].out,
             \A d \in Clients : \/ thread'[d].stage = thread[d].stage
                                \/ thread'[d].stage = "registered"
                                \/ thread[d].stage \in {"serving", "gone"}
      PROVE  FirstInv'
  <2>1. \A d \in Clients : Arriving(d) \subseteq Arriving(d)'
    BY <1>2 DEF Arriving
  <2>2. running' \subseteq running /\ client' = client
    BY <1>2
  <2> QED
    BY <1>1, <1>2, <2>1, <2>2, FirstUntouched
<1>3. CASE SessionNext
  <2>1. PICK c \in Clients : Type(c) \/ Handle(c) \/ Quit(c) \/ ServerStep(c)
    BY <1>3 DEF SessionNext
  <2>2. CASE Type(c)
    BY <2>2, TypeFirst
  <2>3. CASE Handle(c)
    BY <2>3, HandleFirst
  <2>4. CASE Quit(c)
    <3>1. /\ running' = running \ {c}
          /\ toClient' = [toClient EXCEPT ![c] = <<>>]
          /\ UNCHANGED thread
          /\ \A d \in Clients : d # c => client'[d] = client[d]
      BY <2>4 DEF Quit, SessionInv, SessionTypeOK
    <3>2. \A d \in Clients : d # c => toClient'[d] = toClient[d]
      BY <3>1 DEF SessionInv, SessionTypeOK
    <3>3. \A d \in running' : client'[d] = client[d] /\ Arriving(d) \subseteq Arriving(d)'
      BY <1>1, <3>1, <3>2 DEF Arriving
    <3> QED
      BY <3>1, <3>3, FirstUntouched
  <2>5. CASE Receive(c)
    BY <2>5, ReceiveFirst
  <2>6. CASE Answer(c)
    BY <2>6, AnswerFirst
  <2>7. CASE Register(c)
    <3>1. /\ UNCHANGED <<client, running, toClient>> /\ thread'[c].stage = "registered"
          /\ \A d \in Clients : thread'[d].out = thread[d].out /\ (d # c => thread'[d].stage = thread[d].stage)
      BY <1>1, <2>7 DEF Register, ThreadType
    <3> QED
      BY <1>2, <3>1
  <2>8. CASE TakeSnapshot(c)
    <3> DEFINE doc == DocState(text, version)
    <3>1. /\ UNCHANGED <<client, running, toClient>> /\ thread[c].stage = "registered"
          /\ thread' = [thread EXCEPT ![c].stage = "serving", ![c].out = <<doc>>]
      BY <2>8 DEF TakeSnapshot
    <3>2. doc.type = "DOC_STATE"
      BY DEF DocState
    <3> HIDE DEF doc
    <3>3. thread'[c].out = <<doc>> /\ \A d \in Clients : d # c => thread'[d] = thread[d]
      BY <1>1, <3>1 DEF ThreadType
    <3>4. thread[c].out = <<>> /\ Range(<<>>) = {} /\ doc \in Range(<<doc>>)
      BY <3>1 DEF AwaitedInv, Range
    <3>5. \A d \in Clients : Arriving(d) \subseteq Arriving(d)'
      BY <3>1, <3>3, <3>4 DEF Arriving
    <3>6. \A d \in Clients : thread'[d].stage = thread[d].stage \/ \E m \in Range(thread'[d].out) : m.type = "DOC_STATE"
      BY <3>2, <3>3, <3>4
    <3>7. running' \subseteq running /\ client' = client
      BY <3>1
    <3> QED
      BY <1>1, <3>5, <3>6, <3>7, FirstUntouched
  <2>9. CASE StartBroadcast(c)
    BY <1>2, <2>9 DEF StartBroadcast
  <2>10. CASE BroadcastNext(c)
    BY <2>10, BroadcastFirst
  <2>11. CASE EndBroadcast(c)
    <3>1. /\ UNCHANGED <<client, running, toClient>>
          /\ \A d \in Clients : thread'[d].out = thread[d].out /\ thread'[d].stage = thread[d].stage
      BY <1>1, <2>11 DEF EndBroadcast, ThreadType
    <3> QED
      BY <1>2, <3>1
  <2>12. CASE Leave(c)
    <3>1. /\ UNCHANGED <<client, running, toClient>> /\ thread[c].stage = "serving"
          /\ \A d \in Clients : thread'[d].out = thread[d].out /\ (d # c => thread'[d].stage = thread[d].stage)
      BY <1>1, <2>12 DEF Leave, Idle, ThreadType
    <3> QED
      BY <1>2, <3>1
  <2> QED
    BY <2>1, <2>2, <2>3, <2>4, <2>5, <2>6, <2>7, <2>8, <2>9, <2>10, <2>11, <2>12 DEF ServerStep
<1>4. CASE UNCHANGED sessionVars
  BY <1>2, <1>4 DEF sessionVars
<1> QED
  BY <1>3, <1>4

\* At the start whoever has no document has not been registered.
LEMMA InitFirst ==
  ASSUME SessionInit
  PROVE  FirstInv
<1>1. \A c \in Clients : thread[c].stage = "accepted"
                         \/ client[c] = [NewClient EXCEPT !.content = InitialText, !.copy = "loaded"]
  BY DEF SessionInit, Idle
<1>2. [NewClient EXCEPT !.content = InitialText, !.copy = "loaded"].copy = "loaded"
  BY DEF NewClient
<1> QED
  BY <1>1, <1>2 DEF SessionInit, FirstInv, Due

\* A copy that skipped no version is the server's, and a missing one is coming.
LEMMA CopiesDiverge ==
  ASSUME SessionInv, FirstInv
  PROVE  OnlyASkippedVersionDiverges
<1> SUFFICES ASSUME NEW c \in running
             PROVE  /\ client[c].copy = "loaded" => client[c].content = past[client[c].version + 1]
                    /\ client[c].copy = "none" => FirstDocumentOnItsWay(c)
  BY DEF OnlyASkippedVersionDiverges
<1>1. c \in Clients
  BY DEF SessionInv, SessionTypeOK
<1>2. client[c].copy = "loaded" => client[c].content = past[client[c].version + 1]
  BY <1>1 DEF SessionInv, Copies, Faithful
<1> DEFINE incoming == Incoming(c)
<1>3. \A m \in Arriving(c) : \E i \in DOMAIN incoming : incoming[i] = m
  BY <1>1, ArrivingIncoming
<1> HIDE DEF incoming
<1>4. client[c].copy = "none" =>
        thread[c].stage \in {"accepted", "registered"} \/ \E i \in DOMAIN incoming : incoming[i].type = "DOC_STATE"
  BY <1>3 DEF FirstInv, Due
<1> QED
  BY <1>2, <1>4 DEF FirstDocumentOnItsWay, Has, incoming

\* For any number of clients: since its last document a client shows the
\* server's text of its version unless it applied an ACK that skipped one,
\* however answers and broadcasts overtake each other (handle_ack,
\* handle_remote); and a client without a document is going to be sent one.
THEOREM OnlySkippedVersionsDiverge == SessionSpec => []OnlyASkippedVersionDiverges
<1>1. SessionInit => FirstInv /\ AwaitedInv
  BY InitFirst, InitAwaited
<1>2. SessionInv /\ AwaitedInv /\ FirstInv /\ [SessionNext]_sessionVars => FirstInv' /\ AwaitedInv'
  BY FirstStep, AwaitedStep
<1>3. SessionInv /\ FirstInv => OnlyASkippedVersionDiverges
  BY CopiesDiverge
<1> QED
  BY <1>1, <1>2, <1>3, SessionInvariant, PTL DEF SessionSpec

-----------------------------------------------------------------------------
(* What is in flight comes back as it was typed *)

\* The first of the queue is sent as it was typed, and for the first time
\* (state_pump).
LEMMA PumpUnaltered ==
  ASSUME NEW c, NEW s \in ClientType, NEW n \in Nat, NEW entries, NEW dropped,
         Ordered(s, Numbers(c, n, entries, dropped)), Own(c, s), Submitted(s), Unaltered(s, n, entries)
  PROVE  Unaltered(Pump(s), n, entries)
<1>1. CASE Pump(s) = s
  BY <1>1
<1>2. CASE s.queue # <<>> /\ Pump(s) = Pumped(s)
  <2> DEFINE item == Head(s.queue)
             sent == OpMessage(item, s.version)
             t == Pumped(s)
  <2>1. s.queue \in Seq(Item) /\ s.toServer \in Seq(ClientMessage) /\ s.version \in Nat
    BY DEF ClientType
  <2>2. item \in Range(s.queue) /\ item \in Item
    BY <1>2, <2>1, RangeFacts
  <2>3. sent \in ClientMessage /\ sent.op = item.op
    BY <2>1, <2>2 DEF OpMessage, ClientMessage, Item
  <2>4. t.inflight = <<item>> /\ t.toServer = Append(s.toServer, sent)
    BY DEF Pumped, ClientType
  <2>5. t.inflight[1] = item /\ Len(t.inflight) = 1
    BY <2>4
  <2> HIDE DEF item, sent, t
  <2>6. item.id[1] = c /\ item.id[2] \in Nat
    BY <2>2, SessionAssumption DEF Own, Item
  <2>7. item.op \in Submission(item.id)
    BY <2>2 DEF Submitted
  <2>8. ASSUME NEW m \in Range(t.toServer) \cap OpMessages, m.id = item.id
        PROVE  m.op = item.op
    <3>1. CASE m = sent
      BY <2>3, <3>1
    <3>2. CASE m \in Range(s.toServer)
      <4>1. m.id[2] < item.id[2]
        BY <2>2, <2>8, <3>2 DEF Ordered
      <4> QED
        BY <2>6, <2>8, <4>1
    <3> QED
      BY <2>1, <2>3, <2>4, <3>1, <3>2, RangeAppend
  <2>9. ASSUME NEW v \in 1 .. n, entries[v].id = item.id
        PROVE  FALSE
    <3>1. item.id[2] \in Numbers(c, n, entries, dropped)
      BY <2>6, <2>9 DEF Numbers
    <3>2. item.id[2] < item.id[2]
      BY <2>2, <3>1 DEF Ordered
    <3> QED
      BY <2>6, <3>2
  <2>10. Unaltered(t, n, entries)
    BY <2>5, <2>7, <2>8, <2>9 DEF Unaltered
  <2> QED
    BY <1>2, <2>10 DEF t
<1> QED
  BY <1>1, <1>2, PumpFacts

\* No message changes what is in flight; it may only end it
\* (ts_client_state_handle_message).
LEMMA HandleUnaltered ==
  ASSUME NEW c, NEW s \in ClientType, NEW m \in ServerMessage, NEW n \in Nat, NEW entries, NEW dropped,
         Ordered(s, Numbers(c, n, entries, dropped)), Own(c, s), Submitted(s), Unaltered(s, n, entries)
  PROVE  Unaltered(HandleMessage(s, m), n, entries)
<1> DEFINE A == Numbers(c, n, entries, dropped)
<1>1. ASSUME NEW t \in ClientType, Places(t) = Places(s), t.inflight = <<>>
      PROVE  Unaltered(Pump(t), n, entries)
  <2>1. Ordered(t, A) /\ Submitted(t)
    BY <1>1, SamePlaces
  <2>2. Own(c, t) /\ Unaltered(t, n, entries)
    <3>1. Range(t.inflight) = {} /\ Len(t.inflight) = 0
      BY <1>1 DEF Range
    <3> QED
      BY <1>1, <3>1 DEF Own, Unaltered, Places
  <2> QED
    BY <1>1, <2>1, <2>2, PumpUnaltered
<1>2. ASSUME NEW t \in ClientType, t.inflight = s.inflight, t.toServer = s.toServer
      PROVE  Unaltered(t, n, entries) /\ Unaltered(Send(t, RequestDoc), n, entries)
  <2> DEFINE r == Send(t, RequestDoc)
  <2>1. r.inflight = s.inflight /\ r.toServer = Append(s.toServer, RequestDoc)
    BY <1>2 DEF Send, ClientType
  <2>2. RequestDoc \in ClientMessage /\ RequestDoc \notin OpMessages
    BY DEF ClientMessage, OpMessages, RequestDoc
  <2>3. Range(Append(s.toServer, RequestDoc)) = Range(s.toServer) \cup {RequestDoc}
    <3>1. s.toServer \in Seq(ClientMessage)
      BY DEF ClientType
    <3> QED
      BY <2>2, <3>1, RangeAppend
  <2>4. Range(r.toServer) \cap OpMessages = Range(s.toServer) \cap OpMessages
    BY <2>1, <2>2, <2>3
  <2> HIDE DEF r
  <2>5. Unaltered(r, n, entries)
    BY <2>1, <2>4 DEF Unaltered
  <2>6. Unaltered(t, n, entries)
    BY <1>2 DEF Unaltered
  <2> QED
    BY <2>5, <2>6 DEF r
<1>3. CASE Loaded(s, m) \in ClientType /\ HandleMessage(s, m) = Pump(Loaded(s, m))
  <2>1. Places(Loaded(s, m)) = Places(s) /\ Loaded(s, m).inflight = <<>>
    BY DEF Places, Loaded, ClientType
  <2> QED
    BY <1>1, <1>3, <2>1
<1>4. CASE Acknowledged(s, m) \in ClientType /\ HandleMessage(s, m) = Pump(Acknowledged(s, m))
  <2>1. Places(Acknowledged(s, m)) = Places(s) /\ Acknowledged(s, m).inflight = <<>>
    BY DEF Places, Acknowledged, ApplyAuthoritative, ClientType
  <2> QED
    BY <1>1, <1>4, <2>1
<1>5. CASE ApplyAuthoritative(s, m) \in ClientType /\ HandleMessage(s, m) = ApplyAuthoritative(s, m)
  <2>1. ApplyAuthoritative(s, m).inflight = s.inflight /\ ApplyAuthoritative(s, m).toServer = s.toServer
    BY DEF ApplyAuthoritative, ClientType
  <2> QED
    BY <1>2, <1>5, <2>1
<1>6. CASE HandleMessage(s, m) = Send(s, RequestDoc) \/ HandleMessage(s, m) = s
  BY <1>2, <1>6
<1>7. CASE HandleMessage(s, m) = Send(Refused(s), RequestDoc)
  <2>1. Send(Refused(s), RequestDoc).inflight = <<>>
    BY DEF Send, Refused, ClientType
  <2> QED
    BY <1>7, <2>1 DEF Unaltered
<1> QED
  BY <1>3, <1>4, <1>5, <1>6, <1>7, HandleCases

\* A step that changes one client's record and not the document.
LEMMA OneClientUnaltered ==
  ASSUME UnalteredInv, UNCHANGED document, NEW c \in Clients, Unaltered(client'[c], version, log),
         \A d \in Clients : d # c => client'[d] = client[d]
  PROVE  UnalteredInv'
<1>1. version' = version /\ log' = log
  BY DEF document, vars
<1>2. \A d \in Clients : Unaltered(client'[d], version, log)
  BY DEF UnalteredInv
<1> QED
  BY <1>1, <1>2 DEF UnalteredInv

\* An insertion that the server takes is recorded as one, whatever it is
\* transformed against; what it takes is what is in flight, as it was typed
\* (ts_document_process_operation).
LEMMA ReceiveUnaltered ==
  ASSUME SessionInv, UnalteredInv, NEW c \in Clients, Receive(c)
  PROVE  UnalteredInv'
<1> DEFINE s == client[c]
           m == Head(s.toServer)
<1>1. /\ m \in ClientMessage /\ Grows
      /\ client' = [client EXCEPT ![c].toServer = Tail(@)]
      /\ s.toServer # <<>>
      /\ \/ /\ m.type = "OP" /\ m.id \in OpIds /\ m.id[1] = c
            /\ Accept(m.id, m.base, m.op)
            /\ version' = version + 1 /\ log'[version'].id = m.id
         \/ version' = version /\ log' = log
  <2>1. UNCHANGED document => version' = version /\ log' = log
    BY DEF document, vars
  <2> QED
    BY <2>1, ReceiveCases
<1>2. /\ s \in ClientType /\ client \in [Clients -> ClientType] /\ s.toServer \in Seq(ClientMessage)
      /\ version \in Nat /\ history \in Seq(Entry) /\ log \in Seq(Entry) /\ version = Len(log)
      /\ \A d \in Clients : Own(d, client[d])
  BY DEF SessionInv, SessionTypeOK, TypeOK, ClientType, Copies, ReplayInv, WindowInv, HistoryWindow
<1>3. m \in Range(s.toServer) /\ Range(Tail(s.toServer)) \subseteq Range(s.toServer)
  BY <1>1, <1>2, RangeFacts
<1>4. ASSUME NEW d \in Clients
      PROVE  /\ client'[d].inflight = client[d].inflight
             /\ Range(client'[d].toServer) \subseteq Range(client[d].toServer)
  <2>1. CASE d = c
    BY <1>1, <1>2, <1>3, <2>1 DEF ClientType
  <2>2. CASE d # c
    BY <1>1, <1>2, <2>2
  <2> QED
    BY <2>1, <2>2
<1> HIDE DEF m, s
<1>5. ASSUME NEW d \in Clients, NEW x, x = client[d].inflight[1], client[d].inflight # <<>>,
             x.op.kind = "insert", NEW v \in 1 .. version', log'[v].id = x.id
      PROVE  log'[v].op.kind = "insert"
  <2>1. CASE v \in 1 .. version
    <3>1. log'[v] = log[v]
      BY <1>1, <2>1 DEF Grows
    <3> QED
      BY <1>5, <2>1, <3>1 DEF UnalteredInv, Unaltered
  <2>2. CASE v \notin 1 .. version
    <3>1. v = version' /\ version' = version + 1
      BY <1>1, <1>2, <2>2
    <3>2. /\ m.type = "OP" /\ m.id[1] = c /\ Accept(m.id, m.base, m.op) /\ x.id = m.id
      BY <1>1, <1>2, <1>5, <3>1
    <3>3. d = c
      <4>1. client[d].inflight \in Seq(Item)
        BY <1>2 DEF ClientType
      <4>2. x \in Range(client[d].inflight)
        BY <1>5, <4>1, RangeFacts
      <4>3. x.id[1] = d
        BY <1>2, <4>2 DEF Own
      <4> QED
        BY <3>2, <4>3
    <3>4. m \in OpMessages /\ m.base \in Int /\ m.op \in Operation(Char)
      BY <1>1, <3>2 DEF ClientMessage, OpMessages, RequestDoc
    <3>5. m.op = x.op
      BY <1>3, <1>5, <3>2, <3>3, <3>4 DEF UnalteredInv, Unaltered, s
    <3>6. NormalizeForApply(text, Transformed(m.op, m.base)).kind = "insert"
      BY <1>2, <1>5, <3>4, <3>5, InsertionStays
    <3>7. log'[Len(log) + 1].op = NormalizeForApply(text, Transformed(m.op, m.base))
      <4> DEFINE done == NormalizeForApply(text, Transformed(m.op, m.base))
                 entry == [version |-> version + 1, id |-> m.id, base |-> m.base, original |-> m.op, op |-> done]
      <4>1. log' = Append(log, entry)
        BY <3>2 DEF Accept
      <4> HIDE DEF done
      <4>2. entry.op = done
        OBVIOUS
      <4> HIDE DEF entry
      <4>3. log'[Len(log) + 1] = entry
        BY <1>2, <4>1
      <4> QED
        BY <4>2, <4>3 DEF done
    <3> QED
      BY <1>2, <3>1, <3>6, <3>7
  <2> QED
    BY <2>1, <2>2
<1>6. ASSUME NEW d \in Clients
      PROVE  Unaltered(client'[d], version', log')
  <2>1. Unaltered(client[d], version, log)
    BY DEF UnalteredInv
  <2> QED
    BY <1>4, <1>5, <2>1 DEF Unaltered
<1> QED
  BY <1>6 DEF UnalteredInv

\* Every step leaves what is in flight as it was typed.
LEMMA UnalteredStep ==
  ASSUME SessionInv, OrderInv, UnalteredInv, [SessionNext]_sessionVars
  PROVE  UnalteredInv'
<1>1. client \in [Clients -> ClientType] /\ running \subseteq Clients /\ version \in Nat
      /\ \A c \in Clients : Own(c, client[c])
  BY DEF SessionInv, SessionTypeOK, TypeOK, Copies
<1>2. ASSUME UNCHANGED <<document, client>>
      PROVE  UnalteredInv'
  BY <1>2 DEF UnalteredInv, document, vars
<1>3. CASE UNCHANGED sessionVars
  BY <1>2, <1>3 DEF sessionVars
<1>4. CASE SessionNext
  <2>1. PICK c \in Clients : Type(c) \/ Handle(c) \/ Quit(c) \/ ServerStep(c)
    BY <1>4 DEF SessionNext
  <2> DEFINE s == client[c]
  <2>2. /\ s \in ClientType /\ Own(c, s) /\ Unaltered(s, version, log)
        /\ Ordered(s, Answers(c)) /\ Submitted(s)
    BY <1>1 DEF UnalteredInv, OrderInv
  <2>3. CASE Type(c)
    <3>1. PICK q \in ClientType :
            /\ client' = [client EXCEPT ![c] = Pump(q)]
            /\ Ordered(q, Answers(c)) /\ Submitted(q) /\ Own(c, q)
            /\ q.inflight = client[c].inflight /\ q.toServer = client[c].toServer
      BY <2>3, TypedInQueue
    <3>2. Unaltered(q, version, log)
      BY <2>2, <3>1 DEF Unaltered
    <3>3. Unaltered(Pump(q), version, log)
      BY <1>1, <3>1, <3>2, PumpUnaltered DEF Answers
    <3>4. client'[c] = Pump(q) /\ \A d \in Clients : d # c => client'[d] = client[d]
      BY <1>1, <3>1
    <3>5. UNCHANGED document
      BY <2>3 DEF Type
    <3> QED
      BY <3>3, <3>4, <3>5, OneClientUnaltered
  <2>4. CASE Handle(c)
    <3> DEFINE m == Head(toClient[c])
               t == HandleMessage(s, m)
    <3>1. toClient[c] # <<>> /\ client' = [client EXCEPT ![c] = t] /\ UNCHANGED document
      BY <2>4 DEF Handle
    <3>2. m \in ServerMessage
      <4>1. toClient[c] \in Seq(ServerMessage)
        BY DEF SessionInv, SessionTypeOK
      <4> QED
        BY <3>1, <4>1, HeadTailProperties
    <3>3. client'[c] = t /\ \A d \in Clients : d # c => client'[d] = client[d]
      BY <1>1, <3>1
    <3> HIDE DEF m
    <3>4. Unaltered(t, version, log)
      BY <1>1, <2>2, <3>2, HandleUnaltered DEF Answers
    <3> QED
      BY <3>1, <3>3, <3>4, OneClientUnaltered
  <2>5. CASE Quit(c)
    <3>1. PICK n \in 0 .. Len(s.toServer) : client' = [client EXCEPT ![c].toServer = SubSeq(@, 1, n)]
      BY <2>5 DEF Quit
    <3>2. UNCHANGED document
      BY <2>5 DEF Quit
    <3> DEFINE t == [s EXCEPT !.toServer = SubSeq(s.toServer, 1, n)]
    <3>3. client'[c] = t /\ \A d \in Clients : d # c => client'[d] = client[d]
      BY <1>1, <3>1
    <3>4. t.inflight = s.inflight /\ t.toServer = SubSeq(s.toServer, 1, n)
      BY <2>2 DEF ClientType
    <3>5. Range(SubSeq(s.toServer, 1, n)) \subseteq Range(s.toServer)
      <4>1. s.toServer \in Seq(ClientMessage)
        BY <2>2 DEF ClientType
      <4> QED
        BY <4>1, RangeFacts
    <3> HIDE DEF t
    <3>6. Unaltered(t, version, log)
      BY <2>2, <3>4, <3>5 DEF Unaltered
    <3> QED
      BY <3>2, <3>3, <3>6, OneClientUnaltered
  <2>6. CASE Receive(c)
    BY <2>6, ReceiveUnaltered
  <2>7. CASE Register(c) \/ TakeSnapshot(c) \/ Answer(c) \/ StartBroadcast(c) \/ BroadcastNext(c)
             \/ EndBroadcast(c) \/ Leave(c)
    <3>1. UNCHANGED <<document, client>>
      BY <2>7 DEF Register, TakeSnapshot, Answer, StartBroadcast, BroadcastNext, EndBroadcast, Leave
    <3> QED
      BY <1>2, <3>1
  <2> QED
    BY <2>1, <2>3, <2>4, <2>5, <2>6, <2>7 DEF ServerStep
<1> QED
  BY <1>3, <1>4

\* At the start nothing is in flight.
LEMMA InitUnaltered ==
  ASSUME SessionInit
  PROVE  UnalteredInv
<1>1. \A c \in Clients : \/ client[c] = NewClient
                         \/ client[c] = [NewClient EXCEPT !.content = InitialText, !.copy = "loaded"]
  BY DEF SessionInit
<1>2. ASSUME NEW c \in Clients
      PROVE  client[c].inflight = <<>>
  <2>1. CASE client[c] = NewClient
    BY <2>1 DEF NewClient
  <2>2. CASE client[c] = [NewClient EXCEPT !.content = InitialText, !.copy = "loaded"]
    BY <2>2 DEF NewClient
  <2> QED
    BY <1>1, <2>1, <2>2
<1> QED
  BY <1>2 DEF UnalteredInv, Unaltered

\* For any number of clients: there is at most one operation in flight, the
\* server gets it as it was typed, and takes an insertion as an insertion
\* (state_pump, ts_document_process_operation).
THEOREM UnalteredInvariant == SessionSpec => []UnalteredInv
<1>1. SessionInit => UnalteredInv
  BY InitUnaltered
<1>2. SessionInv /\ OrderInv /\ UnalteredInv /\ [SessionNext]_sessionVars => UnalteredInv'
  BY UnalteredStep
<1> QED
  BY <1>1, <1>2, SessionInvariant, OrderInvariant, PTL DEF SessionSpec

===============================================================================
