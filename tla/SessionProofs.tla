----------------------------- MODULE SessionProofs -----------------------------
(* A session's types, and how far a client's copy can be trusted, for any      *)
(* number of clients and whatever they type.                                   *)
EXTENDS Session, DocumentProofs, FiniteSetTheorems

-----------------------------------------------------------------------------
(* The document *)

\* What the document has done stays, and goes on.
Grows ==
  /\ version <= version'
  /\ \A v \in 1 .. version : log'[v] = log[v]
  /\ \A v \in 1 .. version + 1 : past'[v] = past[v]

\* What an accepted operation does to the document: one more version, under the
\* client's identifier (ts_document_process_operation).
LEMMA AcceptEffect ==
  ASSUME ReplayInv, NEW id \in OpIds, NEW base \in Int, NEW op \in Operation(Char), Accept(id, base, op)
  PROVE  /\ ReplayInv'
         /\ Grows
         /\ version' = version + 1
         /\ log'[version'].id = id
         /\ log'[version'].op \in Operation(Char)
         /\ refused' = refused
<1>1. /\ ReplayInv'
      /\ version' = version + 1
      /\ \A v \in 1 .. version : log'[v] = log[v]
      /\ \A v \in 1 .. version + 1 : past'[v] = past[v]
      /\ log'[version + 1] \in Entry /\ log'[version + 1].id = id
      /\ refused' = refused
  BY AcceptKeeps
<1>2. version \in Nat
  BY DEF ReplayInv, WindowInv, TypeOK
<1> QED
  BY <1>1, <1>2 DEF Grows, Entry

\* A refused operation is answered with RESYNC_REQUIRED and changes nothing else
\* (ts_document_process_operation).
LEMMA RefuseEffect ==
  ASSUME ReplayInv, NEW id \in OpIds, NEW base \in Int, Refuse(id, base)
  PROVE  /\ ReplayInv'
         /\ Grows
         /\ refused' = refused \cup {id}
         /\ UNCHANGED <<version, text, log, past>>
<1>1. refused' = refused \cup {id} /\ UNCHANGED <<version, text, log, past>>
  BY DEF Refuse
<1>2. version \in Nat
  BY DEF ReplayInv, WindowInv, TypeOK
<1> QED
  BY <1>1, <1>2, RefuseKeeps DEF Grows

\* A step that does not take the document's lock leaves it as it is.
LEMMA DocumentStays ==
  ASSUME ReplayInv, UNCHANGED document
  PROVE  ReplayInv' /\ Grows
<1>1. UNCHANGED <<text, version, historyStart, history, log, past, refused>>
  BY DEF document, vars
<1>2. version \in Nat
  BY DEF ReplayInv, WindowInv, TypeOK
<1>3. Grows
  BY <1>1, <1>2 DEF Grows
<1>4. TypeOK' = TypeOK
  BY ONLY <1>1 DEF TypeOK
<1>5. HistoryWindow' = HistoryWindow
  BY ONLY <1>1 DEF HistoryWindow
<1>6. ReplayableHistory' = ReplayableHistory
  BY ONLY <1>1 DEF ReplayableHistory
<1> QED
  BY <1>3, <1>4, <1>5, <1>6, Zenon DEF ReplayInv, WindowInv

-----------------------------------------------------------------------------
(* The inductive invariant *)

\* A message carries what the document did: an operation, the entry of its
\* version; a document, the text of its version.  Nobody is sent its own
\* operations but in an ACK.
Done(m, n, entries) == m.version \in 1 .. n /\ m.op = entries[m.version].op

Right(c, m, n, entries, texts) ==
  /\ m.type = "DOC_STATE" => m.version <= n /\ m.text = texts[m.version + 1]
  /\ m.type = "ACK" => Done(m, n, entries) /\ entries[m.version].id = m.id
  /\ m.type = "REMOTE_OP" => Done(m, n, entries) /\ entries[m.version].id[1] # c

Remote(c, m, n, entries) ==
  m.type = "REMOTE_OP" /\ Done(m, n, entries) /\ entries[m.version].id[1] = c

Carried ==
  \A c \in Clients :
    /\ \A m \in Range(toClient[c]) : Right(c, m, version, log, past)
    /\ \A m \in Range(thread[c].out) : Right(c, m, version, log, past)
    /\ \A m \in Range(thread[c].remote) : Remote(c, m, version, log)

\* Nobody is ahead of the server, and whoever skipped no version since its
\* document shows its text.
Faithful(s, n, texts) ==
  /\ s.version <= n
  /\ s.copy = "loaded" => s.content = texts[s.version + 1]
  /\ \A m \in Range(s.toServer) : m.type = "OP" => m.base <= n

\* A client names its operations after itself.
Own(c, s) ==
  /\ \A item \in Range(s.queue) \cup Range(s.inflight) : item.id[1] = c
  /\ \A m \in Range(s.toServer) : m.type = "OP" => m.id[1] = c

Copies == \A c \in Clients : Faithful(client[c], version, past) /\ Own(c, client[c])

\* The list has each connection that is served once, and a broadcast leaves out
\* its author, whose operation it has at hand.
Listed ==
  /\ \A i, j \in DOMAIN members : members[i] = members[j] => i = j
  /\ \A c \in Clients : thread[c].stage \in {"registered", "serving"} <=> c \in Range(members)
  /\ broadcast.by \notin Range(broadcast.to)
  /\ broadcast.by \in Clients => thread[broadcast.by].remote # <<>>

SessionInv ==
  /\ SessionTypeOK
  /\ ReplayInv
  /\ Carried /\ Copies /\ Listed

-----------------------------------------------------------------------------
(* The client's functions *)

\* A message goes behind the others on the wire (ts_transport_send).
LEMMA SendType ==
  ASSUME NEW s \in ClientType, NEW m \in ClientMessage
  PROVE  Send(s, m) \in ClientType
<1>1. Append(s.toServer, m) \in Seq(ClientMessage)
  BY AppendProperties DEF ClientType
<1> QED
  BY <1>1 DEF Send, ClientType

\* Sending the head of the queue, when nothing is in flight.
Pumped(s) ==
  [s EXCEPT !.inflight = <<Head(s.queue)>>, !.queue = Tail(s.queue),
            !.toServer = Append(s.toServer, OpMessage(Head(s.queue), s.version))]

\* state_pump sends the first of the queue, or nothing.
LEMMA PumpFacts ==
  ASSUME NEW s \in ClientType
  PROVE  /\ Pump(s) \in ClientType
         /\ \/ (s.inflight # <<>> \/ s.queue = <<>>) /\ Pump(s) = s
            \/ s.inflight = <<>> /\ s.queue # <<>> /\ Pump(s) = Pumped(s)
<1>1. CASE s.inflight # <<>> \/ s.queue = <<>>
  BY <1>1 DEF Pump
<1>2. CASE s.inflight = <<>> /\ s.queue # <<>>
  <2> DEFINE t == [s EXCEPT !.inflight = <<Head(s.queue)>>, !.queue = Tail(s.queue)]
             m == OpMessage(Head(s.queue), s.version)
  <2>1. s.queue \in Seq(Item) /\ s.queue # <<>> /\ s.version \in Nat
    BY <1>2 DEF ClientType
  <2>2. Head(s.queue) \in Item /\ Tail(s.queue) \in Seq(Item)
    BY <2>1, HeadTailProperties
  <2>3. <<Head(s.queue)>> \in Seq(Item)
    BY <2>2
  <2>4. t \in ClientType
    BY <2>2, <2>3 DEF ClientType
  <2>5. m \in ClientMessage
    BY <2>1, <2>2 DEF OpMessage, ClientMessage, Item
  <2>6. Pump(s) = Send(t, m)
    BY <1>2 DEF Pump
  <2>7. Send(t, m) = Pumped(s)
    <3>1. t.toServer = s.toServer
      BY DEF ClientType
    <3> QED
      BY <3>1 DEF Send, Pumped, ClientType
  <2> HIDE DEF t, m
  <2> QED
    BY <1>2, <2>4, <2>5, <2>6, <2>7, SendType
<1> QED
  BY <1>1, <1>2

\* A keystroke joins the queue (ts_client_state_queue_operation).
LEMMA QueueType ==
  ASSUME NEW s \in ClientType, NEW id \in OpIds, NEW op \in Operation(Char)
  PROVE  QueueOperation(s, id, op) \in ClientType
<1> DEFINE item == [id |-> id, op |-> op]
           t == [s EXCEPT !.queue = Append(@, item), !.nextOp = @ + 1]
<1>1. item \in Item
  BY DEF Item
<1> HIDE DEF item
<1>2. Append(s.queue, item) \in Seq(Item) /\ s.nextOp + 1 \in Nat \ {0}
  BY <1>1, AppendProperties DEF ClientType
<1>3. t \in ClientType
  BY <1>2 DEF ClientType
<1> HIDE DEF t
<1>4. QueueOperation(s, id, op) = Pump(t)
  BY DEF QueueOperation, t, item
<1> QED
  BY <1>3, <1>4, PumpFacts

\* An ACK or a remote operation moves the client's copy
\* (apply_authoritative_op).
LEMMA ApplyType ==
  ASSUME NEW s \in ClientType, NEW m, m.op \in Operation(Char), m.version \in Nat
  PROVE  ApplyAuthoritative(s, m) \in ClientType
<1>1. ApplyOperation(s.content, m.op) \in Seq(Char)
  BY ApplyOperationType DEF ClientType
<1> QED
  BY <1>1 DEF ApplyAuthoritative, ClientType

\* What the handlers make of a client before they send: the four messages.
Loaded(s, m) == [s EXCEPT !.content = m.text, !.version = m.version, !.inflight = <<>>, !.copy = "loaded"]
Acknowledged(s, m) == [ApplyAuthoritative(s, m) EXCEPT !.inflight = <<>>, !.copy = CopyAfterAck(s, m.version)]
Refused(s) == [s EXCEPT !.inflight = <<>>]

\* A message a client applies has the types that Right gives it.
LEMMA HandleCases ==
  ASSUME NEW s \in ClientType, NEW m \in ServerMessage
  PROVE  \/ m.type = "DOC_STATE" /\ Loaded(s, m) \in ClientType /\ HandleMessage(s, m) = Pump(Loaded(s, m))
         \/ /\ m.type = "ACK" /\ s.inflight # <<>> /\ s.inflight[1].id = m.id
            /\ Acknowledged(s, m) \in ClientType /\ HandleMessage(s, m) = Pump(Acknowledged(s, m))
         \/ /\ m.type = "ACK" /\ ~ (s.inflight # <<>> /\ s.inflight[1].id = m.id)
            /\ HandleMessage(s, m) = s
         \/ m.type = "REMOTE_OP" /\ m.version <= s.version /\ HandleMessage(s, m) = s
         \/ /\ m.type = "REMOTE_OP" /\ m.version = s.version + 1
            /\ ApplyAuthoritative(s, m) \in ClientType /\ HandleMessage(s, m) = ApplyAuthoritative(s, m)
         \/ /\ m.type = "REMOTE_OP" /\ m.version > s.version + 1
            /\ HandleMessage(s, m) = Send(s, RequestDoc)
         \/ /\ m.type = "RESYNC_REQUIRED"
            /\ Refused(s) \in ClientType /\ HandleMessage(s, m) = Send(Refused(s), RequestDoc)
<1>0. <<>> \in Seq(Item)
  BY EmptySeq
<1>1. CASE m.type = "DOC_STATE"
  <2>1. m.text \in Seq(Char) /\ m.version \in Nat
    BY <1>1 DEF ServerMessage
  <2>2. Loaded(s, m) \in ClientType
    BY <1>0, <2>1 DEF Loaded, ClientType
  <2>3. HandleMessage(s, m) = Pump(Loaded(s, m))
    BY <1>1 DEF HandleMessage, SetDocument, Loaded
  <2> QED
    BY <1>1, <2>2, <2>3
<1>2. CASE m.type = "ACK"
  <2>1. m.op \in Operation(Char) /\ m.version \in Nat
    BY <1>2 DEF ServerMessage
  <2>2. ApplyAuthoritative(s, m) \in ClientType
    BY <2>1, ApplyType
  <2>5. CopyAfterAck(s, m.version) \in {"none", "loaded", "skipped"}
    BY DEF CopyAfterAck, ClientType
  <2>3. Acknowledged(s, m) \in ClientType
    BY <1>0, <2>2, <2>5 DEF Acknowledged, ClientType
  <2>4. HandleMessage(s, m) = HandleAck(s, m)
    BY <1>2 DEF HandleMessage
  <2> QED
    BY <1>2, <2>3, <2>4 DEF HandleAck, Acknowledged
<1>3. CASE m.type = "REMOTE_OP"
  <2>1. m.op \in Operation(Char) /\ m.version \in Nat /\ s.version \in Nat
    BY <1>3 DEF ServerMessage, ClientType
  <2>2. ApplyAuthoritative(s, m) \in ClientType
    BY <2>1, ApplyType
  <2>3. HandleMessage(s, m) = HandleRemote(s, m)
    BY <1>3 DEF HandleMessage
  <2> QED
    BY <1>3, <2>1, <2>2, <2>3 DEF HandleRemote
<1>4. CASE m.type = "RESYNC_REQUIRED"
  <2>1. Refused(s) \in ClientType
    BY <1>0 DEF Refused, ClientType
  <2>2. HandleMessage(s, m) = Send(Refused(s), RequestDoc)
    BY <1>4 DEF HandleMessage, HandleResyncRequired, Refused
  <2> QED
    BY <1>4, <2>1, <2>2
<1> QED
  BY <1>1, <1>2, <1>3, <1>4 DEF ServerMessage

\* Whatever the server sends, the client's state keeps its shape
\* (ts_client_state_handle_message).
LEMMA HandleType ==
  ASSUME NEW s \in ClientType, NEW m \in ServerMessage
  PROVE  HandleMessage(s, m) \in ClientType
<1>1. RequestDoc \in ClientMessage
  BY DEF ClientMessage
<1> QED
  BY <1>1, HandleCases, PumpFacts, SendType

-----------------------------------------------------------------------------
(* Sequences, by the elements they have *)

\* What is in a sequence, in its first element, its rest and its beginnings.
LEMMA RangeFacts ==
  ASSUME NEW S, NEW s \in Seq(S)
  PROVE  /\ Range(s) = {s[i] : i \in 1 .. Len(s)}
         /\ Range(s) \subseteq S
         /\ Range(<<>>) = {}
         /\ s # <<>> => Head(s) \in Range(s) /\ s[1] \in Range(s) /\ Range(Tail(s)) \subseteq Range(s)
         /\ \A n \in 0 .. Len(s) : SubSeq(s, 1, n) \in Seq(S) /\ Range(SubSeq(s, 1, n)) \subseteq Range(s)
<1>1. Range(s) = {s[i] : i \in 1 .. Len(s)} /\ Range(s) \subseteq S
  BY RangeEquality, RangeOfSeq
<1>2. Range(<<>>) = {}
  BY DEF Range
<1>3. ASSUME s # <<>>
      PROVE  Head(s) \in Range(s) /\ s[1] \in Range(s) /\ Range(Tail(s)) \subseteq Range(s)
  <2>1. 1 \in 1 .. Len(s) /\ Head(s) = s[1]
    BY <1>3
  <2>2. /\ Tail(s) \in Seq(S)
        /\ Len(Tail(s)) = Len(s) - 1
        /\ \A i \in 1 .. Len(Tail(s)) : Tail(s)[i] = s[i + 1]
    BY <1>3, HeadTailProperties
  <2>3. Range(Tail(s)) = {Tail(s)[i] : i \in 1 .. Len(Tail(s))}
    BY <2>2, RangeEquality
  <2>4. \A i \in 1 .. Len(Tail(s)) : i + 1 \in 1 .. Len(s)
    BY <2>2
  <2> QED
    BY <1>1, <2>1, <2>2, <2>3, <2>4
<1>4. ASSUME NEW n \in 0 .. Len(s)
      PROVE  SubSeq(s, 1, n) \in Seq(S) /\ Range(SubSeq(s, 1, n)) \subseteq Range(s)
  <2> DEFINE t == SubSeq(s, 1, n)
  <2>1. n \in Int /\ 1 .. n \subseteq 1 .. Len(s)
    OBVIOUS
  <2>2. \A i \in 1 .. n : s[i] \in S
    BY <2>1, ElementOfSeq
  <2>3. /\ t \in Seq(S)
        /\ Len(t) = IF 1 <= n THEN n - 1 + 1 ELSE 0
        /\ \A i \in 1 .. n - 1 + 1 : t[i] = s[1 + i - 1]
    BY <2>1, <2>2, SubSeqProperties
  <2> HIDE DEF t
  <2>4. Len(t) = n /\ \A i \in 1 .. n : t[i] = s[i]
    BY <2>1, <2>3
  <2>5. Range(t) = {t[i] : i \in 1 .. Len(t)}
    BY <2>3, RangeEquality
  <2>6. t \in Seq(S) /\ Range(t) \subseteq Range(s)
    BY <1>1, <2>1, <2>3, <2>4, <2>5
  <2> QED
    BY <2>6 DEF t
<1> QED
  BY <1>1, <1>2, <1>3, <1>4

\* What is sent last joins what was sent before.
LEMMA RangeAppend ==
  ASSUME NEW S, NEW s \in Seq(S), NEW x \in S
  PROVE  Range(Append(s, x)) = Range(s) \cup {x}
<1>1. /\ Append(s, x) \in Seq(S)
      /\ Len(Append(s, x)) = Len(s) + 1
      /\ \A i \in 1 .. Len(s) : Append(s, x)[i] = s[i]
      /\ Append(s, x)[Len(s) + 1] = x
  BY AppendProperties
<1>2. /\ Range(Append(s, x)) = {Append(s, x)[i] : i \in 1 .. Len(s) + 1}
      /\ Range(s) = {s[i] : i \in 1 .. Len(s)}
  BY <1>1, RangeEquality
<1>3. Len(s) \in Nat
  OBVIOUS
<1> QED
  BY <1>1, <1>2, <1>3

\* A sequence of one thing.
LEMMA RangeOfOne ==
  ASSUME NEW x
  PROVE  Range(<<x>>) = {x}
BY DEF Range

\* Taking a connection off the list takes off that one only.
LEMMA RemoveAtRange ==
  ASSUME NEW S, NEW s \in Seq(S), NEW k \in DOMAIN s,
         \A i, j \in DOMAIN s : s[i] = s[j] => i = j
  PROVE  LET rest == RemoveAt(s, k)
         IN  /\ rest \in Seq(S)
             /\ Range(rest) = Range(s) \ {s[k]}
             /\ \A i, j \in DOMAIN rest : rest[i] = rest[j] => i = j
<1> DEFINE rest == RemoveAt(s, k)
<1>0. k \in 1 .. Len(s) /\ Len(s) \in Nat /\ DOMAIN s = 1 .. Len(s) /\ s \in Seq(S)
  OBVIOUS
<1>1. /\ rest \in Seq(S)
      /\ Len(rest) = Len(s) - 1
      /\ \A j \in 1 .. k - 1 : rest[j] = s[j]
      /\ \A j \in k .. Len(s) - 1 : rest[j] = s[j + 1]
  <2>1. /\ rest \in Seq(S)
        /\ Len(rest) = Len(s) - 1
        /\ \A j \in 1 .. k - 1 : rest[j] = s[j]
        /\ \A j \in k + 1 .. Len(s) : rest[j - 1] = s[j]
    BY ONLY <1>0, RemoveAtProperties
  <2> HIDE DEF rest
  <2>2. ASSUME NEW j \in k .. Len(s) - 1
        PROVE  rest[j] = s[j + 1]
    <3>1. j + 1 \in k + 1 .. Len(s) /\ j + 1 - 1 = j
      BY <1>0
    <3> QED
      BY <2>1, <3>1
  <2> QED
    BY <2>1, <2>2
<1> HIDE DEF rest
<1>2. DOMAIN rest = 1 .. Len(s) - 1
  BY <1>0, <1>1
<1>3. \A j \in 1 .. Len(s) - 1 : rest[j] = s[IF j < k THEN j ELSE j + 1]
  BY <1>0, <1>1
<1>4. \A i, j \in DOMAIN rest : rest[i] = rest[j] => i = j
  <2> TAKE i, j \in DOMAIN rest
  <2> HAVE rest[i] = rest[j]
  <2> DEFINE from(m) == IF m < k THEN m ELSE m + 1
  <2>1. i \in Nat /\ j \in Nat /\ k \in Nat /\ from(i) \in DOMAIN s /\ from(j) \in DOMAIN s
    BY <1>0, <1>2
  <2>2. s[from(i)] = s[from(j)]
    BY <1>2, <1>3
  <2>3. from(i) = from(j)
    <3> HIDE DEF from
    <3> QED
      BY <2>1, <2>2
  <2> QED
    BY <2>1, <2>3
<1>5. Range(rest) = Range(s) \ {s[k]}
  <2>1. Range(rest) = {rest[j] : j \in 1 .. Len(s) - 1} /\ Range(s) = {s[j] : j \in 1 .. Len(s)}
    BY <1>0, <1>1, <1>2 DEF Range
  <2>2. ASSUME NEW x \in Range(rest) PROVE x \in Range(s) \ {s[k]}
    <3>1. PICK j \in 1 .. Len(s) - 1 : x = rest[j]
      BY <2>1
    <3> DEFINE i == IF j < k THEN j ELSE j + 1
    <3>2. i \in 1 .. Len(s) /\ i # k /\ x = s[i]
      BY <1>0, <1>3, <3>1
    <3> QED
      BY <1>0, <2>1, <3>2
  <2>3. ASSUME NEW x \in Range(s) \ {s[k]} PROVE x \in Range(rest)
    <3>1. PICK i \in 1 .. Len(s) : x = s[i]
      BY <2>1
    <3> DEFINE j == IF i < k THEN i ELSE i - 1
    <3>2. i # k /\ j \in 1 .. Len(s) - 1
      BY <1>0, <3>1
    <3>3. rest[j] = s[i]
      BY <1>0, <1>3, <3>2
    <3> QED
      BY <2>1, <3>1, <3>2, <3>3
  <2> QED
    BY <2>2, <2>3
<1> QED
  BY <1>1, <1>4, <1>5 DEF rest

-----------------------------------------------------------------------------
(* What was right stays right as the document goes on. *)

\* A message that was right when it was sent stays right.
LEMMA StaysRight ==
  ASSUME version \in Nat, version' \in Nat, Grows, NEW c, NEW m \in ServerMessage
  PROVE  /\ Right(c, m, version, log, past) => Right(c, m, version', log', past')
         /\ Remote(c, m, version, log) => Remote(c, m, version', log')
<1>1. \A v \in 1 .. version : v \in 1 .. version' /\ log'[v] = log[v]
  BY DEF Grows
<1>2. Done(m, version, log) => Done(m, version', log') /\ log'[m.version] = log[m.version]
  BY <1>1 DEF Done
<1>3. ASSUME m.type = "DOC_STATE", m.version <= version
      PROVE  m.version <= version' /\ past'[m.version + 1] = past[m.version + 1]
  <2>1. m.version \in Nat
    BY <1>3 DEF ServerMessage
  <2> QED
    BY <1>3, <2>1 DEF Grows
<1> QED
  BY <1>2, <1>3 DEF Right, Remote

\* A copy that was that of its version is still.
LEMMA StaysFaithful ==
  ASSUME version \in Nat, version' \in Nat, Grows, NEW s \in ClientType, Faithful(s, version, past)
  PROVE  Faithful(s, version', past')
<1>1. /\ s.version \in Nat /\ s.version <= version
      /\ s.copy = "loaded" => s.content = past[s.version + 1]
      /\ \A m \in Range(s.toServer) : m.type = "OP" => m.base <= version
  BY DEF Faithful, ClientType
<1>2. s.version <= version' /\ past'[s.version + 1] = past[s.version + 1]
  BY <1>1 DEF Grows
<1>3. ASSUME NEW m \in Range(s.toServer), m.type = "OP"
      PROVE  m.base <= version'
  <2>1. s.toServer \in Seq(ClientMessage)
    BY DEF ClientType
  <2>2. m \in ClientMessage
    BY <2>1, RangeFacts
  <2>3. m.base \in Nat
    BY <1>3, <2>2 DEF ClientMessage, RequestDoc
  <2> QED
    BY <1>1, <1>3, <2>3 DEF Grows
<1> QED
  BY <1>1, <1>2, <1>3 DEF Faithful

-----------------------------------------------------------------------------
(* What a client's functions keep *)

\* Asking for the document says nothing of a version (HandleResyncRequired).
LEMMA RequestKeeps ==
  ASSUME NEW c, NEW s \in ClientType, NEW n, NEW texts, Faithful(s, n, texts), Own(c, s)
  PROVE  Faithful(Send(s, RequestDoc), n, texts) /\ Own(c, Send(s, RequestDoc))
<1> DEFINE t == Send(s, RequestDoc)
<1>1. RequestDoc \in ClientMessage /\ RequestDoc.type = "REQUEST_DOC"
  BY DEF ClientMessage, RequestDoc
<1>2. s.toServer \in Seq(ClientMessage)
  BY DEF ClientType
<1>3. Range(Append(s.toServer, RequestDoc)) = Range(s.toServer) \cup {RequestDoc}
  BY <1>1, <1>2, RangeAppend
<1>4. /\ t.toServer = Append(s.toServer, RequestDoc)
      /\ t.content = s.content /\ t.version = s.version /\ t.copy = s.copy
      /\ t.queue = s.queue /\ t.inflight = s.inflight
  BY DEF Send, ClientType
<1> HIDE DEF t
<1>5. \A m \in Range(t.toServer) : m \in Range(s.toServer) \/ m.type = "REQUEST_DOC"
  BY <1>1, <1>3, <1>4
<1>6. Faithful(t, n, texts) /\ Own(c, t)
  BY <1>4, <1>5 DEF Faithful, Own
<1> QED
  BY <1>6 DEF t

\* An operation is sent on the version the client is at, under its own name
\* (state_pump).
LEMMA PumpKeeps ==
  ASSUME NEW c, NEW s \in ClientType, NEW n, NEW texts, Faithful(s, n, texts), Own(c, s)
  PROVE  Faithful(Pump(s), n, texts) /\ Own(c, Pump(s))
<1>1. CASE Pump(s) = s
  BY <1>1
<1>2. CASE s.queue # <<>> /\ Pump(s) = Pumped(s)
  <2> DEFINE item == Head(s.queue)
             t == Pumped(s)
             m == OpMessage(item, s.version)
  <2>1. s.queue \in Seq(Item) /\ s.toServer \in Seq(ClientMessage) /\ s.version \in Nat
    BY DEF ClientType
  <2>2. item \in Item /\ item \in Range(s.queue) /\ Range(Tail(s.queue)) \subseteq Range(s.queue)
    BY <1>2, <2>1, RangeFacts
  <2>3. m \in ClientMessage /\ m.type = "OP" /\ m.id = item.id /\ m.base = s.version
    BY <2>1, <2>2 DEF OpMessage, ClientMessage, Item
  <2>4. /\ t.toServer = Append(s.toServer, m)
        /\ t.content = s.content /\ t.version = s.version /\ t.copy = s.copy
        /\ t.queue = Tail(s.queue) /\ t.inflight = <<item>>
    BY DEF Pumped, ClientType
  <2>5. item.id[1] = c
    BY <2>2 DEF Own
  <2> HIDE DEF m, t, item
  <2>6. Range(Append(s.toServer, m)) = Range(s.toServer) \cup {m}
    BY <2>1, <2>3, RangeAppend
  <2>9. Range(<<item>>) = {item}
    BY RangeOfOne
  <2>7. Faithful(t, n, texts)
    BY <2>3, <2>4, <2>6 DEF Faithful
  <2>8. Own(c, t)
    BY <2>2, <2>3, <2>4, <2>5, <2>6, <2>9 DEF Own
  <2> QED
    BY <1>2, <2>7, <2>8 DEF t
<1> QED
  BY <1>1, <1>2, PumpFacts

\* A client that applies the operation that made the next version from the
\* text of its own has that version's text (apply_authoritative_op).
LEMMA ApplyKeeps ==
  ASSUME ReplayInv, NEW c, NEW s \in ClientType, NEW m \in ServerMessage, Done(m, version, log),
         m.version = s.version + 1, Faithful(s, version, past), Own(c, s)
  PROVE  LET t == ApplyAuthoritative(s, m)
         IN  Faithful(t, version, past) /\ Own(c, t)
<1> DEFINE t == ApplyAuthoritative(s, m)
<1>1. /\ version \in Nat
      /\ \A v \in 1 .. version : past[v + 1] = ApplyOperation(past[v], log[v].op)
  BY DEF ReplayInv, WindowInv, TypeOK, ReplayableHistory
<1>2. m.version \in 1 .. version /\ m.op = log[m.version].op
  BY DEF Done
<1>3. s.version \in Nat
  BY DEF ClientType
<1>4. /\ t.content = ApplyOperation(s.content, m.op) /\ t.version = m.version /\ t.copy = s.copy
      /\ t.queue = s.queue /\ t.inflight = s.inflight /\ t.toServer = s.toServer
  BY DEF ApplyAuthoritative, ClientType
<1> HIDE DEF t
<1>5. t.copy = "loaded" => t.content = past[t.version + 1]
  BY <1>1, <1>2, <1>3, <1>4 DEF Faithful
<1>6. Faithful(t, version, past)
  BY <1>1, <1>2, <1>4, <1>5 DEF Faithful
<1>7. Own(c, t)
  BY <1>4 DEF Own
<1> QED
  BY <1>6, <1>7 DEF t

\* So does one that applies its ACK, unless the ACK skipped a version: then it
\* has skipped one (handle_ack).
LEMMA AckKeeps ==
  ASSUME ReplayInv, NEW c, NEW s \in ClientType, NEW m \in ServerMessage, Done(m, version, log),
         Faithful(s, version, past), Own(c, s)
  PROVE  LET t == Acknowledged(s, m)
         IN  Faithful(t, version, past) /\ Own(c, t)
<1> DEFINE t == Acknowledged(s, m)
<1>1. /\ version \in Nat
      /\ \A v \in 1 .. version : past[v + 1] = ApplyOperation(past[v], log[v].op)
  BY DEF ReplayInv, WindowInv, TypeOK, ReplayableHistory
<1>2. m.version \in 1 .. version /\ m.op = log[m.version].op
  BY DEF Done
<1>3. s.version \in Nat
  BY DEF ClientType
<1>4. /\ t.content = ApplyOperation(s.content, m.op) /\ t.version = m.version
      /\ t.copy = CopyAfterAck(s, m.version)
      /\ t.queue = s.queue /\ t.inflight = <<>> /\ t.toServer = s.toServer
  BY DEF Acknowledged, ApplyAuthoritative, ClientType
<1> HIDE DEF t
<1>5. t.copy = "loaded" => s.copy = "loaded" /\ m.version = s.version + 1
  BY <1>4 DEF CopyAfterAck
<1>6. t.copy = "loaded" => t.content = past[t.version + 1]
  BY <1>1, <1>2, <1>3, <1>4, <1>5 DEF Faithful
<1>7. Faithful(t, version, past)
  BY <1>1, <1>2, <1>4, <1>6 DEF Faithful
<1>8. Range(t.inflight) = {}
  BY <1>4 DEF Range
<1>9. Own(c, t)
  BY <1>4, <1>8 DEF Own
<1> QED
  BY <1>7, <1>9 DEF t

\* Nothing in flight is as good as something in flight.
LEMMA EmptiedKeeps ==
  ASSUME NEW c, NEW s \in ClientType, NEW n, NEW texts, Faithful(s, n, texts), Own(c, s)
  PROVE  LET t == [s EXCEPT !.inflight = <<>>]
         IN  Faithful(t, n, texts) /\ Own(c, t)
<1> DEFINE t == [s EXCEPT !.inflight = <<>>]
<1>1. /\ t.content = s.content /\ t.version = s.version /\ t.copy = s.copy
      /\ t.queue = s.queue /\ t.inflight = <<>> /\ t.toServer = s.toServer
  BY DEF ClientType
<1>2. Range(t.inflight) = {}
  BY <1>1 DEF Range
<1> HIDE DEF t
<1>3. Faithful(t, n, texts)
  BY <1>1 DEF Faithful
<1>4. Own(c, t)
  BY <1>1, <1>2 DEF Own
<1> QED
  BY <1>3, <1>4 DEF t

\* Whatever a client is sent, it stays behind the server and, without a skipped
\* version, like it
\* (ts_client_state_handle_message).
LEMMA HandleKeeps ==
  ASSUME ReplayInv, NEW c, NEW s \in ClientType, NEW m \in ServerMessage,
         Right(c, m, version, log, past), Faithful(s, version, past), Own(c, s)
  PROVE  Faithful(HandleMessage(s, m), version, past) /\ Own(c, HandleMessage(s, m))
<1>1. CASE m.type = "DOC_STATE" /\ Loaded(s, m) \in ClientType /\ HandleMessage(s, m) = Pump(Loaded(s, m))
  <2> DEFINE t == Loaded(s, m)
  <2>1. m.version <= version /\ m.text = past[m.version + 1]
    BY <1>1 DEF Right
  <2>2. /\ t.content = m.text /\ t.version = m.version
        /\ t.queue = s.queue /\ t.inflight = <<>> /\ t.toServer = s.toServer
    BY DEF Loaded, ClientType
  <2>3. Range(t.inflight) = {}
    BY <2>2 DEF Range
  <2>4. t \in ClientType
    BY <1>1
  <2> HIDE DEF t
  <2>5. Faithful(t, version, past)
    BY <2>1, <2>2 DEF Faithful
  <2>6. Own(c, t)
    BY <2>2, <2>3 DEF Own
  <2>7. Faithful(Pump(t), version, past) /\ Own(c, Pump(t))
    BY <2>4, <2>5, <2>6, PumpKeeps
  <2> QED
    BY <1>1, <2>7 DEF t
<1>2. CASE m.type = "ACK" /\ Acknowledged(s, m) \in ClientType /\ HandleMessage(s, m) = Pump(Acknowledged(s, m))
  <2> DEFINE e == Acknowledged(s, m)
  <2>1. Done(m, version, log)
    BY <1>2 DEF Right
  <2>2. Faithful(e, version, past) /\ Own(c, e)
    BY <2>1, AckKeeps
  <2>3. e \in ClientType
    BY <1>2
  <2> HIDE DEF e
  <2>4. Faithful(Pump(e), version, past) /\ Own(c, Pump(e))
    BY <2>2, <2>3, PumpKeeps
  <2> QED
    BY <1>2, <2>4 DEF e
<1>3. CASE HandleMessage(s, m) = s
  BY <1>3
<1>4. CASE /\ m.type = "REMOTE_OP" /\ m.version = s.version + 1
           /\ HandleMessage(s, m) = ApplyAuthoritative(s, m)
  <2>1. Done(m, version, log)
    BY <1>4 DEF Right
  <2> QED
    BY <1>4, <2>1, ApplyKeeps
<1>5. CASE HandleMessage(s, m) = Send(s, RequestDoc)
  BY <1>5, RequestKeeps
<1>6. CASE Refused(s) \in ClientType /\ HandleMessage(s, m) = Send(Refused(s), RequestDoc)
  <2>1. Faithful(Refused(s), version, past) /\ Own(c, Refused(s))
    BY EmptiedKeeps DEF Refused
  <2> QED
    BY <1>6, <2>1, RequestKeeps
<1> QED
  BY <1>1, <1>2, <1>3, <1>4, <1>5, <1>6, HandleCases

-----------------------------------------------------------------------------
(* The initial state *)

\* The clients that are present make a list without repetition.
LEMMA PresentListed ==
  ASSUME SessionInit
  PROVE  /\ members \in Seq(Clients)
         /\ Range(members) = Present
         /\ \A i, j \in DOMAIN members : members[i] = members[j] => i = j
<1> DEFINE n == Cardinality(Present)
<1>1. n \in Nat /\ ExistsBijection(1 .. n, Present)
  BY SessionAssumption, FS_CardinalityType
<1>2. PICK f \in [1 .. n -> Present] : IsInjective(f)
  BY <1>1 DEF ExistsBijection, Bijection, Injection
<1>3. members \in [1 .. n -> Present] /\ IsInjective(members)
  BY <1>2 DEF SessionInit, SetToSeq
<1>4. \A i, j \in 1 .. n : members[i] = members[j] => i = j
  BY <1>3 DEF IsInjective
<1>5. members \in Seq(Clients) /\ Len(members) = n
  BY <1>1, <1>3, SessionAssumption
<1>6. Range(members) \subseteq Present
  BY <1>3 DEF Range
<1>7. Range(members) = Present
  <2>1. members \in Bijection(1 .. n, Range(members))
    BY <1>3, <1>4 DEF Bijection, Injection, Surjection, IsInjective, Range
  <2>2. IsFiniteSet(1 .. n) /\ Cardinality(1 .. n) = n
    BY <1>1, FS_Interval
  <2>3. Cardinality(Range(members)) = n
    BY <2>1, <2>2, FS_Bijection DEF ExistsBijection
  <2> QED
    BY <1>6, <2>3, SessionAssumption, FS_Subset
<1> QED
  BY <1>3, <1>4, <1>5, <1>7

\* The session starts with no client connected and no message on its way.
LEMMA SessionInitInv ==
  ASSUME SessionInit
  PROVE  SessionInv
<1>1. /\ Init
      /\ running = Clients
      /\ client = [c \in Clients |->
           IF c \in Present THEN [NewClient EXCEPT !.content = InitialText, !.copy = "loaded"] ELSE NewClient]
      /\ thread = [c \in Clients |-> Idle(IF c \in Present THEN "serving" ELSE "accepted")]
      /\ toClient = [c \in Clients |-> <<>>]
      /\ broadcast = [by |-> NoClient, to |-> <<>>]
  BY DEF SessionInit
<1>2. ReplayInv
  <2>1. ReplayableHistory
    BY <1>1 DEF Init, ReplayableHistory
  <2> QED
    BY <1>1, <2>1, InitType DEF ReplayInv
<1>3. /\ <<>> \in Seq(Item) /\ <<>> \in Seq(ClientMessage) /\ <<>> \in Seq(ServerMessage)
      /\ <<>> \in Seq(Clients) /\ <<>> \in Seq(Char)
  BY EmptySeq
<1>4. ASSUME NEW c \in Clients
      PROVE  /\ client[c] \in ClientType
             /\ client[c].version = 0
             /\ client[c].copy = "loaded" => client[c].content = InitialText
             /\ client[c].queue = <<>> /\ client[c].inflight = <<>> /\ client[c].toServer = <<>>
  <2>1. NewClient \in ClientType
    BY <1>3 DEF NewClient, ClientType
  <2>2. [NewClient EXCEPT !.content = InitialText, !.copy = "loaded"] \in ClientType
    BY <2>1, InitialTextAssumption DEF ClientType
  <2>3. CASE c \in Present
    <3>1. client[c] = [NewClient EXCEPT !.content = InitialText, !.copy = "loaded"]
      BY <1>1, <2>3
    <3> QED
      BY <2>2, <3>1 DEF NewClient
  <2>4. CASE c \notin Present
    <3>1. client[c] = NewClient
      BY <1>1, <2>4
    <3> QED
      BY <2>1, <3>1 DEF NewClient
  <2> QED
    BY <2>3, <2>4
<1>5. ASSUME NEW c \in Clients
      PROVE  /\ thread[c] \in ThreadType
             /\ thread[c].stage = IF c \in Present THEN "serving" ELSE "accepted"
             /\ thread[c].out = <<>> /\ thread[c].remote = <<>>
  BY <1>1, <1>3 DEF Idle, ThreadType
<1>6. SessionTypeOK
  <2>1. client \in [Clients -> ClientType]
    BY <1>1, <1>4
  <2>2. thread \in [Clients -> ThreadType]
    BY <1>1, <1>5
  <2>3. toClient \in [Clients -> Seq(ServerMessage)]
    BY <1>1, <1>3
  <2>4. broadcast \in [by : Clients \cup {NoClient}, to : Seq(Clients)]
    BY <1>1, <1>3
  <2>5. TypeOK
    BY <1>2 DEF ReplayInv, WindowInv
  <2> QED
    BY <1>1, <2>1, <2>2, <2>3, <2>4, <2>5, PresentListed DEF SessionTypeOK
<1>7. Range(<<>>) = {}
  BY DEF Range
<1>8. Carried
  BY <1>1, <1>5, <1>7 DEF Carried
<1>9. Copies
  <2>1. version = 0 /\ past = <<InitialText>>
    BY <1>1 DEF Init
  <2> QED
    BY <1>4, <1>7, <2>1 DEF Copies, Faithful, Own
<1>10. Listed
  <2>1. broadcast.by = NoClient /\ broadcast.to = <<>>
    BY <1>1
  <2> QED
    BY <1>5, <1>7, <2>1, PresentListed, SessionAssumption DEF Listed
<1> QED
  BY <1>2, <1>6, <1>8, <1>9, <1>10 DEF SessionInv

-----------------------------------------------------------------------------
(* The steps *)

\* What is sent stays right, and so does all that was sent before.
LEMMA CarriedStays ==
  ASSUME SessionTypeOK, Carried, Grows, version' \in Nat,
         \A d \in Clients : \A m \in Range(toClient'[d]) :
           m \in Range(toClient[d]) \/ Right(d, m, version', log', past'),
         \A d \in Clients : \A m \in Range(thread'[d].out) :
           m \in Range(thread[d].out) \/ Right(d, m, version', log', past'),
         \A d \in Clients : \A m \in Range(thread'[d].remote) :
           m \in Range(thread[d].remote) \/ Remote(d, m, version', log')
  PROVE  Carried'
<1>1. version \in Nat
  BY DEF SessionTypeOK, TypeOK
<1>2. ASSUME NEW d \in Clients
      PROVE  /\ Range(toClient[d]) \subseteq ServerMessage
             /\ Range(thread[d].out) \subseteq ServerMessage
             /\ Range(thread[d].remote) \subseteq ServerMessage
  <2>1. toClient[d] \in Seq(ServerMessage) /\ thread[d] \in ThreadType
    BY DEF SessionTypeOK
  <2>2. thread[d].out \in Seq(ServerMessage) /\ thread[d].remote \in Seq(ServerMessage)
    BY <2>1 DEF ThreadType
  <2> QED
    BY <2>1, <2>2, RangeFacts
<1>3. ASSUME NEW d \in Clients, NEW m \in Range(toClient'[d])
      PROVE  Right(d, m, version', log', past')
  BY <1>1, <1>2, <1>3, StaysRight DEF Carried
<1>4. ASSUME NEW d \in Clients, NEW m \in Range(thread'[d].out)
      PROVE  Right(d, m, version', log', past')
  BY <1>1, <1>2, <1>4, StaysRight DEF Carried
<1>5. ASSUME NEW d \in Clients, NEW m \in Range(thread'[d].remote)
      PROVE  Remote(d, m, version', log')
  BY <1>1, <1>2, <1>5, StaysRight DEF Carried
<1> QED
  BY <1>3, <1>4, <1>5 DEF Carried

\* Where the clients' copies change, it is to copies of a version.
LEMMA CopiesStay ==
  ASSUME SessionTypeOK, Copies, Grows, version' \in Nat,
         \A d \in Clients : \/ client'[d] = client[d]
                            \/ Faithful(client'[d], version', past') /\ Own(d, client'[d])
  PROVE  Copies'
<1>1. version \in Nat
  BY DEF SessionTypeOK, TypeOK
<1>2. ASSUME NEW d \in Clients
      PROVE  Faithful(client'[d], version', past') /\ Own(d, client'[d])
  <2>1. client[d] \in ClientType
    BY DEF SessionTypeOK
  <2>2. Faithful(client[d], version, past) /\ Own(d, client[d])
    BY DEF Copies
  <2>3. Faithful(client[d], version', past')
    BY <1>1, <2>1, <2>2, StaysFaithful
  <2> QED
    BY <2>2, <2>3
<1> QED
  BY <1>2 DEF Copies

\* A message reaches the end of its client's stream, or nobody.
LEMMA DeliverEffect ==
  ASSUME toClient \in [Clients -> Seq(ServerMessage)], NEW c \in Clients, NEW m \in ServerMessage, Deliver(c, m)
  PROVE  /\ toClient' \in [Clients -> Seq(ServerMessage)]
         /\ \A d \in Clients : d # c \/ c \notin running => toClient'[d] = toClient[d]
         /\ c \in running => toClient'[c] = Append(toClient[c], m)
         /\ \A d \in Clients : \A k \in Range(toClient'[d]) : k \in Range(toClient[d]) \/ (d = c /\ k = m)
<1>1. Append(toClient[c], m) \in Seq(ServerMessage)
      /\ Range(Append(toClient[c], m)) = Range(toClient[c]) \cup {m}
  BY RangeAppend, AppendProperties
<1> QED
  BY <1>1 DEF Deliver

\* The user types: the queue grows and the operation may go out
\* (ts_client_state_queue_operation).
LEMMA TypeKeeps ==
  ASSUME SessionInv, NEW c \in Clients, Type(c)
  PROVE  SessionInv'
<1> DEFINE s == client[c]
           id == <<c, s.nextOp>>
<1>1. PICK op \in {InsertOp(p, id) : p \in (0 .. Reach(s)) \cap Positions}
                  \cup {DeleteOp(p) : p \in (0 .. Reach(s) - 1) \cap Positions} :
        client' = [client EXCEPT ![c] = QueueOperation(s, id, op)]
  BY DEF Type
<1>2. id \in OpIds /\ UNCHANGED <<document, running, thread, toClient, members, broadcast>>
  BY DEF Type
<1>3. op \in Operation(Char)
  BY <1>1, <1>2, PositionsAssumption DEF InsertOp, DeleteOp, Operation, Char
<1>4. ReplayInv' /\ Grows /\ version' \in Nat /\ SessionTypeOK
  <2>1. ReplayInv' /\ Grows
    BY <1>2, DocumentStays DEF SessionInv
  <2> QED
    BY <2>1 DEF SessionInv, ReplayInv, WindowInv, TypeOK
<1>5. s \in ClientType
  BY <1>4 DEF SessionTypeOK
<1> DEFINE t == QueueOperation(s, id, op)
<1>6. t \in ClientType
  BY <1>2, <1>3, <1>5, QueueType
<1>7. Faithful(t, version, past) /\ Own(c, t)
  <2> DEFINE item == [id |-> id, op |-> op]
             q == [s EXCEPT !.queue = Append(@, item), !.nextOp = @ + 1]
  <2>1. item \in Item /\ item.id[1] = c
    BY <1>2, <1>3 DEF Item
  <2>2. s.queue \in Seq(Item)
    BY <1>5 DEF ClientType
  <2> HIDE DEF item
  <2>3. Range(Append(s.queue, item)) = Range(s.queue) \cup {item} /\ Append(s.queue, item) \in Seq(Item)
    BY <2>1, <2>2, RangeAppend, AppendProperties
  <2>4. q \in ClientType
    <3>1. s.nextOp + 1 \in Nat \ {0}
      BY <1>5 DEF ClientType
    <3> QED
      BY <1>5, <2>3, <3>1 DEF ClientType
  <2>10. /\ q.content = s.content /\ q.version = s.version /\ q.copy = s.copy
         /\ q.queue = Append(s.queue, item) /\ q.inflight = s.inflight /\ q.toServer = s.toServer
    BY <1>5 DEF ClientType
  <2>5. t = Pump(q)
    BY DEF QueueOperation, item
  <2>6. Faithful(s, version, past) /\ Own(c, s)
    BY DEF SessionInv, Copies
  <2> HIDE DEF q, s, id
  <2>7. Faithful(q, version, past)
    BY <2>6, <2>10 DEF Faithful
  <2>8. Own(c, q)
    BY <2>1, <2>3, <2>6, <2>10 DEF Own
  <2>9. Faithful(Pump(q), version, past) /\ Own(c, Pump(q))
    BY <2>4, <2>7, <2>8, PumpKeeps
  <2> QED
    BY <2>5, <2>9
<1> HIDE DEF t, s, id
<1>8. client' = [client EXCEPT ![c] = t]
  BY <1>1 DEF t, s, id
<1>9. client' \in [Clients -> ClientType] /\ client'[c] = t /\ \A d \in Clients : d # c => client'[d] = client[d]
  BY <1>4, <1>6, <1>8 DEF SessionTypeOK
<1>10. SessionTypeOK'
  BY <1>2, <1>4, <1>9 DEF SessionTypeOK, ReplayInv, WindowInv
<1>11. Carried'
  BY <1>2, <1>4, CarriedStays DEF SessionInv
<1>12. Copies'
  <2>1. version' = version /\ past' = past
    BY <1>2 DEF document, vars
  <2> QED
    BY <1>4, <1>7, <1>9, <2>1, CopiesStay DEF SessionInv
<1>13. Listed'
  BY <1>2 DEF SessionInv, Listed
<1> QED
  BY <1>4, <1>10, <1>11, <1>12, <1>13 DEF SessionInv

\* A client handles its next message (ts_client_state_handle_message).
LEMMA HandleStepKeeps ==
  ASSUME SessionInv, NEW c \in Clients, Handle(c)
  PROVE  SessionInv'
<1> DEFINE s == client[c]
           m == Head(toClient[c])
           t == HandleMessage(s, m)
<1>1. /\ toClient[c] # <<>>
      /\ client' = [client EXCEPT ![c] = t]
      /\ toClient' = [toClient EXCEPT ![c] = Tail(@)]
      /\ UNCHANGED <<document, running, thread, members, broadcast>>
  BY DEF Handle
<1>2. /\ SessionTypeOK /\ ReplayInv /\ ReplayInv' /\ Grows /\ version' \in Nat
      /\ version' = version /\ past' = past
  <2>1. ReplayInv' /\ Grows
    BY <1>1, DocumentStays DEF SessionInv
  <2>2. version' = version /\ past' = past
    BY <1>1 DEF document, vars
  <2> QED
    BY <2>1, <2>2 DEF SessionInv, ReplayInv, WindowInv, TypeOK
<1>3. s \in ClientType /\ toClient \in [Clients -> Seq(ServerMessage)]
  BY <1>2 DEF SessionTypeOK
<1>4. m \in Range(toClient[c]) /\ m \in ServerMessage /\ Tail(toClient[c]) \in Seq(ServerMessage)
      /\ Range(Tail(toClient[c])) \subseteq Range(toClient[c])
  <2>1. toClient[c] \in Seq(ServerMessage)
    BY <1>3
  <2> QED
    BY <1>1, <2>1, RangeFacts, HeadTailProperties
<1>5. Right(c, m, version, log, past) /\ Faithful(s, version, past) /\ Own(c, s)
  BY <1>4 DEF SessionInv, Carried, Copies
<1> HIDE DEF m, s
<1>6. t \in ClientType /\ Faithful(t, version, past) /\ Own(c, t)
  BY <1>2, <1>3, <1>4, <1>5, HandleType, HandleKeeps
<1> HIDE DEF t
<1>7. client' \in [Clients -> ClientType] /\ client'[c] = t /\ \A d \in Clients : d # c => client'[d] = client[d]
  BY <1>1, <1>2, <1>6 DEF SessionTypeOK
<1>8. toClient' \in [Clients -> Seq(ServerMessage)] /\ \A d \in Clients : Range(toClient'[d]) \subseteq Range(toClient[d])
  BY <1>1, <1>3, <1>4
<1>9. SessionTypeOK'
  BY <1>1, <1>2, <1>7, <1>8 DEF SessionTypeOK, ReplayInv, WindowInv
<1>10. Carried'
  BY <1>1, <1>2, <1>8, CarriedStays DEF SessionInv
<1>11. Copies'
  BY <1>2, <1>6, <1>7, CopiesStay DEF SessionInv
<1>12. Listed'
  BY <1>1 DEF SessionInv, Listed
<1> QED
  BY <1>2, <1>9, <1>10, <1>11, <1>12 DEF SessionInv

\* A user leaves: what the server has not read may be lost.
LEMMA QuitKeeps ==
  ASSUME SessionInv, NEW c \in Clients, Quit(c)
  PROVE  SessionInv'
<1> DEFINE s == client[c]
<1>1. PICK n \in 0 .. Len(s.toServer) :
        client' = [client EXCEPT ![c].toServer = SubSeq(@, 1, n)]
  BY DEF Quit
<1>2. /\ running' = running \ {c}
      /\ toClient' = [toClient EXCEPT ![c] = <<>>]
      /\ UNCHANGED <<document, thread, members, broadcast>>
  BY DEF Quit
<1>3. /\ SessionTypeOK /\ ReplayInv /\ ReplayInv' /\ Grows /\ version' \in Nat
      /\ version' = version /\ past' = past
  <2>1. ReplayInv' /\ Grows
    BY <1>2, DocumentStays DEF SessionInv
  <2>2. version' = version /\ past' = past
    BY <1>2 DEF document, vars
  <2> QED
    BY <2>1, <2>2 DEF SessionInv, ReplayInv, WindowInv, TypeOK
<1>4. s \in ClientType
  BY <1>3 DEF SessionTypeOK
<1> DEFINE sent == SubSeq(s.toServer, 1, n)
           t == [s EXCEPT !.toServer = sent]
<1>5. s.toServer \in Seq(ClientMessage)
  BY <1>4 DEF ClientType
<1>6. sent \in Seq(ClientMessage) /\ Range(sent) \subseteq Range(s.toServer)
  BY <1>5, RangeFacts
<1>7. client' = [client EXCEPT ![c] = t]
  BY <1>1
<1> HIDE DEF sent
<1>8. /\ t \in ClientType
      /\ t.content = s.content /\ t.version = s.version /\ t.copy = s.copy
      /\ t.queue = s.queue /\ t.inflight = s.inflight /\ t.toServer = sent
  BY <1>4, <1>6 DEF ClientType
<1>9. Faithful(s, version, past) /\ Own(c, s)
  BY DEF SessionInv, Copies
<1> HIDE DEF t, s
<1>10. Faithful(t, version, past) /\ Own(c, t)
  <2>1. Faithful(t, version, past)
    BY <1>6, <1>8, <1>9 DEF Faithful
  <2>2. Own(c, t)
    BY <1>6, <1>8, <1>9 DEF Own
  <2> QED
    BY <2>1, <2>2
<1>11. client' \in [Clients -> ClientType] /\ client'[c] = t /\ \A d \in Clients : d # c => client'[d] = client[d]
  BY <1>3, <1>7, <1>8 DEF SessionTypeOK
<1>12. Range(<<>>) = {} /\ <<>> \in Seq(ServerMessage)
  BY EmptySeq DEF Range
<1>13. toClient' \in [Clients -> Seq(ServerMessage)] /\ \A d \in Clients : Range(toClient'[d]) \subseteq Range(toClient[d])
  BY <1>2, <1>3, <1>12 DEF SessionTypeOK
<1>14. SessionTypeOK'
  BY <1>2, <1>3, <1>11, <1>13 DEF SessionTypeOK, ReplayInv, WindowInv
<1>15. Carried'
  BY <1>2, <1>3, <1>13, CarriedStays DEF SessionInv
<1>16. Copies'
  BY <1>3, <1>10, <1>11, CopiesStay DEF SessionInv
<1>17. Listed'
  BY <1>2 DEF SessionInv, Listed
<1> QED
  BY <1>3, <1>14, <1>15, <1>16, <1>17 DEF SessionInv

\* What every step that leaves the document alone starts from.
LEMMA DocumentUntouched ==
  ASSUME SessionInv, UNCHANGED document
  PROVE  /\ SessionTypeOK /\ ReplayInv' /\ Grows /\ TypeOK'
         /\ version \in Nat /\ version' = version /\ log' = log /\ past' = past /\ text' = text
<1>1. ReplayInv' /\ Grows
  BY DocumentStays DEF SessionInv
<1> QED
  BY <1>1 DEF SessionInv, ReplayInv, WindowInv, TypeOK, document, vars

\* A connection registers: it is listed before it is sent the document
\* (client_thread_main).
LEMMA RegisterKeeps ==
  ASSUME SessionInv, NEW c \in Clients, Register(c)
  PROVE  SessionInv'
<1>1. /\ thread[c].stage = "accepted"
      /\ members' = <<c>> \o members
      /\ thread' = [thread EXCEPT ![c].stage = "registered"]
      /\ UNCHANGED <<document, client, running, toClient, broadcast>>
  BY DEF Register
<1>2. SessionTypeOK /\ ReplayInv' /\ Grows /\ version' \in Nat /\ TypeOK'
  BY <1>1, DocumentUntouched
<1>3. thread \in [Clients -> ThreadType] /\ members \in Seq(Clients)
  BY <1>2 DEF SessionTypeOK
<1>4. /\ thread' \in [Clients -> ThreadType]
      /\ \A d \in Clients : /\ thread'[d].out = thread[d].out /\ thread'[d].remote = thread[d].remote
                            /\ thread'[d].stage = IF d = c THEN "registered" ELSE thread[d].stage
  BY <1>1, <1>3 DEF ThreadType
<1>5. members' \in Seq(Clients)
  BY <1>1, <1>3
<1>6. SessionTypeOK'
  BY <1>1, <1>2, <1>4, <1>5 DEF SessionTypeOK
<1>7. Carried'
  BY <1>1, <1>2, <1>4, CarriedStays DEF SessionInv
<1>8. Copies'
  BY <1>1, <1>2, CopiesStay DEF SessionInv
<1>9. Listed'
  <2>1. /\ \A i, j \in DOMAIN members : members[i] = members[j] => i = j
        /\ \A d \in Clients : thread[d].stage \in {"registered", "serving"} <=> d \in Range(members)
    BY DEF SessionInv, Listed
  <2>2. Len(members') = Len(members) + 1 /\ members'[1] = c
        /\ \A i \in 2 .. Len(members) + 1 : members'[i] = members[i - 1]
    BY <1>1, <1>3
  <2>3. Range(members') = {members'[i] : i \in 1 .. Len(members')}
        /\ Range(members) = {members[i] : i \in 1 .. Len(members)}
    BY <1>3, <1>5, RangeEquality
  <2>4. Len(members) \in Nat /\ DOMAIN members = 1 .. Len(members) /\ DOMAIN members' = 1 .. Len(members) + 1
    BY <1>3, <1>5, <2>2
  <2>5. Range(members') = Range(members) \cup {c}
    <3>1. ASSUME NEW i \in 1 .. Len(members) + 1
          PROVE  members'[i] \in Range(members) \cup {c}
      <4>1. CASE i = 1
        BY <2>2, <4>1
      <4>2. CASE i # 1
        <5>1. i - 1 \in 1 .. Len(members) /\ members'[i] = members[i - 1]
          BY <2>2, <2>4, <4>2
        <5> QED
          BY <2>3, <5>1
      <4> QED
        BY <4>1, <4>2
    <3>2. ASSUME NEW i \in 1 .. Len(members)
          PROVE  members[i] \in Range(members')
      <4>1. i + 1 \in 2 .. Len(members) + 1 /\ i + 1 - 1 = i
        BY <2>4
      <4>2. members'[i + 1] = members[i]
        BY <2>2, <4>1
      <4> QED
        BY <2>2, <2>3, <2>4, <4>1, <4>2
    <3>3. c \in Range(members')
      BY <2>2, <2>3, <2>4
    <3> QED
      BY <2>2, <2>3, <3>1, <3>2, <3>3
  <2>6. c \notin Range(members)
    BY <1>1, <2>1
  <2>7. \A i, j \in 1 .. Len(members) + 1 : members'[i] = members'[j] => i = j
    <3> TAKE i, j \in 1 .. Len(members) + 1
    <3> HAVE members'[i] = members'[j]
    <3>1. \A k \in 1 .. Len(members) + 1 : k # 1 => k - 1 \in 1 .. Len(members) /\ members'[k] = members[k - 1]
      BY <2>2, <2>4
    <3>2. \A k \in 1 .. Len(members) : members[k] # c
      BY <2>3, <2>6
    <3>3. i # 1 /\ j # 1 => i - 1 = j - 1
      BY <2>1, <2>4, <3>1
    <3> QED
      BY <2>2, <3>1, <3>2, <3>3
  <2>8. \A d \in Clients : thread'[d].stage \in {"registered", "serving"} <=> d \in Range(members')
    BY <1>4, <2>1, <2>5
  <2> QED
    BY <1>1, <1>4, <2>4, <2>7, <2>8 DEF SessionInv, Listed
<1> QED
  BY <1>2, <1>6, <1>7, <1>8, <1>9 DEF SessionInv

\* What a thread sends of the document is the text of its version.
LEMMA StateIsRight ==
  ASSUME ReplayInv
  PROVE  /\ DocState(text, version) \in ServerMessage
         /\ \A c : Right(c, DocState(text, version), version, log, past)
<1>1. text \in Seq(Char) /\ version \in Nat /\ past[version + 1] = text
  BY DEF ReplayInv, WindowInv, TypeOK, ReplayableHistory
<1>2. DocState(text, version) \in ServerMessage
  BY <1>1 DEF DocState, ServerMessage
<1>3. \A c : Right(c, DocState(text, version), version, log, past)
  BY <1>1 DEF DocState, Right
<1> QED
  BY <1>2, <1>3

\* The snapshot a new client is sent is the text and the version of one moment
\* (ts_document_snapshot, under the document's lock).
LEMMA TakeSnapshotKeeps ==
  ASSUME SessionInv, NEW c \in Clients, TakeSnapshot(c)
  PROVE  SessionInv'
<1> DEFINE m == DocState(text, version)
<1>1. /\ thread[c].stage = "registered"
      /\ thread' = [thread EXCEPT ![c].stage = "serving", ![c].out = <<m>>]
      /\ UNCHANGED <<document, client, running, toClient, members, broadcast>>
  BY DEF TakeSnapshot
<1>2. /\ SessionTypeOK /\ ReplayInv' /\ Grows /\ version' \in Nat /\ TypeOK'
      /\ version' = version /\ log' = log /\ past' = past
  BY <1>1, DocumentUntouched
<1>3. m \in ServerMessage /\ Right(c, m, version, log, past)
  BY StateIsRight DEF SessionInv
<1> HIDE DEF m
<1>4. Range(<<m>>) = {m} /\ <<m>> \in Seq(ServerMessage)
  BY <1>3, RangeOfOne
<1>5. /\ thread' \in [Clients -> ThreadType]
      /\ thread'[c].out = <<m>> /\ thread'[c].remote = thread[c].remote /\ thread'[c].stage = "serving"
      /\ \A d \in Clients : d # c => thread'[d] = thread[d]
  BY <1>1, <1>2, <1>4 DEF SessionTypeOK, ThreadType
<1>6. SessionTypeOK'
  BY <1>1, <1>2, <1>5 DEF SessionTypeOK
<1>7. Carried'
  <2>1. \A d \in Clients : \A k \in Range(thread'[d].out) :
          k \in Range(thread[d].out) \/ Right(d, k, version', log', past')
    BY <1>2, <1>3, <1>4, <1>5
  <2>2. \A d \in Clients : thread'[d].remote = thread[d].remote
    BY <1>5
  <2> QED
    BY <1>1, <1>2, <2>1, <2>2, CarriedStays DEF SessionInv
<1>8. Copies'
  BY <1>1, <1>2, CopiesStay DEF SessionInv
<1>9. Listed'
  <2>1. \A d \in Clients : /\ thread'[d].remote = thread[d].remote
                           /\ thread'[d].stage \in {"registered", "serving"}
                                <=> thread[d].stage \in {"registered", "serving"}
    BY <1>1, <1>5
  <2> QED
    BY <1>1, <2>1 DEF SessionInv, Listed
<1> QED
  BY <1>2, <1>6, <1>7, <1>8, <1>9 DEF SessionInv

\* A thread sends an answer (dispatch_message).
LEMMA AnswerKeeps ==
  ASSUME SessionInv, NEW c \in Clients, Answer(c)
  PROVE  SessionInv'
<1> DEFINE m == Head(thread[c].out)
<1>1. /\ thread[c].out # <<>>
      /\ Deliver(c, m)
      /\ thread' = [thread EXCEPT ![c].out = Tail(@)]
      /\ UNCHANGED <<document, client, running, members, broadcast>>
  BY DEF Answer
<1>2. /\ SessionTypeOK /\ ReplayInv' /\ Grows /\ version' \in Nat /\ TypeOK'
      /\ version' = version /\ log' = log /\ past' = past
  BY <1>1, DocumentUntouched
<1>3. thread[c] \in ThreadType /\ thread[c].out \in Seq(ServerMessage) /\ toClient \in [Clients -> Seq(ServerMessage)]
  BY <1>2 DEF SessionTypeOK, ThreadType
<1>4. /\ m \in ServerMessage /\ m \in Range(thread[c].out)
      /\ Tail(thread[c].out) \in Seq(ServerMessage)
      /\ Range(Tail(thread[c].out)) \subseteq Range(thread[c].out)
  BY <1>1, <1>3, RangeFacts, HeadTailProperties
<1>5. Right(c, m, version, log, past)
  BY <1>4 DEF SessionInv, Carried
<1> HIDE DEF m
<1>6. /\ toClient' \in [Clients -> Seq(ServerMessage)]
      /\ \A d \in Clients : \A k \in Range(toClient'[d]) : k \in Range(toClient[d]) \/ (d = c /\ k = m)
  BY <1>1, <1>3, <1>4, DeliverEffect
<1>7. /\ thread' \in [Clients -> ThreadType]
      /\ thread'[c].out = Tail(thread[c].out) /\ thread'[c].remote = thread[c].remote
      /\ thread'[c].stage = thread[c].stage
      /\ \A d \in Clients : d # c => thread'[d] = thread[d]
  BY <1>1, <1>2, <1>4 DEF SessionTypeOK, ThreadType
<1>8. SessionTypeOK'
  BY <1>1, <1>2, <1>6, <1>7 DEF SessionTypeOK
<1>9. Carried'
  <2>1. \A d \in Clients : \A k \in Range(toClient'[d]) :
          k \in Range(toClient[d]) \/ Right(d, k, version', log', past')
    BY <1>2, <1>5, <1>6
  <2>2. \A d \in Clients : Range(thread'[d].out) \subseteq Range(thread[d].out)
    BY <1>4, <1>7
  <2>3. \A d \in Clients : thread'[d].remote = thread[d].remote
    BY <1>7
  <2> QED
    BY <1>2, <2>1, <2>2, <2>3, CarriedStays DEF SessionInv
<1>10. Copies'
  BY <1>1, <1>2, CopiesStay DEF SessionInv
<1>11. Listed'
  <2>1. \A d \in Clients : thread'[d].remote = thread[d].remote /\ thread'[d].stage = thread[d].stage
    BY <1>7
  <2> QED
    BY <1>1, <2>1 DEF SessionInv, Listed
<1> QED
  BY <1>2, <1>8, <1>9, <1>10, <1>11 DEF SessionInv

\* What the thread has at hand after it took an operation.
LEMMA AcceptedMessages ==
  ASSUME ReplayInv, ReplayInv', Grows, NEW c \in Clients, NEW id \in OpIds, id[1] = c,
         version' = version + 1, log'[version'].id = id, log'[version'].op \in Operation(Char)
  PROVE  LET done == log'[version'].op
             ack == Ack(id, version', done)
             remote == RemoteOp(version', done)
         IN  /\ ack \in ServerMessage /\ Right(c, ack, version', log', past')
             /\ remote \in ServerMessage /\ Remote(c, remote, version', log')
<1> DEFINE done == log'[version'].op
           ack == Ack(id, version', done)
           remote == RemoteOp(version', done)
<1>1. version' \in Nat /\ version' \in 1 .. version'
  BY DEF ReplayInv, WindowInv, TypeOK
<1>2. ack = [type |-> "ACK", id |-> id, version |-> version', op |-> done]
      /\ remote = [type |-> "REMOTE_OP", version |-> version', op |-> done]
  BY DEF Ack, RemoteOp
<1>3. done \in Operation(Char)
  OBVIOUS
<1>4. log'[version'].id = id /\ log'[version'].op = done
  OBVIOUS
<1> HIDE DEF done, ack, remote
<1>5. ack \in ServerMessage
  BY <1>1, <1>2, <1>3 DEF ServerMessage
<1>6. remote \in ServerMessage
  BY <1>1, <1>2, <1>3 DEF ServerMessage
<1>7. Right(c, ack, version', log', past')
  BY <1>1, <1>2, <1>4 DEF Right, Done
<1>8. Remote(c, remote, version', log')
  BY <1>1, <1>2, <1>4 DEF Remote, Done
<1> QED
  BY <1>5, <1>6, <1>7, <1>8 DEF done, ack, remote

\* A thread that receives an operation or a request for the document does
\* what it asks, and has the answers at hand (dispatch_message, client_thread_main).
LEMMA ReceiveCases ==
  ASSUME SessionInv, NEW c \in Clients, Receive(c)
  PROVE  LET m == Head(client[c].toServer)
         IN  /\ m \in ClientMessage
             /\ ReplayInv' /\ Grows
             /\ client' = [client EXCEPT ![c].toServer = Tail(@)]
             /\ UNCHANGED <<running, toClient, members, broadcast>>
             /\ thread[c] = Idle("serving") /\ client[c].toServer # <<>>
             /\ \/ /\ m.type = "OP" /\ m.id \in OpIds /\ m.id[1] = c
                   /\ Accept(m.id, m.base, m.op)
                   /\ version' = version + 1 /\ log'[version'].id = m.id /\ refused' = refused
                   /\ log'[version'].op \in Operation(Char)
                   /\ thread' = [thread EXCEPT ![c].out = <<Ack(m.id, version', log'[version'].op)>>,
                                               ![c].remote = <<RemoteOp(version', log'[version'].op)>>]
                \/ /\ m.type = "OP" /\ m.id \in OpIds /\ m.id[1] = c
                   /\ Refuse(m.id, m.base)
                   /\ refused' = refused \cup {m.id}
                   /\ UNCHANGED <<version, text, log, past>>
                   /\ thread' = [thread EXCEPT ![c].out = <<ResyncRequired(m.id), DocState(text, version)>>]
                \/ /\ m.type = "REQUEST_DOC" /\ UNCHANGED <<version, text, log, past, refused>>
                   /\ UNCHANGED document
                   /\ thread' = [thread EXCEPT ![c].out = <<DocState(text, version)>>]
<1> DEFINE m == Head(client[c].toServer)
<1>1. /\ thread[c] = Idle("serving") /\ client[c].toServer # <<>>
      /\ client' = [client EXCEPT ![c].toServer = Tail(@)]
      /\ UNCHANGED <<running, toClient, members, broadcast>>
      /\ \/ m.type = "OP" /\ AcceptOp(c, m)
         \/ m.type = "OP" /\ RefuseOp(c, m)
         \/ m.type = "REQUEST_DOC" /\ SendDocument(c)
  BY DEF Receive, ReadyToReceive
<1>2. client[c] \in ClientType /\ Own(c, client[c]) /\ ReplayInv
  BY DEF SessionInv, SessionTypeOK, Copies
<1>3. m \in ClientMessage /\ m \in Range(client[c].toServer)
  <2>1. client[c].toServer \in Seq(ClientMessage)
    BY <1>2 DEF ClientType
  <2> QED
    BY <1>1, <2>1, RangeFacts
<1> HIDE DEF m
<1>4. m.type = "OP" => m.id \in OpIds /\ m.id[1] = c /\ m.base \in Int /\ m.op \in Operation(Char)
  BY <1>2, <1>3 DEF ClientMessage, RequestDoc, Own
<1>5. CASE m.type = "OP" /\ AcceptOp(c, m)
  <2>1. Accept(m.id, m.base, m.op)
    BY <1>5 DEF AcceptOp
  <2>2. /\ ReplayInv' /\ Grows /\ version' = version + 1
        /\ log'[version'].id = m.id /\ log'[version'].op \in Operation(Char) /\ refused' = refused
    BY <1>2, <1>4, <1>5, <2>1, AcceptEffect
  <2>3. thread' = [thread EXCEPT ![c].out = <<Ack(m.id, version', log'[version'].op)>>,
                                 ![c].remote = <<RemoteOp(version', log'[version'].op)>>]
    BY <1>5 DEF AcceptOp
  <2> QED
    BY <1>1, <1>3, <1>4, <1>5, <2>1, <2>2, <2>3 DEF m
<1>6. CASE m.type = "OP" /\ RefuseOp(c, m)
  <2>1. Refuse(m.id, m.base)
    BY <1>6 DEF RefuseOp
  <2>2. /\ ReplayInv' /\ Grows /\ refused' = refused \cup {m.id}
        /\ UNCHANGED <<version, text, log, past>>
    BY <1>2, <1>4, <1>6, <2>1, RefuseEffect
  <2>3. thread' = [thread EXCEPT ![c].out = <<ResyncRequired(m.id), DocState(text, version)>>]
    BY <1>6 DEF RefuseOp
  <2> QED
    BY <1>1, <1>3, <1>4, <1>6, <2>1, <2>2, <2>3 DEF m
<1>7. CASE m.type = "REQUEST_DOC" /\ SendDocument(c)
  <2>1. UNCHANGED document /\ thread' = [thread EXCEPT ![c].out = <<DocState(text, version)>>]
    BY <1>7 DEF SendDocument
  <2>2. ReplayInv' /\ Grows /\ UNCHANGED <<version, text, log, past, refused>>
    BY <1>2, <2>1, DocumentStays DEF document, vars
  <2> QED
    BY <1>1, <1>3, <1>7, <2>1, <2>2 DEF m
<1> QED
  BY <1>1, <1>5, <1>6, <1>7

\* A thread takes one message of its client: an operation, a request for the
\* document, or the end (client_thread_main).
LEMMA ReceiveKeeps ==
  ASSUME SessionInv, NEW c \in Clients, Receive(c)
  PROVE  SessionInv'
<1> DEFINE m == Head(client[c].toServer)
<1>1. /\ ReplayInv' /\ Grows
      /\ client' = [client EXCEPT ![c].toServer = Tail(@)]
      /\ UNCHANGED <<running, toClient, members, broadcast>>
      /\ thread[c] = Idle("serving") /\ client[c].toServer # <<>>
  BY ReceiveCases
<1>2. SessionTypeOK /\ ReplayInv /\ Carried /\ Copies /\ Listed
  BY DEF SessionInv
<1>3. version \in Nat /\ version' \in Nat /\ TypeOK'
  BY <1>1, <1>2 DEF ReplayInv, WindowInv, TypeOK
<1>4. \E out, remote \in Seq(ServerMessage) :
        /\ thread' \in [Clients -> ThreadType]
        /\ thread'[c].out = out /\ thread'[c].remote = remote /\ thread'[c].stage = thread[c].stage
        /\ \A d \in Clients : d # c => thread'[d] = thread[d]
        /\ \A k \in Range(out) : Right(c, k, version', log', past')
        /\ \A k \in Range(remote) : Remote(c, k, version', log')
  <2>0. /\ <<>> \in Seq(ServerMessage)
        /\ Range(<<>>) = {}
        /\ thread[c].remote = <<>> /\ thread \in [Clients -> ThreadType]
    BY <1>1, <1>2, EmptySeq DEF Idle, SessionTypeOK, Range
  <2>1. CASE /\ m.id \in OpIds /\ m.id[1] = c
             /\ version' = version + 1 /\ log'[version'].id = m.id
             /\ log'[version'].op \in Operation(Char)
             /\ thread' = [thread EXCEPT ![c].out = <<Ack(m.id, version', log'[version'].op)>>,
                                         ![c].remote = <<RemoteOp(version', log'[version'].op)>>]
    <3> DEFINE done == log'[version'].op
               ack == Ack(m.id, version', done)
               remote == RemoteOp(version', done)
    <3>1. /\ ack \in ServerMessage /\ Right(c, ack, version', log', past')
          /\ remote \in ServerMessage /\ Remote(c, remote, version', log')
      BY <1>1, <1>2, <2>1, AcceptedMessages
    <3>2. thread' = [thread EXCEPT ![c].out = <<ack>>, ![c].remote = <<remote>>]
      BY <2>1
    <3> HIDE DEF ack, remote
    <3>3. Range(<<ack>>) = {ack} /\ Range(<<remote>>) = {remote}
      BY RangeOfOne
    <3>4. <<ack>> \in Seq(ServerMessage) /\ <<remote>> \in Seq(ServerMessage)
      BY <3>1
    <3>5. /\ thread' \in [Clients -> ThreadType]
          /\ thread'[c].out = <<ack>> /\ thread'[c].remote = <<remote>> /\ thread'[c].stage = thread[c].stage
          /\ \A d \in Clients : d # c => thread'[d] = thread[d]
      BY <2>0, <3>2, <3>4 DEF ThreadType
    <3> QED
      BY <3>1, <3>3, <3>4, <3>5
  <2>2. ASSUME version' = version, log' = log, past' = past, text' = text
        PROVE  /\ DocState(text, version) \in ServerMessage
               /\ Right(c, DocState(text, version), version', log', past')
    BY <1>2, <2>2, StateIsRight
  <2>3. CASE /\ m.id \in OpIds
             /\ UNCHANGED <<version, text, log, past>>
             /\ thread' = [thread EXCEPT ![c].out = <<ResyncRequired(m.id), DocState(text, version)>>]
    <3> DEFINE r == ResyncRequired(m.id)
               doc == DocState(text, version)
    <3>1. doc \in ServerMessage /\ Right(c, doc, version', log', past')
      BY <2>2, <2>3
    <3>2. r \in ServerMessage /\ Right(c, r, version', log', past')
      BY <2>3 DEF ResyncRequired, ServerMessage, Right
    <3>3. thread' = [thread EXCEPT ![c].out = <<r, doc>>]
      BY <2>3
    <3> HIDE DEF r, doc
    <3>4. Range(<<r, doc>>) = {r, doc}
      BY DEF Range
    <3>5. <<r, doc>> \in Seq(ServerMessage)
      BY <3>1, <3>2
    <3>6. /\ thread' \in [Clients -> ThreadType]
          /\ thread'[c].out = <<r, doc>> /\ thread'[c].remote = <<>> /\ thread'[c].stage = thread[c].stage
          /\ \A d \in Clients : d # c => thread'[d] = thread[d]
      BY <2>0, <3>3, <3>5 DEF ThreadType
    <3> QED
      BY <2>0, <3>1, <3>2, <3>4, <3>5, <3>6
  <2>4. CASE /\ UNCHANGED <<version, text, log, past>>
             /\ thread' = [thread EXCEPT ![c].out = <<DocState(text, version)>>]
    <3> DEFINE doc == DocState(text, version)
    <3>1. doc \in ServerMessage /\ Right(c, doc, version', log', past')
      BY <2>2, <2>4
    <3>3. thread' = [thread EXCEPT ![c].out = <<doc>>]
      BY <2>4
    <3> HIDE DEF doc
    <3>4. Range(<<doc>>) = {doc}
      BY RangeOfOne
    <3>5. <<doc>> \in Seq(ServerMessage)
      BY <3>1
    <3>6. /\ thread' \in [Clients -> ThreadType]
          /\ thread'[c].out = <<doc>> /\ thread'[c].remote = <<>> /\ thread'[c].stage = thread[c].stage
          /\ \A d \in Clients : d # c => thread'[d] = thread[d]
      BY <2>0, <3>3, <3>5 DEF ThreadType
    <3> QED
      BY <2>0, <3>1, <3>4, <3>5, <3>6
  <2> QED
    BY <2>1, <2>3, <2>4, ReceiveCases
<1>5. PICK out \in Seq(ServerMessage), remote \in Seq(ServerMessage) :
        /\ thread' \in [Clients -> ThreadType]
        /\ thread'[c].out = out /\ thread'[c].remote = remote /\ thread'[c].stage = thread[c].stage
        /\ \A d \in Clients : d # c => thread'[d] = thread[d]
        /\ \A k \in Range(out) : Right(c, k, version', log', past')
        /\ \A k \in Range(remote) : Remote(c, k, version', log')
  BY <1>4
<1>6. /\ thread' \in [Clients -> ThreadType]
      /\ thread'[c].out = out /\ thread'[c].remote = remote /\ thread'[c].stage = thread[c].stage
      /\ \A d \in Clients : d # c => thread'[d] = thread[d]
  BY <1>5
<1> DEFINE s == client[c]
           t == [s EXCEPT !.toServer = Tail(s.toServer)]
<1>7. s \in ClientType /\ Faithful(s, version, past) /\ Own(c, s)
  BY <1>2 DEF SessionTypeOK, Copies
<1>8. Tail(s.toServer) \in Seq(ClientMessage) /\ Range(Tail(s.toServer)) \subseteq Range(s.toServer)
  <2>1. s.toServer \in Seq(ClientMessage) /\ s.toServer # <<>>
    BY <1>1, <1>7 DEF ClientType
  <2> QED
    BY <2>1, RangeFacts, HeadTailProperties
<1>9. client' = [client EXCEPT ![c] = t]
  BY <1>1
<1>10. /\ t \in ClientType
       /\ t.content = s.content /\ t.version = s.version /\ t.copy = s.copy
       /\ t.queue = s.queue /\ t.inflight = s.inflight /\ t.toServer = Tail(s.toServer)
  BY <1>7, <1>8 DEF ClientType
<1>11. Faithful(s, version', past')
  BY <1>1, <1>3, <1>7, StaysFaithful
<1> HIDE DEF t, s
<1>12. Faithful(t, version', past') /\ Own(c, t)
  <2>1. Faithful(t, version', past')
    BY <1>8, <1>10, <1>11 DEF Faithful
  <2>2. Own(c, t)
    BY <1>7, <1>8, <1>10 DEF Own
  <2> QED
    BY <2>1, <2>2
<1>13. client' \in [Clients -> ClientType] /\ client'[c] = t /\ \A d \in Clients : d # c => client'[d] = client[d]
  BY <1>2, <1>9, <1>10 DEF SessionTypeOK
<1>14. SessionTypeOK'
  BY <1>1, <1>2, <1>3, <1>6, <1>13 DEF SessionTypeOK
<1>15. Carried'
  <2>1. \A d \in Clients : \A k \in Range(thread'[d].out) :
          k \in Range(thread[d].out) \/ Right(d, k, version', log', past')
    BY <1>5, <1>6
  <2>2. \A d \in Clients : \A k \in Range(thread'[d].remote) :
          k \in Range(thread[d].remote) \/ Remote(d, k, version', log')
    BY <1>5, <1>6
  <2> QED
    BY <1>1, <1>2, <1>3, <2>1, <2>2, CarriedStays
<1>16. Copies'
  BY <1>1, <1>2, <1>3, <1>12, <1>13, CopiesStay
<1>17. Listed'
  <2>1. broadcast.by # c
    BY <1>1, <1>2 DEF Listed, Idle
  <2>2. \A d \in Clients : thread'[d].stage = thread[d].stage /\ (d # c => thread'[d].remote = thread[d].remote)
    BY <1>6
  <2> QED
    BY <1>1, <1>2, <2>1, <2>2 DEF Listed
<1> QED
  BY <1>1, <1>14, <1>15, <1>16, <1>17 DEF SessionInv

\* A broadcast takes the list without its author (broadcast_message).
LEMMA StartBroadcastKeeps ==
  ASSUME SessionInv, NEW c \in Clients, StartBroadcast(c)
  PROVE  SessionInv'
<1>1. PICK i \in DOMAIN members : members[i] = c /\ broadcast' = [by |-> c, to |-> RemoveAt(members, i)]
  BY DEF StartBroadcast
<1>2. /\ thread[c].remote # <<>>
      /\ UNCHANGED <<document, client, running, thread, toClient, members>>
  BY DEF StartBroadcast
<1>3. SessionTypeOK /\ ReplayInv' /\ Grows /\ version' \in Nat /\ TypeOK'
  BY <1>2, DocumentUntouched
<1>4. members \in Seq(Clients) /\ \A j, k \in DOMAIN members : members[j] = members[k] => j = k
  BY DEF SessionInv, SessionTypeOK, Listed
<1> DEFINE rest == RemoveAt(members, i)
<1>5. rest \in Seq(Clients) /\ Range(rest) = Range(members) \ {c}
  BY <1>1, <1>4, RemoveAtRange
<1> HIDE DEF rest
<1>6. broadcast'.by = c /\ broadcast'.to = rest /\ broadcast' \in [by : Clients \cup {NoClient}, to : Seq(Clients)]
  BY <1>1, <1>5 DEF rest
<1>7. SessionTypeOK'
  BY <1>2, <1>3, <1>6 DEF SessionTypeOK
<1>8. Carried'
  BY <1>2, <1>3, CarriedStays DEF SessionInv
<1>9. Copies'
  BY <1>2, <1>3, CopiesStay DEF SessionInv
<1>10. Listed'
  BY <1>2, <1>5, <1>6 DEF SessionInv, Listed
<1> QED
  BY <1>3, <1>7, <1>8, <1>9, <1>10 DEF SessionInv

\* What is broadcast is never sent to its author.
LEMMA BroadcastNextKeeps ==
  ASSUME SessionInv, NEW c \in Clients, BroadcastNext(c)
  PROVE  SessionInv'
<1> DEFINE m == thread[c].remote[1]
           e == Head(broadcast.to)
<1>1. /\ broadcast.by = c /\ broadcast.to # <<>>
      /\ Deliver(e, m)
      /\ broadcast' = [broadcast EXCEPT !.to = Tail(@)]
      /\ UNCHANGED <<document, client, running, thread, members>>
  BY DEF BroadcastNext
<1>2. /\ SessionTypeOK /\ ReplayInv' /\ Grows /\ version' \in Nat /\ TypeOK'
      /\ version' = version /\ log' = log /\ past' = past
  BY <1>1, DocumentUntouched
<1>3. /\ thread[c].remote \in Seq(ServerMessage) /\ thread[c].remote # <<>>
      /\ broadcast.to \in Seq(Clients) /\ toClient \in [Clients -> Seq(ServerMessage)]
      /\ broadcast.by \notin Range(broadcast.to)
  BY <1>1, <1>2 DEF SessionInv, SessionTypeOK, ThreadType, Listed
<1>4. m \in ServerMessage /\ m \in Range(thread[c].remote)
  BY <1>3, RangeFacts
<1>5. /\ e \in Clients /\ e \in Range(broadcast.to)
      /\ Tail(broadcast.to) \in Seq(Clients) /\ Range(Tail(broadcast.to)) \subseteq Range(broadcast.to)
  BY <1>1, <1>3, RangeFacts, HeadTailProperties
<1>6. Remote(c, m, version, log) /\ e # c
  BY <1>1, <1>3, <1>4, <1>5 DEF SessionInv, Carried
<1>7. Right(e, m, version, log, past)
  BY <1>6 DEF Right, Remote
<1> HIDE DEF m, e
<1>8. /\ toClient' \in [Clients -> Seq(ServerMessage)]
      /\ \A d \in Clients : \A k \in Range(toClient'[d]) : k \in Range(toClient[d]) \/ (d = e /\ k = m)
  BY <1>1, <1>3, <1>4, <1>5, DeliverEffect
<1>9. broadcast'.by = c /\ broadcast'.to = Tail(broadcast.to)
      /\ broadcast' \in [by : Clients \cup {NoClient}, to : Seq(Clients)]
  BY <1>1, <1>2, <1>5 DEF SessionTypeOK
<1>10. SessionTypeOK'
  BY <1>1, <1>2, <1>8, <1>9 DEF SessionTypeOK
<1>11. Carried'
  <2>1. \A d \in Clients : \A k \in Range(toClient'[d]) :
          k \in Range(toClient[d]) \/ Right(d, k, version', log', past')
    BY <1>2, <1>7, <1>8
  <2> QED
    BY <1>1, <1>2, <2>1, CarriedStays DEF SessionInv
<1>12. Copies'
  BY <1>1, <1>2, CopiesStay DEF SessionInv
<1>13. Listed'
  BY <1>1, <1>3, <1>5, <1>9 DEF SessionInv, Listed
<1> QED
  BY <1>2, <1>10, <1>11, <1>12, <1>13 DEF SessionInv

\* A broadcast reaches whoever is listed when it is made, but its author
\* (broadcast_message).
LEMMA EndBroadcastKeeps ==
  ASSUME SessionInv, NEW c \in Clients, EndBroadcast(c)
  PROVE  SessionInv'
<1>1. /\ broadcast = [by |-> c, to |-> <<>>]
      /\ broadcast' = [broadcast EXCEPT !.by = NoClient]
      /\ thread' = [thread EXCEPT ![c].remote = <<>>]
      /\ UNCHANGED <<document, client, running, toClient, members>>
  BY DEF EndBroadcast
<1>2. SessionTypeOK /\ ReplayInv' /\ Grows /\ version' \in Nat /\ TypeOK'
  BY <1>1, DocumentUntouched
<1>3. Range(<<>>) = {} /\ <<>> \in Seq(ServerMessage)
  BY EmptySeq DEF Range
<1>4. /\ thread' \in [Clients -> ThreadType]
      /\ \A d \in Clients : /\ thread'[d].stage = thread[d].stage /\ thread'[d].out = thread[d].out
                            /\ d = c => thread'[d].remote = <<>>
                            /\ d # c => thread'[d].remote = thread[d].remote
  BY <1>1, <1>2, <1>3 DEF SessionTypeOK, ThreadType
<1>5. broadcast'.by = NoClient /\ broadcast'.to = <<>> /\ broadcast' \in [by : Clients \cup {NoClient}, to : Seq(Clients)]
  <2>1. <<>> \in Seq(Clients)
    BY EmptySeq
  <2>2. broadcast' = [by |-> NoClient, to |-> <<>>]
    BY <1>1
  <2> QED
    BY ONLY <2>1, <2>2
<1>6. SessionTypeOK'
  BY <1>1, <1>2, <1>4, <1>5 DEF SessionTypeOK
<1>7. Carried'
  <2>1. \A d \in Clients : Range(thread'[d].remote) \subseteq Range(thread[d].remote)
    BY <1>3, <1>4
  <2> QED
    BY <1>1, <1>2, <1>4, <2>1, CarriedStays DEF SessionInv
<1>8. Copies'
  BY <1>1, <1>2, CopiesStay DEF SessionInv
<1>9. Listed'
  BY <1>1, <1>3, <1>4, <1>5, SessionAssumption DEF SessionInv, Listed
<1> QED
  BY <1>2, <1>6, <1>7, <1>8, <1>9 DEF SessionInv

\* A connection that ends is taken off the list (unregister_client).
LEMMA LeaveKeeps ==
  ASSUME SessionInv, NEW c \in Clients, Leave(c)
  PROVE  SessionInv'
<1>1. PICK i \in DOMAIN members : members[i] = c /\ members' = RemoveAt(members, i)
  BY DEF Leave
<1>2. /\ thread' = [thread EXCEPT ![c].stage = "gone"]
      /\ UNCHANGED <<document, client, running, toClient, broadcast>>
  BY DEF Leave
<1>3. SessionTypeOK /\ ReplayInv' /\ Grows /\ version' \in Nat /\ TypeOK'
  BY <1>2, DocumentUntouched
<1>4. members \in Seq(Clients) /\ \A j, k \in DOMAIN members : members[j] = members[k] => j = k
  BY DEF SessionInv, SessionTypeOK, Listed
<1>5. /\ members' \in Seq(Clients) /\ Range(members') = Range(members) \ {c}
      /\ \A j, k \in DOMAIN members' : members'[j] = members'[k] => j = k
  BY <1>1, <1>4, RemoveAtRange
<1>6. /\ thread' \in [Clients -> ThreadType]
      /\ \A d \in Clients : /\ thread'[d].out = thread[d].out /\ thread'[d].remote = thread[d].remote
                            /\ thread'[d].stage = IF d = c THEN "gone" ELSE thread[d].stage
  BY <1>2, <1>3 DEF SessionTypeOK, ThreadType
<1>7. SessionTypeOK'
  BY <1>2, <1>3, <1>5, <1>6 DEF SessionTypeOK
<1>8. Carried'
  BY <1>2, <1>3, <1>6, CarriedStays DEF SessionInv
<1>9. Copies'
  BY <1>2, <1>3, CopiesStay DEF SessionInv
<1>10. Listed'
  <2>1. \A d \in Clients : thread[d].stage \in {"registered", "serving"} <=> d \in Range(members)
    BY DEF SessionInv, Listed
  <2>2. \A d \in Clients : thread'[d].stage \in {"registered", "serving"} <=> d \in Range(members')
    BY <1>5, <1>6, <2>1
  <2> QED
    BY <1>2, <1>5, <1>6, <2>2 DEF SessionInv, Listed
<1> QED
  BY <1>3, <1>7, <1>8, <1>9, <1>10 DEF SessionInv

\* Every step of a client or of its thread keeps the session's invariant.
LEMMA SessionStep ==
  ASSUME SessionInv, [SessionNext]_sessionVars
  PROVE  SessionInv'
<1>1. CASE SessionNext
  <2>1. PICK c \in Clients : Type(c) \/ Handle(c) \/ Quit(c) \/ ServerStep(c)
    BY <1>1 DEF SessionNext
  <2>2. CASE Type(c)
    BY <2>2, TypeKeeps
  <2>3. CASE Handle(c)
    BY <2>3, HandleStepKeeps
  <2>4. CASE Quit(c)
    BY <2>4, QuitKeeps
  <2>5. CASE Register(c)
    BY <2>5, RegisterKeeps
  <2>6. CASE TakeSnapshot(c)
    BY <2>6, TakeSnapshotKeeps
  <2>7. CASE Receive(c)
    BY <2>7, ReceiveKeeps
  <2>8. CASE Answer(c)
    BY <2>8, AnswerKeeps
  <2>9. CASE StartBroadcast(c)
    BY <2>9, StartBroadcastKeeps
  <2>10. CASE BroadcastNext(c)
    BY <2>10, BroadcastNextKeeps
  <2>11. CASE EndBroadcast(c)
    BY <2>11, EndBroadcastKeeps
  <2>12. CASE Leave(c)
    BY <2>12, LeaveKeeps
  <2> QED
    BY <2>1, <2>2, <2>3, <2>4, <2>5, <2>6, <2>7, <2>8, <2>9, <2>10, <2>11, <2>12 DEF ServerStep
<1>2. CASE UNCHANGED sessionVars
  <2>1. UNCHANGED document /\ UNCHANGED <<client, running, thread, toClient, members, broadcast>>
    BY <1>2 DEF sessionVars
  <2>2. ReplayInv' /\ Grows /\ TypeOK' /\ version' \in Nat
    BY <2>1, DocumentUntouched DEF TypeOK
  <2>3. SessionTypeOK'
    BY <2>1, <2>2 DEF SessionInv, SessionTypeOK
  <2>4. Carried'
    BY <2>1, <2>2, CarriedStays DEF SessionInv
  <2>5. Copies'
    BY <2>1, <2>2, CopiesStay DEF SessionInv
  <2>6. Listed'
    BY <2>1 DEF SessionInv, Listed
  <2> QED
    BY <2>2, <2>3, <2>4, <2>5, <2>6 DEF SessionInv
<1> QED
  BY <1>1, <1>2

-----------------------------------------------------------------------------
(* Theorems *)

\* Whatever the threads and the clients do in whatever order, every message in
\* a stream says what the document did, no client is ahead of the server, and
\* one that skipped no version shows the text of its version.
THEOREM SessionInvariant == SessionSpec => []SessionInv
<1>1. SessionInit => SessionInv
  BY SessionInitInv
<1>2. SessionInv /\ [SessionNext]_sessionVars => SessionInv'
  BY SessionStep
<1> QED
  BY <1>1, <1>2, PTL DEF SessionSpec

\* For any number of clients, threads and messages hold what their records in
\* server.c and client_state.h hold.
THEOREM SessionTypeCorrect == SessionSpec => []SessionTypeOK
<1>1. SessionInv => SessionTypeOK
  BY DEF SessionInv
<1> QED
  BY <1>1, SessionInvariant, PTL

===============================================================================
