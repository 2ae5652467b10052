------------------------------- MODULE Session -------------------------------
(***************************************************************************)
(* An editing session (server.c, client_state.c, client.c): the server     *)
(* keeps one thread per connection, which carries a client's operations    *)
(* into the document, answers it and broadcasts to the others.             *)
(*                                                                         *)
(* The document is locked for one operation only.  The answer and the      *)
(* broadcast are sent after it is unlocked, in steps other threads         *)
(* interleave with, so what reaches a client is ordered per thread and not *)
(* by version.  clients_lock is held for a whole broadcast.                *)
(*                                                                         *)
(* A connection is a reliable stream in each direction; the client's       *)
(* reader thread and its incoming queue prolong the one to the client.     *)
(* JOIN is the first message of every stream, WELCOME the first answer:    *)
(* both are left out, and a client's id stands for the id it is given.     *)
(***************************************************************************)
EXTENDS Document, ClientState, FiniteSets

\* An operation's op_id is its client and a number; OpIds bounds what is typed,
\* and Positions where.
CONSTANTS Clients,
          NoClient,
          MayQuit,  \* the clients whose user may leave
          Present   \* the clients that joined before the first edit

ASSUME SessionAssumption ==
  /\ OpIds \subseteq Clients \X (Nat \ {0})
  /\ MayQuit \subseteq Clients
  /\ Present \subseteq Clients /\ IsFiniteSet(Present)
  /\ NoClient \notin Clients

VARIABLES client,    \* the clients, as ClientState describes them
          running,   \* the clients whose user has not left
          thread,    \* the server's thread of each connection
          toClient,  \* toClient[c]: sent to c, not yet handled
          members,   \* the list of registered clients, newest first
          broadcast  \* clients_lock's holder and whom it has yet to send to

document == vars  \* the variables of Document
sessionVars == <<document, client, running, thread, toClient, members, broadcast>>

\* A thread holds the answers it has yet to send to its own client and the
\* operation it has yet to broadcast.
Idle(stage) == [stage |-> stage, out |-> <<>>, remote |-> <<>>]

SessionInit ==
  /\ Init
  /\ client = [c \in Clients |->
       IF c \in Present THEN [NewClient EXCEPT !.content = InitialText, !.copy = "loaded"]
                        ELSE NewClient]
  /\ running = Clients
  /\ thread = [c \in Clients |-> Idle(IF c \in Present THEN "serving" ELSE "accepted")]
  /\ toClient = [c \in Clients |-> <<>>]
  /\ members = SetToSeq(Present)
  /\ broadcast = [by |-> NoClient, to |-> <<>>]

-----------------------------------------------------------------------------
(* The client's UI thread *)

\* A key: a character at the cursor or a deletion before it.
Type(c) ==
  LET s == client[c]
      id == <<c, s.nextOp>>
  IN  /\ c \in running
      /\ id \in OpIds
      /\ \E op \in {InsertOp(p, id) : p \in (0 .. Reach(s)) \cap Positions}
                  \cup {DeleteOp(p) : p \in (0 .. Reach(s) - 1) \cap Positions} :
           client' = [client EXCEPT ![c] = QueueOperation(s, id, op)]
      /\ UNCHANGED <<document, running, thread, toClient, members, broadcast>>

Handle(c) ==
  /\ c \in running
  /\ toClient[c] # <<>>
  /\ client' = [client EXCEPT ![c] = HandleMessage(@, Head(toClient[c]))]
  /\ toClient' = [toClient EXCEPT ![c] = Tail(@)]
  /\ UNCHANGED <<document, running, thread, members, broadcast>>

\* Closing the socket may reset the connection: the server then misses the
\* end of what the client sent.
Quit(c) ==
  /\ c \in running \cap MayQuit
  /\ running' = running \ {c}
  /\ \E n \in 0 .. Len(client[c].toServer) :
       client' = [client EXCEPT ![c].toServer = SubSeq(@, 1, n)]
  /\ toClient' = [toClient EXCEPT ![c] = <<>>]
  /\ UNCHANGED <<document, thread, members, broadcast>>

-----------------------------------------------------------------------------
(* The server's thread of connection c *)

LockFree == broadcast.by = NoClient

Deliver(c, message) ==
  toClient' = IF c \in running THEN [toClient EXCEPT ![c] = Append(@, message)] ELSE toClient

\* choose_client_id and register_client: from here on c gets broadcasts.
Register(c) ==
  /\ thread[c].stage = "accepted"
  /\ LockFree
  /\ members' = <<c>> \o members
  /\ thread' = [thread EXCEPT ![c].stage = "registered"]
  /\ UNCHANGED <<document, client, running, toClient, broadcast>>

\* The first document: the snapshot is taken here and sent in a later step.
TakeSnapshot(c) ==
  /\ thread[c].stage = "registered"
  /\ thread' = [thread EXCEPT ![c].stage = "serving", ![c].out = <<DocState(text, version)>>]
  /\ UNCHANGED <<document, client, running, toClient, members, broadcast>>

ReadyToReceive(c) == thread[c] = Idle("serving") /\ client[c].toServer # <<>>

\* Slip: the operation is answered and broadcast as its author sent it.
AcceptUntransformed(c, message) ==
  /\ Accept(message.id, message.base, message.op)
  /\ thread' = [thread EXCEPT ![c].out = <<Ack(message.id, version', message.op)>>,
                              ![c].remote = <<RemoteOp(version', message.op)>>]

\* The document takes the operation: ACK for its author, and what was applied
\* for everyone else.
AcceptOp(c, message) ==
  /\ Accept(message.id, message.base, message.op)
  /\ LET done == log'[version'].op
     IN  thread' = [thread EXCEPT ![c].out = <<Ack(message.id, version', done)>>,
                                  ![c].remote = <<RemoteOp(version', done)>>]

RefuseOp(c, message) ==
  /\ Refuse(message.id, message.base)
  /\ thread' = [thread EXCEPT ![c].out = <<ResyncRequired(message.id), DocState(text, version)>>]

SendDocument(c) ==
  /\ thread' = [thread EXCEPT ![c].out = <<DocState(text, version)>>]
  /\ UNCHANGED document

\* Reads a message and does what it asks of the document.
Receive(c) ==
  LET message == Head(client[c].toServer)
  IN  /\ ReadyToReceive(c)
      /\ client' = [client EXCEPT ![c].toServer = Tail(@)]
      /\ \/ message.type = "OP" /\ AcceptOp(c, message)
         \/ message.type = "OP" /\ RefuseOp(c, message)
         \/ message.type = "REQUEST_DOC" /\ SendDocument(c)
      /\ UNCHANGED <<running, toClient, members, broadcast>>

\* Sends the next answer to the thread's own client.
Answer(c) ==
  /\ thread[c].out # <<>>
  /\ Deliver(c, Head(thread[c].out))
  /\ thread' = [thread EXCEPT ![c].out = Tail(@)]
  /\ UNCHANGED <<document, client, running, members, broadcast>>

\* Takes clients_lock: until it is released the list cannot change.
StartBroadcast(c) ==
  /\ thread[c].out = <<>>
  /\ thread[c].remote # <<>>
  /\ LockFree
  /\ \E i \in DOMAIN members :
       /\ members[i] = c
       /\ broadcast' = [by |-> c, to |-> RemoveAt(members, i)]
  /\ UNCHANGED <<document, client, running, thread, toClient, members>>

BroadcastNext(c) ==
  /\ broadcast.by = c
  /\ broadcast.to # <<>>
  /\ Deliver(Head(broadcast.to), thread[c].remote[1])
  /\ broadcast' = [broadcast EXCEPT !.to = Tail(@)]
  /\ UNCHANGED <<document, client, running, thread, members>>

\* Slip: the lock is kept.
EndLocked(c) ==
  /\ broadcast = [by |-> c, to |-> <<>>]
  /\ thread[c].remote # <<>>
  /\ thread' = [thread EXCEPT ![c].remote = <<>>]
  /\ UNCHANGED <<document, client, running, toClient, members, broadcast>>

EndBroadcast(c) ==
  /\ broadcast = [by |-> c, to |-> <<>>]
  /\ broadcast' = [broadcast EXCEPT !.by = NoClient]
  /\ thread' = [thread EXCEPT ![c].remote = <<>>]
  /\ UNCHANGED <<document, client, running, toClient, members>>

\* The connection is closed and read to its end.
Leave(c) ==
  /\ c \notin running
  /\ thread[c] = Idle("serving")
  /\ client[c].toServer = <<>>
  /\ LockFree
  /\ \E i \in DOMAIN members : members[i] = c /\ members' = RemoveAt(members, i)
  /\ thread' = [thread EXCEPT ![c].stage = "gone"]
  /\ UNCHANGED <<document, client, running, toClient, broadcast>>

ServerStep(c) ==
  \/ Register(c) \/ TakeSnapshot(c) \/ Receive(c) \/ Answer(c)
  \/ StartBroadcast(c) \/ BroadcastNext(c) \/ EndBroadcast(c) \/ Leave(c)

SessionNext == \E c \in Clients : Type(c) \/ Handle(c) \/ Quit(c) \/ ServerStep(c)

SessionSpec == SessionInit /\ [][SessionNext]_sessionVars

\* Every thread goes on as long as it has something to do, and a client that
\* runs handles what it gets.  Nobody has to type or to leave.
Fairness == \A c \in Clients : WF_sessionVars(Handle(c)) /\ WF_sessionVars(ServerStep(c))

FairSpec == SessionSpec /\ Fairness

-----------------------------------------------------------------------------
(* Properties *)

ServerMessage ==
  [type : {"DOC_STATE"}, text : Seq(Char), version : Nat]
    \cup [type : {"ACK"}, id : OpIds, version : Nat, op : Operation(Char)]
    \cup [type : {"REMOTE_OP"}, version : Nat, op : Operation(Char)]
    \cup [type : {"RESYNC_REQUIRED"}, id : OpIds]

ClientMessage ==
  [type : {"OP"}, id : OpIds, op : Operation(Char), base : Nat] \cup {RequestDoc}

Item == [id : OpIds, op : Operation(Char)]

ClientType ==
  [content : Seq(Char), version : Nat, queue : Seq(Item), inflight : Seq(Item),
   nextOp : Nat \ {0}, toServer : Seq(ClientMessage),
   copy : {"none", "loaded", "skipped"}]

ThreadType ==
  [stage : {"accepted", "registered", "serving", "gone"},
   out : Seq(ServerMessage), remote : Seq(ServerMessage)]

SessionTypeOK ==
  /\ TypeOK
  /\ client \in [Clients -> ClientType]
  /\ running \subseteq Clients
  /\ thread \in [Clients -> ThreadType]
  /\ toClient \in [Clients -> Seq(ServerMessage)]
  /\ members \in Seq(Clients)
  /\ broadcast \in [by : Clients \cup {NoClient}, to : Seq(Clients)]

\* What was sent to c or is about to be.
Incoming(c) == toClient[c] \o thread[c].out
Has(messages, Test(_)) == \E i \in DOMAIN messages : Test(messages[i])

FirstDocumentOnItsWay(c) ==
  \/ thread[c].stage \in {"accepted", "registered"}
  \/ Has(Incoming(c), LAMBDA m : m.type = "DOC_STATE")

\* A client that has had a document shows the server's text of its version,
\* unless it has applied an ACK that skipped a version since its last document
\* (handle_ack applies whatever the version): a remote operation never makes
\* the copies differ.  A client that has had none may show anything, as a
\* broadcast can overtake its first document (register_client comes before the
\* snapshot), but that document is on its way.
OnlyASkippedVersionDiverges ==
  \A c \in running :
    /\ client[c].copy = "loaded" => client[c].content = past[client[c].version + 1]
    /\ client[c].copy = "none" => FirstDocumentOnItsWay(c)

\* Nobody waits for nothing: an operation in flight is still on its way to the
\* server, or its ACK or refusal is on its way back; and what is queued with
\* nothing in flight waits for a document that is coming (state_pump runs
\* only from set_document, handle_ack and queue_operation).
AnswerOnItsWay ==
  \A c \in running :
    LET s == client[c]
    IN  /\ s.inflight # <<>> =>
             LET id == s.inflight[1].id
             IN  \/ Has(s.toServer, LAMBDA m : m.type = "OP" /\ m.id = id)
                 \/ Has(Incoming(c), LAMBDA m : m.type \in {"ACK", "RESYNC_REQUIRED"} /\ m.id = id)
        /\ s.inflight = <<>> /\ s.queue # <<>> =>
             \/ Has(s.toServer, LAMBDA m : m.type = "REQUEST_DOC")
             \/ Has(Incoming(c), LAMBDA m : m.type = "DOC_STATE")

\* The operations that were accepted, or are on the wire or in c's queue.
NoOp == <<NoClient, 0>>
IdIn(message) == IF message.type = "OP" THEN message.id ELSE NoOp

OnTheirWay(c) ==
  [i \in DOMAIN log |-> log[i].id]
    \o [i \in DOMAIN client[c].toServer |-> IdIn(client[c].toServer[i])]
    \o [i \in DOMAIN client[c].queue |-> client[c].queue[i].id]

\* Each typed operation is in exactly one place, and they are there in the
\* order they were typed: accepted by the server, refused by it, on the wire
\* or in the queue.  No resynchronisation sends one twice or drops one that
\* was not sent (pop_queue, set_document).
KeystrokesAccounted ==
  \A c \in running :
    LET ids == OnTheirWay(c)
        typed == {i \in DOMAIN ids : ids[i][1] = c}
        dropped == {id \in refused : id[1] = c}
    IN  /\ \A i, j \in typed : i < j => ids[i][2] < ids[j][2]
        /\ \A i \in typed : ids[i] \notin dropped
        /\ 1 .. client[c].nextOp - 1 = {ids[i][2] : i \in typed} \cup {id[2] : id \in dropped}

\* Only a document makes a client go back to an older version: an ACK is
\* applied whatever its version, yet it always brings a newer one.
OnlyADocumentRewinds ==
  [][\A c \in running :
       client'[c].version < client[c].version => Head(toClient[c]).type = "DOC_STATE"]_sessionVars

\* The session implements the document's specification: a client never sends
\* an operation twice, whatever it resynchronises.
ImplementsDocument == Spec

\* Everything typed is eventually sent and answered.
EverythingTypedIsAnswered ==
  \A c \in Clients : <>[](c \in running => client[c].queue = <<>> /\ client[c].inflight = <<>>)

-----------------------------------------------------------------------------
(* What the source says of a session *)

Quiet ==
  /\ broadcast.by = NoClient
  /\ \A c \in Clients :
       /\ thread[c] = Idle("serving") \/ thread[c].stage = "gone"
       /\ c \in running => toClient[c] = <<>> /\ client[c].toServer = <<>>

\* Once nothing is left to send, every client shows the server's text.
Converged == Quiet => \A c \in running : client[c].content = text

\* All clients see the same sequence of operations (document.c:265): a client
\* that has its document shows the server's text of the version it is at.
SameGlobalSequence ==
  \A c \in running : client[c].version > 0 => client[c].content = past[client[c].version + 1]

\* Consecutive keystrokes keep their order (client_state.c:92): a character
\* typed right after another stays on its right.
KeystrokesKeepTheirOrder ==
  \A i, j \in DOMAIN log :
    /\ log[i].id[1] = log[j].id[1]
    /\ log[j].id[2] = log[i].id[2] + 1
    /\ log[i].original.kind = "insert"
    /\ log[j].original = InsertOp(log[i].original.pos + 1, log[j].id)
    => \A p, q \in DOMAIN text : text[p] = log[i].id /\ text[q] = log[j].id => p < q
===============================================================================
