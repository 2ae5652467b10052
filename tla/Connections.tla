----------------------------- MODULE Connections -----------------------------
(***************************************************************************)
(* The server's list of connections (server.c): how a connection gets an   *)
(* id, is entered in the list and taken out of it, and who waits for whom  *)
(* when sockets are full.                                                  *)
(*                                                                         *)
(* Choosing an id and entering the list are two critical sections of       *)
(* clients_lock, and a connection is excluded from broadcasts and removed  *)
(* by its id.  A broadcast holds clients_lock while it writes, and a write *)
(* to a full socket blocks.  On the other side a client's UI thread sends  *)
(* and its reader thread empties the socket (client.c).                    *)
(*                                                                         *)
(* What messages say is left out: Session follows it, on the assumptions   *)
(* examined here.  The id "u<n>" is the number n; a client asks for "u1"   *)
(* unless its user chose another.                                          *)
(***************************************************************************)
EXTENDS Integers, Sequences, SequencesExt, FiniteSets

CONSTANTS Conns,        \* connections, each with its client
          NoConn,
          Requested,    \* the id the client asks for, 0 for none
          Strangers,    \* clients that may begin with something else than JOIN
          Requests,     \* Requests[k] bounds what the user of k asks of the server
          MayLeave,     \* the clients that may leave
          Capacity,     \* messages a socket holds before a write blocks
          MayOutgrow    \* the document may grow over the longest line a client reads

ASSUME ConnectionsAssumption ==
  /\ IsFiniteSet(Conns)
  /\ NoConn \notin Conns
  /\ Requested \in [Conns -> Nat]
  /\ Strangers \subseteq Conns
  /\ Requests \in [Conns -> Nat]
  /\ MayLeave \subseteq Conns
  /\ Capacity \in Nat \ {0}
  /\ MayOutgrow \in BOOLEAN

VARIABLES thread,      \* the server's thread of each connection
          list,        \* the registered connections, newest first
          nextNumber,  \* next_client_number
          broadcast,   \* clients_lock's holder and whom it has yet to send to
          alive,       \* the server runs
          toServer, toClient,  \* what is in the sockets, by type of message
          sending,     \* what the client's UI thread is sending
          asked,       \* how many requests each user has made
          open,        \* the clients that run
          reading,     \* the clients whose reader thread runs
          twins,       \* history: the ids two connections had at the same time
          corrupt      \* history: a connection was taken out through a freed one

server == <<thread, list, nextNumber, broadcast, alive, twins, corrupt>>
clients == <<sending, asked, open, reading>>
vars == <<server, clients, toServer, toClient>>

Init ==
  /\ thread = [k \in Conns |-> [stage |-> "none", id |-> 0, out |-> <<>>, remote |-> FALSE]]
  /\ list = <<>>
  /\ nextNumber = 1
  /\ broadcast = [by |-> NoConn, to |-> <<>>]
  /\ alive = TRUE
  /\ toServer = [k \in Conns |-> <<>>]
  /\ toClient = [k \in Conns |-> <<>>]
  /\ sending = [k \in Conns |-> <<>>]
  /\ asked = [k \in Conns |-> 0]
  /\ open = {}
  /\ reading = {}
  /\ twins = {}
  /\ corrupt = FALSE

-----------------------------------------------------------------------------
(* The clients *)

\* The client connects, sends its first message and starts its reader; the
\* main thread accepts and starts a thread for it.
Connect(k) ==
  /\ thread[k].stage = "none"
  /\ thread' = [thread EXCEPT ![k].stage = "accepted"]
  /\ \E first \in {"JOIN"} \cup (IF k \in Strangers THEN {"REQUEST"} ELSE {}) :
       sending' = [sending EXCEPT ![k] = <<first>>]
  /\ open' = open \cup {k}
  /\ reading' = reading \cup {k}
  /\ UNCHANGED <<list, nextNumber, broadcast, alive, twins, corrupt, asked, toServer, toClient>>

\* A key: an edit, a save, or another request.
Ask(k) ==
  /\ k \in open
  /\ sending[k] = <<>>
  /\ asked[k] < Requests[k]
  /\ sending' = [sending EXCEPT ![k] = <<"REQUEST">>]
  /\ asked' = [asked EXCEPT ![k] = @ + 1]
  /\ UNCHANGED <<server, open, reading, toServer, toClient>>

\* The UI thread's write, which blocks as long as the socket is full, and
\* fails when the server has closed it.
Push(k) ==
  /\ k \in open
  /\ sending[k] # <<>>
  /\ \/ /\ thread[k].stage = "gone"
        /\ UNCHANGED toServer
     \/ /\ thread[k].stage # "gone"
        /\ Len(toServer[k]) < Capacity
        /\ toServer' = [toServer EXCEPT ![k] = @ \o sending[k]]
  /\ sending' = [sending EXCEPT ![k] = <<>>]
  /\ UNCHANGED <<server, asked, open, reading, toClient>>

\* Slip: the UI thread reads, in between its sends.
ReadBetweenSends(k) ==
  /\ k \in reading
  /\ sending[k] = <<>>
  /\ toClient[k] # <<>>
  /\ reading' = IF Head(toClient[k]) = "LONG" THEN reading \ {k} ELSE reading
  /\ toClient' = [toClient EXCEPT ![k] = Tail(@)]
  /\ UNCHANGED <<server, sending, asked, open, toServer>>

\* The reader thread takes a message off the socket, into a queue without a
\* bound.  A line it cannot take ends it, and the client runs on without it.
Read(k) ==
  /\ k \in reading
  /\ toClient[k] # <<>>
  /\ reading' = IF Head(toClient[k]) = "LONG" THEN reading \ {k} ELSE reading
  /\ toClient' = [toClient EXCEPT ![k] = Tail(@)]
  /\ UNCHANGED <<server, sending, asked, open, toServer>>

\* The user leaves or the process is killed; what was sent stays in the socket.
Close(k) ==
  /\ k \in open \cap MayLeave
  /\ open' = open \ {k}
  /\ reading' = reading \ {k}
  /\ sending' = [sending EXCEPT ![k] = <<>>]
  /\ toClient' = [toClient EXCEPT ![k] = <<>>]
  /\ UNCHANGED <<server, asked, toServer>>

-----------------------------------------------------------------------------
(* The server's thread of connection k *)

LockFree == broadcast.by = NoConn
Idle(k) == thread[k].out = <<>> /\ ~ thread[k].remote
AtEnd(k) == k \notin open /\ toServer[k] = <<>>

\* Slip: the write does not block.
CanSendAtOnce(k) == Len(toClient[k]) <= Capacity

\* A write to k's client: it blocks while the socket is full, and is lost when
\* the client has closed its end.
CanSend(k) == k \notin open \/ Len(toClient[k]) < Capacity
Deliver(k, type) ==
  toClient' = IF k \in open THEN [toClient EXCEPT ![k] = Append(@, type)] ELSE toClient

Listed == {list[i] : i \in DOMAIN list}
IdExists(id) == \E k \in Listed : thread[k].id = id

\* A connection that ended may still be in the list: the search for an id that
\* reads it, before it has found the id, reads freed memory.
Freed(k) == thread[k].stage = "gone"
ReadsFreed(id) ==
  \E i \in DOMAIN list : /\ Freed(list[i])
                         /\ \A j \in 1 .. i - 1 : thread[list[j]].id # id

\* DOC_STATE, which may have become too long for the client to read.
Documents == {"DOC_STATE"} \cup (IF MayOutgrow THEN {"LONG"} ELSE {})

\* The first message must be JOIN; anything else, or none, is answered with an
\* ERROR and the connection is closed.
First(k) ==
  /\ thread[k].stage = "accepted"
  /\ IF toServer[k] # <<>> /\ Head(toServer[k]) = "JOIN"
     THEN thread' = [thread EXCEPT ![k].stage = "joining"]
     ELSE /\ toServer[k] # <<>> \/ AtEnd(k)
          /\ thread' = [thread EXCEPT ![k].stage = "rejected", ![k].out = <<"ERROR">>]
  /\ toServer' = [toServer EXCEPT ![k] = IF @ = <<>> THEN @ ELSE Tail(@)]
  /\ UNCHANGED <<list, nextNumber, broadcast, alive, twins, corrupt, clients, toClient>>

\* Whoever has got an id and not yet lost its place.
Holders(id) == {k \in Conns : thread[k].stage \in {"chosen", "serving"} /\ thread[k].id = id}

\* k is told its id, and number is the next that may be given.
Told(k, id, number) ==
  /\ thread' = [thread EXCEPT ![k].stage = "chosen", ![k].id = id]
  /\ twins' = IF Holders(id) = {} THEN twins ELSE twins \cup {id}
  /\ nextNumber' = number

\* The search for an id that nobody has goes through the whole list.
Choosing(k) ==
  /\ thread[k].stage = "joining"
  /\ LockFree
  /\ UNCHANGED <<list, broadcast, corrupt, clients, toServer, toClient>>

\* Slip: the number stays where it is, and is given whether it is taken or not.
ChooseIdRecycling(k) ==
  /\ Choosing(k)
  /\ \A j \in Listed : ~ Freed(j)
  /\ LET wanted == Requested[k]
         id == IF wanted # 0 /\ ~ IdExists(wanted) THEN wanted ELSE nextNumber
     IN  Told(k, id, nextNumber)
  /\ UNCHANGED alive

\* choose_client_id: the requested id unless it is in the list, else the next
\* number that is not.
ChooseId(k) ==
  /\ Choosing(k)
  /\ \A j \in Listed : ~ Freed(j)
  /\ LET wanted == Requested[k]
         free == CHOOSE n \in nextNumber .. nextNumber + Cardinality(Conns) :
                   ~ IdExists(n) /\ \A m \in nextNumber .. n - 1 : IdExists(m)
     IN  IF wanted # 0 /\ ~ IdExists(wanted)
         THEN Told(k, wanted, nextNumber)
         ELSE Told(k, free, free + 1)
  /\ UNCHANGED alive

\* The list has a freed connection.  The search, from there on, may find the id
\* or not, go on or end, or the process may die.
ChooseIdReadingFreed(k) ==
  /\ Choosing(k)
  /\ \E j \in Listed : Freed(j)
  /\ \/ Requested[k] # 0 /\ Told(k, Requested[k], nextNumber)
     \/ \E n \in nextNumber .. nextNumber + Cardinality(Conns) : Told(k, n, n + 1)
  /\ alive' \in BOOLEAN

\* register_client; WELCOME and the first document follow.
Register(k) ==
  /\ thread[k].stage = "chosen"
  /\ LockFree
  /\ list' = <<k>> \o list
  /\ \E document \in Documents :
       thread' = [thread EXCEPT ![k].stage = "serving", ![k].out = <<"WELCOME", document>>]
  /\ UNCHANGED <<nextNumber, broadcast, alive, twins, corrupt, clients, toServer, toClient>>

\* Takes a request: an edit that is accepted, and will be broadcast; one that
\* is refused; or anything else, which is answered to its sender alone.
Receive(k) ==
  /\ thread[k].stage = "serving"
  /\ Idle(k)
  /\ toServer[k] # <<>>
  /\ \/ thread' = [thread EXCEPT ![k].out = <<"ACK">>, ![k].remote = TRUE]
     \/ \E document \in Documents :
          thread' = [thread EXCEPT ![k].out = <<"RESYNC_REQUIRED", document>>]
     \/ thread' = [thread EXCEPT ![k].out = <<"SAVE_QUEUED">>]
  /\ toServer' = [toServer EXCEPT ![k] = Tail(@)]
  /\ UNCHANGED <<list, nextNumber, broadcast, alive, twins, corrupt, clients, toClient>>

Answer(k) ==
  /\ thread[k].out # <<>>
  /\ CanSend(k)
  /\ Deliver(k, Head(thread[k].out))
  /\ thread' = [thread EXCEPT ![k].out = Tail(@)]
  /\ UNCHANGED <<list, nextNumber, broadcast, alive, twins, corrupt, clients, toServer>>

\* broadcast_message: clients_lock is held until the end of the list; who has
\* the author's id is passed over, everyone else is sent the message.
StartBroadcast(k) ==
  /\ thread[k].out = <<>>
  /\ thread[k].remote
  /\ LockFree
  /\ broadcast' = [by |-> k, to |-> list]
  /\ UNCHANGED <<thread, list, nextNumber, alive, twins, corrupt, clients, toServer, toClient>>

BroadcastNext(k) ==
  /\ broadcast.by = k
  /\ broadcast.to # <<>>
  /\ LET next == Head(broadcast.to)
     IN  /\ thread[next].stage # "gone"
         /\ IF thread[next].id = thread[k].id THEN UNCHANGED toClient
            ELSE CanSend(next) /\ Deliver(next, "REMOTE_OP")
  /\ broadcast' = [broadcast EXCEPT !.to = Tail(@)]
  /\ UNCHANGED <<thread, list, nextNumber, alive, twins, corrupt, clients, toServer>>

\* The list still has a connection that was freed.  What comes next is not
\* defined: the process may die, or the write fail on a closed descriptor.
BroadcastToFreed(k) ==
  /\ broadcast.by = k
  /\ broadcast.to # <<>>
  /\ thread[Head(broadcast.to)].stage = "gone"
  /\ alive' \in BOOLEAN
  /\ broadcast' = [broadcast EXCEPT !.to = Tail(@)]
  /\ UNCHANGED <<thread, list, nextNumber, twins, corrupt, clients, toServer, toClient>>

EndBroadcast(k) ==
  /\ broadcast = [by |-> k, to |-> <<>>]
  /\ broadcast' = [broadcast EXCEPT !.by = NoConn]
  /\ thread' = [thread EXCEPT ![k].remote = FALSE]
  /\ UNCHANGED <<list, nextNumber, alive, twins, corrupt, clients, toServer, toClient>>

\* Where the list has its newest connection of an id.
FirstOf(id) == CHOOSE i \in DOMAIN list :
  thread[list[i]].id = id /\ \A j \in DOMAIN list : thread[list[j]].id = id => i <= j

\* Slip: the loop stops before the last connection of the list.
UnregisterAllButLast(k) ==
  list' = IF \E i \in 1 .. Len(list) - 1 : thread[list[i]].id = thread[k].id
          THEN RemoveAt(list, FirstOf(thread[k].id)) ELSE list

\* unregister_client takes out the first connection that has the id.
Unregister(k) ==
  list' = IF IdExists(thread[k].id) THEN RemoveAt(list, FirstOf(thread[k].id)) ELSE list

\* The end of the stream.
Leaving(k) ==
  /\ thread[k].stage = "serving"
  /\ Idle(k)
  /\ AtEnd(k)
  /\ LockFree
  /\ thread' = [thread EXCEPT ![k].stage = "gone"]
  /\ UNCHANGED <<nextNumber, broadcast, twins, clients, toServer, toClient>>

\* The connection is taken out of the list and freed.
Leave(k) ==
  /\ Leaving(k)
  /\ ~ ReadsFreed(thread[k].id)
  /\ Unregister(k)
  /\ UNCHANGED <<alive, corrupt>>

\* The search comes upon a freed connection.  What it takes for the one that
\* leaves may be any, or none, or the process may die.
LeaveReadingFreed(k) ==
  /\ Leaving(k)
  /\ ReadsFreed(thread[k].id)
  /\ \/ list' = list
     \/ \E i \in DOMAIN list : list' = RemoveAt(list, i)
  /\ alive' \in BOOLEAN
  /\ corrupt' = TRUE

Reject(k) ==
  /\ thread[k].stage = "rejected"
  /\ Idle(k)
  /\ thread' = [thread EXCEPT ![k].stage = "gone"]
  /\ UNCHANGED <<list, nextNumber, broadcast, alive, twins, corrupt, clients, toServer, toClient>>

ServerStep(k) ==
  /\ alive
  /\ \/ First(k) \/ ChooseId(k) \/ ChooseIdReadingFreed(k) \/ Register(k) \/ Receive(k) \/ Answer(k)
     \/ StartBroadcast(k) \/ BroadcastNext(k) \/ BroadcastToFreed(k) \/ EndBroadcast(k)
     \/ Leave(k) \/ LeaveReadingFreed(k) \/ Reject(k)

Next ==
  \E k \in Conns :
    \/ alive /\ (Connect(k) \/ Ask(k) \/ Push(k) \/ Read(k) \/ Close(k))
    \/ ServerStep(k)

Spec == Init /\ [][Next]_vars

\* Threads run, and the reader of a client that runs reads.  Nobody has to
\* connect, to ask or to leave.
Fairness == \A k \in Conns : WF_vars(ServerStep(k)) /\ WF_vars(alive /\ Push(k)) /\ WF_vars(alive /\ Read(k))

FairSpec == Spec /\ Fairness

-----------------------------------------------------------------------------
(* Properties *)

Stages == {"none", "accepted", "joining", "chosen", "serving", "rejected", "gone"}
Messages == {"WELCOME", "DOC_STATE", "LONG", "ACK", "RESYNC_REQUIRED", "REMOTE_OP", "SAVE_QUEUED", "ERROR"}

TypeOK ==
  /\ thread \in [Conns -> [stage : Stages, id : Nat, out : Seq(Messages), remote : BOOLEAN]]
  /\ list \in Seq(Conns)
  /\ nextNumber \in Nat \ {0}
  /\ broadcast \in [by : Conns \cup {NoConn}, to : Seq(Conns)]
  /\ alive \in BOOLEAN
  /\ toServer \in [Conns -> Seq({"JOIN", "REQUEST"})]
  /\ toClient \in [Conns -> Seq(Messages)]
  /\ \A k \in Conns : Len(toServer[k]) <= Capacity /\ Len(toClient[k]) <= Capacity
  /\ sending \in [Conns -> Seq({"JOIN", "REQUEST"})]
  /\ \A k \in Conns : asked[k] \in 0 .. Requests[k]
  /\ reading \subseteq open /\ open \subseteq Conns
  /\ twins \subseteq Nat
  /\ corrupt \in BOOLEAN

\* As long as an id was never held by two connections at once, the list has
\* exactly the connections of that id that are registered and not yet freed,
\* each once (register_client, unregister_client).  Nothing is said once a
\* connection that left under a shared id read a freed one in the list.
ListIsExact == ~ corrupt =>
  \A k \in Conns : thread[k].id \notin twins =>
    /\ k \in Listed <=> thread[k].stage = "serving"
    /\ \A i, j \in DOMAIN list : list[i] = k /\ list[j] = k => i = j

\* Only a race shares an id, and one of the two asked for it: ids given by
\* number never meet (choose_client_id).
NumbersAreUnique == \A id \in twins : \E k \in Conns : Requested[k] = id

\* A client that runs and whose reader has given up: its socket fills.
Stalled == \E k \in open \ reading : thread[k].stage = "serving"

\* Nobody waits for ever, neither for clients_lock nor for room in a socket:
\* every request is taken and answered, every broadcast ends and the lock is
\* released, unless a client runs on without reading (broadcast_message writes
\* under the lock) or the server died of a freed connection.
EveryoneIsServed ==
  <>[](\/ Stalled \/ ~ alive
       \/ /\ LockFree
          /\ \A k \in Conns : /\ thread[k].stage \in {"none", "accepted", "serving", "gone"}
                             /\ Idle(k)
          /\ \A k \in open : sending[k] = <<>> /\ (toServer[k] # <<>> => thread[k].stage = "gone"))
===============================================================================
