----------------------------- MODULE ClientState -----------------------------
(***************************************************************************)
(* The client's side of the protocol (client_state.c): a copy of the       *)
(* document, a queue of typed operations, and at most one operation sent   *)
(* and not yet acknowledged.                                               *)
(*                                                                         *)
(* A client is a record and each function of client_state.c an operator    *)
(* that returns the client after the call: every call is made by the       *)
(* client's UI thread, so a call is one step.  What send_fn hands to the   *)
(* socket is appended to toServer.  Status lines are left out.             *)
(***************************************************************************)
EXTENDS Operations

\* Slip: the base is one version short.
OpMessageBefore(item, version) ==
  [type |-> "OP", id |-> item.id, op |-> item.op, base |-> version - 1]

\* Messages.  A client stores history_start_version and never reads it; the
\* ACK's base_version and original_op are never read either.
OpMessage(item, version) == [type |-> "OP", id |-> item.id, op |-> item.op, base |-> version]
RequestDoc == [type |-> "REQUEST_DOC"]

DocState(text, version) == [type |-> "DOC_STATE", text |-> text, version |-> version]
Ack(id, version, op) == [type |-> "ACK", id |-> id, version |-> version, op |-> op]
RemoteOp(version, op) == [type |-> "REMOTE_OP", version |-> version, op |-> op]
ResyncRequired(id) == [type |-> "RESYNC_REQUIRED", id |-> id]

-----------------------------------------------------------------------------

\* copy is a history variable, which no guard reads: the client has had no
\* document yet ("none"), it has one ("loaded"), or it has since applied an ACK
\* whose version is not the one after its own ("skipped").
NewClient ==
  [content |-> <<>>, version |-> 0, queue |-> <<>>, inflight |-> <<>>,
   nextOp |-> 1, toServer |-> <<>>, copy |-> "none"]

Send(s, message) == [s EXCEPT !.toServer = Append(@, message)]

\* Sends the oldest queued operation, on the current version, when none is
\* in flight.
Pump(s) ==
  IF s.inflight # <<>> \/ s.queue = <<>> THEN s
  ELSE Send([s EXCEPT !.inflight = <<Head(s.queue)>>, !.queue = Tail(@)],
            OpMessage(Head(s.queue), s.version))

\* Slip: the operation in flight goes back to the queue.
SetDocumentRequeuing(s, text, version) ==
  Pump([s EXCEPT !.content = text, !.version = version, !.inflight = <<>>,
                 !.queue = s.inflight \o @, !.copy = "loaded"])

\* Slip: the queue waits for the user's next key.
SetDocumentQuietly(s, text, version) ==
  [s EXCEPT !.content = text, !.version = version, !.inflight = <<>>, !.copy = "loaded"]

SetDocument(s, text, version) ==
  Pump([s EXCEPT !.content = text, !.version = version, !.inflight = <<>>, !.copy = "loaded"])

QueueOperation(s, id, op) ==
  Pump([s EXCEPT !.queue = Append(@, [id |-> id, op |-> op]), !.nextOp = @ + 1])

ApplyAuthoritative(s, message) ==
  [s EXCEPT !.content = ApplyOperation(@, message.op), !.version = message.version]

\* What copy becomes when an ACK of this version is applied.
CopyAfterAck(s, version) == IF version = s.version + 1 THEN s.copy ELSE "skipped"

\* Slip: the next operation is not sent.
HandleAckQuietly(s, message) ==
  IF s.inflight # <<>> /\ s.inflight[1].id = message.id
  THEN [ApplyAuthoritative(s, message) EXCEPT !.inflight = <<>>,
                                              !.copy = CopyAfterAck(s, message.version)]
  ELSE s

\* An ACK counts when it names the operation in flight.
HandleAck(s, message) ==
  IF s.inflight # <<>> /\ s.inflight[1].id = message.id
  THEN Pump([ApplyAuthoritative(s, message) EXCEPT !.inflight = <<>>,
                                                   !.copy = CopyAfterAck(s, message.version)])
  ELSE s

\* Slip: a remote operation the document already has is applied again.
HandleRemoteTwice(s, message) ==
  IF message.version > s.version + 1 THEN Send(s, RequestDoc) ELSE ApplyAuthoritative(s, message)

\* Slip: the versions that are missing are not noticed.
HandleRemoteBlindly(s, message) ==
  IF message.version <= s.version THEN s ELSE ApplyAuthoritative(s, message)

\* A remote operation already known is dropped, one that leaves a gap makes
\* the client ask for the document.
HandleRemote(s, message) ==
  CASE message.version <= s.version -> s
    [] message.version = s.version + 1 -> ApplyAuthoritative(s, message)
    [] OTHER -> Send(s, RequestDoc)

\* Slip: the refused operation is queued again, under its old identity.
HandleResyncRetrying(s) ==
  Send([s EXCEPT !.inflight = <<>>, !.queue = s.inflight \o @], RequestDoc)

\* The refused operation is forgotten.
HandleResyncRequired(s) == Send([s EXCEPT !.inflight = <<>>], RequestDoc)

HandleMessage(s, message) ==
  CASE message.type = "DOC_STATE" -> SetDocument(s, message.text, message.version)
    [] message.type = "ACK" -> HandleAck(s, message)
    [] message.type = "REMOTE_OP" -> HandleRemote(s, message)
    [] message.type = "RESYNC_REQUIRED" -> HandleResyncRequired(s)

-----------------------------------------------------------------------------

\* A bound of the model, not code: how far a cursor can be, with what is
\* pending, no deletion taking it below 0.  It bounds what is typed next.
Delta(op) == CASE op.kind = "insert" -> 1 [] op.kind = "delete" -> -1 [] OTHER -> 0

Pending(s) == s.inflight \o s.queue

Reach(s) ==
  LET pending == Pending(s)
      reach[n \in 0 .. Len(pending)] ==
        IF n = 0 THEN Len(s.content)
        ELSE IF reach[n - 1] + Delta(pending[n].op) < 0 THEN 0
        ELSE reach[n - 1] + Delta(pending[n].op)
  IN  reach[Len(pending)]
===============================================================================
