# TermSync in TLA+

TermSync (`src/`, C) lets several people edit one text file from their
terminals. A server owns the text and orders all edits by operational
transformation; clients send what is typed, one operation at a time, and apply
what the server answers and broadcasts; a child process of the server writes
the files. This directory specifies that program, checks it with TLC and proves
part of it with TLAPS.

## 1. The system

| component | state | operations | source |
|---|---|---|---|
| operations | kind, position, character | apply to a text, normalise, transform against another | `util.c`, `document.c` |
| document | text, version, window of recent operations, first version of the window | process an operation, snapshot; each call under one mutex | `document.c` |
| client state machine | copy of the text and its version, queue, operation in flight | key typed; ACK, REMOTE_OP, DOC_STATE, RESYNC_REQUIRED received | `client_state.c` |
| terminal client | cursor, queue of incoming messages, `running` | key, drain messages, quit; a second thread reads the socket | `client.c` |
| server | list of connections under `clients_lock`, `stopping` | one thread per connection: join, receive, answer, broadcast, leave; the main thread accepts and shuts down | `server.c` |
| UTF-8 | none | count characters, offset of a position, apply to bytes | `util.c` |
| saving | a pipe; in the child the latest text and its version; the file, `.bak`, `.tmp`, `.autosave`, `.edit.log` | events SNAPSHOT, SAVE_NOW, LOG, STOP; a timer | `autosave.c` |
| wire protocol | a receive buffer per connection, a send lock | encode, decode, read a line | `protocol.c` |
| event formatting | none | lines for the server's terminal | `events.c` |

How they interact. A key becomes a queued operation; the client sends it when
none is in flight, on the version it has. The server's thread of that
connection passes it to the document (transformed, applied, recorded: one
critical section), and then, with the document unlocked, writes a SNAPSHOT and
a LOG event to the pipe, answers its own client with ACK, and sends REMOTE_OP to
every other registered client while it holds `clients_lock`. An operation whose
base the window no longer covers is answered with RESYNC_REQUIRED and DOC_STATE;
the client then also asks for the document. A SAVE writes SAVE_NOW to the pipe.

What is hard about it:

* everything after the document's critical section interleaves with other
  threads, so answers, broadcasts, snapshots and pipe events arrive in another
  order than the versions they carry;
* a connection is registered for broadcasts before it has its first document;
* a client that resynchronises forgets an operation that may still be answered;
* positions chosen on one text are sent as based on a later one;
* a window of bounded size decides which operations can still be transformed;
* header and payload of an event are separate writes of unsynchronised threads;
* the child may be killed, or the disk fail, between any two steps of a save;
* the server stops while its threads are still accepting edits;
* an id is chosen in one critical section and entered in the list in another,
  and connections are excluded and removed by it;
* a broadcast writes to sockets, which may be full, while it holds the lock that
  joining, leaving and every other broadcast need;
* a line is written and read in pieces, and a typed text may look like part of it;
* the cursor runs ahead of the text, by what the client expects of its answers.

What makes each component correct: transformation must keep what the author of
an edit meant; the window must cover exactly the bases that are let through;
recorded operations must rebuild the text; copies must converge; no client may
wait for an answer that is not coming; nothing typed is sent twice; files are
complete texts and their replacement leaves a way back; a stop terminates and
saves; the list has exactly who is connected, and nobody waits for ever; what is
sent arrives whole; an edit is made where the user sees the cursor.

## 2. Modules

```
Operations  <--  Document  <--  Session  -->  ClientState  -->  Operations
                    |              ^
                    |              +--  Terminal  --(INSTANCE U)-->  Utf8
                    +--(INSTANCE Promise)-->  SharedText
Codec  <--  Wire  --(INSTANCE FIFO)-->  Channel     one direction of a connection
Connections                                         the list, the ids, full sockets
Autosave                                            the document is its version
MCDocument, MCSession, MCTerminal, MCWire, MCConnections, MCAutosave    instances for TLC

theorems:
DocumentProofs  <--  SessionProofs  <--  SessionOrderProofs  <--  TerminalProofs
CodecProofs  <--  WireProofs;    ConnectionsProofs;    AutosaveProofs
```

`Session` is about what messages say; it takes for granted that a connection is a
FIFO of messages that never fills, and that an id names one connection. `Wire`
shows the first as far as it holds (`ImplementsChannel`), `Connections` what
becomes of the rest.

**Operations** (`util.c`, `document.c`): `ApplyOperation`, `NormalizeForApply`,
`TransformAgainst` as operators. A text is a sequence of characters. No code
compares characters, so each inserted character is the identity of its edit:
that makes "the character the author saw" expressible. Positions count from 0
as in the code; an index is a position plus one.

**Document** (`document.c`): `text`, `version`, `historyStart`
(`history_start_version`), `history`. `Accept` is the whole of
`ts_document_process_operation` for a base inside the window: transformation
over the window, normalisation, version, text, window. `Refuse` is its answer
RESYNC_REQUIRED. `log`, `past` and `refused` are history variables. The
environment submits insertions and deletions, each named by a member of
`OpIds` that is used once, at any position in `Positions`
(a client's position need not lie inside any text), with any base from -1 (no
`base_version` in the message) to one above the version. The rejection of
invalid operations changes nothing and is left out.

**SharedText**: what the document promises, stated without a window and without
transformation: an insertion ends up between the characters its author saw on
its two sides, a deletion removes exactly the character its author named.
`Document!KeepsIntentions` says that the document implements it. It is about
identities of characters, so no two of the initial text may be the same, nor one of
them the identity of an edit (`IdentityAssumption`).

**ClientState** (`client_state.c`): a client is a record, and each function of
the file an operator from a client to the client after the call. All of them are
called by the UI thread. `copy` is a history variable no guard reads: "none" until the
first document, "loaded" with a document, "skipped" from an ACK that skips a version
until the next document. Applying a remote operation leaves it alone, whatever
its version, so that the check of the version in `handle_remote` is not assumed.

**Session** (`server.c`, `client.c` with the two above): extends `Document`, whose
actions are the critical sections of its threads. Every connection has a thread that goes through
`Register`, `TakeSnapshot`, and then `Receive`, `Answer`, `StartBroadcast`,
`BroadcastNext`, `EndBroadcast` for each message, until `Leave`. A step is what
happens between two points where another thread can come in: the document's
critical section, one send, taking and releasing `clients_lock`. A connection is
a FIFO in each direction (`client[c].toServer`, `toClient[c]`); the client's
reader thread and its incoming queue only prolong the second. `Quit` may lose
the end of what was sent. JOIN and WELCOME are the first message of each stream
and are left out. A client outside `Present` joins when its thread registers it,
and broadcasts may overtake its first document (`FirstDocumentOnItsWay`). `Type`
allows any position within `Reach`, a bound of the model: how far the cursor can be
when no deletion takes it below 0. `ImplementsDocument` says that the session refines `Document`:
in particular, clients keep its assumption that an operation is submitted once
(`ImplementsDocument == Spec`: the variables are the same, so no mapping is needed).

**Autosave** (`autosave.c`, its callers in `server.c`): the document is only its
version, and `Text(v)` the text of version v. The pipe is a sequence of bytes
that carry where they come from: the child finds out from the bytes what is a
header and how long a payload is, so mixed frames are parsed as the code does
(`ReadHeader`, `ReadGarbage`, `ReadPayload`, `EndOfPipe`). A header is two bytes
(the second its newline), a text a few. A connection writes a LOG event when it has
joined (`Join`) and when its thread ends (`Leave`, `Finish` once the server stops), as
it does for every edit, so that events come into the pipe during a shutdown though no
message is taken any more. The child's file operations are one step
each: `.bak` opened and filled, `.tmp` opened, filled and renamed. `KillServer`
and `KillChild` may happen between any two steps, and with `DiskMayFail` any file
operation may fail, a write after any part of the text; a copy to `.bak` that is
cut short on `fclose` counts as done, as in `copy_file`. Two fields of the child are
history: `saved`, the version last renamed to the file, and `cutShort`, that the
last copy to `.bak` failed on the way.

**Terminal** (`client.c`, `util.c`): `Session` with a cursor per client, moved by
keys (`Insert`, `Backspace`, `Move`) and held inside the projected length after
every message (`Drain`, `ClampCursor`), and with each client's text as the bytes
it is kept in. `ImplementsSession` says that whatever is typed at the cursor is
what `Session` allows. **Utf8** has the operators on bytes: characters of one to
four bytes, counted and located by their first byte. `Utf8Assumption` says what an
encoding is by the ranges of UTF-8's first and continuation bytes, not by what the code
computes from them.

**Codec** (`protocol.c`): `Encode` and `Decode`, with the escapes, the search for
a field's name, and the scan for the end of a nested object. A line is a sequence
of symbols; a word the code only copies or compares is one symbol, everything the
code looks for is a symbol of its own, and a text may hold any of them. The two
loops of the decoder are recursive functions: `ParseFrom` on the positions of the
line, `EndOfObject` on a position with the depth and whether a string or an escape
is open. `IsMessage` says which records are messages, and `IsOperation` that an
insertion has one character; numbers have one digit.

**Wire** (`protocol.c`, `ts_write_all_fd`): several threads send to one socket
(`Begin`, `Write`, under `send_lock`), a receiver reads any part into a buffer of
`LineLimit` symbols and takes lines from it (`Read`, `TakeLine`, `GiveUp`,
`MeetEnd`), and the sender may end in the middle of a line. `written`, a history
variable, counts the lines written to their end. **Channel** is what
it implements: every message once, whole, in order.

**Connections** (`server.c`, `client.c`): first message, `ChooseId`, `Register`,
requests and answers, broadcasts (the whole list, passing over whoever has the
author's id), `Leave`, over sockets of `Capacity` messages on
which `CanSend` blocks. Messages are reduced to their types. The client's UI
thread sends (`Push`) and its reader receives (`Read`), and ends at a line over
the limit (`"LONG"`) while the client runs on. Every walk of the list may meet a
connection that was freed while the list had it, and reads freed memory then, whose
outcome is open: the server dies or goes on. A broadcast goes on with the rest of the
list (`BroadcastToFreed`), the choice of an id ends with the requested one or with some
number from `next_client_number` on (`ChooseIdReadingFreed`), and a connection
that leaves takes any entry out of the list, or none (`LeaveReadingFreed`; from then
on the history variable `corrupt` is set). `ReadsFreed` says when a search meets a freed
entry before it finds its id.

Operators introduced by "Slip:" are not used by any specification: each is a
plausible mistake in the definition that follows it, and names a version of the
code that one of the properties tells from the real one.

## 3. Runs

| run (cfg) | instance | shows |
|---|---|---|
| `MCDocument` | 4 edits, window 2, positions 0..3, text of 2 | types; the window is the end of the log; the log rebuilds the text; `Document` implements `SharedText` |
| `SessionEditors` | 3 editors, one of which joins, one edit each, window 1 | once a client has had a document, its copy differs from the server's text of its version only after an ACK that skipped a version; until then its first document is on its way |
| `SessionJoin` | a client joins one that types, 2 edits each, so that one is queued behind one that is refused; one may quit, window 1, fairness | types; every keystroke is in exactly one place and in order; nobody waits for nothing; only a document rewinds a copy; refinement of `Document`; everything typed is sent and answered |
| `Terminal` | 2 clients, 2 + 1 keys, characters of 1 to 4 bytes | the cursor types nowhere `Session` does not; the bytes are the text; an ACK leaves the cursor alone unless a deletion too many is pending |
| `Wire` | 2 threads with one message each, a partial write, a sender that may end, fairness | types; decoding a line gives back its message; lines never mix; every message arrives whole, in order and, with fairness, at all; only a line over the limit breaks a connection, and at the end of the stream exactly the lines written as a whole have been received |
| `Connections` | 3 connections, 2 asking for one id, 2 of which may leave, sockets of 1 message, fairness | types; the list is exact except for ids held twice, which only requested ids are, and until a freed entry is read by who leaves; everybody is served unless a client stops reading or the server dies |
| `AutosaveDisk` | 1 connection that joins and may leave, 2 edits, 2 saves, disk fails, kills, empty or missing file at the start | files are whole texts; the child catches up; nothing gets older; the file is replaced in one step, and only while `.bak` is the whole text replaced, or a beginning of it after a copy the disk cut short |
| `AutosaveLive` | 1 connection that joins and may leave, 1 edit, 1 save, stop at any time, fairness | a save queued before the stop reaches the file; the server and the child terminate; the text is saved unless a thread writes an event meanwhile |

Four more runs look for a behaviour that contradicts something the source says of
itself; each finds one. They are listed with the quotation under `findings` in
`PROJECT.json`:

| run | what happens |
|---|---|
| `SessionAckSkipsVersion` | an ACK overtakes the broadcast of the operation before it; the client applies it to the wrong text and drops the broadcast |
| `SessionStaleDocument` | the first snapshot of a joining client is overtaken by a broadcast and then replaces the newer copy, for good |
| `SessionKeystrokeOrder` | a queued keystroke is not moved by a remote operation and is sent as based on it: two characters swap |
| `AutosaveMixedFrames` | two threads' events mix in the pipe; a header is remembered as a text |

More disagreements and weaknesses can be read off the modules; the properties
that hold name each of them as an exception or leave room for it:

* a document clears the in-flight flag of an operation that was sent, and the
  next one is sent too (`SetDocument`): two of a client's operations are
  unanswered, against `client_state.c:188`;
* two connections may choose the same requested id before either is in the list.
  When one leaves, the other's entry may be the one removed; the freed connection
  stays listed, and the next broadcast, choice of an id or leaving reads it
  (`Unregister`, `BroadcastToFreed`, `ChooseIdReadingFreed`, `LeaveReadingFreed`).
  `ListIsExact` excepts the ids in `twins`, and everything once `corrupt` is set;
  `EveryoneIsServed` excepts a server that died;
* a client whose document outgrows a line stops reading and runs on; once its
  socket is full the next broadcast holds `clients_lock` for good (`Stalled` in
  `EveryoneIsServed`);
* text of two characters; a client deletes both and types on while another
  deletes one of them: the projected length goes below zero and is cut off only
  at the end, so the ACK of a deletion pulls the cursor back (`Overdrawn` in
  `AnAckMovesNoCursor`), against `client.c:313`;
* the reason of a noop inside a message is taken for the message's own, since
  fields are looked for in the whole line (`AsReceived` in `Wire`);
* an edit made during shutdown may be acknowledged and not be in the final save;
  its events, and the log entry of a client that merely disconnects or joins, may
  come between the header and the text of the final save and spoil it. So
  `StopSavesTheText` says only that a server told to stop saves its text unless a
  thread writes an event meanwhile;
* a refused keystroke is forgotten (`HandleResyncRequired`; `plan.md:3` promises
  that none is lost);
* of two threads' snapshots the older may arrive last and stay (`Write` in
  `Autosave`; `NothingGetsOlder` is about one connection); a save that failed is
  logged as done (`Wrote`; what is logged is not modelled); a `.bak` cut short
  on `fclose` counts as a backup (`Backup`, last disjunct);
* `build_operation_log` (`document.c:187`) copies a typed quote or newline into
  its JSON line as it is.

### Bounds

Every bound is a constant: `HistoryLimit`, `OpIds`, `Positions`, `MayQuit`, `Present`,
`MaxVersion`, `MaxSaves`, `Length`, `Requests`, `Capacity`,
`MaxSends`, `MaxCuts`, `LineLimit`. Four edits against a window of
two slide it twice and refuse, and let a deletion meet a deletion of the same
character, of a neighbour, and an insertion between them; transformation is
defined pair by pair, so longer windows compose the same cases. In a session a
window of one makes refusals reachable with two edits of another client; three
clients are needed for two broadcasts to cross at a third, one of them, in
`SessionEditors`, on its way in. In `SessionJoin` each of the two has two edits: two of one
client make the other's first be refused while its second is queued, and the document
that follows must send it. Positions are only the first in these two runs
(`MCFirstPosition`): two insertions at one place already make an operation applied to the
wrong text visible, and the other properties do not look at positions, which
`MCDocument` varies. In `Autosave` the properties
that hold are those of one thread (with two, frames mix: see the runs above);
two versions and two saves let an old text, a current one and a backup of each
meet. `Length` gives version v a text of v bytes in `AutosaveDisk`: version 0 is
the empty text of a file that may not exist, and half of version 2 is no text at
all.

In `Connections` two connections compete for an id, both of which may leave, the second
past the first one's freed entry, and a third,
whose client asks for none and which may be given that id by number, makes two
requests: its broadcasts go to both, to one, or to a freed one; sockets of one message
make every write block that can. In `Wire` two messages are
enough for a read that ends anywhere in the first or the second, and one partial
write for a line left in pieces; `LineLimit` is the length of the longest short message, so that
one message fits exactly and one is a symbol too long. The messages are of every
type the program sends, and their texts hold quotes, backslashes, braces, names of
fields and control characters. In `Terminal` a second key of the same client
is what makes the cursor run ahead; the other client's edit is what falsifies the
projection.

Symmetry is used for the identities of edits in `MCDocument`, which checks no
liveness. Deadlock checking is off where the instance comes to an
end: all edits made, everybody idle. `AnswerOnItsWay`, `EverythingTypedIsAnswered`,
`EveryoneIsServed`, `EverythingArrives` and `StopTerminates` say when waiting is
legitimate.

### Fairness

`Session!Fairness`: weak fairness of each client's handling of messages and of
each server thread. The threads are independent and preemptively scheduled, and
each blocks only on a socket with nothing to read or on `clients_lock`. Weak
fairness suffices for the lock because in the finite instances every broadcast
ends. Nobody is obliged to type or to leave. `Autosave!Fairness`: weak fairness
of the server's steps and of the child's, and strong fairness of the child's
reads at the top of its loop: the timer can disable them again and again, but
the loop looks at the pipe before every tick (`autosave_loop` calls `select`
first and reads whenever the pipe is ready). `Connections!Fairness`: weak fairness
of the server's threads, of a client's blocked write and of its reader, as long
as the server runs; a thread waiting for `clients_lock` or for room in a socket is
disabled, and that it does not stay so is what the property says.
`Wire!Fairness`: weak fairness of a started write and of the reader. The second is
written as `[]<>` of "nothing to read" or of a step of the reader, which is what
weak fairness means: evaluating ENABLED would decode every line again.

## 4. Proofs

| theorem | module | statement |
|---|---|---|
| `TypeCorrect` | DocumentProofs | `Spec => []TypeOK` |
| `WindowCorrect` | DocumentProofs | `Spec => []HistoryWindow` |
| `ReplayCorrect` | DocumentProofs | `Spec => []ReplayableHistory` |
| `DeletionKeepsItsTarget` | DocumentProofs | one transformation step keeps the character a deletion names |
| `InsertionKeepsItsPlace` | DocumentProofs | one transformation step keeps both neighbours of an insertion |
| `IntentionsKept` | DocumentProofs | `Spec => KeepsIntentions`: the document implements `SharedText` |
| `SessionInvariant`, `OrderInvariant` | SessionProofs, SessionOrderProofs | the two inductive invariants of the session |
| `SessionTypeCorrect` | SessionProofs | `SessionSpec => []SessionTypeOK` |
| `OnlySkippedVersionsDiverge` | SessionOrderProofs | `SessionSpec => []OnlyASkippedVersionDiverges` |
| `SessionImplementsDocument` | SessionOrderProofs | `SessionSpec => ImplementsDocument` |
| `OnlyDocumentsRewind` | SessionOrderProofs | `SessionSpec => OnlyADocumentRewinds` |
| `KeystrokesInOrder` | SessionOrderProofs | `SessionSpec => []KeystrokesAccounted` |
| `AnswersOnTheirWay` | SessionOrderProofs | `SessionSpec => []AnswerOnItsWay` |
| `SessionKeepsIntentions` | SessionOrderProofs | `SessionSpec => KeepsIntentions` |
| `UnalteredInvariant` | SessionOrderProofs | what is in flight is what was typed, and an insertion is recorded as one |
| `TerminalInvariant` | TerminalProofs | the inductive invariant of the terminals |
| `TerminalTypeCorrect`, `TextInBytes` | TerminalProofs | `TerminalSpec => []TerminalTypeOK`, `TerminalSpec => []BytesAreTheText` |
| `TerminalImplementsSession` | TerminalProofs | `TerminalSpec => ImplementsSession` |
| `AcksMoveNoCursor` | TerminalProofs | `TerminalSpec => AnAckMovesNoCursor` |
| `ListCorrect`, `NumbersCorrect` | ConnectionsProofs | `Spec => []ListIsExact`, `Spec => []NumbersAreUnique` |
| `ConnectionsTypeCorrect` | ConnectionsProofs | `Spec => []TypeOK` |
| `DiskInvariant` | AutosaveProofs | the inductive invariant of the files |
| `SavingTypeCorrect` | AutosaveProofs | `Spec => []TypeOK` |
| `NothingDestroysTheLastCopy` | AutosaveProofs | `Spec => ReplacedAsAWhole` |
| `OneWriterInvariant` | AutosaveProofs | one writer: the pipe holds whole frames |
| `OneWritersFilesAreWhole`, `OneWritersChildCatchesUp` | AutosaveProofs | one writer: `Spec => []FilesAreWhole`, `Spec => []CatchesUp` |
| `OneWritersTextsNeverGetOlder` | AutosaveProofs | one writer: `Spec => NothingGetsOlder` |
| `OneLinePerMessage` | CodecProofs | an encoded message ends with its only newline |
| `DecodesWhatItEncodes` | CodecProofs | decoding an encoded message gives its fields back |
| `WireInvariant` | WireProofs | the inductive invariant of a connection |
| `WireTypeCorrect` | WireProofs | `Spec => []TypeOK` |
| `DecodingGivesBack` | WireProofs | `Spec => []MessagesComeBack` |
| `OnlyLongLinesAreGivenUp`, `NoWholeLineIsLost` | WireProofs | `Spec => []OnlyLongLinesFail`, `Spec => []WholeLinesArrive` |
| `WireIsAChannel` | WireProofs | `Spec => ImplementsChannel` |

**Operations and document.** For every window size, initial text, set of edits and
set of positions, from the assumptions of `Document`: the window holds at least one
operation (`--history 0` selects the default, `ts_document_init`), the initial
text is a sequence of its characters, all different, and positions are natural
numbers.

`DocumentProofs` first derives from the library's facts on sequences
where each character goes when one is inserted or removed (`CharactersMove`,
with `IndexAfter`), and from it the two theorems on transformation. It also
shows that a normalised operation lies inside the text (`NormalizedIsInRange`).
`TransformedType` carries "is an operation" through the recursive function that
folds the window; that it exists and that it keeps the type are two inductions on
the number of entries, by `NatSetInduction`, which states induction over a *set*
of naturals because the provers cannot instantiate the operator parameter of
the library's theorem.

`HistoryWindow` is inductive only with the types (`WindowInv`): to read
`history_start_version` off the oldest remaining entry one has to know that the
entry is the log's at that index and that the log's versions are its indices.
`WindowSlides` is that step, for both branches of `append_history`.
`ReplayableHistory` is inductive only with `WindowInv`, which says that the
version is the length of the log (`ReplayInv`).

`KeepsIntentions` folds the two transformation theorems over the window. Alone they do
not compose: `InsertionKeepsItsPlace` needs the two neighbours in the text
the next entry applies to, and a deletion may have removed one or both. What is carried
from entry to entry is therefore a claim about characters (`InsertionCarried`,
`DeletionCarried`): whatever the author saw to the left and is still there is to the
left of the position reached so far, likewise to the right, and the character a
deletion names is at its position, or the operation is a noop and the character is
gone for good. It needs that no character is twice in a text and that none
comes back (`StaysDistinct`, `LaterIsNew`), which is where `IdentityAssumption`
and the uniqueness of ids come in, and `ReplayInv` for the texts between the
base and the present (`CarriedOver`). Normalisation changes nothing then: the
transformed position is already inside the text.

**Session.** For any set of clients, of which any number may leave, any operations
they type (`OpIds`, `Positions`), with no bound on
messages in transit. Four inductive invariants, each on top of others:

* `SessionInv`: the types, `ReplayInv`, and
  `Carried` (every ACK and REMOTE_OP in transit, wherever it waits, is the log's
  entry of its version, and every DOC_STATE the text of its version), `Copies` (a
  client whose copy is "loaded" shows the text of its version; its operations are
  named after it), `Listed` (each served connection is listed once, and a broadcast
  leaves out its author). The first half of `OnlyASkippedVersionDiverges` is a part of
  `Copies`, but alone it is not inductive: an operation applied to a right copy gives a right copy only
  because the message carries the log's entry, and the next text is that entry
  applied to this one only because the log replays. `Listed` is needed for the
  ids: a client is never sent its own operation as someone else's.
* `OrderInv`: numbers grow from what the server answered to what is on the wire
  to what is queued (`Ordered`), nothing typed is missing between them
  (`Covered`), the log and the refusals share nothing (`AnsweredInOrder`), and a
  client with an operation in flight has not reached the version it made
  (`Behind`). From it `KeystrokesAccounted`, and the refinement: what arrives at
  the server was never in the log or refused, because all of that has smaller
  numbers. `Behind` is what `OnlyADocumentRewinds` needs: `handle_ack` assigns the
  version of the ACK without comparing it.
* `FirstInv`: a client that never had a document has its first one between it and the
  server (`Due`), the second half of `OnlyASkippedVersionDiverges`: only that document
  ends the state "none", and an ACK cannot come before it.
* `AwaitedInv`: a client that waits has its request or the answer on its way. That
  the answer matches is the order of the two queues: it needs `OrderInv`.

`SessionKeepsIntentions` is `IntentionsKept` through the refinement. `UnalteredInv` is a
fifth invariant, for the terminal: what is in flight is on the wire as it was typed, and
an insertion is recorded as an insertion.

**Terminal.** For any set of clients, any keys and any characters with an encoding
(`Utf8Assumption`), with `Positions = Nat`: positions are unbounded in the code
(`size_t`), and a bounded set could refuse a key the terminal accepts. An
encoding is described by its offsets: `Encodes(b, s, n, off)` says where in the bytes each
character begins. From it, that counting first bytes counts characters and that the
offset of a position is where that character begins; and that splicing bytes at these
places is applying the operation to the text, for both operations and for an insertion
beyond the end. The folds of `Utf8` become functions that run step by step (`Iterated`,
`Runs`), about which induction is possible. `TerminalInv` bounds the cursor of a running
client by `Reach`, what `Session` lets be typed, and not by the projected length,
which a key may leave below the cursor when deletions are pending that delete nothing.
The projected length is at most `Reach` (`ProjectedWithinReach`), so clamping after each
message restores the bound, and each key keeps it. Hence
`ImplementsSession`, and with it everything proved of the session. For
`AnAckMovesNoCursor` it has to be shown that an ACK takes from the pending operations
exactly what it adds to the text: that is `UnalteredInv`, as an insertion recorded as
a noop would shorten the projection.

**Connections.** For any finite set of connections, whatever they ask for,
and any capacity of sockets. `ListInv` is the inductive invariant. `ListIsExact` is
not inductive: that `unregister_client` takes out the connection that leaves needs that
no other holder of its id is in the list, so a holder counts from the moment it
has chosen, before it is registered (`HoldersAreTwins`), and a freed connection
stays listed only under an id two had (`ListedAreServed`). These make `Exact`, which
holds until a connection that leaves reads a freed one; what is said of ids and numbers
holds even then, since `next_client_number` only grows. `NumbersAreUnique`
needs besides that a number given, and not asked for, is behind
`next_client_number` (`NumbersAreGiven`; `ToldStep` is the step for either way an id
was found), and that the loop of `choose_client_id`
ends: of as many numbers as there are connections and one more, the list cannot
have all (`NumberIsFree`). `AsideStep` covers every step that neither enters, leaves
nor chooses. `ConnectionsTypeCorrect` adds the sockets (`Sockets`): none ever holds
more than `Capacity`, which is not a matter of types but of every sender's guard.

**Autosave.** `DiskInv` holds for any number of threads, with mixed frames, failures,
kills and stops: at each place of `ts_write_with_backup` and
`ts_atomic_write_text` it says what was done so far (`Replacing`). `ReplacedAsAWhole`
needs that what is renamed is the text the child has, although that text may
change between saves, and that when the rename comes `.bak` is still all of the file,
or the disk cut that very copy short (`BackedUp`): no step between copy and rename
touches either, and `cutShort` is about the last copy only.

The rest is for one writer, one connection that joins, edits, saves and leaves while
nothing stops the server (`Threads = {t}`, `MayStop = FALSE`), and false otherwise:
with two threads, or with the main thread's events at a stop, frames mix,
as the run `AutosaveMixedFrames` shows. `AutosaveDisk` is an instance of these
hypotheses. `OneWriterInv` says that the pipe followed by what the thread has yet
to write (`Rest`) is a sequence of whole frames the child is at a boundary of, or
inside one (`InStep`): no single variable has a whole frame in general, and only
this concatenation is unchanged by a write and cut at its head by a read. It also
says that the versions of the texts in it do not decrease and that the newest one is
in it unless the child has it (`CatchesUp`), and that what the child remembers is the text of
the version it remembers (`Remembers`). `NothingGetsOlder` needs besides that the
version last renamed to the file is no newer than the child's (`FileIsOlder`). It is
stated of versions and not of texts (`Saved`, through the history `saved`), so that two
versions may have the same text, as when a file is emptied twice.

**Wire.** For any finite set of threads, any messages, any limit and any division of
writes and reads. `OneLinePerMessage` is about the encoder alone: whatever a text
holds, the only newline of its line is the last symbol, field by field
(`StringValueIsPlain`, `OperationFieldIsPlain`, `ObjectIsPlain`). `WireInv` says
that what is written and not decoded (`Unread`) is the lines of the messages not
received, one after the other, of the last of which a part may be missing; that
part is what the holder of `send_lock` has yet to write (`Framed`, `Writing`). It is
stated with the places where lines begin, so that a line split between buffer and
stream needs no case of its own: a read leaves `Unread` as it is, a write appends to it
(`MoreWritten`), a new line only adds to what is missing (`OneMoreLine`), and a
newline found in the buffer is the end of the next line (`NextLine`, `FirstLine`).
`WholeLinesArrive` is an equation: at the end of the stream the messages received are
as many as the lines written to their end. That takes both directions, that the reader
leaves no whole line in its buffer when it meets the end, and that a part of a line is
never taken for one; `Writing` ties `written` to what the holder of the lock has left.

`DecodesWhatItEncodes` is about the codec alone, and `TakeLineKeeps` needs it: were a line not
decoded, the receiver would stop for another reason than a long line. Its parts:

* A recursive function has the value its definition gives only if some function
  satisfies the definition. `Recursion` shows that one does whenever each call
  comes closer to the end by a measure; `TheScanEnds` and `TheReadEnds` use it for
  the two loops, with the distance to the end of the line.
* What `find_key` finds is described by `Shows(w, found)`: for each name, what a part of
  a line has under it, wherever the part stands. Parts compose
  (`TwoShown`: the first that has the name), fields, objects and nested operations are put
  together from them (`FieldPart`, `AddField`, `ObjectPart`). The step a test hardly reaches is
  `StringShows`: no text, whatever it holds, shows a field, because a name is
  found between two quotes, the second followed by a colon, and every quote inside a
  text has a backslash in front of it (`Guarded`).
* That the loop of `json_get_object` passes over a part and comes out in the mode it
  went in (`Moves`), so that the closing brace it stops at is the object's
  (`ObjectEnds`), is independent of the first.
* That `parse_json_string_alloc` reads back what `json_escape` wrote, symbol by
  symbol, up to the closing quote (`Gives`, `EscapedGives`, `TextIsRead`).

Both directions are for every message of `IsMessage`, so with texts of any length made
of any symbols. What does not come back is one field: the reason of a message is the
first one in its line (`ReasonRead`), which `AsReceived` says too.

**Only model-checked.**

* Liveness under fairness, and ENABLED, are out of the prover's reach:
  `EverythingTypedIsAnswered`, `EveryoneIsServed`, `EverythingArrives`,
  `QueuedSavesHappen`, `StopTerminates`, `StopSavesTheText`.
* What becomes of the files with several writers, beyond `ReplacedAsAWhole`.

`OnlyASkippedVersionDiverges` says exactly how far copies can be trusted: a copy is
given up for lost only by an ACK that skips a version, not by a remote operation
(`handle_remote` checks the version, `handle_ack` does not), until the next document.
A client that joins may apply broadcasts to its empty text; the document that is on
its way replaces the result.

## 5. Not modelled

* WELCOME's effect on the client: it changes the first half of the `op_id`s that
  follow; the second half, a counter, already tells a client's operations apart.
* ERROR and SAVE_QUEUED at the client: they change a status line. A client
  whose operation is answered with ERROR would wait for ever; the clients of
  this repository send no such operation.
* White space between the tokens of a line, `\u` escapes the encoder does not
  write, and strings longer than the fields they are copied to.
* Malformed UTF-8: `ts_utf8_char_count` assumes there is none; a file that holds
  some would be read all the same.
* The text of log entries, so also that a save which failed is logged as done.
* Payloads larger than PIPE_BUF and a full pipe: writes are atomic in `Autosave`,
  and the frames of two threads mix all the same.
* `fsync`: a rename is taken to be durable.
* Out of memory, and a thread that cannot be started; undefined behaviour after
  the document is destroyed while client threads run, and after a client's buffers
  are freed while its reader runs; the reuse of descriptor numbers.
* Restart: the server reads the file and starts from `Init`; nothing reads
  `.autosave` back.
* `events.c`, drawing and scrolling, option parsing, the Makefile, the tests.

## 6. Plan

Done, in this order: Operations, Document with SharedText, ClientState and
Session, Autosave, the proofs of the document; then Connections, Codec and Wire
with Channel, Utf8 and Terminal.

What is left of the code is display, output, option parsing and the behaviours
listed under "Not modelled". A composition of Session and Autosave at the order
of SNAPSHOT, ACK and broadcast would add no interaction: the document hands events
to the pipe and takes nothing back.

Proved since: the session (types, order, refinement of the document, answers), the
files, the types of `Connections`, the framing of lines and the channel; then that
transformation over the window keeps what an author meant (`KeepsIntentions`), the
terminal (its bytes, its cursor, the refinement of the session), and that decoding undoes
encoding. Every safety property a passing run checks is now a theorem.

What is left to prove is liveness, which is out of the prover's reach, and what becomes
of the files when the frames of several writers mix: there the properties that
hold of one writer are false, and weaker ones would have to be stated first.
