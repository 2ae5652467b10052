------------------------------- MODULE Autosave -------------------------------
(***************************************************************************)
(* Saving (autosave.c and its callers in server.c): the server's threads   *)
(* write events into a pipe, a child process reads them and writes the     *)
(* files.                                                                  *)
(*                                                                         *)
(* An event is a header line and as many bytes of payload as the header    *)
(* says.  The two are separate write() calls and no lock is held, so the   *)
(* events of two threads may interleave in the pipe.  A write of the sizes *)
(* considered here (at most PIPE_BUF) is atomic, and the pipe never full.  *)
(*                                                                         *)
(* The document is its version: Text(v) is the text at version v.  A byte  *)
(* carries where it comes from; a header is two bytes, the second of which *)
(* is the newline that ends it.                                            *)
(***************************************************************************)
EXTENDS Integers, Sequences, SequencesExt

CONSTANTS Threads,      \* the server's threads, one per connection
          MaxVersion,   \* bounds the edits
          MaxSaves,     \* bounds the SAVE requests
          Length,       \* Length[v]: bytes of the text at version v
          MayStop,      \* whether the server is told to stop
          MayCrash,     \* whether the server or the child may be killed
          DiskMayFail   \* whether an operation on a file may fail

ASSUME AutosaveAssumption ==
  /\ "main" \notin Threads
  /\ MaxVersion \in Nat /\ MaxSaves \in Nat
  /\ Length \in [0 .. MaxVersion -> Nat]
  /\ {MayStop, MayCrash, DiskMayFail} \subseteq BOOLEAN

VARIABLES version,  \* the document's version
          saves,    \* the SAVE requests received
          queued,   \* the newest version a SAVE_QUEUED was sent for
          doing,    \* doing[t]: where thread t is in client_thread_main
          made,     \* made[t]: the version its edit made, or that it saves
          todo,     \* todo[w]: the writes to the pipe w has yet to make
          main,     \* the main thread's way through server_shutdown
          pipe,     \* the bytes in the pipe
          child,    \* the child: where it is and what it remembers
          files     \* what is on disk

server == <<version, saves, queued, doing, made, todo, main>>
vars == <<server, pipe, child, files>>

-----------------------------------------------------------------------------
(* Events *)

Text(v) == [i \in 1 .. Length[v] |-> [of |-> "text", version |-> v, at |-> i]]
\* What is logged of the edit that made version v, and of a join or a leave (0).
LogEntry(v) == <<[of |-> "log", version |-> v, at |-> 1]>>

Header(event, v, len) ==
  [i \in 1 .. 2 |-> [of |-> "header", event |-> event, version |-> v, len |-> len, at |-> i]]

IsHeader(byte) == byte.of = "header"
EndsHeader(byte) == byte.of = "header" /\ byte.at = 2

\* The writes of send_payload_event, ts_autosave_send_log and _send_stop.
PayloadEvent(name, v, payload) == <<Header(name, v, Len(payload)), payload>>
LogEvent(v) == PayloadEvent("LOG", 0, LogEntry(v))
StopEvent == <<Header("STOP", 0, 0)>>

-----------------------------------------------------------------------------
(* The server *)

Writers == Threads \cup {"main"}
Stopping == main # "accepting"
Closed == main \in {"waiting", "done", "killed"}  \* the pipe has no writer left

Alive == main \notin {"done", "killed"}
Serving(t) == Alive /\ doing[t] = "receiving"

\* The connection's first message is a JOIN, which is logged once it is
\* answered; this may come while the server stops.
Join(t) ==
  /\ Alive
  /\ doing[t] = "accepted"
  /\ doing' = [doing EXCEPT ![t] = "join"]
  /\ todo' = [todo EXCEPT ![t] = LogEvent(0)]
  /\ UNCHANGED <<version, saves, queued, made, main, pipe, child, files>>

\* The way out of client_thread_main, which is logged too: the last thing a
\* thread does.
LogsLeave(t) ==
  /\ doing' = [doing EXCEPT ![t] = "gone"]
  /\ todo' = [todo EXCEPT ![t] = LogEvent(0)]

\* The client disconnects, whether the server stops or not.
Leave(t) ==
  /\ Serving(t)
  /\ LogsLeave(t)
  /\ UNCHANGED <<version, saves, queued, made, main, pipe, child, files>>

\* Slip: the text sent to the child is the one before the operation.
EditSendingOldText(t) ==
  /\ Serving(t)
  /\ version < MaxVersion
  /\ version' = version + 1
  /\ doing' = [doing EXCEPT ![t] = "edit"]
  /\ made' = [made EXCEPT ![t] = version']
  /\ todo' = [todo EXCEPT ![t] = PayloadEvent("SNAPSHOT", version', Text(version))
                                   \o LogEvent(version')]
  /\ UNCHANGED <<saves, queued, main, pipe, child, files>>

\* An operation is accepted: the new text and a log entry go to the child
\* before the ACK.  The document is unlocked before the first write.
Edit(t) ==
  /\ Serving(t)
  /\ version < MaxVersion
  /\ version' = version + 1
  /\ doing' = [doing EXCEPT ![t] = "edit"]
  /\ made' = [made EXCEPT ![t] = version']
  /\ todo' = [todo EXCEPT ![t] = PayloadEvent("SNAPSHOT", version', Text(version'))
                                   \o LogEvent(version')]
  /\ UNCHANGED <<saves, queued, main, pipe, child, files>>

\* Slip: a save is announced under the next version.
SaveAsNext(t) ==
  /\ Serving(t)
  /\ saves < MaxSaves
  /\ saves' = saves + 1
  /\ doing' = [doing EXCEPT ![t] = "save"]
  /\ made' = [made EXCEPT ![t] = version]
  /\ todo' = [todo EXCEPT ![t] = PayloadEvent("SAVE_NOW", version + 1, Text(version))]
  /\ UNCHANGED <<version, queued, main, pipe, child, files>>

Save(t) ==
  /\ Serving(t)
  /\ saves < MaxSaves
  /\ saves' = saves + 1
  /\ doing' = [doing EXCEPT ![t] = "save"]
  /\ made' = [made EXCEPT ![t] = version]
  /\ todo' = [todo EXCEPT ![t] = PayloadEvent("SAVE_NOW", version, Text(version))]
  /\ UNCHANGED <<version, queued, main, pipe, child, files>>

\* A write to a pipe that was closed, or that nobody reads, fails; the
\* callers go on.
Write(w) ==
  /\ Alive
  /\ todo[w] # <<>>
  /\ todo' = [todo EXCEPT ![w] = Tail(@)]
  /\ pipe' = IF Closed \/ child.at = "exited" THEN pipe ELSE pipe \o Head(todo[w])
  /\ UNCHANGED <<version, saves, queued, doing, made, main, child, files>>

\* WELCOME was sent before the log entry; ACK or SAVE_QUEUED is sent here,
\* whatever became of the event.  A thread looks at `stopping' between two
\* messages only, and logs that it leaves.
Finish(t) ==
  /\ Alive
  /\ doing[t] \in {"join", "edit", "save"}
  /\ todo[t] = <<>>
  /\ queued' = IF doing[t] = "save" /\ made[t] > queued THEN made[t] ELSE queued
  /\ \/ Stopping /\ LogsLeave(t)
     \/ ~Stopping /\ doing' = [doing EXCEPT ![t] = "receiving"] /\ UNCHANGED todo
  /\ UNCHANGED <<version, saves, made, main, pipe, child, files>>

\* server_shutdown: `stopping' is set and the content copied; the version is
\* read later, without the document's lock; then STOP, and the pipe is closed.
Shutdown ==
  /\ MayStop
  /\ main = "accepting"
  /\ main' = "stopping"
  /\ made' = [made EXCEPT !["main"] = version]
  /\ UNCHANGED <<version, saves, queued, doing, todo, pipe, child, files>>

SaveFinal ==
  /\ main = "stopping"
  /\ main' = "saving"
  /\ LET content == Text(made["main"])
     IN  todo' = [todo EXCEPT !["main"] = PayloadEvent("SAVE_NOW", version, content) \o StopEvent]
  /\ UNCHANGED <<version, saves, queued, doing, made, pipe, child, files>>

\* Slip: the pipe is closed on what is still to be written.
ClosePipeAtOnce ==
  /\ main = "saving"
  /\ main' = "waiting"
  /\ UNCHANGED <<version, saves, queued, doing, made, todo, pipe, child, files>>

ClosePipe ==
  /\ main = "saving"
  /\ todo["main"] = <<>>
  /\ main' = "waiting"
  /\ UNCHANGED <<version, saves, queued, doing, made, todo, pipe, child, files>>

\* waitpid returns, the document is destroyed and the process exits.
Exit ==
  /\ main = "waiting"
  /\ child.at = "exited"
  /\ main' = "done"
  /\ UNCHANGED <<version, saves, queued, doing, made, todo, pipe, child, files>>

KillServer ==
  /\ MayCrash
  /\ main # "done"
  /\ main' = "killed"
  /\ UNCHANGED <<version, saves, queued, doing, made, todo, pipe, child, files>>

-----------------------------------------------------------------------------
(* The child: autosave_loop *)

NoText == <<[of |-> "none"]>>  \* no such file, nothing remembered

ChildGoes(place) == child' = [child EXCEPT !.at = place]

Drop(n) == pipe' = SubSeq(pipe, n + 1, Len(pipe))

\* Reading a line.  It ends with the newline of the next header or, where
\* headers and payloads got mixed up, with a newline of a text.
LineEnds(n) ==
  /\ n \in DOMAIN pipe
  /\ pipe[n].of # "log"
  /\ \A i \in 1 .. n - 1 : ~EndsHeader(pipe[i])

WholeHeader(n) == n = 2 /\ IsHeader(pipe[1]) /\ EndsHeader(pipe[2])

TakeEvent(name, byte) ==
  child' = [child EXCEPT !.at = "payload", !.event = name,
                         !.version = byte.version, !.len = byte.len]

\* A proper header is obeyed; STOP saves what is remembered, and exits.
ReadHeader ==
  /\ child.at = "select"
  /\ \E n \in DOMAIN pipe :
       /\ LineEnds(n)
       /\ WholeHeader(n)
       /\ Drop(n)
       /\ IF pipe[n].event # "STOP" THEN TakeEvent(pipe[n].event, pipe[n])
          ELSE IF child.latest = NoText THEN ChildGoes("exited")
          ELSE child' = [child EXCEPT !.at = "write", !.event = "STOP", !.path = "autosave"]
  /\ UNCHANGED <<server, files>>

\* Any other line is no event unless sscanf makes one of it: one no code
\* knows, or the header's own when what comes before it is blank.  A line
\* that does not fit the buffer ends the loop.
ReadGarbage ==
  /\ child.at = "select"
  /\ \E n \in DOMAIN pipe :
       /\ LineEnds(n)
       /\ ~WholeHeader(n)
       /\ IsHeader(pipe[n]) => EndsHeader(pipe[n])
       /\ Drop(n)
       /\ \/ UNCHANGED child
          \/ /\ \E i \in 1 .. n : ~IsHeader(pipe[i])
             /\ ChildGoes("exited")
          \/ /\ EndsHeader(pipe[n])
             /\ pipe[n].event # "STOP"
             /\ \/ TakeEvent("unknown", pipe[n])
                \/ n > 1 /\ IsHeader(pipe[n - 1]) /\ TakeEvent(pipe[n].event, pipe[n])
  /\ UNCHANGED <<server, files>>

\* Slip: a payload that is cut off is waited for.
EndOfLine ==
  /\ Closed
  /\ child.at = "select" /\ \A i \in DOMAIN pipe : ~EndsHeader(pipe[i])
  /\ pipe' = <<>>
  /\ ChildGoes("exited")
  /\ UNCHANGED <<server, files>>

\* The pipe ends before the line or the payload does.
EndOfPipe ==
  /\ Closed
  /\ \/ child.at = "select" /\ \A i \in DOMAIN pipe : ~EndsHeader(pipe[i])
     \/ child.at = "payload" /\ Len(pipe) < child.len
  /\ pipe' = <<>>
  /\ ChildGoes("exited")
  /\ UNCHANGED <<server, files>>

\* Slip: a text to save is only remembered.
ReadToRemember ==
  /\ child.at = "payload"
  /\ Len(pipe) >= child.len
  /\ Drop(child.len)
  /\ child' = IF child.event \notin {"SNAPSHOT", "SAVE_NOW"} THEN [child EXCEPT !.at = "select"]
              ELSE [child EXCEPT !.at = "select",
                                 !.latest = SubSeq(pipe, 1, child.len),
                                 !.latestVersion = child.version]
  /\ UNCHANGED <<server, files>>

ReadPayload ==
  /\ child.at = "payload"
  /\ Len(pipe) >= child.len
  /\ Drop(child.len)
  /\ child' = IF child.event \notin {"SNAPSHOT", "SAVE_NOW"} THEN [child EXCEPT !.at = "select"]
              ELSE [child EXCEPT !.at = IF child.event = "SNAPSHOT" THEN "select" ELSE "backup",
                                 !.path = "document",
                                 !.latest = SubSeq(pipe, 1, child.len),
                                 !.latestVersion = child.version]
  /\ UNCHANGED <<server, files>>

\* The timer: what is remembered goes to .autosave.
Tick ==
  /\ child.at = "select"
  /\ child.latest # NoText
  /\ child' = [child EXCEPT !.at = "write", !.event = "tick", !.path = "autosave"]
  /\ UNCHANGED <<server, pipe, files>>

\* Slips: the file is moved to .bak, not copied; the text that goes to .bak is
\* the new one.
BackupByMoving ==
  /\ \/ /\ child.at = "backup"
        /\ files' = [files EXCEPT !["bak"] = files["document"], !["document"] = NoText]
     \/ DiskMayFail /\ child.at = "backup" /\ UNCHANGED files
  /\ ChildGoes("write")
  /\ UNCHANGED <<server, pipe>>

BackupOfTheNew ==
  /\ child.at = "backup"
  /\ files' = [files EXCEPT !["bak"] = IF files["document"] = NoText THEN @ ELSE child.latest]
  /\ ChildGoes("write")
  /\ UNCHANGED <<server, pipe>>

\* Slip: .bak is emptied, and nothing copied.
BackupOfNothing ==
  /\ child.at = "backup"
  /\ ChildGoes("write")
  /\ files' = [files EXCEPT !["bak"] = IF files["document"] = NoText THEN @ ELSE <<>>]
  /\ UNCHANGED <<server, pipe>>

\* ts_write_with_backup.  copy_file does not look at what fclose says: a
\* copy the disk could not take in full counts as one.  child.cutShort is a
\* history variable: the last copy may be such a one.
Backup ==
  /\ \/ /\ child.at = "backup" /\ files["document"] = NoText
        /\ ChildGoes("write")
        /\ UNCHANGED files
     \/ /\ child.at = "backup" /\ files["document"] # NoText
        /\ ChildGoes("copy")
        /\ files' = [files EXCEPT !["bak"] = <<>>]
     \/ /\ child.at = "copy"
        /\ child' = [child EXCEPT !.at = "write", !.cutShort = FALSE]
        /\ files' = [files EXCEPT !["bak"] = files["document"]]
     \/ /\ DiskMayFail /\ child.at = "backup"
        /\ ChildGoes("wrote")
        /\ UNCHANGED files
     \/ /\ DiskMayFail /\ child.at = "copy"
        /\ \E place \in {"write", "wrote"} :
             child' = [child EXCEPT !.at = place, !.cutShort = TRUE]
        /\ \E n \in 0 .. Len(files["document"]) :
             files' = [files EXCEPT !["bak"] = SubSeq(files["document"], 1, n)]
  /\ UNCHANGED <<server, pipe>>

\* Slip: the text is written to the file itself.
InPlace == [document |-> "document", autosave |-> "autosave"]

TmpOf == [document |-> "tmp", autosave |-> "autosave.tmp"]

\* ts_atomic_write_text, to `path': a new .tmp, its content, the rename.
\* child.saved is a history variable: the version last renamed to the file.
AtomicWrite ==
  LET tmp == TmpOf[child.path]
  IN  /\ \/ /\ child.at = "write"
            /\ ChildGoes("fill")
            /\ files' = [files EXCEPT ![tmp] = <<>>]
         \/ /\ child.at = "fill"
            /\ ChildGoes("rename")
            /\ files' = [files EXCEPT ![tmp] = child.latest]
         \/ /\ child.at = "rename"
            /\ child' = [child EXCEPT !.at = "wrote",
                                      !.saved = IF child.path = "document" THEN child.latestVersion ELSE @]
            /\ files' = [files EXCEPT ![child.path] = files[tmp], ![tmp] = NoText]
         \/ /\ DiskMayFail /\ child.at \in {"write", "rename"}
            /\ ChildGoes("wrote")
            /\ UNCHANGED files
         \/ /\ DiskMayFail /\ child.at = "fill"
            /\ ChildGoes("wrote")
            /\ \E n \in 0 .. Len(child.latest) :
                 files' = [files EXCEPT ![tmp] = SubSeq(child.latest, 1, n)]
      /\ UNCHANGED <<server, pipe>>

\* Nobody looks at what became of the write.
Wrote ==
  /\ child.at = "wrote"
  /\ ChildGoes(IF child.event = "STOP" THEN "exited" ELSE "select")
  /\ UNCHANGED <<server, pipe, files>>

KillChild ==
  /\ MayCrash
  /\ child.at # "exited"
  /\ ChildGoes("exited")
  /\ UNCHANGED <<server, pipe, files>>

-----------------------------------------------------------------------------

\* The main thread has sent the text it was started on: that of the file, or
\* the empty text where there is none.  Nobody has joined.
Init ==
  /\ version = 0 /\ saves = 0 /\ queued = 0
  /\ doing = [t \in Threads |-> "accepted"]
  /\ made = [w \in Writers |-> 0]
  /\ todo = [w \in Writers |-> <<>>]
  /\ main = "accepting"
  /\ pipe = Header("SNAPSHOT", 0, Length[0]) \o Text(0)
  /\ child = [at |-> "select", event |-> "", version |-> 0, len |-> 0, path |-> "document",
              latest |-> NoText, latestVersion |-> 0, saved |-> 0, cutShort |-> FALSE]
  /\ \E initial \in IF Length[0] = 0 THEN {Text(0), NoText} ELSE {Text(0)} :
       files = [f \in {"document", "bak", "tmp", "autosave", "autosave.tmp"} |->
                  IF f = "document" THEN initial ELSE NoText]

ServerStep ==
  \/ \E w \in Writers : Write(w)
  \/ \E t \in Threads : Finish(t)
  \/ SaveFinal \/ ClosePipe \/ Exit

ChildStep == ReadHeader \/ ReadGarbage \/ EndOfPipe \/ ReadPayload \/ Backup \/ AtomicWrite \/ Wrote

Next ==
  \/ ServerStep
  \/ \E t \in Threads : Join(t) \/ Edit(t) \/ Save(t) \/ Leave(t)
  \/ Shutdown \/ KillServer
  \/ ChildStep \/ Tick \/ KillChild

Spec == Init /\ [][Next]_vars

\* The server's threads and the child go on while they can.  The loop looks
\* at the pipe once between two ticks of the timer, so ticks cannot keep the
\* child from reading.
Fairness ==
  /\ WF_vars(ServerStep)
  /\ WF_vars(ChildStep)
  /\ SF_vars(ReadHeader \/ ReadGarbage \/ EndOfPipe)

FairSpec == Spec /\ Fairness

-----------------------------------------------------------------------------
(* Properties *)

Bytes ==
  [of : {"text", "log"}, version : 0 .. MaxVersion, at : Nat]
    \cup [of : {"header"}, event : {"SNAPSHOT", "SAVE_NOW", "LOG", "STOP"},
          version : 0 .. MaxVersion, len : Nat, at : {1, 2}]

Places ==
  {"select", "payload", "backup", "copy", "write", "fill", "rename", "wrote", "exited"}

TypeOK ==
  /\ {version, queued} \subseteq 0 .. MaxVersion
  /\ saves \in 0 .. MaxSaves
  /\ doing \in [Threads -> {"accepted", "join", "receiving", "edit", "save", "gone"}]
  /\ made \in [Writers -> 0 .. MaxVersion]
  /\ todo \in [Writers -> Seq(Seq(Bytes))]
  /\ main \in {"accepting", "stopping", "saving", "waiting", "done", "killed"}
  /\ pipe \in Seq(Bytes)
  /\ child.at \in Places
  /\ child.path \in DOMAIN TmpOf
  /\ child.latest \in Seq(Bytes) \cup {NoText}
  /\ child.saved \in 0 .. MaxVersion /\ child.cutShort \in BOOLEAN
  /\ \A f \in DOMAIN files : files[f] \in Seq(Bytes) \cup {NoText}

Texts == {Text(v) : v \in 0 .. MaxVersion}

\* The file has the text of version v or of a later one.
Saved(v) == v <= child.saved /\ files["document"] = Text(child.saved)

\* The file and the autosave are complete texts of the document, whenever the
\* child is killed: half a text only ever stands in a .tmp or a .bak file
\* (ts_atomic_write_text).  With one writer the frames cannot mix.
FilesAreWhole == {files["document"], files["autosave"]} \subseteq Texts \cup {NoText}

\* Nothing destroys the last copy: the file is replaced in one step, by the
\* text the child was handed, and only when .bak has the very text that is
\* replaced; a beginning of it does only where the disk failed during the copy
\* (ts_write_with_backup backs up before ts_atomic_write_text renames).
ReplacedAsAWhole ==
  [][files'["document"] # files["document"] =>
       /\ files'["document"] = child.latest
       /\ \/ files["document"] \in {NoText, files["bak"]}
          \/ /\ DiskMayFail /\ child.cutShort
             /\ IsPrefix(files["bak"], files["document"])]_vars

\* Once nothing is under way, what the child remembers is the document.
CatchesUp ==
  /\ main = "accepting" /\ \A t \in Threads : todo[t] = <<>>
  /\ child.at = "select" /\ pipe = <<>>
  => child.latest = Text(version) /\ child.latestVersion = version

\* What is saved is never older than what was saved before, and what is
\* remembered never older than what was (one thread's events stay in order).
NothingGetsOlder ==
  [][/\ child'.latestVersion >= child.latestVersion
     /\ \A v \in 0 .. MaxVersion : Saved(v) => Saved(v)']_vars

\* A save that was answered with SAVE_QUEUED before the server was told to stop
\* reaches the file (version 0 is there from the start).
QueuedSavesHappen ==
  \A v \in 1 .. MaxVersion : queued = v /\ main = "accepting" ~> Saved(v)

\* A server told to stop does stop: whatever became of the events in the
\* pipe, its end releases a child that waits for a payload, and the child's
\* exit the waitpid of ts_stop_autosave_process.
StopTerminates == main = "stopping" ~> main = "done"

\* A server told to stop saves the text it copied, unless a thread writes to
\* the pipe meanwhile: an edit may come after the copy, and any event, be it
\* that a client left, may come between the header and the text of the last
\* save (server_shutdown, server_log).
StopSavesTheText ==
  \A v \in 1 .. MaxVersion :
    main = "stopping" /\ version = v /\ made["main"] = v /\ (\A t \in Threads : todo[t] = <<>>)
      ~> Saved(v) \/ \E t \in Threads : todo[t] # <<>>

-----------------------------------------------------------------------------
(* What the source says of saving *)

\* A payload follows its header (autosave.c:193): what the child takes for a
\* text is one.
PayloadFollowsItsHeader == child.latest \in Texts \cup {NoText}
===============================================================================
