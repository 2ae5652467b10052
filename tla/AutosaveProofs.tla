---------------------------- MODULE AutosaveProofs ----------------------------
(* Proofs about Autosave: the types of its state and the way the child     *)
(* replaces a file, for any number of threads; what the child remembers    *)
(* and saves, for one.                                                     *)
EXTENDS Autosave, SequenceTheorems, TLAPS

-----------------------------------------------------------------------------
(* Types *)

\* The events of send_payload_event, a line taken for another event, what the
\* child writes for (autosave_loop).
Events == {"SNAPSHOT", "SAVE_NOW", "LOG", "STOP", "unknown", "tick", ""}

Disk == {"document", "bak", "tmp", "autosave", "autosave.tmp"}
Contents == Seq(Bytes) \cup {NoText}

ChildType ==
  [at : Places, event : Events, version : 0 .. MaxVersion, len : Nat,
   path : {"document", "autosave"}, latest : Contents, latestVersion : 0 .. MaxVersion,
   saved : 0 .. MaxVersion, cutShort : BOOLEAN]

\* Where a thread is in client_thread_main.
Doings == {"accepted", "join", "receiving", "edit", "save", "gone"}

\* The types TypeOK states, and those of the child's other fields and of the
\* names of the files.
ServerTyped ==
  /\ version \in 0 .. MaxVersion /\ queued \in 0 .. MaxVersion /\ saves \in 0 .. MaxSaves
  /\ doing \in [Threads -> Doings]
  /\ made \in [Writers -> 0 .. MaxVersion]
  /\ todo \in [Writers -> Seq(Seq(Bytes))]
  /\ main \in {"accepting", "stopping", "saving", "waiting", "done", "killed"}
  /\ pipe \in Seq(Bytes)

ChildTyped == child \in ChildType /\ files \in [Disk -> Contents]

\* How far the child is with replacing a file: when it renames, the .tmp holds
\* what is to be saved; and before it touches the file itself, .bak is a copy
\* of it, cut short only where the disk failed to take the last copy in full
\* (ts_write_with_backup).
BackedUp ==
  \/ files["document"] \in {NoText, files["bak"]}
  \/ DiskMayFail /\ child.cutShort /\ IsPrefix(files["bak"], files["document"])

Replacing ==
  /\ child.at \in {"backup", "copy", "write", "fill", "rename"} => child.latest # NoText
  /\ child.at \in {"backup", "copy"} => child.path = "document"
  /\ child.at = "copy" => files["document"] # NoText
  /\ child.at = "rename" => files[TmpOf[child.path]] = child.latest
  /\ child.at \in {"write", "fill", "rename"} /\ child.path = "document" => BackedUp

DiskInv == ServerTyped /\ ChildTyped /\ Replacing

\* The text of a version is a sequence of bytes as long as Length says
\* (the payload of send_payload_event).
LEMMA TextFacts ==
  ASSUME NEW v \in 0 .. MaxVersion
  PROVE  /\ Text(v) \in Seq(Bytes)
         /\ Len(Text(v)) = Length[v]
         /\ Length[v] \in Nat
         /\ \A i \in 1 .. Length[v] : Text(v)[i] = [of |-> "text", version |-> v, at |-> i]
<1>1. Length[v] \in Nat
  BY AutosaveAssumption
<1>2. \A i \in 1 .. Length[v] : [of |-> "text", version |-> v, at |-> i] \in Bytes
  BY <1>1 DEF Bytes
<1>3. Text(v) \in Seq(Bytes) /\ Len(Text(v)) = Length[v]
  BY <1>1, <1>2, IsASeq DEF Text
<1> QED
  BY <1>1, <1>3 DEF Text

\* A header is two bytes, the second of which ends the line.
LEMMA HeaderFacts ==
  ASSUME NEW e \in {"SNAPSHOT", "SAVE_NOW", "LOG", "STOP"}, NEW v \in 0 .. MaxVersion, NEW n \in Nat
  PROVE  /\ Header(e, v, n) \in Seq(Bytes)
         /\ Len(Header(e, v, n)) = 2
         /\ \A i \in 1 .. 2 :
              Header(e, v, n)[i] = [of |-> "header", event |-> e, version |-> v, len |-> n, at |-> i]
<1>1. \A i \in 1 .. 2 :
        [of |-> "header", event |-> e, version |-> v, len |-> n, at |-> i] \in Bytes
  BY DEF Bytes
<1>2. Header(e, v, n) \in Seq(Bytes) /\ Len(Header(e, v, n)) = 2
  BY <1>1, IsASeq DEF Header
<1> QED
  BY <1>2 DEF Header

\* The log entry of an edit is one byte here.
LEMMA LogEntryFacts ==
  ASSUME NEW v \in 0 .. MaxVersion
  PROVE  LogEntry(v) \in Seq(Bytes) /\ Len(LogEntry(v)) = 1
<1>1. [of |-> "log", version |-> v, at |-> 1] \in Bytes
  BY DEF Bytes
<1> QED
  BY <1>1 DEF LogEntry

\* The writes of one event, of an edit's two and of the last two
\* (send_payload_event, ts_autosave_send_stop).
LEMMA WritesFacts ==
  ASSUME NEW v \in 0 .. MaxVersion, NEW u \in 0 .. MaxVersion
  PROVE  /\ LET q == PayloadEvent("SNAPSHOT", v, Text(u)) \o LogEvent(u)
            IN  /\ q \in Seq(Seq(Bytes)) /\ Len(q) = 4
                /\ q[1] = Header("SNAPSHOT", v, Length[u]) /\ q[2] = Text(u)
                /\ q[3] = Header("LOG", 0, 1) /\ q[4] = LogEntry(u)
         /\ LET q == PayloadEvent("SAVE_NOW", v, Text(u))
            IN  /\ q \in Seq(Seq(Bytes)) /\ Len(q) = 2
                /\ q[1] = Header("SAVE_NOW", v, Length[u]) /\ q[2] = Text(u)
         /\ PayloadEvent("SAVE_NOW", v, Text(u)) \o StopEvent \in Seq(Seq(Bytes))
         /\ LET q == LogEvent(u)
            IN  /\ q \in Seq(Seq(Bytes)) /\ Len(q) = 2
                /\ q[1] = Header("LOG", 0, 1) /\ q[2] = LogEntry(u)
<1>1. Len(Text(u)) = Length[u] /\ Length[u] \in Nat /\ Len(LogEntry(u)) = 1
  BY TextFacts, LogEntryFacts
<1> DEFINE h == Header("SNAPSHOT", v, Length[u])
           k == Header("SAVE_NOW", v, Length[u])
           l == Header("LOG", 0, 1)
           p == Header("STOP", 0, 0)
           t == Text(u)
           e == LogEntry(u)
<1>2. /\ PayloadEvent("SNAPSHOT", v, t) = <<h, t>>
      /\ PayloadEvent("SAVE_NOW", v, t) = <<k, t>>
      /\ LogEvent(u) = <<l, e>>
      /\ StopEvent = <<p>>
  BY <1>1 DEF PayloadEvent, LogEvent, StopEvent
<1>3. 0 \in 0 .. MaxVersion
  BY AutosaveAssumption
<1>4. /\ t \in Seq(Bytes) /\ e \in Seq(Bytes) /\ h \in Seq(Bytes)
      /\ k \in Seq(Bytes) /\ l \in Seq(Bytes) /\ p \in Seq(Bytes)
  BY <1>1, <1>3, TextFacts, LogEntryFacts, HeaderFacts
<1> HIDE DEF h, k, l, p, t, e
<1>5. /\ <<h, t>> \in Seq(Seq(Bytes)) /\ <<k, t>> \in Seq(Seq(Bytes))
      /\ <<l, e>> \in Seq(Seq(Bytes)) /\ <<p>> \in Seq(Seq(Bytes))
  BY <1>4
<1> DEFINE q == <<h, t>> \o <<l, e>>
           r == <<k, t>> \o <<p>>
           w == <<k, t>>
           x == <<l, e>>
<1>6. /\ q \in Seq(Seq(Bytes)) /\ Len(q) = 4
      /\ q[1] = h /\ q[2] = t /\ q[3] = l /\ q[4] = e
  BY <1>5, ConcatProperties
<1>7. r \in Seq(Seq(Bytes))
  BY <1>5, ConcatProperties
<1>8. w \in Seq(Seq(Bytes)) /\ Len(w) = 2 /\ w[1] = k /\ w[2] = t
  BY <1>5
<1>11. x \in Seq(Seq(Bytes)) /\ Len(x) = 2 /\ x[1] = l /\ x[2] = e
  BY <1>5
<1> HIDE DEF q, r, w, x
<1>9. /\ PayloadEvent("SNAPSHOT", v, t) \o LogEvent(u) = q
      /\ PayloadEvent("SAVE_NOW", v, t) \o StopEvent = r
      /\ PayloadEvent("SAVE_NOW", v, t) = w
      /\ LogEvent(u) = x
  BY <1>2 DEF q, r, w, x
<1>10. /\ LET s == PayloadEvent("SNAPSHOT", v, t) \o LogEvent(u)
           IN  /\ s \in Seq(Seq(Bytes)) /\ Len(s) = 4
               /\ s[1] = h /\ s[2] = t /\ s[3] = l /\ s[4] = e
       /\ LET s == PayloadEvent("SAVE_NOW", v, t)
          IN  s \in Seq(Seq(Bytes)) /\ Len(s) = 2 /\ s[1] = k /\ s[2] = t
       /\ PayloadEvent("SAVE_NOW", v, t) \o StopEvent \in Seq(Seq(Bytes))
       /\ LET s == LogEvent(u)
          IN  s \in Seq(Seq(Bytes)) /\ Len(s) = 2 /\ s[1] = l /\ s[2] = e
  BY <1>6, <1>7, <1>8, <1>9, <1>11
<1> QED
  BY <1>10 DEF h, k, l, p, t, e

\* The start: the main thread's text is in the pipe, no file but the document
\* is there.
LEMMA InitDisk == Init => DiskInv
<1> SUFFICES ASSUME Init PROVE DiskInv
  OBVIOUS
<1>1. 0 \in 0 .. MaxVersion /\ MaxSaves \in Nat
  BY AutosaveAssumption
<1>2. Length[0] \in Nat /\ Text(0) \in Seq(Bytes) /\ Header("SNAPSHOT", 0, Length[0]) \in Seq(Bytes)
  BY <1>1, TextFacts, HeaderFacts
<1>3. pipe \in Seq(Bytes)
  BY <1>2, ConcatProperties DEF Init
<1>4. todo \in [Writers -> Seq(Seq(Bytes))]
  <2>1. <<>> \in Seq(Seq(Bytes))
    BY EmptySeq
  <2> QED
    BY <2>1 DEF Init
<1>5. child \in ChildType /\ child.at = "select"
  BY <1>1 DEF Init, ChildType, Events, Places, Contents
<1>6. files \in [Disk -> Contents]
  BY <1>2 DEF Init, Disk, Contents
<1>7. /\ version \in 0 .. MaxVersion /\ queued \in 0 .. MaxVersion /\ saves \in 0 .. MaxSaves
      /\ doing \in [Threads -> Doings]
      /\ made \in [Writers -> 0 .. MaxVersion]
      /\ main \in {"accepting", "stopping", "saving", "waiting", "done", "killed"}
  <2>1. /\ version = 0 /\ saves = 0 /\ queued = 0 /\ main = "accepting"
        /\ doing = [t \in Threads |-> "accepted"] /\ made = [w \in Writers |-> 0]
    BY DEF Init
  <2> QED
    BY ONLY <1>1, <2>1 DEF Doings
<1>8. ServerTyped
  BY <1>3, <1>4, <1>7 DEF ServerTyped
<1> QED
  BY <1>5, <1>6, <1>8 DEF DiskInv, ChildTyped, Replacing

\* What the server's threads and its main thread do keeps the types, the
\* writes yet to make are writes of bytes; and it touches no file.
LEMMA ServerKeeps ==
  ASSUME DiskInv,
         \/ \E t \in Threads : Join(t) \/ Edit(t) \/ Save(t) \/ Leave(t) \/ Finish(t)
         \/ \E w \in Writers : Write(w)
         \/ Shutdown \/ SaveFinal \/ ClosePipe \/ Exit \/ KillServer
  PROVE  DiskInv'
<1>1. ServerTyped /\ MaxVersion \in Nat /\ MaxSaves \in Nat
  BY AutosaveAssumption DEF DiskInv
<1>2. /\ child' = child /\ files' = files
  BY DEF Join, Edit, Save, Leave, Finish, Write, Shutdown, SaveFinal, ClosePipe, Exit, KillServer
<1> SUFFICES ServerTyped'
  BY <1>2 DEF DiskInv, ChildTyped, Replacing, BackedUp
<1>3. ASSUME NEW t \in Threads, Edit(t)
      PROVE  ServerTyped'
  <2> DEFINE q == PayloadEvent("SNAPSHOT", version', Text(version')) \o LogEvent(version')
  <2>1. version' \in 0 .. MaxVersion
    BY <1>1, <1>3 DEF Edit, ServerTyped
  <2>2. q \in Seq(Seq(Bytes))
    BY <2>1, WritesFacts
  <2> HIDE DEF q
  <2>3. todo' = [todo EXCEPT ![t] = q]
    BY <1>3 DEF Edit, q
  <2> QED
    BY <1>1, <1>3, <2>1, <2>2, <2>3 DEF Edit, ServerTyped, Doings
<1>4. ASSUME NEW t \in Threads, Save(t)
      PROVE  ServerTyped'
  <2> DEFINE q == PayloadEvent("SAVE_NOW", version, Text(version))
  <2>1. q \in Seq(Seq(Bytes))
    BY <1>1, WritesFacts DEF ServerTyped
  <2> HIDE DEF q
  <2>2. todo' = [todo EXCEPT ![t] = q]
    BY <1>4 DEF Save, q
  <2>3. todo' \in [Writers -> Seq(Seq(Bytes))]
    BY <1>1, <2>1, <2>2 DEF ServerTyped
  <2>4. /\ saves < MaxSaves /\ saves' = saves + 1
        /\ doing' = [doing EXCEPT ![t] = "save"] /\ made' = [made EXCEPT ![t] = version]
        /\ UNCHANGED <<version, queued, main, pipe>>
    BY <1>4 DEF Save
  <2>5. saves' \in 0 .. MaxSaves
    BY <1>1, <2>4 DEF ServerTyped
  <2>6. doing' \in [Threads -> Doings]
    BY <1>1, <2>4 DEF ServerTyped, Doings
  <2>7. made' \in [Writers -> 0 .. MaxVersion]
    BY <1>1, <2>4 DEF ServerTyped
  <2> QED
    BY <1>1, <2>3, <2>4, <2>5, <2>6, <2>7 DEF ServerTyped
<1>5. CASE SaveFinal
  <2> DEFINE q == PayloadEvent("SAVE_NOW", version, Text(made["main"])) \o StopEvent
  <2>1. made["main"] \in 0 .. MaxVersion
    BY <1>1 DEF Writers, ServerTyped
  <2>2. q \in Seq(Seq(Bytes))
    BY <1>1, <2>1, WritesFacts DEF ServerTyped
  <2> HIDE DEF q
  <2>3. todo' = [todo EXCEPT !["main"] = q]
    BY <1>5 DEF SaveFinal, q
  <2> QED
    BY <1>1, <1>5, <2>2, <2>3 DEF SaveFinal, ServerTyped
<1>6. ASSUME NEW w \in Writers, Write(w)
      PROVE  ServerTyped'
  <2>1. todo[w] \in Seq(Seq(Bytes)) /\ todo[w] # <<>>
    BY <1>1, <1>6 DEF Write, ServerTyped
  <2>2. Head(todo[w]) \in Seq(Bytes) /\ Tail(todo[w]) \in Seq(Seq(Bytes))
    BY <2>1, HeadTailProperties
  <2>3. pipe \o Head(todo[w]) \in Seq(Bytes)
    BY <1>1, <2>2, ConcatProperties DEF ServerTyped
  <2>4. pipe' \in Seq(Bytes) /\ todo' = [todo EXCEPT ![w] = Tail(todo[w])]
    BY <1>1, <1>6, <2>3 DEF Write, ServerTyped
  <2>5. todo' \in [Writers -> Seq(Seq(Bytes))]
    BY <1>1, <2>2, <2>4 DEF ServerTyped
  <2> QED
    BY <1>1, <1>6, <2>4, <2>5 DEF Write, ServerTyped
<1> DEFINE bye == LogEvent(0)
<1>9. bye \in Seq(Seq(Bytes))
  <2>1. 0 \in 0 .. MaxVersion
    BY <1>1
  <2> QED
    BY <2>1, WritesFacts
<1> HIDE DEF bye
<1>10. ASSUME NEW t \in Threads, NEW d \in Doings, UNCHANGED <<version, saves, made, main, pipe>>,
              queued' \in 0 .. MaxVersion, doing' = [doing EXCEPT ![t] = d],
              todo' = [todo EXCEPT ![t] = bye] \/ UNCHANGED todo
       PROVE  ServerTyped'
  <2>1. todo' \in [Writers -> Seq(Seq(Bytes))] /\ doing' \in [Threads -> Doings]
    BY <1>1, <1>9, <1>10 DEF ServerTyped
  <2> QED
    BY <1>1, <1>10, <2>1 DEF ServerTyped
<1>7. ASSUME NEW t \in Threads, Finish(t)
      PROVE  ServerTyped'
  <2>1. made[t] \in 0 .. MaxVersion
    BY <1>1 DEF Writers, ServerTyped
  <2>2. queued' \in 0 .. MaxVersion /\ UNCHANGED <<version, saves, made, main, pipe>>
    BY <1>1, <1>7, <2>1 DEF Finish, ServerTyped
  <2>3. \/ doing' = [doing EXCEPT ![t] = "gone"] /\ todo' = [todo EXCEPT ![t] = bye]
        \/ doing' = [doing EXCEPT ![t] = "receiving"] /\ UNCHANGED todo
    BY <1>7 DEF Finish, LogsLeave, bye
  <2> QED
    BY <1>10, <2>2, <2>3 DEF Doings
<1>11. ASSUME NEW t \in Threads, Join(t) \/ Leave(t)
       PROVE  ServerTyped'
  <2>1. PICK d \in {"join", "gone"} : doing' = [doing EXCEPT ![t] = d]
    BY <1>11 DEF Join, Leave, LogsLeave
  <2>2. /\ todo' = [todo EXCEPT ![t] = bye]
        /\ UNCHANGED <<version, saves, queued, made, main, pipe>>
    BY <1>11 DEF Join, Leave, LogsLeave, bye
  <2>3. queued' \in 0 .. MaxVersion /\ d \in Doings
    BY <1>1, <2>2 DEF ServerTyped, Doings
  <2> QED
    BY <1>10, <2>1, <2>2, <2>3
<1>8. CASE Shutdown \/ ClosePipe \/ Exit \/ KillServer
  BY <1>1, <1>8 DEF Shutdown, ClosePipe, Exit, KillServer, Writers, ServerTyped
<1> QED
  BY <1>3, <1>4, <1>5, <1>6, <1>7, <1>8, <1>11

\* What was read is the beginning of the pipe, what is left the rest of it.
LEMMA BeginningAndRest ==
  ASSUME NEW S, NEW s \in Seq(S), NEW n \in 0 .. Len(s)
  PROVE  /\ SubSeq(s, 1, n) \in Seq(S) /\ Len(SubSeq(s, 1, n)) = n
         /\ \A i \in 1 .. n : SubSeq(s, 1, n)[i] = s[i]
         /\ SubSeq(s, n + 1, Len(s)) \in Seq(S) /\ Len(SubSeq(s, n + 1, Len(s))) = Len(s) - n
         /\ \A i \in 1 .. Len(s) - n : SubSeq(s, n + 1, Len(s))[i] = s[n + i]
<1>1. Len(s) \in Nat /\ n \in Nat /\ n <= Len(s)
  OBVIOUS
<1>2. \A i \in 1 .. Len(s) : s[i] \in S
  BY ElementOfSeq
<1> DEFINE b == SubSeq(s, 1, n)
           r == SubSeq(s, n + 1, Len(s))
<1>3. /\ b \in Seq(S)
      /\ Len(b) = IF 1 <= n THEN n - 1 + 1 ELSE 0
      /\ \A i \in 1 .. n - 1 + 1 : b[i] = s[1 + i - 1]
  <2>1. \A i \in 1 .. n : s[i] \in S
    BY <1>1, <1>2
  <2> QED
    BY <1>1, <2>1, SubSeqProperties
<1>4. /\ r \in Seq(S)
      /\ Len(r) = IF n + 1 <= Len(s) THEN Len(s) - (n + 1) + 1 ELSE 0
      /\ \A i \in 1 .. Len(s) - (n + 1) + 1 : r[i] = s[n + 1 + i - 1]
  <2>1. \A i \in n + 1 .. Len(s) : s[i] \in S
    BY <1>1, <1>2
  <2> QED
    BY <1>1, <2>1, SubSeqProperties
<1> HIDE DEF b, r
<1>5. Len(b) = n /\ \A i \in 1 .. n : b[i] = s[i]
  BY <1>1, <1>3
<1>6. Len(r) = Len(s) - n /\ \A i \in 1 .. Len(s) - n : r[i] = s[n + i]
  <2>1. \A i \in 1 .. Len(s) - n : n + 1 + i - 1 = n + i
    BY <1>1
  <2> QED
    BY <1>1, <1>4, <2>1
<1> QED
  BY <1>3, <1>4, <1>5, <1>6 DEF b, r

\* A copy, whole or cut short, is a prefix of what it is a copy of.
LEMMA CopyIsPrefix ==
  ASSUME NEW S, NEW s \in Seq(S), NEW n \in 0 .. Len(s)
  PROVE  IsPrefix(s, s) /\ IsPrefix(SubSeq(s, 1, n), s)
<1>1. Len(s) \in Nat
  OBVIOUS
<1> DEFINE b == SubSeq(s, 1, n)
<1>2. b \in Seq(S) /\ Len(b) = n
  BY BeginningAndRest
<1> HIDE DEF b
<1>3. SubSeq(b, 1, Len(b)) = b
  BY <1>2, SubSeqFull
<1>4. IsPrefix(b, s)
  BY <1>1, <1>2, <1>3 DEF IsPrefix, b
<1> QED
  BY <1>1, <1>4 DEF IsPrefix, b

\* No file and no text to save is not the same as a text, even the empty one.
LEMMA NoTextIsNoText == NoText \notin Seq(Bytes)
<1>1. [of |-> "none"] \notin Bytes
  <2> SUFFICES ASSUME [of |-> "none"] \in Bytes PROVE FALSE
    OBVIOUS
  <2>1. [of |-> "none"].of \in {"text", "log", "header"}
    BY DEF Bytes
  <2> QED
    BY <2>1
<1>2. ASSUME NoText \in Seq(Bytes) PROVE FALSE
  <2>1. NoText[1] \in Bytes
    BY <1>2, ElementOfSeq DEF NoText
  <2> QED
    BY <1>1, <2>1 DEF NoText
<1> QED
  BY <1>2

-----------------------------------------------------------------------------
(* The child, a step at a time *)

\* The child goes on in autosave_loop, and remembers what it did.
LEMMA GoesEffect ==
  ASSUME child \in ChildType, NEW p \in Places, ChildGoes(p)
  PROVE  /\ child' \in ChildType /\ child'.at = p
         /\ child'.event = child.event /\ child'.version = child.version /\ child'.len = child.len
         /\ child'.path = child.path /\ child'.latest = child.latest
         /\ child'.latestVersion = child.latestVersion
         /\ child'.saved = child.saved /\ child'.cutShort = child.cutShort
BY DEF ChildGoes, ChildType

\* What the child keeps of a header it took: the event, the version and the
\* length (sscanf in autosave_loop).
LEMMA TakesEffect ==
  ASSUME child \in ChildType, NEW e \in Events, NEW byte, byte \in Bytes, IsHeader(byte), TakeEvent(e, byte)
  PROVE  /\ child' \in ChildType /\ child'.at = "payload"
         /\ child'.event = e /\ child'.version = byte.version /\ child'.len = byte.len
         /\ child'.path = child.path /\ child'.latest = child.latest
         /\ child'.latestVersion = child.latestVersion /\ child'.saved = child.saved
<1>1. byte.version \in 0 .. MaxVersion /\ byte.len \in Nat
  BY DEF Bytes, IsHeader
<1>2. child' = [child EXCEPT !.at = "payload", !.event = e, !.version = byte.version, !.len = byte.len]
  BY DEF TakeEvent
<1> QED
  BY <1>1, <1>2 DEF ChildType, Places

\* The bytes of a header say what event it is.
LEMMA HeaderBytes ==
  ASSUME NEW byte \in Bytes, IsHeader(byte)
  PROVE  /\ byte.event \in {"SNAPSHOT", "SAVE_NOW", "LOG", "STOP"} /\ byte.event \in Events
         /\ byte.version \in 0 .. MaxVersion /\ byte.len \in Nat /\ byte.at \in {1, 2}
BY DEF Bytes, IsHeader, Events

\* Reading takes bytes off the pipe and leaves the files alone.
LEMMA ReadHeaderKeeps ==
  ASSUME DiskInv, ReadHeader
  PROVE  DiskInv'
<1>1. child \in ChildType /\ pipe \in Seq(Bytes) /\ child.at = "select"
  BY DEF DiskInv, ServerTyped, ChildTyped, ReadHeader
<1>2. PICK n \in DOMAIN pipe :
        /\ LineEnds(n)
        /\ WholeHeader(n)
        /\ Drop(n)
        /\ IF pipe[n].event # "STOP" THEN TakeEvent(pipe[n].event, pipe[n])
           ELSE IF child.latest = NoText THEN ChildGoes("exited")
           ELSE child' = [child EXCEPT !.at = "write", !.event = "STOP", !.path = "autosave"]
  BY DEF ReadHeader
<1>3. n = 2 /\ IsHeader(pipe[n]) /\ pipe[n] \in Bytes /\ n \in 0 .. Len(pipe)
  <2>1. n = 2 /\ IsHeader(pipe[n])
    BY <1>2 DEF WholeHeader, EndsHeader, IsHeader
  <2>2. pipe[n] \in Bytes /\ n \in 0 .. Len(pipe)
    BY <1>1, ElementOfSeq
  <2> QED
    BY <2>1, <2>2
<1>4. pipe' \in Seq(Bytes)
  BY <1>1, <1>2, <1>3, BeginningAndRest DEF Drop
<1>5. /\ child' \in ChildType
      /\ child'.latest = child.latest
      /\ \/ child'.at \in {"payload", "exited"}
         \/ child'.at = "write" /\ child'.path = "autosave" /\ child'.latest # NoText
  <2>1. CASE pipe[n].event # "STOP"
    BY <1>1, <1>2, <1>3, <2>1, HeaderBytes, TakesEffect
  <2>2. CASE pipe[n].event = "STOP" /\ child.latest = NoText
    BY <1>1, <1>2, <2>2, GoesEffect DEF Places
  <2>3. CASE pipe[n].event = "STOP" /\ child.latest # NoText
    BY <1>1, <1>2, <2>3 DEF ChildType, Places, Events
  <2> QED
    BY <2>1, <2>2, <2>3
<1>6. ServerTyped' /\ files' = files
  BY <1>4 DEF ReadHeader, DiskInv, ServerTyped, server
<1> QED
  BY <1>5, <1>6 DEF DiskInv, ChildTyped, Replacing

\* A line that is no proper header leaves the child reading, at a payload, or
\* out of the loop.
LEMMA ReadGarbageKeeps ==
  ASSUME DiskInv, ReadGarbage
  PROVE  DiskInv'
<1>1. child \in ChildType /\ pipe \in Seq(Bytes) /\ child.at = "select"
  BY DEF DiskInv, ServerTyped, ChildTyped, ReadGarbage
<1>2. PICK n \in DOMAIN pipe :
        /\ Drop(n)
        /\ \/ UNCHANGED child
           \/ ChildGoes("exited")
           \/ /\ EndsHeader(pipe[n])
              /\ \/ TakeEvent("unknown", pipe[n])
                 \/ TakeEvent(pipe[n].event, pipe[n])
  BY DEF ReadGarbage
<1>3. pipe[n] \in Bytes /\ n \in 0 .. Len(pipe)
  BY <1>1, <1>2, ElementOfSeq
<1>4. pipe' \in Seq(Bytes)
  BY <1>1, <1>2, <1>3, BeginningAndRest DEF Drop
<1>5. child' \in ChildType /\ child'.at \in {"select", "payload", "exited"}
  <2>1. CASE UNCHANGED child
    BY <1>1, <2>1
  <2>2. CASE ChildGoes("exited")
    BY <1>1, <2>2, GoesEffect DEF Places
  <2>3. CASE /\ EndsHeader(pipe[n])
             /\ TakeEvent("unknown", pipe[n]) \/ TakeEvent(pipe[n].event, pipe[n])
    <3>1. IsHeader(pipe[n]) /\ "unknown" \in Events
      BY <2>3 DEF EndsHeader, IsHeader, Events
    <3>2. pipe[n].event \in Events
      BY <1>3, <3>1, HeaderBytes
    <3> QED
      BY <1>1, <1>3, <2>3, <3>1, <3>2, TakesEffect
  <2> QED
    BY <1>2, <2>1, <2>2, <2>3
<1>6. ServerTyped' /\ files' = files
  BY <1>4 DEF ReadGarbage, DiskInv, ServerTyped, server
<1> QED
  BY <1>5, <1>6 DEF DiskInv, ChildTyped, Replacing

\* At the end of the pipe the child exits and leaves the files alone
\* (autosave_loop).
LEMMA EndOfPipeKeeps ==
  ASSUME DiskInv, EndOfPipe
  PROVE  DiskInv'
<1>1. child' \in ChildType /\ child'.at = "exited"
  BY GoesEffect DEF DiskInv, ChildTyped, EndOfPipe, Places
<1>2. pipe' \in Seq(Bytes)
  BY EmptySeq DEF EndOfPipe
<1>3. ServerTyped' /\ files' = files
  BY <1>2 DEF EndOfPipe, DiskInv, ServerTyped, server
<1> QED
  BY <1>1, <1>3 DEF DiskInv, ChildTyped, Replacing

\* What is read becomes what is remembered; a text to save is saved at once.
LEMMA ReadPayloadEffect ==
  ASSUME child \in ChildType, pipe \in Seq(Bytes), ReadPayload
  PROVE  /\ pipe' \in Seq(Bytes) /\ child' \in ChildType /\ child'.saved = child.saved
         /\ \/ /\ child.event \notin {"SNAPSHOT", "SAVE_NOW"}
               /\ child'.at = "select"
               /\ child'.latest = child.latest /\ child'.latestVersion = child.latestVersion
            \/ /\ child.event \in {"SNAPSHOT", "SAVE_NOW"}
               /\ child'.at \in {"select", "backup"} /\ child'.path = "document"
               /\ child'.latest = SubSeq(pipe, 1, child.len) /\ child'.latest \in Seq(Bytes)
               /\ child'.latestVersion = child.version
<1>1. child.len \in 0 .. Len(pipe)
  BY DEF ReadPayload, ChildType
<1>2. pipe' \in Seq(Bytes)
  BY <1>1, BeginningAndRest DEF ReadPayload, Drop
<1>3. SubSeq(pipe, 1, child.len) \in Seq(Bytes)
  BY <1>1, BeginningAndRest
<1>4. CASE child.event \notin {"SNAPSHOT", "SAVE_NOW"}
  <2>1. child' = [child EXCEPT !.at = "select"]
    BY <1>4 DEF ReadPayload
  <2> QED
    BY <1>2, <1>4, <2>1 DEF ChildType, Places
<1>5. CASE child.event \in {"SNAPSHOT", "SAVE_NOW"}
  <2> DEFINE t == SubSeq(pipe, 1, child.len)
             p == IF child.event = "SNAPSHOT" THEN "select" ELSE "backup"
  <2>1. child' = [child EXCEPT !.at = p, !.path = "document", !.latest = t, !.latestVersion = child.version]
    BY <1>5 DEF ReadPayload
  <2>2. t \in Contents /\ p \in Places /\ p \in {"select", "backup"}
    BY <1>3 DEF Contents, Places
  <2> HIDE DEF t, p
  <2>3. /\ child' \in ChildType /\ child'.at = p /\ child'.path = "document"
        /\ child'.latest = t /\ child'.latestVersion = child.version /\ child'.saved = child.saved
    BY <2>1, <2>2 DEF ChildType
  <2> QED
    BY <1>2, <1>3, <1>5, <2>2, <2>3 DEF t
<1> QED
  BY <1>4, <1>5

\* A payload read: the files wait for ts_write_with_backup.
LEMMA ReadPayloadKeeps ==
  ASSUME DiskInv, ReadPayload
  PROVE  DiskInv'
<1>1. child \in ChildType /\ pipe \in Seq(Bytes)
  BY DEF DiskInv, ServerTyped, ChildTyped
<1>2. ServerTyped' /\ files' = files
  BY <1>1, ReadPayloadEffect DEF ReadPayload, DiskInv, ServerTyped, server
<1>3. /\ child' \in ChildType
      /\ \/ child'.at = "select"
         \/ child'.at = "backup" /\ child'.path = "document" /\ child'.latest # NoText
  BY <1>1, ReadPayloadEffect, NoTextIsNoText
<1> QED
  BY <1>2, <1>3 DEF DiskInv, ChildTyped, Replacing

\* The timer has something to write: there is no tick before the first text.
LEMMA TickKeeps ==
  ASSUME DiskInv, Tick
  PROVE  DiskInv'
<1>1. child \in ChildType /\ child.at = "select" /\ child.latest # NoText
  BY DEF DiskInv, ChildTyped, Tick
<1>2. child' \in ChildType /\ child'.at = "write" /\ child'.path = "autosave" /\ child'.latest = child.latest
  BY <1>1 DEF Tick, ChildType, Places, Events
<1>3. ServerTyped' /\ files' = files
  BY DEF Tick, DiskInv, ServerTyped, server
<1> QED
  BY <1>1, <1>2, <1>3 DEF DiskInv, ChildTyped, Replacing

\* A file gets new contents, the others keep theirs.
LEMMA FileWritten ==
  ASSUME files \in [Disk -> Contents], NEW f \in Disk, NEW t \in Contents,
         files' = [files EXCEPT ![f] = t]
  PROVE  /\ files' \in [Disk -> Contents]
         /\ files'[f] = t
         /\ \A g \in Disk : g # f => files'[g] = files[g]
OBVIOUS

\* The copy to .bak, whole or cut short, is made before the file is touched
\* (copy_file in ts_write_with_backup).
LEMMA BackupKeeps ==
  ASSUME DiskInv, Backup
  PROVE  DiskInv' /\ UNCHANGED <<files["document"], files["autosave"], child.saved>>
<1>1. /\ child \in ChildType /\ files \in [Disk -> Contents] /\ child.at \in {"backup", "copy"}
      /\ child.latest # NoText /\ child.path = "document"
  BY DEF DiskInv, ChildTyped, Replacing, Backup
<1>2. ServerTyped'
  BY DEF Backup, DiskInv, ServerTyped, server
<1>3. \A d \in Disk : files[d] \in Contents
  BY <1>1
<1>4. CASE child.at = "backup" /\ files["document"] = NoText /\ ChildGoes("write") /\ UNCHANGED files
  <2>1. /\ child' \in ChildType /\ child'.at = "write" /\ child'.path = "document"
        /\ child'.latest = child.latest /\ child'.saved = child.saved
    BY <1>1, <1>4, GoesEffect DEF Places
  <2> QED
    BY <1>1, <1>2, <1>4, <2>1 DEF DiskInv, ChildTyped, Replacing, BackedUp
<1>5. CASE /\ child.at = "backup" /\ files["document"] # NoText /\ ChildGoes("copy")
           /\ files' = [files EXCEPT !["bak"] = <<>>]
  <2>1. /\ child' \in ChildType /\ child'.at = "copy" /\ child'.path = "document"
        /\ child'.latest = child.latest /\ child'.saved = child.saved
    BY <1>1, <1>5, GoesEffect DEF Places
  <2>2. files' \in [Disk -> Contents] /\ UNCHANGED <<files["document"], files["autosave"]>>
    BY <1>1, <1>5, EmptySeq, FileWritten DEF Disk, Contents
  <2> QED
    BY <1>1, <1>2, <1>5, <2>1, <2>2 DEF DiskInv, ChildTyped, Replacing
<1>6. ASSUME NEW t \in Contents, NEW p \in {"write", "wrote"}, NEW cut \in BOOLEAN,
             child' = [child EXCEPT !.at = p, !.cutShort = cut],
             files' = [files EXCEPT !["bak"] = t],
             t = files["document"] \/ (DiskMayFail /\ cut /\ IsPrefix(t, files["document"]))
      PROVE  DiskInv' /\ UNCHANGED <<files["document"], files["autosave"], child.saved>>
  <2>1. /\ child' \in ChildType /\ child'.at \in {"write", "wrote"} /\ child'.path = "document"
        /\ child'.latest = child.latest /\ child'.cutShort = cut /\ child'.saved = child.saved
    BY <1>1, <1>6 DEF ChildType, Places
  <2>2. /\ files' \in [Disk -> Contents] /\ UNCHANGED <<files["document"], files["autosave"]>>
        /\ files'["bak"] = t
    BY <1>1, <1>6, FileWritten DEF Disk
  <2>3. BackedUp'
    BY <1>6, <2>1, <2>2 DEF BackedUp
  <2> QED
    BY <1>1, <1>2, <2>1, <2>2, <2>3 DEF DiskInv, ChildTyped, Replacing
<1>7. CASE /\ child.at = "copy" /\ child' = [child EXCEPT !.at = "write", !.cutShort = FALSE]
           /\ files' = [files EXCEPT !["bak"] = files["document"]]
  <2>1. files["document"] \in Contents
    BY <1>3 DEF Disk
  <2> QED
    BY <1>6, <1>7, <2>1
<1>8. CASE child.at = "backup" /\ ChildGoes("wrote") /\ UNCHANGED files
  <2>1. child' \in ChildType /\ child'.at = "wrote" /\ child'.saved = child.saved
    BY <1>1, <1>8, GoesEffect DEF Places
  <2> QED
    BY <1>1, <1>2, <1>8, <2>1 DEF DiskInv, ChildTyped, Replacing
<1>9. CASE /\ DiskMayFail /\ child.at = "copy"
           /\ \E place \in {"write", "wrote"} :
                child' = [child EXCEPT !.at = place, !.cutShort = TRUE]
           /\ \E n \in 0 .. Len(files["document"]) :
                files' = [files EXCEPT !["bak"] = SubSeq(files["document"], 1, n)]
  <2>1. files["document"] \in Seq(Bytes)
    BY <1>3, <1>9 DEF DiskInv, Replacing, Contents, Disk
  <2>2. PICK n \in 0 .. Len(files["document"]) :
               files' = [files EXCEPT !["bak"] = SubSeq(files["document"], 1, n)]
    BY <1>9
  <2>3. /\ SubSeq(files["document"], 1, n) \in Contents
        /\ IsPrefix(SubSeq(files["document"], 1, n), files["document"])
    BY <2>1, CopyIsPrefix, BeginningAndRest DEF Contents
  <2>4. PICK p \in {"write", "wrote"} : child' = [child EXCEPT !.at = p, !.cutShort = TRUE]
    BY <1>9
  <2> QED
    BY <1>6, <1>9, <2>2, <2>3, <2>4
<1> QED
  BY <1>4, <1>5, <1>7, <1>8, <1>9 DEF Backup

\* The file stays what it was, or the child renames a .tmp to it: the only step
\* that counts as a save.
FileKept == files'["document"] = files["document"] /\ child'.saved = child.saved
FileRenamed ==
  /\ child.path = "document" /\ child.latest # NoText /\ BackedUp
  /\ files'["document"] = child.latest
  /\ child'.saved = child.latestVersion /\ child'.latestVersion = child.latestVersion

\* The content goes to the .tmp; only the rename touches the file, and it puts
\* there what was to be saved (ts_atomic_write_text).
LEMMA AtomicWriteKeeps ==
  ASSUME DiskInv, AtomicWrite
  PROVE  /\ DiskInv'
         /\ FileKept \/ FileRenamed
         /\ files'["autosave"] # files["autosave"] => files'["autosave"] = child.latest
<1> DEFINE tmp == TmpOf[child.path]
<1>1. /\ child \in ChildType /\ files \in [Disk -> Contents] /\ child.at \in {"write", "fill", "rename"}
      /\ child.latest # NoText /\ child.latest \in Contents
      /\ child.path = "document" => BackedUp
      /\ child.at = "rename" => files[tmp] = child.latest
  BY DEF DiskInv, ChildTyped, Replacing, AtomicWrite, ChildType
<1>2. /\ tmp \in Disk /\ child.path \in Disk /\ tmp \notin {"document", "bak", "autosave"}
      /\ child.path \in {"document", "autosave"}
  BY <1>1 DEF TmpOf, Disk, ChildType
<1>3. ServerTyped'
  BY DEF AtomicWrite, DiskInv, ServerTyped, server
<1>4. "document" \in Disk /\ "bak" \in Disk /\ "autosave" \in Disk
  BY DEF Disk
<1> HIDE DEF tmp
<1>5. ASSUME NEW p \in Places, ChildGoes(p), NEW t \in Contents, files' = [files EXCEPT ![tmp] = t],
             p \in {"fill", "rename", "wrote"}, p = "rename" => t = child.latest
      PROVE  /\ DiskInv' /\ FileKept
             /\ files'["autosave"] = files["autosave"]
  <2>1. /\ files' \in [Disk -> Contents] /\ files'[tmp] = t
        /\ files'["document"] = files["document"] /\ files'["bak"] = files["bak"]
        /\ files'["autosave"] = files["autosave"]
    BY <1>1, <1>2, <1>4, <1>5, FileWritten
  <2>2. /\ child' \in ChildType /\ child'.at = p /\ child'.path = child.path
        /\ child'.latest = child.latest /\ child'.saved = child.saved
        /\ child'.cutShort = child.cutShort
    BY <1>1, <1>5, GoesEffect
  <2>3. BackedUp' <=> BackedUp
    BY <2>1, <2>2 DEF BackedUp
  <2> QED
    BY <1>1, <1>3, <1>5, <2>1, <2>2, <2>3 DEF DiskInv, ChildTyped, Replacing, FileKept, tmp
<1>6. CASE child.at = "write" /\ ChildGoes("fill") /\ files' = [files EXCEPT ![tmp] = <<>>]
  <2>1. <<>> \in Contents /\ "fill" \in Places
    BY EmptySeq DEF Contents, Places
  <2> QED
    BY <1>5, <1>6, <2>1
<1>7. CASE child.at = "fill" /\ ChildGoes("rename") /\ files' = [files EXCEPT ![tmp] = child.latest]
  <2>1. "rename" \in Places
    BY DEF Places
  <2> QED
    BY <1>1, <1>5, <1>7, <2>1
<1>8. CASE /\ child.at = "rename"
           /\ child' = [child EXCEPT !.at = "wrote",
                                     !.saved = IF child.path = "document" THEN child.latestVersion ELSE @]
           /\ files' = [files EXCEPT ![child.path] = files[tmp], ![tmp] = NoText]
  <2>1. /\ child' \in ChildType /\ child'.at = "wrote" /\ child'.latestVersion = child.latestVersion
        /\ child'.saved = IF child.path = "document" THEN child.latestVersion ELSE child.saved
    <3> DEFINE v == IF child.path = "document" THEN child.latestVersion ELSE child.saved
    <3>1. v \in 0 .. MaxVersion /\ child' = [child EXCEPT !.at = "wrote", !.saved = v]
      BY <1>1, <1>8 DEF ChildType
    <3> HIDE DEF v
    <3>2. /\ child' \in ChildType /\ child'.at = "wrote" /\ child'.saved = v
          /\ child'.latestVersion = child.latestVersion
      BY <1>1, <3>1 DEF ChildType, Places
    <3> QED
      BY <3>2 DEF v
  <2>2. NoText \in Contents /\ files[tmp] = child.latest
    BY <1>1, <1>8 DEF Contents
  <2>3. /\ files' \in [Disk -> Contents]
        /\ \A g \in Disk : g \notin {child.path, tmp} => files'[g] = files[g]
        /\ files'[child.path] = child.latest
    BY <1>1, <1>2, <1>8, <2>2
  <2>4. DiskInv'
    BY <1>3, <2>1, <2>3 DEF DiskInv, ChildTyped, Replacing
  <2>5. CASE child.path = "document"
    <3>1. FileRenamed
      BY <1>1, <2>1, <2>3, <2>5 DEF FileRenamed
    <3>2. files'["autosave"] = files["autosave"]
      BY <1>2, <1>4, <2>3, <2>5
    <3> QED
      BY <2>4, <3>1, <3>2
  <2>6. CASE child.path = "autosave"
    <3>1. FileKept /\ files'["autosave"] = child.latest
      BY <1>2, <1>4, <2>1, <2>3, <2>6 DEF FileKept
    <3> QED
      BY <2>4, <3>1
  <2> QED
    BY <1>2, <2>5, <2>6
<1>9. CASE child.at \in {"write", "rename"} /\ ChildGoes("wrote") /\ UNCHANGED files
  <2>1. child' \in ChildType /\ child'.at = "wrote" /\ child'.saved = child.saved
    BY <1>1, <1>9, GoesEffect DEF Places
  <2> QED
    BY <1>1, <1>3, <1>9, <2>1 DEF DiskInv, ChildTyped, Replacing, FileKept
<1>10. CASE /\ child.at = "fill" /\ ChildGoes("wrote")
            /\ \E n \in 0 .. Len(child.latest) :
                 files' = [files EXCEPT ![tmp] = SubSeq(child.latest, 1, n)]
  <2>1. PICK n \in 0 .. Len(child.latest) : files' = [files EXCEPT ![tmp] = SubSeq(child.latest, 1, n)]
    BY <1>10
  <2>2. child.latest \in Seq(Bytes)
    BY <1>1 DEF Contents
  <2>3. SubSeq(child.latest, 1, n) \in Contents /\ "wrote" \in Places
    BY <2>2, BeginningAndRest DEF Contents, Places
  <2> QED
    BY <1>5, <1>10, <2>1, <2>3
<1> QED
  BY <1>6, <1>7, <1>8, <1>9, <1>10 DEF AtomicWrite, tmp

\* After a write the child goes back to its pipe, or exits; killed, it leaves
\* the files as they were.
LEMMA WroteKeeps ==
  ASSUME DiskInv, Wrote \/ KillChild
  PROVE  DiskInv' /\ files' = files /\ child'.saved = child.saved
<1>1. PICK p \in {"exited", "select"} : ChildGoes(p)
  BY DEF Wrote, KillChild
<1>2. child' \in ChildType /\ child'.at \in {"exited", "select"} /\ child'.saved = child.saved
  BY <1>1, GoesEffect DEF DiskInv, ChildTyped, Places
<1>3. ServerTyped' /\ files' = files
  BY DEF Wrote, KillChild, DiskInv, ServerTyped, server
<1> QED
  BY <1>2, <1>3 DEF DiskInv, ChildTyped, Replacing

\* What the child reads, and the timer, leave the files alone.
LEMMA ReadingSavesNothing ==
  ASSUME DiskInv, ReadHeader \/ ReadGarbage \/ EndOfPipe \/ ReadPayload \/ Tick
  PROVE  files' = files /\ child'.saved = child.saved
<1>1. child \in ChildType /\ pipe \in Seq(Bytes)
  BY DEF DiskInv, ChildTyped, ServerTyped
<1>2. files' = files
  BY DEF ReadHeader, ReadGarbage, EndOfPipe, ReadPayload, Tick
<1>3. ASSUME NEW e, NEW byte, TakeEvent(e, byte)
      PROVE  child'.saved = child.saved
  BY <1>1, <1>3 DEF TakeEvent, ChildType
<1>4. ASSUME NEW p, ChildGoes(p)
      PROVE  child'.saved = child.saved
  BY <1>1, <1>4 DEF ChildGoes, ChildType
<1>5. CASE ReadHeader
  <2>1. CASE child' = [child EXCEPT !.at = "write", !.event = "STOP", !.path = "autosave"]
    BY <1>1, <1>2, <2>1 DEF ChildType
  <2> QED
    BY <1>2, <1>3, <1>4, <1>5, <2>1 DEF ReadHeader
<1>6. CASE ReadGarbage
  BY <1>2, <1>3, <1>4, <1>6 DEF ReadGarbage
<1>7. CASE EndOfPipe
  BY <1>2, <1>4, <1>7 DEF EndOfPipe
<1>8. CASE ReadPayload
  BY <1>1, <1>2, <1>8, ReadPayloadEffect
<1>9. CASE Tick
  BY <1>1, <1>2, <1>9 DEF Tick, ChildType
<1> QED
  BY <1>5, <1>6, <1>7, <1>8, <1>9

\* Only the rename changes the file (ts_atomic_write_text).
LEMMA OnlyRenameReplaces ==
  ASSUME DiskInv, [Next]_vars
  PROVE  DiskInv' /\ (FileKept \/ FileRenamed)
<1>1. CASE UNCHANGED vars
  <2>1. UNCHANGED <<version, saves, queued, doing, made, todo, main, pipe, child, files>>
    BY <1>1 DEF vars, server
  <2>2. ServerTyped' = ServerTyped /\ ChildTyped' = ChildTyped /\ Replacing' = Replacing
    BY ONLY <2>1 DEF ServerTyped, ChildTyped, Replacing, BackedUp
  <2> QED
    BY <2>1, <2>2 DEF DiskInv, FileKept
<1>2. CASE \/ \E t \in Threads : Join(t) \/ Edit(t) \/ Save(t) \/ Leave(t) \/ Finish(t)
           \/ \E w \in Writers : Write(w)
           \/ Shutdown \/ SaveFinal \/ ClosePipe \/ Exit \/ KillServer
  <2>1. files' = files /\ child' = child
    BY <1>2 DEF Join, Edit, Save, Leave, Finish, Write, Shutdown, SaveFinal, ClosePipe, Exit, KillServer
  <2> QED
    BY <1>2, <2>1, ServerKeeps DEF FileKept
<1>3. CASE ReadHeader \/ ReadGarbage \/ EndOfPipe \/ ReadPayload \/ Tick
  <2>1. files' = files /\ child'.saved = child.saved
    BY <1>3, ReadingSavesNothing
  <2> QED
    BY <1>3, <2>1, ReadHeaderKeeps, ReadGarbageKeeps, EndOfPipeKeeps, ReadPayloadKeeps, TickKeeps DEF FileKept
<1>4. CASE Backup
  BY <1>4, BackupKeeps DEF FileKept
<1>5. CASE AtomicWrite
  BY <1>5, AtomicWriteKeeps
<1>6. CASE Wrote \/ KillChild
  BY <1>6, WroteKeeps DEF FileKept
<1> QED
  BY <1>1, <1>2, <1>3, <1>4, <1>5, <1>6 DEF Next, ServerStep, ChildStep

-----------------------------------------------------------------------------
(* For any number of threads *)

\* The types, and how far the child is with replacing a file
\* (ts_write_with_backup), whatever the bytes it read.
THEOREM DiskInvariant == Spec => []DiskInv
<1>1. Init => DiskInv
  BY InitDisk
<1>2. DiskInv /\ [Next]_vars => DiskInv'
  BY OnlyRenameReplaces
<1> QED
  BY <1>1, <1>2, PTL DEF Spec

\* Whatever the threads write and however their events mix, the versions stay
\* those of edits that were made, and the child in one of the places of
\* autosave_loop with bytes of the pipe to remember.
THEOREM SavingTypeCorrect == Spec => []TypeOK
<1>1. ServerTyped /\ ChildTyped => TypeOK
  <2> SUFFICES ASSUME ServerTyped, ChildTyped PROVE TypeOK
    OBVIOUS
  <2>1. /\ child.at \in Places /\ child.path \in DOMAIN TmpOf /\ child.latest \in Contents
        /\ child.saved \in 0 .. MaxVersion /\ child.cutShort \in BOOLEAN
        /\ \A f \in DOMAIN files : files[f] \in Contents
    BY DEF ChildTyped, ChildType, TmpOf
  <2> QED
    BY <2>1 DEF ServerTyped, TypeOK, Contents, Doings
<1>2. DiskInv => TypeOK
  BY <1>1 DEF DiskInv
<1> QED
  BY <1>2, DiskInvariant, PTL

\* For any number of threads, and whatever mixture of their events the child
\* took for a text: the file is replaced in one step, by what the child was to
\* save, and only when .bak has the very text that is replaced; a beginning of
\* it only where the disk failed during that copy, never where it cannot fail
\* (ts_write_with_backup, ts_atomic_write_text).
THEOREM NothingDestroysTheLastCopy == Spec => ReplacedAsAWhole
<1>1. DiskInv /\ [Next]_vars =>
        [files'["document"] # files["document"] =>
           /\ files'["document"] = child.latest
           /\ \/ files["document"] \in {NoText, files["bak"]}
              \/ /\ DiskMayFail /\ child.cutShort
                 /\ IsPrefix(files["bak"], files["document"])]_vars
  BY OnlyRenameReplaces DEF BackedUp, FileKept, FileRenamed
<1> QED
  BY <1>1, DiskInvariant, PTL DEF Spec, ReplacedAsAWhole

-----------------------------------------------------------------------------
(* One writer: what is in the pipe, and yet to be written, is a sequence of *)
(* events the child is in step with.                                        *)

TextEvents == {"SNAPSHOT", "SAVE_NOW"}
TextHeader(byte) == EndsHeader(byte) /\ byte.event \in TextEvents

\* At position i of S a header begins, or S ends.
StartsEvent(S, i) == i <= Len(S) => IsHeader(S[i]) /\ ~EndsHeader(S[i])

\* At position i of S is a payload of n bytes, none of a header, and the text
\* of version v where the event is one of a text; then comes the next event.
PayloadAt(S, i, event, v, n) ==
  /\ i + n <= Len(S) + 1
  /\ \A k \in 1 .. n : ~IsHeader(S[i + k - 1])
  /\ event \in TextEvents =>
       n = Length[v] /\ \A k \in 1 .. n : S[i + k - 1] = Text(v)[k]
  /\ StartsEvent(S, i + n)

\* Every header is whole, none is a STOP, and its payload follows it.
Framed(S) ==
  \A i \in 1 .. Len(S) :
    /\ IsHeader(S[i]) /\ ~EndsHeader(S[i]) => i < Len(S) /\ EndsHeader(S[i + 1])
    /\ EndsHeader(S[i]) =>
         S[i].event # "STOP" /\ PayloadAt(S, i + 1, S[i].event, S[i].version, S[i].len)

\* The version of the text the child c is reading or, if none, of the last it
\* read.
ReadingText(c) == c.at = "payload" /\ c.event \in TextEvents
Reached(c) == IF ReadingText(c) THEN c.version ELSE c.latestVersion

\* What follows in S for the child c: the rest of the event it is at, then
\* events whose texts are never older than what came before, up to the
\* version v, which is there if it was not read already.
InStep(c, S, v) ==
  /\ Framed(S)
  /\ c.at = "payload" => PayloadAt(S, 1, c.event, c.version, c.len)
  /\ c.at # "payload" => StartsEvent(S, 1)
  /\ c.latestVersion <= Reached(c) /\ Reached(c) <= v
  /\ \A i \in 1 .. Len(S) : TextHeader(S[i]) => S[i].version \in Reached(c) .. v
  /\ \A i, j \in 1 .. Len(S) :
       i < j /\ TextHeader(S[i]) /\ TextHeader(S[j]) => S[i].version <= S[j].version
  /\ \/ c.latest = Text(v) /\ c.latestVersion = v
     \/ ReadingText(c) /\ c.version = v
     \/ \E i \in 1 .. Len(S) : TextHeader(S[i]) /\ S[i].version = v

\* The bytes of at most four writes.
Part(q, i) == IF i \in DOMAIN q THEN q[i] ELSE <<>>
Rest(q) == Part(q, 1) \o (Part(q, 2) \o (Part(q, 3) \o Part(q, 4)))

\* What the child remembers, and the files it wrote, are texts.
Remembers(c) == c.latest = NoText \/ c.latest = Text(c.latestVersion)

OneWriterInv(t) ==
  /\ main \in {"accepting", "killed"}
  /\ todo["main"] = <<>> /\ Len(todo[t]) <= 4
  /\ doing[t] \in {"accepted", "receiving"} => todo[t] = <<>>
  /\ child.at # "exited" => InStep(child, pipe \o Rest(todo[t]), version)
  /\ Remembers(child)
  /\ FilesAreWhole

\* What was saved last is never newer than what the child remembers.
FileIsOlder == child.saved <= child.latestVersion

\* Writing moves the first of the writes yet to make into the pipe.
LEMMA RestFacts ==
  ASSUME NEW q \in Seq(Seq(Bytes)), Len(q) <= 4
  PROVE  /\ Rest(q) \in Seq(Bytes)
         /\ q = <<>> => Rest(q) = <<>>
         /\ q # <<>> => Rest(q) = Head(q) \o Rest(Tail(q))
<1>1. Len(q) \in Nat /\ DOMAIN q = 1 .. Len(q)
  OBVIOUS
<1>2. <<>> \in Seq(Bytes)
  BY EmptySeq
<1>3. \A i \in Nat : Part(q, i) \in Seq(Bytes)
  BY <1>1, <1>2, ElementOfSeq DEF Part
<1>4. Rest(q) \in Seq(Bytes)
  <2>1. Part(q, 3) \o Part(q, 4) \in Seq(Bytes)
    BY <1>3, ConcatProperties
  <2>2. Part(q, 2) \o (Part(q, 3) \o Part(q, 4)) \in Seq(Bytes)
    BY <1>3, <2>1, ConcatProperties
  <2> QED
    BY <1>3, <2>2, ConcatProperties DEF Rest
<1>5. ASSUME q = <<>> PROVE Rest(q) = <<>>
  <2>1. Part(q, 1) = <<>> /\ Part(q, 2) = <<>> /\ Part(q, 3) = <<>> /\ Part(q, 4) = <<>>
    BY <1>5 DEF Part
  <2> QED
    BY <1>2, <2>1, ConcatEmptySeq DEF Rest
<1>6. ASSUME q # <<>> PROVE Rest(q) = Head(q) \o Rest(Tail(q))
  <2> DEFINE r == Tail(q)
  <2>1. /\ Head(q) = q[1] /\ 1 \in 1 .. Len(q)
        /\ r \in Seq(Seq(Bytes)) /\ Len(r) = Len(q) - 1 /\ DOMAIN r = 1 .. Len(q) - 1
        /\ \A i \in 1 .. Len(q) - 1 : r[i] = q[i + 1]
    BY <1>1, <1>6, HeadTailProperties
  <2> HIDE DEF r
  <2>2. Part(q, 1) = Head(q)
    BY <1>1, <2>1 DEF Part
  <2>3. \A i \in 1 .. 3 : Part(r, i) = Part(q, i + 1)
    <3> TAKE i \in 1 .. 3
    <3>1. i \in 1 .. Len(q) - 1 <=> i + 1 \in 1 .. Len(q)
      BY <1>1
    <3> QED
      BY <1>1, <2>1, <3>1 DEF Part
  <2>4. Part(r, 4) = <<>>
    BY <1>1, <2>1 DEF Part
  <2>5. /\ Part(r, 1) = Part(q, 2) /\ Part(r, 2) = Part(q, 3) /\ Part(r, 3) = Part(q, 4)
    BY <2>3
  <2>6. Part(r, 3) \o Part(r, 4) = Part(q, 4)
    BY <1>3, <2>4, <2>5, ConcatEmptySeq
  <2>7. Rest(r) = Part(q, 2) \o (Part(q, 3) \o Part(q, 4))
    BY <2>5, <2>6 DEF Rest
  <2> QED
    BY <2>2, <2>7 DEF Rest, r
<1> QED
  BY <1>4, <1>5, <1>6

\* Reading from a pipe what was written to it, whatever is written later.
LEMMA ReadFromPipe ==
  ASSUME NEW p \in Seq(Bytes), NEW r \in Seq(Bytes), NEW n \in 0 .. Len(p)
  PROVE  SubSeq(p, n + 1, Len(p)) \o r = SubSeq(p \o r, n + 1, Len(p \o r))
<1> DEFINE w == p \o r
           left == SubSeq(p, n + 1, Len(p))
           rest == SubSeq(w, n + 1, Len(w))
<1>1. Len(p) \in Nat /\ Len(r) \in Nat /\ n \in Nat /\ n <= Len(p)
  OBVIOUS
<1>2. /\ w \in Seq(Bytes) /\ Len(w) = Len(p) + Len(r)
      /\ \A i \in 1 .. Len(p) + Len(r) : w[i] = IF i <= Len(p) THEN p[i] ELSE r[i - Len(p)]
  BY ConcatProperties
<1> HIDE DEF w
<1>3. n \in 0 .. Len(w)
  BY <1>1, <1>2
<1>4. /\ left \in Seq(Bytes) /\ Len(left) = Len(p) - n
      /\ \A i \in 1 .. Len(p) - n : left[i] = p[n + i]
  BY BeginningAndRest
<1>5. /\ rest \in Seq(Bytes) /\ Len(rest) = Len(w) - n
      /\ \A i \in 1 .. Len(w) - n : rest[i] = w[n + i]
  BY <1>2, <1>3, BeginningAndRest
<1> HIDE DEF left, rest
<1>6. /\ left \o r \in Seq(Bytes) /\ Len(left \o r) = Len(p) - n + Len(r)
      /\ \A i \in 1 .. Len(p) - n + Len(r) :
           (left \o r)[i] = IF i <= Len(p) - n THEN left[i] ELSE r[i - (Len(p) - n)]
  <2>1. left \in Seq(Bytes) /\ r \in Seq(Bytes) /\ Len(left) = Len(p) - n
    BY <1>4
  <2>2. /\ left \o r \in Seq(Bytes) /\ Len(left \o r) = Len(left) + Len(r)
        /\ \A i \in 1 .. Len(left) + Len(r) :
             (left \o r)[i] = IF i <= Len(left) THEN left[i] ELSE r[i - Len(left)]
    BY ONLY <2>1, ConcatProperties
  <2> QED
    BY <2>1, <2>2
<1>7. ASSUME NEW i \in 1 .. Len(p) - n + Len(r)
      PROVE  (left \o r)[i] = rest[i]
  <2>1. n + i \in 1 .. Len(p) + Len(r) /\ i \in 1 .. Len(w) - n
    BY <1>1, <1>2
  <2>2. CASE i <= Len(p) - n
    <3>1. i \in 1 .. Len(p) - n /\ n + i <= Len(p)
      BY <1>1, <2>2
    <3> QED
      BY <1>2, <1>4, <1>5, <1>6, <2>1, <3>1
  <2>3. CASE ~(i <= Len(p) - n)
    <3>1. ~(n + i <= Len(p)) /\ n + i - Len(p) = i - (Len(p) - n)
      BY <1>1, <2>3
    <3>2. (left \o r)[i] = r[i - (Len(p) - n)]
      BY <1>6, <2>3
    <3>3. rest[i] = w[n + i] /\ w[n + i] = r[n + i - Len(p)]
      BY <1>2, <1>5, <2>1, <3>1
    <3> QED
      BY <3>1, <3>2, <3>3
  <2> QED
    BY <2>2, <2>3
<1>8. left \o r = rest
  <2> DEFINE z == left \o r
  <2>1. Len(z) = Len(p) - n + Len(r) /\ \A i \in 1 .. Len(p) - n + Len(r) : z[i] = rest[i]
    BY <1>6, <1>7
  <2>2. z \in Seq(Bytes) /\ rest \in Seq(Bytes)
    BY <1>5, <1>6
  <2> HIDE DEF z
  <2>3. Len(z) = Len(rest)
    BY <1>1, <1>2, <1>5, <2>1
  <2>4. z = rest
    BY <2>1, <2>2, <2>3, SeqEqual
  <2> QED
    BY <2>4 DEF z
<1> QED
  BY <1>8 DEF w, left, rest

\* S goes on as T after its first m bytes; T goes on from S.
Follows(T, S, m) == Len(S) = m + Len(T) /\ \A i \in 1 .. Len(T) : T[i] = S[m + i]
Begins(S, T) == Len(S) <= Len(T) /\ \A i \in 1 .. Len(S) : T[i] = S[i]

\* Events and payloads are where they were, counted from where one reads on.
LEMMA EventMoves ==
  ASSUME NEW S \in Seq(Bytes), NEW T \in Seq(Bytes), NEW m \in Nat, Follows(T, S, m),
         NEW i \in Nat \ {0}
  PROVE  StartsEvent(S, m + i) <=> StartsEvent(T, i)
<1>1. /\ Len(S) \in Nat /\ Len(T) \in Nat /\ Len(S) = m + Len(T)
      /\ \A j \in 1 .. Len(T) : T[j] = S[m + j]
  BY DEF Follows
<1>2. m + i <= Len(S) <=> i \in 1 .. Len(T)
  BY <1>1
<1>3. i <= Len(T) <=> i \in 1 .. Len(T)
  BY <1>1
<1> QED
  BY <1>1, <1>2, <1>3 DEF StartsEvent

\* The same of a payload.
LEMMA PayloadMoves ==
  ASSUME NEW S \in Seq(Bytes), NEW T \in Seq(Bytes), NEW m \in Nat, Follows(T, S, m),
         NEW i \in Nat \ {0}, NEW n \in Nat, NEW e, NEW v
  PROVE  PayloadAt(S, m + i, e, v, n) <=> PayloadAt(T, i, e, v, n)
<1>1. /\ Len(S) \in Nat /\ Len(T) \in Nat /\ Len(S) = m + Len(T)
      /\ \A j \in 1 .. Len(T) : T[j] = S[m + j]
  BY DEF Follows
<1>2. i + n \in Nat \ {0} /\ m + i + n = m + (i + n)
  OBVIOUS
<1>3. StartsEvent(S, m + i + n) <=> StartsEvent(T, i + n)
  BY <1>2, EventMoves
<1>4. m + i + n <= Len(S) + 1 <=> i + n <= Len(T) + 1
  BY <1>1
<1>5. ASSUME i + n <= Len(T) + 1, NEW k \in 1 .. n
      PROVE  T[i + k - 1] = S[m + i + k - 1]
  <2>1. i + k - 1 \in 1 .. Len(T) /\ m + (i + k - 1) = m + i + k - 1
    BY <1>1, <1>5
  <2> QED
    BY <1>1, <2>1
<1> QED
  BY <1>3, <1>4, <1>5 DEF PayloadAt

\* What is written later changes nothing of what was written, but that an
\* event begins where it ended.
LEMMA PayloadStays ==
  ASSUME NEW S \in Seq(Bytes), NEW T \in Seq(Bytes), NEW F \in Seq(Bytes),
         Begins(S, T), Follows(F, T, Len(S)), StartsEvent(F, 1),
         NEW i \in 1 .. Len(S) + 1, NEW n \in Nat, NEW e, NEW v
  PROVE  /\ StartsEvent(S, i) => StartsEvent(T, i)
         /\ PayloadAt(S, i, e, v, n) => PayloadAt(T, i, e, v, n)
<1>1. /\ Len(S) \in Nat /\ Len(T) \in Nat /\ Len(F) \in Nat /\ Len(T) = Len(S) + Len(F)
      /\ \A j \in 1 .. Len(S) : T[j] = S[j]
  BY DEF Begins, Follows
<1>2. StartsEvent(T, Len(S) + 1)
  BY <1>1, EventMoves
<1>3. \A j \in 1 .. Len(S) + 1 : StartsEvent(S, j) => StartsEvent(T, j)
  <2> TAKE j \in 1 .. Len(S) + 1
  <2>1. CASE j = Len(S) + 1
    BY <1>2, <2>1
  <2>2. CASE j \in 1 .. Len(S)
    BY <1>1, <2>2 DEF StartsEvent
  <2> QED
    BY <1>1, <2>1, <2>2
<1>4. ASSUME PayloadAt(S, i, e, v, n)
      PROVE  PayloadAt(T, i, e, v, n)
  <2>1. i + n <= Len(S) + 1 /\ i + n \in 1 .. Len(S) + 1
    BY <1>1, <1>4 DEF PayloadAt
  <2>2. StartsEvent(T, i + n) /\ i + n <= Len(T) + 1
    BY <1>1, <1>3, <1>4, <2>1 DEF PayloadAt
  <2>3. \A k \in 1 .. n : T[i + k - 1] = S[i + k - 1]
    <3> TAKE k \in 1 .. n
    <3>1. i + k - 1 \in 1 .. Len(S)
      BY <1>1, <2>1
    <3> QED
      BY <1>1, <3>1
  <2> QED
    BY <1>4, <2>2, <2>3 DEF PayloadAt
<1> QED
  BY <1>3, <1>4

\* Reading on, what follows is still events.
LEMMA FramedReading ==
  ASSUME NEW S \in Seq(Bytes), NEW T \in Seq(Bytes), NEW m \in Nat, Follows(T, S, m), Framed(S)
  PROVE  Framed(T)
<1>1. /\ Len(S) \in Nat /\ Len(T) \in Nat /\ Len(S) = m + Len(T)
      /\ \A j \in 1 .. Len(T) : T[j] = S[m + j]
  BY DEF Follows
<1> SUFFICES ASSUME NEW i \in 1 .. Len(T)
             PROVE  /\ IsHeader(T[i]) /\ ~EndsHeader(T[i]) => i < Len(T) /\ EndsHeader(T[i + 1])
                    /\ EndsHeader(T[i]) => /\ T[i].event # "STOP"
                                           /\ PayloadAt(T, i + 1, T[i].event, T[i].version, T[i].len)
  BY DEF Framed
<1>2. m + i \in 1 .. Len(S) /\ T[i] = S[m + i] /\ m + (i + 1) = m + i + 1
  BY <1>1
<1>3. /\ IsHeader(T[i]) /\ ~EndsHeader(T[i]) => m + i < Len(S) /\ EndsHeader(S[m + i + 1])
      /\ EndsHeader(T[i]) => /\ T[i].event # "STOP"
                             /\ PayloadAt(S, m + i + 1, T[i].event, T[i].version, T[i].len)
  BY <1>2 DEF Framed
<1>4. ASSUME IsHeader(T[i]), ~EndsHeader(T[i])
      PROVE  i < Len(T) /\ EndsHeader(T[i + 1])
  <2>1. i < Len(T)
    BY <1>1, <1>3, <1>4
  <2>2. i + 1 \in 1 .. Len(T)
    BY <1>1, <2>1
  <2> QED
    BY <1>1, <1>2, <1>3, <1>4, <2>1, <2>2
<1>5. ASSUME EndsHeader(T[i])
      PROVE  T[i].event # "STOP" /\ PayloadAt(T, i + 1, T[i].event, T[i].version, T[i].len)
  <2>1. T[i].len \in Nat
    BY <1>5, ElementOfSeq, HeaderBytes DEF EndsHeader, IsHeader
  <2>2. i + 1 \in Nat \ {0}
    OBVIOUS
  <2> QED
    BY <1>2, <1>3, <1>5, <2>1, <2>2, PayloadMoves
<1> QED
  BY <1>4, <1>5

\* Events after events are events.
LEMMA FramedWriting ==
  ASSUME NEW S \in Seq(Bytes), NEW T \in Seq(Bytes), NEW F \in Seq(Bytes),
         Begins(S, T), Follows(F, T, Len(S)), StartsEvent(F, 1), Framed(S), Framed(F)
  PROVE  Framed(T)
<1>1. /\ Len(S) \in Nat /\ Len(T) \in Nat /\ Len(F) \in Nat /\ Len(T) = Len(S) + Len(F)
      /\ \A j \in 1 .. Len(S) : T[j] = S[j]
      /\ \A j \in 1 .. Len(F) : T[Len(S) + j] = F[j]
  BY DEF Begins, Follows
<1> SUFFICES ASSUME NEW i \in 1 .. Len(T)
             PROVE  /\ IsHeader(T[i]) /\ ~EndsHeader(T[i]) => i < Len(T) /\ EndsHeader(T[i + 1])
                    /\ EndsHeader(T[i]) => /\ T[i].event # "STOP"
                                           /\ PayloadAt(T, i + 1, T[i].event, T[i].version, T[i].len)
  BY DEF Framed
<1>2. EndsHeader(T[i]) => T[i].len \in Nat
  BY ElementOfSeq, HeaderBytes DEF EndsHeader, IsHeader
<1>3. CASE i \in 1 .. Len(S)
  <2>1. /\ T[i] = S[i]
        /\ IsHeader(S[i]) /\ ~EndsHeader(S[i]) => i < Len(S) /\ EndsHeader(S[i + 1])
        /\ EndsHeader(S[i]) => S[i].event # "STOP" /\ PayloadAt(S, i + 1, S[i].event, S[i].version, S[i].len)
    BY <1>1, <1>3 DEF Framed
  <2>2. i < Len(S) => i + 1 \in 1 .. Len(S) /\ T[i + 1] = S[i + 1] /\ i < Len(T)
    BY <1>1, <1>3
  <2>3. i + 1 \in 1 .. Len(S) + 1
    BY <1>1, <1>3
  <2>4. ASSUME EndsHeader(T[i])
        PROVE  T[i].event # "STOP" /\ PayloadAt(T, i + 1, T[i].event, T[i].version, T[i].len)
    <3>1. PayloadAt(S, i + 1, T[i].event, T[i].version, T[i].len) /\ T[i].event # "STOP"
      BY <2>1, <2>4
    <3> QED
      BY <1>2, <2>3, <2>4, <3>1, PayloadStays
  <2> QED
    BY <2>1, <2>2, <2>4
<1>4. CASE i \in Len(S) + 1 .. Len(T)
  <2> DEFINE j == i - Len(S)
  <2>1. j \in 1 .. Len(F) /\ i = Len(S) + j /\ T[i] = F[j] /\ j + 1 \in Nat \ {0}
        /\ Len(S) + (j + 1) = i + 1
    <3>1. j \in 1 .. Len(F) /\ i = Len(S) + j
      BY <1>1, <1>4
    <3>2. T[i] = F[j]
      BY <1>1, <3>1
    <3> QED
      BY <1>1, <3>1, <3>2
  <2> HIDE DEF j
  <2>2. /\ IsHeader(F[j]) /\ ~EndsHeader(F[j]) => j < Len(F) /\ EndsHeader(F[j + 1])
        /\ EndsHeader(F[j]) => F[j].event # "STOP" /\ PayloadAt(F, j + 1, F[j].event, F[j].version, F[j].len)
    BY <2>1 DEF Framed
  <2>3. j < Len(F) => j + 1 \in 1 .. Len(F) /\ T[i + 1] = F[j + 1] /\ i < Len(T)
    <3>1. j < Len(F) => j + 1 \in 1 .. Len(F) /\ i < Len(T)
      BY <1>1, <2>1
    <3>2. j + 1 \in 1 .. Len(F) => T[Len(S) + (j + 1)] = F[j + 1]
      BY <1>1
    <3> QED
      BY <2>1, <3>1, <3>2
  <2>4. EndsHeader(F[j]) => PayloadAt(T, i + 1, F[j].event, F[j].version, F[j].len)
    <3>1. EndsHeader(F[j]) => F[j].len \in Nat
      BY <1>2, <2>1
    <3>2. Len(S) \in Nat
      BY <1>1
    <3>3. ASSUME EndsHeader(F[j])
          PROVE  PayloadAt(T, Len(S) + (j + 1), F[j].event, F[j].version, F[j].len)
      <4>1. /\ T \in Seq(Bytes) /\ F \in Seq(Bytes) /\ Follows(F, T, Len(S)) /\ Len(S) \in Nat
            /\ j + 1 \in Nat \ {0} /\ F[j].len \in Nat
            /\ PayloadAt(F, j + 1, F[j].event, F[j].version, F[j].len)
        BY <2>1, <2>2, <3>1, <3>2, <3>3
      <4> QED
        BY ONLY <4>1, PayloadMoves
    <3> QED
      BY <2>1, <3>3
  <2> QED
    BY <2>1, <2>2, <2>3, <2>4
<1> QED
  BY <1>1, <1>3, <1>4

\* A header read: the child is at its payload.
LEMMA HeaderRead ==
  ASSUME NEW S \in Seq(Bytes), NEW T \in Seq(Bytes), Follows(T, S, 2), EndsHeader(S[2]),
         NEW c \in ChildType, NEW d \in ChildType, NEW v \in Nat,
         InStep(c, S, v), c.at # "payload",
         d.at = "payload", d.event = S[2].event, d.version = S[2].version, d.len = S[2].len,
         d.latest = c.latest, d.latestVersion = c.latestVersion
  PROVE  InStep(d, T, v)
<1>1. /\ Len(S) \in Nat /\ Len(T) \in Nat /\ Len(S) = 2 + Len(T) /\ 2 \in 1 .. Len(S)
      /\ \A j \in 1 .. Len(T) : T[j] = S[2 + j]
  BY DEF Follows
<1>2. S[2] \in Bytes /\ IsHeader(S[2])
  BY <1>1, ElementOfSeq DEF EndsHeader, IsHeader
<1>3. S[2].event \in Events /\ S[2].version \in 0 .. MaxVersion /\ S[2].len \in Nat
  BY <1>2, HeaderBytes
<1>4. Framed(T)
  BY FramedReading DEF InStep
<1>5. PayloadAt(T, 1, d.event, d.version, d.len)
  <2>1. PayloadAt(S, 2 + 1, S[2].event, S[2].version, S[2].len)
    BY <1>1 DEF InStep, Framed
  <2>2. /\ S \in Seq(Bytes) /\ T \in Seq(Bytes) /\ 2 \in Nat /\ Follows(T, S, 2)
        /\ 1 \in Nat \ {0} /\ S[2].len \in Nat
    BY <1>3
  <2>3. PayloadAt(S, 2 + 1, S[2].event, S[2].version, S[2].len)
          <=> PayloadAt(T, 1, S[2].event, S[2].version, S[2].len)
    BY ONLY <2>2, PayloadMoves
  <2> QED
    BY <2>1, <2>3
<1>6. /\ Reached(c) = c.latestVersion
      /\ Reached(d) = IF S[2].event \in TextEvents THEN S[2].version ELSE c.latestVersion
      /\ ReadingText(d) <=> S[2].event \in TextEvents
      /\ ~ReadingText(c) /\ c.latestVersion \in Nat
  BY DEF Reached, ReadingText, ChildType
<1>7. TextHeader(S[2]) <=> S[2].event \in TextEvents
  BY DEF TextHeader
<1>8. /\ c.latestVersion <= v
      /\ \A i \in 1 .. Len(S) : TextHeader(S[i]) => S[i].version \in c.latestVersion .. v
      /\ \A i, j \in 1 .. Len(S) :
           i < j /\ TextHeader(S[i]) /\ TextHeader(S[j]) => S[i].version <= S[j].version
      /\ \/ c.latest = Text(v) /\ c.latestVersion = v
         \/ \E i \in 1 .. Len(S) : TextHeader(S[i]) /\ S[i].version = v
  BY <1>6 DEF InStep
<1>9. \A j \in 1 .. Len(T) : 2 + j \in 1 .. Len(S) /\ 2 < 2 + j
  BY <1>1
<1>10. d.latestVersion <= Reached(d) /\ Reached(d) <= v
  BY <1>1, <1>3, <1>6, <1>7, <1>8
<1>11. ASSUME NEW i \in 1 .. Len(T), TextHeader(T[i])
       PROVE  T[i].version \in Reached(d) .. v
  <2>1. 2 + i \in 1 .. Len(S) /\ T[i] = S[2 + i] /\ 2 < 2 + i
    BY <1>1, <1>9
  <2>2. S[2 + i].version \in c.latestVersion .. v
    BY <1>8, <1>11, <2>1
  <2>3. TextHeader(S[2]) => S[2].version <= S[2 + i].version
    BY <1>1, <1>8, <1>11, <2>1
  <2> QED
    BY <1>3, <1>6, <1>7, <2>1, <2>2, <2>3
<1>12. ASSUME NEW i \in 1 .. Len(T), NEW j \in 1 .. Len(T), i < j, TextHeader(T[i]), TextHeader(T[j])
       PROVE  T[i].version <= T[j].version
  <2>1. 2 + i < 2 + j /\ 2 + i \in 1 .. Len(S) /\ 2 + j \in 1 .. Len(S)
    BY <1>9, <1>12
  <2>2. T[i] = S[2 + i] /\ T[j] = S[2 + j]
    BY <1>1
  <2> QED
    BY <1>8, <1>12, <2>1, <2>2
<1>13. \/ d.latest = Text(v) /\ d.latestVersion = v
       \/ ReadingText(d) /\ d.version = v
       \/ \E i \in 1 .. Len(T) : TextHeader(T[i]) /\ T[i].version = v
  <2>1. CASE c.latest = Text(v) /\ c.latestVersion = v
    BY <2>1
  <2>2. ASSUME NEW i \in 1 .. Len(S), TextHeader(S[i]), S[i].version = v
        PROVE  \/ ReadingText(d) /\ d.version = v
               \/ \E k \in 1 .. Len(T) : TextHeader(T[k]) /\ T[k].version = v
    <3>1. CASE i = 1
      <4>1. StartsEvent(S, 1)
        BY DEF InStep
      <4> QED
        BY <1>1, <2>2, <3>1, <4>1 DEF StartsEvent, TextHeader
    <3>2. CASE i = 2
      BY <1>6, <1>7, <2>2, <3>2
    <3>3. CASE i \in 3 .. Len(S)
      <4>1. i - 2 \in 1 .. Len(T) /\ 2 + (i - 2) = i
        BY <1>1, <3>3
      <4>2. T[i - 2] = S[i]
        BY <1>1, <4>1
      <4> QED
        BY <2>2, <4>1, <4>2
    <3> QED
      BY <1>1, <3>1, <3>2, <3>3
  <2> QED
    BY <1>8, <2>1, <2>2
<1> QED
  BY <1>4, <1>5, <1>10, <1>11, <1>12, <1>13 DEF InStep

\* A payload read: what the child remembers is the text, of the version the
\* header said, or what it was.
LEMMA PayloadRead ==
  ASSUME NEW S \in Seq(Bytes), NEW T \in Seq(Bytes),
         NEW c \in ChildType, NEW d \in ChildType, NEW v \in Nat, Follows(T, S, c.len),
         InStep(c, S, v), c.at = "payload", d.at # "payload",
         \/ c.event \notin TextEvents /\ d.latest = c.latest /\ d.latestVersion = c.latestVersion
         \/ c.event \in TextEvents /\ d.latest = Text(c.version) /\ d.latestVersion = c.version
  PROVE  InStep(d, T, v)
<1>0. c.len \in Nat /\ c.version \in Nat /\ c.latestVersion \in Nat
  BY DEF ChildType
<1>1. /\ Len(S) \in Nat /\ Len(T) \in Nat /\ Len(S) = c.len + Len(T)
      /\ \A j \in 1 .. Len(T) : T[j] = S[c.len + j]
  BY DEF Follows
<1>2. Framed(T)
  BY <1>0, FramedReading DEF InStep
<1>3. StartsEvent(T, 1)
  <2>1. StartsEvent(S, 1 + c.len) /\ c.len + 1 = 1 + c.len
    BY <1>0 DEF InStep, PayloadAt
  <2> QED
    BY <1>0, <2>1, EventMoves
<1>4. Reached(d) = d.latestVersion /\ d.latestVersion = Reached(c) /\ ~ReadingText(d)
  BY DEF Reached, ReadingText
<1>5. /\ Reached(c) <= v /\ Reached(c) \in Nat
      /\ \A i \in 1 .. Len(S) : TextHeader(S[i]) => S[i].version \in Reached(c) .. v
      /\ \A i, j \in 1 .. Len(S) :
           i < j /\ TextHeader(S[i]) /\ TextHeader(S[j]) => S[i].version <= S[j].version
      /\ \/ c.latest = Text(v) /\ c.latestVersion = v
         \/ ReadingText(c) /\ c.version = v
         \/ \E i \in 1 .. Len(S) : TextHeader(S[i]) /\ S[i].version = v
  BY <1>0 DEF InStep, Reached
<1>6. \A j \in 1 .. Len(T) : c.len + j \in 1 .. Len(S)
  BY <1>0, <1>1
<1>7. \A i \in 1 .. Len(T) : TextHeader(T[i]) => T[i].version \in Reached(d) .. v
  BY <1>1, <1>4, <1>5, <1>6
<1>8. ASSUME NEW i \in 1 .. Len(T), NEW j \in 1 .. Len(T), i < j, TextHeader(T[i]), TextHeader(T[j])
      PROVE  T[i].version <= T[j].version
  <2>1. c.len + i < c.len + j
    BY <1>0, <1>8
  <2>2. T[i] = S[c.len + i] /\ T[j] = S[c.len + j] /\ c.len + i \in 1 .. Len(S) /\ c.len + j \in 1 .. Len(S)
    BY <1>1, <1>6
  <2> QED
    BY <1>5, <1>8, <2>1, <2>2
<1>9. ASSUME NEW i \in 1 .. Len(S), TextHeader(S[i])
      PROVE  \E k \in 1 .. Len(T) : T[k] = S[i]
  <2>1. i \notin 1 .. c.len
    <3>1. \A k \in 1 .. c.len : ~IsHeader(S[1 + k - 1]) /\ 1 + k - 1 = k
      BY <1>0 DEF InStep, PayloadAt
    <3> QED
      BY <1>9, <3>1 DEF TextHeader, EndsHeader, IsHeader
  <2>2. i - c.len \in 1 .. Len(T) /\ c.len + (i - c.len) = i
    BY <1>0, <1>1, <2>1
  <2> QED
    BY <1>1, <2>2
<1>10. \/ d.latest = Text(v) /\ d.latestVersion = v
       \/ \E k \in 1 .. Len(T) : TextHeader(T[k]) /\ T[k].version = v
  <2>1. CASE c.latest = Text(v) /\ c.latestVersion = v
    <3>1. CASE c.event \in TextEvents
      <4>1. c.latestVersion <= Reached(c) /\ Reached(c) = c.version
        BY <3>1 DEF InStep, Reached, ReadingText
      <4>2. c.version = v
        BY <1>0, <1>5, <2>1, <4>1
      <4> QED
        BY <3>1, <4>2
    <3> QED
      BY <2>1, <3>1
  <2>2. CASE ReadingText(c) /\ c.version = v
    BY <2>2 DEF ReadingText
  <2>3. CASE \E i \in 1 .. Len(S) : TextHeader(S[i]) /\ S[i].version = v
    BY <1>9, <2>3
  <2> QED
    BY <1>5, <2>1, <2>2, <2>3
<1> QED
  BY <1>2, <1>3, <1>4, <1>5, <1>7, <1>8, <1>10 DEF InStep

\* Whatever else the child does, it reads nothing and remembers what it did.
LEMMA NothingRead ==
  ASSUME NEW S, NEW c, NEW d, NEW v, InStep(c, S, v), c.at # "payload", d.at # "payload",
         d.latest = c.latest, d.latestVersion = c.latestVersion
  PROVE  InStep(d, S, v)
<1>1. Reached(c) = c.latestVersion /\ Reached(d) = c.latestVersion /\ ~ReadingText(c) /\ ~ReadingText(d)
  BY DEF Reached, ReadingText
<1> QED
  BY <1>1 DEF InStep

\* A header and its payload are an event (send_payload_event).
EventBytes(e, w, P) == Header(e, w, Len(P)) \o P
IsEvent(e, w, P) ==
  /\ e \in {"SNAPSHOT", "SAVE_NOW", "LOG"} /\ w \in 0 .. MaxVersion /\ P \in Seq(Bytes)
  /\ \A k \in 1 .. Len(P) : ~IsHeader(P[k])
  /\ e \in TextEvents => P = Text(w)

\* An event by itself: its one header, and what follows it.
LEMMA EventFacts ==
  ASSUME NEW e, NEW w, NEW P, IsEvent(e, w, P)
  PROVE  LET F == EventBytes(e, w, P)
         IN  /\ F \in Seq(Bytes) /\ Len(F) = 2 + Len(P) /\ Framed(F) /\ StartsEvent(F, 1)
             /\ EndsHeader(F[2]) /\ F[2].event = e /\ F[2].version = w
             /\ \A i \in 1 .. Len(F) : EndsHeader(F[i]) => i = 2
<1> USE DEF IsEvent
<1> DEFINE F == EventBytes(e, w, P)
           n == Len(P)
           h == Header(e, w, n)
<1>0. n \in Nat
  OBVIOUS
<1>1. /\ h \in Seq(Bytes) /\ Len(h) = 2
      /\ \A i \in 1 .. 2 :
           h[i] = [of |-> "header", event |-> e, version |-> w, len |-> n, at |-> i]
  BY <1>0, HeaderFacts
<1>2. /\ IsHeader(h[1]) /\ ~EndsHeader(h[1])
      /\ EndsHeader(h[2]) /\ h[2].event = e /\ h[2].version = w /\ h[2].len = n
  BY <1>1 DEF IsHeader, EndsHeader
<1>3. /\ F \in Seq(Bytes) /\ Len(F) = 2 + n
      /\ \A i \in 1 .. 2 + n : F[i] = IF i <= 2 THEN h[i] ELSE P[i - 2]
  <2>1. F = h \o P
    BY DEF EventBytes
  <2> HIDE DEF h
  <2>2. /\ h \o P \in Seq(Bytes) /\ Len(h \o P) = Len(h) + Len(P)
        /\ \A i \in 1 .. Len(h) + Len(P) : (h \o P)[i] = IF i <= Len(h) THEN h[i] ELSE P[i - Len(h)]
    BY <1>1, ConcatProperties
  <2> QED
    BY <1>1, <2>1, <2>2
<1> HIDE DEF h, F
<1>4. F[1] = h[1] /\ F[2] = h[2]
  BY <1>0, <1>3
<1>5. \A k \in 1 .. n : 2 + k \in 1 .. 2 + n /\ F[2 + k] = P[k]
  BY <1>0, <1>3
<1>6. \A i \in 1 .. Len(F) : i \in {1, 2} \/ \E k \in 1 .. n : i = 2 + k
  <2> TAKE i \in 1 .. Len(F)
  <2>1. i \notin {1, 2} => i - 2 \in 1 .. n /\ i = 2 + (i - 2)
    BY <1>0, <1>3
  <2> QED
    BY <2>1
<1>7. \A i \in 1 .. Len(F) : IsHeader(F[i]) => i \in {1, 2}
  BY <1>5, <1>6
<1>8. \A i \in 1 .. Len(F) : EndsHeader(F[i]) => i = 2
  <2>1. \A byte : EndsHeader(byte) => IsHeader(byte)
    BY DEF EndsHeader, IsHeader
  <2> QED
    BY <1>2, <1>4, <1>7, <2>1
<1>9. StartsEvent(F, 1)
  BY <1>2, <1>4 DEF StartsEvent
<1>10. PayloadAt(F, 3, e, w, n)
  <2>1. 3 + n <= Len(F) + 1 /\ ~(3 + n <= Len(F))
    BY <1>0, <1>3
  <2>2. \A k \in 1 .. n : 3 + k - 1 = 2 + k /\ F[3 + k - 1] = P[k]
    <3> TAKE k \in 1 .. n
    <3>1. 3 + k - 1 = 2 + k
      BY <1>0
    <3> QED
      BY <1>5, <3>1
  <2>3. e \in TextEvents => n = Length[w] /\ P = Text(w)
    BY TextFacts
  <2> QED
    BY <2>1, <2>2, <2>3 DEF PayloadAt, StartsEvent
<1>11. Framed(F)
  <2> SUFFICES ASSUME NEW i \in 1 .. Len(F)
               PROVE  /\ IsHeader(F[i]) /\ ~EndsHeader(F[i]) => i < Len(F) /\ EndsHeader(F[i + 1])
                      /\ EndsHeader(F[i]) => /\ F[i].event # "STOP"
                                             /\ PayloadAt(F, i + 1, F[i].event, F[i].version, F[i].len)
    BY DEF Framed
  <2>1. CASE i = 1
    BY <1>0, <1>2, <1>3, <1>4, <2>1
  <2>2. CASE i = 2
    BY <1>2, <1>4, <1>10, <2>2
  <2>3. CASE i \notin {1, 2}
    <3>1. ~IsHeader(F[i])
      BY <1>7, <2>3
    <3> QED
      BY <1>8, <2>3, <3>1
  <2> QED
    BY <2>1, <2>2, <2>3
<1>12. /\ F \in Seq(Bytes) /\ Len(F) = 2 + Len(P) /\ Framed(F) /\ StartsEvent(F, 1)
       /\ EndsHeader(F[2]) /\ F[2].event = e /\ F[2].version = w
       /\ \A i \in 1 .. Len(F) : EndsHeader(F[i]) => i = 2
  BY <1>2, <1>3, <1>4, <1>8, <1>9, <1>11
<1> QED
  BY <1>12 DEF F

\* An event written behind the others: a text of the version v or of the one
\* that follows it, or a log entry.
LEMMA EventWritten ==
  ASSUME NEW S \in Seq(Bytes), NEW c \in ChildType, NEW v \in Nat, NEW u \in 0 .. MaxVersion, InStep(c, S, v),
         NEW e, NEW w, NEW P, IsEvent(e, w, P),
         (e \in TextEvents /\ w = u /\ v <= u) \/ (e \notin TextEvents /\ u = v)
  PROVE  InStep(c, S \o EventBytes(e, w, P), u)
<1> DEFINE F == EventBytes(e, w, P)
           T == S \o F
<1>1. /\ F \in Seq(Bytes) /\ Len(F) = 2 + Len(P) /\ Framed(F) /\ StartsEvent(F, 1)
      /\ EndsHeader(F[2]) /\ F[2].event = e /\ F[2].version = w
      /\ \A i \in 1 .. Len(F) : EndsHeader(F[i]) => i = 2
  BY EventFacts
<1>0. P \in Seq(Bytes)
  BY DEF IsEvent
<1> HIDE DEF F
<1>2. /\ T \in Seq(Bytes) /\ Len(T) = Len(S) + Len(F)
      /\ \A i \in 1 .. Len(S) + Len(F) : T[i] = IF i <= Len(S) THEN S[i] ELSE F[i - Len(S)]
  BY <1>1, ConcatProperties
<1> HIDE DEF T
<1>3. Len(S) \in Nat /\ Len(F) \in Nat /\ Len(P) \in Nat /\ 2 \in 1 .. Len(F)
  BY <1>0, <1>1
<1>4. \A i \in 1 .. Len(S) : i \in 1 .. Len(T) /\ T[i] = S[i]
  BY <1>2, <1>3
<1>5. \A i \in 1 .. Len(F) : Len(S) + i \in 1 .. Len(T) /\ T[Len(S) + i] = F[i]
  <2> TAKE i \in 1 .. Len(F)
  <2>1. Len(S) + i \in 1 .. Len(S) + Len(F) /\ ~(Len(S) + i <= Len(S)) /\ Len(S) + i - Len(S) = i
    BY <1>3
  <2> QED
    BY <1>2, <2>1
<1>6. Begins(S, T) /\ Follows(F, T, Len(S))
  BY <1>2, <1>3, <1>4, <1>5 DEF Begins, Follows
<1>7. Framed(T)
  BY <1>1, <1>2, <1>6, FramedWriting DEF InStep
<1>8. c.at = "payload" => PayloadAt(T, 1, c.event, c.version, c.len)
  <2>1. c.len \in Nat /\ 1 \in 1 .. Len(S) + 1
    BY <1>3 DEF ChildType
  <2> QED
    BY <1>1, <1>2, <1>6, <2>1, PayloadStays DEF InStep
<1>9. c.at # "payload" => StartsEvent(T, 1)
  <2>1. c.len \in Nat /\ 1 \in 1 .. Len(S) + 1
    BY <1>3 DEF ChildType
  <2> QED
    BY <1>1, <1>2, <1>6, <2>1, PayloadStays DEF InStep
<1>10. /\ c.latestVersion <= Reached(c) /\ Reached(c) <= v /\ Reached(c) \in Nat
       /\ \A i \in 1 .. Len(S) : TextHeader(S[i]) => S[i].version \in Reached(c) .. v
       /\ \A i, j \in 1 .. Len(S) :
            i < j /\ TextHeader(S[i]) /\ TextHeader(S[j]) => S[i].version <= S[j].version
       /\ \/ c.latest = Text(v) /\ c.latestVersion = v
          \/ ReadingText(c) /\ c.version = v
          \/ \E i \in 1 .. Len(S) : TextHeader(S[i]) /\ S[i].version = v
  BY DEF InStep, Reached, ChildType
<1>11. v <= u /\ Reached(c) <= u /\ u \in Nat
  BY <1>10
<1>12. \A i \in 1 .. Len(T) : TextHeader(T[i]) =>
         \/ i \in 1 .. Len(S) /\ T[i] = S[i]
         \/ i = Len(S) + 2 /\ T[i] = F[2] /\ w = u /\ e \in TextEvents
  <2> TAKE i \in 1 .. Len(T)
  <2> HAVE TextHeader(T[i])
  <2>1. CASE i \in 1 .. Len(S)
    BY <1>4, <2>1
  <2>2. CASE i \notin 1 .. Len(S)
    <3>1. i - Len(S) \in 1 .. Len(F) /\ Len(S) + (i - Len(S)) = i
      BY <1>2, <1>3, <2>2
    <3>2. T[i] = F[i - Len(S)]
      BY <1>5, <3>1
    <3>3. i - Len(S) = 2 /\ F[2].event \in TextEvents
      BY <1>1, <3>1, <3>2 DEF TextHeader
    <3> QED
      BY <1>1, <3>1, <3>2, <3>3
  <2> QED
    BY <2>1, <2>2
<1>13. ASSUME NEW i \in 1 .. Len(T), TextHeader(T[i])
       PROVE  T[i].version \in Reached(c) .. u
  <2>1. CASE i \in 1 .. Len(S) /\ T[i] = S[i]
    <3>1. S[i].version \in Reached(c) .. v
      BY <1>10, <1>13, <2>1
    <3> QED
      BY <1>10, <1>11, <2>1, <3>1
  <2>2. CASE T[i] = F[2] /\ w = u
    BY <1>1, <1>10, <1>11, <2>2
  <2> QED
    BY <1>12, <1>13, <2>1, <2>2
<1>14. ASSUME NEW i \in 1 .. Len(T), NEW j \in 1 .. Len(T), i < j, TextHeader(T[i]), TextHeader(T[j])
       PROVE  T[i].version <= T[j].version
  <2>1. CASE j \in 1 .. Len(S)
    <3>1. i \in 1 .. Len(S)
      BY <1>14, <2>1
    <3> QED
      BY <1>4, <1>10, <1>14, <2>1, <3>1
  <2>2. CASE j = Len(S) + 2 /\ T[j] = F[2] /\ w = u
    BY <1>1, <1>11, <1>13, <1>14, <2>2
  <2> QED
    BY <1>12, <1>14, <2>1, <2>2
<1>15. \/ c.latest = Text(u) /\ c.latestVersion = u
       \/ ReadingText(c) /\ c.version = u
       \/ \E i \in 1 .. Len(T) : TextHeader(T[i]) /\ T[i].version = u
  <2>1. CASE e \in TextEvents /\ w = u
    <3>1. TextHeader(F[2]) /\ F[2].version = u
      BY <1>1, <2>1 DEF TextHeader
    <3> QED
      BY <1>3, <1>5, <3>1
  <2>2. CASE e \notin TextEvents /\ u = v
    BY <1>4, <1>10, <2>2
  <2> QED
    BY <2>1, <2>2
<1>16. InStep(c, T, u)
  BY <1>7, <1>8, <1>9, <1>10, <1>11, <1>13, <1>14, <1>15 DEF InStep
<1> QED
  BY <1>16 DEF T, F

\* A text has no byte of a header in it.
LEMMA TextIsNoHeader ==
  ASSUME NEW u \in 0 .. MaxVersion
  PROVE  \A k \in 1 .. Len(Text(u)) : ~IsHeader(Text(u)[k])
<1> TAKE k \in 1 .. Len(Text(u))
<1>1. Text(u)[k] = [of |-> "text", version |-> u, at |-> k]
  BY TextFacts
<1>2. Text(u)[k].of = "text"
  BY <1>1
<1> QED
  BY <1>2 DEF IsHeader

\* What an edit and a save have yet to write: their events, in order.
LEMMA EditEvents ==
  ASSUME NEW u \in 0 .. MaxVersion,
         NEW q, q = PayloadEvent("SNAPSHOT", u, Text(u)) \o LogEvent(u)
  PROVE  /\ q \in Seq(Seq(Bytes)) /\ Len(q) = 4
         /\ Rest(q) = EventBytes("SNAPSHOT", u, Text(u)) \o EventBytes("LOG", 0, LogEntry(u))
         /\ IsEvent("SNAPSHOT", u, Text(u)) /\ IsEvent("LOG", 0, LogEntry(u))
<1> DEFINE h == Header("SNAPSHOT", u, Length[u])
           t == Text(u)
           l == Header("LOG", 0, 1)
           g == LogEntry(u)
<1>1. 0 \in 0 .. MaxVersion
  BY AutosaveAssumption
<1>2. /\ t \in Seq(Bytes) /\ Len(t) = Length[u] /\ Length[u] \in Nat
      /\ \A k \in 1 .. Len(t) : ~IsHeader(t[k])
  BY TextFacts, TextIsNoHeader
<1>3. /\ g \in Seq(Bytes) /\ Len(g) = 1 /\ \A k \in 1 .. Len(g) : ~IsHeader(g[k])
  BY LogEntryFacts DEF LogEntry, IsHeader
<1>4. h \in Seq(Bytes) /\ l \in Seq(Bytes)
  BY <1>1, <1>2, HeaderFacts
<1>5. /\ q \in Seq(Seq(Bytes)) /\ Len(q) = 4
      /\ q[1] = h /\ q[2] = t /\ q[3] = l /\ q[4] = g
  BY WritesFacts
<1>6. IsEvent("SNAPSHOT", u, t)
  BY <1>2 DEF IsEvent
<1>7. IsEvent("LOG", 0, g)
  BY <1>1, <1>3 DEF IsEvent, TextEvents
<1>8. EventBytes("SNAPSHOT", u, t) = h \o t /\ EventBytes("LOG", 0, g) = l \o g
  BY <1>2, <1>3 DEF EventBytes
<1> HIDE DEF h, t, l, g
<1>9. Part(q, 1) = h /\ Part(q, 2) = t /\ Part(q, 3) = l /\ Part(q, 4) = g
  <2>1. 1 \in DOMAIN q /\ 2 \in DOMAIN q /\ 3 \in DOMAIN q /\ 4 \in DOMAIN q
    BY <1>5
  <2> QED
    BY <1>5, <2>1 DEF Part
<1>10. h \o (t \o (l \o g)) = (h \o t) \o (l \o g)
  <2> DEFINE r == l \o g
  <2>1. r \in Seq(Bytes)
    BY <1>3, <1>4, ConcatProperties
  <2> HIDE DEF r
  <2>2. h \in Seq(Bytes) /\ t \in Seq(Bytes) /\ r \in Seq(Bytes)
    BY <1>2, <1>4, <2>1
  <2>3. (h \o t) \o r = h \o (t \o r)
    BY ONLY <2>2, ConcatAssociative
  <2> QED
    BY <2>3 DEF r
<1>11. Rest(q) = EventBytes("SNAPSHOT", u, t) \o EventBytes("LOG", 0, g)
  BY <1>8, <1>9, <1>10 DEF Rest
<1> QED
  BY <1>5, <1>6, <1>7, <1>11 DEF t, g

\* The one event of a SAVE.
LEMMA SaveEvents ==
  ASSUME NEW u \in 0 .. MaxVersion,
         NEW q, q = PayloadEvent("SAVE_NOW", u, Text(u))
  PROVE  /\ q \in Seq(Seq(Bytes)) /\ Len(q) = 2
         /\ Rest(q) = EventBytes("SAVE_NOW", u, Text(u))
         /\ IsEvent("SAVE_NOW", u, Text(u))
<1> DEFINE h == Header("SAVE_NOW", u, Length[u])
           t == Text(u)
<1>1. /\ t \in Seq(Bytes) /\ Len(t) = Length[u] /\ Length[u] \in Nat
      /\ \A k \in 1 .. Len(t) : ~IsHeader(t[k])
  BY TextFacts, TextIsNoHeader
<1>2. h \in Seq(Bytes)
  BY <1>1, HeaderFacts
<1>3. q \in Seq(Seq(Bytes)) /\ Len(q) = 2 /\ q[1] = h /\ q[2] = t
  BY WritesFacts
<1>4. IsEvent("SAVE_NOW", u, t)
  BY <1>1 DEF IsEvent
<1>5. EventBytes("SAVE_NOW", u, t) = h \o t
  BY <1>1 DEF EventBytes
<1> HIDE DEF h, t
<1>6. Part(q, 1) = h /\ Part(q, 2) = t /\ Part(q, 3) = <<>> /\ Part(q, 4) = <<>>
  <2>1. 1 \in DOMAIN q /\ 2 \in DOMAIN q /\ 3 \notin DOMAIN q /\ 4 \notin DOMAIN q
    BY <1>3
  <2> QED
    BY <1>3, <2>1 DEF Part
<1>7. <<>> \o <<>> = <<>> /\ t \o <<>> = t
  BY <1>1, EmptySeq, ConcatEmptySeq
<1>8. Rest(q) = EventBytes("SAVE_NOW", u, t)
  BY <1>5, <1>6, <1>7 DEF Rest
<1> QED
  BY <1>3, <1>4, <1>8 DEF t

\* The one event of a join and of a leave (server_log).
LEMMA LogEvents ==
  ASSUME NEW u \in 0 .. MaxVersion,
         NEW q, q = LogEvent(u)
  PROVE  /\ q \in Seq(Seq(Bytes)) /\ Len(q) = 2
         /\ Rest(q) = EventBytes("LOG", 0, LogEntry(u))
         /\ IsEvent("LOG", 0, LogEntry(u))
<1> DEFINE h == Header("LOG", 0, 1)
           t == LogEntry(u)
<1>0. 0 \in 0 .. MaxVersion
  BY AutosaveAssumption
<1>1. t \in Seq(Bytes) /\ Len(t) = 1 /\ \A k \in 1 .. Len(t) : ~IsHeader(t[k])
  BY LogEntryFacts DEF LogEntry, IsHeader
<1>2. h \in Seq(Bytes)
  BY <1>0, HeaderFacts
<1>3. q \in Seq(Seq(Bytes)) /\ Len(q) = 2 /\ q[1] = h /\ q[2] = t
  BY WritesFacts
<1>4. IsEvent("LOG", 0, t)
  BY <1>0, <1>1 DEF IsEvent, TextEvents
<1>5. EventBytes("LOG", 0, t) = h \o t
  BY <1>1 DEF EventBytes
<1> HIDE DEF h, t
<1>6. Part(q, 1) = h /\ Part(q, 2) = t /\ Part(q, 3) = <<>> /\ Part(q, 4) = <<>>
  <2>1. 1 \in DOMAIN q /\ 2 \in DOMAIN q /\ 3 \notin DOMAIN q /\ 4 \notin DOMAIN q
    BY <1>3
  <2> QED
    BY <1>3, <2>1 DEF Part
<1>7. <<>> \o <<>> = <<>> /\ t \o <<>> = t
  BY <1>1, EmptySeq, ConcatEmptySeq
<1>8. Rest(q) = EventBytes("LOG", 0, t)
  BY <1>5, <1>6, <1>7 DEF Rest
<1> QED
  BY <1>3, <1>4, <1>8 DEF t

\* With one writer: a message handled (Join, Edit, Save), or the leave, appends its events to what
\* is to be written; nothing else changes that goes through the pipe.
LEMMA HandlingKeepsOne ==
  ASSUME NEW t, Threads = {t}, DiskInv, OneWriterInv(t),
         Join(t) \/ Edit(t) \/ Save(t) \/ Leave(t)
  PROVE  OneWriterInv(t)'
<1>1. /\ version \in 0 .. MaxVersion /\ pipe \in Seq(Bytes) /\ child \in ChildType
      /\ todo \in [Writers -> Seq(Seq(Bytes))] /\ doing \in [Threads -> Doings]
      /\ t \in Threads /\ t \in Writers /\ "main" \in Writers /\ t # "main" /\ MaxVersion \in Nat
  BY AutosaveAssumption DEF DiskInv, ServerTyped, ChildTyped, Writers
<1>2. /\ doing[t] \in {"accepted", "receiving"} /\ UNCHANGED <<main, pipe, child, files>>
      /\ doing'[t] \notin {"accepted", "receiving"}
  BY <1>1 DEF Join, Edit, Save, Leave, LogsLeave, Serving
<1>3. child.at # "exited" => InStep(child, pipe, version)
  <2>1. todo[t] = <<>> /\ <<>> \in Seq(Seq(Bytes))
    BY <1>2, EmptySeq DEF OneWriterInv
  <2>2. Rest(todo[t]) = <<>> /\ pipe \o <<>> = pipe
    BY <1>1, <2>1, RestFacts, ConcatEmptySeq
  <2> QED
    BY <2>2 DEF OneWriterInv
<1>6. Remembers(child)' /\ FilesAreWhole'
  BY <1>2 DEF OneWriterInv, Remembers, FilesAreWhole
<1>4. CASE Edit(t)
  <2> DEFINE u == version'
             q == PayloadEvent("SNAPSHOT", u, Text(u)) \o LogEvent(u)
             E == EventBytes("SNAPSHOT", u, Text(u))
             G == EventBytes("LOG", 0, LogEntry(u))
  <2>1. u = version + 1 /\ u \in 0 .. MaxVersion /\ version <= u /\ version \in Nat /\ u \in Nat
    BY <1>1, <1>4 DEF Edit
  <2>2. todo' = [todo EXCEPT ![t] = q]
    BY <1>4 DEF Edit
  <2>3. /\ q \in Seq(Seq(Bytes)) /\ Len(q) = 4 /\ Rest(q) = E \o G
        /\ IsEvent("SNAPSHOT", u, Text(u)) /\ IsEvent("LOG", 0, LogEntry(u))
    BY <2>1, EditEvents
  <2>4. E \in Seq(Bytes) /\ G \in Seq(Bytes)
    BY <2>3, EventFacts
  <2> HIDE DEF q
  <2>5. todo'[t] = q /\ todo'["main"] = todo["main"]
    BY <1>1, <2>2
  <2>6. ASSUME child.at # "exited"
        PROVE  InStep(child, pipe \o (E \o G), u)
    <3>1. "SNAPSHOT" \in TextEvents /\ "LOG" \notin TextEvents
      BY DEF TextEvents
    <3>2. InStep(child, pipe \o E, u)
      BY <1>1, <1>3, <2>1, <2>3, <2>6, <3>1, EventWritten
    <3> HIDE DEF E
    <3>3. pipe \o E \in Seq(Bytes)
      BY <1>1, <2>4, ConcatProperties
    <3>4. InStep(child, (pipe \o E) \o G, u)
      BY <1>1, <2>1, <2>3, <3>1, <3>2, <3>3, EventWritten
    <3> HIDE DEF G
    <3>5. (pipe \o E) \o G = pipe \o (E \o G)
      BY <1>1, <2>4, ConcatAssociative
    <3> QED
      BY <3>4, <3>5
  <2> HIDE DEF E, G
  <2>7. child.at # "exited" => InStep(child, pipe \o Rest(todo'[t]), u)
    BY <2>3, <2>5, <2>6
  <2>8. Len(todo'[t]) = 4
    BY <2>3, <2>5, Zenon
  <2> QED
    BY <1>2, <1>6, <2>5, <2>7, <2>8 DEF OneWriterInv
<1>5. CASE Save(t)
  <2> DEFINE q == PayloadEvent("SAVE_NOW", version, Text(version))
             E == EventBytes("SAVE_NOW", version, Text(version))
  <2>1. version' = version /\ version \in Nat
    BY <1>1, <1>5 DEF Save
  <2>2. todo' = [todo EXCEPT ![t] = q]
    BY <1>5 DEF Save
  <2>3. /\ q \in Seq(Seq(Bytes)) /\ Len(q) = 2 /\ Rest(q) = E
        /\ IsEvent("SAVE_NOW", version, Text(version))
    BY <1>1, SaveEvents
  <2> HIDE DEF q
  <2>4. todo'[t] = q /\ todo'["main"] = todo["main"]
    BY <1>1, <2>2
  <2>5. ASSUME child.at # "exited"
        PROVE  InStep(child, pipe \o E, version)
    <3>1. "SAVE_NOW" \in TextEvents
      BY DEF TextEvents
    <3> QED
      BY <1>1, <1>3, <2>1, <2>3, <2>5, <3>1, EventWritten
  <2> HIDE DEF E
  <2>6. child.at # "exited" => InStep(child, pipe \o Rest(todo'[t]), version')
    BY <2>1, <2>3, <2>4, <2>5
  <2>7. Len(todo'[t]) = 2
    BY <2>3, <2>4, Zenon
  <2> QED
    BY <1>2, <1>6, <2>4, <2>6, <2>7 DEF OneWriterInv
<1>7. CASE Join(t) \/ Leave(t)
  <2> DEFINE q == LogEvent(0)
             E == EventBytes("LOG", 0, LogEntry(0))
  <2>1. version' = version /\ version \in Nat /\ 0 \in 0 .. MaxVersion
    BY <1>1, <1>7 DEF Join, Leave
  <2>2. todo' = [todo EXCEPT ![t] = q]
    BY <1>7 DEF Join, Leave, LogsLeave
  <2>3. q \in Seq(Seq(Bytes)) /\ Len(q) = 2 /\ Rest(q) = E /\ IsEvent("LOG", 0, LogEntry(0))
    BY <2>1, LogEvents
  <2> HIDE DEF q
  <2>4. todo'[t] = q /\ todo'["main"] = todo["main"]
    BY <1>1, <2>2
  <2>5. ASSUME child.at # "exited"
        PROVE  InStep(child, pipe \o E, version)
    <3>1. "LOG" \notin TextEvents
      BY DEF TextEvents
    <3> QED
      BY <1>1, <1>3, <2>1, <2>3, <2>5, <3>1, EventWritten
  <2> HIDE DEF E
  <2>6. child.at # "exited" => InStep(child, pipe \o Rest(todo'[t]), version')
    BY <2>1, <2>3, <2>4, <2>5
  <2>7. Len(todo'[t]) = 2
    BY <2>3, <2>4, Zenon
  <2> QED
    BY <1>2, <1>6, <2>4, <2>6, <2>7 DEF OneWriterInv
<1> QED
  BY <1>4, <1>5, <1>7

\* With one writer: the start, where the pipe holds the text the main thread
\* was started on.
LEMMA InitOne ==
  ASSUME NEW t, Threads = {t}, Init
  PROVE  OneWriterInv(t)
<1>1. 0 \in 0 .. MaxVersion /\ t # "main" /\ t \in Writers /\ "main" \in Writers
  BY AutosaveAssumption DEF Writers
<1> DEFINE F == EventBytes("SNAPSHOT", 0, Text(0))
<1>2. IsEvent("SNAPSHOT", 0, Text(0)) /\ pipe = F
  <2>1. Text(0) \in Seq(Bytes) /\ Len(Text(0)) = Length[0]
    BY <1>1, TextFacts
  <2>2. \A k \in 1 .. Len(Text(0)) : ~IsHeader(Text(0)[k])
    BY <1>1, TextIsNoHeader
  <2> QED
    BY <1>1, <2>1, <2>2 DEF IsEvent, EventBytes, Init
<1>3. /\ F \in Seq(Bytes) /\ 2 \in 1 .. Len(F) /\ Framed(F) /\ StartsEvent(F, 1)
      /\ EndsHeader(F[2]) /\ F[2].event = "SNAPSHOT" /\ F[2].version = 0
      /\ \A i \in 1 .. Len(F) : EndsHeader(F[i]) => i = 2
  <2>1. Len(Text(0)) \in Nat /\ Len(F) = 2 + Len(Text(0))
    BY <1>2, EventFacts DEF IsEvent
  <2> QED
    BY <1>2, <2>1, EventFacts
<1> HIDE DEF F
<1>4. todo[t] = <<>> /\ todo["main"] = <<>>
  BY <1>1 DEF Init
<1>5. pipe \o Rest(todo[t]) = F
  <2>1. <<>> \in Seq(Seq(Bytes)) /\ Len(<<>>) <= 4
    BY EmptySeq
  <2>2. Rest(todo[t]) = <<>>
    BY <1>4, <2>1, RestFacts
  <2> QED
    BY <1>2, <1>3, <2>2, ConcatEmptySeq
<1>6. /\ child.at = "select" /\ child.latestVersion = 0 /\ child.latest = NoText
      /\ version = 0 /\ main = "accepting"
  BY DEF Init
<1>7. InStep(child, F, 0)
  <2>1. Reached(child) = 0 /\ ~ReadingText(child)
    BY <1>6 DEF Reached, ReadingText
  <2>2. \A i \in 1 .. Len(F) : TextHeader(F[i]) => i = 2
    BY <1>3 DEF TextHeader
  <2>3. TextHeader(F[2])
    BY <1>3 DEF TextHeader, TextEvents
  <2>4. \A i \in 1 .. Len(F) : TextHeader(F[i]) => F[i].version \in 0 .. 0
    BY <1>3, <2>2
  <2>5. \A i, j \in 1 .. Len(F) : i < j /\ TextHeader(F[i]) /\ TextHeader(F[j]) => F[i].version <= F[j].version
    BY <1>3, <2>2
  <2> QED
    BY <1>3, <1>6, <2>1, <2>3, <2>4, <2>5 DEF InStep
<1>8. FilesAreWhole
  <2>1. files["document"] \in {Text(0), NoText} /\ files["autosave"] = NoText
    BY DEF Init
  <2> QED
    BY <1>1, <2>1 DEF FilesAreWhole, Texts
<1>9. Len(todo[t]) <= 4
  BY <1>4
<1> QED
  BY <1>4, <1>5, <1>6, <1>7, <1>8, <1>9 DEF OneWriterInv, Remembers

\* A write moves bytes from what is to be written to the pipe, in order; the
\* others of the server's steps touch neither.
LEMMA WritingKeepsOne ==
  ASSUME NEW t, Threads = {t}, DiskInv, OneWriterInv(t),
         (\E w \in Writers : Write(w)) \/ Finish(t) \/ KillServer
  PROVE  OneWriterInv(t)'
<1>1. /\ pipe \in Seq(Bytes) /\ todo \in [Writers -> Seq(Seq(Bytes))]
      /\ doing \in [Threads -> Doings]
      /\ t \in Threads /\ t \in Writers /\ "main" \in Writers /\ t # "main"
  BY AutosaveAssumption DEF DiskInv, ServerTyped, ChildTyped, Writers
<1>2. UNCHANGED <<version, child, files>>
  BY DEF Write, Finish, KillServer
<1>3. Remembers(child)' /\ FilesAreWhole'
  BY <1>2 DEF OneWriterInv, Remembers, FilesAreWhole
<1>4. ASSUME NEW w \in Writers, Write(w)
      PROVE  OneWriterInv(t)'
  <2> DEFINE q == todo[t]
             p == IF Closed \/ child.at = "exited" THEN pipe ELSE pipe \o Head(q)
  <2>1. w = t /\ ~Closed
    BY <1>1, <1>4 DEF Write, OneWriterInv, Closed, Alive, Writers
  <2>2. /\ q \in Seq(Seq(Bytes)) /\ q # <<>> /\ Len(q) <= 4
        /\ todo' = [todo EXCEPT ![t] = Tail(q)] /\ pipe' = p
        /\ UNCHANGED <<main, doing>>
    BY <1>1, <1>4, <2>1 DEF Write, OneWriterInv
  <2>3. /\ Head(q) \in Seq(Bytes) /\ Tail(q) \in Seq(Seq(Bytes)) /\ Len(Tail(q)) = Len(q) - 1
    BY <2>2, HeadTailProperties
  <2>4. Len(Tail(q)) <= 4 /\ Rest(Tail(q)) \in Seq(Bytes) /\ Rest(q) = Head(q) \o Rest(Tail(q))
    <3>1. Len(q) \in Nat /\ Len(Tail(q)) <= 4
      BY <2>2, <2>3
    <3> QED
      BY <2>2, <2>3, <3>1, RestFacts
  <2>5. todo'[t] = Tail(q) /\ todo'["main"] = todo["main"]
    BY <1>1, <2>2
  <2>6. ASSUME child.at # "exited"
        PROVE  InStep(child, pipe' \o Rest(Tail(q)), version)
    <3> DEFINE h == Head(q)
               r == Rest(Tail(q))
    <3>1. InStep(child, pipe \o Rest(q), version) /\ Rest(q) = h \o r
      BY <2>4, <2>6 DEF OneWriterInv
    <3>2. h \in Seq(Bytes) /\ r \in Seq(Bytes) /\ pipe \in Seq(Bytes) /\ pipe' = pipe \o h
      BY <1>1, <2>1, <2>2, <2>3, <2>4, <2>6
    <3> HIDE DEF h, r
    <3>3. (pipe \o h) \o r = pipe \o (h \o r)
      BY ONLY <3>2, ConcatAssociative
    <3>4. InStep(child, pipe' \o r, version)
      BY <3>1, <3>2, <3>3
    <3> QED
      BY <3>4 DEF r
  <2>7. doing[t] \notin {"accepted", "receiving"}
    BY <2>2 DEF OneWriterInv
  <2> HIDE DEF p
  <2>8. child'.at # "exited" => InStep(child', pipe' \o Rest(todo'[t]), version')
    BY <1>2, <2>5, <2>6
  <2>9. Len(todo'[t]) <= 4
    BY <2>4, <2>5
  <2> QED
    BY <1>3, <2>2, <2>5, <2>7, <2>8, <2>9 DEF OneWriterInv
<1>5. CASE Finish(t)
  <2>1. todo[t] = <<>> /\ UNCHANGED <<main, todo, pipe>>
    BY <1>5 DEF Finish, Alive, Stopping, OneWriterInv
  <2> QED
    BY <1>2, <1>3, <2>1 DEF OneWriterInv
<1>6. CASE KillServer
  <2>1. main' = "killed" /\ UNCHANGED <<doing, todo, pipe>>
    BY <1>6 DEF KillServer
  <2> QED
    BY <1>2, <1>3, <2>1 DEF OneWriterInv
<1> QED
  BY <1>4, <1>5, <1>6

-----------------------------------------------------------------------------
(* One writer: the child reads *)

\* The reads of the child take bytes off the front of what follows.
LEMMA PipeRead ==
  ASSUME pipe \in Seq(Bytes), NEW r \in Seq(Bytes), NEW n \in 0 .. Len(pipe), Drop(n)
  PROVE  /\ pipe \o r \in Seq(Bytes) /\ pipe' \o r \in Seq(Bytes)
         /\ Follows(pipe' \o r, pipe \o r, n)
         /\ Len(pipe \o r) >= Len(pipe)
         /\ \A i \in 1 .. Len(pipe) : pipe[i] = (pipe \o r)[i]
<1> DEFINE S == pipe \o r
           left == SubSeq(pipe, n + 1, Len(pipe))
           rest == SubSeq(S, n + 1, Len(S))
<1>1. pipe' = left
  BY DEF Drop
<1>2. S \in Seq(Bytes) /\ n \in 0 .. Len(S) /\ left \o r = rest
  <2>1. pipe \in Seq(Bytes) /\ r \in Seq(Bytes) /\ n \in 0 .. Len(pipe)
    OBVIOUS
  <2>2. S \in Seq(Bytes) /\ n \in 0 .. Len(S)
    <3>1. Len(pipe) \in Nat /\ Len(r) \in Nat
      OBVIOUS
    <3>2. S \in Seq(Bytes) /\ Len(S) = Len(pipe) + Len(r)
      BY ConcatProperties
    <3> QED
      BY <3>1, <3>2
  <2>3. left \o r = rest
    BY ONLY <2>1, ReadFromPipe
  <2> QED
    BY <2>2, <2>3
<1>3. Len(S) >= Len(pipe) /\ \A i \in 1 .. Len(pipe) : pipe[i] = S[i]
  BY ConcatProperties
<1> HIDE DEF S
<1>4. rest \in Seq(Bytes) /\ Len(rest) = Len(S) - n /\ \A i \in 1 .. Len(S) - n : rest[i] = S[n + i]
  BY <1>2, BeginningAndRest
<1> HIDE DEF rest, left
<1>5. Follows(rest, S, n)
  <2>1. Len(S) \in Nat
    BY <1>2
  <2> QED
    BY <1>4, <2>1 DEF Follows
<1> QED
  BY <1>1, <1>2, <1>3, <1>4, <1>5 DEF S

\* What is common to the steps of the child under one writer.
LEMMA ChildSteps ==
  ASSUME NEW t, Threads = {t}, DiskInv, OneWriterInv(t), UNCHANGED server, NEW r, r = Rest(todo[t]),
         Remembers(child)', FilesAreWhole', child'.at # "exited" => InStep(child', pipe' \o r, version)
  PROVE  OneWriterInv(t)'
<1>1. UNCHANGED <<version, doing, todo, main>>
  BY DEF server
<1> QED
  BY <1>1 DEF OneWriterInv

\* One writer's bytes, as they are in the pipe and will be.
LEMMA OneWritersBytes ==
  ASSUME NEW t, Threads = {t}, DiskInv, OneWriterInv(t)
  PROVE  /\ Rest(todo[t]) \in Seq(Bytes) /\ pipe \in Seq(Bytes) /\ child \in ChildType
         /\ version \in Nat /\ child.latestVersion \in 0 .. MaxVersion
<1>1. /\ pipe \in Seq(Bytes) /\ todo \in [Writers -> Seq(Seq(Bytes))] /\ t \in Writers
      /\ child \in ChildType /\ version \in 0 .. MaxVersion /\ MaxVersion \in Nat
  BY AutosaveAssumption DEF DiskInv, ServerTyped, ChildTyped, Writers
<1>2. Rest(todo[t]) \in Seq(Bytes)
  <2>1. todo[t] \in Seq(Seq(Bytes)) /\ Len(todo[t]) <= 4
    BY <1>1 DEF OneWriterInv
  <2> QED
    BY ONLY <2>1, RestFacts
<1> QED
  BY <1>1, <1>2 DEF ChildType

\* The line the child reads is a header, whole, and no STOP.
LEMMA ReadHeaderKeepsOne ==
  ASSUME NEW t, Threads = {t}, DiskInv, OneWriterInv(t), ReadHeader
  PROVE  OneWriterInv(t)'
<1> DEFINE r == Rest(todo[t])
           S == pipe \o r
           T == pipe' \o r
<1>1. /\ r \in Seq(Bytes) /\ pipe \in Seq(Bytes) /\ child \in ChildType /\ version \in Nat
      /\ child.at = "select" /\ UNCHANGED <<server, files>>
  BY OneWritersBytes DEF ReadHeader
<1> HIDE DEF r
<1>2. InStep(child, S, version)
  BY <1>1 DEF OneWriterInv, r
<1>3. PICK n \in DOMAIN pipe :
        /\ WholeHeader(n)
        /\ Drop(n)
        /\ IF pipe[n].event # "STOP" THEN TakeEvent(pipe[n].event, pipe[n])
           ELSE IF child.latest = NoText THEN ChildGoes("exited")
           ELSE child' = [child EXCEPT !.at = "write", !.event = "STOP", !.path = "autosave"]
  BY DEF ReadHeader
<1>4. n = 2 /\ EndsHeader(pipe[2]) /\ 2 \in 1 .. Len(pipe) /\ 2 \in 0 .. Len(pipe) /\ Drop(2)
  BY <1>1, <1>3 DEF WholeHeader
<1>5. /\ S \in Seq(Bytes) /\ T \in Seq(Bytes) /\ Follows(T, S, 2)
      /\ 2 \in 1 .. Len(S) /\ S[2] = pipe[2]
  <2>1. /\ S \in Seq(Bytes) /\ T \in Seq(Bytes) /\ Follows(T, S, 2)
        /\ Len(S) >= Len(pipe) /\ \A i \in 1 .. Len(pipe) : pipe[i] = S[i]
    BY <1>1, <1>4, PipeRead
  <2> QED
    BY <1>4, <2>1
<1> HIDE DEF S, T
<1>6. S[2].event # "STOP"
  BY <1>2, <1>4, <1>5 DEF InStep, Framed
<1>7. /\ child' \in ChildType /\ child'.at = "payload"
      /\ child'.event = S[2].event /\ child'.version = S[2].version /\ child'.len = S[2].len
      /\ child'.latest = child.latest /\ child'.latestVersion = child.latestVersion
  <2>1. TakeEvent(S[2].event, S[2])
    BY <1>3, <1>4, <1>5, <1>6
  <2>2. S[2] \in Bytes /\ IsHeader(S[2])
    BY <1>4, <1>5, ElementOfSeq DEF EndsHeader, IsHeader
  <2>3. S[2].event \in Events
    BY <2>2, HeaderBytes
  <2> QED
    BY <1>1, <2>1, <2>2, <2>3, TakesEffect
<1>8. InStep(child', T, version)
  <2>1. EndsHeader(S[2]) /\ child.at # "payload"
    BY <1>1, <1>4, <1>5
  <2> QED
    BY <1>1, <1>2, <1>5, <1>7, <2>1, HeaderRead
<1>9. Remembers(child)' /\ FilesAreWhole'
  BY <1>1, <1>7 DEF OneWriterInv, Remembers, FilesAreWhole
<1> QED
  BY <1>1, <1>8, <1>9, ChildSteps DEF r, T

\* There is no line that is no header.
LEMMA NoGarbage ==
  ASSUME NEW t, Threads = {t}, DiskInv, OneWriterInv(t), ReadGarbage
  PROVE  FALSE
<1> DEFINE r == Rest(todo[t])
           S == pipe \o r
<1>1. r \in Seq(Bytes) /\ pipe \in Seq(Bytes) /\ child.at = "select"
  BY OneWritersBytes DEF ReadGarbage
<1> HIDE DEF r
<1>2. InStep(child, S, version)
  BY <1>1 DEF OneWriterInv, r
<1>3. /\ Len(S) >= Len(pipe) /\ Len(S) \in Nat /\ Len(pipe) \in Nat
      /\ \A i \in 1 .. Len(pipe) : pipe[i] = S[i]
  BY <1>1, ConcatProperties
<1> HIDE DEF S
<1>4. PICK n \in DOMAIN pipe :
        /\ \A i \in 1 .. n - 1 : ~EndsHeader(pipe[i])
        /\ ~WholeHeader(n)
        /\ IsHeader(pipe[n]) => EndsHeader(pipe[n])
  BY DEF ReadGarbage, LineEnds
<1>5. n \in 1 .. Len(pipe) /\ 1 \in 1 .. Len(S) /\ 1 \in 1 .. Len(pipe)
  BY <1>1, <1>3, <1>4
<1>6. IsHeader(S[1]) /\ ~EndsHeader(S[1])
  BY <1>1, <1>2, <1>5 DEF InStep, StartsEvent
<1>7. EndsHeader(S[2])
  BY <1>2, <1>5, <1>6 DEF InStep, Framed
<1>8. CASE n = 1
  BY <1>3, <1>4, <1>5, <1>6, <1>8
<1>9. CASE n = 2
  BY <1>3, <1>4, <1>5, <1>6, <1>7, <1>9 DEF WholeHeader
<1>10. CASE n >= 3
  <2>1. 2 \in 1 .. n - 1 /\ 2 \in 1 .. Len(pipe)
    BY <1>3, <1>5, <1>10
  <2> QED
    BY <1>3, <1>4, <1>7, <2>1
<1> QED
  BY <1>5, <1>8, <1>9, <1>10

\* The payload is read in full; what is remembered is the text of the version
\* the header said.
LEMMA ReadPayloadKeepsOne ==
  ASSUME NEW t, Threads = {t}, DiskInv, OneWriterInv(t), ReadPayload
  PROVE  OneWriterInv(t)'
<1> DEFINE r == Rest(todo[t])
           S == pipe \o r
           T == pipe' \o r
           read == SubSeq(pipe, 1, child.len)
<1>1. /\ r \in Seq(Bytes) /\ pipe \in Seq(Bytes) /\ child \in ChildType /\ version \in Nat
      /\ child.at = "payload" /\ UNCHANGED <<server, files>>
      /\ child.len \in 0 .. Len(pipe) /\ Drop(child.len) /\ child.version \in 0 .. MaxVersion
  BY OneWritersBytes DEF ReadPayload, ChildType
<1> HIDE DEF r
<1>2. InStep(child, S, version)
  BY <1>1 DEF OneWriterInv, r
<1>3. /\ S \in Seq(Bytes) /\ T \in Seq(Bytes) /\ Follows(T, S, child.len)
      /\ \A i \in 1 .. Len(pipe) : pipe[i] = S[i]
  BY <1>1, PipeRead
<1> HIDE DEF S, T
<1>4. child.event \in TextEvents => read = Text(child.version)
  <2> SUFFICES ASSUME child.event \in TextEvents PROVE read = Text(child.version)
    OBVIOUS
  <2>1. /\ child.len = Length[child.version]
        /\ \A k \in 1 .. child.len : S[1 + k - 1] = Text(child.version)[k]
    BY <1>1, <1>2 DEF InStep, PayloadAt
  <2>2. read \in Seq(Bytes) /\ Len(read) = child.len /\ \A k \in 1 .. child.len : read[k] = pipe[k]
    BY <1>1, BeginningAndRest
  <2>3. Text(child.version) \in Seq(Bytes) /\ Len(Text(child.version)) = child.len
    BY <1>1, <2>1, TextFacts
  <2> HIDE DEF read
  <2>4. \A k \in 1 .. child.len : read[k] = Text(child.version)[k]
    <3> TAKE k \in 1 .. child.len
    <3>1. k \in 1 .. Len(pipe) /\ 1 + k - 1 = k
      BY <1>1
    <3> QED
      BY <1>3, <2>1, <2>2, <3>1
  <2> QED
    BY <2>2, <2>3, <2>4, SeqEqual
<1> HIDE DEF read
<1>5. /\ child' \in ChildType /\ child'.at # "payload"
      /\ \/ /\ child.event \notin TextEvents
            /\ child'.latest = child.latest /\ child'.latestVersion = child.latestVersion
         \/ /\ child.event \in TextEvents
            /\ child'.latest = Text(child.version) /\ child'.latestVersion = child.version
  BY <1>1, <1>4, ReadPayloadEffect DEF TextEvents, read
<1>6. InStep(child', T, version)
  BY <1>1, <1>2, <1>3, <1>5, PayloadRead
<1>7. Remembers(child)' /\ FilesAreWhole'
  <2>1. Remembers(child)'
    BY <1>5 DEF OneWriterInv, Remembers
  <2> QED
    BY <1>1, <2>1 DEF OneWriterInv, FilesAreWhole
<1> QED
  BY <1>1, <1>6, <1>7, ChildSteps DEF r, T

\* Saving and leaving the loop change nothing of what the child remembers.
LEMMA NothingElseIsRead ==
  ASSUME child \in ChildType, Tick \/ Backup \/ AtomicWrite \/ Wrote \/ EndOfPipe \/ KillChild
  PROVE  /\ child'.latest = child.latest /\ child'.latestVersion = child.latestVersion
         /\ child'.at # "payload"
<1>1. CASE Tick
  BY <1>1 DEF Tick, ChildType
<1>2. CASE \E p \in Places \ {"payload"} : ChildGoes(p)
  BY <1>2, GoesEffect
<1>3. ASSUME NEW p \in Places \ {"payload"}, NEW cut, child' = [child EXCEPT !.at = p, !.cutShort = cut]
      PROVE  /\ child'.latest = child.latest /\ child'.latestVersion = child.latestVersion
             /\ child'.at # "payload"
  BY <1>3 DEF ChildType
<1>4. ASSUME NEW p \in Places \ {"payload"}, NEW v, child' = [child EXCEPT !.at = p, !.saved = v]
      PROVE  /\ child'.latest = child.latest /\ child'.latestVersion = child.latestVersion
             /\ child'.at # "payload"
  BY <1>4 DEF ChildType
<1>5. CASE Backup
  BY <1>2, <1>3, <1>5 DEF Backup, Places
<1>6. CASE AtomicWrite
  BY <1>2, <1>4, <1>6 DEF AtomicWrite, Places
<1>7. CASE Wrote \/ EndOfPipe \/ KillChild
  BY <1>2, <1>7 DEF Wrote, EndOfPipe, KillChild, Places
<1> QED
  BY <1>1, <1>5, <1>6, <1>7

\* The rest of what the child does reads nothing: what it writes to a file is
\* what it remembers.
LEMMA OtherStepsKeepOne ==
  ASSUME NEW t, Threads = {t}, DiskInv, OneWriterInv(t),
         Tick \/ Backup \/ AtomicWrite \/ Wrote \/ EndOfPipe \/ KillChild
  PROVE  OneWriterInv(t)'
<1> DEFINE r == Rest(todo[t])
           S == pipe \o r
<1>1. child \in ChildType /\ child.latestVersion \in 0 .. MaxVersion
  BY OneWritersBytes
<1>2. UNCHANGED server
  BY DEF Tick, Backup, AtomicWrite, Wrote, EndOfPipe, KillChild
<1>3. /\ child'.latest = child.latest /\ child'.latestVersion = child.latestVersion
      /\ child.at # "payload" => child'.at # "payload"
  BY <1>1, NothingElseIsRead
<1>4. Remembers(child)'
  BY <1>3 DEF OneWriterInv, Remembers
<1>5. FilesAreWhole'
  <2>1. /\ files'["document"] # files["document"] => files'["document"] = child.latest
        /\ files'["autosave"] # files["autosave"] => files'["autosave"] = child.latest
    BY BackupKeeps, AtomicWriteKeeps DEF Tick, Wrote, EndOfPipe, KillChild, FileKept, FileRenamed
  <2>2. child.latest \in Texts \cup {NoText}
    BY <1>1 DEF OneWriterInv, Remembers, Texts
  <2> QED
    BY <2>1, <2>2 DEF OneWriterInv, FilesAreWhole
<1>6. CASE EndOfPipe \/ KillChild
  <2>1. child'.at = "exited"
    BY <1>1, <1>6, GoesEffect DEF EndOfPipe, KillChild, Places
  <2> QED
    BY <1>2, <1>4, <1>5, <2>1, ChildSteps
<1>7. CASE Tick \/ Backup \/ AtomicWrite \/ Wrote
  <2>1. pipe' = pipe /\ child.at # "payload" /\ child.at # "exited"
    BY <1>7 DEF Tick, Backup, AtomicWrite, Wrote
  <2>2. child'.at # "payload"
    BY <1>3, <2>1
  <2>3. InStep(child, S, version)
    BY <2>1 DEF OneWriterInv
  <2> HIDE DEF S
  <2>4. InStep(child', S, version)
    BY <1>3, <2>1, <2>2, <2>3, NothingRead
  <2> QED
    BY <1>2, <1>4, <1>5, <2>1, <2>4, ChildSteps DEF S
<1> QED
  BY <1>6, <1>7

-----------------------------------------------------------------------------
(* One writer: what follows *)

\* One connection, a server that is not told to stop: no other thread writes.
LEMMA OneWriterStep ==
  ASSUME NEW t, Threads = {t}, MayStop = FALSE, DiskInv, OneWriterInv(t), [Next]_vars
  PROVE  OneWriterInv(t)'
<1>1. CASE UNCHANGED vars
  <2>1. UNCHANGED <<version, saves, queued, doing, made, todo, main, pipe, child, files>>
    BY <1>1 DEF vars, server
  <2>2. Remembers(child)' /\ FilesAreWhole'
    BY <2>1 DEF OneWriterInv, Remembers, FilesAreWhole
  <2> QED
    BY <2>1, <2>2 DEF OneWriterInv
<1>2. CASE \E u \in Threads : Join(u) \/ Edit(u) \/ Save(u) \/ Leave(u)
  BY <1>2, HandlingKeepsOne
<1>3. CASE (\E w \in Writers : Write(w)) \/ (\E u \in Threads : Finish(u)) \/ KillServer
  BY <1>3, WritingKeepsOne
<1>4. CASE Shutdown \/ SaveFinal \/ ClosePipe \/ Exit
  BY <1>4 DEF Shutdown, SaveFinal, ClosePipe, Exit, OneWriterInv
<1>5. CASE ReadHeader
  BY <1>5, ReadHeaderKeepsOne
<1>6. CASE ReadGarbage
  BY <1>6, NoGarbage
<1>7. CASE ReadPayload
  BY <1>7, ReadPayloadKeepsOne
<1>8. CASE Tick \/ Backup \/ AtomicWrite \/ Wrote \/ EndOfPipe \/ KillChild
  BY <1>8, OtherStepsKeepOne
<1> QED
  BY <1>1, <1>2, <1>3, <1>4, <1>5, <1>6, <1>7, <1>8 DEF Next, ServerStep, ChildStep

\* With one writer the events in the pipe, and those yet to be written, are
\* whole and in order, and the child is in step with them
\* (send_payload_event and autosave_loop).
THEOREM OneWriterInvariant ==
  ASSUME NEW t, Threads = {t}, MayStop = FALSE
  PROVE  Spec => []OneWriterInv(t)
<1>1. Init => OneWriterInv(t)
  BY InitOne
<1>2. DiskInv /\ OneWriterInv(t) /\ [Next]_vars => OneWriterInv(t)'
  BY OneWriterStep
<1> QED
  BY <1>1, <1>2, DiskInvariant, PTL DEF Spec

\* With one writer the file and the autosave are complete texts of the
\* document, whenever the child or the server is killed and whatever of the
\* disk's operations fail (ts_atomic_write_text).
THEOREM OneWritersFilesAreWhole ==
  ASSUME NEW t, Threads = {t}, MayStop = FALSE
  PROVE  Spec => []FilesAreWhole
<1>1. OneWriterInv(t) => FilesAreWhole
  BY DEF OneWriterInv
<1> QED
  BY <1>1, OneWriterInvariant, PTL

\* With one writer, once the pipe is empty and nothing is yet to be written,
\* the child remembers the document's text and version (autosave_loop).
THEOREM OneWritersChildCatchesUp ==
  ASSUME NEW t, Threads = {t}, MayStop = FALSE
  PROVE  Spec => []CatchesUp
<1>1. OneWriterInv(t) => CatchesUp
  <2> SUFFICES ASSUME OneWriterInv(t), todo[t] = <<>>, child.at = "select", pipe = <<>>
               PROVE  child.latest = Text(version) /\ child.latestVersion = version
    BY DEF CatchesUp
  <2>1. pipe \o Rest(todo[t]) = <<>>
    <3>1. todo[t] = <<>> /\ <<>> \in Seq(Seq(Bytes)) /\ Len(<<>>) <= 4 /\ <<>> \in Seq(Bytes)
      BY EmptySeq
    <3>2. Rest(todo[t]) = <<>>
      BY <3>1, RestFacts
    <3> QED
      BY <3>1, <3>2, ConcatEmptySeq
  <2>2. InStep(child, <<>>, version)
    BY <2>1 DEF OneWriterInv
  <2>3. ~ReadingText(child) /\ ~(\E i \in 1 .. Len(<<>>) : TRUE)
    BY DEF ReadingText
  <2> QED
    BY <2>2, <2>3 DEF InStep
<1> QED
  BY <1>1, OneWriterInvariant, PTL

\* One writer's texts are read in the order of their versions.
LEMMA ReachesNewer ==
  ASSUME NEW t, Threads = {t}, DiskInv, OneWriterInv(t), [Next]_vars
  PROVE  /\ child.latestVersion \in Nat /\ child'.latestVersion >= child.latestVersion
<1>1. child \in ChildType /\ pipe \in Seq(Bytes) /\ child.latestVersion \in Nat
  BY OneWritersBytes
<1> SUFFICES \/ child'.latestVersion = child.latestVersion
             \/ child'.latestVersion >= child.latestVersion
  BY <1>1
<1>2. CASE \/ UNCHANGED vars
           \/ \E u \in Threads : Join(u) \/ Edit(u) \/ Save(u) \/ Leave(u) \/ Finish(u)
           \/ \E w \in Writers : Write(w)
           \/ Shutdown \/ SaveFinal \/ ClosePipe \/ Exit \/ KillServer
  BY <1>2 DEF vars, server, Join, Edit, Save, Leave, Finish, Write, Shutdown, SaveFinal, ClosePipe, Exit, KillServer
<1>3. CASE Tick \/ ReadHeader
  <2>1. child'.latestVersion = child.latestVersion
    <3>1. CASE Tick
      BY <1>1, <3>1 DEF Tick, ChildType
    <3>2. ASSUME NEW e, NEW byte, TakeEvent(e, byte)
          PROVE  child'.latestVersion = child.latestVersion
      BY <1>1, <3>2 DEF TakeEvent, ChildType
    <3>3. ASSUME NEW p, ChildGoes(p)
          PROVE  child'.latestVersion = child.latestVersion
      BY <1>1, <3>3 DEF ChildGoes, ChildType
    <3>4. CASE child' = [child EXCEPT !.at = "write", !.event = "STOP", !.path = "autosave"]
      BY <1>1, <3>4 DEF ChildType
    <3> QED
      BY <1>3, <3>1, <3>2, <3>3, <3>4 DEF ReadHeader
  <2> QED
    BY <2>1
<1>4. CASE ReadGarbage
  BY <1>4, NoGarbage
<1>5. CASE ReadPayload
  <2>1. child'.latestVersion \in {child.latestVersion, child.version} /\ files' = files
    BY <1>1, <1>5, ReadPayloadEffect DEF ReadPayload
  <2>2. child.event \in TextEvents => child.latestVersion <= child.version
    BY <1>5 DEF ReadPayload, OneWriterInv, InStep, Reached, ReadingText
  <2>3. child.event \notin TextEvents => child'.latestVersion = child.latestVersion
    BY <1>1, <1>5, ReadPayloadEffect DEF TextEvents
  <2>4. child.version \in Nat
    BY <1>1 DEF ChildType
  <2> QED
    BY <1>1, <2>1, <2>2, <2>3, <2>4
<1>6. CASE Backup \/ AtomicWrite \/ Wrote \/ EndOfPipe \/ KillChild
  BY <1>1, <1>6, NothingElseIsRead
<1> QED
  BY <1>2, <1>3, <1>4, <1>5, <1>6 DEF Next, ServerStep, ChildStep

\* Only a rename changes the file, and it puts there what is remembered, which
\* is never older than what was saved last.
LEMMA FileFollows ==
  ASSUME NEW t, Threads = {t}, DiskInv, OneWriterInv(t), FileIsOlder, [Next]_vars
  PROVE  FileIsOlder' /\ \A v \in 0 .. MaxVersion : Saved(v) => Saved(v)'
<1>1. /\ child.latestVersion \in 0 .. MaxVersion /\ MaxVersion \in Nat /\ child.saved \in 0 .. MaxVersion
      /\ child'.latestVersion >= child.latestVersion
  BY OneWritersBytes, ReachesNewer, AutosaveAssumption DEF ChildType
<1>2. child' \in ChildType /\ (FileKept \/ FileRenamed)
  BY OnlyRenameReplaces DEF DiskInv, ChildTyped
<1>3. child'.latestVersion \in Nat
  BY <1>2 DEF ChildType
<1>4. CASE FileKept
  BY <1>1, <1>3, <1>4 DEF FileKept, FileIsOlder, Saved
<1>5. CASE FileRenamed
  <2>1. child.latest = Text(child.latestVersion)
    BY <1>5 DEF FileRenamed, OneWriterInv, Remembers
  <2>2. /\ child'.saved = child.latestVersion /\ child'.latestVersion = child.latestVersion
        /\ files'["document"] = Text(child'.saved) /\ child.saved <= child'.saved
    BY <1>5, <2>1 DEF FileRenamed, FileIsOlder
  <2>3. FileIsOlder'
    BY <1>1, <2>2 DEF FileIsOlder
  <2>4. \A v \in 0 .. MaxVersion : v <= child.saved => v <= child'.saved
    BY <1>1, <2>2
  <2> QED
    BY <2>2, <2>3, <2>4 DEF Saved
<1> QED
  BY <1>2, <1>4, <1>5

\* With one connection and no stop: what is saved is never older than what was
\* saved before, and what is remembered never older than what was, whatever of
\* the disk's operations fail and whoever is killed (autosave_loop).
THEOREM OneWritersTextsNeverGetOlder ==
  ASSUME NEW t, Threads = {t}, MayStop = FALSE
  PROVE  Spec => NothingGetsOlder
<1>1. Init => FileIsOlder
  <2> SUFFICES ASSUME Init PROVE FileIsOlder
    OBVIOUS
  <2>1. child.saved = 0 /\ child.latestVersion = 0
    BY DEF Init
  <2> QED
    BY <2>1 DEF FileIsOlder
<1>2. FileIsOlder /\ DiskInv /\ OneWriterInv(t) /\ [Next]_vars => FileIsOlder'
  BY FileFollows
<1>3. FileIsOlder /\ DiskInv /\ OneWriterInv(t) /\ [Next]_vars =>
        [/\ child'.latestVersion >= child.latestVersion
         /\ \A v \in 0 .. MaxVersion : Saved(v) => Saved(v)']_vars
  BY FileFollows, ReachesNewer
<1> QED
  BY <1>1, <1>2, <1>3, DiskInvariant, OneWriterInvariant, PTL DEF Spec, NothingGetsOlder
===============================================================================
