----------------------------- MODULE TaskStream -----------------------------
(***************************************************************************)
(* The event stream of a task: the service's SSE bytes, relayed through a  *)
(* lease of the dependency guard (HttpAsyncTaskClient.stream), cut into    *)
(* frames and projected for the client (routes._project_task_events).      *)
(*                                                                         *)
(* A text is a sequence of characters: the two line ends, "d" for a line   *)
(* of data and "x" for one that is no JSON or no task.  A frame without    *)
(* data, such as a comment, is one of line ends only.  Characters, not     *)
(* bytes, are cut into chunks: the decoder is incremental.                 *)
(***************************************************************************)
EXTENDS DependencyGuard, SequencesExt

CONSTANT MaxText   \* bound on the characters of a stream

ASSUME StreamAssumption == MaxText \in Nat

VARIABLES
  text,    \* history: what the service sent on this stream
  buffer,  \* buffer of _project_task_events
  out,     \* frames the client was given
  view     \* of the client: idle, open, done, error or gone

streamVars == <<text, buffer, out, view>>

Char == {"r", "n", "d", "x"}

TaskStreamTypeOK ==
  /\ text \in [Stream -> Seq(Char)] /\ buffer \in [Stream -> Seq(Char)]
  /\ out \in [Stream -> Seq(Seq(Char))]
  /\ view \in [Stream -> {"idle", "open", "done", "error", "gone"}]

StreamInit ==
  /\ Init
  /\ text = [c \in Stream |-> <<>>]
  /\ buffer = [c \in Stream |-> <<>>]
  /\ out = [c \in Stream |-> <<>>]
  /\ view = [c \in Stream |-> "idle"]

-----------------------------------------------------------------------------
Markers == <<<<"r", "n", "r", "n">>, <<"n", "n">>, <<"r", "r">>>>
Marker == ToSet(Markers)

\* The places where the marker is.
Found(s, marker) ==
  {i \in 1 .. Len(s) + 1 - Len(marker) : SubSeq(s, i, i + Len(marker) - 1) = marker}

\* value.find: the first of them.
Find(s, marker) == [at |-> Min(Found(s, marker)), width |-> Len(marker)]

Matches(s) == {Find(s, marker) : marker \in {m \in Marker : Found(s, m) # {}}}

\* Mutant: the markers are tried in the order they are listed.
FirstListed(s) ==
  Find(s, Markers[Min({i \in DOMAIN Markers : Found(s, Markers[i]) # {}})])

\* _frame_boundary: the leftmost of the markers.
FrameBoundary(s) == CHOOSE b \in Matches(s) : \A o \in Matches(s) : b.at <= o.at

HasData(frame) == "d" \in ToSet(frame) \/ "x" \in ToSet(frame)
IsInvalid(frame) == "x" \in ToSet(frame)

\* _project_task_frame: a frame without data is skipped.
Given(frames, frame) == IF HasData(frame) THEN Append(frames, frame) ELSE frames

-----------------------------------------------------------------------------
(* The request *)

Shows(c, v) == view' = [view EXCEPT ![c] = v]

\* manager.get succeeded and the lease is entered, or the guard rejects the call and
\* the stream is one error event.
OpenStream(c) ==
  /\ view[c] # "open"
  /\ text' = [text EXCEPT ![c] = <<>>]
  /\ buffer' = [buffer EXCEPT ![c] = <<>>]
  /\ out' = [out EXCEPT ![c] = <<>>]
  /\ \/ Enter(c) /\ Shows(c, "open")
     \/ Rejects /\ Shows(c, "error") /\ UNCHANGED vars

\* The next chunk, wherever the service or the network cut it.
Receive(c, chunk) ==
  /\ view[c] = "open" /\ Matches(buffer[c]) = {}
  /\ text' = [text EXCEPT ![c] = @ \o chunk]
  /\ buffer' = [buffer EXCEPT ![c] = @ \o chunk]
  /\ UNCHANGED <<vars, out, view>>

\* A complete frame is projected and given to the client, or skipped.  One that cannot
\* be projected ends the stream with an error event; the upstream is closed.
ProjectFrame(c) ==
  /\ view[c] = "open" /\ Matches(buffer[c]) # {}
  /\ LET boundary == FrameBoundary(buffer[c])
         frame == SubSeq(buffer[c], 1, boundary.at - 1)
     IN /\ buffer' = [buffer EXCEPT ![c] =
                        SubSeq(@, boundary.at + boundary.width, Len(@))]
        /\ IF IsInvalid(frame)
             THEN Shows(c, "error") /\ Leave(c, "cancelled") /\ UNCHANGED out
             ELSE /\ out' = [out EXCEPT ![c] = Given(@, frame)]
                  /\ UNCHANGED <<vars, view>>
  /\ UNCHANGED text

\* The service ends the stream: what is left in the buffer is a frame too.
EndOfStream(c) ==
  /\ view[c] = "open" /\ Matches(buffer[c]) = {}
  /\ Leave(c, "answer")
  /\ buffer' = [buffer EXCEPT ![c] = <<>>]
  /\ IF IsInvalid(buffer[c])
       THEN Shows(c, "error") /\ UNCHANGED out
       ELSE /\ out' = [out EXCEPT ![c] = Given(@, buffer[c])]
            /\ Shows(c, "done")
  /\ UNCHANGED text

\* The service answers 4xx or 5xx, the connection breaks, or the idle timeout or the
\* lease's deadline passes while the next chunk is awaited: an error event.
StreamBreaks(c, o) ==
  /\ view[c] = "open" /\ Matches(buffer[c]) = {}
  /\ o = "fault" \/ (o = "clientError" /\ text[c] = <<>>)
  /\ Leave(c, o)
  /\ Shows(c, "error")
  /\ UNCHANGED <<text, buffer, out>>

\* The client disconnects, or the lease's deadline cancels the task that is sending to
\* it: the generators are closed, and to the guard this is no failure.
Disconnect(c) ==
  /\ view[c] = "open"
  /\ Leave(c, "cancelled")
  /\ Shows(c, "gone")
  /\ UNCHANGED <<text, buffer, out>>

Chunks(c) == UNION {[1 .. n -> Char] : n \in 1 .. MaxText - Len(text[c])}

StreamStep(c) ==
  \/ OpenStream(c)
  \/ \E chunk \in Chunks(c) : Receive(c, chunk)
  \/ ProjectFrame(c)
  \/ EndOfStream(c)
  \/ \E o \in {"fault", "clientError"} : StreamBreaks(c, o)
  \/ Disconnect(c)

\* The other calls of the dependency.
PlainStep ==
  /\ \/ \E c \in Call \ Stream : Enter(c) \/ \E o \in Outcome : Leave(c, o)
     \/ Lapse
  /\ UNCHANGED streamVars

StreamNext == PlainStep \/ \E c \in Stream : StreamStep(c)

\* Time goes on, every plain call ends, a complete frame is projected, and the lease's
\* deadline (async_task_max_runtime_seconds) ends every stream.
StreamFairness ==
  /\ WF_<<vars, streamVars>>(Lapse /\ UNCHANGED streamVars)
  /\ \A c \in Call \ Stream :
       WF_<<vars, streamVars>>((\E o \in Outcome : Leave(c, o)) /\ UNCHANGED streamVars)
  /\ \A c \in Stream :
       WF_<<vars, streamVars>>(EndOfStream(c) \/ StreamBreaks(c, "fault") \/ Disconnect(c))

-----------------------------------------------------------------------------
\* A reader of one character at a time: it ends a frame with the last character of a marker.
Scan(acc, char) ==
  LET seen == Append(acc.rest, char)
      ends == {m \in Marker : IsSuffix(m, seen)}
      frame == SubSeq(seen, 1, Len(seen) - Len(CHOOSE m \in ends : TRUE))
  IN IF ends = {}
       THEN [frames |-> acc.frames, rest |-> seen]
       ELSE [frames |-> Given(acc.frames, frame), rest |-> <<>>]

\* What it has, from acc on, after reading s.
ScanFrom(acc, s) ==
  LET read[i \in 0 .. Len(s)] == IF i = 0 THEN acc ELSE Scan(read[i - 1], s[i])
  IN read[Len(s)]

Scanned(s) == ScanFrom([frames |-> <<>>, rest |-> <<>>], s)

\* The client is given the frames of the service's text, whole and in order, however the
\* text was cut into chunks: all that are complete while the stream is open, with the
\* rest in the buffer; the unfinished last one too when it ended well; and a beginning of
\* them, up to the first that is invalid, when it did not.
FramesIgnoreChunking ==
  \A c \in Stream :
    LET scan == Scanned(text[c])
    IN /\ view[c] = "open" /\ Matches(buffer[c]) = {} => out[c] = scan.frames /\ buffer[c] = scan.rest
       /\ view[c] = "done" => out[c] = Given(scan.frames, scan.rest)
       /\ view[c] \in {"error", "gone"} => IsPrefix(out[c], scan.frames)
       /\ \A i \in DOMAIN out[c] : ~IsInvalid(out[c][i])
=============================================================================
