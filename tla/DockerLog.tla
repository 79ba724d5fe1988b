------------------------------ MODULE DockerLog ------------------------------
(***************************************************************************)
(* One container's log read by one follower after another                  *)
(* (internal/ingest/docker.go: followContainer, dockerMark, streamLogs,    *)
(* readDockerStream).  The demuxer feeds the two streams' readers through  *)
(* pipes; each reader skips what an earlier follower delivered, sends the  *)
(* rest, and advances its stream's mark; the next follower asks the daemon *)
(* for what is stamped since the marks.                                    *)
(*                                                                         *)
(* Abstracted: a frame holds one line; the bytes a reader has buffered and *)
(* the line it holds are one bounded sequence of lines read and not yet    *)
(* sent; every line has a stamp.  A TTY container is the case of one       *)
(* stream.  When a follower is launched, stopped and replaced is           *)
(* DockerFollowers' concern: here a follower may start whenever none runs  *)
(* and be cancelled at any moment.                                         *)
(***************************************************************************)
EXTENDS Integers, FiniteSets, Sequences, SequencesExt, FiniteSetsExt

CONSTANTS
  TailLines,  \* --docker-tail
  ReadAhead,  \* the lines a reader may hold unsent
  MaxLog,     \* bounds the container's log
  MaxStamp,   \* bounds the stamps
  MaxFollowers \* bounds the followers of a run

ASSUME DockerLogAssumption ==
  /\ TailLines \in Nat \ {0} /\ ReadAhead \in Nat \ {0}
  /\ MaxLog \in Nat /\ MaxStamp \in Nat \ {0} /\ MaxFollowers \in Nat

Streams == {"stdout", "stderr"}
Line    == [s : Streams, at : 1..MaxStamp]
Mark    == [at : 0..MaxStamp, n : 0..MaxLog]   \* at = 0: the zero mark
NoMark  == [at |-> 0, n |-> 0]
Live    == MaxLog + 1                          \* the end of a log still followed

VARIABLES
  up,        \* the container is running
  file,      \* its log, in the order the daemon wrote it
  follower,  \* "none" or "running"
  followers, \* how many there have been
  cancelled, \* the follower's context is
  since,     \* the instant asked for (0: none)
  cursor,    \* the next line of the file the daemon looks at for this follower
  end,       \* the last line it sends, or Live
  demux,     \* where the demuxer is: "read", "write" or "done"
  frame,     \* the line it is writing to its pipe
  reader,    \* [Streams -> {"read", "done"}]
  ahead,     \* [Streams -> Seq]: the lines read and not yet sent
  prev, skip, \* readDockerStream's copies of the mark
  mark,      \* [Streams -> Mark]
  got,       \* [Streams -> Seq]: the lines delivered, in order
  cut        \* the lines a cancelled follower had read and not sent

logVars  == <<up, file>>
reqVars  == <<followers, since>>
netVars  == <<cursor, end>>
pipeVars == <<demux, frame>>
readVars == <<reader, ahead, skip>>
outVars  == <<mark, got>>
vars == <<logVars, reqVars, netVars, pipeVars, readVars, outVars, follower, cancelled, prev, cut>>

Init ==
  /\ up \in BOOLEAN /\ file = <<>>
  /\ follower = "none" /\ followers = 0 /\ cancelled = FALSE /\ since = 0
  /\ cursor = 1 /\ end = 0
  /\ demux = "done" /\ frame = 0
  /\ reader = [s \in Streams |-> "done"] /\ ahead = [s \in Streams |-> <<>>]
  /\ mark = [s \in Streams |-> NoMark]
  /\ prev = mark /\ skip = [s \in Streams |-> 0]
  /\ got = [s \in Streams |-> <<>>] /\ cut = {}

-----------------------------------------------------------------------------
(* The container.                                                          *)

LinesOf(s) == {i \in DOMAIN file : file[i].s = s}
LastStamp(s) == IF LinesOf(s) = {} THEN 1 ELSE file[Max(LinesOf(s))].at

\* Stamps do not go back within a stream; across the two they may.
Writes(s) ==
  /\ up /\ Len(file) < MaxLog
  /\ \E t \in LastStamp(s)..MaxStamp : file' = Append(file, [s |-> s, at |-> t])
  /\ UNCHANGED <<up, reqVars, netVars, pipeVars, readVars, outVars, follower, cancelled, prev, cut>>

Dies ==
  /\ up /\ up' = FALSE
  /\ end' = IF end = Live THEN Len(file) ELSE end
  /\ UNCHANGED <<file, reqVars, cursor, pipeVars, readVars, outVars, follower, cancelled, prev, cut>>

Starts ==
  /\ ~up /\ up' = TRUE
  /\ UNCHANGED <<file, reqVars, netVars, pipeVars, readVars, outVars, follower, cancelled, prev, cut>>

-----------------------------------------------------------------------------
(* followContainer: the request.                                           *)

\* dockerMark.since: the earlier of the marks that are set.
SinceMutLatest(m) == Max({m[s].at : s \in Streams})
SinceOf(m) ==
  LET set == {m[s].at : s \in Streams} \ {0} IN IF set = {} THEN 0 ELSE Min(set)

\* With a mark there is no tail limit.
Opens ==
  /\ follower = "none" /\ followers < MaxFollowers
  /\ follower' = "running" /\ followers' = followers + 1 /\ cancelled' = FALSE
  /\ since' = SinceOf(mark)
  /\ cursor' = IF SinceOf(mark) # 0 \/ Len(file) <= TailLines THEN 1 ELSE Len(file) - TailLines + 1
  /\ end' = IF up THEN Live ELSE Len(file)
  /\ demux' = "read"
  /\ reader' = [s \in Streams |-> "read"]
  /\ prev' = mark /\ skip' = [s \in Streams |-> mark[s].n]
  /\ UNCHANGED <<logVars, frame, ahead, outVars, cut>>

Cancel ==
  /\ follower = "running" /\ ~cancelled
  /\ cancelled' = TRUE
  /\ UNCHANGED <<logVars, reqVars, netVars, pipeVars, readVars, outVars, follower, prev, cut>>

-----------------------------------------------------------------------------
(* streamLogs: the demuxer, its two pipes, and the readers.                *)

\* What the daemon has left to send: since is inclusive.
ToSend == {i \in DOMAIN file : i >= cursor /\ i <= end /\ file[i].at >= since}

DemuxReads ==
  /\ follower = "running" /\ demux = "read" /\ ToSend # {}
  /\ frame' = Min(ToSend) /\ cursor' = frame' + 1
  /\ demux' = "write"
  /\ UNCHANGED <<logVars, reqVars, end, readVars, outVars, follower, cancelled, prev, cut>>

\* End of file, or the body's read fails with the context's error.
DemuxEnds ==
  /\ follower = "running" /\ demux = "read"
  /\ cancelled \/ (end # Live /\ ToSend = {})
  /\ demux' = "done"
  /\ UNCHANGED <<logVars, reqVars, netVars, frame, readVars, outVars, follower, cancelled, prev, cut>>

PipeTakes ==
  LET s == file[frame].s IN
  /\ demux = "write" /\ reader[s] = "read" /\ Len(ahead[s]) < ReadAhead
  /\ ahead' = [ahead EXCEPT ![s] = Append(@, frame)]
  /\ demux' = "read"
  /\ UNCHANGED <<logVars, reqVars, netVars, frame, reader, skip, outVars, follower, cancelled, prev, cut>>

\* A reader that has returned closed its end of the pipe.
ReadEndClosedMut(s) == FALSE
ReadEndClosed(s) == reader[s] = "done"

PipeFails ==
  /\ demux = "write" /\ ReadEndClosed(file[frame].s)
  /\ demux' = "done"
  /\ UNCHANGED <<logVars, reqVars, netVars, frame, readVars, outVars, follower, cancelled, prev, cut>>

\* readDockerStream: delivered by an earlier follower.
SeenMutNoCount(s, i) == prev[s].at # 0 /\ file[i].at < prev[s].at
Seen(s, i) ==
  prev[s].at # 0 /\ (file[i].at < prev[s].at \/ (file[i].at = prev[s].at /\ skip[s] > 0))

Skips(s) ==
  /\ reader[s] = "read" /\ ahead[s] # <<>> /\ Seen(s, Head(ahead[s]))
  /\ ahead' = [ahead EXCEPT ![s] = Tail(@)]
  /\ skip' = [skip EXCEPT ![s] = IF file[Head(ahead[s])].at = prev[s].at THEN @ - 1 ELSE @]
  /\ UNCHANGED <<logVars, reqVars, netVars, pipeVars, reader, outVars, follower, cancelled, prev, cut>>

\* streamMark.advance.
Advanced(m, t) ==
  IF t > m.at THEN [at |-> t, n |-> 1]
  ELSE IF t = m.at THEN [m EXCEPT !.n = @ + 1] ELSE m

Sends(s) ==
  LET i == Head(ahead[s]) IN
  /\ reader[s] = "read" /\ ahead[s] # <<>> /\ ~Seen(s, i)
  /\ got' = [got EXCEPT ![s] = Append(@, i)]
  /\ mark' = [mark EXCEPT ![s] = Advanced(@, file[i].at)]
  /\ ahead' = [ahead EXCEPT ![s] = Tail(@)]
  /\ UNCHANGED <<logVars, reqVars, netVars, pipeVars, reader, skip, follower, cancelled, prev, cut>>

\* The context ends the reader at a send; what it held is left unread.
MarkOnCut(s) == mark

ReaderCut(s) ==
  /\ reader[s] = "read" /\ ahead[s] # <<>> /\ cancelled
  /\ reader' = [reader EXCEPT ![s] = "done"]
  /\ ahead' = [ahead EXCEPT ![s] = <<>>]
  /\ cut' = cut \cup ToSet(ahead[s])
  /\ mark' = MarkOnCut(s)
  /\ UNCHANGED <<logVars, reqVars, netVars, pipeVars, skip, got, follower, cancelled, prev>>

\* The demuxer has closed the write ends.
ReaderEnds(s) ==
  /\ reader[s] = "read" /\ ahead[s] = <<>> /\ demux = "done"
  /\ reader' = [reader EXCEPT ![s] = "done"]
  /\ UNCHANGED <<logVars, reqVars, netVars, pipeVars, ahead, skip, outVars, follower, cancelled, prev, cut>>

FollowerLeaves ==
  /\ follower = "running" /\ demux = "done" /\ \A s \in Streams : reader[s] = "done"
  /\ follower' = "none"
  /\ UNCHANGED <<logVars, reqVars, netVars, pipeVars, readVars, outVars, cancelled, prev, cut>>

-----------------------------------------------------------------------------
Environment == Dies \/ Starts \/ Opens \/ Cancel \/ \E s \in Streams : Writes(s)
Demuxer == DemuxReads \/ DemuxEnds \/ PipeTakes \/ PipeFails
Reader(s) == Skips(s) \/ Sends(s) \/ ReaderCut(s) \/ ReaderEnds(s)

Next == Environment \/ Demuxer \/ FollowerLeaves \/ \E s \in Streams : Reader(s)

\* The goroutines run, and a cancelled send is given up: nobody need read Lines'
\* output for that, so Sends alone has no fairness.
Fairness ==
  /\ WF_vars(Demuxer) /\ WF_vars(FollowerLeaves)
  /\ \A s \in Streams : WF_vars(Skips(s)) /\ WF_vars(ReaderCut(s)) /\ WF_vars(ReaderEnds(s))

Spec == Init /\ [][Next]_vars /\ Fairness

-----------------------------------------------------------------------------
TypeOK ==
  /\ up \in BOOLEAN /\ file \in Seq(Line) /\ Len(file) <= MaxLog
  /\ follower \in {"none", "running"} /\ followers \in 0..MaxFollowers /\ cancelled \in BOOLEAN
  /\ since \in 0..MaxStamp /\ cursor \in 1..(MaxLog + 1) /\ end \in 0..Live
  /\ demux \in {"read", "write", "done"} /\ frame \in 0..MaxLog
  /\ reader \in [Streams -> {"read", "done"}]
  /\ ahead \in [Streams -> Seq(1..MaxLog)] /\ got \in [Streams -> Seq(1..MaxLog)]
  /\ mark \in [Streams -> Mark] /\ prev \in [Streams -> Mark]
  /\ skip \in [Streams -> 0..MaxLog] /\ cut \subseteq 1..MaxLog

\* The first line delivered shares its stamp with a line the tail left out: the
\* mark then counts lines that are not the first of that stamp.
TailSplitsAStamp(s) ==
  got[s] # <<>> /\ \E i \in LinesOf(s) : i < got[s][1] /\ file[i].at = file[got[s][1]].at

\* Each stream's lines are delivered once and in order, with none left out after
\* the first, whichever followers read them, wherever those were cut off, and
\* however many lines share a stamp, as long as the first attach's tail does not
\* begin between two lines of one stamp.
StreamIsReadOnce ==
  \A s \in Streams : ~TailSplitsAStamp(s) =>
    \A i \in 1..(Len(got[s]) - 1) :
      got[s][i] < got[s][i + 1] /\ LinesOf(s) \cap (got[s][i] + 1 .. got[s][i + 1] - 1) = {}

\* A follower has read a log to its end without being cut off.
CleanEnd == follower = "none" /\ followers > 0 /\ ~cancelled

\* A follower that meets the end of the log has left nothing behind on a stream
\* it ever read from: what an earlier follower was cut off from has come back.
CleanEndIsComplete ==
  CleanEnd => \A s \in Streams :
    got[s] # <<>> => LinesOf(s) \cap (Last(got[s]) + 1 .. end) = {}

\* "A line read but cut off by cancellation is re-read on restart": for either
\* stream, also one that had delivered nothing yet.
CutLinesComeBack ==
  CleanEnd => \A i \in cut : \E s \in Streams : i \in ToSet(got[s])

\* A cancelled follower leaves, with lines in hand, a frame half written and
\* nobody reading what it sends.
CancelledFollowerLeaves == (follower = "running" /\ cancelled) ~> (follower = "none")
=============================================================================
