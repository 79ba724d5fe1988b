---------------------------- MODULE ExportWriter ----------------------------
(***************************************************************************)
(* internal/export/export.go: the JSONL export writer.                     *)
(*                                                                         *)
(* A record has two halves, the flag and its resolution, which arrive from *)
(* different goroutines in either order.  `send` classifies a half under   *)
(* the mutex mu and puts it on a bounded channel; one writer goroutine     *)
(* joins halves and appends lines to the file; Close tells the writer to   *)
(* stop and waits for it, giving up on a disk that has stopped moving.     *)
(* Disk time is abstracted: a write may take any number of steps, and a    *)
(* timer that is armed may fire at any moment the code lets it.            *)
(*                                                                         *)
(* A record is identified by its seq.  lost, begun and counted are history *)
(* variables: the records behind the counters dropped, started and queued. *)
(* due and lossAtClose are counted and dropped as they were when Close     *)
(* began, which is what it answers for.                                    *)
(***************************************************************************)
EXTENDS Integers, FiniteSets, Sequences

CONSTANTS
  Keys,      \* pairKey: one flag of one template
  QueueCap,  \* capacity of the channel (queueCap, 1024 in the code)
  Openings,  \* how the file may be opened: TRUE is OpenBlocking (replay), FALSE Open (live)
  MaxSends   \* how often a caller sends one half of one key (1 in the program)

ASSUME ExportAssumption ==
  /\ QueueCap \in Nat \ {0}
  /\ Openings \subseteq BOOLEAN
  /\ MaxSends \in Nat

Sides    == {"flag", "res"}
Other(s) == IF s = "flag" THEN "res" ELSE "flag"

Msg    == [key : Keys, side : Sides, seq : Nat]
NoMsg  == [key |-> "none", side |-> "none", seq |-> 0]
Pair   == [seq : Nat, side : Sides, lost : BOOLEAN]
NoPair == [seq |-> 0, side |-> "flag", lost |-> FALSE]

RecordLine(k, f, r) == [kind |-> "record", key |-> k, flag |-> f, res |-> r]
IncompleteLine(n)   == [kind |-> "export_incomplete", records_lost |-> n]
PartialLine         == [kind |-> "partial"]
NoLine              == [kind |-> "none"]
Lines == [kind : {"record"}, key : Keys, flag : Nat, res : Nat]
         \cup [kind : {"export_incomplete"}, records_lost : Nat]

VARIABLES
  blocking,    \* a full channel makes a sender wait, and Close waits for the disk
  sends,       \* [Keys -> [Sides -> Nat]]: calls made so far (bounds the callers)
  mu,          \* who holds mu: "free", or where its holder is in send
  half,        \* the half the holder of mu is sending
  pairs,       \* send's account of a record between its two halves
  seq,         \* last record number given out
  in,          \* the channel
  quit,        \* closed by Close
  dropped, queued, started,
  gaveUp,      \* Close stopped waiting
  abandoned,   \* [Keys -> Nat]: the record whose second half was refused (0: none)
  waiting,     \* [Sides -> [Keys -> Nat]]: the maps flags and orphans (0: none)
  wpc,         \* where the writer goroutine is
  draining,    \* the writer has seen quit
  hand,        \* the message it is handling
  line,        \* the line it is writing
  short,       \* some bytes of that line are in the file already
  file, offset, broken, err,
  moved,       \* progress since Close last looked
  drained, trailerDone, finished,
  cpc,         \* where Close is
  sawDrained, sawTrailer, timer, verdict,
  lost, begun, counted, due, lossAtClose

sendVars  == <<sends, mu, half, pairs, seq>>
writeVars == <<waiting, wpc, draining, hand, line, short>>
fileVars  == <<file, offset, broken, err>>
doneVars  == <<drained, trailerDone, finished>>
closeVars == <<quit, cpc, sawDrained, sawTrailer, timer, verdict, due, lossAtClose>>
countVars == <<dropped, queued, started, gaveUp, lost, begun, counted>>
vars == <<sendVars, writeVars, fileVars, doneVars, closeVars, countVars,
          in, abandoned, moved, blocking>>

Init ==
  /\ blocking \in Openings
  /\ sends = [k \in Keys |-> [s \in Sides |-> 0]]
  /\ mu = "free" /\ half = NoMsg
  /\ pairs = [k \in Keys |-> NoPair] /\ seq = 0
  /\ in = <<>> /\ quit = FALSE
  /\ dropped = 0 /\ queued = 0 /\ started = 0 /\ gaveUp = FALSE
  /\ abandoned = [k \in Keys |-> 0]
  /\ waiting = [s \in Sides |-> [k \in Keys |-> 0]]
  /\ wpc = "select" /\ draining = FALSE /\ hand = NoMsg
  /\ line = NoLine /\ short = FALSE
  /\ file = <<>> /\ offset = 0 /\ broken = FALSE /\ err = FALSE
  /\ moved = FALSE
  /\ drained = FALSE /\ trailerDone = FALSE /\ finished = FALSE
  /\ cpc = "open" /\ sawDrained = FALSE /\ sawTrailer = FALSE
  /\ timer = FALSE /\ verdict = "none"
  /\ lost = {} /\ begun = {} /\ counted = {} /\ due = {} /\ lossAtClose = 0

-----------------------------------------------------------------------------
(* send: Flag, Resolve of a terminal state, WouldEscalate.                 *)

\* The half is the second of its record: the account holds the other side.
IsSecond(k, s) == pairs[k].seq # 0 /\ pairs[k].side # s

\* The other half was dropped: this one is dropped on arrival, uncounted.
SendToLostRecord(k, s) ==
  /\ mu = "free" /\ sends[k][s] < MaxSends
  /\ IsSecond(k, s) /\ pairs[k].lost
  /\ sends' = [sends EXCEPT ![k][s] = @ + 1]
  /\ pairs' = [pairs EXCEPT ![k] = NoPair]
  /\ UNCHANGED <<mu, half, seq, in, abandoned, moved,
                 writeVars, fileVars, doneVars, closeVars, countVars, blocking>>

SendSecond(k, s) ==
  /\ mu = "free" /\ sends[k][s] < MaxSends
  /\ IsSecond(k, s) /\ ~pairs[k].lost
  /\ sends' = [sends EXCEPT ![k][s] = @ + 1]
  /\ pairs' = [pairs EXCEPT ![k] = NoPair]
  /\ half' = [key |-> k, side |-> s, seq |-> pairs[k].seq]
  /\ mu' = "second"
  /\ UNCHANGED <<seq, in, abandoned, moved,
                 writeVars, fileVars, doneVars, closeVars, countVars, blocking>>

SendFirst(k, s) ==
  /\ mu = "free" /\ sends[k][s] < MaxSends
  /\ ~IsSecond(k, s)
  /\ sends' = [sends EXCEPT ![k][s] = @ + 1]
  /\ seq' = seq + 1
  /\ half' = [key |-> k, side |-> s, seq |-> seq + 1]
  /\ mu' = "first"
  /\ UNCHANGED <<pairs, in, abandoned, moved,
                 writeVars, fileVars, doneVars, closeVars, countVars, blocking>>

HasRoom == Len(in) < QueueCap

\* enqueue: live, a full channel refuses; blocking, the sender waits for room
\* or for Close, and takes either when both are ready.
RefusesMutDrop == ~HasRoom                              \* replay drops as a live run does
RefusesMutWait == IF blocking THEN FALSE ELSE ~HasRoom  \* waits for room past Close
Refuses == IF blocking THEN quit ELSE ~HasRoom

OpenPair(isLost) ==
  pairs' = [pairs EXCEPT ![half.key] =
              [seq |-> half.seq, side |-> half.side, lost |-> isLost]]

\* What follows a first half's enqueue touches only what mu guards: one step.
FirstQueued ==
  /\ mu = "first" /\ HasRoom
  /\ in' = Append(in, half)
  /\ OpenPair(FALSE)
  /\ mu' = "free"
  /\ UNCHANGED <<sends, half, seq, abandoned, moved,
                 writeVars, fileVars, doneVars, closeVars, countVars, blocking>>

SecondAccepted ==
  /\ mu = "second" /\ HasRoom
  /\ in' = Append(in, half)
  /\ mu' = "secondQueued"
  /\ UNCHANGED <<sends, half, pairs, seq, abandoned, moved,
                 writeVars, fileVars, doneVars, closeVars, countVars, blocking>>

EnqueueRefused ==
  /\ mu \in {"first", "second"} /\ Refuses
  /\ mu' = IF mu = "first" THEN "firstRefused" ELSE "secondRefused"
  /\ UNCHANGED <<sends, half, pairs, seq, in, abandoned, moved,
                 writeVars, fileVars, doneVars, closeVars, countVars, blocking>>

\* What follows enqueue in send, up to the unlock.
CountDropped ==
  /\ dropped' = dropped + 1
  /\ lost' = lost \cup {half.seq}
  /\ UNCHANGED <<queued, started, gaveUp, begun, counted>>

FirstRefused ==
  /\ mu = "firstRefused"
  /\ CountDropped
  /\ OpenPair(TRUE)
  /\ mu' = "free"
  /\ UNCHANGED <<sends, half, seq, in, abandoned, moved,
                 writeVars, fileVars, doneVars, closeVars, blocking>>

SecondQueued ==
  /\ mu = "secondQueued"
  /\ queued' = queued + 1
  /\ counted' = counted \cup {half.seq}
  /\ mu' = "free"
  /\ UNCHANGED <<sends, half, pairs, seq, in, abandoned, moved, dropped, started,
                 gaveUp, lost, begun, writeVars, fileVars, doneVars, closeVars, blocking>>

SecondRefused ==
  /\ mu = "secondRefused"
  /\ CountDropped
  /\ mu' = "abandon"
  /\ UNCHANGED <<sends, half, pairs, seq, in, abandoned, moved,
                 writeVars, fileVars, doneVars, closeVars, blocking>>

NewsMutForgotten == 0                \* the writer is not told
News == half.seq

\* abandon takes abandonMu, so the writer may run between the two.
Abandon ==
  /\ mu = "abandon"
  /\ abandoned' = [abandoned EXCEPT ![half.key] = News]
  /\ mu' = "free"
  /\ UNCHANGED <<sends, half, pairs, seq, in, moved,
                 writeVars, fileVars, doneVars, closeVars, countVars, blocking>>

-----------------------------------------------------------------------------
(* run: the writer goroutine.                                              *)

Receive ==
  /\ wpc = "select" /\ in # <<>>
  /\ hand' = Head(in) /\ in' = Tail(in)
  /\ wpc' = "handle"
  /\ UNCHANGED <<waiting, draining, line, short, abandoned, moved,
                 sendVars, fileVars, doneVars, closeVars, countVars, blocking>>

SeeQuit ==
  /\ wpc = "select" /\ quit /\ ~draining
  /\ draining' = TRUE
  /\ UNCHANGED <<waiting, wpc, hand, line, short, in, abandoned, moved,
                 sendVars, fileVars, doneVars, closeVars, countVars, blocking>>

DrainEndsMutEarly == TRUE            \* stop at quit, whatever is queued
DrainEnds == in = <<>>

Drained ==
  /\ wpc = "select" /\ draining /\ DrainEnds
  /\ drained' = TRUE
  /\ wpc' = "trailer"
  /\ UNCHANGED <<waiting, draining, hand, line, short, in, abandoned, moved,
                 trailerDone, finished, sendVars, fileVars, closeVars, countVars, blocking>>

\* forget: the waiting halves whose partner was refused.
Forsaken(k) == abandoned[k] # 0 /\ \E s \in Sides : waiting[s][k] = abandoned[k]

Forget ==
  [s \in Sides |-> [k \in Keys |->
    IF abandoned[k] # 0 /\ waiting[s][k] = abandoned[k] THEN 0 ELSE waiting[s][k]]]

\* The message itself is such a half, and arrived after the news.
IsForsaken(m) == ~Forsaken(m.key) /\ abandoned[m.key] = m.seq

\* The half waiting for m, after forget.
Partner(m) == Forget[Other(m.side)][m.key]

HandleForget ==
  /\ wpc = "handle" /\ IsForsaken(hand)
  /\ abandoned' = [k \in Keys |->
       IF Forsaken(k) \/ k = hand.key THEN 0 ELSE abandoned[k]]
  /\ waiting' = Forget
  /\ wpc' = "select" /\ moved' = TRUE
  /\ UNCHANGED <<draining, hand, line, short, in,
                 sendVars, fileVars, doneVars, closeVars, countVars, blocking>>

ClearForsaken ==
  abandoned' = [k \in Keys |-> IF Forsaken(k) THEN 0 ELSE abandoned[k]]

SameRecordMutByKey(m) == Partner(m) # 0   \* join on the key alone
SameRecord(m) == Partner(m) = m.seq

\* A partner with another seq is stale and gives way.
HandleWait ==
  /\ wpc = "handle" /\ ~IsForsaken(hand)
  /\ ~SameRecord(hand)
  /\ ClearForsaken
  /\ waiting' = [Forget EXCEPT ![Other(hand.side)][hand.key] = 0,
                               ![hand.side][hand.key] = hand.seq]
  /\ wpc' = "select" /\ moved' = TRUE
  /\ UNCHANGED <<draining, hand, line, short, in,
                 sendVars, fileVars, doneVars, closeVars, countVars, blocking>>

JoinedLine ==
  IF hand.side = "flag" THEN RecordLine(hand.key, hand.seq, Partner(hand))
                        ELSE RecordLine(hand.key, Partner(hand), hand.seq)

\* handle finds the partner, then writeRecord passes the gate or is stopped by it.
Joins ==
  /\ wpc = "handle" /\ ~IsForsaken(hand)
  /\ SameRecord(hand)
  /\ ClearForsaken
  /\ waiting' = [Forget EXCEPT ![Other(hand.side)][hand.key] = 0]

\* The gate: a record starts only while Close has not given up.
MayStartMutNoGate == TRUE
MayStart == ~gaveUp

HandleJoin ==
  /\ Joins /\ MayStart
  /\ started' = started + 1
  /\ begun' = begun \cup {hand.seq}
  /\ line' = JoinedLine
  /\ wpc' = "write"
  /\ UNCHANGED <<draining, hand, short, in, moved, dropped, queued, gaveUp,
                 lost, counted, sendVars, fileVars, doneVars, closeVars, blocking>>

HandleGivenUp ==
  /\ Joins /\ ~MayStart
  /\ wpc' = "select" /\ moved' = TRUE
  /\ UNCHANGED <<draining, hand, line, short, in,
                 sendVars, fileVars, doneVars, closeVars, countVars, blocking>>

-----------------------------------------------------------------------------
(* write, writeAll, rollback: one line, or the file as it was.             *)

AfterWrite ==
  /\ wpc' = IF line.kind = "record" THEN "select" ELSE "trailerDone"
  /\ short' = FALSE /\ line' = NoLine /\ moved' = TRUE
  /\ UNCHANGED <<waiting, draining, hand, in, abandoned,
                 sendVars, doneVars, closeVars, countVars, blocking>>

\* broken: nothing more is written; or encode fails and the file is untouched.
WriteNothing ==
  /\ wpc = "write" /\ ~short
  /\ \/ broken /\ UNCHANGED err
     \/ ~broken /\ err' = TRUE
  /\ AfterWrite
  /\ UNCHANGED <<file, offset, broken>>

\* A short write: some of the line is in the file, and writeAll goes on.
WriteSome ==
  /\ wpc = "write" /\ ~broken /\ ~short
  /\ file' = Append(file, PartialLine)
  /\ short' = TRUE
  /\ UNCHANGED <<waiting, wpc, draining, hand, line, offset, broken, err, in,
                 abandoned, moved, sendVars, doneVars, closeVars, countVars, blocking>>

EndOfRecord == offset + 1

\* The rest of the line lands; Sync may fail, which is only noted.
WriteDone ==
  /\ wpc = "write" /\ ~broken
  /\ file' = IF short THEN [file EXCEPT ![Len(file)] = line] ELSE Append(file, line)
  /\ offset' = EndOfRecord
  /\ err' \in {err, TRUE}
  /\ AfterWrite
  /\ UNCHANGED broken

StopsMutNever == FALSE               \* go on after a failed rollback
StopsForGood == TRUE

\* A real error: truncate to the last complete record, or stop for good.
WriteFailed ==
  /\ wpc = "write" /\ ~broken
  /\ err' = TRUE
  /\ \/ file' = SubSeq(file, 1, offset) /\ UNCHANGED broken
     \/ broken' = StopsForGood /\ UNCHANGED file
  /\ AfterWrite
  /\ UNCHANGED offset

-----------------------------------------------------------------------------
(* writeTrailer and closeFile.                                             *)

\* n := w.dropped.Load(), before the gate is taken.
ReadDropped ==
  /\ wpc = "trailer"
  /\ IF dropped = 0 THEN wpc' = "trailerDone" /\ UNCHANGED line
                    ELSE wpc' = "trailerGate" /\ line' = IncompleteLine(dropped)
  /\ UNCHANGED <<waiting, draining, hand, short, in, abandoned, moved,
                 sendVars, fileVars, doneVars, closeVars, countVars, blocking>>

TrailerGate ==
  /\ wpc = "trailerGate"
  /\ IF gaveUp THEN wpc' = "trailerDone" /\ line' = NoLine
               ELSE wpc' = "write" /\ UNCHANGED line
  /\ UNCHANGED <<waiting, draining, hand, short, in, abandoned, moved,
                 sendVars, fileVars, doneVars, closeVars, countVars, blocking>>

TrailerDone ==
  /\ wpc = "trailerDone"
  /\ trailerDone' = TRUE
  /\ wpc' = "closeFile"
  /\ UNCHANGED <<waiting, draining, hand, line, short, in, abandoned, moved, drained,
                 finished, sendVars, fileVars, closeVars, countVars, blocking>>

CloseFile ==
  /\ wpc = "closeFile"
  /\ err' \in {err, TRUE}
  /\ moved' = TRUE /\ finished' = TRUE
  /\ wpc' = "done"
  /\ UNCHANGED <<waiting, draining, hand, line, short, in, abandoned, drained,
                 trailerDone, file, offset, broken, sendVars, closeVars, countVars, blocking>>

-----------------------------------------------------------------------------
(* Close, await, giveUp.                                                   *)

Close ==
  /\ cpc = "open"
  /\ quit' = TRUE
  /\ cpc' = IF blocking THEN "wait" ELSE "await"
  /\ moved' = FALSE
  /\ due' = counted /\ lossAtClose' = dropped
  /\ UNCHANGED <<sawDrained, sawTrailer, timer, verdict, in, abandoned,
                 sendVars, writeVars, fileVars, doneVars, countVars, blocking>>

StillQueuedMutAll == queued          \* counts the records already started too
StillQueued == IF queued <= started THEN 0 ELSE queued - started

\* giveUp, under the gate.
GiveUp(why) ==
  /\ gaveUp' = TRUE
  /\ dropped' = dropped + StillQueued
  /\ lost' = lost \cup (counted \ begun)
  /\ cpc' = "returned" /\ verdict' = why
  /\ UNCHANGED <<queued, started, begun, counted, quit, sawDrained, sawTrailer, timer,
                 due, lossAtClose, in, abandoned, moved, sendVars, writeVars, fileVars, doneVars, blocking>>

AwaitDrained ==
  /\ cpc = "await" /\ drained /\ ~sawDrained
  /\ sawDrained' = TRUE /\ timer' = TRUE
  /\ UNCHANGED <<quit, cpc, sawTrailer, verdict, due, lossAtClose, in, abandoned, moved,
                 sendVars, writeVars, fileVars, doneVars, countVars, blocking>>

AwaitTrailer ==
  /\ cpc = "await" /\ trailerDone /\ ~sawTrailer
  /\ sawTrailer' = TRUE /\ timer' = FALSE
  /\ moved' = FALSE
  /\ UNCHANGED <<quit, cpc, sawDrained, verdict, due, lossAtClose, in, abandoned,
                 sendVars, writeVars, fileVars, doneVars, countVars, blocking>>

TrailerTimeout == cpc = "await" /\ timer /\ GiveUp("trailerTimeout")

TickMoved ==
  /\ cpc = "await" /\ moved
  /\ moved' = FALSE
  /\ UNCHANGED <<in, abandoned, sendVars, writeVars, fileVars, doneVars, closeVars, countVars, blocking>>

StallTripsMutNever == FALSE          \* wait for the disk as a replay does
StallTrips == ~moved /\ ~timer

TickStalled == cpc = "await" /\ StallTrips /\ GiveUp("stalled")

AwaitFinished ==
  /\ cpc = "await" /\ finished
  /\ cpc' = "wait"
  /\ UNCHANGED <<quit, sawDrained, sawTrailer, timer, verdict, due, lossAtClose, in, abandoned, moved,
                 sendVars, writeVars, fileVars, doneVars, countVars, blocking>>

CloseReturns ==
  /\ cpc = "wait" /\ finished
  /\ cpc' = "returned" /\ verdict' = IF err THEN "error" ELSE "nil"
  /\ UNCHANGED <<quit, sawDrained, sawTrailer, timer, due, lossAtClose, in, abandoned, moved,
                 sendVars, writeVars, fileVars, doneVars, countVars, blocking>>

-----------------------------------------------------------------------------
Call == \E k \in Keys, s \in Sides :
          SendToLostRecord(k, s) \/ SendSecond(k, s) \/ SendFirst(k, s)

Enqueue == FirstQueued \/ SecondAccepted \/ EnqueueRefused

Account == FirstRefused \/ SecondQueued \/ SecondRefused \/ Abandon

Handle == HandleForget \/ HandleWait \/ HandleJoin \/ HandleGivenUp

Disk == WriteNothing \/ WriteSome \/ WriteDone \/ WriteFailed \/ CloseFile

Trailer == ReadDropped \/ TrailerGate \/ TrailerDone

Writer == Receive \/ SeeQuit \/ Drained \/ Handle \/ Trailer

GivesUp == TrailerTimeout \/ TickStalled

Await == AwaitDrained \/ AwaitTrailer \/ TickMoved \/ GivesUp \/ AwaitFinished \/ CloseReturns

Next == Call \/ Enqueue \/ Account \/ Writer \/ Disk \/ Close \/ Await

(***************************************************************************)
(* Fairness.  A goroutine that can run does run.  Call and Close are the   *)
(* callers' choice, and the disk is never fair: a live Close must return   *)
(* without it.                                                             *)
(***************************************************************************)
Fairness == WF_vars(Enqueue) /\ WF_vars(Account) /\ WF_vars(Writer) /\ WF_vars(Await)

Spec == Init /\ [][Next]_vars /\ Fairness

-----------------------------------------------------------------------------
(* Properties.                                                             *)

SendOK ==
  /\ sends \in [Keys -> [Sides -> Nat]]
  /\ mu \in {"free", "first", "second", "secondQueued",
             "firstRefused", "secondRefused", "abandon"}
  /\ half \in Msg \cup {NoMsg} /\ (mu # "free" => half \in Msg)
  /\ pairs \in [Keys -> Pair] /\ seq \in Nat
  /\ abandoned \in [Keys -> Nat]

CountOK ==
  /\ dropped \in Nat /\ queued \in Nat /\ started \in Nat /\ gaveUp \in BOOLEAN
  /\ lost \subseteq Nat /\ begun \subseteq Nat /\ counted \subseteq Nat

QueueOK == in \in Seq(Msg) /\ Len(in) <= QueueCap

WriterOK ==
  /\ waiting \in [Sides -> [Keys -> Nat]]
  /\ wpc \in {"select", "handle", "write", "trailer", "trailerGate", "trailerDone",
              "closeFile", "done"}
  /\ hand \in Msg \cup {NoMsg} /\ (wpc = "handle" => hand \in Msg)
  /\ line \in Lines \cup {NoLine} /\ (wpc \in {"write", "trailerGate"} => line \in Lines)
  /\ draining \in BOOLEAN /\ short \in BOOLEAN
  /\ drained \in BOOLEAN /\ trailerDone \in BOOLEAN /\ finished \in BOOLEAN

FileOK ==
  /\ file \in Seq(Lines \cup {PartialLine}) /\ offset \in Nat
  /\ broken \in BOOLEAN /\ err \in BOOLEAN

CloseOK ==
  /\ blocking \in BOOLEAN /\ quit \in BOOLEAN /\ moved \in BOOLEAN
  /\ cpc \in {"open", "await", "wait", "returned"}
  /\ sawDrained \in BOOLEAN /\ sawTrailer \in BOOLEAN /\ timer \in BOOLEAN
  /\ verdict \in {"none", "nil", "error", "stalled", "trailerTimeout"}
  /\ due \subseteq counted /\ lossAtClose \in Nat

\* Every variable has its type; the channel holds at most its capacity.
TypeOK == SendOK /\ CountOK /\ QueueOK /\ WriterOK /\ FileOK /\ CloseOK

IsRecord(l) == l.kind = "record"
InFile(r)   == \E i \in DOMAIN file : IsRecord(file[i]) /\ file[i].flag = r

\* A line joins the two halves of one record (one seq), and a record has at most
\* one line: a stale half left by a dropped partner never joins another record's
\* half (handle, the p.seq == m.seq test, and #121).
OneLinePerRecord ==
  \A i \in DOMAIN file : IsRecord(file[i]) =>
    /\ file[i].flag = file[i].res
    /\ \A j \in DOMAIN file : IsRecord(file[j]) /\ file[j].flag = file[i].flag => i = j

\* dropped counts records, each once: its value is the number of records lost,
\* although giveUp computes its share as a difference of two counters that move
\* on other goroutines (send, giveUp).
LossIsExact == dropped = Cardinality(lost)

\* A record is either started, and may land, or counted lost, never both, whatever
\* the order in which Close gives up and the writer starts it (gate).
LostNeverWritten == \A r \in lost : r \notin begun /\ ~InFile(r)

\* Why LostNeverWritten holds: the inductive invariant, in parts.
Present(r, s) ==
  \/ \E i \in DOMAIN in : in[i].seq = r /\ in[i].side = s
  \/ wpc = "handle" /\ hand.seq = r /\ hand.side = s
  \/ \E k \in Keys : waiting[s][k] = r /\ r # 0

Complete(r) == r \in counted \/ (mu = "secondQueued" /\ half.seq = r)
Undecided   == mu \in {"first", "second", "firstRefused", "secondRefused"}

SeqsGivenOut ==
  /\ \A i \in DOMAIN in : in[i].seq \in 1..seq
  /\ wpc = "handle" => hand.seq \in 1..seq
  /\ \A s \in Sides, k \in Keys : waiting[s][k] \in 0..seq
  /\ mu # "free" => half.seq \in 1..seq
  /\ \A k \in Keys : pairs[k].seq \in 0..seq
  /\ lost \subseteq 1..seq /\ counted \subseteq 1..seq

\* Only a record whose second half was accepted has both halves with the writer.
BothHalves ==
  \A r \in 1..seq : Present(r, "flag") /\ Present(r, "res") => Complete(r)

HalfInSend ==
  Undecided =>
    /\ half.seq \notin counted \cup lost
    /\ ~Present(half.seq, half.side)
    /\ mu \in {"first", "firstRefused"} => ~Present(half.seq, Other(half.side))

OpenPairs ==
  \A k \in Keys : pairs[k].seq # 0 =>
    /\ pairs[k].seq \notin counted
    /\ ~pairs[k].lost => pairs[k].seq \notin lost
    /\ ~Present(pairs[k].seq, Other(pairs[k].side))
    /\ mu # "free" => half.seq # pairs[k].seq
    /\ \A l \in Keys \ {k} : pairs[l].seq # pairs[k].seq

FateDecided ==
  /\ \A r \in begun : Complete(r) /\ r \notin lost
  /\ ~gaveUp => \A r \in lost : ~Complete(r)
  /\ IsRecord(line) => line.flag \in begun
  /\ \A i \in DOMAIN file : IsRecord(file[i]) => file[i].flag \in begun

GateInv == SeqsGivenOut /\ BothHalves /\ HalfInSend /\ OpenPairs /\ FateDecided

\* The file as the writer's own variables describe it: offset complete lines, then at
\* most one partial line.  Strengthens FileEndsOnARecord (write, rollback).
FileShape ==
  /\ offset <= Len(file)
  /\ \A i \in 1..offset : file[i] \in Lines
  /\ ~short /\ ~broken => Len(file) = offset
  /\ short => wpc = "write" /\ ~broken /\ Len(file) = offset + 1
             /\ file[Len(file)] = PartialLine
  /\ broken => Len(file) <= offset + 1

\* Every line parses: a partial line is the last thing in the file, while it is
\* being written or after a failed rollback stopped the writer (rollback, broken).
FileEndsOnARecord ==
  \A i \in DOMAIN file : file[i] = PartialLine => i = Len(file) /\ (short \/ broken)

\* A complete line is never removed or changed: a rollback truncates to the end of
\* the last complete record and no further (write, rollback).
LinesStay ==
  [][\A i \in DOMAIN file : file[i] # PartialLine =>
       i \in DOMAIN file' /\ file'[i] = file[i]]_vars

\* A message of record r on its way to the writer's maps.
OnItsWay(r, s) ==
  \/ \E i \in DOMAIN in : in[i].seq = r /\ in[i].side = s
  \/ wpc = "handle" /\ hand.seq = r /\ hand.side = s
  \/ mu \in {"first", "second"} /\ half.seq = r /\ half.side = s

\* A half waits in the writer only while its partner can still come, or is known to
\* the writer as abandoned: no template's Pattern is held for the rest of the run
\* (forget, #126).  For callers that send each half once, as the program does.
NoHalfLeftBehind ==
  \A s \in Sides, k \in Keys : LET r == waiting[s][k] IN r # 0 =>
    \/ sends[k][Other(s)] = 0
    \/ OnItsWay(r, Other(s))
    \/ abandoned[k] = r
    \/ mu \in {"secondRefused", "abandon"} /\ half.seq = r

\* The news of an abandoned record is held only until its half turns up, and it
\* does turn up: it is queued, in hand or waiting (forget).
NewsFindsItsHalf ==
  \A k \in Keys : abandoned[k] # 0 =>
    \E s \in Sides : waiting[s][k] = abandoned[k] \/ OnItsWay(abandoned[k], s)

\* When Close returns no error, every record complete before it is in the file, and
\* if a record had been lost the last line says so, with no fewer than were lost at
\* that moment and no more than Dropped reports (Close, run's drain, writeTrailer).
LastLine == file[Len(file)]
CleanCloseIsComplete ==
  verdict = "nil" =>
    /\ \A r \in due : InFile(r)
    /\ lossAtClose > 0 =>
         /\ file # <<>> /\ LastLine.kind = "export_incomplete"
         /\ LastLine.records_lost \in lossAtClose..dropped

\* Close of a live writer returns, even when the disk never moves again (await).
CloseEnds == (cpc # "open" /\ ~blocking) ~> (cpc = "returned")

\* A replay never loses a record to a slow disk: only a send that Close overtook is
\* dropped, and Close never gives up (OpenBlocking, #35).
ReplayLosesNothing == blocking => ~gaveUp /\ (dropped > 0 => quit)

\* Close reports that the trailing record could not be written in time only while it
\* is waiting for it: once it has seen trailerDone, the bound on what is left of the
\* close is the stall (Close, await).
TrailerBoundIsForTheTrailer == verdict = "trailerTimeout" => ~sawTrailer

\* No sender keeps mu for ever: live, send never waits; blocking, it waits for room
\* or for Close, never past it (enqueue).
SenderReturns == (mu # "free" /\ (blocking => quit)) ~> (mu = "free")

\* Neither side of the writer waits for ever: Close returns, and so does every sender, also
\* the one Close overtakes while it waits for room (enqueue, await).
NobodyWaitsForEver == CloseEnds /\ SenderReturns

-----------------------------------------------------------------------------
(* What the file promises its reader: ExportLedger.                        *)

\* The complete lines as a reader parses them.
WholeLines ==
  [i \in {j \in DOMAIN file : file[j] # PartialLine} |->
     IF IsRecord(file[i]) THEN [kind |-> "record", of |-> file[i].flag]
                          ELSE [kind |-> "notice", of |-> file[i].records_lost]]

Ledger == INSTANCE ExportLedger
            WITH opened <- seq, reported <- dropped, lines <- WholeLines

\* The writer keeps the promise of ExportLedger: one fate per record, one line per
\* record begun, append-only, the notice last and never claiming more than was lost.
ImplementsLedger == Ledger!Spec
=============================================================================
