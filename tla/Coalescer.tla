------------------------------ MODULE Coalescer ------------------------------
(***************************************************************************)
(* internal/pipeline/coalesce.go: the goroutine between ingestion and the  *)
(* pipeline that folds the lines of a stack trace into one logical line.   *)
(*                                                                         *)
(* It holds one group per stream.  A continuation joins the group of its   *)
(* stream; a header releases it and opens the next.  A group that has been *)
(* idle for Timeout is released: by a wall-clock timer in a live run       *)
(* (Coalesce), by the time of the lines that follow in a replay            *)
(* (CoalesceSourceTime).  A release blocks while the pipeline is slow, so  *)
(* each one is a step, and the wall clock moves on between two of them.    *)
(***************************************************************************)
EXTENDS Naturals, Sequences, FiniteSets

CONSTANTS
  Streams,   \* (source, stream) keys
  Never,     \* no timer armed
  Timeout,   \* --group-timeout
  CapLines,  \* maxCoalesceLines
  MaxLines,  \* bound: lines of the input
  MaxTime    \* bound: instants of the capture and of the wall clock

ASSUME TimeoutAssumption == Timeout \in Nat \ {0}
ASSUME CapAssumption == CapLines \in Nat \ {0, 1}
ASSUME NeverAssumption == Never \notin Nat
ASSUME BoundAssumption == MaxLines \in Nat /\ MaxTime \in Nat

VARIABLES
  replay,    \* which of the two loops runs
  pc,        \* where the goroutine is in its loop
  clock,     \* the wall clock; in a replay, sourceClock
  now,       \* the instant the loop read when it last left its select (0 in the select)
  timerAt,   \* when the armed timer fires (Never: timerC is nil)
  buffers,   \* stream -> the group being assembled (count 0: none)
  line,      \* the kind of the line being added
  seq,       \* numbers headers as they arrive
  came,      \* every line received: its stream, whether it is a frame, when it was observed
  instant,   \* the instant of the last release or line
  out        \* every group sent to the pipeline

vars == <<replay, pc, clock, now, timerAt, buffers, line, seq, came, instant, out>>

\* What isContinuation and traceStartRe can tell of a line: indented or a marked
\* frame, a continuation only of a confirmed block, the header of a block, or a line of
\* its own.  CapLines stands for maxCoalesceBytes too.
Kinds == {"frame", "weak", "opens", "plain"}

NoLine == "none"

Lines == [stream : Streams, kind : Kinds, t : 0..MaxTime]

NoGroup == [count |-> 0, ids |-> <<>>, active |-> FALSE, last |-> 0, seq |-> 0]

Init ==
  /\ replay \in BOOLEAN
  /\ pc = "select"
  /\ clock = 0
  /\ now = 0
  /\ timerAt = Never
  /\ buffers = [s \in Streams |-> NoGroup]
  /\ line = NoLine
  /\ seq = 0
  /\ came = <<>>
  /\ instant = 0
  /\ out = <<>>

Holds(s) == buffers[s].count > 0
Deadline(s) == buffers[s].last + Timeout

\* flushIdle's expired.
ExpiredMutAll(s) == Holds(s)
Expired(s) == Holds(s) /\ now - buffers[s].last >= Timeout

\* inOrder: earliest deadline first, then the header that came first ...
Before(r, s) ==
  \/ buffers[r].last < buffers[s].last
  \/ buffers[r].last = buffers[s].last /\ buffers[r].seq < buffers[s].seq

\* ... among the expired groups, and by arrival alone at the end of the input.
NextExpiredMutMapOrder(s) == Expired(s)
NextExpired(s) == Expired(s) /\ \A r \in Streams \ {s} : Expired(r) => Before(s, r)
NextHeld(s) ==
  Holds(s) /\ \A r \in Streams \ {s} : Holds(r) => buffers[s].seq < buffers[r].seq

\* emit: the group reaches the pipeline, restamped with its release in a replay (a live
\* one keeps the time its source gave it, which nothing here depends on: 0).
Sent(s, g, at) ==
  Append(out, [stream |-> s, ids |-> g.ids, at |-> IF replay THEN at ELSE 0])

\* The history variable instant is kept in a replay only.
At(t) == IF replay THEN t ELSE 0

-----------------------------------------------------------------------------
\* isContinuation
Continues(s, kind) ==
  /\ Holds(s)
  /\ \/ kind = "frame"
     \/ kind = "weak" /\ buffers[s].active

\* select takes a line.  A replay's clock is the latest timestamp seen.
TakeLine(l) ==
  /\ pc = "select"
  /\ Len(came) < MaxLines
  /\ replay \/ l.t = 0 \* only a replay reads the timestamp
  /\ clock' = IF replay /\ l.t > clock THEN l.t ELSE clock
  /\ now' = clock'
  /\ line' = l.kind
  /\ came' = Append(came, [stream |-> l.stream, frame |-> l.kind = "frame", seen |-> clock'])
  /\ pc' = IF replay THEN "flush" ELSE "add"
  /\ UNCHANGED <<replay, timerAt, buffers, seq, instant, out>>

\* select takes the timer.
TimerFires ==
  /\ pc = "select" /\ ~replay
  /\ timerAt # Never /\ clock >= timerAt
  /\ now' = clock
  /\ timerAt' = Never
  /\ pc' = "flush"
  /\ UNCHANGED <<replay, line, clock, buffers, seq, came, instant, out>>

\* flushIdle releases the next expired group at its own deadline ...
FlushOne(s) ==
  /\ pc = "flush"
  /\ NextExpired(s)
  /\ out' = Sent(s, buffers[s], Deadline(s))
  /\ instant' = At(Deadline(s))
  /\ buffers' = [buffers EXCEPT ![s] = NoGroup]
  /\ UNCHANGED <<replay, line, pc, clock, now, timerAt, seq, came>>

\* ... until none is left: a replay goes on to the line it took, a live run to its timer.
AfterFlushMutUnarmed == IF replay THEN "add" ELSE "select"
AfterFlush == IF replay THEN "add" ELSE "arm"

FlushDone ==
  /\ pc = "flush"
  /\ \A s \in Streams : ~ Expired(s)
  /\ pc' = AfterFlush
  /\ UNCHANGED <<replay, line, clock, now, timerAt, buffers, seq, came, instant, out>>

Arriving == came[Len(came)]

\* The loop is done with a line: a live one points its timer again.
Looped ==
  /\ pc' = IF replay THEN "select" ELSE "arm"
  /\ now' = IF replay THEN 0 ELSE now \* dead until the next turn, as is line
  /\ line' = NoLine

\* add: a continuation joins the group of its stream, which leaves at the caps.
Folded ==
  LET g == buffers[Arriving.stream]
  IN  [count |-> g.count + 1, ids |-> Append(g.ids, Len(came)), active |-> TRUE,
       last |-> now, seq |-> g.seq]

WithoutFullMutKept(s) == buffers
WithoutFull(s) == [buffers EXCEPT ![s] = NoGroup]

Full(g) == g.count >= CapLines

Fold ==
  LET s == Arriving.stream
  IN  /\ pc = "add"
      /\ Continues(s, line)
      /\ IF Full(Folded)
         THEN /\ out' = Sent(s, Folded, now)
              /\ buffers' = WithoutFull(s)
         ELSE /\ buffers' = [buffers EXCEPT ![s] = Folded]
              /\ UNCHANGED out
      /\ instant' = At(now)
      /\ Looped
      /\ UNCHANGED <<replay, clock, timerAt, seq, came>>

\* add: a header releases the group before it and is held in its place.
Opened ==
  [count |-> 1, ids |-> <<Len(came)>>, active |-> line = "opens",
   last |-> now, seq |-> seq + 1]

Open ==
  LET s == Arriving.stream
  IN  /\ pc = "add"
      /\ ~ Continues(s, line)
      /\ out' = IF Holds(s) THEN Sent(s, buffers[s], now) ELSE out
      /\ seq' = seq + 1
      /\ buffers' = [buffers EXCEPT ![s] = Opened]
      /\ instant' = At(now)
      /\ Looped
      /\ UNCHANGED <<replay, clock, timerAt, came>>

\* arm: the timer is pointed at the earliest deadline.  The wait is counted from the
\* instant the loop read, which is past when the release before it has blocked.
Arm ==
  /\ pc = "arm"
  /\ \/ /\ \A s \in Streams : ~ Holds(s)
        /\ timerAt' = Never
     \/ \E s \in Streams :
          /\ Holds(s)
          /\ \A r \in Streams : Holds(r) => Deadline(s) <= Deadline(r)
          /\ timerAt' = IF Deadline(s) < now THEN clock ELSE clock + (Deadline(s) - now)
  /\ pc' = "select"
  /\ now' = 0
  /\ UNCHANGED <<replay, line, clock, buffers, seq, came, instant, out>>

\* The input ends: what is held is released in arrival order.
InputEnds ==
  /\ pc = "select"
  /\ now' = clock
  /\ pc' = "drain"
  /\ UNCHANGED <<replay, line, clock, timerAt, buffers, seq, came, instant, out>>

DrainOne(s) ==
  /\ pc = "drain"
  /\ NextHeld(s)
  /\ out' = Sent(s, buffers[s], now)
  /\ instant' = At(now)
  /\ buffers' = [buffers EXCEPT ![s] = NoGroup]
  /\ UNCHANGED <<replay, line, pc, clock, now, timerAt, seq, came>>

DrainDone ==
  /\ pc = "drain"
  /\ \A s \in Streams : ~ Holds(s)
  /\ pc' = "done"
  /\ UNCHANGED <<replay, line, clock, now, timerAt, buffers, seq, came, instant, out>>

-----------------------------------------------------------------------------
\* The environment: the wall clock, which outruns a goroutine that is blocked, and ctx.
Tick ==
  /\ ~replay /\ pc \notin {"done", "left"}
  /\ clock < MaxTime \/ (timerAt # Never /\ clock < timerAt)
  /\ clock' = clock + 1
  /\ UNCHANGED <<replay, line, pc, now, timerAt, buffers, seq, came, instant, out>>

\* ctx is cancelled, and a release that waits or the select sees it: the loop returns
\* where it stands.  Nothing else reads ctx.
Releasing ==
  \/ pc = "flush" /\ \E s \in Streams : Expired(s)
  \/ /\ pc = "add"
     /\ Holds(Arriving.stream)
     /\ Continues(Arriving.stream, line) => Full(Folded)
  \/ pc = "drain" /\ \E s \in Streams : Holds(s)

Leave ==
  /\ pc = "select" \/ Releasing
  /\ pc' = "left"
  /\ UNCHANGED <<replay, line, clock, now, timerAt, buffers, seq, came, instant, out>>

Loop ==
  \/ \E s \in Streams : FlushOne(s) \/ DrainOne(s)
  \/ FlushDone \/ Fold \/ Open \/ Arm \/ DrainDone

Next ==
  \/ \E l \in Lines : TakeLine(l)
  \/ TimerFires \/ Loop \/ InputEnds \/ Tick \/ Leave

\* The goroutine is scheduled, the pipeline takes what is sent, time passes, and a
\* capture file ends.  A live source need not end.
Fairness ==
  /\ WF_vars(Loop) /\ WF_vars(TimerFires) /\ WF_vars(Tick)
  /\ WF_vars(replay /\ InputEnds)

Spec == Init /\ [][Next]_vars /\ Fairness

-----------------------------------------------------------------------------
TypeOK ==
  /\ replay \in BOOLEAN 
  /\ pc \in {"select", "flush", "add", "arm", "drain", "done", "left"}
  /\ clock \in Nat /\ now \in Nat /\ seq \in Nat /\ instant \in Nat
  /\ timerAt \in Nat \cup {Never}
  /\ line \in Kinds \cup {NoLine}
  /\ buffers \in [Streams -> [count : Nat, ids : Seq(Nat), active : BOOLEAN,
                              last : Nat, seq : Nat]]
  /\ came \in Seq([stream : Streams, frame : BOOLEAN, seen : Nat])
  /\ out \in Seq([stream : Streams, ids : Seq(Nat), at : Nat])

\* The lines that have been through add.
Added == IF pc = "add" \/ (replay /\ pc = "flush") THEN Len(came) - 1 ELSE Len(came)

\* Where line i is now: a group sent, or the group its stream holds.
SentIn(i) == {g \in DOMAIN out : i \in {out[g].ids[n] : n \in DOMAIN out[g].ids}}
HeldIn(i) == {s \in Streams : i \in {buffers[s].ids[n] : n \in DOMAIN buffers[s].ids}}
Increasing(ids) == \A m, n \in DOMAIN ids : m < n => ids[m] < ids[n]

\* Every line is in exactly one group, of its own stream, whatever is released by whom
\* in between; a stream's groups come out in order with their lines in order; a run that
\* was not cancelled ends with nothing held (add, flushIdle and flushAll of coalesce.go).
StreamsKeepTheirLines ==
  /\ \A i \in 1..Added :
       /\ pc # "left" => Cardinality(SentIn(i)) + Cardinality(HeldIn(i)) = 1
       /\ \A g \in SentIn(i) : out[g].stream = came[i].stream
       /\ HeldIn(i) \subseteq {came[i].stream}
  /\ \A g \in DOMAIN out :
       /\ Increasing(out[g].ids)
       /\ \A h \in DOMAIN out :
            g < h /\ out[g].stream = out[h].stream => out[g].ids[1] < out[h].ids[1]
       /\ Holds(out[g].stream) => out[g].ids[1] < buffers[out[g].stream].ids[1]
  /\ pc = "done" => \A s \in Streams : ~ Holds(s)

\* j is the next line of i's stream.
Follows(i, j) ==
  /\ i < j /\ came[i].stream = came[j].stream
  /\ \A k \in (i + 1)..(j - 1) : came[k].stream # came[i].stream

Together(i, j) ==
  \/ SentIn(i) \cap SentIn(j) # {}
  \/ HeldIn(i) \cap HeldIn(j) # {}

\* The group i ends is at its cap: what follows it opens another.
AtCap(i) == \E g \in SentIn(i) : Len(out[g].ids) >= CapLines

\* A frame that comes before its group's deadline is in the group, however long the
\* pipeline blocked the releases of the other streams (the stale now of Coalesce's loop,
\* coalesce.go:282); and in a replay one that comes later is not, so the trace a live run
\* would have split is split.
SplitsAtTheDeadline ==
  pc # "left" => \A i, j \in 1..Added :
    Follows(i, j) /\ came[j].frame =>
      LET gap == came[j].seen - came[i].seen
      IN  /\ gap < Timeout /\ ~ AtCap(i) => Together(i, j)
          /\ replay /\ gap >= Timeout => ~ Together(i, j)

\* What a replay sends is stamped in order, although the buffers live in a map and several
\* fall due at once ("monotone by construction", coalesce.go:319): the scorer's windows
\* are computed from these times.
ReplayIsMonotone ==
  replay => \A g, h \in DOMAIN out : g < h => out[g].at <= out[h].at

\* A replay's groups, their order and their times are those of a timer that is never late
\* (CoalesceIdeal), which is what "the order and the moment a live timer would have
\* released it" (coalesce.go:313) says.
Ideal == INSTANCE CoalesceIdeal
           WITH held <- buffers, now <- instant, ended <- pc \in {"drain", "done", "left"},
                Ids <- 1..MaxLines, Instants <- 0..MaxTime

ReplayIsIdeal ==
  /\ Ideal!Init
  /\ [][replay => Ideal!Next]_(Ideal!idealVars)

\* A line is never held for ever: the timer that was armed for another group, or fired
\* for it, is pointed at this one again, although the source may stay silent.
HeldLinesAreReleased ==
  \A i \in 1..MaxLines :
    (Len(came) >= i) ~> (SentIn(i) # {} \/ pc = "left")
=============================================================================
