--------------------------- MODULE DockerFollowers ---------------------------
(***************************************************************************)
(* The Docker source (internal/ingest/docker.go): the event loop of Lines  *)
(* and connect, the followerSet with its one follower per container, and   *)
(* the mark each follower leaves for its successor, against a daemon whose *)
(* containers start, write and die at any moment and whose event stream    *)
(* may be lost and replayed.                                               *)
(*                                                                         *)
(* Abstracted: every container here matches the selector; a container's    *)
(* log is one stream of lines with stamps of their own, so that a mark is  *)
(* the index of a line (the two streams, shared stamps and the demuxer are *)
(* in DockerLog); a follower's requests are answered while the event       *)
(* stream is up; the daemon's replay reaches back to what is asked for.    *)
(* The daemon itself is external: it is modelled by what this source       *)
(* relies on.                                                              *)
(***************************************************************************)
EXTENDS Integers, FiniteSets, Sequences, SequencesExt

CONSTANTS
  Containers,
  TailLines,       \* --docker-tail: the lines of history a first attach fetches
  MaxLog,     \* bounds a container's log
  MaxEvents,  \* bounds the starts and dies of a run
  MaxFailures \* bounds the failed subscriptions, failed lists and lost streams before a quit

ASSUME DockerAssumption ==
  /\ IsFiniteSet(Containers)
  /\ TailLines \in Nat \ {0} /\ MaxLog \in Nat /\ MaxEvents \in Nat /\ MaxFailures \in Nat

Live   == MaxLog + 1                       \* the end of a log stream still followed
Stamps == 0..(MaxEvents + MaxFailures + 2) \* 0 is the zero time
Mark   == [at : Stamps, n : 0..MaxEvents]
NoMark == [at |-> 0, n |-> 0]
Event  == [act : {"start", "die"}, id : Containers, at : Stamps]
Run    == [pc : {"none", "opening", "reading"}, stopped : BOOLEAN, restart : BOOLEAN,
           cancelled : BOOLEAN, mark : 0..MaxLog, next : 0..(MaxLog + 1), end : 0..Live]
NoRun  == [pc |-> "none", stopped |-> FALSE, restart |-> FALSE, cancelled |-> FALSE,
           mark |-> 0, next |-> 0, end |-> 0]

VARIABLES
  up,         \* the containers that are running
  log,        \* [Containers -> Nat]: how many lines each has written
  history,    \* the daemon's events, oldest first
  clock,      \* the newest instant handed out, by the daemon or the host
  pc,         \* where Lines is
  quit,       \* Lines' context is cancelled
  failures,   \* failed subscriptions, failed lists and lost streams so far
  resumed,    \* attempt > 0
  wasUp,      \* this connection listed the containers
  first,      \* dockerState.subscribed
  subscribed, \* when this connection subscribed
  mark,       \* dockerState.event
  prev, skip, \* connect's copies of it
  pos,        \* the next event of history the subscription delivers
  run,        \* [Containers -> Run]: followerSet.running
  marks,      \* [Containers -> 0..MaxLog]: followerSet.marks (0: read nothing)
  got,        \* [Containers -> Seq(1..MaxLog)]: the lines delivered, in order
  handled,    \* the events handled, by position, in order
  stale       \* the containers that died while a start of theirs was pending

daemonVars == <<up, log, history, clock>>
connVars   == <<resumed, wasUp, first, subscribed, failures>>
eventVars  == <<mark, prev, skip, pos, handled>>
setVars    == <<run, marks, stale>>
vars == <<daemonVars, connVars, eventVars, setVars, pc, quit, got>>

Init ==
  /\ up \in SUBSET Containers
  /\ log = [c \in Containers |-> 0] /\ history = <<>> /\ clock = 1
  /\ pc = "off" /\ quit = FALSE /\ failures = 0
  /\ resumed = FALSE /\ wasUp = FALSE /\ first = 0 /\ subscribed = 0
  /\ mark = NoMark /\ prev = NoMark /\ skip = 0 /\ pos = 1
  /\ run = [c \in Containers |-> NoRun]
  /\ marks = [c \in Containers |-> 0]
  /\ got = [c \in Containers |-> <<>>]
  /\ handled = <<>> /\ stale = {}

-----------------------------------------------------------------------------
(* The daemon.                                                             *)

\* An event may share the stamp of the one before it.
Happens(act, c) ==
  /\ Len(history) < MaxEvents
  /\ \E t \in {clock, clock + 1} :
       /\ clock' = t
       /\ history' = Append(history, [act |-> act, id |-> c, at |-> t])

ContainerStarts(c) ==
  /\ c \notin up
  /\ Happens("start", c)
  /\ up' = up \cup {c}
  /\ UNCHANGED <<log, connVars, eventVars, setVars, pc, quit, got>>

\* A stream being followed ends with what the container wrote.
ContainerDies(c) ==
  /\ c \in up
  /\ Happens("die", c)
  /\ up' = up \ {c}
  /\ run' = IF run[c].pc = "reading" /\ run[c].end = Live
            THEN [run EXCEPT ![c].end = log[c]] ELSE run
  /\ UNCHANGED <<log, connVars, eventVars, marks, stale, pc, quit, got>>

ContainerWrites(c) ==
  /\ c \in up /\ log[c] < MaxLog
  /\ log' = [log EXCEPT ![c] = @ + 1]
  /\ UNCHANGED <<up, history, clock, connVars, eventVars, setVars, pc, quit, got>>

-----------------------------------------------------------------------------
(* followerSet: one follower per container.                                *)

Launched(m) == [NoRun EXCEPT !.pc = "opening", !.mark = m]

\* start: a stopped follower keeps the start for its successor.
StartedMutDropped(c) ==         \* a start for an unwinding follower is dropped
  IF run[c].pc = "none" THEN [run EXCEPT ![c] = Launched(marks[c])] ELSE run
Started(c) ==
  IF run[c].pc = "none" THEN [run EXCEPT ![c] = Launched(marks[c])]
  ELSE [run EXCEPT ![c].restart = @ \/ run[c].stopped]

\* stop cancels; retire does not.
StoppedRun(c, cancel) ==
  IF run[c].pc = "none" THEN run
  ELSE [run EXCEPT ![c].stopped = TRUE, ![c].cancelled = @ \/ cancel]

CancelledMutKeepsFollowing(c) == run[c].cancelled \/ quit
Cancelled(c) == run[c].cancelled \/ quit \/ pc = "closing"

-----------------------------------------------------------------------------
(* A follower: open the log from the mark, pump it, leave.                 *)

\* The first line asked for: after the mark, or the tail of what is there.
Resume(m, n) == IF m > 0 THEN m + 1 ELSE IF n <= TailLines THEN 1 ELSE n - TailLines + 1

FollowerOpens(c) ==
  /\ run[c].pc = "opening" /\ ~Cancelled(c)
  /\ run' = [run EXCEPT ![c].pc = "reading",
                        ![c].next = Resume(run[c].mark, log[c]),
                        ![c].end = IF c \in up THEN Live ELSE log[c]]
  /\ UNCHANGED <<daemonVars, connVars, eventVars, marks, stale, pc, quit, got>>

\* The send and the context are one select: a cancelled follower may still send.
FollowerReads(c) ==
  LET i == run[c].next IN
  /\ run[c].pc = "reading" /\ i <= log[c] /\ i <= run[c].end
  /\ got' = [got EXCEPT ![c] = Append(@, i)]
  /\ run' = [run EXCEPT ![c].mark = i, ![c].next = i + 1]
  /\ UNCHANGED <<daemonVars, connVars, eventVars, marks, stale, pc, quit>>

AtEnd(c) == run[c].pc = "reading" /\ run[c].next > run[c].end

\* The mark, the entry and the successor, in one critical section.
ExitedMutOldMark(c) ==          \* the successor is given the mark this follower began with
  [run EXCEPT ![c] = IF run[c].restart /\ ~quit /\ pc # "closing"
                     THEN Launched(marks[c]) ELSE NoRun]
Exited(c) ==
  [run EXCEPT ![c] = IF run[c].restart /\ ~quit /\ pc # "closing"
                     THEN Launched(run[c].mark) ELSE NoRun]

FollowerExits(c) ==
  /\ run[c].pc # "none"
  /\ Cancelled(c) \/ AtEnd(c)
  /\ marks' = [marks EXCEPT ![c] = run[c].mark]
  /\ run' = Exited(c)
  /\ UNCHANGED <<daemonVars, connVars, eventVars, stale, pc, quit, got>>

-----------------------------------------------------------------------------
(* connect: subscribe, list, follow the events; Lines: again after a loss. *)

\* streamMark.advance.
Advanced(m, t) ==
  IF t > m.at THEN [at |-> t, n |-> 1]
  ELSE IF t = m.at THEN [m EXCEPT !.n = @ + 1] ELSE m

\* dockerState.since: where the daemon's replay starts.
SinceMutAfter == IF mark.at = 0 THEN first ELSE mark.at + 1
Since == IF mark.at = 0 THEN first ELSE mark.at

Failing ==
  \/ quit /\ UNCHANGED failures
  \/ ~quit /\ failures < MaxFailures /\ failures' = failures + 1

\* The daemon replays what is stamped from Since on, and goes on from there.
Subscribe ==
  /\ pc = "off"
  /\ clock' = clock + 1 /\ subscribed' = clock + 1
  /\ first' = IF resumed \/ first # 0 THEN first ELSE clock + 1
  /\ pos' = IF resumed
            THEN 1 + Cardinality({i \in DOMAIN history : history[i].at < Since})
            ELSE Len(history) + 1
  /\ pc' = "list"
  /\ UNCHANGED <<up, log, history, resumed, wasUp, failures, mark, prev, skip, handled,
                 setVars, quit, got>>

\* A refusal that has landed by the time it is looked for saves the list.
SubscribeRefused ==
  /\ pc = "off" /\ resumed
  /\ Failing
  /\ pc' = "closing"
  /\ UNCHANGED <<daemonVars, resumed, wasUp, first, subscribed, eventVars, setVars, quit, got>>

ListFails ==
  /\ pc = "list"
  /\ Failing
  /\ pc' = "closing"
  /\ UNCHANGED <<daemonVars, resumed, wasUp, first, subscribed, eventVars, setVars, quit, got>>

\* Every running container is attached from its mark: none is followed yet.
ListAttaches ==
  /\ pc = "list"
  /\ run' = [c \in Containers |-> IF c \in up THEN Launched(marks[c]) ELSE NoRun]
  /\ wasUp' = TRUE /\ prev' = mark /\ skip' = mark.n
  /\ pc' = "up" /\ stale' = {}
  /\ UNCHANGED <<daemonVars, resumed, first, subscribed, failures, mark, pos, handled,
                 marks, quit, got>>

Seen(e) == resumed /\ prev.at # 0 /\ (e.at < prev.at \/ (e.at = prev.at /\ skip > 0))

\* The newest event handled comes back first: the ones seen at its stamp are skipped.
SkipEvent ==
  /\ pc = "up" /\ pos \in DOMAIN history
  /\ Seen(history[pos])
  /\ pos' = pos + 1
  /\ skip' = IF history[pos].at = prev.at THEN skip - 1 ELSE skip
  /\ UNCHANGED <<daemonVars, connVars, mark, prev, handled, setVars, pc, quit, got>>

\* A die from the gap: stamped before this subscription.
FromTheGapMutNever(e) == FALSE
FromTheGap(e) == resumed /\ e.at < subscribed

HandleEvent ==
  LET e == history[pos] IN
  /\ pc = "up" /\ pos \in DOMAIN history
  /\ ~Seen(e)
  /\ pos' = pos + 1
  /\ handled' = Append(handled, pos)
  /\ mark' = Advanced(mark, e.at)
  /\ \/ /\ e.act = "start" /\ run' = Started(e.id)
        /\ stale' = IF run[e.id].pc = "none" \/ run[e.id].stopped THEN stale \ {e.id} ELSE stale
     \/ e.act = "die" /\ run' = StoppedRun(e.id, ~FromTheGap(e))
        /\ stale' = IF run[e.id].restart THEN stale \cup {e.id} ELSE stale
  /\ UNCHANGED <<daemonVars, connVars, prev, skip, marks, pc, quit, got>>

StreamLost ==
  /\ pc = "up"
  /\ Failing
  /\ pc' = "closing"
  /\ UNCHANGED <<daemonVars, resumed, wasUp, first, subscribed, eventVars, setVars, quit, got>>

SeesQuit ==
  /\ pc = "up" /\ quit
  /\ pc' = "closing"
  /\ UNCHANGED <<daemonVars, connVars, eventVars, setVars, quit, got>>

\* connect returns once its followers have; a first connection that listed
\* nothing ends the source.  What was local to the connection is gone.
Closed ==
  /\ pc = "closing"
  /\ \A c \in Containers : run[c].pc = "none"
  /\ IF quit \/ (~resumed /\ ~wasUp)
     THEN pc' = "ended" /\ UNCHANGED resumed
     ELSE pc' = "wait" /\ resumed' = TRUE
  /\ wasUp' = FALSE /\ subscribed' = 0 /\ prev' = NoMark /\ skip' = 0 /\ pos' = 1
  /\ UNCHANGED <<daemonVars, first, failures, mark, handled, setVars, quit, got>>

WaitEnds ==
  /\ pc = "wait"
  /\ pc' \in IF quit THEN {"off", "ended"} ELSE {"off"}
  /\ UNCHANGED <<daemonVars, connVars, eventVars, setVars, quit, got>>

Quit ==
  /\ ~quit /\ quit' = TRUE
  /\ UNCHANGED <<daemonVars, connVars, eventVars, setVars, pc, got>>

-----------------------------------------------------------------------------
Follower(c) == FollowerOpens(c) \/ FollowerReads(c) \/ FollowerExits(c)
Container(c) == ContainerStarts(c) \/ ContainerDies(c) \/ ContainerWrites(c)
Source ==
  \/ Subscribe \/ SubscribeRefused \/ ListFails \/ ListAttaches
  \/ SkipEvent \/ HandleEvent \/ SeesQuit \/ Closed \/ WaitEnds

\* After a quit the containers stand still: nothing waits for them any more.
Next ==
  \/ Source \/ StreamLost \/ Quit
  \/ \E c \in Containers : Follower(c) \/ (~quit /\ Container(c))

\* The source's goroutines run; containers, the daemon and the user need not act.
\* The select at the head of connect's loop takes a cancel that is there to take.
\* Steps joined in one WF leave different points, or are what one point may do, and
\* each changes the variable its WF names: WF_vars of every point, at a lower cost.
Fairness ==
  /\ WF_pc(Subscribe \/ SubscribeRefused \/ ListFails \/ ListAttaches \/ Closed \/ WaitEnds)
  /\ WF_pos(SkipEvent \/ HandleEvent)
  /\ WF_pc(SeesQuit)
  /\ \A c \in Containers : WF_run(FollowerOpens(c) \/ FollowerExits(c))

Spec == Init /\ [][Next]_vars /\ Fairness

-----------------------------------------------------------------------------
TypeOK ==
  /\ up \subseteq Containers /\ log \in [Containers -> 0..MaxLog]
  /\ history \in Seq(Event) /\ clock \in Stamps
  /\ pc \in {"off", "list", "up", "closing", "wait", "ended"}
  /\ quit \in BOOLEAN /\ resumed \in BOOLEAN /\ wasUp \in BOOLEAN
  /\ failures \in 0..MaxFailures
  /\ first \in Stamps /\ subscribed \in Stamps
  /\ mark \in Mark /\ prev \in Mark /\ skip \in 0..MaxEvents
  /\ pos \in 1..(MaxEvents + 1)
  /\ run \in [Containers -> Run] /\ marks \in [Containers -> 0..MaxLog]
  /\ got \in [Containers -> Seq(1..MaxLog)]
  /\ handled \in Seq(1..MaxEvents) /\ stale \subseteq Containers

\* A container's lines are delivered once each and in order, with none left out
\* after the first, across restarts, cut-off followers, successors and
\* reconnections ("no line arrives twice").
EachLineOnce ==
  \A c \in Containers : \A i \in 1..(Len(got[c]) - 1) : got[c][i + 1] = got[c][i] + 1

\* Across lost streams and replays that start at the newest event handled, every
\* event is handled once and in order, whatever stamps the events share.
EachEventOnce ==
  \A i \in 1..(Len(handled) - 1) : handled[i + 1] = handled[i] + 1

\* Both logs of a container's life, its lines and its events, are read exactly once,
\* though a reconnection asks for each of them again from a mark (attach, connect).
NothingTwiceNothingLost == EachLineOnce /\ EachEventOnce

Following(c) == run[c].pc = "reading" /\ run[c].end = Live /\ ~run[c].cancelled

\* Nothing is left to handle, and no follower is on its way in or out.
Settled ==
  /\ pc = "up" /\ ~quit /\ pos = Len(history) + 1
  /\ \A c \in Containers : run[c].pc = "none" \/ Following(c)

\* The start of a container reaches a follower: a restart whose die and start are
\* handled while the old follower is still on its way out is followed by its
\* successor.
RestartIsFollowed == Settled => \A c \in up : Following(c)

\* The same, for a container that did not die again before the successor it was
\* promised had started.
SingleRestartIsFollowed ==
  Settled => \A c \in up \ stale : Following(c)

\* c has ended, and its last start and die both fell into the gap this connection resumed
\* from: after the newest event handled before it, and before it subscribed.
RanInTheGap(c) ==
  /\ resumed
  /\ \E i, j \in DOMAIN history :
       /\ i < j /\ history[i].id = c /\ history[j].id = c
       /\ history[i].act = "start" /\ history[i].at > prev.at /\ history[i].at >= first
       /\ history[j].act = "die" /\ history[j].at < subscribed
       /\ \A k \in DOMAIN history : history[k].id = c => k <= j

\* A container that started and died while the events were lost is read to its
\* end: its die, replayed right after its start, does not cut the follower off.
GapRunIsRead ==
  Settled => \A c \in Containers :
    RanInTheGap(c) /\ log[c] > 0 /\ run[c].pc = "none" =>
      got[c] # <<>> /\ Last(got[c]) = log[c]

\* A lost stream never wedges the source behind a follower that will not leave,
\* and a quit ends it.
EveryStopCompletes ==
  /\ (pc = "closing") ~> (pc # "closing")
  /\ quit ~> (pc = "ended")
=============================================================================
