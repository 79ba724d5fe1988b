------------------------ MODULE DockerFollowers_proofs ------------------------
(***************************************************************************)
(* Proofs about DockerFollowers, for every set of containers, every tail   *)
(* and every bound: the source's types, the two logs read exactly once     *)
(* (the daemon's events and each container's lines), the start that        *)
(* reaches a follower, the run in the gap that is read to its end, and the *)
(* stops that take on nobody.                                              *)
(***************************************************************************)
EXTENDS DockerFollowers, FiniteSetTheorems, SequenceTheorems, TLAPS

(***************************************************************************)
(* Types, with the bounds of the stamps and of the marks left to the       *)
(* events' invariant below.                                                *)
(***************************************************************************)
RawEvent == [act : {"start", "die"}, id : Containers, at : Nat]
RawMark  == [at : Nat, n : Nat]

SourceTyped ==
  /\ pc \in {"off", "list", "up", "closing", "wait", "ended"}
  /\ quit \in BOOLEAN /\ resumed \in BOOLEAN /\ wasUp \in BOOLEAN
  /\ failures \in 0..MaxFailures /\ first \in Nat /\ subscribed \in Nat
  /\ mark \in RawMark /\ prev \in RawMark /\ skip \in Nat
  /\ handled \in Seq(1..MaxEvents)

DaemonTyped ==
  /\ up \subseteq Containers /\ log \in [Containers -> 0..MaxLog]
  /\ history \in Seq(RawEvent) /\ Len(history) <= MaxEvents /\ clock \in Nat
  /\ pos \in 1..(Len(history) + 1)

FollowersTyped ==
  /\ run \in [Containers -> Run] /\ marks \in [Containers -> 0..MaxLog]
  /\ got \in [Containers -> Seq(1..MaxLog)] /\ stale \subseteq Containers
  /\ \A c \in Containers : run[c].pc = "reading" => run[c].next >= 1

Typed == SourceTyped /\ DaemonTyped /\ FollowersTyped

LEMMA UpTo ==
  ASSUME NEW n \in Nat
  PROVE  IsFiniteSet(1..n) /\ Cardinality(1..n) = n
<1>1. /\ IsFiniteSet(1..n)
      /\ Cardinality(1..n) = IF 1 > n THEN 0 ELSE n - 1 + 1
  BY FS_Interval
<1> QED
  BY <1>1

\* The history's positions and their events.
LEMMA HistoryIs ==
  ASSUME DaemonTyped
  PROVE  /\ Len(history) \in Nat /\ DOMAIN history = 1..Len(history)
         /\ \A i \in DOMAIN history : /\ history[i] \in RawEvent /\ history[i].id \in Containers
                                      /\ history[i].act \in {"start", "die"} /\ history[i].at \in Nat
<1>1. history \in Seq(RawEvent)
  BY DEF DaemonTyped
<1>2. Len(history) \in Nat /\ DOMAIN history = 1..Len(history)
  BY <1>1, LenProperties
<1>3. \A i \in DOMAIN history : history[i] \in RawEvent
  BY <1>1, <1>2, ElementOfSeq
<1> QED
  BY <1>2, <1>3 DEF RawEvent

\* What a step that adds an event does to the history.
Extends(act, c) ==
  /\ Len(history) < MaxEvents
  /\ Len(history') = Len(history) + 1 /\ DOMAIN history' = 1..(Len(history) + 1)
  /\ \A i \in DOMAIN history : i \in DOMAIN history' /\ history'[i] = history[i]
  /\ history'[Len(history) + 1] = [act |-> act, id |-> c, at |-> clock']
  /\ clock' = clock \/ clock' = clock + 1
  /\ history' \in Seq(RawEvent)

LEMMA HappensExtends ==
  ASSUME DaemonTyped, NEW act \in {"start", "die"}, NEW c \in Containers, Happens(act, c)
  PROVE  Extends(act, c)
<1>0. Len(history) \in Nat /\ DOMAIN history = 1..Len(history) /\ clock \in Nat
      /\ history \in Seq(RawEvent)
  BY HistoryIs DEF DaemonTyped
<1>1. PICK t \in {clock, clock + 1} :
        clock' = t /\ history' = Append(history, [act |-> act, id |-> c, at |-> t])
  BY DEF Happens
<1> DEFINE e == [act |-> act, id |-> c, at |-> t]
<1>2. e \in RawEvent
  BY <1>0 DEF RawEvent
<1> HIDE DEF e
<1>3. /\ history' \in Seq(RawEvent) /\ Len(history') = Len(history) + 1
      /\ \A i \in 1..Len(history) : history'[i] = history[i]
      /\ history'[Len(history) + 1] = e
  BY <1>0, <1>1, <1>2, AppendProperties DEF e
<1>4. DOMAIN history' = 1..(Len(history) + 1)
  BY <1>0, <1>3, LenProperties
<1>5. history'[Len(history) + 1] = [act |-> act, id |-> c, at |-> clock']
  BY <1>1, <1>3 DEF e
<1> QED
  BY <1>0, <1>1, <1>3, <1>4, <1>5 DEF Extends, Happens

\* Only containers make history.
LEMMA HistoryFrame ==
  [Next]_vars => \/ \E c \in Containers : ContainerStarts(c) \/ ContainerDies(c)
                 \/ UNCHANGED <<up, history>>
  BY DEF Next, Source, Subscribe, SubscribeRefused, ListFails, ListAttaches, SkipEvent, HandleEvent,
     SeesQuit, Closed, WaitEnds, StreamLost, Quit, Follower, FollowerOpens, FollowerReads,
     FollowerExits, Container, ContainerWrites, daemonVars, vars

LEMMA ClockFrame ==
  [Next]_vars => \/ \E c \in Containers : ContainerStarts(c) \/ ContainerDies(c)
                 \/ Subscribe
                 \/ UNCHANGED <<up, history, clock>>
  BY DEF Next, Source, SubscribeRefused, ListFails, ListAttaches, SkipEvent, HandleEvent,
     SeesQuit, Closed, WaitEnds, StreamLost, Quit, Follower, FollowerOpens, FollowerReads,
     FollowerExits, Container, ContainerWrites, daemonVars, vars

\* The subscription's own state: the followers and the containers leave it alone.
LEMMA SourceFrame ==
  [Next]_vars => \/ Source \/ StreamLost
                 \/ UNCHANGED <<connVars, eventVars, pc>>
  BY DEF Next, Source, Quit, Follower, FollowerOpens, FollowerReads, FollowerExits, Container,
     ContainerStarts, ContainerDies, ContainerWrites, vars

LEMMA QuitStays == [Next]_vars => quit' = quit \/ Quit
  BY DEF Next, Source, Subscribe, SubscribeRefused, ListFails, ListAttaches, SkipEvent, HandleEvent,
     SeesQuit, Closed, WaitEnds, StreamLost, Follower, FollowerOpens, FollowerReads,
     FollowerExits, Container, ContainerStarts, ContainerDies, ContainerWrites, vars

LEMMA LogFrame ==
  [Next]_vars => log' = log \/ \E c \in Containers : ContainerWrites(c)
  BY DEF Next, Source, Subscribe, SubscribeRefused, ListFails, ListAttaches, SkipEvent, HandleEvent,
     SeesQuit, Closed, WaitEnds, StreamLost, Quit, Follower, FollowerOpens, FollowerReads,
     FollowerExits, Container, ContainerStarts, ContainerDies, daemonVars, vars

LEMMA SourceTypedStep == Typed /\ [Next]_vars => SourceTyped'
<1> SUFFICES ASSUME Typed, [Next]_vars  PROVE SourceTyped'
  OBVIOUS
<1>0. SourceTyped /\ DaemonTyped
  BY DEF Typed
<1>1. CASE UNCHANGED <<connVars, eventVars, pc>>
  <2>1. quit' \in BOOLEAN
    BY <1>0, QuitStays DEF Quit, SourceTyped
  <2> QED
    BY <1>0, <1>1, <2>1 DEF SourceTyped, connVars, eventVars
<1>2. CASE Subscribe
  BY <1>0, <1>2 DEF Subscribe, SourceTyped, DaemonTyped
<1>3. ASSUME Failing  PROVE failures' \in 0..MaxFailures
  BY <1>0, <1>3, DockerAssumption DEF Failing, SourceTyped
<1>4. CASE SubscribeRefused \/ ListFails \/ StreamLost
  BY <1>0, <1>3, <1>4 DEF SubscribeRefused, ListFails, StreamLost, SourceTyped, eventVars
<1>5. CASE ListAttaches
  BY <1>0, <1>5 DEF ListAttaches, SourceTyped, RawMark
<1>6. CASE SkipEvent
  <2>1. skip' \in Nat
    <3>1. skip \in Nat /\ (history[pos].at = prev.at => skip > 0)
      <4>1. prev.at \in Nat /\ history[pos].at \in Nat /\ skip \in Nat
        BY <1>0, <1>6, HistoryIs DEF SkipEvent, SourceTyped, RawMark
      <4> QED
        BY <1>6, <4>1 DEF SkipEvent, Seen
    <3> QED
      BY <1>6, <3>1 DEF SkipEvent
  <2> QED
    BY <1>0, <1>6, <2>1 DEF SkipEvent, SourceTyped, connVars
<1>7. CASE HandleEvent
  <2>1. pos \in 1..MaxEvents /\ history[pos].at \in Nat
    BY <1>0, <1>7, HistoryIs, DockerAssumption DEF HandleEvent, DaemonTyped
  <2>2. Advanced(mark, history[pos].at) \in RawMark
    BY <1>0, <2>1 DEF Advanced, RawMark, SourceTyped
  <2>3. handled' \in Seq(1..MaxEvents)
    BY <1>0, <1>7, <2>1, AppendProperties DEF HandleEvent, SourceTyped
  <2> QED
    BY <1>0, <1>7, <2>2, <2>3 DEF HandleEvent, SourceTyped, connVars
<1>8. CASE SeesQuit \/ WaitEnds
  BY <1>0, <1>8 DEF SeesQuit, WaitEnds, SourceTyped, connVars, eventVars
<1>9. CASE Closed
  BY <1>0, <1>9 DEF Closed, SourceTyped, RawMark, NoMark
<1> QED
  BY <1>1, <1>2, <1>4, <1>5, <1>6, <1>7, <1>8, <1>9, SourceFrame DEF Source

LEMMA DaemonTypedStep == Typed /\ [Next]_vars => DaemonTyped'
<1> SUFFICES ASSUME Typed, [Next]_vars  PROVE DaemonTyped'
  OBVIOUS
<1>0. /\ DaemonTyped /\ history \in Seq(RawEvent) /\ Len(history) \in Nat
      /\ DOMAIN history = 1..Len(history) /\ clock \in Nat /\ up \subseteq Containers
      /\ log \in [Containers -> 0..MaxLog] /\ pos \in 1..(Len(history) + 1)
      /\ MaxLog \in Nat /\ MaxEvents \in Nat /\ Len(history) <= MaxEvents
  BY HistoryIs, DockerAssumption DEF Typed, DaemonTyped
<1>1. log' \in [Containers -> 0..MaxLog]
  BY <1>0, LogFrame DEF ContainerWrites
<1>2. ASSUME NEW c \in Containers, ContainerStarts(c) \/ ContainerDies(c)  PROVE DaemonTyped'
  <2>1. PICK act \in {"start", "die"} : Happens(act, c)
    BY <1>2 DEF ContainerStarts, ContainerDies
  <2>2. Extends(act, c)
    BY <1>0, <2>1, HappensExtends
  <2>3. up' \subseteq Containers /\ pos' = pos
    BY <1>0, <1>2 DEF ContainerStarts, ContainerDies, eventVars
  <2> QED
    BY <1>0, <1>1, <2>2, <2>3 DEF Extends, DaemonTyped
<1>3. CASE Subscribe
  <2>1. pos' \in 1..(Len(history) + 1)
    <3> DEFINE S == {i \in DOMAIN history : history[i].at < Since}
    <3>1. S \subseteq 1..Len(history)
      BY <1>0
    <3>2. IsFiniteSet(1..Len(history)) /\ Cardinality(1..Len(history)) = Len(history)
      BY <1>0, UpTo
    <3>3. Cardinality(S) \in Nat /\ Cardinality(S) <= Len(history)
      BY <1>0, <3>1, <3>2, FS_Subset, FS_CardinalityType
    <3>4. pos' = IF resumed THEN 1 + Cardinality(S) ELSE Len(history) + 1
      BY <1>3 DEF Subscribe
    <3> HIDE DEF S
    <3> QED
      BY <1>0, <3>3, <3>4
  <2> QED
    BY <1>0, <1>1, <1>3, <2>1 DEF Subscribe, DaemonTyped
<1>4. CASE UNCHANGED <<up, history, clock>> /\ ~Subscribe
  <2>1. pos' \in 1..(Len(history) + 1)
    <3>1. CASE SkipEvent \/ HandleEvent
      BY <1>0, <3>1 DEF SkipEvent, HandleEvent
    <3>2. CASE ~(SkipEvent \/ HandleEvent)
      <4>1. CASE Source \/ StreamLost
        <5>1. pos' = pos \/ pos' = 1
          BY <1>4, <3>2, <4>1 DEF Source, SubscribeRefused, ListFails, ListAttaches,
             SeesQuit, Closed, WaitEnds, StreamLost, eventVars
        <5> QED
          BY <1>0, <1>4, <5>1
      <4>2. CASE UNCHANGED eventVars
        BY <1>0, <1>4, <4>2 DEF eventVars
      <4> QED
        BY <1>0, <4>1, <4>2, SourceFrame
    <3> QED
      BY <3>1, <3>2
  <2> QED
    BY <1>0, <1>1, <1>4, <2>1 DEF DaemonTyped
<1> QED
  BY <1>2, <1>3, <1>4, ClockFrame

\* What each step does to the followers.
LEMMA FollowerSteps ==
  ASSUME FollowersTyped, DaemonTyped, NEW c \in Containers, Follower(c)
  PROVE  /\ run[c].pc # "none"
         /\ \A d \in Containers : d # c => /\ run'[d] = run[d] /\ marks'[d] = marks[d]
                                           /\ got'[d] = got[d]
         /\ UNCHANGED <<daemonVars, connVars, eventVars, stale, pc, quit>>
         /\ \/ /\ run[c].pc = "opening" /\ ~Cancelled(c)
               /\ run'[c] = [run[c] EXCEPT !.pc = "reading", !.next = Resume(run[c].mark, log[c]),
                                           !.end = IF c \in up THEN Live ELSE log[c]]
               /\ UNCHANGED <<marks, got>>
            \/ /\ run[c].pc = "reading" /\ run[c].next <= log[c]
               /\ got'[c] = Append(got[c], run[c].next)
               /\ run'[c] = [run[c] EXCEPT !.mark = run[c].next, !.next = run[c].next + 1]
               /\ UNCHANGED marks
            \/ /\ Cancelled(c) \/ AtEnd(c)
               /\ marks'[c] = run[c].mark
               /\ run'[c] = IF run[c].restart /\ ~quit /\ pc # "closing"
                            THEN Launched(run[c].mark) ELSE NoRun
               /\ UNCHANGED got
<1>0. /\ run \in [Containers -> Run] /\ marks \in [Containers -> 0..MaxLog]
      /\ got \in [Containers -> Seq(1..MaxLog)] /\ log \in [Containers -> 0..MaxLog]
  BY DEF FollowersTyped, DaemonTyped
<1>1. CASE FollowerOpens(c)
  <2>1. run' = [run EXCEPT ![c] = [run[c] EXCEPT !.pc = "reading",
                                     !.next = Resume(run[c].mark, log[c]),
                                     !.end = IF c \in up THEN Live ELSE log[c]]]
    BY <1>0, <1>1 DEF FollowerOpens, Run
  <2>2. /\ run[c].pc = "opening" /\ ~Cancelled(c)
        /\ UNCHANGED <<daemonVars, connVars, eventVars, marks, stale, pc, quit, got>>
    BY <1>1 DEF FollowerOpens
  <2> QED
    BY <1>0, <2>1, <2>2
<1>2. CASE FollowerReads(c)
  <2>1. run' = [run EXCEPT ![c] = [run[c] EXCEPT !.mark = run[c].next, !.next = run[c].next + 1]]
    BY <1>0, <1>2 DEF FollowerReads, Run
  <2>2. /\ run[c].pc = "reading" /\ run[c].next <= log[c]
        /\ got' = [got EXCEPT ![c] = Append(got[c], run[c].next)]
        /\ UNCHANGED <<daemonVars, connVars, eventVars, marks, stale, pc, quit>>
    BY <1>2 DEF FollowerReads
  <2> QED
    BY <1>0, <2>1, <2>2
<1>3. CASE FollowerExits(c)
  <2>1. /\ run[c].pc # "none" /\ (Cancelled(c) \/ AtEnd(c))
        /\ marks' = [marks EXCEPT ![c] = run[c].mark]
        /\ run' = [run EXCEPT ![c] = IF run[c].restart /\ ~quit /\ pc # "closing"
                                     THEN Launched(run[c].mark) ELSE NoRun]
        /\ UNCHANGED <<daemonVars, connVars, eventVars, stale, pc, quit, got>>
    BY <1>3 DEF FollowerExits, Exited
  <2> QED
    BY <1>0, <2>1
<1> QED
  BY <1>1, <1>2, <1>3 DEF Follower

\* A container's death ends the stream of whoever follows it.
LEMMA DiesRun ==
  ASSUME FollowersTyped, NEW c \in Containers, ContainerDies(c)
  PROVE  /\ \A d \in Containers : d # c => run'[d] = run[d]
         /\ run'[c] = IF run[c].pc = "reading" /\ run[c].end = Live
                      THEN [run[c] EXCEPT !.end = log[c]] ELSE run[c]
  BY DEF FollowersTyped, ContainerDies, Run

LEMMA HandleRun ==
  ASSUME Typed, HandleEvent
  PROVE  LET e == history[pos]
             c == e.id
         IN  /\ c \in Containers /\ pos \in DOMAIN history
             /\ \A d \in Containers : d # c => run'[d] = run[d] /\ (d \in stale' <=> d \in stale)
             /\ \/ /\ e.act = "start"
                   /\ run'[c] = IF run[c].pc = "none" THEN Launched(marks[c])
                                ELSE [run[c] EXCEPT !.restart = @ \/ run[c].stopped]
                   /\ c \in stale' <=> c \in stale /\ run[c].pc # "none" /\ ~run[c].stopped
                \/ /\ e.act = "die"
                   /\ run'[c] = IF run[c].pc = "none" THEN run[c]
                                ELSE [run[c] EXCEPT !.stopped = TRUE,
                                                    !.cancelled = @ \/ ~FromTheGap(e)]
                   /\ c \in stale' <=> c \in stale \/ run[c].restart
<1> DEFINE e == history[pos]
           c == e.id
<1>0. /\ run \in [Containers -> Run] /\ stale \subseteq Containers
      /\ pos \in DOMAIN history /\ e.id \in Containers /\ e.act \in {"start", "die"}
  BY HistoryIs DEF Typed, FollowersTyped, HandleEvent
<1>1. \/ e.act = "start" /\ run' = Started(c)
         /\ stale' = IF run[c].pc = "none" \/ run[c].stopped THEN stale \ {c} ELSE stale
      \/ e.act = "die" /\ run' = StoppedRun(c, ~FromTheGap(e))
         /\ stale' = IF run[c].restart THEN stale \cup {c} ELSE stale
  BY DEF HandleEvent
<1> DEFINE gap == FromTheGap(e)
<1> HIDE DEF e, gap
<1>2. CASE /\ e.act = "start" /\ run' = Started(c)
           /\ stale' = IF run[c].pc = "none" \/ run[c].stopped THEN stale \ {c} ELSE stale
  <2>1. c \in Containers
    BY <1>0
  <2> HIDE DEF c
  <2>2. run' = IF run[c].pc = "none" THEN [run EXCEPT ![c] = Launched(marks[c])]
               ELSE [run EXCEPT ![c] = [run[c] EXCEPT !.restart = @ \/ run[c].stopped]]
    BY <1>0, <1>2, <2>1 DEF Started, Run
  <2>3. /\ \A d \in Containers : d # c => run'[d] = run[d]
        /\ run'[c] = IF run[c].pc = "none" THEN Launched(marks[c])
                     ELSE [run[c] EXCEPT !.restart = @ \/ run[c].stopped]
    BY <1>0, <2>1, <2>2
  <2>4. /\ \A d \in Containers : d # c => (d \in stale' <=> d \in stale)
        /\ c \in stale' <=> c \in stale /\ run[c].pc # "none" /\ ~run[c].stopped
    BY <1>2, <2>1
  <2> QED
    BY <1>0, <1>2, <2>1, <2>3, <2>4 DEF c, e
<1>3. CASE /\ e.act = "die" /\ run' = StoppedRun(c, ~gap)
           /\ stale' = IF run[c].restart THEN stale \cup {c} ELSE stale
  <2>1. c \in Containers
    BY <1>0
  <2> HIDE DEF c
  <2>2. run' = IF run[c].pc = "none" THEN run
               ELSE [run EXCEPT ![c] = [run[c] EXCEPT !.stopped = TRUE, !.cancelled = @ \/ ~gap]]
    BY <1>0, <1>3, <2>1 DEF StoppedRun, Run
  <2>3. /\ \A d \in Containers : d # c => run'[d] = run[d]
        /\ run'[c] = IF run[c].pc = "none" THEN run[c]
                     ELSE [run[c] EXCEPT !.stopped = TRUE, !.cancelled = @ \/ ~gap]
    BY <1>0, <2>1, <2>2
  <2>4. /\ \A d \in Containers : d # c => (d \in stale' <=> d \in stale)
        /\ c \in stale' <=> c \in stale \/ run[c].restart
    BY <1>3, <2>1
  <2> QED
    BY <1>0, <1>3, <2>1, <2>3, <2>4 DEF c, e, gap
<1> QED
  BY <1>1, <1>2, <1>3 DEF gap

LEMMA RunFrame ==
  [Next]_vars =>
    \/ \E c \in Containers : Follower(c) \/ ContainerDies(c)
    \/ HandleEvent \/ ListAttaches
    \/ UNCHANGED <<run, stale>>
  BY DEF Next, Source, Subscribe, SubscribeRefused, ListFails, SkipEvent, SeesQuit, Closed,
     WaitEnds, StreamLost, Quit, Container, ContainerStarts, ContainerWrites, setVars, vars

LEMMA GotFrame ==
  [Next]_vars => (\E c \in Containers : Follower(c)) \/ UNCHANGED <<marks, got>>
  BY DEF Next, Source, Subscribe, SubscribeRefused, ListFails, ListAttaches, SkipEvent, HandleEvent,
     SeesQuit, Closed, WaitEnds, StreamLost, Quit, Container, ContainerStarts, ContainerDies,
     ContainerWrites, setVars, vars

LEMMA RunTypes ==
  ASSUME NEW r \in Run
  PROVE  /\ r.pc \in {"none", "opening", "reading"} /\ r.stopped \in BOOLEAN
         /\ r.restart \in BOOLEAN /\ r.cancelled \in BOOLEAN
         /\ r.mark \in 0..MaxLog /\ r.next \in 0..(MaxLog + 1) /\ r.end \in 0..Live
  BY DEF Run

LEMMA LaunchTypes ==
  /\ NoRun \in Run /\ NoRun.pc = "none"
  /\ \A m \in 0..MaxLog : Launched(m) \in Run /\ Launched(m).pc = "opening"
<1>1. MaxLog \in Nat /\ 0 \in 0..MaxLog /\ 0 \in 0..(MaxLog + 1) /\ 0 \in 0..Live
  BY DockerAssumption DEF Live
<1>2. NoRun \in Run /\ NoRun.pc = "none"
  BY <1>1 DEF Run, NoRun
<1>3. ASSUME NEW m \in 0..MaxLog  PROVE Launched(m) \in Run /\ Launched(m).pc = "opening"
  <2>1. Launched(m) = [NoRun EXCEPT !.pc = "opening", !.mark = m]
    BY DEF Launched
  <2> QED
    BY <1>2, <2>1 DEF Run
<1> QED
  BY <1>2, <1>3

\* A follower's record after each thing that can be done to it.
LEMMA RunUpdates ==
  ASSUME NEW r \in Run
  PROVE  /\ \A n \in 0..(MaxLog + 1), e \in 0..Live :
              [r EXCEPT !.pc = "reading", !.next = n, !.end = e] \in Run
         /\ \A m \in 0..MaxLog, n \in 0..(MaxLog + 1) : [r EXCEPT !.mark = m, !.next = n] \in Run
         /\ \A e \in 0..Live : [r EXCEPT !.end = e] \in Run
         /\ \A b \in BOOLEAN : [r EXCEPT !.restart = b] \in Run
         /\ \A b \in BOOLEAN : [r EXCEPT !.stopped = TRUE, !.cancelled = b] \in Run
<1>1. ASSUME NEW n \in 0..(MaxLog + 1), NEW e \in 0..Live
      PROVE  [r EXCEPT !.pc = "reading", !.next = n, !.end = e] \in Run
  BY DEF Run
<1>2. ASSUME NEW m \in 0..MaxLog, NEW n \in 0..(MaxLog + 1)
      PROVE  [r EXCEPT !.mark = m, !.next = n] \in Run
  BY DEF Run
<1>3. ASSUME NEW e \in 0..Live  PROVE [r EXCEPT !.end = e] \in Run
  BY DEF Run
<1>4. ASSUME NEW b \in BOOLEAN
      PROVE  /\ [r EXCEPT !.restart = b] \in Run
             /\ [r EXCEPT !.stopped = TRUE, !.cancelled = b] \in Run
  BY DEF Run
<1> QED
  BY <1>1, <1>2, <1>3, <1>4

LEMMA FollowersTypedStep == Typed /\ [Next]_vars => FollowersTyped'
<1> SUFFICES ASSUME Typed, [Next]_vars  PROVE FollowersTyped'
  OBVIOUS
<1>0a. /\ FollowersTyped /\ DaemonTyped
       /\ run \in [Containers -> Run] /\ marks \in [Containers -> 0..MaxLog]
       /\ got \in [Containers -> Seq(1..MaxLog)] /\ stale \subseteq Containers
       /\ log \in [Containers -> 0..MaxLog] /\ MaxLog \in Nat /\ TailLines \in Nat \ {0}
  BY DockerAssumption DEF Typed, FollowersTyped, DaemonTyped
<1>0b. /\ NoRun \in Run /\ \A m \in 0..MaxLog : Launched(m) \in Run
       /\ NoRun.pc = "none" /\ \A m \in 0..MaxLog : Launched(m).pc = "opening"
  BY LaunchTypes
<1>0. /\ FollowersTyped /\ DaemonTyped
      /\ run \in [Containers -> Run] /\ marks \in [Containers -> 0..MaxLog]
      /\ got \in [Containers -> Seq(1..MaxLog)] /\ stale \subseteq Containers
      /\ log \in [Containers -> 0..MaxLog] /\ MaxLog \in Nat /\ TailLines \in Nat \ {0}
      /\ NoRun \in Run /\ \A m \in 0..MaxLog : Launched(m) \in Run
      /\ NoRun.pc = "none" /\ \A m \in 0..MaxLog : Launched(m).pc = "opening"
  BY <1>0a, <1>0b
<1> DEFINE Ok(r) == r \in Run /\ (r.pc = "reading" => r.next >= 1)
<1>a. \A c \in Containers : Ok(run[c])
  BY <1>0a DEF FollowersTyped
<1>b. ASSUME run' \in [Containers -> Run], \A c \in Containers : Ok(run'[c]),
             UNCHANGED <<marks, got>>, stale' \subseteq Containers
      PROVE  FollowersTyped'
  BY <1>0, <1>b DEF FollowersTyped
<1>1. ASSUME NEW c \in Containers, Follower(c)  PROVE FollowersTyped'
  <2>1. /\ run[c] \in Run /\ run[c].mark \in 0..MaxLog /\ log[c] \in 0..MaxLog
        /\ run[c].next \in 0..(MaxLog + 1) /\ marks[c] \in 0..MaxLog /\ got[c] \in Seq(1..MaxLog)
    BY <1>0a, RunTypes
  <2>2. Resume(run[c].mark, log[c]) \in 1..(MaxLog + 1)
    BY <1>0, <2>1 DEF Resume
  <2>3. Ok(run'[c])
    <3>1. (IF c \in up THEN Live ELSE log[c]) \in 0..Live
      BY <1>0, <2>1 DEF Live
    <3>2. CASE run'[c] = [run[c] EXCEPT !.pc = "reading", !.next = Resume(run[c].mark, log[c]),
                                        !.end = IF c \in up THEN Live ELSE log[c]]
      <4> DEFINE n == Resume(run[c].mark, log[c])
                 e == IF c \in up THEN Live ELSE log[c]
      <4>1. n \in 0..(MaxLog + 1) /\ n >= 1 /\ e \in 0..Live
        BY <1>0a, <2>2, <3>1
      <4> HIDE DEF n, e
      <4>2. [run[c] EXCEPT !.pc = "reading", !.next = n, !.end = e] \in Run
        BY <1>0a, <2>1, <4>1, RunUpdates
      <4>3. run'[c] = [run[c] EXCEPT !.pc = "reading", !.next = n, !.end = e]
        BY <3>2 DEF n, e
      <4>4. run'[c].next = n
        BY <2>1, <4>3 DEF Run
      <4> QED
        BY <4>1, <4>2, <4>3, <4>4
    <3>3. CASE /\ run[c].next <= log[c]
               /\ run'[c] = [run[c] EXCEPT !.mark = run[c].next, !.next = run[c].next + 1]
      <4>1. run[c].next \in 0..MaxLog /\ run[c].next + 1 \in 1..(MaxLog + 1)
        BY <1>0, <2>1, <3>3
      <4> QED
        <5>1. run'[c] \in Run
          <6> DEFINE n == run[c].next
                     k == run[c].next + 1
          <6>1. n \in 0..MaxLog /\ k \in 0..(MaxLog + 1)
            BY <4>1
          <6>2. run'[c] = [run[c] EXCEPT !.mark = n, !.next = k]
            BY <3>3
          <6> HIDE DEF n, k
          <6>3. [run[c] EXCEPT !.mark = n, !.next = k] \in Run
            BY <2>1, <6>1, RunUpdates
          <6> QED
            BY <6>2, <6>3
        <5>2. run'[c].next = run[c].next + 1
          BY <2>1, <3>3 DEF Run
        <5> QED
          BY <4>1, <5>1, <5>2
    <3>4. CASE run'[c] = NoRun \/ run'[c] = Launched(run[c].mark)
      BY <1>0, <2>1, <3>4
    <3> QED
      BY <1>0, <1>1, <3>2, <3>3, <3>4, FollowerSteps
  <2>4. got'[c] \in Seq(1..MaxLog) /\ marks'[c] \in 0..MaxLog
    <3>1. ASSUME run[c].pc = "reading", run[c].next <= log[c]
          PROVE  Append(got[c], run[c].next) \in Seq(1..MaxLog)
      <4>1. run[c].next >= 1
        BY <1>a, <3>1
      <4>2. run[c].next \in 1..MaxLog
        BY <1>0, <2>1, <3>1, <4>1
      <4> QED
        BY <2>1, <4>2, AppendProperties
    <3> QED
      BY <1>0, <1>1, <2>1, <3>1, FollowerSteps
  <2>5. \A d \in Containers : d # c => run'[d] = run[d] /\ marks'[d] = marks[d] /\ got'[d] = got[d]
    BY <1>0, <1>1, FollowerSteps
  <2>6. \E r \in Run, m \in 0..MaxLog, g \in Seq(1..MaxLog) :
          /\ run' = run \/ run' = [run EXCEPT ![c] = r]
          /\ marks' = marks \/ marks' = [marks EXCEPT ![c] = m]
          /\ got' = got \/ got' = [got EXCEPT ![c] = g]
    <3>1. \/ run' = [run EXCEPT ![c] = run'[c]]
      BY <1>0, <1>1, <2>1 DEF Follower, FollowerOpens, FollowerReads, FollowerExits, Exited
    <3>2. marks' = marks \/ marks' = [marks EXCEPT ![c] = marks'[c]]
      BY <1>0, <1>1 DEF Follower, FollowerOpens, FollowerReads, FollowerExits
    <3>3. got' = got \/ got' = [got EXCEPT ![c] = got'[c]]
      BY <1>0, <1>1 DEF Follower, FollowerOpens, FollowerReads, FollowerExits
    <3> QED
      BY <2>3, <2>4, <3>1, <3>2, <3>3
  <2>7. /\ run' \in [Containers -> Run] /\ marks' \in [Containers -> 0..MaxLog]
        /\ got' \in [Containers -> Seq(1..MaxLog)]
    BY <1>0, <2>6
  <2>8. stale' = stale
    BY <1>0, <1>1, FollowerSteps
  <2>9. \A d \in Containers : Ok(run'[d])
    BY <1>a, <2>3, <2>5
  <2> QED
    BY <1>0, <2>7, <2>8, <2>9 DEF FollowersTyped
<1>2. ASSUME NEW c \in Containers, ContainerDies(c)  PROVE FollowersTyped'
  <2>1. log[c] \in 0..Live /\ run[c] \in Run
    BY <1>0 DEF Live
  <2>2. [run[c] EXCEPT !.end = log[c]] \in Run /\ Ok([run[c] EXCEPT !.end = log[c]])
    BY <1>a, <2>1 DEF Run
  <2>3. run' = run \/ run' = [run EXCEPT ![c] = [run[c] EXCEPT !.end = log[c]]]
    BY <1>0, <1>2, <2>1 DEF ContainerDies, Run
  <2>4. run' \in [Containers -> Run] /\ \A d \in Containers : Ok(run'[d])
    BY <1>0, <1>a, <2>2, <2>3
  <2>5. UNCHANGED <<marks, got, stale>>
    BY <1>2 DEF ContainerDies
  <2> QED
    BY <1>0, <1>b, <2>4, <2>5
<1>3. CASE HandleEvent
  <2> DEFINE c == history[pos].id
  <2>1. c \in Containers /\ UNCHANGED <<marks, got>>
    BY <1>0, <1>3, HistoryIs DEF HandleEvent
  <2>2. run' = Started(c) \/ \E b \in BOOLEAN : run' = StoppedRun(c, b)
    <3>1. FromTheGap(history[pos]) \in BOOLEAN
      BY <1>0, <1>3, HistoryIs DEF FromTheGap, Typed, SourceTyped, HandleEvent
    <3> QED
      BY <1>3, <3>1 DEF HandleEvent
  <2>3. stale' \subseteq Containers
    BY <1>0, <1>3, <2>1 DEF HandleEvent
  <2> HIDE DEF c
  <2>4. run[c] \in Run /\ run[c].stopped \in BOOLEAN /\ run[c].restart \in BOOLEAN
        /\ run[c].cancelled \in BOOLEAN /\ Launched(marks[c]) \in Run /\ Launched(marks[c]).pc = "opening"
    BY <1>0, <2>1, RunTypes
  <2>5. CASE run' = Started(c)
    <3>1. Ok([run[c] EXCEPT !.restart = @ \/ run[c].stopped])
      BY <1>a, <2>1, <2>4 DEF Run
    <3>2. run' = [run EXCEPT ![c] = Launched(marks[c])]
          \/ run' = [run EXCEPT ![c] = [run[c] EXCEPT !.restart = @ \/ run[c].stopped]]
      BY <1>0, <2>1, <2>4, <2>5 DEF Started, Run
    <3>3. run' \in [Containers -> Run] /\ \A d \in Containers : Ok(run'[d])
      BY <1>0, <1>a, <2>1, <2>4, <3>1, <3>2
    <3> QED
      BY <1>b, <2>1, <2>3, <3>3
  <2>6. ASSUME NEW b \in BOOLEAN, run' = StoppedRun(c, b)  PROVE FollowersTyped'
    <3>1. Ok([run[c] EXCEPT !.stopped = TRUE, !.cancelled = @ \/ b])
      <4> DEFINE x == run[c].cancelled \/ b
      <4>1. x \in BOOLEAN
        OBVIOUS
      <4> HIDE DEF x
      <4>2. [run[c] EXCEPT !.stopped = TRUE, !.cancelled = x] \in Run
        BY <2>4, <4>1, RunUpdates
      <4>3. Ok([run[c] EXCEPT !.stopped = TRUE, !.cancelled = x])
        BY <1>a, <2>1, <2>4, <4>2 DEF Run
      <4> QED
        BY <4>3 DEF x
    <3>2. run' = IF run[c].pc = "none" THEN run
                 ELSE [run EXCEPT ![c] = [run[c] EXCEPT !.stopped = TRUE, !.cancelled = @ \/ b]]
      <4>1. run \in [Containers -> Run]
        BY <1>0
      <4> QED
        BY <4>1, <2>1, <2>6 DEF StoppedRun, Run
    <3>3. run' \in [Containers -> Run] /\ \A d \in Containers : Ok(run'[d])
      BY <1>0, <1>a, <2>1, <2>4, <3>1, <3>2
    <3> QED
      BY <1>b, <2>1, <2>3, <3>3
  <2> QED
    BY <2>2, <2>5, <2>6
<1>4. CASE ListAttaches
  <2>1. UNCHANGED <<marks, got>> /\ stale' = {}
        /\ run' = [c \in Containers |-> IF c \in up THEN Launched(marks[c]) ELSE NoRun]
    BY <1>4 DEF ListAttaches
  <2>2. \A c \in Containers : Ok(Launched(marks[c])) /\ Ok(NoRun)
    BY <1>0
  <2>3. run' \in [Containers -> Run] /\ \A c \in Containers : Ok(run'[c])
    BY <2>1, <2>2
  <2> QED
    BY <1>b, <2>1, <2>3
<1>5. CASE UNCHANGED <<run, stale>> /\ ~\E c \in Containers : Follower(c)
  <2>1. UNCHANGED <<marks, got>>
    BY <1>5, GotFrame
  <2> QED
    BY <1>0, <1>5, <2>1 DEF FollowersTyped
<1> QED
  BY <1>1, <1>2, <1>3, <1>4, <1>5, RunFrame

LEMMA TypedInit == Init => Typed
<1> SUFFICES ASSUME Init  PROVE Typed
  OBVIOUS
<1>1. NoRun \in Run /\ NoRun.pc = "none"
  BY LaunchTypes
<1>2. MaxLog \in Nat /\ MaxEvents \in Nat /\ MaxFailures \in Nat
  BY DockerAssumption
<1>3. SourceTyped
  <2>1. NoMark \in RawMark /\ <<>> \in Seq(1..MaxEvents) /\ 0 \in 0..MaxFailures /\ 0 \in Nat
    BY <1>2 DEF NoMark, RawMark
  <2>2. quit \in BOOLEAN /\ resumed \in BOOLEAN /\ wasUp \in BOOLEAN
    BY DEF Init
  <2> QED
    BY <2>1, <2>2 DEF Init, SourceTyped
<1>4. DaemonTyped
  <2>1. history \in Seq(RawEvent) /\ Len(history) = 0
    BY DEF Init
  <2> QED
    BY <1>2, <2>1 DEF Init, DaemonTyped
<1>5. FollowersTyped
  <2>1. <<>> \in Seq(1..MaxLog)
    OBVIOUS
  <2> QED
    BY <1>1, <1>2, <2>1 DEF Init, FollowersTyped
<1> QED
  BY <1>3, <1>4, <1>5 DEF Typed

LEMMA TypedStep == Typed /\ [Next]_vars => Typed'
BY SourceTypedStep, DaemonTypedStep, FollowersTypedStep DEF Typed

LEMMA TypedAlways == Spec => []Typed
<1> QED
  BY TypedInit, TypedStep, PTL DEF Spec

(***************************************************************************)
(* The lines: what a follower, or the mark it left, has of the log.        *)
(***************************************************************************)
LastRead(c) == IF got[c] = <<>> THEN 0 ELSE Last(got[c])

LinesInOrder(c) == \A i \in 1..(Len(got[c]) - 1) : got[c][i + 1] = got[c][i] + 1

\* The mark is the last line delivered, and the stream stands right behind it; without
\* one it stands at a line that is there, or at the first.
Standing(c) ==
  /\ LastRead(c) = IF run[c].pc = "none" THEN marks[c] ELSE run[c].mark
  /\ run[c].pc = "reading" => /\ 1 <= run[c].next
                              /\ run[c].mark > 0 => run[c].next = run[c].mark + 1
                              /\ run[c].mark = 0 => run[c].next <= 1 \/ run[c].next <= log[c]

\* Where Lines has no connection, or one that has not listed the containers.
Idle == {"off", "list", "wait", "ended"}

LineInv ==
  \A c \in Containers : /\ LinesInOrder(c) /\ Standing(c) /\ LastRead(c) <= log[c]
                        /\ pc \in Idle => run[c].pc = "none"

LEMMA LineInit == Init => LineInv
<1> SUFFICES ASSUME Init, NEW c \in Containers
             PROVE  /\ LinesInOrder(c) /\ Standing(c) /\ LastRead(c) <= log[c]
                    /\ pc \in Idle => run[c].pc = "none"
  BY DEF LineInv
<1>1. got[c] = <<>> /\ run[c] = NoRun /\ marks[c] = 0 /\ log[c] = 0 /\ NoRun.pc = "none"
  BY DEF Init, NoRun
<1>2. LastRead(c) = 0
  BY <1>1 DEF LastRead
<1>3. LinesInOrder(c)
  BY <1>1 DEF LinesInOrder
<1> QED
  BY <1>1, <1>2, <1>3 DEF Standing

LEMMA IdleFrame ==
  [Next]_vars /\ pc' \in Idle =>
    (pc \in Idle \/ \A c \in Containers : run[c].pc = "none") /\ ~ListAttaches /\ ~HandleEvent
  BY DEF Next, Source, Subscribe, SubscribeRefused, ListFails, ListAttaches, SkipEvent, HandleEvent,
     SeesQuit, Closed, WaitEnds, StreamLost, Quit, Follower, FollowerOpens, FollowerReads,
     FollowerExits, Container, ContainerStarts, ContainerDies, ContainerWrites, vars, Idle

LEMMA LogGrows ==
  ASSUME Typed, [Next]_vars, NEW c \in Containers
  PROVE  log[c] \in Nat /\ log'[c] \in Nat /\ log[c] <= log'[c]
<1>1. log \in [Containers -> 0..MaxLog] /\ MaxLog \in Nat
  BY DockerAssumption DEF Typed, DaemonTyped
<1>2. log[c] \in Nat
  BY <1>1
<1>3. CASE log' = log
  BY <1>2, <1>3
<1>4. ASSUME NEW d \in Containers, ContainerWrites(d)  PROVE log'[c] \in Nat /\ log[c] <= log'[c]
  BY <1>1, <1>2, <1>4 DEF ContainerWrites
<1> QED
  BY <1>2, <1>3, <1>4, LogFrame

\* A step that leaves c's follower where it is.
LEMMA LineKept ==
  ASSUME Typed, LineInv, [Next]_vars, NEW c \in Containers,
         got'[c] = got[c], marks'[c] = marks[c],
         run'[c].pc = run[c].pc, run'[c].mark = run[c].mark, run'[c].next = run[c].next
  PROVE  /\ LinesInOrder(c)' /\ Standing(c)' /\ LastRead(c)' <= log'[c]
         /\ LastRead(c) \in Nat
<1>1. LinesInOrder(c) /\ Standing(c) /\ LastRead(c) <= log[c]
  BY DEF LineInv
<1>2. log[c] \in Nat /\ log'[c] \in Nat /\ log[c] <= log'[c]
  BY LogGrows
<1>3. /\ run[c].mark \in Nat /\ run[c].next \in Nat /\ marks[c] \in Nat
  <2>1. run[c] \in Run /\ marks[c] \in 0..MaxLog /\ MaxLog \in Nat
    BY DockerAssumption DEF Typed, FollowersTyped
  <2> QED
    BY <2>1, RunTypes
<1>4. LastRead(c)' = LastRead(c)
  BY DEF LastRead
<1>5. LinesInOrder(c)'
  BY <1>1 DEF LinesInOrder
<1>6. LastRead(c) \in Nat
  BY <1>1, <1>3 DEF Standing
<1>7. Standing(c)'
  BY <1>1, <1>2, <1>3, <1>4 DEF Standing
<1> QED
  BY <1>1, <1>2, <1>4, <1>5, <1>6, <1>7

\* What c's own follower does to its lines.
LEMMA LineFollowed ==
  ASSUME Typed, LineInv, [Next]_vars, NEW c \in Containers, Follower(c)
  PROVE  LinesInOrder(c)' /\ Standing(c)' /\ LastRead(c)' <= log'[c]
<1>0. /\ FollowersTyped /\ DaemonTyped /\ run[c] \in Run /\ got[c] \in Seq(1..MaxLog)
      /\ MaxLog \in Nat /\ TailLines \in Nat \ {0} /\ log' = log
  BY FollowerSteps, DockerAssumption DEF Typed, FollowersTyped, daemonVars
<1>1. LinesInOrder(c) /\ Standing(c) /\ LastRead(c) <= log[c] /\ run[c].pc # "none"
  BY <1>0, FollowerSteps DEF LineInv
<1>2. /\ log[c] \in Nat /\ run[c].mark \in 0..MaxLog /\ run[c].next \in Nat
      /\ LastRead(c) = run[c].mark
  BY <1>0, <1>1, RunTypes, LogGrows DEF Standing
<1>3. CASE /\ run[c].pc = "opening" /\ ~Cancelled(c)
           /\ run'[c] = [run[c] EXCEPT !.pc = "reading", !.next = Resume(run[c].mark, log[c]),
                                       !.end = IF c \in up THEN Live ELSE log[c]]
           /\ UNCHANGED <<marks, got>>
  <2>1. /\ run'[c].pc = "reading" /\ run'[c].mark = run[c].mark
        /\ run'[c].next = Resume(run[c].mark, log[c])
    BY <1>0, <1>3 DEF Run
  <2>2. LinesInOrder(c)' /\ LastRead(c)' = LastRead(c)
    BY <1>1, <1>3 DEF LinesInOrder, LastRead
  <2> QED
    BY <1>0, <1>1, <1>2, <2>1, <2>2 DEF Standing, Resume
<1>4. CASE /\ run[c].pc = "reading" /\ run[c].next <= log[c]
           /\ got'[c] = Append(got[c], run[c].next)
           /\ run'[c] = [run[c] EXCEPT !.mark = run[c].next, !.next = run[c].next + 1]
           /\ UNCHANGED marks
  <2> DEFINE i == run[c].next
             L == Len(got[c])
  <2>1. run'[c].pc = "reading" /\ run'[c].mark = i /\ run'[c].next = i + 1
    BY <1>0, <1>4 DEF Run
  <2>2. i \in Nat /\ 1 <= i /\ i <= log[c] /\ (run[c].mark > 0 => i = run[c].mark + 1)
    BY <1>1, <1>2, <1>4 DEF Standing
  <2>3. /\ L \in Nat /\ (got[c] = <<>> <=> L = 0)
        /\ \A k \in 1..L : got[c][k] \in 1..MaxLog
    BY <1>0, LenProperties, EmptySeq, ElementOfSeq
  <2>4. /\ Len(got'[c]) = L + 1 /\ got'[c][L + 1] = i
        /\ \A k \in 1..L : got'[c][k] = got[c][k]
    <3>1. got[c] \in Seq(Nat) /\ i \in Nat
      BY <1>0, <2>2
    <3> QED
      BY <1>4, <3>1, AppendProperties
  <2> HIDE DEF i, L
  <2>5. L > 0 => got[c][L] = run[c].mark /\ run[c].mark > 0
    BY <1>2, <2>3 DEF LastRead, Last, L
  <2>6. LastRead(c)' = i
    <3>1. got'[c] # <<>>
      <4>1. Len(got'[c]) # 0
        BY <2>3, <2>4
      <4> QED
        BY <4>1, EmptySeq
    <3> QED
      BY <2>3, <2>4, <3>1 DEF LastRead, Last
  <2>7. LinesInOrder(c)'
    <3>0. L \in Nat /\ 1..(Len(got'[c]) - 1) = 1..L
      BY <2>3, <2>4
    <3> SUFFICES ASSUME NEW k \in 1..L  PROVE got'[c][k + 1] = got'[c][k] + 1
      BY <3>0 DEF LinesInOrder
    <3>1. CASE k = L
      BY <2>2, <2>3, <2>4, <2>5, <3>1
    <3>2. CASE k # L
      <4>1. k \in 1..(L - 1) /\ k + 1 \in 1..L
        BY <3>0, <3>2
      <4>2. got[c][k + 1] = got[c][k] + 1
        BY <1>1, <4>1 DEF LinesInOrder, L
      <4> QED
        BY <2>4, <4>1, <4>2
    <3> QED
      BY <3>1, <3>2
  <2> QED
    BY <1>0, <1>2, <2>1, <2>2, <2>6, <2>7 DEF Standing
<1>5. CASE /\ marks'[c] = run[c].mark
           /\ run'[c] = IF run[c].restart /\ ~quit /\ pc # "closing"
                        THEN Launched(run[c].mark) ELSE NoRun
           /\ UNCHANGED got
  <2>1. /\ run'[c].pc = "none" \/ (run'[c].pc = "opening" /\ run'[c].mark = run[c].mark)
        /\ run'[c].pc # "reading"
    BY <1>5 DEF Launched, NoRun
  <2>2. LinesInOrder(c)' /\ LastRead(c)' = LastRead(c)
    BY <1>1, <1>5 DEF LinesInOrder, LastRead
  <2> QED
    BY <1>0, <1>1, <1>2, <1>5, <2>1, <2>2 DEF Standing
<1> QED
  BY <1>0, <1>3, <1>4, <1>5, FollowerSteps

LEMMA LineStep == Typed /\ LineInv /\ [Next]_vars => LineInv'
<1> SUFFICES ASSUME Typed, LineInv, [Next]_vars, NEW c \in Containers
             PROVE  /\ LinesInOrder(c)' /\ Standing(c)' /\ LastRead(c)' <= log'[c]
                    /\ pc' \in Idle => run'[c].pc = "none"
  BY DEF LineInv
<1>0. FollowersTyped /\ DaemonTyped /\ run[c] \in Run /\ marks[c] \in 0..MaxLog
      /\ run \in [Containers -> Run]
  BY DEF Typed, FollowersTyped
<1>1. Standing(c) /\ (pc \in Idle => run[c].pc = "none")
  BY DEF LineInv
<1>2. pc' \in Idle => run[c].pc = "none" /\ ~ListAttaches /\ ~HandleEvent
  BY <1>1, IdleFrame
<1>3. ASSUME NEW d \in Containers, Follower(d)
      PROVE  /\ LinesInOrder(c)' /\ Standing(c)' /\ LastRead(c)' <= log'[c]
             /\ pc' \in Idle => run'[c].pc = "none"
  <2>1. CASE d = c
    <3>1. run[c].pc # "none"
      BY <1>0, <1>3, <2>1, FollowerSteps
    <3> QED
      BY <1>2, <1>3, <2>1, <3>1, LineFollowed
  <2>2. CASE d # c
    <3>1. run'[c] = run[c] /\ marks'[c] = marks[c] /\ got'[c] = got[c]
      BY <1>0, <1>3, <2>2, FollowerSteps
    <3> QED
      BY <1>2, <3>1, LineKept
  <2> QED
    BY <2>1, <2>2
<1>4. CASE ~\E d \in Containers : Follower(d)
  <2>1. marks'[c] = marks[c] /\ got'[c] = got[c]
    BY <1>4, GotFrame
  <2>2. CASE run'[c].pc = run[c].pc /\ run'[c].mark = run[c].mark /\ run'[c].next = run[c].next
    BY <1>2, <2>1, <2>2, LineKept
  <2>3. CASE run[c].pc = "none" /\ run'[c] = Launched(marks[c]) /\ ~(pc' \in Idle)
    <3>1. run'[c].pc = "opening" /\ run'[c].mark = marks[c]
      BY <2>3 DEF Launched, NoRun
    <3>2. LinesInOrder(c)' /\ LastRead(c)' = LastRead(c)
      BY <2>1 DEF LinesInOrder, LastRead, LineInv
    <3>3. LastRead(c) <= log[c] /\ LastRead(c) \in Nat
      BY <1>0, <1>1, <2>3, DockerAssumption DEF LineInv, Standing
    <3> QED
      BY <1>1, <2>1, <2>3, <3>1, <3>2, <3>3, LogGrows DEF Standing
  <2>4. CASE HandleEvent
    <3>1. CASE run'[c] = run[c]
      BY <2>2, <3>1
    <3>2. CASE run[c].pc = "none" /\ run'[c] = Launched(marks[c])
      BY <1>2, <2>3, <2>4, <3>2
    <3>3. CASE \/ run'[c] = [run[c] EXCEPT !.restart = @ \/ run[c].stopped]
               \/ run'[c] = [run[c] EXCEPT !.stopped = TRUE,
                                           !.cancelled = @ \/ ~FromTheGap(history[pos])]
      <4>1. run'[c].pc = run[c].pc /\ run'[c].mark = run[c].mark /\ run'[c].next = run[c].next
        BY <1>0, <3>3 DEF Run
      <4> QED
        BY <2>2, <4>1
    <3> QED
      BY <2>4, <3>1, <3>2, <3>3, HandleRun
  <2>5. CASE ListAttaches
    <3>1. run[c].pc = "none" /\ ~(pc' \in Idle)
      BY <1>1, <1>2, <2>5 DEF ListAttaches, Idle
    <3>2. CASE run'[c] = Launched(marks[c])
      BY <2>3, <3>1, <3>2
    <3>3. CASE run'[c] = NoRun
      <4>1. run'[c].pc = "none"
        BY <3>3 DEF NoRun
      <4>2. LinesInOrder(c)' /\ LastRead(c)' = LastRead(c)
        BY <2>1 DEF LinesInOrder, LastRead, LineInv
      <4>3. LastRead(c) <= log[c] /\ LastRead(c) \in Nat
        BY <1>0, <1>1, <3>1, DockerAssumption DEF LineInv, Standing
      <4> QED
        BY <1>1, <2>1, <3>1, <4>1, <4>2, <4>3, LogGrows DEF Standing
    <3> QED
      BY <2>5, <3>2, <3>3 DEF ListAttaches
  <2>6. ASSUME NEW d \in Containers, ContainerDies(d)
        PROVE  run'[c].pc = run[c].pc /\ run'[c].mark = run[c].mark /\ run'[c].next = run[c].next
    <3>1. CASE run'[c] = run[c]
      BY <3>1
    <3>2. CASE run'[c] = [run[c] EXCEPT !.end = log[c]]
      BY <1>0, <3>2 DEF Run
    <3> QED
      BY <1>0, <2>6, <3>1, <3>2, DiesRun
  <2> QED
    BY <1>4, <2>2, <2>4, <2>5, <2>6, RunFrame
<1> QED
  BY <1>3, <1>4

LEMMA LinesAlways == Spec => []LineInv
<1>1. Typed /\ LineInv /\ [Next]_vars => LineInv'
  BY LineStep
<1> QED
  BY LineInit, <1>1, TypedAlways, PTL DEF Spec

(***************************************************************************)
(* The events: where the subscription is in the daemon's history.          *)
(***************************************************************************)
Newest == Last(handled)             \* the last event handled

\* p is the first position of h whose event is stamped t or later.
FirstIn(h, p, t) ==
  /\ p \in 1..(Len(h) + 1)
  /\ \A i \in 1..Len(h) : i < p <=> h[i].at < t

Stamped ==
  /\ 1 <= clock
  /\ \A i \in 1..Len(history) : 1 <= history[i].at /\ history[i].at <= clock
  /\ \A i, j \in 1..Len(history) : i <= j => history[i].at <= history[j].at

\* How far the clock can have come: one tick an event, and one a subscription.
ClockBound ==
  /\ clock <= Len(history) + failures + 2
  /\ pc \in {"off", "wait"} \/ (pc = "closing" /\ ~quit) => clock <= Len(history) + failures + 1

FirstKept ==
  /\ resumed \/ wasUp \/ pc \in {"list", "up"} \/ handled # <<>> => first # 0
  /\ pc = "off" /\ ~resumed => first = 0
  /\ pc = "wait" => resumed
  /\ first <= clock /\ subscribed <= clock
  /\ \E p \in Nat : FirstIn(history, p, first)

\* The newest event's stamp, and how many of that stamp have been handled.
HandledKept ==
  /\ handled = <<>> => mark = NoMark
  /\ handled # <<>> =>
       /\ Newest \in 1..Len(history) /\ mark.at = history[Newest].at
       /\ \E p \in 1..Newest : FirstIn(history, p, mark.at) /\ mark.n = Newest - p + 1
  /\ EachEventOnce
  /\ ~resumed /\ pc \in {"off", "list"} => handled = <<>>

\* While it is up, a connection either comes back over what was handled or is right behind it.
Placed ==
  /\ pc \in {"list", "up"} /\ handled = <<>> => FirstIn(history, pos, first)
  /\ pc = "list" /\ handled # <<>> => FirstIn(history, pos, mark.at)
  /\ pc = "up" /\ handled = <<>> => prev = NoMark /\ skip = 0
  /\ pc = "up" /\ handled # <<>> =>
       /\ pos \in 1..(Newest + 1) /\ skip = Newest + 1 - pos /\ prev.at <= mark.at
       /\ pos <= Newest => resumed /\ prev = mark /\ history[pos].at >= mark.at

Copies == prev.at <= clock /\ prev.n <= MaxEvents /\ skip <= MaxEvents

EventInv == Stamped /\ ClockBound /\ FirstKept /\ HandledKept /\ Placed /\ Copies

\* There is one first position.
LEMMA FirstIsOne ==
  ASSUME NEW h, Len(h) \in Nat, NEW t, NEW p \in Nat, NEW q \in Nat, FirstIn(h, p, t), FirstIn(h, q, t)
  PROVE  p = q
<1>1. CASE p < q
  BY <1>1 DEF FirstIn
<1>2. CASE q < p
  BY <1>2 DEF FirstIn
<1> QED
  BY <1>1, <1>2

\* The count that a subscription asks the replay to start behind.
LEMMA FirstIsCounted ==
  ASSUME NEW h, Len(h) \in Nat, NEW t, NEW p \in Nat, FirstIn(h, p, t)
  PROVE  1 + Cardinality({i \in 1..Len(h) : h[i].at < t}) = p
<1> DEFINE S == {i \in 1..Len(h) : h[i].at < t}
<1>1. p - 1 \in Nat /\ S = 1..(p - 1)
  BY DEF FirstIn
<1>2. Cardinality(1..(p - 1)) = p - 1
  BY <1>1, UpTo
<1> HIDE DEF S
<1>3. 1 + Cardinality(S) = p
  BY <1>1, <1>2
<1> QED
  BY <1>3 DEF S

LEMMA SourceIs ==
  ASSUME Typed
  PROVE  /\ Len(history) \in Nat /\ Len(history) <= MaxEvents /\ DOMAIN history = 1..Len(history)
         /\ \A i \in 1..Len(history) : history[i].at \in Nat
         /\ clock \in Nat /\ failures \in Nat /\ first \in Nat /\ subscribed \in Nat
         /\ mark.at \in Nat /\ mark.n \in Nat /\ prev.at \in Nat /\ prev.n \in Nat
         /\ skip \in Nat /\ pos \in Nat /\ 1 <= pos /\ pos <= Len(history) + 1
         /\ NoMark.at = 0 /\ NoMark.n = 0
<1>1. /\ Len(history) \in Nat /\ DOMAIN history = 1..Len(history)
      /\ \A i \in 1..Len(history) : history[i].at \in Nat
  BY HistoryIs DEF Typed
<1>2. NoMark.at = 0 /\ NoMark.n = 0
  BY DEF NoMark
<1>3. mark.at \in Nat /\ mark.n \in Nat /\ prev.at \in Nat /\ prev.n \in Nat
  BY DEF Typed, SourceTyped, RawMark
<1>4. /\ Len(history) <= MaxEvents /\ pos \in 1..(Len(history) + 1)
      /\ clock \in Nat /\ failures \in 0..MaxFailures /\ first \in Nat /\ subscribed \in Nat
      /\ skip \in Nat
  BY DEF Typed, SourceTyped, DaemonTyped
<1> QED
  BY <1>1, <1>2, <1>3, <1>4, DockerAssumption

LEMMA HandledIs ==
  ASSUME Typed
  PROVE  /\ Len(handled) \in Nat /\ (handled = <<>> <=> Len(handled) = 0)
         /\ \A i \in 1..Len(handled) : handled[i] \in Nat
         /\ handled # <<>> => Newest \in Nat /\ Newest = handled[Len(handled)]
<1>1. handled \in Seq(1..MaxEvents)
  BY DEF Typed, SourceTyped
<1>2. /\ Len(handled) \in Nat /\ (handled = <<>> <=> Len(handled) = 0)
      /\ \A i \in 1..Len(handled) : handled[i] \in 1..MaxEvents
  BY <1>1, LenProperties, EmptySeq, ElementOfSeq
<1> QED
  BY <1>2 DEF Newest, Last

LEMMA EventInit == Init => EventInv
<1> SUFFICES ASSUME Init  PROVE EventInv
  OBVIOUS
<1>1. /\ Len(history) = 0 /\ clock = 1 /\ failures = 0 /\ pc = "off" /\ ~resumed /\ ~wasUp
      /\ first = 0 /\ subscribed = 0 /\ mark = NoMark /\ prev = NoMark /\ skip = 0 /\ handled = <<>>
  BY DEF Init
<1>2. Stamped
  BY <1>1 DEF Stamped
<1>3. ClockBound
  BY <1>1 DEF ClockBound
<1>4. FirstKept
  <2>1. FirstIn(history, 1, first)
    BY <1>1 DEF FirstIn
  <2> QED
    BY <1>1, <2>1 DEF FirstKept
<1>5. HandledKept
  <2>1. EachEventOnce
    BY <1>1 DEF EachEventOnce
  <2> QED
    BY <1>1, <2>1 DEF HandledKept
<1>6. Placed
  BY <1>1 DEF Placed
<1>7. Copies
  BY <1>1, DockerAssumption DEF Copies, NoMark
<1> QED
  BY <1>2, <1>3, <1>4, <1>5, <1>6, <1>7 DEF EventInv

\* Nothing the events are read with changes.
LEMMA EventQuiet ==
  ASSUME EventInv, UNCHANGED <<history, clock, connVars, eventVars, pc>>, quit' = quit \/ quit'
  PROVE  EventInv'
<1>0. UNCHANGED <<history, clock, resumed, wasUp, first, subscribed, failures, mark, prev, skip,
                  pos, handled, pc>>
  BY DEF connVars, eventVars
<1>1. Stamped'
  BY <1>0 DEF EventInv, Stamped
<1>2. ClockBound'
  BY <1>0 DEF EventInv, ClockBound
<1>3. FirstKept'
  BY <1>0 DEF EventInv, FirstKept
<1>4. HandledKept'
  BY <1>0 DEF EventInv, HandledKept, Newest, EachEventOnce
<1>5. Placed'
  BY <1>0 DEF EventInv, Placed, Newest
<1>6. Copies'
  BY <1>0 DEF EventInv, Copies
<1> QED
  BY <1>1, <1>2, <1>3, <1>4, <1>5, <1>6 DEF EventInv

\* A first position stays one when an event is added, unless it is asked for the future.
LEMMA FirstStays ==
  ASSUME Typed, NEW act, NEW c, Extends(act, c),
         NEW p \in Nat, NEW t \in Nat, t <= clock, FirstIn(history, p, t)
  PROVE  FirstIn(history', p, t)
<1> DEFINE n == Len(history)
<1>1. /\ n \in Nat /\ Len(history') = n + 1 /\ history'[n + 1].at = clock'
      /\ clock \in Nat /\ clock <= clock'
      /\ \A i \in 1..n : history'[i] = history[i]
  <2>1. n \in Nat /\ DOMAIN history = 1..n /\ clock \in Nat
    BY SourceIs
  <2>2. history'[n + 1] = [act |-> act, id |-> c, at |-> clock']
    BY DEF Extends
  <2> QED
    BY <2>1, <2>2 DEF Extends
<1>2. p \in 1..(n + 1) /\ \A i \in 1..n : i < p <=> history[i].at < t
  BY DEF FirstIn
<1> HIDE DEF n
<1>3. ASSUME NEW i \in 1..(n + 1)  PROVE i < p <=> history'[i].at < t
  <2>1. CASE i = n + 1
    <3>1. ~(i < p) /\ clock' \in Nat
      BY <1>1, <1>2, <2>1 DEF Extends
    <3> QED
      BY <1>1, <2>1, <3>1
  <2>2. CASE i # n + 1
    <3>1. i \in 1..n
      BY <1>1, <2>2
    <3> QED
      BY <1>1, <1>2, <3>1
  <2> QED
    BY <2>1, <2>2
<1> QED
  BY <1>1, <1>2, <1>3 DEF FirstIn

LEMMA EventExtends ==
  ASSUME Typed, EventInv, NEW act, NEW c, Extends(act, c),
         UNCHANGED <<connVars, eventVars, pc, quit>>
  PROVE  EventInv'
<1> DEFINE n == Len(history)
<1>0. UNCHANGED <<resumed, wasUp, first, subscribed, failures, mark, prev, skip, pos, handled, pc,
                  quit>>
  BY DEF connVars, eventVars
<1>1. /\ n \in Nat /\ Len(history') = n + 1 /\ history'[n + 1].at = clock'
      /\ clock \in Nat /\ clock' \in Nat /\ (clock' = clock \/ clock' = clock + 1)
      /\ \A i \in 1..n : history'[i] = history[i] /\ history[i].at \in Nat
  <2>1. n \in Nat /\ DOMAIN history = 1..n /\ clock \in Nat /\ \A i \in 1..n : history[i].at \in Nat
    BY SourceIs
  <2>2. history'[n + 1] = [act |-> act, id |-> c, at |-> clock']
    BY DEF Extends
  <2> QED
    BY <2>1, <2>2 DEF Extends
<1>2. /\ failures \in Nat /\ first \in Nat /\ subscribed \in Nat /\ mark.at \in Nat
      /\ prev.at \in Nat /\ pos \in 1..(n + 1)
  BY SourceIs
<1> HIDE DEF n
<1>3. Stamped'
  <2>1. \A i \in 1..(n + 1) : i \in 1..n \/ i = n + 1
    BY <1>1
  <2>2. \A i \in 1..(n + 1) : 1 <= history'[i].at /\ history'[i].at <= clock'
    BY <1>1, <2>1 DEF EventInv, Stamped, n
  <2>3. ASSUME NEW i \in 1..(n + 1), NEW j \in 1..(n + 1), i <= j
        PROVE  history'[i].at <= history'[j].at
    <3>1. CASE j = n + 1
      BY <1>1, <2>2, <3>1
    <3>2. CASE j # n + 1
      <4>1. i \in 1..n /\ j \in 1..n
        BY <1>1, <2>3, <3>2
      <4> QED
        BY <1>1, <2>3, <4>1 DEF EventInv, Stamped, n
    <3> QED
      BY <3>1, <3>2
  <2>4. 1 <= clock'
    BY <1>1 DEF EventInv, Stamped
  <2> QED
    BY <1>1, <2>2, <2>3, <2>4 DEF Stamped
<1>4. ClockBound'
  BY <1>0, <1>1, <1>2 DEF EventInv, ClockBound, n
<1>5. FirstKept'
  <2>1. PICK p \in Nat : FirstIn(history, p, first)
    BY DEF EventInv, FirstKept
  <2>2. first <= clock /\ subscribed <= clock
    BY DEF EventInv, FirstKept
  <2>3. FirstIn(history', p, first)
    BY <1>2, <2>1, <2>2, FirstStays
  <2> QED
    BY <1>0, <1>1, <1>2, <2>2, <2>3 DEF EventInv, FirstKept
<1>6. handled # <<>> => Newest \in 1..n /\ mark.at = history[Newest].at /\ mark.at <= clock
  BY <1>1 DEF EventInv, HandledKept, Stamped, n
<1>7. HandledKept'
  <2>1. EachEventOnce'
    BY <1>0 DEF EventInv, HandledKept, EachEventOnce
  <2>2. ASSUME handled # <<>>
        PROVE  \E p \in 1..Newest : FirstIn(history', p, mark.at) /\ mark.n = Newest - p + 1
    <3>1. PICK p \in 1..Newest : FirstIn(history, p, mark.at) /\ mark.n = Newest - p + 1
      BY <2>2 DEF EventInv, HandledKept
    <3>2. p \in Nat
      BY <1>1, <1>6, <2>2
    <3>3. FirstIn(history', p, mark.at)
      BY <1>2, <1>6, <2>2, <3>1, <3>2, FirstStays
    <3> QED
      BY <3>1, <3>3
  <2>3. handled # <<>> => Newest \in 1..(n + 1) /\ mark.at = history'[Newest].at
    BY <1>1, <1>6
  <2>4. Newest' = Newest
    BY <1>0 DEF Newest
  <2> QED
    BY <1>0, <1>1, <2>1, <2>2, <2>3, <2>4 DEF EventInv, HandledKept
<1>8. Placed'
  <2>1. pc \in {"list", "up"} /\ handled = <<>> => FirstIn(history', pos, first)
    BY <1>1, <1>2, FirstStays DEF EventInv, Placed, FirstKept
  <2>2. pc = "list" /\ handled # <<>> => FirstIn(history', pos, mark.at)
    BY <1>1, <1>2, <1>6, FirstStays DEF EventInv, Placed
  <2>3. ASSUME handled # <<>>, pos <= Newest  PROVE history'[pos] = history[pos]
    BY <1>1, <1>2, <1>6, <2>3
  <2>4. Newest' = Newest
    BY <1>0 DEF Newest
  <2> QED
    BY <1>0, <2>1, <2>2, <2>3, <2>4 DEF EventInv, Placed
<1>9. Copies'
  BY <1>0, <1>1, <1>2 DEF EventInv, Copies
<1> QED
  BY <1>3, <1>4, <1>5, <1>7, <1>8, <1>9 DEF EventInv

LEMMA EventSubscribe ==
  ASSUME Typed, EventInv, Subscribe
  PROVE  EventInv'
<1>0. /\ pc = "off" /\ pc' = "list" /\ clock' = clock + 1 /\ subscribed' = clock + 1
      /\ first' = (IF resumed \/ first # 0 THEN first ELSE clock + 1)
      /\ UNCHANGED <<history, resumed, wasUp, failures, mark, prev, skip, handled>>
  BY DEF Subscribe, setVars
<1>1. /\ Len(history) \in Nat /\ \A i \in 1..Len(history) : history[i].at \in Nat
      /\ clock \in Nat /\ failures \in Nat /\ first \in Nat /\ mark.at \in Nat /\ NoMark.at = 0
      /\ prev.at \in Nat
  BY SourceIs
<1>2. /\ resumed => first # 0
      /\ ~resumed => first = 0 /\ handled = <<>>
      /\ first <= clock
      /\ clock <= Len(history) + failures + 1
      /\ \A i \in 1..Len(history) : 1 <= history[i].at /\ history[i].at <= clock
  BY <1>0 DEF EventInv, FirstKept, HandledKept, ClockBound, Stamped
<1>3. first' = (IF resumed THEN first ELSE clock + 1) /\ first' # 0 /\ first' <= clock'
  BY <1>0, <1>1, <1>2
<1>4. Stamped'
  BY <1>0, <1>1 DEF EventInv, Stamped
<1>5. ClockBound'
  BY <1>0, <1>1, <1>2 DEF ClockBound
<1>6. FirstIn(history, Len(history) + 1, clock + 1)
  BY <1>1, <1>2 DEF FirstIn
<1>7. \E p \in Nat : FirstIn(history, p, first')
  <2>1. \E p \in Nat : FirstIn(history, p, first)
    BY DEF EventInv, FirstKept
  <2>2. Len(history) + 1 \in Nat
    BY <1>1
  <2> QED
    BY <1>3, <1>6, <2>1, <2>2
<1>8. FirstKept'
  BY <1>0, <1>1, <1>3, <1>7 DEF FirstKept
<1>9. HandledKept'
  <2>1. Newest' = Newest /\ EachEventOnce'
    BY <1>0 DEF Newest, EventInv, HandledKept, EachEventOnce
  <2> QED
    BY <1>0, <2>1 DEF EventInv, HandledKept
<1>10. Placed'
  <2>1. ASSUME resumed, NEW p \in Nat, FirstIn(history, p, Since)  PROVE pos' = p
    <3>1. 1 + Cardinality({i \in 1..Len(history) : history[i].at < Since}) = p
      BY <1>1, <2>1, FirstIsCounted
    <3>2. DOMAIN history = 1..Len(history)
      BY SourceIs
    <3> QED
      BY <2>1, <3>1, <3>2 DEF Subscribe
  <2>2. ASSUME handled = <<>>  PROVE FirstIn(history, pos', first')
    <3>1. CASE resumed
      <4>1. Since = first /\ first' = first
        BY <1>1, <1>3, <2>2, <3>1 DEF Since, EventInv, HandledKept
      <4>2. PICK p \in Nat : FirstIn(history, p, first)
        BY DEF EventInv, FirstKept
      <4> QED
        BY <2>1, <3>1, <4>1, <4>2
    <3>2. CASE ~resumed
      <4>1. pos' = Len(history) + 1 /\ first' = clock + 1
        BY <1>3, <3>2 DEF Subscribe
      <4> QED
        BY <1>6, <4>1
    <3> QED
      BY <3>1, <3>2
  <2>3. ASSUME handled # <<>>  PROVE FirstIn(history, pos', mark.at)
    <3>1. resumed
      BY <1>2, <2>3
    <3>2. Newest \in 1..Len(history) /\ mark.at = history[Newest].at
      BY <2>3 DEF EventInv, HandledKept
    <3>3. Since = mark.at
      BY <1>1, <1>2, <3>2 DEF Since
    <3>4. PICK p \in 1..Newest : FirstIn(history, p, mark.at)
      BY <2>3 DEF EventInv, HandledKept
    <3>5. p \in Nat
      BY <1>1, <3>2
    <3> QED
      BY <2>1, <3>1, <3>3, <3>4, <3>5
  <2> QED
    BY <1>0, <2>2, <2>3 DEF Placed
<1>11. Copies'
  BY <1>0, <1>1 DEF EventInv, Copies
<1> QED
  BY <1>4, <1>5, <1>8, <1>9, <1>10, <1>11 DEF EventInv

\* A connection that cannot be made, or is over.
LEMMA EventDown ==
  ASSUME Typed, EventInv, SubscribeRefused \/ ListFails \/ StreamLost \/ SeesQuit
  PROVE  EventInv'
<1>0. /\ pc' = "closing" /\ pc \in {"off", "list", "up"}
      /\ pc = "off" => resumed
      /\ UNCHANGED <<history, clock, resumed, wasUp, first, subscribed, mark, prev, skip, pos,
                     handled, quit>>
      /\ quit \/ failures' = failures + 1
      /\ failures' = failures \/ failures' = failures + 1
  BY DEF SubscribeRefused, ListFails, StreamLost, SeesQuit, Failing, daemonVars, connVars, eventVars
<1>1. clock \in Nat /\ failures \in Nat /\ Len(history) \in Nat
  BY SourceIs
<1>2. Stamped'
  BY <1>0 DEF EventInv, Stamped
<1>3. ClockBound'
  BY <1>0, <1>1 DEF EventInv, ClockBound
<1>4. FirstKept'
  BY <1>0 DEF EventInv, FirstKept
<1>5. HandledKept'
  <2>1. Newest' = Newest /\ EachEventOnce'
    BY <1>0 DEF Newest, EventInv, HandledKept, EachEventOnce
  <2> QED
    BY <1>0, <2>1 DEF EventInv, HandledKept
<1>6. Placed' /\ Copies'
  BY <1>0 DEF EventInv, Placed, Copies
<1> QED
  BY <1>2, <1>3, <1>4, <1>5, <1>6 DEF EventInv

LEMMA EventAttach ==
  ASSUME Typed, EventInv, ListAttaches
  PROVE  EventInv'
<1>0. /\ pc = "list" /\ pc' = "up" /\ wasUp' /\ prev' = mark /\ skip' = mark.n
      /\ UNCHANGED <<history, clock, resumed, first, subscribed, failures, mark, pos, handled, quit>>
  BY DEF ListAttaches, daemonVars
<1>1. /\ clock \in Nat /\ failures \in Nat /\ Len(history) \in Nat /\ mark.at \in Nat
      /\ mark.n \in Nat /\ pos \in Nat /\ NoMark.at = 0 /\ NoMark.n = 0 /\ Len(history) <= MaxEvents
      /\ MaxEvents \in Nat
  BY SourceIs, DockerAssumption
<1>2. Stamped' /\ ClockBound'
  BY <1>0, <1>1 DEF EventInv, Stamped, ClockBound
<1>3. FirstKept'
  BY <1>0 DEF EventInv, FirstKept
<1>4. Newest' = Newest /\ EachEventOnce'
  BY <1>0 DEF Newest, EventInv, HandledKept, EachEventOnce
<1>5. HandledKept'
  BY <1>0, <1>4 DEF EventInv, HandledKept
<1>6. ASSUME handled # <<>>
      PROVE  /\ pos \in 1..(Newest + 1) /\ mark.n = Newest + 1 - pos /\ pos <= Newest
             /\ Newest \in 1..Len(history) /\ resumed
             /\ history[pos].at >= mark.at /\ mark.at <= clock
  <2>1. Newest \in 1..Len(history) /\ mark.at = history[Newest].at /\ resumed
    BY <1>0, <1>6 DEF EventInv, HandledKept
  <2>2. PICK p \in 1..Newest : FirstIn(history, p, mark.at) /\ mark.n = Newest - p + 1
    BY <1>6 DEF EventInv, HandledKept
  <2>3. p \in Nat
    BY <1>1, <2>1
  <2>4. FirstIn(history, pos, mark.at)
    BY <1>0, <1>6 DEF EventInv, Placed
  <2>5. pos = p
    BY <1>1, <2>2, <2>3, <2>4, FirstIsOne
  <2>6. mark.at <= clock
    BY <2>1 DEF EventInv, Stamped
  <2>7. pos \in 1..Len(history) /\ history[pos].at \in Nat
    BY <1>1, <2>1, <2>2, <2>5, SourceIs
  <2>8. history[pos].at >= mark.at
    BY <1>1, <2>4, <2>7 DEF FirstIn
  <2> QED
    BY <1>1, <2>1, <2>2, <2>5, <2>6, <2>8
<1>7. handled = <<>> => mark = NoMark
  BY DEF EventInv, HandledKept
<1>8. Placed'
  <2>1. handled = <<>> => FirstIn(history, pos, first)
    BY <1>0 DEF EventInv, Placed
  <2> QED
    BY <1>0, <1>1, <1>4, <1>6, <1>7, <2>1 DEF Placed
<1>9. Copies'
  BY <1>0, <1>1, <1>6, <1>7 DEF Copies
<1> QED
  BY <1>2, <1>3, <1>5, <1>8, <1>9 DEF EventInv

LEMMA EventSkips ==
  ASSUME Typed, EventInv, SkipEvent
  PROVE  EventInv'
<1>0. /\ pc = "up" /\ pos \in 1..Len(history) /\ Seen(history[pos]) /\ pos' = pos + 1
      /\ skip' = (IF history[pos].at = prev.at THEN skip - 1 ELSE skip)
      /\ UNCHANGED <<history, clock, resumed, wasUp, first, subscribed, failures, mark, prev,
                     handled, pc, quit>>
  BY SourceIs DEF SkipEvent, daemonVars, connVars
<1>1. /\ clock \in Nat /\ failures \in Nat /\ Len(history) \in Nat /\ mark.at \in Nat
      /\ prev.at \in Nat /\ skip \in Nat /\ pos \in Nat /\ NoMark.at = 0
      /\ \A i \in 1..Len(history) : history[i].at \in Nat
  BY SourceIs
<1>2. /\ prev.at # 0 /\ handled # <<>>
      /\ history[pos].at < prev.at \/ (history[pos].at = prev.at /\ skip > 0)
  BY <1>0, <1>1 DEF Seen, EventInv, Placed
<1>3. /\ Newest \in 1..Len(history) /\ mark.at = history[Newest].at
      /\ pos \in 1..(Newest + 1) /\ skip = Newest + 1 - pos /\ prev.at <= mark.at
      /\ pos <= Newest => resumed /\ prev = mark /\ history[pos].at >= mark.at
  BY <1>0, <1>2 DEF EventInv, HandledKept, Placed
<1>4. \A i, j \in 1..Len(history) : i <= j => history[i].at <= history[j].at
  BY DEF EventInv, Stamped
<1>5. pos <= Newest
  <2>1. CASE pos = Newest + 1
    <3>1. skip = 0 /\ history[Newest].at <= history[pos].at
      BY <1>0, <1>1, <1>3, <1>4, <2>1
    <3> QED
      BY <1>0, <1>1, <1>2, <1>3, <3>1
  <2> QED
    BY <1>1, <1>3, <2>1
<1>6. prev = mark /\ resumed /\ history[pos].at = prev.at
  BY <1>0, <1>1, <1>2, <1>3, <1>5
<1>7. skip' = Newest + 1 - pos' /\ pos' \in 1..(Newest + 1)
  BY <1>0, <1>1, <1>3, <1>5, <1>6
<1>8. pos' <= Newest => history[pos'].at >= mark.at
  <2>1. pos' <= Newest => history[pos].at <= history[pos'].at
    BY <1>0, <1>1, <1>3, <1>4
  <2> QED
    BY <1>1, <1>3, <1>6, <1>7, <2>1
<1>9. Stamped' /\ ClockBound'
  BY <1>0, <1>1 DEF EventInv, Stamped, ClockBound
<1>10. FirstKept'
  BY <1>0 DEF EventInv, FirstKept
<1>11. Newest' = Newest /\ EachEventOnce'
  BY <1>0 DEF Newest, EventInv, HandledKept, EachEventOnce
<1>12. HandledKept'
  BY <1>0, <1>11 DEF EventInv, HandledKept
<1>13. Placed'
  BY <1>0, <1>2, <1>3, <1>6, <1>7, <1>8, <1>11 DEF Placed
<1>14. Copies'
  BY <1>0, <1>1, DockerAssumption DEF EventInv, Copies
<1> QED
  BY <1>9, <1>10, <1>12, <1>13, <1>14 DEF EventInv

\* An event is handled right behind the ones handled before.
LEMMA HandledNext ==
  ASSUME Typed, EventInv, HandleEvent
  PROVE  /\ pos \in 1..Len(history) /\ pc = "up"
         /\ handled = <<>> => FirstIn(history, pos, first)
         /\ handled # <<>> => pos = Newest + 1 /\ Newest \in 1..Len(history) /\ skip = 0
<1>0. pc = "up" /\ pos \in 1..Len(history) /\ ~Seen(history[pos])
  BY SourceIs DEF HandleEvent
<1>1. /\ Len(history) \in Nat /\ mark.at \in Nat
      /\ prev.at \in Nat /\ skip \in Nat /\ pos \in Nat
      /\ \A i \in 1..Len(history) : history[i].at \in Nat
  BY SourceIs
<1>2. handled = <<>> => FirstIn(history, pos, first)
  BY <1>0 DEF EventInv, Placed
<1>3. ASSUME handled # <<>>
      PROVE  pos = Newest + 1 /\ Newest \in 1..Len(history) /\ skip = 0
  <2>1. /\ Newest \in 1..Len(history) /\ mark.at = history[Newest].at
        /\ pos \in 1..(Newest + 1) /\ skip = Newest + 1 - pos /\ prev.at <= mark.at
        /\ pos <= Newest => resumed /\ prev = mark /\ history[pos].at >= mark.at
    BY <1>0, <1>3 DEF EventInv, HandledKept, Placed
  <2>2. CASE pos <= Newest
    <3>1. skip > 0 /\ prev = mark /\ resumed
      BY <1>1, <2>1, <2>2
    <3>2. history[pos].at <= history[Newest].at /\ 1 <= history[Newest].at
      BY <1>0, <2>1, <2>2 DEF EventInv, Stamped
    <3>3. history[pos].at = prev.at /\ prev.at # 0
      BY <1>0, <1>1, <2>1, <2>2, <3>1, <3>2
    <3> QED
      BY <1>0, <3>1, <3>3 DEF Seen
  <2> QED
    BY <1>1, <2>1, <2>2
<1> QED
  BY <1>0, <1>2, <1>3

LEMMA EventHandles ==
  ASSUME Typed, EventInv, HandleEvent
  PROVE  EventInv'
<1> DEFINE L == Len(handled)
           t == history[pos].at
<1>0. /\ pc = "up" /\ pos' = pos + 1 /\ handled' = Append(handled, pos)
      /\ mark' = Advanced(mark, t)
      /\ UNCHANGED <<history, clock, resumed, wasUp, first, subscribed, failures, prev, skip,
                     pc, quit>>
  BY DEF HandleEvent, daemonVars, connVars
<1>1. /\ clock \in Nat /\ failures \in Nat /\ Len(history) \in Nat /\ mark.at \in Nat
      /\ mark.n \in Nat /\ first \in Nat
      /\ prev.at \in Nat /\ skip \in Nat /\ pos \in Nat /\ NoMark.at = 0 /\ NoMark.n = 0
      /\ \A i \in 1..Len(history) : history[i].at \in Nat
  BY SourceIs
<1>2. /\ pos \in 1..Len(history)
      /\ handled = <<>> => FirstIn(history, pos, first)
      /\ handled # <<>> => pos = Newest + 1 /\ Newest \in 1..Len(history) /\ skip = 0
  BY HandledNext
<1>3. /\ L \in Nat /\ (handled = <<>> <=> L = 0)
      /\ (handled # <<>> => Newest \in Nat /\ Newest = handled[L])
      /\ \A i \in 1..L : handled[i] \in Nat
  BY HandledIs
<1>4. /\ Len(handled') = L + 1 /\ handled'[L + 1] = pos
      /\ \A i \in 1..L : handled'[i] = handled[i]
  <2>1. handled \in Seq(1..MaxEvents) /\ pos \in 1..MaxEvents
    BY <1>2, SourceIs, DockerAssumption DEF Typed, SourceTyped
  <2> QED
    BY <1>0, <2>1, AppendProperties
<1>5. handled' # <<>> /\ Newest' = pos
  <2>1. Len(handled') # 0
    BY <1>3, <1>4
  <2>2. handled' # <<>>
    BY <2>1, EmptySeq
  <2> QED
    BY <1>3, <1>4, <2>2 DEF Newest, Last
<1>6. /\ \A i, j \in 1..Len(history) : i <= j => history[i].at <= history[j].at
      /\ t \in Nat /\ 1 <= t
  BY <1>1, <1>2 DEF EventInv, Stamped
<1> HIDE DEF L, t
<1>7. EachEventOnce'
  <2>0. EachEventOnce
    BY DEF EventInv, HandledKept
  <2>1. 1..(Len(handled') - 1) = 1..L
    BY <1>3, <1>4
  <2> SUFFICES ASSUME NEW k \in 1..L  PROVE handled'[k + 1] = handled'[k] + 1
    BY <2>1 DEF EachEventOnce
  <2>2. CASE k = L
    <3>1. handled # <<>>
      BY <1>3, <2>2
    <3> QED
      BY <1>2, <1>3, <1>4, <2>2, <3>1
  <2>3. CASE k # L
    <3>1. k \in 1..(L - 1) /\ k + 1 \in 1..L
      BY <1>3, <2>3
    <3>2. handled[k + 1] = handled[k] + 1
      BY <2>0, <3>1 DEF EachEventOnce, L
    <3> QED
      BY <1>4, <3>1, <3>2
  <2> QED
    BY <2>2, <2>3
<1>8. \A i \in 1..Len(history) : i >= pos => history[i].at >= t
  BY <1>1, <1>2, <1>6 DEF t
<1>9. /\ mark'.at = t /\ mark.at <= t
      /\ \E p \in 1..pos : FirstIn(history, p, t) /\ mark'.n = pos - p + 1
  <2>1. CASE handled = <<>>
    <3>1. mark = NoMark
      BY <2>1 DEF EventInv, HandledKept
    <3>2. mark' = [at |-> t, n |-> 1]
      BY <1>0, <1>1, <1>6, <3>1 DEF Advanced
    <3>3. t >= first /\ \A i \in 1..Len(history) : i < pos => history[i].at < first
      BY <1>1, <1>2, <2>1 DEF FirstIn, t
    <3>4. FirstIn(history, pos, t)
      BY <1>1, <1>2, <1>6, <1>8, <3>3 DEF FirstIn
    <3>5. mark'.at = t /\ mark'.n = pos - pos + 1 /\ mark.at = 0 /\ pos \in 1..pos
      BY <1>1, <1>2, <3>1, <3>2
    <3> QED
      BY <1>6, <3>4, <3>5
  <2>2. CASE handled # <<>>
    <3>1. mark.at = history[Newest].at /\ mark.at <= t
      BY <1>1, <1>2, <1>6, <2>2 DEF EventInv, HandledKept, t
    <3>2. CASE mark.at = t
      <4>1. PICK p \in 1..Newest : FirstIn(history, p, mark.at) /\ mark.n = Newest - p + 1
        BY <2>2 DEF EventInv, HandledKept
      <4>2. mark'.at = t /\ mark'.n = mark.n + 1
        <5>1. mark \in RawMark
          BY DEF Typed, SourceTyped
        <5>2. mark' = [mark EXCEPT !.n = @ + 1]
          BY <1>0, <1>1, <1>6, <3>2 DEF Advanced
        <5> QED
          BY <3>2, <5>1, <5>2 DEF RawMark
      <4>3. p \in 1..pos /\ mark'.n = pos - p + 1
        BY <1>1, <1>2, <2>2, <4>1, <4>2
      <4> QED
        BY <3>1, <3>2, <4>1, <4>2, <4>3
    <3>3. CASE mark.at < t
      <4>1. mark' = [at |-> t, n |-> 1]
        BY <1>0, <1>1, <1>6, <3>3 DEF Advanced
      <4>2. \A i \in 1..Len(history) : i < pos => history[i].at < t
        <5> SUFFICES ASSUME NEW i \in 1..Len(history), i < pos  PROVE history[i].at < t
          OBVIOUS
        <5>1. i <= Newest
          BY <1>1, <1>2, <2>2
        <5>2. history[i].at <= mark.at
          BY <1>2, <1>6, <2>2, <3>1, <5>1
        <5> QED
          BY <1>1, <1>6, <3>3, <5>2
      <4>3. FirstIn(history, pos, t)
        BY <1>1, <1>2, <1>6, <1>8, <4>2 DEF FirstIn
      <4>4. mark'.at = t /\ mark'.n = pos - pos + 1 /\ pos \in 1..pos
        BY <1>1, <1>2, <4>1
      <4> QED
        BY <3>1, <4>3, <4>4
    <3> QED
      BY <1>1, <1>6, <3>1, <3>2, <3>3
  <2> QED
    BY <2>1, <2>2
<1>10. Stamped' /\ ClockBound'
  BY <1>0, <1>1 DEF EventInv, Stamped, ClockBound
<1>11. FirstKept'
  BY <1>0 DEF EventInv, FirstKept
<1>12. HandledKept'
  <2>1. history'[Newest'].at = t
    BY <1>0, <1>5 DEF t
  <2>2. \E p \in 1..Newest' : FirstIn(history', p, mark'.at) /\ mark'.n = Newest' - p + 1
    BY <1>0, <1>5, <1>9
  <2> QED
    BY <1>0, <1>2, <1>5, <1>7, <1>9, <2>1, <2>2 DEF HandledKept
<1>13. Placed'
  <2>1. pos' = Newest' + 1 /\ skip' = Newest' + 1 - pos' /\ pos' \in 1..(Newest' + 1)
    <3>1. skip = 0
      BY <1>0, <1>2 DEF EventInv, Placed
    <3> QED
      BY <1>0, <1>1, <1>2, <1>5, <3>1
  <2>2. prev'.at <= mark'.at
    <3>1. prev.at <= mark.at
      BY <1>0, <1>1 DEF EventInv, Placed, HandledKept
    <3> QED
      BY <1>0, <1>1, <1>6, <1>9, <3>1
  <2>3. ~(pos' <= Newest')
    BY <1>0, <1>1, <1>5
  <2> QED
    BY <1>0, <1>5, <2>1, <2>2, <2>3 DEF Placed
<1>14. Copies'
  BY <1>0 DEF EventInv, Copies
<1> QED
  BY <1>10, <1>11, <1>12, <1>13, <1>14 DEF EventInv

LEMMA EventWaits ==
  ASSUME Typed, EventInv, Closed \/ WaitEnds
  PROVE  EventInv'
<1>0. UNCHANGED <<history, clock, first, failures, mark, handled, quit>>
  BY DEF Closed, WaitEnds, daemonVars, connVars, eventVars
<1>1. clock \in Nat /\ failures \in Nat /\ Len(history) \in Nat /\ NoMark.at = 0 /\ NoMark.n = 0
  BY SourceIs
<1>2. Newest' = Newest /\ EachEventOnce'
  BY <1>0 DEF Newest, EventInv, HandledKept, EachEventOnce
<1>3. Stamped'
  BY <1>0 DEF EventInv, Stamped
<1>4. CASE Closed
  <2>1. /\ pc = "closing" /\ ~wasUp' /\ subscribed' = 0 /\ prev' = NoMark /\ skip' = 0
        /\ \/ pc' = "ended" /\ resumed' = resumed
           \/ pc' = "wait" /\ resumed' /\ ~quit /\ (resumed \/ wasUp)
    BY <1>4 DEF Closed
  <2>2. ClockBound'
    BY <1>0, <1>1, <2>1 DEF EventInv, ClockBound
  <2>3. FirstKept'
    BY <1>0, <1>1, <2>1 DEF EventInv, FirstKept
  <2>4. HandledKept'
    BY <1>0, <1>2, <2>1 DEF EventInv, HandledKept
  <2>5. Placed' /\ Copies'
    BY <1>0, <1>1, <2>1, DockerAssumption DEF Placed, Copies
  <2> QED
    BY <1>3, <2>2, <2>3, <2>4, <2>5 DEF EventInv
<1>5. CASE WaitEnds
  <2>1. /\ pc = "wait" /\ pc' \in {"off", "ended"}
        /\ UNCHANGED <<resumed, wasUp, subscribed, prev, skip, pos>>
    BY <1>5 DEF WaitEnds, connVars, eventVars
  <2>2. ClockBound'
    BY <1>0, <1>1, <2>1 DEF EventInv, ClockBound
  <2>3. FirstKept'
    BY <1>0, <1>1, <2>1 DEF EventInv, FirstKept
  <2>4. HandledKept'
    BY <1>0, <1>2, <2>1 DEF EventInv, HandledKept, FirstKept
  <2>5. Placed' /\ Copies'
    BY <1>0, <1>1, <2>1 DEF EventInv, Placed, Copies
  <2> QED
    BY <1>3, <2>2, <2>3, <2>4, <2>5 DEF EventInv
<1> QED
  BY <1>4, <1>5

LEMMA EventStep == Typed /\ EventInv /\ [Next]_vars => EventInv'
<1> SUFFICES ASSUME Typed, EventInv, [Next]_vars  PROVE EventInv'
  OBVIOUS
<1>1. CASE Source \/ StreamLost
  BY <1>1, EventSubscribe, EventDown, EventAttach, EventSkips, EventHandles, EventWaits DEF Source
<1>2. CASE UNCHANGED <<connVars, eventVars, pc>>
  <2>1. quit' = quit \/ quit'
    BY QuitStays DEF Quit
  <2>2. ASSUME NEW c \in Containers, ContainerStarts(c) \/ ContainerDies(c)  PROVE EventInv'
    <3>1. PICK act \in {"start", "die"} : Happens(act, c)
      BY <2>2 DEF ContainerStarts, ContainerDies
    <3>2. Extends(act, c)
      BY <3>1, HappensExtends DEF Typed
    <3>3. quit' = quit
      BY <2>2 DEF ContainerStarts, ContainerDies
    <3> QED
      BY <1>2, <3>2, <3>3, EventExtends
  <2>3. CASE UNCHANGED <<history, clock>>
    BY <1>2, <2>1, <2>3, EventQuiet
  <2> QED
    BY <1>1, <2>2, <2>3, ClockFrame DEF Source
<1> QED
  BY <1>1, <1>2, SourceFrame

LEMMA EventsAlways == Spec => []EventInv
<1>1. Typed /\ EventInv /\ [Next]_vars => EventInv'
  BY EventStep
<1> QED
  BY EventInit, <1>1, TypedAlways, PTL DEF Spec

\* Both logs of a container's life are read exactly once: no line of it and no event is
\* delivered twice, out of order or left out, across restarts, cut-off followers, their
\* successors (follow, attach) and any number of reconnections from the mark (connect).
THEOREM BothLogsAreReadOnce == Spec => []NothingTwiceNothingLost
<1>1. LineInv /\ EventInv => NothingTwiceNothingLost
  BY DEF LineInv, LinesInOrder, EventInv, HandledKept, NothingTwiceNothingLost, EachLineOnce
<1> QED
  BY <1>1, LinesAlways, EventsAlways, PTL

\* The source's state stays in its type: in particular the stamps it keeps of the daemon's
\* events, and the counts of streamMark, stay within what can have happened.
THEOREM TypesAlwaysHold == Spec => []TypeOK
<1>1. Typed /\ EventInv => TypeOK
  <2> SUFFICES ASSUME Typed, EventInv  PROVE TypeOK
    OBVIOUS
  <2>0. /\ Len(history) \in Nat /\ Len(history) <= MaxEvents /\ DOMAIN history = 1..Len(history)
        /\ clock \in Nat /\ failures \in 0..MaxFailures /\ MaxFailures \in Nat /\ MaxEvents \in Nat
        /\ first \in Nat /\ subscribed \in Nat /\ skip \in Nat
        /\ pos \in Nat /\ 1 <= pos /\ pos <= Len(history) + 1
        /\ mark.at \in Nat /\ mark.n \in Nat /\ prev.at \in Nat /\ prev.n \in Nat
    BY SourceIs, DockerAssumption DEF Typed, SourceTyped
  <2>1. clock <= MaxEvents + MaxFailures + 2
    BY <2>0 DEF EventInv, ClockBound
  <2>2. \A t \in Nat : t <= clock => t \in Stamps
    BY <2>0, <2>1 DEF Stamps
  <2>3. first \in Stamps /\ subscribed \in Stamps /\ clock \in Stamps /\ prev.at \in Stamps
    BY <2>0, <2>2 DEF EventInv, FirstKept, Copies
  <2>4. history \in Seq(Event)
    <3>1. \A i \in 1..Len(history) : history[i] \in Event
      <4> SUFFICES ASSUME NEW i \in 1..Len(history)  PROVE history[i] \in Event
        OBVIOUS
      <4>1. history[i] \in RawEvent /\ history[i].at <= clock
        BY <2>0, HistoryIs DEF Typed, EventInv, Stamped
      <4>2. history[i].at \in Stamps
        BY <2>2, <4>1 DEF RawEvent
      <4> QED
        BY <4>1, <4>2 DEF RawEvent, Event
    <3>2. history \in Seq(RawEvent)
      BY DEF Typed, DaemonTyped
    <3> QED
      BY <2>0, <3>1, <3>2, IsASeq
  <2>5. mark \in Mark
    <3>1. mark.at \in Stamps /\ mark.n \in 0..MaxEvents
      <4>1. CASE handled = <<>>
        BY <2>0, <2>2, <4>1, SourceIs DEF EventInv, HandledKept, Stamps
      <4>2. CASE handled # <<>>
        <5>1. Newest \in 1..Len(history) /\ mark.at = history[Newest].at
          BY <4>2 DEF EventInv, HandledKept
        <5>2. PICK p \in 1..Newest : mark.n = Newest - p + 1
          BY <4>2 DEF EventInv, HandledKept
        <5>3. mark.at <= clock
          BY <5>1 DEF EventInv, Stamped
        <5> QED
          BY <2>0, <2>2, <5>1, <5>2, <5>3
      <4> QED
        BY <4>1, <4>2
    <3> QED
      BY <3>1 DEF Typed, SourceTyped, RawMark, Mark
  <2>6. prev \in Mark /\ skip \in 0..MaxEvents /\ pos \in 1..(MaxEvents + 1)
    <3>1. prev.n \in 0..MaxEvents
      BY <2>0 DEF EventInv, Copies
    <3>2. prev \in Mark
      BY <2>3, <3>1 DEF Typed, SourceTyped, RawMark, Mark
    <3> QED
      BY <2>0, <3>2 DEF EventInv, Copies
  <2> QED
    BY <2>3, <2>4, <2>5, <2>6 DEF Typed, SourceTyped, DaemonTyped, FollowersTyped, TypeOK
<1> QED
  BY <1>1, TypedAlways, EventsAlways, PTL

(***************************************************************************)
(* The followers: what they will make of the events still to be handled.   *)
(***************************************************************************)
\* The first position whose event this connection has not handled.
Ahead == IF handled = <<>> THEN pos ELSE Newest + 1

\* From position a on, h has an event of c, and one that says act.
ComesIn(h, a, c, act) == \E i \in 1..Len(h) : a <= i /\ h[i].id = c /\ h[i].act = act
PendsIn(h, a, c) == \E i \in 1..Len(h) : a <= i /\ h[i].id = c

\* A container's events alternate, and the last says whether it runs.
Alternate ==
  \A c \in Containers, i \in 1..Len(history) : history[i].id = c =>
    /\ history[i].act = "die" /\ c \in up => ComesIn(history, i + 1, c, "start")
    /\ history[i].act = "start" /\ c \notin up => ComesIn(history, i + 1, c, "die")

StopsKept == \A c \in Containers : run[c].cancelled \/ run[c].restart => run[c].stopped

\* A follower that follows, or one that hands a start on.
Attached(r) == r.pc # "none" /\ (r.restart \/ (~r.stopped /\ (r.pc = "reading" => r.end = Live)))

\* One that believes in a container that is not there, or reads a stream that ends.
Misled(r, there, c) ==
  /\ r.pc # "none" /\ (~r.stopped \/ r.restart)
  /\ c \notin there \/ (~r.stopped /\ r.pc = "reading" /\ r.end # Live)

\* The misled are to be told; a running container nothing is to be told of is followed.
FollowInv ==
  pc = "up" => \A c \in Containers \ stale :
    /\ Misled(run[c], up, c) => ComesIn(history, Ahead, c, "die")
    /\ c \in up /\ ~PendsIn(history, Ahead, c) /\ ~quit => Attached(run[c])

LEMMA ComesExtended ==
  ASSUME Typed, NEW act, NEW d, Extends(act, d), NEW a \in Nat
  PROVE  /\ \A c, x : ComesIn(history, a, c, x) => ComesIn(history', a, c, x)
         /\ \A c : PendsIn(history, a, c) => PendsIn(history', a, c)
         /\ a <= Len(history) + 1 => ComesIn(history', a, d, act) /\ PendsIn(history', a, d)
<1> DEFINE n == Len(history)
<1>1. n \in Nat /\ DOMAIN history = 1..n
  BY SourceIs
<1>2. history'[n + 1] = [act |-> act, id |-> d, at |-> clock']
  BY DEF Extends
<1>3. /\ Len(history') = n + 1 /\ history'[n + 1].id = d /\ history'[n + 1].act = act
      /\ \A i \in 1..n : history'[i] = history[i]
  BY <1>1, <1>2 DEF Extends
<1> HIDE DEF n
<1>4. \A i \in 1..n : i \in 1..(n + 1)
  BY <1>1
<1>5. \A c, x : ComesIn(history, a, c, x) => ComesIn(history', a, c, x)
  BY <1>3, <1>4 DEF ComesIn, n
<1>6. \A c : PendsIn(history, a, c) => PendsIn(history', a, c)
  BY <1>3, <1>4 DEF PendsIn, n
<1>7. a <= n + 1 => ComesIn(history', a, d, act) /\ PendsIn(history', a, d)
  <2>1. n + 1 \in 1..(n + 1)
    BY <1>1
  <2> QED
    BY <1>3, <2>1 DEF ComesIn, PendsIn
<1> QED
  BY <1>5, <1>6, <1>7 DEF n

LEMMA AheadIs ==
  ASSUME Typed, EventInv
  PROVE  Ahead \in Nat /\ Ahead <= Len(history) + 1
BY SourceIs, HandledIs DEF EventInv, HandledKept, Ahead

\* Handling an event moves one position ahead; skipping one is behind it.
LEMMA AheadMoves ==
  ASSUME Typed, EventInv
  PROVE  /\ HandleEvent => Ahead = pos /\ Ahead' = pos + 1
         /\ SkipEvent => Ahead' = Ahead /\ handled # <<>>
         /\ UNCHANGED <<handled, pos>> => Ahead' = Ahead
<1>1. ASSUME HandleEvent  PROVE Ahead = pos /\ Ahead' = pos + 1
  <2>1. Ahead = pos
    BY <1>1, HandledNext DEF Ahead
  <2>2. Len(handled) \in Nat /\ handled' = Append(handled, pos)
        /\ handled \in Seq(1..MaxEvents) /\ pos \in 1..MaxEvents
    BY <1>1, HandledIs, HandledNext, SourceIs, DockerAssumption DEF HandleEvent, Typed, SourceTyped
  <2>3. Len(handled') = Len(handled) + 1 /\ handled'[Len(handled) + 1] = pos
    BY <2>2, AppendProperties
  <2>4. handled' # <<>>
    <3>1. Len(handled') # 0
      BY <2>2, <2>3
    <3> QED
      BY <3>1, EmptySeq
  <2> QED
    BY <2>1, <2>2, <2>3, <2>4 DEF Ahead, Newest, Last
<1>2. ASSUME SkipEvent  PROVE Ahead' = Ahead /\ handled # <<>>
  <2>1. handled # <<>>
    <3>1. handled = <<>> => prev.at = 0
      BY <1>2, SourceIs DEF EventInv, Placed, SkipEvent
    <3> QED
      BY <1>2, <3>1 DEF SkipEvent, Seen
  <2> QED
    BY <1>2, <2>1 DEF SkipEvent, Ahead, Newest
<1>3. UNCHANGED <<handled, pos>> => Ahead' = Ahead
  BY DEF Ahead, Newest
<1> QED
  BY <1>1, <1>2, <1>3

\* What can happen while a connection is up and stays up.
LEMMA UpSteps ==
  ASSUME [Next]_vars, pc' = "up"
  PROVE  \/ ListAttaches
         \/ /\ pc = "up" /\ UNCHANGED <<connVars, prev>>
            /\ \/ \E d \in Containers : Follower(d)
               \/ \E d \in Containers : ContainerStarts(d) \/ ContainerDies(d)
               \/ \E d \in Containers : ContainerWrites(d)
               \/ SkipEvent \/ HandleEvent \/ Quit \/ UNCHANGED vars
<1>1. CASE Source \/ StreamLost
  BY <1>1 DEF Source, Subscribe, SubscribeRefused, ListFails, SkipEvent, HandleEvent, SeesQuit,
     Closed, WaitEnds, StreamLost
<1>2. CASE ~(Source \/ StreamLost)
  <2>1. UNCHANGED <<connVars, eventVars, pc>>
    BY <1>2, SourceFrame
  <2> QED
    BY <1>2, <2>1 DEF Next, Container, eventVars
<1> QED
  BY <1>1, <1>2

LEMMA AlternateStep == Typed /\ Alternate /\ [Next]_vars => Alternate'
<1> SUFFICES ASSUME Typed, Alternate, [Next]_vars  PROVE Alternate'
  OBVIOUS
<1>1. CASE UNCHANGED <<up, history>>
  BY <1>1 DEF Alternate
<1>2. ASSUME NEW d \in Containers, ContainerStarts(d) \/ ContainerDies(d)  PROVE Alternate'
  <2> DEFINE n == Len(history)
  <2>1. PICK act \in {"start", "die"} :
          /\ Happens(act, d) /\ \A c \in Containers \ {d} : c \in up' <=> c \in up
          /\ act = "start" => d \in up'
          /\ act = "die" => d \notin up'
    BY <1>2 DEF ContainerStarts, ContainerDies
  <2>2. Extends(act, d)
    BY <2>1, HappensExtends DEF Typed
  <2>3. n \in Nat /\ DOMAIN history = 1..n
    BY SourceIs
  <2>4. history'[n + 1] = [act |-> act, id |-> d, at |-> clock']
    BY <2>2 DEF Extends
  <2>5. /\ Len(history') = n + 1 /\ history'[n + 1].id = d /\ history'[n + 1].act = act
        /\ \A i \in 1..n : history'[i] = history[i]
    BY <2>2, <2>3, <2>4 DEF Extends
  <2> HIDE DEF n
  <2> SUFFICES ASSUME NEW c \in Containers, NEW i \in 1..(n + 1), history'[i].id = c
               PROVE  /\ history'[i].act = "die" /\ c \in up' => ComesIn(history', i + 1, c, "start")
                      /\ history'[i].act = "start" /\ c \notin up' => ComesIn(history', i + 1, c, "die")
    BY <2>5 DEF Alternate
  <2>6. CASE i = n + 1
    BY <2>1, <2>5, <2>6
  <2>7. CASE i # n + 1
    <3>1. i \in 1..n /\ i + 1 \in Nat /\ i + 1 <= n + 1 /\ history[i].id = c /\ history'[i] = history[i]
      BY <2>3, <2>5, <2>7
    <3>2. /\ \A x : ComesIn(history, i + 1, c, x) => ComesIn(history', i + 1, c, x)
          /\ ComesIn(history', i + 1, d, act)
      BY <2>2, <3>1, ComesExtended DEF n
    <3>3. CASE c = d
      BY <2>1, <3>2, <3>3
    <3>4. CASE c # d
      BY <2>1, <3>1, <3>2, <3>4 DEF Alternate, n
    <3> QED
      BY <3>3, <3>4
  <2> QED
    BY <2>6, <2>7
<1> QED
  BY <1>1, <1>2, HistoryFrame

LEMMA StopsStep == Typed /\ StopsKept /\ [Next]_vars => StopsKept'
<1> SUFFICES ASSUME Typed, StopsKept, [Next]_vars, NEW c \in Containers
             PROVE  run'[c].cancelled \/ run'[c].restart => run'[c].stopped
  BY DEF StopsKept
<1>0. FollowersTyped /\ DaemonTyped /\ run[c] \in Run
      /\ (run[c].cancelled \/ run[c].restart => run[c].stopped)
  BY DEF Typed, FollowersTyped, StopsKept
<1>1. CASE run'[c] = run[c]
  BY <1>0, <1>1
<1>2. \A m : ~Launched(m).cancelled /\ ~Launched(m).restart /\ ~NoRun.cancelled /\ ~NoRun.restart
  BY DEF Launched, NoRun
<1>3. ASSUME NEW d \in Containers, Follower(d)
      PROVE  run'[c].cancelled \/ run'[c].restart => run'[c].stopped
  <2>1. CASE d = c
    <3> DEFINE n == Resume(run[c].mark, log[c])
               e == IF c \in up THEN Live ELSE log[c]
               i == run[c].next
               j == run[c].next + 1
    <3>0. \/ run'[c] = [run[c] EXCEPT !.pc = "reading", !.next = n, !.end = e]
          \/ run'[c] = [run[c] EXCEPT !.mark = i, !.next = j]
          \/ run'[c] = Launched(run[c].mark) \/ run'[c] = NoRun
      BY <1>0, <1>3, <2>1, FollowerSteps
    <3> HIDE DEF n, e, i, j
    <3>1. CASE run'[c] = [run[c] EXCEPT !.pc = "reading", !.next = n, !.end = e]
      BY <1>0, <3>1 DEF Run
    <3>2. CASE run'[c] = [run[c] EXCEPT !.mark = i, !.next = j]
      BY <1>0, <3>2 DEF Run
    <3>3. CASE run'[c] = Launched(run[c].mark) \/ run'[c] = NoRun
      BY <1>2, <3>3
    <3> QED
      BY <3>0, <3>1, <3>2, <3>3
  <2>2. CASE d # c
    BY <1>0, <1>1, <1>3, <2>2, FollowerSteps
  <2> QED
    BY <2>1, <2>2
<1>4. ASSUME NEW d \in Containers, ContainerDies(d)
      PROVE  run'[c].cancelled \/ run'[c].restart => run'[c].stopped
  <2>1. CASE run'[c] = [run[c] EXCEPT !.end = log[c]]
    BY <1>0, <2>1 DEF Run
  <2> QED
    BY <1>0, <1>1, <1>4, <2>1, DiesRun
<1>5. CASE HandleEvent
  <2>1. CASE run'[c] = Launched(marks[c])
    BY <1>2, <2>1
  <2>2. CASE run'[c] = [run[c] EXCEPT !.restart = @ \/ run[c].stopped]
    BY <1>0, <2>2 DEF Run
  <2>3. CASE run'[c] = [run[c] EXCEPT !.stopped = TRUE, !.cancelled = @ \/ ~FromTheGap(history[pos])]
    <3>1. run'[c].stopped = TRUE
      BY <1>0, <2>3 DEF Run
    <3> QED
      BY <3>1
  <2> QED
    BY <1>1, <1>5, <2>1, <2>2, <2>3, HandleRun
<1>6. CASE ListAttaches
  BY <1>2, <1>6 DEF ListAttaches
<1> QED
  BY <1>1, <1>3, <1>4, <1>5, <1>6, RunFrame

LEMMA AlternateAlways == Spec => [](Alternate /\ StopsKept)
<1>1. Init => Alternate /\ StopsKept
  <2>1. Init => Len(history) = 0
    BY DEF Init
  <2>2. ~NoRun.cancelled /\ ~NoRun.restart
    BY DEF NoRun
  <2> QED
    BY <2>1, <2>2 DEF Init, Alternate, StopsKept
<1>2. Typed /\ Alternate /\ [Next]_vars => Alternate'
  BY AlternateStep
<1>3. Typed /\ StopsKept /\ [Next]_vars => StopsKept'
  BY StopsStep
<1> QED
  BY <1>1, <1>2, <1>3, TypedAlways, PTL DEF Spec

\* What the record of a follower says is not moved by what does not touch it.
LEMMA MisledGrows ==
  ASSUME NEW r, NEW c, NEW U, NEW V, c \in U => c \in V
  PROVE  Misled(r, V, c) => Misled(r, U, c)
BY DEF Misled

LEMMA FollowersOfAConnection ==
  ASSUME Typed, ListAttaches
  PROVE  FollowInv'
<1> SUFFICES ASSUME NEW c \in Containers
             PROVE  ~Misled(run'[c], up', c) /\ (c \in up' => Attached(run'[c]))
  BY DEF FollowInv
<1>1. /\ up' = up /\ run'[c] = IF c \in up THEN Launched(marks[c]) ELSE NoRun
  BY DEF ListAttaches, daemonVars
<1>2. /\ NoRun.pc = "none" /\ Launched(marks[c]).pc = "opening" /\ ~Launched(marks[c]).stopped
  BY DEF Launched, NoRun
<1> QED
  BY <1>1, <1>2 DEF Misled, Attached

\* A follower's own steps keep what it believes.
LEMMA FollowerBelieves ==
  ASSUME Typed, LineInv, StopsKept, FollowInv, pc = "up", NEW c \in Containers \ stale, Follower(c)
  PROVE  /\ Misled(run'[c], up, c) => Misled(run[c], up, c)
         /\ c \in up /\ ~quit /\ Attached(run[c]) => Attached(run'[c])
<1>0. /\ run[c] \in Run /\ run[c].pc # "none" /\ MaxLog \in Nat /\ Live = MaxLog + 1
      /\ (run[c].cancelled \/ run[c].restart => run[c].stopped)
  BY FollowerSteps, DockerAssumption DEF Typed, FollowersTyped, StopsKept, Live
<1> DEFINE n == Resume(run[c].mark, log[c])
           e == IF c \in up THEN Live ELSE log[c]
           i == run[c].next
           j == run[c].next + 1
<1>1. \/ /\ run[c].pc = "opening"
         /\ run'[c] = [run[c] EXCEPT !.pc = "reading", !.next = n, !.end = e]
      \/ run'[c] = [run[c] EXCEPT !.mark = i, !.next = j]
      \/ /\ Cancelled(c) \/ AtEnd(c)
         /\ run'[c] = IF run[c].restart /\ ~quit /\ pc # "closing"
                      THEN Launched(run[c].mark) ELSE NoRun
  <2>1. FollowersTyped /\ DaemonTyped
    BY DEF Typed
  <2> QED
    BY <2>1, FollowerSteps
<1>2. e = (IF c \in up THEN Live ELSE log[c])
  OBVIOUS
<1> HIDE DEF n, e, i, j
<1>3. ASSUME run[c].pc = "opening",
             run'[c] = [run[c] EXCEPT !.pc = "reading", !.next = n, !.end = e]
      PROVE  /\ Misled(run'[c], up, c) => Misled(run[c], up, c)
             /\ c \in up /\ Attached(run[c]) => Attached(run'[c])
  <2>1. /\ run'[c].pc = "reading" /\ run'[c].stopped = run[c].stopped
        /\ run'[c].restart = run[c].restart /\ run'[c].end = e
    BY <1>0, <1>3 DEF Run
  <2>2. c \in up => e = Live
    BY <1>2
  <2> QED
    BY <1>0, <2>1, <2>2 DEF Misled, Attached
<1>4. ASSUME run'[c] = [run[c] EXCEPT !.mark = i, !.next = j]
      PROVE  /\ Misled(run'[c], up, c) => Misled(run[c], up, c)
             /\ Attached(run[c]) => Attached(run'[c])
  <2>1. /\ run'[c].pc = run[c].pc /\ run'[c].stopped = run[c].stopped
        /\ run'[c].restart = run[c].restart /\ run'[c].end = run[c].end
    BY <1>0, <1>4 DEF Run
  <2> QED
    BY <2>1 DEF Misled, Attached
<1>5. CASE /\ Cancelled(c) \/ AtEnd(c)
           /\ run'[c] = IF run[c].restart /\ ~quit /\ pc # "closing"
                        THEN Launched(run[c].mark) ELSE NoRun
  <2>1. /\ NoRun.pc = "none" /\ Launched(run[c].mark).pc = "opening"
        /\ ~Launched(run[c].mark).stopped
    BY DEF Launched, NoRun
  <2>2. CASE run[c].restart /\ ~quit
    <3>1. run'[c] = Launched(run[c].mark)
      BY <1>5, <2>2
    <3> QED
      BY <1>0, <2>1, <2>2, <3>1 DEF Misled, Attached
  <2>3. CASE ~(run[c].restart /\ ~quit)
    <3>1. run'[c] = NoRun
      BY <1>5, <2>3
    <3>2. ASSUME ~quit, Attached(run[c])  PROVE FALSE
      <4>1. ~run[c].restart /\ ~run[c].stopped /\ (run[c].pc = "reading" => run[c].end = Live)
        BY <2>3, <3>2 DEF Attached
      <4>2. AtEnd(c)
        BY <1>0, <1>5, <3>2, <4>1 DEF Cancelled
      <4>3. run[c].pc = "reading" /\ run[c].next > run[c].end /\ run[c].next \in 0..(MaxLog + 1)
        BY <1>0, <4>2, RunTypes DEF AtEnd
      <4> QED
        BY <1>0, <4>1, <4>3
    <3> QED
      BY <2>1, <3>1, <3>2 DEF Misled
  <2> QED
    BY <2>2, <2>3
<1> QED
  BY <1>3, <1>4, <1>5, <1>1

\* An event of c is handled.
LEMMA FollowersHandle ==
  ASSUME Typed, EventInv, Alternate, StopsKept, FollowInv, HandleEvent, NEW c \in Containers \ stale'
  PROVE  /\ Misled(run'[c], up, c) => ComesIn(history, pos + 1, c, "die")
         /\ c \in up /\ ~PendsIn(history, pos + 1, c) /\ ~quit => Attached(run'[c])
<1> DEFINE e == history[pos]
<1>0. /\ pc = "up" /\ pos \in 1..Len(history) /\ Ahead = pos /\ Len(history) \in Nat
      /\ run[c] \in Run /\ (run[c].cancelled \/ run[c].restart => run[c].stopped)
  BY HandledNext, AheadMoves, SourceIs DEF Typed, FollowersTyped, StopsKept
<1>1. c \notin stale =>
        /\ Misled(run[c], up, c) => ComesIn(history, pos, c, "die")
        /\ c \in up /\ ~PendsIn(history, pos, c) /\ ~quit => Attached(run[c])
  BY <1>0 DEF FollowInv
<1>2. e.id = c => /\ e.act = "die" /\ c \in up => ComesIn(history, pos + 1, c, "start")
                  /\ e.act = "start" /\ c \notin up => ComesIn(history, pos + 1, c, "die")
  BY <1>0 DEF Alternate
<1>3. /\ \A x : ComesIn(history, pos + 1, c, x) => PendsIn(history, pos + 1, c)
      /\ \A x : ComesIn(history, pos, c, x) /\ (e.id # c \/ e.act # x) => ComesIn(history, pos + 1, c, x)
      /\ PendsIn(history, pos, c) /\ e.id # c => PendsIn(history, pos + 1, c)
  <2>1. \A i \in 1..Len(history) : pos <= i => i = pos \/ pos + 1 <= i
    BY <1>0
  <2> QED
    BY <2>1 DEF ComesIn, PendsIn
<1>4. CASE e.id # c
  <2>1. run'[c] = run[c] /\ c \notin stale
    BY <1>4, HandleRun
  <2> QED
    BY <1>1, <1>3, <1>4, <2>1
<1>5. CASE e.id = c /\ e.act = "start"
  <2>1. /\ run'[c] = IF run[c].pc = "none" THEN Launched(marks[c])
                     ELSE [run[c] EXCEPT !.restart = @ \/ run[c].stopped]
        /\ ~(c \in stale /\ run[c].pc # "none" /\ ~run[c].stopped)
    BY <1>5, HandleRun
  <2>2. CASE c \in up
    <3>1. CASE run[c].pc = "none"
      <4>1. /\ run'[c].pc = "opening" /\ ~run'[c].stopped
        BY <2>1, <3>1 DEF Launched, NoRun
      <4> QED
        BY <2>2, <4>1 DEF Misled, Attached
    <3>2. CASE run[c].pc # "none"
      <4>1. /\ run'[c].pc = run[c].pc /\ run'[c].stopped = run[c].stopped
            /\ run'[c].end = run[c].end
            /\ run'[c].restart = (run[c].restart \/ run[c].stopped)
        BY <1>0, <2>1, <3>2 DEF Run
      <4>2. CASE run[c].stopped
        BY <2>2, <3>2, <4>1, <4>2 DEF Misled, Attached
      <4>3. CASE ~run[c].stopped
        <5>1. c \notin stale
          BY <2>1, <3>2, <4>3
        <5>2. Misled(run'[c], up, c) => Misled(run[c], up, c)
          BY <4>1, <4>3, <3>2 DEF Misled
        <5>3. Misled(run[c], up, c) => ComesIn(history, pos + 1, c, "die")
          BY <1>1, <1>3, <1>5, <5>1
        <5>4. ~Misled(run[c], up, c) => Attached(run'[c])
          BY <2>2, <3>2, <4>1, <4>3 DEF Misled, Attached
        <5> QED
          BY <1>3, <5>2, <5>3, <5>4
      <4> QED
        BY <4>2, <4>3
    <3> QED
      BY <3>1, <3>2
  <2>3. CASE c \notin up
    BY <1>2, <1>5, <2>3
  <2> QED
    BY <2>2, <2>3
<1>6. CASE e.id = c /\ e.act = "die"
  <2>1. /\ run'[c] = IF run[c].pc = "none" THEN run[c]
                     ELSE [run[c] EXCEPT !.stopped = TRUE, !.cancelled = @ \/ ~FromTheGap(e)]
        /\ ~run[c].restart
    BY <1>6, HandleRun
  <2>2. ~Misled(run'[c], up, c)
    <3>1. CASE run[c].pc = "none"
      BY <2>1, <3>1 DEF Misled
    <3>2. CASE run[c].pc # "none"
      <4>1. run'[c].stopped = TRUE /\ run'[c].restart = run[c].restart
        BY <1>0, <2>1, <3>2 DEF Run
      <4> QED
        BY <2>1, <4>1 DEF Misled
    <3> QED
      BY <3>1, <3>2
  <2> QED
    BY <1>2, <1>3, <1>6, <2>2
<1>7. e.id # c \/ e.act = "start" \/ e.act = "die"
  BY <1>0, HistoryIs DEF Typed
<1> QED
  BY <1>4, <1>5, <1>6, <1>7

LEMMA FollowStep ==
  ASSUME Typed, LineInv, EventInv, Alternate, StopsKept, FollowInv, [Next]_vars
  PROVE  FollowInv'
<1>1. CASE ListAttaches
  BY <1>1, FollowersOfAConnection
<1> SUFFICES ASSUME pc' = "up", ~ListAttaches, NEW c \in Containers \ stale'
             PROVE  /\ Misled(run'[c], up', c) => ComesIn(history', Ahead', c, "die")
                    /\ c \in up' /\ ~PendsIn(history', Ahead', c) /\ ~quit' => Attached(run'[c])
  BY <1>1 DEF FollowInv
<1>2. /\ pc = "up"
      /\ c \notin stale => /\ Misled(run[c], up, c) => ComesIn(history, Ahead, c, "die")
                           /\ c \in up /\ ~PendsIn(history, Ahead, c) /\ ~quit => Attached(run[c])
  BY UpSteps DEF FollowInv
<1>3. FollowersTyped /\ DaemonTyped /\ run[c] \in Run
  BY DEF Typed, FollowersTyped
<1>4. ASSUME NEW d \in Containers, Follower(d)
      PROVE  /\ Misled(run'[c], up', c) => ComesIn(history', Ahead', c, "die")
             /\ c \in up' /\ ~PendsIn(history', Ahead', c) /\ ~quit' => Attached(run'[c])
  <2>1. UNCHANGED <<up, history, handled, pos, quit, stale>>
    BY <1>3, <1>4, FollowerSteps DEF daemonVars, eventVars
  <2>2. Ahead' = Ahead
    BY <2>1, AheadMoves
  <2>3. CASE c = d
    BY <1>2, <1>4, <2>1, <2>2, <2>3, FollowerBelieves
  <2>4. CASE c # d
    <3>1. run'[c] = run[c]
      BY <1>3, <1>4, <2>4, FollowerSteps
    <3> QED
      BY <1>2, <2>1, <2>2, <3>1
  <2> QED
    BY <2>3, <2>4
<1>5. ASSUME NEW d \in Containers, ContainerStarts(d) \/ ContainerDies(d)
      PROVE  /\ Misled(run'[c], up', c) => ComesIn(history', Ahead', c, "die")
             /\ c \in up' /\ ~PendsIn(history', Ahead', c) /\ ~quit' => Attached(run'[c])
  <2>1. PICK act \in {"start", "die"} :
          /\ Happens(act, d) /\ (c # d => (c \in up' <=> c \in up) /\ run'[c] = run[c])
          /\ act = "start" => up' = up \cup {d} /\ run' = run
          /\ act = "die" => d \notin up'
    <3>1. CASE ContainerStarts(d)
      BY <3>1 DEF ContainerStarts, setVars
    <3>2. CASE ContainerDies(d)
      BY <1>3, <3>2, DiesRun DEF ContainerDies
    <3> QED
      BY <1>5, <3>1, <3>2
  <2>2. Extends(act, d)
    BY <1>3, <2>1, HappensExtends
  <2>3. UNCHANGED <<handled, pos, quit, stale>>
    BY <1>5 DEF ContainerStarts, ContainerDies, eventVars, setVars
  <2>4. Ahead' = Ahead /\ Ahead \in Nat /\ Ahead <= Len(history) + 1
    BY <2>3, AheadMoves, AheadIs
  <2>5. /\ ComesIn(history, Ahead, c, "die") => ComesIn(history', Ahead, c, "die")
        /\ PendsIn(history, Ahead, c) => PendsIn(history', Ahead, c)
        /\ ComesIn(history', Ahead, d, act) /\ PendsIn(history', Ahead, d)
    BY <2>2, <2>4, ComesExtended
  <2>6. CASE c = d
    <3>1. CASE act = "die"
      BY <2>1, <2>4, <2>5, <2>6, <3>1
    <3>2. CASE act = "start"
      <4>1. run'[c] = run[c] /\ (c \in up => c \in up') /\ c \notin stale
        BY <2>1, <2>3, <3>2
      <4>2. Misled(run'[c], up', c) => Misled(run[c], up, c)
        BY <4>1, MisledGrows
      <4> QED
        BY <1>2, <2>4, <2>5, <2>6, <4>1, <4>2
    <3> QED
      BY <2>1, <3>1, <3>2
  <2>7. CASE c # d
    <3>1. Misled(run'[c], up', c) => Misled(run[c], up, c)
      BY <2>1, <2>7 DEF Misled
    <3> QED
      BY <1>2, <2>1, <2>3, <2>4, <2>5, <2>7, <3>1
  <2> QED
    BY <2>6, <2>7
<1>6. CASE HandleEvent
  <2>1. UNCHANGED <<up, history, quit>> /\ Ahead' = pos + 1
    BY <1>6, AheadMoves DEF HandleEvent, daemonVars
  <2> QED
    BY <1>6, <2>1, FollowersHandle
<1>7. ASSUME UNCHANGED <<up, history, run, stale>>, quit' = quit \/ quit', Ahead' = Ahead
      PROVE  /\ Misled(run'[c], up', c) => ComesIn(history', Ahead', c, "die")
             /\ c \in up' /\ ~PendsIn(history', Ahead', c) /\ ~quit' => Attached(run'[c])
  BY <1>2, <1>7
<1>8. ASSUME NEW d \in Containers, ContainerWrites(d)
      PROVE  UNCHANGED <<up, history, run, stale, quit, handled, pos>>
  BY <1>8 DEF ContainerWrites, eventVars, setVars
<1>9. CASE SkipEvent
  BY <1>7, <1>9, AheadMoves DEF SkipEvent, daemonVars, setVars
<1>10. CASE Quit
  BY <1>7, <1>10, AheadMoves DEF Quit, daemonVars, eventVars, setVars
<1>11. CASE UNCHANGED vars
  BY <1>7, <1>11, AheadMoves DEF vars, daemonVars, eventVars, setVars
<1>12. CASE \E d \in Containers : ContainerWrites(d)
  BY <1>7, <1>8, <1>12, AheadMoves
<1> QED
  BY <1>4, <1>5, <1>6, <1>9, <1>10, <1>11, <1>12, UpSteps

LEMMA FollowAlways == Spec => []FollowInv
<1>1. Init => FollowInv
  BY DEF Init, FollowInv
<1>2. Typed /\ LineInv /\ EventInv /\ Alternate /\ StopsKept /\ FollowInv /\ [Next]_vars => FollowInv'
  BY FollowStep
<1> QED
  BY <1>1, <1>2, TypedAlways, LinesAlways, EventsAlways, AlternateAlways, PTL DEF Spec

\* The start of a container reaches a follower (start, follow): when all that is to be
\* handled is, a container that runs is followed, also when its die and its next start were
\* handled while the old follower was on its way out, as long as it did not die again
\* before the promised successor began.
THEOREM ARestartIsAlwaysFollowed == Spec => []SingleRestartIsFollowed
<1>1. Typed /\ EventInv /\ FollowInv => SingleRestartIsFollowed
  <2> SUFFICES ASSUME Typed, EventInv, FollowInv, Settled, NEW c \in up \ stale  PROVE Following(c)
    BY DEF SingleRestartIsFollowed
  <2>1. pc = "up" /\ ~quit /\ pos = Len(history) + 1 /\ c \in Containers
        /\ (run[c].pc = "none" \/ Following(c))
    BY DEF Settled, Typed, DaemonTyped
  <2>2. Ahead = Len(history) + 1 /\ Len(history) \in Nat
    BY <2>1, SourceIs, HandledIs DEF EventInv, HandledKept, Placed, Ahead
  <2>3. ~PendsIn(history, Ahead, c)
    BY <2>2 DEF PendsIn
  <2> QED
    BY <2>1, <2>3 DEF FollowInv, Attached
<1> QED
  BY <1>1, TypedAlways, EventsAlways, FollowAlways, PTL

(***************************************************************************)
(* What ran while the events were lost.                                    *)
(***************************************************************************)
\* c is over, and was before this connection subscribed.
Gone(c) ==
  /\ resumed /\ c \notin up
  /\ \A i \in 1..Len(history) : history[i].id = c => history[i].at < subscribed

\* Before position a, h has a start of c from after what the connection before had handled.
StartedBefore(h, a, c, newest, f) ==
  \E i \in 1..Len(h) : /\ i < a /\ h[i].id = c /\ h[i].act = "start"
                       /\ h[i].at > newest /\ h[i].at >= f

\* Nothing cuts off the follower of a container that is gone, and if it is out it has it all.
GapInv ==
  pc = "up" /\ ~quit => \A c \in Containers : Gone(c) =>
    /\ run[c].pc # "none" => ~run[c].cancelled /\ (run[c].pc = "reading" => run[c].end = log[c])
    /\ StartedBefore(history, Ahead, c, prev.at, first) /\ run[c].pc = "none" =>
         LastRead(c) = log[c]

LEMMA GapOfAConnection ==
  ASSUME Typed, EventInv, ListAttaches
  PROVE  GapInv'
<1> SUFFICES ASSUME NEW c \in Containers, Gone(c)'
             PROVE  /\ run'[c].pc = "none"
                    /\ ~StartedBefore(history', Ahead', c, prev'.at, first')
  BY DEF GapInv
<1>1. /\ c \notin up /\ run'[c] = NoRun
  BY DEF ListAttaches, Gone, daemonVars
<1>2. /\ pc = "list" /\ UNCHANGED <<history, first, handled, pos>> /\ prev' = mark
  BY DEF ListAttaches, daemonVars
<1>3. Ahead' = Ahead
  BY <1>2, AheadMoves
<1>4. /\ mark.at \in Nat /\ first \in Nat /\ \A i \in 1..Len(history) : history[i].at \in Nat
      /\ Len(history) \in Nat
  BY SourceIs
<1>5. ASSUME NEW i \in 1..Len(history), i < Ahead, history[i].at > mark.at, history[i].at >= first
      PROVE  FALSE
  <2>1. CASE handled = <<>>
    <3>1. FirstIn(history, pos, first) /\ Ahead = pos
      BY <1>2, <2>1 DEF EventInv, Placed, Ahead
    <3> QED
      BY <1>4, <1>5, <3>1 DEF FirstIn
  <2>2. CASE handled # <<>>
    <3>1. Newest \in 1..Len(history) /\ mark.at = history[Newest].at /\ Ahead = Newest + 1
      BY <2>2 DEF EventInv, HandledKept, Ahead
    <3>2. i <= Newest
      BY <1>4, <1>5, <3>1
    <3>3. history[i].at <= history[Newest].at
      BY <3>1, <3>2 DEF EventInv, Stamped
    <3> QED
      BY <1>4, <1>5, <3>1, <3>3
  <2> QED
    BY <2>1, <2>2
<1> QED
  BY <1>1, <1>2, <1>3, <1>5 DEF StartedBefore, NoRun

\* c's own follower, with c gone.
LEMMA GapFollowed ==
  ASSUME Typed, LineInv, GapInv, pc = "up", ~quit, NEW c \in Containers, Gone(c), Follower(c)
  PROVE  /\ run'[c].pc # "none" =>
              ~run'[c].cancelled /\ (run'[c].pc = "reading" => run'[c].end = log[c])
         /\ run'[c].pc = "none" => LastRead(c)' = log[c]
<1> DEFINE n == Resume(run[c].mark, log[c])
           e == IF c \in up THEN Live ELSE log[c]
           i == run[c].next
           j == run[c].next + 1
<1>0. /\ run[c] \in Run /\ run[c].pc # "none" /\ FollowersTyped /\ DaemonTyped
  BY FollowerSteps DEF Typed, FollowersTyped
<1>1. \/ /\ run[c].pc = "opening"
         /\ run'[c] = [run[c] EXCEPT !.pc = "reading", !.next = n, !.end = e]
      \/ run[c].pc = "reading" /\ run'[c] = [run[c] EXCEPT !.mark = i, !.next = j]
      \/ /\ Cancelled(c) \/ AtEnd(c)
         /\ run'[c] = IF run[c].restart /\ ~quit /\ pc # "closing"
                      THEN Launched(run[c].mark) ELSE NoRun
         /\ UNCHANGED got
  BY <1>0, FollowerSteps
<1>2. e = log[c]
  BY DEF Gone
<1>3. ~run[c].cancelled /\ (run[c].pc = "reading" => run[c].end = log[c])
  BY <1>0 DEF GapInv
<1> HIDE DEF n, e, i, j
<1>4. CASE run'[c] = [run[c] EXCEPT !.pc = "reading", !.next = n, !.end = e]
  <2>1. run'[c].pc = "reading" /\ run'[c].cancelled = run[c].cancelled /\ run'[c].end = e
    BY <1>0, <1>4 DEF Run
  <2> QED
    BY <1>2, <1>3, <2>1
<1>5. CASE run[c].pc = "reading" /\ run'[c] = [run[c] EXCEPT !.mark = i, !.next = j]
  <2>1. run'[c].pc = "reading" /\ run'[c].cancelled = run[c].cancelled /\ run'[c].end = run[c].end
    BY <1>0, <1>5 DEF Run
  <2> QED
    BY <1>3, <1>5, <2>1
<1>6. CASE /\ Cancelled(c) \/ AtEnd(c)
           /\ run'[c] = IF run[c].restart /\ ~quit /\ pc # "closing"
                        THEN Launched(run[c].mark) ELSE NoRun
           /\ UNCHANGED got
  <2>1. /\ Launched(run[c].mark).pc = "opening" /\ ~Launched(run[c].mark).cancelled
        /\ NoRun.pc = "none"
    BY DEF Launched, NoRun
  <2>2. AtEnd(c)
    BY <1>3, <1>6 DEF Cancelled
  <2>3. /\ run[c].next > log[c] /\ run[c].next \in Nat /\ run[c].mark \in Nat /\ log[c] \in Nat
        /\ run[c].pc = "reading"
    <3>1. log[c] \in 0..MaxLog /\ run[c].mark \in 0..MaxLog /\ run[c].next \in 0..(MaxLog + 1)
          /\ MaxLog \in Nat
      BY <1>0, RunTypes, DockerAssumption DEF DaemonTyped
    <3> QED
      BY <1>3, <2>2, <3>1 DEF AtEnd
  <2>4. LastRead(c) = log[c]
    <3>1. /\ LastRead(c) = run[c].mark /\ LastRead(c) <= log[c]
          /\ run[c].mark > 0 => run[c].next = run[c].mark + 1
          /\ run[c].mark = 0 => run[c].next <= 1 \/ run[c].next <= log[c]
      BY <1>0, <2>3 DEF LineInv, Standing
    <3> QED
      BY <2>3, <3>1
  <2>5. LastRead(c)' = LastRead(c)
    BY <1>6 DEF LastRead
  <2> QED
    BY <1>6, <2>1, <2>4, <2>5
<1> QED
  BY <1>1, <1>4, <1>5, <1>6

LEMMA GapHandled ==
  ASSUME Typed, EventInv, GapInv, HandleEvent, ~quit, NEW c \in Containers, Gone(c)
  PROVE  /\ run'[c].pc # "none" =>
              ~run'[c].cancelled /\ (run'[c].pc = "reading" => run'[c].end = log[c])
         /\ StartedBefore(history, pos + 1, c, prev.at, first) /\ run'[c].pc = "none" =>
              LastRead(c) = log[c]
<1> DEFINE e == history[pos]
<1>0. /\ pc = "up" /\ pos \in 1..Len(history) /\ Ahead = pos /\ Len(history) \in Nat
      /\ run[c] \in Run
  BY HandledNext, AheadMoves, SourceIs DEF Typed, FollowersTyped
<1>1. /\ run[c].pc # "none" => ~run[c].cancelled /\ (run[c].pc = "reading" => run[c].end = log[c])
      /\ StartedBefore(history, pos, c, prev.at, first) /\ run[c].pc = "none" =>
           LastRead(c) = log[c]
  BY <1>0 DEF GapInv
<1>2. StartedBefore(history, pos + 1, c, prev.at, first) =>
        \/ StartedBefore(history, pos, c, prev.at, first)
        \/ e.id = c /\ e.act = "start"
  <2>1. \A i \in 1..Len(history) : i < pos + 1 => i = pos \/ i < pos
    BY <1>0
  <2> QED
    BY <2>1 DEF StartedBefore
<1>3. CASE e.id # c
  BY <1>1, <1>2, <1>3, HandleRun
<1>4. CASE e.id = c /\ e.act = "start"
  <2>1. run'[c] = IF run[c].pc = "none" THEN Launched(marks[c])
                  ELSE [run[c] EXCEPT !.restart = @ \/ run[c].stopped]
    BY <1>4, HandleRun
  <2>2. CASE run[c].pc = "none"
    <3>1. run'[c].pc = "opening" /\ ~run'[c].cancelled
      BY <2>1, <2>2 DEF Launched, NoRun
    <3> QED
      BY <3>1
  <2>3. CASE run[c].pc # "none"
    <3>1. /\ run'[c].pc = run[c].pc /\ run'[c].cancelled = run[c].cancelled
          /\ run'[c].end = run[c].end
      BY <1>0, <2>1, <2>3 DEF Run
    <3> QED
      BY <1>1, <2>3, <3>1
  <2> QED
    BY <2>2, <2>3
<1>5. CASE e.id = c /\ e.act = "die"
  <2>1. run'[c] = IF run[c].pc = "none" THEN run[c]
                  ELSE [run[c] EXCEPT !.stopped = TRUE, !.cancelled = @ \/ ~FromTheGap(e)]
    BY <1>5, HandleRun
  <2>2. FromTheGap(e)
    BY <1>0, <1>5 DEF FromTheGap, Gone
  <2>3. CASE run[c].pc = "none"
    BY <1>1, <1>2, <1>5, <2>1, <2>3
  <2>4. CASE run[c].pc # "none"
    <3>1. /\ run'[c].pc = run[c].pc /\ run'[c].end = run[c].end
          /\ run'[c].cancelled = (run[c].cancelled \/ ~FromTheGap(e))
      BY <1>0, <2>1, <2>4 DEF Run
    <3> QED
      BY <1>1, <2>2, <2>4, <3>1
  <2> QED
    BY <2>3, <2>4
<1>6. e.id # c \/ e.act = "start" \/ e.act = "die"
  BY <1>0, HistoryIs DEF Typed
<1> QED
  BY <1>3, <1>4, <1>5, <1>6

LEMMA GapStep ==
  ASSUME Typed, LineInv, EventInv, GapInv, [Next]_vars
  PROVE  GapInv'
<1>1. CASE ListAttaches
  BY <1>1, GapOfAConnection
<1> SUFFICES ASSUME pc' = "up", ~quit', ~ListAttaches, NEW c \in Containers, Gone(c)'
             PROVE  /\ run'[c].pc # "none" =>
                         ~run'[c].cancelled /\ (run'[c].pc = "reading" => run'[c].end = log'[c])
                    /\ StartedBefore(history', Ahead', c, prev'.at, first') /\ run'[c].pc = "none" =>
                         LastRead(c)' = log'[c]
  BY <1>1 DEF GapInv
<1>2. /\ pc = "up" /\ UNCHANGED <<resumed, subscribed, first, prev>>
  BY UpSteps DEF connVars
<1>3. ~quit
  BY QuitStays DEF Quit
<1>4. FollowersTyped /\ DaemonTyped /\ run[c] \in Run /\ log \in [Containers -> 0..MaxLog]
  BY DEF Typed, FollowersTyped, DaemonTyped
<1>5. UNCHANGED <<up, history>> => Gone(c)
  BY <1>2 DEF Gone
<1>6. Gone(c) =>
        /\ run[c].pc # "none" => ~run[c].cancelled /\ (run[c].pc = "reading" => run[c].end = log[c])
        /\ StartedBefore(history, Ahead, c, prev.at, first) /\ run[c].pc = "none" =>
             LastRead(c) = log[c]
  BY <1>2, <1>3 DEF GapInv
\* Nothing of c's moves.
<1>7. ASSUME Gone(c), run'[c] = run[c], log'[c] = log[c], got'[c] = got[c],
             StartedBefore(history', Ahead', c, prev.at, first) =>
               StartedBefore(history, Ahead, c, prev.at, first)
      PROVE  /\ run'[c].pc # "none" =>
                  ~run'[c].cancelled /\ (run'[c].pc = "reading" => run'[c].end = log'[c])
             /\ StartedBefore(history', Ahead', c, prev'.at, first') /\ run'[c].pc = "none" =>
                  LastRead(c)' = log'[c]
  <2>1. LastRead(c)' = LastRead(c)
    BY <1>7 DEF LastRead
  <2> QED
    BY <1>2, <1>6, <1>7, <2>1
<1>8. ASSUME NEW d \in Containers, Follower(d)
      PROVE  /\ run'[c].pc # "none" =>
                  ~run'[c].cancelled /\ (run'[c].pc = "reading" => run'[c].end = log'[c])
             /\ StartedBefore(history', Ahead', c, prev'.at, first') /\ run'[c].pc = "none" =>
                  LastRead(c)' = log'[c]
  <2>1. UNCHANGED <<up, history, log, handled, pos>>
    BY <1>4, <1>8, FollowerSteps DEF daemonVars, eventVars
  <2>2. Ahead' = Ahead
    BY <2>1, AheadMoves
  <2>3. CASE c = d
    BY <1>2, <1>3, <1>5, <1>8, <2>1, <2>3, GapFollowed
  <2>4. CASE c # d
    <3>1. run'[c] = run[c] /\ got'[c] = got[c]
      BY <1>4, <1>8, <2>4, FollowerSteps
    <3> QED
      BY <1>5, <1>7, <2>1, <2>2, <3>1
  <2> QED
    BY <2>3, <2>4
<1>9. ASSUME NEW d \in Containers, ContainerStarts(d) \/ ContainerDies(d)
      PROVE  /\ run'[c].pc # "none" =>
                  ~run'[c].cancelled /\ (run'[c].pc = "reading" => run'[c].end = log'[c])
             /\ StartedBefore(history', Ahead', c, prev'.at, first') /\ run'[c].pc = "none" =>
                  LastRead(c)' = log'[c]
  <2> DEFINE n == Len(history)
  <2>1. PICK act \in {"start", "die"} :
          /\ Happens(act, d) /\ (c # d => (c \in up' <=> c \in up) /\ run'[c] = run[c])
    <3>1. CASE ContainerStarts(d)
      BY <3>1 DEF ContainerStarts, setVars
    <3>2. CASE ContainerDies(d)
      BY <1>4, <3>2, DiesRun DEF ContainerDies
    <3> QED
      BY <1>9, <3>1, <3>2
  <2>2. Extends(act, d)
    BY <1>4, <2>1, HappensExtends
  <2>3. UNCHANGED <<handled, pos, log, got>>
    BY <1>9 DEF ContainerStarts, ContainerDies, eventVars
  <2>4. Ahead' = Ahead /\ Ahead \in Nat /\ Ahead <= n + 1
    BY <2>3, AheadMoves, AheadIs
  <2>5. n \in Nat /\ DOMAIN history = 1..n /\ clock \in Nat /\ subscribed \in Nat
    BY SourceIs
  <2>6. history'[n + 1] = [act |-> act, id |-> d, at |-> clock']
    BY <2>2 DEF Extends
  <2>7. /\ Len(history') = n + 1 /\ history'[n + 1].id = d /\ history'[n + 1].at = clock'
        /\ \A i \in 1..n : history'[i] = history[i]
        /\ clock' \in Nat /\ clock <= clock'
    BY <2>2, <2>5, <2>6 DEF Extends
  <2>8. subscribed <= clock
    BY DEF EventInv, FirstKept
  <2>9. \A i \in 1..(n + 1) : i \in 1..n \/ i = n + 1
    BY <2>5
  <2>10. \A i \in 1..n : i \in 1..(n + 1)
    BY <2>5
  <2>11. n + 1 \in 1..(n + 1)
    BY <2>5
  <2> HIDE DEF n
  <2>12. c # d
    <3>1. \A i \in 1..(n + 1) : history'[i].id = c => history'[i].at < subscribed
      BY <1>2, <2>7 DEF Gone
    <3>2. ~(clock' < subscribed)
      BY <2>5, <2>7, <2>8
    <3> QED
      BY <2>7, <2>11, <3>1, <3>2
  <2>13. Gone(c)
    <3>1. \A i \in 1..n : history[i].id = c => history[i].at < subscribed
      BY <1>2, <2>7, <2>10 DEF Gone
    <3> QED
      BY <1>2, <2>1, <2>12, <3>1 DEF Gone, n
  <2>14. StartedBefore(history', Ahead', c, prev.at, first) =>
           StartedBefore(history, Ahead, c, prev.at, first)
    BY <2>4, <2>7, <2>9, <2>12 DEF StartedBefore, n
  <2> QED
    BY <1>7, <2>1, <2>3, <2>12, <2>13, <2>14
<1>10. ASSUME NEW d \in Containers, ContainerWrites(d)
       PROVE  /\ run'[c].pc # "none" =>
                   ~run'[c].cancelled /\ (run'[c].pc = "reading" => run'[c].end = log'[c])
              /\ StartedBefore(history', Ahead', c, prev'.at, first') /\ run'[c].pc = "none" =>
                   LastRead(c)' = log'[c]
  <2>1. d \in up /\ UNCHANGED <<up, history, run, got, handled, pos>>
        /\ log' = [log EXCEPT ![d] = @ + 1]
    BY <1>10 DEF ContainerWrites, eventVars, setVars
  <2>2. Gone(c) /\ c # d
    BY <1>5, <2>1 DEF Gone
  <2>3. log'[c] = log[c] /\ Ahead' = Ahead
    BY <1>4, <2>1, <2>2, AheadMoves
  <2> QED
    BY <1>7, <2>1, <2>2, <2>3
<1>11. CASE HandleEvent
  <2>1. UNCHANGED <<up, history, log, got>> /\ Ahead' = pos + 1
    BY <1>11, AheadMoves DEF HandleEvent, daemonVars
  <2>2. LastRead(c)' = LastRead(c)
    BY <2>1 DEF LastRead
  <2> QED
    BY <1>2, <1>3, <1>5, <1>11, <2>1, <2>2, GapHandled
<1>12. CASE SkipEvent \/ UNCHANGED vars
  <2>1. UNCHANGED <<up, history, log, got, run>>
    BY <1>12 DEF SkipEvent, vars, daemonVars, setVars
  <2>2. Ahead' = Ahead
    BY <1>12, AheadMoves DEF vars, eventVars
  <2> QED
    BY <1>5, <1>7, <2>1, <2>2
<1>13. ~Quit
  BY DEF Quit
<1> QED
  BY <1>8, <1>9, <1>10, <1>11, <1>12, <1>13, UpSteps

LEMMA GapAlways == Spec => []GapInv
<1>1. Init => GapInv
  BY DEF Init, GapInv
<1>2. Typed /\ LineInv /\ EventInv /\ GapInv /\ [Next]_vars => GapInv'
  BY GapStep
<1> QED
  BY <1>1, <1>2, TypedAlways, LinesAlways, EventsAlways, PTL DEF Spec

\* A container that started and died while the events were lost is read to its end: its
\* die, replayed right after its start, is known by its stamp and does not cut off the
\* follower that its start has just been given (handle, retire).
THEOREM GapRunsAreAlwaysRead == Spec => []GapRunIsRead
<1>1. Typed /\ EventInv /\ Alternate /\ GapInv => GapRunIsRead
  <2> SUFFICES ASSUME Typed, EventInv, Alternate, GapInv, Settled, NEW c \in Containers,
                      RanInTheGap(c), log[c] > 0, run[c].pc = "none"
               PROVE  got[c] # <<>> /\ Last(got[c]) = log[c]
    BY DEF GapRunIsRead
  <2>1. pc = "up" /\ ~quit /\ pos = Len(history) + 1
    BY DEF Settled
  <2>2. /\ Ahead = Len(history) + 1 /\ Len(history) \in Nat /\ DOMAIN history = 1..Len(history)
        /\ subscribed \in Nat /\ \A i \in 1..Len(history) : history[i].at \in Nat
    BY <2>1, SourceIs, HandledIs DEF EventInv, HandledKept, Placed, Ahead
  <2>3. PICK i \in 1..Len(history), j \in 1..Len(history) :
          /\ i < j /\ history[i].id = c /\ history[j].id = c
          /\ history[i].act = "start" /\ history[i].at > prev.at /\ history[i].at >= first
          /\ history[j].act = "die" /\ history[j].at < subscribed
          /\ \A k \in 1..Len(history) : history[k].id = c => k <= j
    BY <2>2 DEF RanInTheGap
  <2>4. Gone(c)
    <3>1. c \notin up
      <4>1. ~ComesIn(history, j + 1, c, "start")
        BY <2>2, <2>3 DEF ComesIn
      <4> QED
        BY <2>3, <4>1 DEF Alternate
    <3>2. ASSUME NEW k \in 1..Len(history), history[k].id = c  PROVE history[k].at < subscribed
      <4>1. history[k].at <= history[j].at
        BY <2>3, <3>2 DEF EventInv, Stamped
      <4> QED
        BY <2>2, <2>3, <4>1
    <3> QED
      BY <3>1, <3>2 DEF Gone, RanInTheGap
  <2>5. StartedBefore(history, Ahead, c, prev.at, first)
    BY <2>2, <2>3 DEF StartedBefore
  <2>6. LastRead(c) = log[c]
    BY <2>1, <2>4, <2>5 DEF GapInv
  <2> QED
    BY <2>6 DEF LastRead
<1> QED
  BY <1>1, TypedAlways, EventsAlways, AlternateAlways, GapAlways, PTL

-----------------------------------------------------------------------------
(***************************************************************************)
(* How a connection and the source end: what EveryStopCompletes rests on   *)
(* besides fairness.                                                       *)
(***************************************************************************)
\* After a quit Lines passes each of its points at most once more: a wait may still end in
\* a last connection, and no connection that closes is followed by another.
ToGo(p) ==
  CASE p = "wait" -> 5 [] p = "off" -> 4 [] p = "list" -> 3 [] p = "up" -> 2
    [] p = "closing" -> 1 [] OTHER -> 0

\* While a connection closes its followers only leave, with no successor even where a start
\* was kept for one, and it returns when all have left; after a quit Lines only goes on to
\* its end.
StopsOnlyEmpty ==
  [][/\ pc = "closing" => \A c \in Containers : run'[c].pc \in {run[c].pc, "none"}
     /\ pc = "closing" /\ pc' # pc => \A c \in Containers : run[c].pc = "none"
     /\ quit => quit' /\ (pc' # pc => ToGo(pc') < ToGo(pc))]_vars

\* What moves Lines from one of its points to another.
LEMMA PcSteps ==
  ASSUME [Next]_vars, pc' # pc
  PROVE  \/ pc = "off" /\ pc' \in {"list", "closing"}
         \/ pc = "list" /\ pc' \in {"up", "closing"}
         \/ pc = "up" /\ pc' = "closing"
         \/ /\ Closed /\ pc = "closing" /\ \A c \in Containers : run[c].pc = "none"
            /\ pc' \in {"wait", "ended"} /\ (quit => pc' = "ended")
         \/ pc = "wait" /\ pc' \in {"off", "ended"}
<1>1. CASE Source \/ StreamLost
  BY <1>1 DEF Source, Subscribe, SubscribeRefused, ListFails, ListAttaches, SkipEvent,
     HandleEvent, SeesQuit, Closed, WaitEnds, StreamLost
<1>2. CASE ~ (Source \/ StreamLost)
  BY <1>2, SourceFrame
<1> QED
  BY <1>1, <1>2

\* connect's wait for its followers and followerSet's refusal of successors while it waits;
\* Lines after a cancel: nothing takes on a follower or a connection that a stop would
\* have to wait for again.
THEOREM StopsAlwaysOnlyEmpty == Spec => StopsOnlyEmpty
<1>1. ASSUME Typed, [Next]_vars, pc = "closing", NEW c \in Containers
      PROVE  run'[c].pc \in {run[c].pc, "none"}
  <2>1. CASE \E d \in Containers : Follower(d)
    <3> PICK d \in Containers : Follower(d)
      BY <2>1
    <3>1. run[c] \in Run
      BY <1>1 DEF Typed, FollowersTyped
    <3>2. CASE c # d
      BY <1>1, <3>2, FollowerSteps DEF Typed
    <3>3. CASE c = d
      <4>1. /\ run[c].pc # "none"
            /\ \/ run[c].pc = "opening" /\ ~ Cancelled(c)
               \/ /\ run[c].pc = "reading"
                  /\ run'[c] = [run[c] EXCEPT !.mark = run[c].next, !.next = run[c].next + 1]
               \/ run'[c] = IF run[c].restart /\ ~quit /\ pc # "closing"
                            THEN Launched(run[c].mark) ELSE NoRun
        <5>1. FollowersTyped /\ DaemonTyped /\ Follower(c)
          BY <1>1, <3>3 DEF Typed
        <5> QED
          BY <5>1, FollowerSteps
      <4>2. Cancelled(c)
        BY <1>1 DEF Cancelled
      <4>3. CASE run'[c] = [run[c] EXCEPT !.mark = run[c].next, !.next = run[c].next + 1]
        <5>1. run'[c].pc = run[c].pc
          BY <3>1, <4>3 DEF Run
        <5> QED
          BY <5>1
      <4>4. CASE run'[c] = IF run[c].restart /\ ~quit /\ pc # "closing"
                           THEN Launched(run[c].mark) ELSE NoRun
        <5>1. run'[c] = NoRun
          BY <1>1, <4>4
        <5> QED
          BY <5>1 DEF NoRun
      <4> QED
        BY <4>1, <4>2, <4>3, <4>4
    <3> QED
      BY <3>2, <3>3
  <2>2. CASE \E d \in Containers : ContainerDies(d)
    <3> PICK d \in Containers : ContainerDies(d)
      BY <2>2
    <3>1. run[c] \in Run
      BY <1>1 DEF Typed, FollowersTyped
    <3>2. run'[c] = run[c] \/ run'[c] = [run[c] EXCEPT !.end = log[c]]
      BY <1>1, DiesRun DEF Typed
    <3> QED
      BY <3>1, <3>2 DEF Run
  <2>3. CASE UNCHANGED <<run, stale>>
    BY <2>3
  <2>4. ~ HandleEvent /\ ~ ListAttaches
    BY <1>1 DEF HandleEvent, ListAttaches
  <2> QED
    BY <1>1, <2>1, <2>2, <2>3, <2>4, RunFrame
<1>2. ASSUME Typed, [Next]_vars, pc = "closing", pc' # pc
      PROVE  \A c \in Containers : run[c].pc = "none"
  BY <1>2, PcSteps
<1>3. ASSUME Typed, [Next]_vars, quit
      PROVE  quit' /\ (pc' # pc => ToGo(pc') < ToGo(pc))
  <2>1. quit'
    BY <1>3, QuitStays DEF Quit
  <2>2. ASSUME pc' # pc PROVE ToGo(pc') < ToGo(pc)
    <3>1. \/ pc = "off" /\ pc' = "list"
          \/ pc = "off" /\ pc' = "closing"
          \/ pc = "list" /\ pc' = "up"
          \/ pc = "list" /\ pc' = "closing"
          \/ pc = "up" /\ pc' = "closing"
          \/ pc = "closing" /\ pc' = "ended"
          \/ pc = "wait" /\ pc' = "off"
          \/ pc = "wait" /\ pc' = "ended"
      BY <1>3, <2>2, PcSteps
    <3> QED
      BY <3>1 DEF ToGo
  <2> QED
    BY <2>1, <2>2
<1>4. Typed /\ [Next]_vars =>
        [/\ pc = "closing" => \A c \in Containers : run'[c].pc \in {run[c].pc, "none"}
         /\ pc = "closing" /\ pc' # pc => \A c \in Containers : run[c].pc = "none"
         /\ quit => quit' /\ (pc' # pc => ToGo(pc') < ToGo(pc))]_vars
  BY <1>1, <1>2, <1>3
<1> QED
  BY <1>4, TypedAlways, PTL DEF Spec, StopsOnlyEmpty

=============================================================================
