-------------------------- MODULE Coalescer_proofs --------------------------
(***************************************************************************)
(* What the coalescer does for every set of streams, every timeout and     *)
(* cap.  A replay: what it sends is stamped in order, and it is what a     *)
(* timer that is never late would have sent.  Both loops: every line is in *)
(* one group, in order, and a trace is split at the deadline only.         *)
(***************************************************************************)
EXTENDS Coalescer, FiniteSetTheorems, SequenceTheorems, TLAPS

Group == [count : Nat, ids : Seq(Nat), active : BOOLEAN, last : Nat, seq : Nat]

\* A header that is held came before the next one.
HeadersAreNumbered == \A s \in Streams : Holds(s) => buffers[s].seq <= seq

\* The line in hand is the last that came.
LineInHand ==
  /\ Len(came) <= MaxLines
  /\ pc = "add" \/ (replay /\ pc = "flush") => Len(came) > 0

\* A replay's control: it has no timer, and the instant it works at is its clock.
ReplayControl ==
  replay =>
    /\ pc # "arm"
    /\ clock <= MaxTime
    /\ pc \in {"flush", "add", "drain"} => now = clock
    /\ pc \in {"select", "drain"} => instant = clock

\* The heart of the argument: what has happened is never later than the clock nor than
\* the deadline of any group still held, and a line is added only when every group held
\* is due after it.
ReplayOrder ==
  replay =>
    /\ instant <= clock
    /\ \A s \in Streams : Holds(s) => instant <= Deadline(s)
    /\ pc = "add" => \A s \in Streams : Holds(s) => now < Deadline(s)

\* What was sent was sent by now, and in order.
SentInOrder ==
  replay =>
    /\ \A g \in DOMAIN out : out[g].at <= instant
    /\ \A g, h \in DOMAIN out : g < h => out[g].at <= out[h].at

Inv ==
  /\ TypeOK /\ HeadersAreNumbered /\ LineInHand
  /\ ReplayControl /\ ReplayOrder /\ SentInOrder

-----------------------------------------------------------------------------
\* A group sent at an instant that is not before the last one keeps out in order.
LEMMA SendKeepsOrder ==
  ASSUME NEW s \in Streams, NEW g \in Group, NEW t \in Nat, NEW i \in Nat,
         out \in Seq([stream : Streams, ids : Seq(Nat), at : Nat]),
         replay \in BOOLEAN,
         replay => \A h \in DOMAIN out : out[h].at <= i,
         ReplayIsMonotone, i <= t
  PROVE  LET sent == Sent(s, g, t)
         IN  /\ sent \in Seq([stream : Streams, ids : Seq(Nat), at : Nat])
             /\ replay => /\ \A h \in DOMAIN sent : sent[h].at <= t
                          /\ \A h, k \in DOMAIN sent : h < k => sent[h].at <= sent[k].at
<1> DEFINE e == [stream |-> s, ids |-> g.ids, at |-> IF replay THEN t ELSE 0]
           sent == Append(out, e)
<1>1. e \in [stream : Streams, ids : Seq(Nat), at : Nat]
  BY DEF Group
<1>2. /\ sent \in Seq([stream : Streams, ids : Seq(Nat), at : Nat])
      /\ Len(sent) = Len(out) + 1
      /\ \A h \in 1..Len(out) : sent[h] = out[h]
      /\ sent[Len(out) + 1] = e
  BY <1>1
<1>3. DOMAIN sent = 1..(Len(out) + 1) /\ DOMAIN out = 1..Len(out)
  BY <1>2
<1>4. \A h \in 1..Len(out) : out[h].at \in Nat
  <2>1. \A h \in 1..Len(out) : out[h] \in [stream : Streams, ids : Seq(Nat), at : Nat]
    BY ElementOfSeq
  <2> QED BY <2>1
<1>5. ASSUME replay, NEW h \in DOMAIN sent PROVE sent[h].at <= t
  BY <1>2, <1>3, <1>4, <1>5
<1>6. ASSUME replay, NEW h \in DOMAIN sent, NEW k \in DOMAIN sent, h < k
      PROVE  sent[h].at <= sent[k].at
  <2>1. h \in 1..Len(out)
    BY <1>2, <1>3, <1>6
  <2>2. CASE k \in 1..Len(out)
    BY <2>1, <2>2, <1>2, <1>3, <1>6 DEF ReplayIsMonotone
  <2>3. CASE k = Len(out) + 1
    BY <2>1, <2>3, <1>2, <1>3, <1>4, <1>6
  <2> QED BY <2>2, <2>3, <1>3
<1>7. Sent(s, g, t) = sent
  BY DEF Sent
<1> HIDE DEF sent
<1> QED BY <1>2, <1>5, <1>6, <1>7

\* The stamps of what was sent are instants.
LEMMA StampsAreInstants == TypeOK => \A h \in DOMAIN out : out[h].at \in Nat
<1> DEFINE S == [stream : Streams, ids : Seq(Nat), at : Nat]
<1> SUFFICES ASSUME out \in Seq(S) PROVE \A h \in DOMAIN out : out[h].at \in Nat
  BY DEF TypeOK
<1>1. \A h \in 1..Len(out) : out[h] \in S
  BY ElementOfSeq
<1> QED BY <1>1

LEMMA InitInv == Init => Inv
BY TimeoutAssumption, NeverAssumption, BoundAssumption
   DEF Init, Inv, TypeOK, HeadersAreNumbered, LineInHand, ReplayControl, ReplayOrder,
       SentInOrder, Holds, Deadline, NoGroup, NoLine

\* A step that only moves control, time or the timer.
LEMMA QuietSteps ==
  ASSUME Inv, \/ TimerFires \/ FlushDone \/ Arm \/ InputEnds \/ DrainDone
              \/ Tick \/ Leave \/ UNCHANGED vars
  PROVE  Inv'
<1> USE TimeoutAssumption, BoundAssumption DEF Inv, TypeOK, Holds, Deadline
<1>1. UNCHANGED <<buffers, out, came, seq, instant, replay, line>>
  BY DEF TimerFires, FlushDone, Arm, InputEnds, DrainDone, Tick, Leave, vars
<1>2. TypeOK'
  <2>1. CASE TimerFires BY <1>1, <2>1 DEF TimerFires
  <2>2. CASE FlushDone BY <1>1, <2>2 DEF FlushDone, AfterFlush
  <2>3. CASE Arm
    <3>1. timerAt' \in Nat \cup {Never}
      BY <2>3 DEF Arm
    <3> QED BY <3>1, <1>1, <2>3 DEF Arm
  <2>4. CASE InputEnds BY <1>1, <2>4 DEF InputEnds
  <2>5. CASE DrainDone BY <1>1, <2>5 DEF DrainDone
  <2>6. CASE Tick BY <1>1, <2>6 DEF Tick
  <2>7. CASE Leave BY <1>1, <2>7 DEF Leave
  <2>8. CASE UNCHANGED vars BY <2>8 DEF vars
  <2> QED BY <2>1, <2>2, <2>3, <2>4, <2>5, <2>6, <2>7, <2>8
<1>3. HeadersAreNumbered' /\ SentInOrder'
  BY <1>1 DEF HeadersAreNumbered, SentInOrder
<1>4. LineInHand'
  BY <1>1 DEF LineInHand, TimerFires, FlushDone, AfterFlush, Arm, InputEnds, DrainDone,
              Tick, Leave, vars
<1>5. ReplayControl'
  BY <1>1 DEF ReplayControl, TimerFires, FlushDone, AfterFlush, Arm, InputEnds, DrainDone,
              Tick, Leave, vars
<1>6. ReplayOrder'
  <2>1. CASE FlushDone
    <3>1. \A s \in Streams : Holds(s) => now - buffers[s].last < Timeout
      BY <2>1 DEF FlushDone, Expired
    <3> QED BY <3>1, <1>1, <2>1 DEF FlushDone, ReplayOrder
  <2>2. CASE ~ FlushDone
    BY <1>1, <2>2 DEF ReplayOrder, ReplayControl, TimerFires, Arm, InputEnds, DrainDone,
                      Tick, Leave, vars
  <2> QED BY <2>1, <2>2
<1> QED BY <1>2, <1>3, <1>4, <1>5, <1>6

\* A line is taken: a replay's clock may jump, and what is due is flushed before it is added.
LEMMA TakeSteps ==
  ASSUME Inv, NEW l \in Lines, TakeLine(l)
  PROVE  Inv'
<1> USE TimeoutAssumption, BoundAssumption
    DEF Inv, TypeOK, Holds, Deadline, TakeLine, Lines
<1>1. clock' \in Nat /\ clock' >= clock /\ (replay => clock' <= MaxTime)
  BY DEF ReplayControl
<1>2. LET c == [stream |-> l.stream, frame |-> l.kind = "frame", seen |-> clock']
      IN  /\ c \in [stream : Streams, frame : BOOLEAN, seen : Nat]
          /\ came' = Append(came, c)
  BY <1>1
<1>3. TypeOK' /\ LineInHand'
  BY <1>1, <1>2 DEF LineInHand
<1>4. HeadersAreNumbered' /\ SentInOrder' /\ ReplayControl' /\ ReplayOrder'
  BY <1>1 DEF HeadersAreNumbered, SentInOrder, ReplayControl, ReplayOrder
<1> QED BY <1>3, <1>4

\* What ReplayOrder and the state of the loop say of a release at instant t.
LEMMA NoGroupIsEmpty == NoGroup \in Group /\ NoGroup.count = 0
BY DEF NoGroup, Group

\* The next expired group has the earliest deadline of all.
LEMMA ExpiredIsEarliest ==
  ASSUME TypeOK, NEW s \in Streams, NextExpired(s), NEW r \in Streams \ {s}, Holds(r)
  PROVE  \/ Deadline(s) < Deadline(r)
         \/ Deadline(s) = Deadline(r) /\ buffers[s].seq < buffers[r].seq
<1> USE TimeoutAssumption DEF TypeOK, Deadline, NextExpired, Expired, Before
<1>1. CASE Expired(r) BY <1>1
<1>2. CASE ~ Expired(r) BY <1>2
<1> QED BY <1>1, <1>2

LEMMA FlushSteps ==
  ASSUME Inv, NEW s \in Streams, FlushOne(s)
  PROVE  Inv'
<1> DEFINE d == Deadline(s)
<1> USE DEF Inv
<1>1. d \in Nat /\ buffers[s] \in Group /\ (replay => instant <= d /\ d <= now)
  BY TimeoutAssumption
     DEF TypeOK, Group, Deadline, FlushOne, NextExpired, Expired, ReplayOrder
<1>2. /\ out' \in Seq([stream : Streams, ids : Seq(Nat), at : Nat])
      /\ replay => /\ \A h \in DOMAIN out' : out'[h].at <= d
                   /\ \A h, k \in DOMAIN out' : h < k => out'[h].at <= out'[k].at
  <2>1. CASE replay
    BY <1>1, <2>1, SendKeepsOrder DEF TypeOK, SentInOrder, ReplayIsMonotone, FlushOne
  <2>2. CASE ~replay
    BY <1>1, <2>2 DEF TypeOK, FlushOne, Sent, Group
  <2> QED BY <2>1, <2>2
<1>3. /\ buffers' = [buffers EXCEPT ![s] = NoGroup]
      /\ instant' = At(d) /\ pc = "flush"
      /\ UNCHANGED <<replay, line, pc, clock, now, timerAt, seq, came>>
  BY DEF FlushOne
<1>4. TypeOK'
  BY <1>1, <1>2, <1>3, NoGroupIsEmpty DEF TypeOK, At, Group
<1>5. \A r \in Streams : Holds(r)' => r # s /\ Holds(r) /\ buffers'[r] = buffers[r]
  BY <1>3, NoGroupIsEmpty DEF TypeOK, Holds
<1>6. HeadersAreNumbered' /\ LineInHand' /\ ReplayControl' /\ SentInOrder'
  BY <1>1, <1>2, <1>3, <1>5 DEF HeadersAreNumbered, LineInHand, ReplayControl, SentInOrder, At
<1>7. ReplayOrder'
  <2>1. ASSUME replay, NEW r \in Streams, Holds(r)' PROVE instant' <= Deadline(r)'
    <3>1. Deadline(r)' = Deadline(r)
      BY <1>5, <2>1 DEF Deadline
    <3>2. \/ Deadline(s) < Deadline(r)
          \/ Deadline(s) = Deadline(r) /\ buffers[s].seq < buffers[r].seq
      BY <1>5, <2>1, ExpiredIsEarliest DEF FlushOne
    <3> QED BY <3>1, <3>2, <1>3, <2>1, TimeoutAssumption DEF At, TypeOK, Deadline
  <2> QED BY <2>1, <1>1, <1>3 DEF ReplayOrder, ReplayControl, At
<1> QED BY <1>4, <1>6, <1>7

LEMMA DrainSteps ==
  ASSUME Inv, NEW s \in Streams, DrainOne(s)
  PROVE  Inv'
<1> USE DEF Inv
<1>1. now \in Nat /\ buffers[s] \in Group /\ (replay => instant = now /\ now = clock)
  BY DEF TypeOK, Group, DrainOne, ReplayControl
<1>2. /\ out' \in Seq([stream : Streams, ids : Seq(Nat), at : Nat])
      /\ replay => /\ \A h \in DOMAIN out' : out'[h].at <= now
                   /\ \A h, k \in DOMAIN out' : h < k => out'[h].at <= out'[k].at
  <2>1. CASE replay
    <3>1. instant \in Nat /\ instant <= now
      BY <1>1, <2>1
    <3>2. out' = Sent(s, buffers[s], now)
      BY DEF DrainOne
    <3> QED BY <1>1, <2>1, <3>1, <3>2, SendKeepsOrder DEF TypeOK, SentInOrder, ReplayIsMonotone
  <2>2. CASE ~replay
    BY <1>1, <2>2 DEF TypeOK, DrainOne, Sent, Group
  <2> QED BY <2>1, <2>2
<1>3. /\ buffers' = [buffers EXCEPT ![s] = NoGroup]
      /\ instant' = At(now) /\ pc = "drain"
      /\ UNCHANGED <<replay, line, pc, clock, now, timerAt, seq, came>>
  BY DEF DrainOne
<1>4. TypeOK'
  BY <1>1, <1>2, <1>3, NoGroupIsEmpty DEF TypeOK, At, Group
<1>5. \A r \in Streams : Holds(r)' => Holds(r) /\ buffers'[r] = buffers[r]
  BY <1>3, NoGroupIsEmpty DEF TypeOK, Holds
<1>6. HeadersAreNumbered' /\ LineInHand' /\ ReplayControl' /\ SentInOrder'
  BY <1>1, <1>2, <1>3, <1>5 DEF HeadersAreNumbered, LineInHand, ReplayControl, SentInOrder, At
<1>7. ReplayOrder'
  BY <1>1, <1>3, <1>5 DEF ReplayOrder, At, Deadline
<1> QED BY <1>4, <1>6, <1>7

\* A line in hand joins its group or opens the next: either way the group is anchored now.
LEMMA AddedGroup ==
  ASSUME Inv, pc = "add"
  PROVE  /\ Arriving.stream \in Streams
         /\ Folded \in Group /\ Opened \in Group
         /\ Folded.count > 0 /\ Folded.last = now /\ Folded.seq = buffers[Arriving.stream].seq
         /\ Opened.count = 1 /\ Opened.last = now /\ Opened.seq = seq + 1
<1> DEFINE C == [stream : Streams, frame : BOOLEAN, seen : Nat]
<1>1. Len(came) \in Nat /\ Len(came) > 0 /\ Arriving \in C
  <2>1. came \in Seq(C) /\ Len(came) > 0
    BY DEF Inv, TypeOK, LineInHand
  <2>2. \A n \in 1..Len(came) : came[n] \in C
    BY <2>1, ElementOfSeq
  <2>3. Len(came) \in 1..Len(came)
    BY <2>1
  <2> QED BY <2>1, <2>2, <2>3 DEF Arriving
<1>2. buffers[Arriving.stream] \in Group
  BY <1>1 DEF Inv, TypeOK, Group
<1>3. Append(buffers[Arriving.stream].ids, Len(came)) \in Seq(Nat) /\ <<Len(came)>> \in Seq(Nat)
  BY <1>1, <1>2 DEF Group
<1>4. now \in Nat /\ seq \in Nat
  BY DEF Inv, TypeOK
<1>5. Folded \in Group /\ Folded.count > 0 /\ Folded.last = now
      /\ Folded.seq = buffers[Arriving.stream].seq
  BY <1>2, <1>3, <1>4 DEF Folded, Group
<1>6. Opened \in Group /\ Opened.count = 1 /\ Opened.last = now /\ Opened.seq = seq + 1
  BY <1>3, <1>4 DEF Opened, Group
<1> QED BY <1>1, <1>5, <1>6

LEMMA AddSteps ==
  ASSUME Inv, Fold \/ Open
  PROVE  Inv'
<1> DEFINE s == Arriving.stream
<1> USE DEF Inv
<1>1. /\ pc = "add" /\ instant' = At(now) /\ Looped
      /\ UNCHANGED <<replay, clock, timerAt, came>>
  BY DEF Fold, Open
<1>2. /\ s \in Streams /\ buffers[s] \in Group /\ now \in Nat
      /\ replay => instant <= now /\ now = clock
  BY <1>1, AddedGroup DEF TypeOK, Group, ReplayOrder, ReplayControl
<1>3. \E g \in Group \cup {buffers[s]} : out' = out \/ out' = Sent(s, g, now)
  BY <1>1, <1>2, AddedGroup DEF Fold, Open
<1>4. /\ out' \in Seq([stream : Streams, ids : Seq(Nat), at : Nat])
      /\ replay => /\ \A h \in DOMAIN out' : out'[h].at <= now
                   /\ \A h, k \in DOMAIN out' : h < k => out'[h].at <= out'[k].at
  <2>1. CASE out' = out
    <3>1. \A h \in DOMAIN out : out[h].at \in Nat
      BY StampsAreInstants
    <3>2. ASSUME replay, NEW h \in DOMAIN out PROVE out[h].at <= now
      <4>1. instant \in Nat /\ instant <= now /\ out[h].at <= instant
        BY <1>2, <3>2 DEF SentInOrder, TypeOK
      <4> QED BY <4>1, <3>1, <1>2
    <3>3. replay => \A h, k \in DOMAIN out : h < k => out[h].at <= out[k].at
      BY DEF SentInOrder
    <3> QED BY <2>1, <3>2, <3>3 DEF TypeOK
  <2>2. CASE \E g \in Group : out' = Sent(s, g, now)
    <3>1. PICK g \in Group : out' = Sent(s, g, now)
      BY <2>2
    <3>2. CASE replay
      BY <3>1, <3>2, <1>2, SendKeepsOrder DEF TypeOK, SentInOrder, ReplayIsMonotone
    <3>3. CASE ~replay
      BY <3>1, <3>3, <1>2 DEF TypeOK, Sent, Group
    <3> QED BY <3>2, <3>3
  <2> QED BY <1>2, <1>3, <2>1, <2>2
<1>5. \E g \in Group :
        /\ buffers' = [buffers EXCEPT ![s] = g]
        /\ g.count > 0 => g.last = now /\ g.seq <= seq'
        /\ seq' \in Nat /\ seq' >= seq
  <2>1. CASE Open
    <3>1. buffers' = [buffers EXCEPT ![s] = Opened] /\ seq' = seq + 1 /\ seq \in Nat
      BY <2>1 DEF Open, TypeOK
    <3> Opened \in Group /\ Opened.last = now /\ Opened.seq = seq + 1
      BY <1>1, AddedGroup
    <3> WITNESS Opened \in Group
    <3> QED BY <3>1
  <2>2. CASE Fold /\ Full(Folded)
    <3>1. buffers' = [buffers EXCEPT ![s] = NoGroup] /\ seq' = seq /\ seq \in Nat
      BY <2>2 DEF Fold, WithoutFull, TypeOK
    <3> NoGroup \in Group /\ NoGroup.count = 0
      BY NoGroupIsEmpty
    <3> WITNESS NoGroup \in Group
    <3> QED BY <3>1
  <2>3. CASE Fold /\ ~ Full(Folded)
    <3>1. buffers' = [buffers EXCEPT ![s] = Folded] /\ seq' = seq /\ seq \in Nat
      BY <2>3 DEF Fold, TypeOK
    <3>2. buffers[s].seq <= seq
      BY <1>2, <2>3 DEF Fold, Continues, HeadersAreNumbered
    <3> Folded \in Group /\ Folded.last = now /\ Folded.seq = buffers[s].seq
      BY <1>1, AddedGroup
    <3> WITNESS Folded \in Group
    <3> QED BY <3>1, <3>2
  <2> QED BY <2>1, <2>2, <2>3
<1>6. PICK g \in Group :
        /\ buffers' = [buffers EXCEPT ![s] = g]
        /\ g.count > 0 => g.last = now /\ g.seq <= seq'
        /\ seq' \in Nat /\ seq' >= seq
  BY <1>5
<1>7. TypeOK'
  BY <1>1, <1>2, <1>4, <1>6 DEF TypeOK, At, Group, Looped, NoLine
<1>8. \A r \in Streams : Holds(r)' => \/ Holds(r) /\ buffers'[r] = buffers[r]
                                      \/ buffers'[r].last = now /\ buffers'[r].seq <= seq'
  BY <1>2, <1>6 DEF TypeOK, Holds
<1>9. HeadersAreNumbered'
  <2>1. ASSUME NEW r \in Streams, Holds(r)' PROVE buffers'[r].seq <= seq'
    <3>1. buffers[r].seq \in Nat /\ seq \in Nat
      BY DEF TypeOK
    <3> QED BY <1>6, <1>8, <2>1, <3>1 DEF HeadersAreNumbered
  <2> QED BY <2>1 DEF HeadersAreNumbered
<1>10. LineInHand' /\ ReplayControl' /\ SentInOrder'
  BY <1>1, <1>2, <1>4 DEF LineInHand, ReplayControl, SentInOrder, Looped, At
<1>11. ReplayOrder'
  <2>1. ASSUME replay, NEW r \in Streams, Holds(r)' PROVE instant' <= Deadline(r)'
    <3>1. instant' = now /\ now \in Nat /\ instant <= now /\ pc = "add"
      BY <1>1, <1>2, <2>1 DEF At
    <3>2. CASE Holds(r) /\ buffers'[r] = buffers[r]
      BY <3>1, <3>2, <2>1, TimeoutAssumption DEF Deadline, ReplayOrder, TypeOK
    <3>3. CASE buffers'[r].last = now
      BY <3>1, <3>3, TimeoutAssumption DEF Deadline
    <3> QED BY <1>8, <2>1, <3>2, <3>3
  <2> QED BY <1>1, <1>2, <2>1 DEF ReplayOrder, Looped, At
<1> QED BY <1>7, <1>9, <1>10, <1>11

LEMMA Inductive == Inv /\ [Next]_vars => Inv'
BY QuietSteps, TakeSteps, FlushSteps, DrainSteps, AddSteps DEF Next, Loop

LEMMA AlwaysInv == Spec => []Inv
<1>1. Init => Inv BY InitInv
<1>2. Inv /\ [Next]_vars => Inv' BY Inductive
<1> QED BY <1>1, <1>2, PTL DEF Spec

-----------------------------------------------------------------------------
\* Every reachable state is well typed, for every number of streams and lines.
THEOREM TypeCorrect == Spec => []TypeOK
BY AlwaysInv, PTL DEF Inv

\* A replay's coalescer stamps what it sends in order: "monotone by construction", although
\* the groups live in a map, several fall due at once, and timestamps go back.
THEOREM ReplayTimesAreOrdered == Spec => []ReplayIsMonotone
<1>1. Inv => ReplayIsMonotone
  BY DEF Inv, SentInOrder, ReplayIsMonotone
<1> QED BY <1>1, AlwaysInv, PTL

-----------------------------------------------------------------------------
\* The steps of a replay, as steps of the timer that is never late.
LEMMA FlushIsRelease ==
  ASSUME Inv, replay, NEW s \in Streams, FlushOne(s)
  PROVE  Ideal!Release(s)
<1> DEFINE d == Deadline(s)
<1>1. Holds(s) /\ pc = "flush" /\ d \in Nat /\ instant <= d
  BY TimeoutAssumption DEF FlushOne, NextExpired, Expired, Inv, TypeOK, ReplayOrder, Deadline
<1>2. \A r \in Streams \ {s} : Holds(r) =>
         \/ d < Deadline(r)
         \/ d = Deadline(r) /\ buffers[s].seq < buffers[r].seq
  BY ExpiredIsEarliest DEF FlushOne, Inv
<1>3. /\ instant' = d /\ pc' = pc
      /\ out' = Append(out, [stream |-> s, ids |-> buffers[s].ids, at |-> d])
      /\ buffers' = [buffers EXCEPT ![s] = NoGroup]
  BY DEF FlushOne, At, Sent
<1> QED BY <1>1, <1>2, <1>3
        DEF Ideal!Release, Ideal!Holds, Ideal!Due, Ideal!Released, Ideal!NoGroup, NoGroup,
            Holds, Deadline

LEMMA DrainIsDrain ==
  ASSUME Inv, replay, NEW s \in Streams, DrainOne(s)
  PROVE  Ideal!Drain(s)
<1>1. now = instant /\ pc = "drain" /\ pc' = pc
  BY DEF Inv, ReplayControl, DrainOne
<1>2. /\ instant' = instant
      /\ out' = Append(out, [stream |-> s, ids |-> buffers[s].ids, at |-> instant])
      /\ buffers' = [buffers EXCEPT ![s] = NoGroup]
  BY <1>1 DEF DrainOne, At, Sent
<1> QED BY <1>1, <1>2
        DEF DrainOne, NextHeld, Ideal!Drain, Ideal!Holds, Ideal!Released, Ideal!NoGroup,
            NoGroup, Holds

LEMMA AddIsLine ==
  ASSUME Inv, replay, Fold \/ Open
  PROVE  Ideal!Line(Arriving.stream, Len(came), now)
<1> DEFINE s == Arriving.stream
<1>1. pc = "add" /\ pc' = "select" /\ instant' = now /\ now \in Nat /\ instant <= now
  BY DEF Fold, Open, Looped, At, Inv, TypeOK, ReplayOrder, ReplayControl
<1>2. \A r \in Streams : Holds(r) => now < Deadline(r)
  BY <1>1 DEF Inv, ReplayOrder
<1>3. CASE Fold
  <2>1. \E fills \in BOOLEAN : Ideal!Join(s, Len(came), now, fills)
    <3>1. Ideal!Join(s, Len(came), now, FALSE)
      BY <1>3, <1>1
         DEF Fold, Full, Folded, Continues, WithoutFull, Sent, Holds, NoGroup,
             Ideal!Join, Ideal!Holds, Ideal!Released, Ideal!NoGroup
    <3> QED BY <3>1
  <2> QED BY <1>1, <1>2, <2>1
          DEF Ideal!Line, Ideal!Holds, Ideal!Due, Holds, Deadline
<1>4. CASE Open
  <2>1. Opened.count = 1 /\ Opened.ids = <<Len(came)>> /\ Opened.last = now
        /\ Opened.seq = seq + 1 /\ s \in Streams
    BY <1>1, AddedGroup DEF Opened
  <2>2. \A r \in Streams : Holds(r) => buffers[r].seq < seq + 1
    BY DEF Inv, HeadersAreNumbered, TypeOK
  <2>3. buffers' = [buffers EXCEPT ![s] = Opened]
        /\ out' = IF Holds(s) THEN Sent(s, buffers[s], now) ELSE out
    BY <1>4 DEF Open
  <2>4. buffers'[s] = Opened /\ buffers' = [buffers EXCEPT ![s] = buffers'[s]]
    BY <2>1, <2>3 DEF Inv, TypeOK
  <2>5. Ideal!Open(s, Len(came), now, buffers'[s])
    BY <2>1, <2>2, <2>3, <2>4
       DEF Ideal!Open, Ideal!Holds, Ideal!Released, Holds, Sent
  <2> QED BY <1>1, <1>2, <2>5
          DEF Ideal!Line, Ideal!Holds, Ideal!Due, Holds, Deadline
<1> QED BY <1>3, <1>4

LEMMA IdealInit == Init => Ideal!Init
BY DEF Init, Ideal!Init, NoGroup, Ideal!NoGroup

LEMMA IdealStep ==
  ASSUME Inv, [Next]_vars
  PROVE  [replay => Ideal!Next]_(Ideal!idealVars)
<1> SUFFICES ASSUME replay PROVE Ideal!Next \/ UNCHANGED Ideal!idealVars
  OBVIOUS
<1>1. CASE \E l \in Lines : TakeLine(l)
  BY <1>1 DEF TakeLine, Ideal!idealVars
<1>2. CASE TimerFires \/ Arm \/ Tick
  BY <1>2 DEF TimerFires, Arm, Tick, Ideal!idealVars, Inv, ReplayControl
<1>3. CASE FlushDone \/ DrainDone
  <2>1. (pc \in {"drain", "done", "left"}) <=> (pc' \in {"drain", "done", "left"})
    BY <1>3 DEF FlushDone, AfterFlush, DrainDone
  <2>2. UNCHANGED <<buffers, instant, out>>
    BY <1>3 DEF FlushDone, DrainDone
  <2> QED BY <2>1, <2>2 DEF Ideal!idealVars
<1>4. CASE InputEnds
  BY <1>4 DEF InputEnds, Ideal!Next, Ideal!End
<1>5. CASE Leave
  <2>1. pc = "drain" \/ pc \in {"select", "flush", "add"}
    BY <1>5 DEF Leave, Releasing
  <2> QED BY <1>5, <2>1 DEF Leave, Ideal!Next, Ideal!End, Ideal!idealVars
<1>6. CASE \E s \in Streams : FlushOne(s)
  BY <1>6, FlushIsRelease DEF Ideal!Next
<1>7. CASE \E s \in Streams : DrainOne(s)
  BY <1>7, DrainIsDrain DEF Ideal!Next
<1>8. CASE Fold \/ Open
  <2>1. pc = "add"
    BY <1>8 DEF Fold, Open
  <2>2. Arriving.stream \in Streams /\ Len(came) \in 1..MaxLines /\ now \in 0..MaxTime
    BY <2>1, AddedGroup, BoundAssumption DEF Inv, TypeOK, LineInHand, ReplayControl
  <2> QED BY <1>8, <2>2, AddIsLine DEF Ideal!Next
<1>9. CASE UNCHANGED vars
  BY <1>9 DEF vars, Ideal!idealVars
<1> QED BY <1>1, <1>2, <1>3, <1>4, <1>5, <1>6, <1>7, <1>8, <1>9 DEF Next, Loop

\* What a replay sends, and when, is what a timer that is never late would have sent on the
\* capture's clock (CoalesceSourceTime's doc comment, coalesce.go:308-323).
THEOREM ReplayImplementsIdeal == Spec => ReplayIsIdeal
<1>1. Init => Ideal!Init
  BY IdealInit
<1>2. Inv /\ [Next]_vars => [replay => Ideal!Next]_(Ideal!idealVars)
  BY IdealStep
<1> QED BY <1>1, <1>2, AlwaysInv, PTL DEF Spec, ReplayIsIdeal

-----------------------------------------------------------------------------
\* Where the lines are, as a matter of the groups sent (o), the groups held (b), the lines
\* that came (c) and how many of them have been through add (n).
SentGroup == [stream : Streams, ids : Seq(Nat), at : Nat]

HasLine(ids, i) == \E m \in DOMAIN ids : ids[m] = i

\* A group is lines of one stream in the order they came.
OneGroup(s, ids, c, n) ==
  /\ Len(ids) > 0
  /\ \A m \in DOMAIN ids : ids[m] \in 1..n /\ c[ids[m]].stream = s
  /\ Increasing(ids)

AllBefore(ids, later) == \A m \in DOMAIN ids, k \in DOMAIN later : ids[m] < later[k]

Placed(o, b, c, n) ==
  /\ \A g \in DOMAIN o : OneGroup(o[g].stream, o[g].ids, c, n)
  /\ \A s \in Streams :
       b[s].count = Len(b[s].ids) /\ (b[s].count > 0 => OneGroup(s, b[s].ids, c, n))
  /\ \A g, h \in DOMAIN o :
       g < h /\ o[g].stream = o[h].stream => AllBefore(o[g].ids, o[h].ids)
  /\ \A g \in DOMAIN o : AllBefore(o[g].ids, b[o[g].stream].ids)

Covered(o, b, n) ==
  \A i \in 1..n :
    \/ \E g \in DOMAIN o : HasLine(o[g].ids, i)
    \/ \E s \in Streams : HasLine(b[s].ids, i)

\* Lines i and j are in one group.
Joined(o, b, i, j) ==
  \/ \E g \in DOMAIN o : HasLine(o[g].ids, i) /\ HasLine(o[g].ids, j)
  \/ \E s \in Streams : HasLine(b[s].ids, i) /\ HasLine(b[s].ids, j)

LEMMA AppendEntries ==
  ASSUME NEW S, NEW s \in Seq(S), NEW e \in S
  PROVE  /\ DOMAIN s \subseteq DOMAIN Append(s, e)
         /\ \A i \in DOMAIN s : Append(s, e)[i] = s[i] /\ i < Len(s) + 1
         /\ Len(s) + 1 \in DOMAIN Append(s, e) /\ Append(s, e)[Len(s) + 1] = e
         /\ \A i \in DOMAIN Append(s, e) : i \in DOMAIN s \/ i = Len(s) + 1
  BY AppendProperties, LenProperties

LEMMA GroupFields ==
  ASSUME NEW g \in Group
  PROVE  g.count \in Nat /\ g.ids \in Seq(Nat) /\ Len(g.ids) \in Nat /\ DOMAIN g.ids = 1..Len(g.ids)
         /\ g.last \in Nat /\ g.seq \in Nat /\ \A m \in DOMAIN g.ids : g.ids[m] \in Nat
<1>1. g.count \in Nat /\ g.ids \in Seq(Nat) /\ g.last \in Nat /\ g.seq \in Nat
  BY DEF Group
<1>2. Len(g.ids) \in Nat /\ DOMAIN g.ids = 1..Len(g.ids)
  BY <1>1, LenProperties
<1>3. \A m \in DOMAIN g.ids : g.ids[m] \in Nat
  BY <1>1, <1>2, ElementOfSeq
<1> QED
  BY <1>1, <1>2, <1>3

\* A stream's group is released: it is the last of the groups sent, and is held no more.
Releases(o, b, c, n, s, e, o2, b2) ==
  /\ o \in Seq(SentGroup) /\ b \in [Streams -> Group] /\ n \in Nat
  /\ Placed(o, b, c, n)
  /\ s \in Streams /\ b[s].count > 0
  /\ e \in SentGroup /\ e.stream = s /\ e.ids = b[s].ids
  /\ o2 = Append(o, e)
  /\ b2 = [b EXCEPT ![s] = NoGroup]

LEMMA ReleasePlaces ==
  ASSUME NEW o, NEW b, NEW c, NEW n, NEW s, NEW e, NEW o2, NEW b2,
         Releases(o, b, c, n, s, e, o2, b2)
  PROVE  /\ o2 \in Seq(SentGroup) /\ b2 \in [Streams -> Group]
         /\ b2[s] = NoGroup
         /\ Placed(o2, b2, c, n)
         /\ Covered(o, b, n) => Covered(o2, b2, n)
         /\ \A i, j : Joined(o2, b2, i, j) <=> Joined(o, b, i, j)
         /\ DOMAIN o \subseteq DOMAIN o2 /\ (\A g \in DOMAIN o : o2[g] = o[g])
         /\ \A g \in DOMAIN o2 : g \in DOMAIN o \/ o2[g] = e
<1> DEFINE k == Len(o) + 1
<1> USE DEF Releases
<1>1. o2 \in Seq(SentGroup)
  BY AppendProperties
<1>2. /\ DOMAIN o \subseteq DOMAIN o2 /\ k \in DOMAIN o2 /\ o2[k] = e
      /\ \A g \in DOMAIN o : o2[g] = o[g] /\ g < k
      /\ \A g \in DOMAIN o2 : g \in DOMAIN o \/ g = k
      /\ DOMAIN o2 \subseteq Nat
  BY <1>1, AppendEntries, LenProperties
<1>3. b2 \in [Streams -> Group] /\ b2[s] = NoGroup /\ \A r \in Streams : r # s => b2[r] = b[r]
  BY NoGroupIsEmpty
<1>4. NoGroup.ids = <<>> /\ NoGroup.count = 0 /\ Len(<<>>) = 0 /\ DOMAIN <<>> = {}
  BY DEF NoGroup
<1> HIDE DEF k
<1>5. \A g \in DOMAIN o2 : OneGroup(o2[g].stream, o2[g].ids, c, n)
  <2> SUFFICES ASSUME NEW g \in DOMAIN o2  PROVE OneGroup(o2[g].stream, o2[g].ids, c, n)
    OBVIOUS
  <2>1. CASE g \in DOMAIN o
    BY <1>2, <2>1 DEF Placed
  <2>2. CASE g = k
    BY <1>2, <2>2 DEF Placed
  <2> QED
    BY <1>2, <2>1, <2>2
<1>6. \A r \in Streams :
        b2[r].count = Len(b2[r].ids) /\ (b2[r].count > 0 => OneGroup(r, b2[r].ids, c, n))
  BY <1>3, <1>4 DEF Placed
<1>7. ASSUME NEW g \in DOMAIN o2, NEW h \in DOMAIN o2, g < h, o2[g].stream = o2[h].stream
      PROVE  AllBefore(o2[g].ids, o2[h].ids)
  <2>1. g \in DOMAIN o
    BY <1>2, <1>7
  <2>2. CASE h \in DOMAIN o
    BY <1>2, <1>7, <2>1, <2>2 DEF Placed
  <2>3. CASE h = k
    BY <1>2, <1>7, <2>1, <2>3 DEF Placed
  <2> QED
    BY <1>2, <2>2, <2>3
<1>8. ASSUME NEW g \in DOMAIN o2
      PROVE  AllBefore(o2[g].ids, b2[o2[g].stream].ids)
  <2>1. CASE o2[g].stream = s
    BY <1>3, <1>4, <2>1 DEF AllBefore
  <2>2. CASE o2[g].stream # s
    <3>1. g \in DOMAIN o /\ o2[g] = o[g]
      BY <1>2, <2>2
    <3>2. o[g].stream \in Streams
      <4>1. o[g] \in SentGroup
        BY <3>1, ElementOfSeq, LenProperties
      <4> QED
        BY <4>1 DEF SentGroup
    <3> QED
      BY <1>3, <2>2, <3>1, <3>2 DEF Placed
  <2> QED
    BY <2>1, <2>2
<1>9. Placed(o2, b2, c, n)
  BY <1>5, <1>6, <1>7, <1>8 DEF Placed
<1>10. \A i : ~HasLine(b2[s].ids, i)
  BY <1>3, <1>4 DEF HasLine
<1>11. ASSUME NEW i, NEW j  PROVE Joined(o2, b2, i, j) <=> Joined(o, b, i, j)
  <2>1. ASSUME Joined(o, b, i, j)  PROVE Joined(o2, b2, i, j)
    <3>1. CASE \E g \in DOMAIN o : HasLine(o[g].ids, i) /\ HasLine(o[g].ids, j)
      BY <1>2, <3>1 DEF Joined
    <3>2. CASE HasLine(b[s].ids, i) /\ HasLine(b[s].ids, j)
      BY <1>2, <3>2 DEF Joined
    <3>3. CASE \E r \in Streams \ {s} : HasLine(b[r].ids, i) /\ HasLine(b[r].ids, j)
      BY <1>3, <3>3 DEF Joined
    <3> QED
      BY <2>1, <3>1, <3>2, <3>3 DEF Joined
  <2>2. ASSUME Joined(o2, b2, i, j)  PROVE Joined(o, b, i, j)
    <3>1. CASE \E g \in DOMAIN o2 : HasLine(o2[g].ids, i) /\ HasLine(o2[g].ids, j)
      <4>1. PICK g \in DOMAIN o2 : HasLine(o2[g].ids, i) /\ HasLine(o2[g].ids, j)
        BY <3>1
      <4>2. CASE g \in DOMAIN o
        BY <1>2, <4>1, <4>2 DEF Joined
      <4>3. CASE g = k
        BY <1>2, <4>1, <4>3 DEF Joined
      <4> QED
        BY <1>2, <4>2, <4>3
    <3>2. CASE \E r \in Streams : HasLine(b2[r].ids, i) /\ HasLine(b2[r].ids, j)
      BY <1>3, <1>10, <3>2 DEF Joined
    <3> QED
      BY <2>2, <3>1, <3>2 DEF Joined
  <2> QED
    BY <2>1, <2>2
<1>12. ASSUME Covered(o, b, n)  PROVE Covered(o2, b2, n)
  <2> SUFFICES ASSUME NEW i \in 1..n
               PROVE  \/ \E g \in DOMAIN o2 : HasLine(o2[g].ids, i)
                      \/ \E r \in Streams : HasLine(b2[r].ids, i)
    BY DEF Covered
  <2>1. CASE \E g \in DOMAIN o : HasLine(o[g].ids, i)
    BY <1>2, <2>1
  <2>2. CASE HasLine(b[s].ids, i)
    BY <1>2, <2>2
  <2>3. CASE \E r \in Streams \ {s} : HasLine(b[r].ids, i)
    BY <1>3, <2>3
  <2> QED
    BY <1>12, <2>1, <2>2, <2>3 DEF Covered
<1> QED
  BY <1>1, <1>2, <1>3, <1>9, <1>11, <1>12 DEF k

\* A line joins the group its stream holds, or is the first of one.
Grows(o, b, c, n, s, e, b2) ==
  /\ o \in Seq(SentGroup) /\ b \in [Streams -> Group] /\ n \in Nat
  /\ Placed(o, b, c, n)
  /\ s \in Streams /\ c[n + 1].stream = s
  /\ e \in Group /\ e.count = b[s].count + 1 /\ e.ids = Append(b[s].ids, n + 1)
  /\ b2 = [b EXCEPT ![s] = e]

LEMMA GrowPlaces ==
  ASSUME NEW o, NEW b, NEW c, NEW n, NEW s, NEW e, NEW b2, Grows(o, b, c, n, s, e, b2)
  PROVE  /\ b2 \in [Streams -> Group] /\ b2[s] = e
         /\ Placed(o, b2, c, n + 1)
         /\ Covered(o, b, n) => Covered(o, b2, n + 1)
         /\ \A i, j \in 1..n : Joined(o, b2, i, j) <=> Joined(o, b, i, j)
         /\ \A i \in 1..n : Joined(o, b2, i, n + 1) <=> HasLine(b[s].ids, i)
<1> DEFINE old == b[s].ids
<1> USE DEF Grows
<1>1. b2 \in [Streams -> Group] /\ b2[s] = e /\ \A r \in Streams : r # s => b2[r] = b[r]
  OBVIOUS
<1>2. /\ old \in Seq(Nat) /\ Len(old) \in Nat /\ DOMAIN old = 1..Len(old) /\ b[s].count \in Nat
      /\ b[s].count = Len(old)
  BY GroupFields DEF Placed
<1>3. /\ Len(e.ids) = Len(old) + 1
      /\ DOMAIN old \subseteq DOMAIN e.ids
      /\ \A m \in DOMAIN old : e.ids[m] = old[m] /\ m < Len(old) + 1
      /\ Len(old) + 1 \in DOMAIN e.ids /\ e.ids[Len(old) + 1] = n + 1
      /\ \A m \in DOMAIN e.ids : m \in DOMAIN old \/ m = Len(old) + 1
      /\ DOMAIN e.ids = 1..Len(e.ids)
  BY <1>2, AppendProperties, AppendEntries, GroupFields
<1> HIDE DEF old
<1>4. \A m \in DOMAIN old : old[m] \in 1..n /\ c[old[m]].stream = s
  <2>1. CASE b[s].count > 0
    BY <2>1 DEF Placed, OneGroup, old
  <2>2. CASE ~(b[s].count > 0)
    BY <1>2, <2>2
  <2> QED
    BY <2>1, <2>2
<1>5. Increasing(old)
  <2>1. CASE b[s].count > 0
    BY <2>1 DEF Placed, OneGroup, old
  <2>2. CASE ~(b[s].count > 0)
    BY <1>2, <2>2 DEF Increasing
  <2> QED
    BY <2>1, <2>2
<1>6. \A r, ids : OneGroup(r, ids, c, n) => OneGroup(r, ids, c, n + 1)
  <2>1. 1..n \subseteq 1..(n + 1)
    OBVIOUS
  <2> QED
    BY <2>1 DEF OneGroup
<1>7. OneGroup(s, e.ids, c, n + 1)
  <2>1. Len(e.ids) > 0
    BY <1>2, <1>3
  <2>2. \A m \in DOMAIN e.ids : e.ids[m] \in 1..(n + 1) /\ c[e.ids[m]].stream = s
    <3> SUFFICES ASSUME NEW m \in DOMAIN e.ids
                 PROVE  e.ids[m] \in 1..(n + 1) /\ c[e.ids[m]].stream = s
      OBVIOUS
    <3>1. CASE m \in DOMAIN old
      BY <1>3, <1>4, <3>1
    <3>2. CASE m = Len(old) + 1
      BY <1>3, <3>2
    <3> QED
      BY <1>3, <3>1, <3>2
  <2>3. Increasing(e.ids)
    <3> SUFFICES ASSUME NEW m \in DOMAIN e.ids, NEW k \in DOMAIN e.ids, m < k
                 PROVE  e.ids[m] < e.ids[k]
      BY DEF Increasing
    <3>1. m \in DOMAIN old
      BY <1>2, <1>3
    <3>2. CASE k \in DOMAIN old
      BY <1>3, <1>5, <3>1, <3>2 DEF Increasing
    <3>3. CASE k = Len(old) + 1
      BY <1>3, <1>4, <3>1, <3>3
    <3> QED
      BY <1>3, <3>2, <3>3
  <2> QED
    BY <2>1, <2>2, <2>3 DEF OneGroup
<1>8. \A g \in DOMAIN o : OneGroup(o[g].stream, o[g].ids, c, n + 1)
  BY <1>6 DEF Placed
<1>9. ASSUME NEW r \in Streams
      PROVE  b2[r].count = Len(b2[r].ids) /\ (b2[r].count > 0 => OneGroup(r, b2[r].ids, c, n + 1))
  <2>1. CASE r = s
    BY <1>1, <1>2, <1>3, <1>7, <2>1
  <2>2. CASE r # s
    BY <1>1, <1>6, <2>2 DEF Placed
  <2> QED
    BY <2>1, <2>2
<1>10. \A g \in DOMAIN o : \A m \in DOMAIN o[g].ids : o[g].ids[m] \in 1..n
  BY DEF Placed, OneGroup
<1>11. ASSUME NEW g \in DOMAIN o
       PROVE  AllBefore(o[g].ids, b2[o[g].stream].ids)
  <2>0. o[g].stream \in Streams
    <3>1. o[g] \in SentGroup
      BY ElementOfSeq, LenProperties
    <3> QED
      BY <3>1 DEF SentGroup
  <2>1. AllBefore(o[g].ids, b[o[g].stream].ids)
    BY DEF Placed
  <2>2. CASE o[g].stream = s
    <3> SUFFICES ASSUME NEW m \in DOMAIN o[g].ids, NEW k \in DOMAIN e.ids
                 PROVE  o[g].ids[m] < e.ids[k]
      BY <1>1, <2>2 DEF AllBefore
    <3>1. CASE k \in DOMAIN old
      BY <1>3, <2>1, <2>2, <3>1 DEF AllBefore, old
    <3>2. CASE k = Len(old) + 1
      BY <1>3, <1>10, <3>2
    <3> QED
      BY <1>3, <3>1, <3>2
  <2>3. CASE o[g].stream # s
    BY <1>1, <2>0, <2>1, <2>3
  <2> QED
    BY <2>2, <2>3
<1>12. Placed(o, b2, c, n + 1)
  BY <1>8, <1>9, <1>11 DEF Placed
<1>13. \A i : HasLine(e.ids, i) <=> HasLine(old, i) \/ i = n + 1
  BY <1>3 DEF HasLine
<1>14. \A i \in 1..n : i # n + 1
  OBVIOUS
<1>15. \A i \in 1..n, r \in Streams : HasLine(b2[r].ids, i) <=> HasLine(b[r].ids, i)
  BY <1>1, <1>13, <1>14 DEF old
<1>16. ASSUME Covered(o, b, n)  PROVE Covered(o, b2, n + 1)
  <2> SUFFICES ASSUME NEW i \in 1..(n + 1)
               PROVE  \/ \E g \in DOMAIN o : HasLine(o[g].ids, i)
                      \/ \E r \in Streams : HasLine(b2[r].ids, i)
    BY DEF Covered
  <2>1. CASE i = n + 1
    BY <1>1, <1>13, <2>1
  <2>2. CASE i # n + 1
    <3>1. i \in 1..n
      BY <2>2
    <3> QED
      BY <1>15, <1>16, <3>1 DEF Covered
  <2> QED
    BY <2>1, <2>2
<1>17. \A i, j \in 1..n : Joined(o, b2, i, j) <=> Joined(o, b, i, j)
  BY <1>15 DEF Joined
<1>18. ASSUME NEW i \in 1..n  PROVE Joined(o, b2, i, n + 1) <=> HasLine(b[s].ids, i)
  <2>1. \A g \in DOMAIN o : ~HasLine(o[g].ids, n + 1)
    BY <1>10 DEF HasLine
  <2>2. \A r \in Streams : HasLine(b2[r].ids, n + 1) => r = s
    <3> SUFFICES ASSUME NEW r \in Streams, r # s, HasLine(b[r].ids, n + 1)  PROVE FALSE
      BY <1>1
    <3>1. PICK m \in DOMAIN b[r].ids : b[r].ids[m] = n + 1
      BY DEF HasLine
    <3>2. Len(b[r].ids) \in Nat /\ DOMAIN b[r].ids = 1..Len(b[r].ids) /\ b[r].count = Len(b[r].ids)
      BY GroupFields DEF Placed
    <3>3. b[r].count > 0
      BY <3>1, <3>2
    <3> QED
      BY <3>1, <3>3 DEF Placed, OneGroup
  <2>3. HasLine(b2[s].ids, n + 1) /\ (HasLine(b2[s].ids, i) <=> HasLine(b[s].ids, i))
    BY <1>1, <1>13, <1>15
  <2> QED
    BY <2>1, <2>2, <2>3 DEF Joined
<1> QED
  BY <1>1, <1>12, <1>16, <1>17, <1>18

\* What came first tells nothing of what is placed.
LEMMA MorePlaces ==
  ASSUME NEW o, NEW b, NEW c, NEW d, NEW n \in Nat, NEW m \in Nat, m >= n,
         Placed(o, b, c, n), \A i \in 1..n : d[i] = c[i]
  PROVE  Placed(o, b, d, m)
<1>1. 1..n \subseteq 1..m
  OBVIOUS
<1>2. \A s, ids : OneGroup(s, ids, c, n) => OneGroup(s, ids, d, m)
  BY <1>1 DEF OneGroup
<1> QED
  BY <1>2 DEF Placed

-----------------------------------------------------------------------------
\* Where a trace is split, in the same terms, for a run that is a replay or not (rep).
CameLine == [stream : Streams, frame : BOOLEAN, seen : Nat]

LastOf(ids) == ids[Len(ids)]

FollowsIn(c, i, j) ==
  /\ i < j /\ c[i].stream = c[j].stream
  /\ \A k \in (i + 1)..(j - 1) : c[k].stream # c[i].stream

AtCapIn(o, i) == \E g \in DOMAIN o : HasLine(o[g].ids, i) /\ Len(o[g].ids) >= CapLines

Split(o, b, c, n, rep) ==
  \A i, j \in 1..n :
    FollowsIn(c, i, j) /\ c[j].frame =>
      /\ c[j].seen - c[i].seen < Timeout /\ ~AtCapIn(o, i) => Joined(o, b, i, j)
      /\ rep /\ c[j].seen - c[i].seen >= Timeout => ~Joined(o, b, i, j)

\* Nothing joins group g any more: it is at its cap, a later line of its stream has been
\* placed, or it has been idle for Timeout at instant t.
ClosedGroup(g, c, n, t) ==
  \/ Len(g.ids) >= CapLines
  \/ \E k \in 1..n : LastOf(g.ids) < k /\ c[k].stream = g.stream
  \/ t >= c[LastOf(g.ids)].seen + Timeout

AllClosed(o, c, n, t) == \A g \in DOMAIN o : ClosedGroup(o[g], c, n, t)

\* A group's last line is no earlier than any of its lines.
LEMMA LastIsLast ==
  ASSUME NEW n \in Nat, NEW s, NEW c, NEW ids \in Seq(Nat), OneGroup(s, ids, c, n)
  PROVE  /\ LastOf(ids) \in 1..n /\ c[LastOf(ids)].stream = s
         /\ \A i : HasLine(ids, i) => i \in 1..n /\ c[i].stream = s /\ i <= LastOf(ids)
<1>1. Len(ids) \in Nat /\ DOMAIN ids = 1..Len(ids) /\ Len(ids) > 0
  BY LenProperties DEF OneGroup
<1>2. Len(ids) \in DOMAIN ids
  BY <1>1
<1>3. LastOf(ids) \in 1..n /\ c[LastOf(ids)].stream = s
  BY <1>2 DEF LastOf, OneGroup
<1>4. ASSUME NEW m \in DOMAIN ids
      PROVE  ids[m] \in 1..n /\ c[ids[m]].stream = s /\ ids[m] <= LastOf(ids)
  <2>1. ids[m] \in 1..n /\ c[ids[m]].stream = s
    BY DEF OneGroup
  <2>2. CASE m = Len(ids)
    BY <2>1, <2>2 DEF LastOf
  <2>3. CASE m # Len(ids)
    <3>1. m < Len(ids)
      BY <1>1, <2>3
    <3>2. ids[m] < LastOf(ids)
      BY <1>2, <3>1 DEF LastOf, OneGroup, Increasing
    <3> QED
      BY <1>3, <2>1, <3>2
  <2> QED
    BY <2>2, <2>3
<1> QED
  BY <1>3, <1>4 DEF HasLine

LEMMA ReleaseSplits ==
  ASSUME NEW o, NEW b, NEW c, NEW n, NEW s, NEW e, NEW o2, NEW b2,
         Releases(o, b, c, n, s, e, o2, b2), NEW rep, Split(o, b, c, n, rep)
  PROVE  Split(o2, b2, c, n, rep)
<1>0. DOMAIN o \subseteq DOMAIN o2 /\ (\A g \in DOMAIN o : o2[g] = o[g])
  BY ReleasePlaces
<1>1. \A i, j : Joined(o2, b2, i, j) <=> Joined(o, b, i, j)
  BY ReleasePlaces
<1>2. \A i : AtCapIn(o, i) => AtCapIn(o2, i)
  BY <1>0 DEF AtCapIn
<1> QED
  BY <1>1, <1>2 DEF Split

LEMMA ReleaseCloses ==
  ASSUME NEW o \in Seq(SentGroup), NEW e \in SentGroup, NEW c, NEW n, NEW t,
         AllClosed(o, c, n, t), ClosedGroup(e, c, n, t)
  PROVE  AllClosed(Append(o, e), c, n, t)
<1>1. /\ \A g \in DOMAIN o : Append(o, e)[g] = o[g]
      /\ Append(o, e)[Len(o) + 1] = e
      /\ \A g \in DOMAIN Append(o, e) : g \in DOMAIN o \/ g = Len(o) + 1
  BY AppendEntries
<1> DEFINE o2 == Append(o, e)
<1> HIDE DEF o2
<1> SUFFICES ASSUME NEW g \in DOMAIN o2  PROVE ClosedGroup(o2[g], c, n, t)
  BY DEF AllClosed, o2
<1> QED
  BY <1>1 DEF AllClosed, o2

\* What is closed stays closed as lines come and time passes.
LEMMA StaysClosed ==
  ASSUME NEW o \in Seq(SentGroup), NEW b, NEW c, NEW d, NEW n \in Nat, NEW m \in Nat, m >= n,
         NEW t \in Nat, NEW u \in Nat, u >= t, Placed(o, b, c, n),
         \A i \in 1..n : d[i] = c[i] /\ c[i].seen \in Nat,
         AllClosed(o, c, n, t)
  PROVE  AllClosed(o, d, m, u)
<1> SUFFICES ASSUME NEW g \in DOMAIN o  PROVE ClosedGroup(o[g], d, m, u)
  BY DEF AllClosed
<1>1. o[g] \in SentGroup /\ o[g].ids \in Seq(Nat)
  <2>1. o[g] \in SentGroup
    BY ElementOfSeq, LenProperties
  <2> QED
    BY <2>1 DEF SentGroup
<1>2. OneGroup(o[g].stream, o[g].ids, c, n)
  BY DEF Placed
<1> DEFINE l == LastOf(o[g].ids)
<1>3. l \in 1..n
  BY <1>1, <1>2, LastIsLast
<1>4. ClosedGroup(o[g], c, n, t)
  BY DEF AllClosed
<1> HIDE DEF l
<1>5. CASE Len(o[g].ids) >= CapLines
  BY <1>5 DEF ClosedGroup
<1>6. CASE \E k \in 1..n : l < k /\ c[k].stream = o[g].stream
  <2>1. PICK k \in 1..n : l < k /\ c[k].stream = o[g].stream
    BY <1>6
  <2>2. k \in 1..m /\ d[k].stream = o[g].stream
    BY <2>1
  <2> QED
    BY <2>1, <2>2 DEF ClosedGroup, l
<1>7. CASE t >= c[l].seen + Timeout
  <2>1. d[l] = c[l] /\ c[l].seen \in Nat
    BY <1>3
  <2>2. u >= d[l].seen + Timeout
    BY <1>7, <2>1, TimeoutAssumption
  <2> QED
    BY <2>2 DEF ClosedGroup, l
<1> QED
  BY <1>4, <1>5, <1>6, <1>7 DEF ClosedGroup, l

\* A frame joins the line before it exactly when that line's group is still held: if it is
\* not, the group was closed.
LEMMA GrowSplits ==
  ASSUME NEW o, NEW b, NEW c \in Seq(CameLine), NEW n, NEW s, NEW e, NEW b2,
         Grows(o, b, c, n, s, e, b2), n + 1 \in DOMAIN c, NEW rep,
         Covered(o, b, n), Split(o, b, c, n, rep),
         c[n + 1].frame =>
           /\ AllClosed(o, c, n, c[n + 1].seen)
           /\ rep /\ b[s].count > 0 => c[n + 1].seen < c[LastOf(b[s].ids)].seen + Timeout
  PROVE  Split(o, b2, c, n + 1, rep)
<1> DEFINE j == n + 1
<1>0. /\ \A i, k \in 1..n : Joined(o, b2, i, k) <=> Joined(o, b, i, k)
      /\ \A i \in 1..n : Joined(o, b2, i, n + 1) <=> HasLine(b[s].ids, i)
  BY GrowPlaces
<1>1. /\ \A i, k \in 1..n : Joined(o, b2, i, k) <=> Joined(o, b, i, k)
      /\ \A i \in 1..n : Joined(o, b2, i, j) <=> HasLine(b[s].ids, i)
  BY <1>0
<1> USE DEF Grows
<1>2. \A i \in 1..j : c[i] \in CameLine /\ c[i].seen \in Nat
  <2>1. 1..j \subseteq DOMAIN c
    BY LenProperties
  <2>2. \A i \in 1..j : c[i] \in CameLine
    BY <2>1, ElementOfSeq, LenProperties
  <2> QED
    BY <2>2 DEF CameLine
<1>3. ASSUME NEW i \in 1..n, FollowsIn(c, i, j), c[j].frame
      PROVE  /\ c[j].seen - c[i].seen < Timeout /\ ~AtCapIn(o, i) => Joined(o, b2, i, j)
             /\ rep /\ c[j].seen - c[i].seen >= Timeout => ~Joined(o, b2, i, j)
  <2>1. c[i].stream = s /\ \A k \in 1..n : c[k].stream = s => ~(k > i)
    BY <1>3 DEF FollowsIn
  <2>2. c[i].seen \in Nat /\ c[j].seen \in Nat /\ Timeout \in Nat
    BY <1>2, TimeoutAssumption
  <2>3. CASE \E g \in DOMAIN o : HasLine(o[g].ids, i)
    <3>1. PICK g \in DOMAIN o : HasLine(o[g].ids, i)
      BY <2>3
    <3>2. o[g] \in SentGroup /\ o[g].ids \in Seq(Nat) /\ OneGroup(o[g].stream, o[g].ids, c, n)
      <4>1. o[g] \in SentGroup
        BY ElementOfSeq, LenProperties
      <4> QED
        BY <4>1 DEF SentGroup, Placed
    <3>3. /\ LastOf(o[g].ids) \in 1..n /\ c[LastOf(o[g].ids)].stream = o[g].stream
          /\ i <= LastOf(o[g].ids) /\ c[i].stream = o[g].stream
      BY <3>1, <3>2, LastIsLast
    <3>4. o[g].stream = s /\ LastOf(o[g].ids) = i
      BY <2>1, <3>3
    <3>5. ~HasLine(b[s].ids, i)
      <4>1. AllBefore(o[g].ids, b[s].ids)
        BY <3>4 DEF Placed
      <4> QED
        BY <3>1, <4>1 DEF AllBefore, HasLine
    <3>6. ClosedGroup(o[g], c, n, c[j].seen)
      BY <1>3 DEF AllClosed
    <3>7. ~(\E k \in 1..n : LastOf(o[g].ids) < k /\ c[k].stream = o[g].stream)
      BY <2>1, <3>4
    <3>8. AtCapIn(o, i) \/ c[j].seen >= c[i].seen + Timeout
      BY <3>1, <3>4, <3>6, <3>7 DEF ClosedGroup, AtCapIn
    <3>9. ~Joined(o, b2, i, j)
      BY <1>1, <3>5
    <3> QED
      BY <2>2, <3>8, <3>9
  <2>4. CASE \E r \in Streams : HasLine(b[r].ids, i)
    <3>1. PICK r \in Streams : HasLine(b[r].ids, i)
      BY <2>4
    <3>2. b[r].count > 0 /\ b[r].ids \in Seq(Nat)
      <4>1. /\ b[r].count = Len(b[r].ids) /\ Len(b[r].ids) \in Nat
            /\ DOMAIN b[r].ids = 1..Len(b[r].ids) /\ b[r].ids \in Seq(Nat)
        BY GroupFields DEF Placed
      <4> QED
        BY <3>1, <4>1 DEF HasLine
    <3>3. OneGroup(r, b[r].ids, c, n)
      BY <3>2 DEF Placed
    <3>4. /\ LastOf(b[r].ids) \in 1..n /\ c[LastOf(b[r].ids)].stream = r
          /\ i <= LastOf(b[r].ids) /\ c[i].stream = r
      BY <3>1, <3>2, <3>3, LastIsLast
    <3>5. r = s /\ LastOf(b[r].ids) = i
      BY <2>1, <3>4
    <3>6. Joined(o, b2, i, j)
      BY <1>1, <3>1, <3>5
    <3>7. rep => c[j].seen < c[i].seen + Timeout
      BY <1>3, <3>2, <3>5
    <3> QED
      BY <2>2, <3>6, <3>7
  <2> QED
    BY <2>3, <2>4 DEF Covered
<1>4. Split(o, b2, c, j, rep)
  <2> SUFFICES ASSUME NEW i \in 1..j, NEW k \in 1..j, FollowsIn(c, i, k), c[k].frame
               PROVE  /\ c[k].seen - c[i].seen < Timeout /\ ~AtCapIn(o, i) => Joined(o, b2, i, k)
                      /\ rep /\ c[k].seen - c[i].seen >= Timeout => ~Joined(o, b2, i, k)
    BY DEF Split
  <2>1. i \in 1..n
    BY DEF FollowsIn
  <2>2. CASE k = j
    BY <1>3, <2>1, <2>2
  <2>3. CASE k # j
    <3>1. k \in 1..n
      BY <2>3
    <3>2. Joined(o, b2, i, k) <=> Joined(o, b, i, k)
      BY <1>1, <2>1, <3>1
    <3> QED
      BY <2>1, <3>1, <3>2 DEF Split
  <2> QED
    BY <2>2, <2>3
<1> QED
  BY <1>4

\* A line that comes is not placed yet.
LEMMA MoreSplits ==
  ASSUME NEW o, NEW b, NEW c, NEW d, NEW n \in Nat, NEW rep, Split(o, b, c, n, rep),
         \A i \in 1..n : d[i] = c[i]
  PROVE  Split(o, b, d, n, rep)
<1>1. \A i, j \in 1..n : FollowsIn(d, i, j) => FollowsIn(c, i, j)
  <2> SUFFICES ASSUME NEW i \in 1..n, NEW j \in 1..n, FollowsIn(d, i, j)
               PROVE  FollowsIn(c, i, j)
    OBVIOUS
  <2>1. \A k \in (i + 1)..(j - 1) : k \in 1..n
    OBVIOUS
  <2> QED
    BY <2>1 DEF FollowsIn
<1> QED
  BY <1>1 DEF Split

-----------------------------------------------------------------------------
\* The invariant behind both, as a matter of the goroutine's state.

\* A line has been received and not been through add.
InHand == pc = "add" \/ (replay /\ pc = "flush")

\* Where the lines are.
LineInv ==
  /\ Placed(out, buffers, came, Added)
  /\ pc # "left" => Covered(out, buffers, Added)
  /\ pc = "done" => \A s \in Streams : ~ Holds(s)

\* A group is as old as its last line, and the loop works at the instant its line came.
TimeInv ==
  /\ now <= clock
  /\ \A i \in DOMAIN came : came[i].seen <= clock
  /\ InHand => now = Arriving.seen /\ (Arriving.frame <=> line = "frame")
  /\ \A s \in Streams : Holds(s) => buffers[s].last = came[LastOf(buffers[s].ids)].seen

\* The instant by which the groups sent were due: that of the line in hand, or the clock.
Horizon == IF InHand THEN Arriving.seen ELSE clock

ClosedInv ==
  pc \notin {"drain", "done", "left"} => AllClosed(out, came, Added, Horizon)

SplitInv == pc # "left" => Split(out, buffers, came, Added, replay)

KeptInv == LineInv /\ TimeInv /\ ClosedInv /\ SplitInv

LEMMA HandFacts ==
  ASSUME Inv
  PROVE  /\ came \in Seq(CameLine) /\ out \in Seq(SentGroup) /\ buffers \in [Streams -> Group]
         /\ Len(came) \in Nat /\ DOMAIN came = 1..Len(came)
         /\ \A i \in 1..Len(came) : came[i] \in CameLine /\ came[i].seen \in Nat
         /\ Added \in Nat /\ Added <= Len(came)
         /\ InHand => /\ Added + 1 = Len(came) /\ Arriving = came[Added + 1]
                      /\ Arriving \in CameLine /\ Arriving.seen \in Nat
         /\ ~InHand => Added = Len(came)
         /\ clock \in Nat /\ now \in Nat /\ Horizon \in Nat
<1>1. came \in Seq(CameLine) /\ out \in Seq(SentGroup) /\ buffers \in [Streams -> Group]
  BY DEF Inv, TypeOK, CameLine, SentGroup, Group
<1>2. Len(came) \in Nat /\ DOMAIN came = 1..Len(came)
  BY <1>1, LenProperties
<1>3. \A i \in 1..Len(came) : came[i] \in CameLine /\ came[i].seen \in Nat
  <2>1. \A i \in 1..Len(came) : came[i] \in CameLine
    BY <1>1, ElementOfSeq
  <2> QED
    BY <2>1 DEF CameLine
<1>4. clock \in Nat /\ now \in Nat
  BY DEF Inv, TypeOK
<1>5. InHand => Len(came) > 0
  BY DEF InHand, Inv, LineInHand
<1>6. (InHand => Added = Len(came) - 1) /\ (~InHand => Added = Len(came))
  BY DEF Added, InHand
<1>7. Added \in Nat /\ Added <= Len(came) /\ (~InHand => Added = Len(came))
  <2>1. CASE InHand
    BY <1>2, <1>5, <1>6, <2>1
  <2>2. CASE ~InHand
    BY <1>2, <1>6, <2>2
  <2> QED
    BY <2>1, <2>2
<1>8. InHand => Added + 1 = Len(came) /\ Len(came) \in 1..Len(came)
  BY <1>2, <1>5, <1>6
<1>9. InHand => /\ Arriving = came[Added + 1]
                /\ Arriving \in CameLine /\ Arriving.seen \in Nat
  BY <1>3, <1>8 DEF Arriving
<1>10. Horizon \in Nat
  BY <1>4, <1>9 DEF Horizon
<1> QED
  BY <1>1, <1>2, <1>3, <1>4, <1>7, <1>8, <1>9, <1>10

LEMMA InitKept == Init => KeptInv
<1> SUFFICES ASSUME Init  PROVE KeptInv
  OBVIOUS
<1>1. /\ out = <<>> /\ came = <<>> /\ pc = "select" /\ now = 0 /\ clock = 0
      /\ \A s \in Streams : buffers[s] = NoGroup
  BY DEF Init
<1>2. /\ NoGroup.count = 0 /\ NoGroup.ids = <<>> /\ Len(<<>>) = 0 /\ DOMAIN <<>> = {}
      /\ \A s \in Streams : ~Holds(s)
  BY <1>1 DEF NoGroup, Holds
<1>3. ~InHand /\ Added = 0
  BY <1>1, <1>2 DEF InHand, Added
<1>4. LineInv
  BY <1>1, <1>2, <1>3 DEF LineInv, Placed, Covered, AllBefore
<1>5. TimeInv
  BY <1>1, <1>2, <1>3 DEF TimeInv
<1>6. ClosedInv /\ SplitInv
  BY <1>1, <1>2, <1>3 DEF ClosedInv, SplitInv, AllClosed, Split
<1> QED
  BY <1>4, <1>5, <1>6 DEF KeptInv

\* A step that moves no line: control, time or the timer, or ctx cancelled with a line in
\* hand, which is then nowhere.
LEMMA StillKept ==
  ASSUME Inv, Inv', KeptInv, UNCHANGED <<out, buffers, came, replay, line>>,
         clock' >= clock, now' <= clock', Added' \in Nat, Added' >= Added,
         InHand' => InHand /\ now' = now,
         pc' # "left" => pc # "left" /\ Added' = Added /\ (InHand' <=> InHand),
         pc' \notin {"drain", "done", "left"} => pc \notin {"drain", "done", "left"},
         pc' = "done" => \A s \in Streams : ~ Holds(s)
  PROVE  KeptInv'
<1>1. /\ Added \in Nat /\ Added <= Len(came) /\ clock \in Nat /\ clock' \in Nat
      /\ Horizon \in Nat /\ now \in Nat /\ now' \in Nat
      /\ Len(came) \in Nat /\ DOMAIN came = 1..Len(came) /\ out \in Seq(SentGroup)
      /\ \A i \in 1..Len(came) : came[i] \in CameLine /\ came[i].seen \in Nat
      /\ InHand => Arriving.seen \in Nat
  BY HandFacts DEF Inv, TypeOK
<1>2. Arriving' = Arriving /\ \A s \in Streams : Holds(s)' <=> Holds(s)
  BY DEF Arriving, Holds
<1>2a. Horizon' \in Nat
  BY <1>1, <1>2 DEF Horizon
<1>3. LineInv'
  <2>1. Placed(out, buffers, came, Added')
    BY <1>1, MorePlaces DEF KeptInv, LineInv
  <2>2. pc' # "left" => Covered(out, buffers, Added')
    BY DEF KeptInv, LineInv
  <2> QED
    BY <1>2, <2>1, <2>2 DEF LineInv
<1>4. TimeInv'
  <2>1. \A i \in DOMAIN came : came[i].seen <= clock'
    <3> SUFFICES ASSUME NEW i \in DOMAIN came  PROVE came[i].seen <= clock'
      OBVIOUS
    <3>1. came[i].seen \in Nat /\ came[i].seen <= clock
      BY <1>1 DEF KeptInv, TimeInv
    <3> QED
      BY <1>1, <3>1
  <2>2. InHand' => now' = Arriving'.seen /\ (Arriving'.frame <=> line' = "frame")
    BY <1>2 DEF KeptInv, TimeInv
  <2>3. \A s \in Streams : Holds(s)' => buffers[s].last = came[LastOf(buffers[s].ids)].seen
    BY <1>2 DEF KeptInv, TimeInv
  <2> QED
    BY <2>1, <2>2, <2>3 DEF TimeInv
<1>5. ClosedInv'
  <2> SUFFICES ASSUME pc' \notin {"drain", "done", "left"}
               PROVE  AllClosed(out, came, Added', Horizon')
    BY DEF ClosedInv
  <2>1. AllClosed(out, came, Added, Horizon) /\ Added' = Added
    BY DEF KeptInv, ClosedInv
  <2>2. Horizon' >= Horizon
    BY <1>1, <1>2 DEF Horizon
  <2>3. Placed(out, buffers, came, Added)
    BY DEF KeptInv, LineInv
  <2>4. \A i \in 1..Added : came[i] = came[i] /\ came[i].seen \in Nat
    BY <1>1
  <2> QED
    BY <1>2a, <1>1, <2>1, <2>2, <2>3, <2>4, StaysClosed
<1>6. SplitInv'
  BY DEF KeptInv, SplitInv
<1> QED
  BY <1>3, <1>4, <1>5, <1>6 DEF KeptInv

LEMMA QuietKept ==
  ASSUME Inv, Inv', KeptInv,
         \/ TimerFires \/ FlushDone \/ Arm \/ InputEnds \/ DrainDone
         \/ Tick \/ Leave \/ UNCHANGED vars
  PROVE  KeptInv'
<1>1. now \in Nat /\ clock \in Nat /\ now <= clock /\ Len(came) \in Nat
  BY HandFacts DEF KeptInv, TimeInv
<1>2. CASE UNCHANGED vars
  BY <1>2 DEF vars, KeptInv, LineInv, TimeInv, ClosedInv, SplitInv, Added, InHand, Arriving,
              Horizon, Holds
<1>3. CASE Leave
  <2>1. /\ UNCHANGED <<out, buffers, came, replay, line, clock, now>> /\ pc' = "left"
    BY <1>3 DEF Leave
  <2>2. ~InHand' /\ Added' \in Nat /\ Added' >= Added
    BY <1>1, <2>1 DEF InHand, Added
  <2> QED
    BY <1>1, <2>1, <2>2, StillKept
<1>4. CASE TimerFires \/ FlushDone \/ Arm \/ InputEnds \/ DrainDone \/ Tick
  <2>1. /\ UNCHANGED <<out, buffers, came, replay, line>> /\ pc # "left" /\ pc' # "left"
        /\ (InHand' <=> InHand)
    BY <1>4 DEF TimerFires, FlushDone, AfterFlush, Arm, InputEnds, DrainDone, Tick, InHand
  <2>2. Added' = Added
    BY <2>1 DEF Added, InHand
  <2>3. clock' >= clock /\ now' <= clock'
    BY <1>1, <1>4 DEF TimerFires, FlushDone, Arm, InputEnds, DrainDone, Tick
  <2>4. InHand' => now' = now
    BY <1>4 DEF TimerFires, FlushDone, AfterFlush, Arm, InputEnds, DrainDone, Tick, InHand
  <2>5. pc' \notin {"drain", "done", "left"} => pc \notin {"drain", "done", "left"}
    BY <1>4 DEF TimerFires, FlushDone, AfterFlush, Arm, InputEnds, DrainDone, Tick
  <2>6. pc' = "done" => \A s \in Streams : ~ Holds(s)
    BY <1>4 DEF TimerFires, FlushDone, AfterFlush, Arm, InputEnds, DrainDone, Tick
  <2>7. Added' \in Nat /\ Added' >= Added
    BY <2>2, HandFacts
  <2> QED
    BY <2>1, <2>2, <2>3, <2>4, <2>5, <2>6, <2>7, StillKept
<1> QED
  BY <1>2, <1>3, <1>4

\* A line comes: it is in hand, and what is sent and held is what it was.
LEMMA TakeKept ==
  ASSUME Inv, Inv', KeptInv, NEW l \in Lines, TakeLine(l)
  PROVE  KeptInv'
<1> DEFINE e == [stream |-> l.stream, frame |-> l.kind = "frame", seen |-> clock']
<1>1. /\ Added \in Nat /\ Len(came) \in Nat /\ DOMAIN came = 1..Len(came)
      /\ clock \in Nat /\ now \in Nat /\ came \in Seq(CameLine) /\ out \in Seq(SentGroup)
      /\ \A i \in 1..Len(came) : came[i] \in CameLine /\ came[i].seen \in Nat
      /\ buffers \in [Streams -> Group]
  BY HandFacts
<1>2. /\ pc = "select" /\ UNCHANGED <<replay, buffers, out>>
      /\ clock' \in Nat /\ clock' >= clock /\ now' = clock' /\ line' = l.kind
      /\ came' = Append(came, e)
      /\ pc' = IF replay THEN "flush" ELSE "add"
  BY <1>1 DEF TakeLine, Lines
<1>3. ~InHand /\ InHand' /\ Added = Len(came)
  BY <1>2 DEF InHand, Added
<1>4. e \in CameLine
  BY <1>2 DEF CameLine, Lines
<1>5. /\ Len(came') = Len(came) + 1
      /\ \A i \in 1..Len(came) : came'[i] = came[i]
      /\ came'[Len(came) + 1] = e
      /\ DOMAIN came' = 1..(Len(came) + 1)
  BY <1>1, <1>2, <1>4, AppendProperties, LenProperties
<1>6. Added' = Added /\ Arriving' = e
  <2>1. Added' = Len(came') - 1
    BY <1>3 DEF Added, InHand
  <2> QED
    BY <1>1, <1>3, <1>5, <2>1 DEF Arriving
<1>7. \A s \in Streams : Holds(s)' <=> Holds(s)
  BY <1>2 DEF Holds
<1>8. Horizon = clock /\ Horizon' = clock'
  BY <1>3, <1>6 DEF Horizon
<1> HIDE DEF e
<1>9. LineInv'
  <2>1. Placed(out, buffers, came', Added)
    <3>1. Placed(out, buffers, came, Added) /\ Added >= Added
      BY <1>1 DEF KeptInv, LineInv
    <3>2. \A i \in 1..Added : came'[i] = came[i]
      BY <1>3, <1>5
    <3> QED
      BY <1>1, <3>1, <3>2, MorePlaces
  <2>2. Covered(out, buffers, Added)
    BY <1>2 DEF KeptInv, LineInv
  <2> QED
    BY <1>2, <1>6, <2>1, <2>2 DEF LineInv
<1>10. TimeInv'
  <2>1. \A i \in DOMAIN came' : came'[i].seen <= clock'
    <3> SUFFICES ASSUME NEW i \in DOMAIN came'  PROVE came'[i].seen <= clock'
      OBVIOUS
    <3>1. CASE i = Len(came) + 1
      BY <1>2, <1>5, <3>1 DEF e
    <3>2. CASE i # Len(came) + 1
      <4>1. i \in 1..Len(came)
        BY <1>1, <1>5, <3>2
      <4>2. came[i].seen \in Nat /\ came[i].seen <= clock
        BY <1>1, <4>1 DEF KeptInv, TimeInv
      <4> QED
        BY <1>1, <1>2, <1>5, <4>1, <4>2
    <3> QED
      BY <3>1, <3>2
  <2>2. now' = Arriving'.seen /\ (Arriving'.frame <=> line' = "frame")
    BY <1>2, <1>6 DEF e
  <2>3. ASSUME NEW s \in Streams, Holds(s)
        PROVE  buffers[s].last = came'[LastOf(buffers[s].ids)].seen
    <3>1. OneGroup(s, buffers[s].ids, came, Added) /\ buffers[s].ids \in Seq(Nat)
      BY <1>1, <2>3, GroupFields DEF KeptInv, LineInv, Placed, Holds
    <3>2. LastOf(buffers[s].ids) \in 1..Added
      BY <1>1, <3>1, LastIsLast
    <3> QED
      BY <1>3, <1>5, <2>3, <3>2 DEF KeptInv, TimeInv
  <2>4. now' <= clock'
    BY <1>2
  <2>5. \A s \in Streams : Holds(s)' => buffers'[s].last = came'[LastOf(buffers'[s].ids)].seen
    BY <1>2, <1>7, <2>3
  <2> QED
    BY <2>1, <2>2, <2>4, <2>5 DEF TimeInv
<1>11. ClosedInv'
  <2>1. AllClosed(out, came, Added, Horizon)
    BY <1>2 DEF KeptInv, ClosedInv
  <2>2. Placed(out, buffers, came, Added)
    BY DEF KeptInv, LineInv
  <2>3. \A i \in 1..Added : came'[i] = came[i] /\ came[i].seen \in Nat
    BY <1>1, <1>3, <1>5
  <2>4. AllClosed(out, came', Added, Horizon')
    <3>1. Added >= Added /\ Horizon \in Nat /\ Horizon' \in Nat /\ Horizon' >= Horizon
      BY <1>1, <1>2, <1>8
    <3> QED
      BY <1>1, <2>1, <2>2, <2>3, <3>1, StaysClosed
  <2> QED
    BY <1>2, <1>6, <2>4 DEF ClosedInv
<1>12. SplitInv'
  <2>1. Split(out, buffers, came, Added, replay)
    BY <1>2 DEF KeptInv, SplitInv
  <2>2. Split(out, buffers, came', Added, replay)
    BY <1>1, <1>3, <1>5, <2>1, MoreSplits
  <2> QED
    BY <1>2, <1>6, <2>2 DEF SplitInv
<1> QED
  BY <1>9, <1>10, <1>11, <1>12 DEF KeptInv

\* A group is released, by its deadline or at the end of the input.
LEMMA ReleaseKept ==
  ASSUME Inv, Inv', KeptInv, NEW s \in Streams, FlushOne(s) \/ DrainOne(s)
  PROVE  KeptInv'
<1>1. PICK at \in Nat : out' = Sent(s, buffers[s], at)
  <2>1. Deadline(s) \in Nat /\ now \in Nat
    <3>1. TypeOK
      BY DEF Inv
    <3>2. buffers[s].last \in Nat /\ now \in Nat /\ Timeout \in Nat
      BY <3>1, TimeoutAssumption DEF TypeOK
    <3> QED
      BY <3>2 DEF Deadline
  <2>2. CASE FlushOne(s)
    <3>1. out' = Sent(s, buffers[s], Deadline(s))
      BY <2>2 DEF FlushOne
    <3> QED
      BY <2>1, <3>1
  <2>3. CASE DrainOne(s)
    <3>1. out' = Sent(s, buffers[s], now)
      BY <2>3 DEF DrainOne
    <3> QED
      BY <2>1, <3>1
  <2> QED
    BY <2>2, <2>3
<1> DEFINE e == [stream |-> s, ids |-> buffers[s].ids, at |-> IF replay THEN at ELSE 0]
<1>2. /\ Added \in Nat /\ Len(came) \in Nat /\ DOMAIN came = 1..Len(came)
      /\ clock \in Nat /\ now \in Nat /\ out \in Seq(SentGroup)
      /\ \A i \in 1..Len(came) : came[i] \in CameLine /\ came[i].seen \in Nat
      /\ buffers \in [Streams -> Group] /\ Added <= Len(came)
  BY HandFacts
<1>3. /\ UNCHANGED <<replay, line, pc, clock, now, came>>
      /\ buffers' = [buffers EXCEPT ![s] = NoGroup]
      /\ Holds(s) /\ pc \in {"flush", "drain"}
  BY DEF FlushOne, DrainOne, NextExpired, Expired, NextHeld
<1>4. Added' = Added /\ (InHand' <=> InHand) /\ Arriving' = Arriving /\ Horizon' = Horizon
  BY <1>3 DEF Added, InHand, Arriving, Horizon
<1>5. e \in SentGroup /\ e.stream = s /\ e.ids = buffers[s].ids /\ out' = Append(out, e)
  <2>1. buffers[s].ids \in Seq(Nat)
    BY <1>2, GroupFields
  <2> QED
    BY <1>1, <2>1 DEF SentGroup, Sent
<1> HIDE DEF e
<1>6. Releases(out, buffers, came, Added, s, e, out', buffers')
  BY <1>2, <1>3, <1>5 DEF Releases, KeptInv, LineInv, Holds
<1>7. LineInv'
  <2>1. Placed(out', buffers', came, Added)
    BY <1>6, ReleasePlaces
  <2>2. Covered(out', buffers', Added)
    BY <1>3, <1>6, ReleasePlaces DEF KeptInv, LineInv
  <2> QED
    BY <1>3, <1>4, <2>1, <2>2 DEF LineInv
<1>8. \A r \in Streams : Holds(r)' => Holds(r) /\ buffers'[r] = buffers[r]
  BY <1>2, <1>3, NoGroupIsEmpty DEF Holds
<1>9. TimeInv'
  BY <1>3, <1>4, <1>8 DEF KeptInv, TimeInv
<1>10. ClosedInv'
  <2> SUFFICES ASSUME pc = "flush"  PROVE AllClosed(out', came, Added, Horizon)
    BY <1>3, <1>4 DEF ClosedInv
  <2>1. AllClosed(out, came, Added, Horizon)
    BY DEF KeptInv, ClosedInv
  <2>2. OneGroup(s, buffers[s].ids, came, Added) /\ buffers[s].ids \in Seq(Nat)
    BY <1>2, <1>3, GroupFields DEF KeptInv, LineInv, Placed, Holds
  <2>3. LastOf(buffers[s].ids) \in 1..Added
    BY <1>2, <2>2, LastIsLast
  <2>4. came[LastOf(buffers[s].ids)].seen \in Nat
    BY <1>2, <2>3
  <2>5. now - buffers[s].last >= Timeout
    BY DEF FlushOne, DrainOne, NextExpired, Expired
  <2>6. buffers[s].last = came[LastOf(buffers[s].ids)].seen
    BY <1>3 DEF KeptInv, TimeInv
  <2>7. Horizon \in Nat /\ Horizon >= now
    <3>1. Horizon \in Nat
      BY HandFacts
    <3>2. CASE InHand
      BY <1>2, <3>1, <3>2 DEF KeptInv, TimeInv, Horizon
    <3>3. CASE ~InHand
      BY <1>2, <3>1, <3>3 DEF KeptInv, TimeInv, Horizon
    <3> QED
      BY <3>2, <3>3
  <2>8. Horizon >= came[LastOf(e.ids)].seen + Timeout
    BY <1>2, <1>5, <2>4, <2>5, <2>6, <2>7, TimeoutAssumption
  <2>9. ClosedGroup(e, came, Added, Horizon)
    BY <2>8 DEF ClosedGroup
  <2> QED
    BY <1>2, <1>5, <2>1, <2>9, ReleaseCloses
<1>11. SplitInv'
  <2>1. Split(out, buffers, came, Added, replay)
    BY <1>3 DEF KeptInv, SplitInv
  <2>2. Split(out', buffers', came, Added, replay)
    BY <1>6, <2>1, ReleaseSplits
  <2> QED
    BY <1>3, <1>4, <2>2 DEF SplitInv
<1> QED
  BY <1>7, <1>9, <1>10, <1>11 DEF KeptInv

\* A line goes through add: its group is released at the cap, or the one before it is.
LEMMA AddKept ==
  ASSUME Inv, Inv', KeptInv, Fold \/ Open
  PROVE  KeptInv'
<1> DEFINE s == Arriving.stream
           n == Added
           At2 == Arriving.seen
<1>1. /\ n \in Nat /\ Len(came) \in Nat /\ DOMAIN came = 1..Len(came)
      /\ clock \in Nat /\ now \in Nat /\ came \in Seq(CameLine) /\ out \in Seq(SentGroup)
      /\ \A i \in 1..Len(came) : came[i] \in CameLine /\ came[i].seen \in Nat
      /\ buffers \in [Streams -> Group]
  BY HandFacts
<1>2. /\ pc = "add" /\ Looped /\ UNCHANGED <<replay, clock, came>> /\ InHand
  BY DEF Fold, Open, InHand
<1>3. /\ n + 1 = Len(came) /\ n + 1 \in DOMAIN came /\ Arriving = came[n + 1]
      /\ At2 \in Nat /\ At2 = now /\ At2 <= clock
      /\ came[n + 1].stream = s /\ came[n + 1].seen = At2
      /\ (came[n + 1].frame => line = "frame")
  <2>1. n + 1 = Len(came) /\ Arriving = came[n + 1] /\ At2 \in Nat
    BY <1>2, HandFacts
  <2>2. At2 = now /\ (Arriving.frame => line = "frame")
    BY <1>2 DEF KeptInv, TimeInv
  <2>3. n + 1 \in DOMAIN came
    BY <1>1, <2>1
  <2> QED
    BY <2>1, <2>2, <2>3 DEF KeptInv, TimeInv
<1>4. /\ s \in Streams /\ Folded \in Group /\ Opened \in Group
      /\ Folded.last = now /\ Opened.last = now
      /\ Folded.count = buffers[s].count + 1 /\ Folded.ids = Append(buffers[s].ids, n + 1)
      /\ Opened.count = 1 /\ Opened.ids = <<n + 1>>
  BY <1>2, <1>3, AddedGroup DEF Folded, Opened
<1>5. ~InHand' /\ Added' = n + 1 /\ Horizon' = clock
  <2>1. ~InHand'
    BY <1>2 DEF Looped, InHand
  <2>2. Added' = Len(came)
    BY <1>2, <2>1 DEF Added, InHand
  <2> QED
    BY <1>2, <1>3, <2>1, <2>2 DEF Horizon
<1>6. pc' # "left" /\ pc' # "done" /\ now' <= clock'
  BY <1>1, <1>2, <1>3 DEF Looped
<1>7. /\ Placed(out, buffers, came, n) /\ Covered(out, buffers, n)
      /\ Split(out, buffers, came, n, replay) /\ AllClosed(out, came, n, At2)
  BY <1>2 DEF KeptInv, LineInv, SplitInv, ClosedInv, Horizon
<1>8. AllClosed(out, came, n + 1, clock)
  <2>1. n + 1 \in Nat /\ n + 1 >= n /\ \A i \in 1..n : came[i] = came[i] /\ came[i].seen \in Nat
    BY <1>1, <1>3
  <2> QED
    BY <1>1, <1>3, <1>7, <2>1, StaysClosed
<1> HIDE DEF s, n, At2
<1>9. \A r \in Streams : buffers[r].count > 0 =>
        buffers[r].last = came[LastOf(buffers[r].ids)].seen
  BY DEF KeptInv, TimeInv, Holds
\* It is enough to say where the groups are.
<1>10. ASSUME Placed(out', buffers', came, n + 1), Covered(out', buffers', n + 1),
              Split(out', buffers', came, n + 1, replay), AllClosed(out', came, n + 1, clock),
              \A r \in Streams : buffers'[r].count > 0 =>
                buffers'[r].last = came[LastOf(buffers'[r].ids)].seen
       PROVE  KeptInv'
  <2>1. LineInv'
    BY <1>2, <1>5, <1>6, <1>10 DEF LineInv
  <2>2. TimeInv'
    BY <1>2, <1>5, <1>6, <1>10 DEF TimeInv, KeptInv, Holds
  <2>3. ClosedInv' /\ SplitInv'
    BY <1>2, <1>5, <1>10 DEF ClosedInv, SplitInv
  <2> QED
    BY <2>1, <2>2, <2>3 DEF KeptInv
<1>11. CASE Fold
  <2> DEFINE b == [buffers EXCEPT ![s] = Folded]
  <2>1. Continues(s, line)
    BY <1>11 DEF Fold, s
  <2>2. Grows(out, buffers, came, n, s, Folded, b)
    BY <1>1, <1>3, <1>4, <1>7 DEF Grows
  <2>3. Placed(out, b, came, n + 1) /\ Covered(out, b, n + 1) /\ b \in [Streams -> Group]
    BY <1>7, <2>2, GrowPlaces
  <2>4. replay => At2 < came[LastOf(buffers[s].ids)].seen + Timeout
    BY <1>2, <1>3, <1>4, <1>9, <2>1 DEF Inv, ReplayOrder, Deadline, Continues, Holds
  <2>5. Split(out, b, came, n + 1, replay)
    BY <1>1, <1>3, <1>7, <2>2, <2>4, GrowSplits
  <2>6. LastOf(Folded.ids) = n + 1
    <3>1. buffers[s].ids \in Seq(Nat) /\ n + 1 \in Nat
      BY <1>1, <1>4, GroupFields
    <3> QED
      BY <1>4, <3>1, AppendProperties DEF LastOf
  <2>7. \A r \in Streams : b[r].count > 0 => b[r].last = came[LastOf(b[r].ids)].seen
    BY <1>1, <1>3, <1>4, <1>9, <2>6
  <2>8. b[s] = Folded /\ b[s].count > 0
    BY <1>1, <1>4, GroupFields
  <2>9. CASE ~Full(Folded)
    <3>1. out' = out /\ buffers' = b
      BY <1>11, <2>9 DEF Fold, s
    <3> QED
      BY <1>8, <1>10, <2>3, <2>5, <2>7, <3>1
  <2>10. CASE Full(Folded)
    <3> DEFINE e == [stream |-> s, ids |-> Folded.ids, at |-> IF replay THEN now ELSE 0]
    <3>1. out' = Append(out, e) /\ buffers' = [buffers EXCEPT ![s] = NoGroup]
      BY <1>11, <2>10 DEF Fold, Sent, WithoutFull, s
    <3>2. buffers' = [b EXCEPT ![s] = NoGroup]
      BY <1>1, <3>1
    <3>3. e \in SentGroup /\ e.stream = s /\ e.ids = b[s].ids
      <4>1. Folded.ids \in Seq(Nat) /\ (IF replay THEN now ELSE 0) \in Nat
        BY <1>1, <1>4, GroupFields
      <4> HIDE DEF b
      <4> QED
        BY <1>4, <2>8, <4>1 DEF SentGroup
    <3>4. Len(e.ids) >= CapLines
      <4> HIDE DEF e, b
      <4>1. b[s].count = Len(b[s].ids)
        BY <1>4, <2>3 DEF Placed
      <4> QED
        BY <2>8, <2>10, <3>3, <4>1 DEF Full
    <3> HIDE DEF e, b
    <3>5. Releases(out, b, came, n + 1, s, e, out', buffers')
      <4>1. n + 1 \in Nat /\ out' = Append(out, e)
        BY <1>1, <3>1
      <4>2. out \in Seq(SentGroup) /\ s \in Streams
        BY <1>1, <1>4
      <4>3. b[s].count > 0
        BY <2>8
      <4> QED
        BY <2>3, <3>2, <3>3, <4>1, <4>2, <4>3 DEF Releases
    <3>6. Placed(out', buffers', came, n + 1) /\ Covered(out', buffers', n + 1)
      BY <2>3, <3>5, ReleasePlaces
    <3>7. Split(out', buffers', came, n + 1, replay)
      BY <2>5, <3>5, ReleaseSplits
    <3>8. AllClosed(out', came, n + 1, clock)
      <4>1. ClosedGroup(e, came, n + 1, clock)
        BY <3>4 DEF ClosedGroup
      <4> QED
        BY <1>1, <1>8, <3>1, <3>3, <4>1, ReleaseCloses
    <3>9. \A r \in Streams : buffers'[r].count > 0 =>
            buffers'[r].last = came[LastOf(buffers'[r].ids)].seen
      BY <2>3, <2>7, <3>2, NoGroupIsEmpty
    <3> QED
      BY <1>10, <3>6, <3>7, <3>8, <3>9
  <2> QED
    BY <2>9, <2>10
<1>12. CASE Open
  \* What is sent and held when the header before it, if there was one, has been released.
  <2>1. \E b \in [Streams -> Group] :
          /\ out' \in Seq(SentGroup)
          /\ Placed(out', b, came, n) /\ Covered(out', b, n)
          /\ Split(out', b, came, n, replay) /\ AllClosed(out', came, n + 1, clock)
          /\ Arriving.frame => AllClosed(out', came, n, At2)
          /\ b[s].count = 0 /\ b[s].ids = <<>>
          /\ buffers' = [b EXCEPT ![s] = Opened]
          /\ \A r \in Streams : b[r].count > 0 => b[r].last = came[LastOf(b[r].ids)].seen
    <3>1. CASE ~Holds(s)
      <4>1. out' = out /\ buffers' = [buffers EXCEPT ![s] = Opened]
        BY <1>12, <3>1 DEF Open, s
      <4>2. buffers[s].count = 0 /\ buffers[s].ids = <<>>
        BY <1>1, <1>4, <1>7, <3>1, GroupFields DEF Placed, Holds
      <4> QED
        BY <1>1, <1>7, <1>8, <1>9, <4>1, <4>2
    <3>2. CASE Holds(s)
      <4> DEFINE e == [stream |-> s, ids |-> buffers[s].ids, at |-> IF replay THEN now ELSE 0]
                 b == [buffers EXCEPT ![s] = NoGroup]
      <4>1. out' = Append(out, e) /\ buffers' = [buffers EXCEPT ![s] = Opened]
        BY <1>12, <3>2 DEF Open, Sent, s
      <4>2. buffers' = [b EXCEPT ![s] = Opened]
        BY <1>1, <4>1
      <4>3. e \in SentGroup /\ e.stream = s /\ e.ids = buffers[s].ids
        BY <1>1, <1>4, GroupFields DEF SentGroup
      <4>4. NoGroup \in Group /\ NoGroup.count = 0 /\ NoGroup.ids = <<>>
        BY NoGroupIsEmpty DEF NoGroup
      <4>5. b[s] = NoGroup /\ \A r \in Streams : r # s => b[r] = buffers[r]
        BY <1>1, <1>4
      <4> HIDE DEF e
      <4>6. Releases(out, buffers, came, n, s, e, out', b)
        BY <1>1, <1>4, <1>7, <3>2, <4>1, <4>3 DEF Releases, Holds
      <4> HIDE DEF b
      <4>7. /\ out' \in Seq(SentGroup) /\ b \in [Streams -> Group]
            /\ Placed(out', b, came, n) /\ Covered(out', b, n)
        BY <1>7, <4>6, ReleasePlaces
      <4>8. Split(out', b, came, n, replay)
        BY <1>7, <4>6, ReleaseSplits
      <4>9. ~Arriving.frame
        BY <1>3, <1>12, <3>2 DEF Open, Continues, s
      <4>10. AllClosed(out', came, n + 1, clock)
        <5>1. OneGroup(s, e.ids, came, n) /\ e.ids \in Seq(Nat)
          BY <1>1, <1>4, <1>7, <3>2, <4>3, GroupFields DEF Placed, Holds
        <5>2. LastOf(e.ids) \in 1..n
          BY <1>1, <5>1, LastIsLast
        <5>3. n + 1 \in 1..(n + 1) /\ LastOf(e.ids) < n + 1 /\ came[n + 1].stream = e.stream
          BY <1>1, <1>3, <4>3, <5>2
        <5>4. ClosedGroup(e, came, n + 1, clock)
          BY <5>3 DEF ClosedGroup
        <5> QED
          BY <1>1, <1>8, <4>1, <4>3, <5>4, ReleaseCloses
      <4>11. \A r \in Streams : b[r].count > 0 => b[r].last = came[LastOf(b[r].ids)].seen
        BY <1>9, <4>4, <4>5
      <4>12. b[s].count = 0 /\ b[s].ids = <<>>
        BY <4>4, <4>5
      <4> QED
        BY <4>2, <4>7, <4>8, <4>9, <4>10, <4>11, <4>12
    <3> QED
      BY <3>1, <3>2
  <2>2. PICK b \in [Streams -> Group] :
          /\ out' \in Seq(SentGroup)
          /\ Placed(out', b, came, n) /\ Covered(out', b, n)
          /\ Split(out', b, came, n, replay) /\ AllClosed(out', came, n + 1, clock)
          /\ Arriving.frame => AllClosed(out', came, n, At2)
          /\ b[s].count = 0 /\ b[s].ids = <<>>
          /\ buffers' = [b EXCEPT ![s] = Opened]
          /\ \A r \in Streams : b[r].count > 0 => b[r].last = came[LastOf(b[r].ids)].seen
    BY <2>1
  <2>3. Append(<<>>, n + 1) = <<n + 1>> /\ Len(<<n + 1>>) = 1
    BY <1>1
  <2>4. Grows(out', b, came, n, s, Opened, buffers')
    BY <1>1, <1>3, <1>4, <2>2, <2>3 DEF Grows
  <2>5. Placed(out', buffers', came, n + 1) /\ Covered(out', buffers', n + 1)
    BY <2>2, <2>4, GrowPlaces
  <2>6. Split(out', buffers', came, n + 1, replay)
    BY <1>1, <1>3, <2>2, <2>4, GrowSplits
  <2>7. LastOf(Opened.ids) = n + 1
    BY <1>4, <2>3 DEF LastOf
  <2>8. \A r \in Streams : buffers'[r].count > 0 =>
          buffers'[r].last = came[LastOf(buffers'[r].ids)].seen
    BY <1>3, <1>4, <2>2, <2>7
  <2> QED
    BY <1>10, <2>2, <2>5, <2>6, <2>8
<1> QED
  BY <1>11, <1>12

LEMMA AlwaysKept == Spec => []KeptInv
<1>1. Init => KeptInv
  BY InitKept
<1>2. Inv /\ Inv' /\ KeptInv /\ [Next]_vars => KeptInv'
  <2> SUFFICES ASSUME Inv, Inv', KeptInv, [Next]_vars  PROVE KeptInv'
    OBVIOUS
  <2>1. CASE \E l \in Lines : TakeLine(l)
    BY <2>1, TakeKept
  <2>2. CASE \E s \in Streams : FlushOne(s) \/ DrainOne(s)
    BY <2>2, ReleaseKept
  <2>3. CASE Fold \/ Open
    BY <2>3, AddKept
  <2>4. CASE \/ TimerFires \/ FlushDone \/ Arm \/ InputEnds \/ DrainDone
             \/ Tick \/ Leave \/ UNCHANGED vars
    BY <2>4, QuietKept
  <2> QED
    BY <2>1, <2>2, <2>3, <2>4 DEF Next, Loop
<1> QED
  BY <1>1, <1>2, AlwaysInv, PTL DEF Spec

-----------------------------------------------------------------------------
\* A line that is sent is held nowhere and was sent once, by a group of its stream.
LEMMA OneHome ==
  ASSUME Inv, LineInv, NEW i \in 1..Added
  PROVE  /\ \A g \in DOMAIN out : HasLine(out[g].ids, i) => out[g].stream = came[i].stream
         /\ \A s \in Streams : HasLine(buffers[s].ids, i) => s = came[i].stream
         /\ \A g, h \in DOMAIN out : HasLine(out[g].ids, i) /\ HasLine(out[h].ids, i) => g = h
         /\ \A g \in DOMAIN out, s \in Streams :
              ~(HasLine(out[g].ids, i) /\ HasLine(buffers[s].ids, i))
<1> USE DEF LineInv
<1>1. /\ buffers \in [Streams -> Group] /\ Added \in Nat
      /\ DOMAIN out \subseteq Nat
  BY HandFacts, LenProperties
<1>2. \A g \in DOMAIN out : HasLine(out[g].ids, i) => out[g].stream = came[i].stream
  BY DEF Placed, OneGroup, HasLine
<1>3. ASSUME NEW s \in Streams, HasLine(buffers[s].ids, i)  PROVE s = came[i].stream
  <2>1. /\ buffers[s].count = Len(buffers[s].ids) /\ Len(buffers[s].ids) \in Nat
        /\ DOMAIN buffers[s].ids = 1..Len(buffers[s].ids)
    BY <1>1, GroupFields DEF Placed
  <2>2. buffers[s].count > 0
    BY <1>3, <2>1 DEF HasLine
  <2> QED
    BY <1>3, <2>2 DEF Placed, OneGroup, HasLine
<1>4. ASSUME NEW g \in DOMAIN out, NEW h \in DOMAIN out, g < h,
             HasLine(out[g].ids, i), HasLine(out[h].ids, i)
      PROVE  FALSE
  <2>1. AllBefore(out[g].ids, out[h].ids)
    BY <1>2, <1>4 DEF Placed
  <2> QED
    BY <1>4, <2>1 DEF AllBefore, HasLine
<1>5. ASSUME NEW g \in DOMAIN out, NEW h \in DOMAIN out,
             HasLine(out[g].ids, i), HasLine(out[h].ids, i)
      PROVE  g = h
  <2>1. g \in Nat /\ h \in Nat
    BY <1>1
  <2>2. ~(g < h) /\ ~(h < g)
    BY <1>4, <1>5
  <2> QED
    BY <2>1, <2>2
<1>6. ASSUME NEW g \in DOMAIN out, NEW s \in Streams,
             HasLine(out[g].ids, i), HasLine(buffers[s].ids, i)
      PROVE  FALSE
  <2>1. AllBefore(out[g].ids, buffers[s].ids)
    BY <1>2, <1>3, <1>6 DEF Placed
  <2> QED
    BY <1>6, <2>1 DEF AllBefore, HasLine
<1> QED
  BY <1>2, <1>3, <1>5, <1>6

LEMMA HomesAreLines ==
  ASSUME NEW i
  PROVE  /\ SentIn(i) = {g \in DOMAIN out : HasLine(out[g].ids, i)}
         /\ HeldIn(i) = {s \in Streams : HasLine(buffers[s].ids, i)}
BY DEF SentIn, HeldIn, HasLine

\* Every line that has been through add is in exactly one group, of its own stream, and a
\* stream's groups come out in the order of their lines, whatever is released by whom in
\* between, for every number of streams, every cap and timeout (add, flushIdle, flushAll).
THEOREM StreamsAlwaysKeepTheirLines == Spec => []StreamsKeepTheirLines
<1>1. Inv /\ KeptInv => StreamsKeepTheirLines
  <2> SUFFICES ASSUME Inv, KeptInv  PROVE StreamsKeepTheirLines
    OBVIOUS
  <2> USE DEF KeptInv
  <2>1. ASSUME NEW i \in 1..Added
        PROVE  /\ pc # "left" => Cardinality(SentIn(i)) + Cardinality(HeldIn(i)) = 1
               /\ \A g \in SentIn(i) : out[g].stream = came[i].stream
               /\ HeldIn(i) \subseteq {came[i].stream}
    <3>1. ASSUME pc # "left"
          PROVE  Cardinality(SentIn(i)) + Cardinality(HeldIn(i)) = 1
      <4>1. CASE \E g \in DOMAIN out : HasLine(out[g].ids, i)
        <5>1. PICK g \in DOMAIN out : HasLine(out[g].ids, i)
          BY <4>1
        <5>2. SentIn(i) = {g} /\ HeldIn(i) = {}
          BY <5>1, OneHome, HomesAreLines
        <5>3. Cardinality({g}) = 1 /\ Cardinality({}) = 0
          BY FS_Singleton, FS_EmptySet
        <5> QED
          BY <5>2, <5>3
      <4>2. CASE \E s \in Streams : HasLine(buffers[s].ids, i)
        <5>1. PICK s \in Streams : HasLine(buffers[s].ids, i)
          BY <4>2
        <5>2. HeldIn(i) = {s} /\ SentIn(i) = {}
          BY <5>1, OneHome, HomesAreLines
        <5>3. Cardinality({s}) = 1 /\ Cardinality({}) = 0
          BY FS_Singleton, FS_EmptySet
        <5> QED
          BY <5>2, <5>3
      <4> QED
        BY <3>1, <4>1, <4>2 DEF LineInv, Covered
    <3> QED
      BY <3>1, OneHome, HomesAreLines
  <2>2. ASSUME NEW g \in DOMAIN out
        PROVE  /\ Increasing(out[g].ids)
               /\ \A h \in DOMAIN out :
                    g < h /\ out[g].stream = out[h].stream => out[g].ids[1] < out[h].ids[1]
               /\ Holds(out[g].stream) => out[g].ids[1] < buffers[out[g].stream].ids[1]
    <3>1. /\ out \in Seq(SentGroup) /\ buffers \in [Streams -> Group]
          /\ \A h \in DOMAIN out : out[h] \in SentGroup
      BY HandFacts, ElementOfSeq, LenProperties
    <3>2. \A h \in DOMAIN out : 1 \in DOMAIN out[h].ids /\ Increasing(out[h].ids)
      <4> SUFFICES ASSUME NEW h \in DOMAIN out
                   PROVE  1 \in DOMAIN out[h].ids /\ Increasing(out[h].ids)
        OBVIOUS
      <4>1. out[h].ids \in Seq(Nat)
        BY <3>1 DEF SentGroup
      <4>2. OneGroup(out[h].stream, out[h].ids, came, Added)
        BY DEF LineInv, Placed
      <4> QED
        BY <4>1, <4>2, LenProperties DEF OneGroup
    <3>3. \A h \in DOMAIN out :
            g < h /\ out[g].stream = out[h].stream => AllBefore(out[g].ids, out[h].ids)
      BY DEF LineInv, Placed
    <3>4. ASSUME Holds(out[g].stream)
          PROVE  out[g].ids[1] < buffers[out[g].stream].ids[1]
      <4> DEFINE s == out[g].stream
      <4>1. s \in Streams
        BY <3>1 DEF SentGroup
      <4>2. 1 \in DOMAIN buffers[s].ids
        BY <3>1, <3>4, <4>1, GroupFields DEF LineInv, Placed, Holds
      <4>3. AllBefore(out[g].ids, buffers[s].ids)
        BY DEF LineInv, Placed
      <4> QED
        BY <3>2, <4>2, <4>3 DEF AllBefore
    <3> QED
      BY <3>2, <3>3, <3>4 DEF AllBefore
  <2> QED
    BY <2>1, <2>2 DEF StreamsKeepTheirLines, LineInv
<1> QED
  BY <1>1, AlwaysInv, AlwaysKept, PTL

\* A frame that comes before its group's deadline is in the group, however stale the instant
\* the loop read and whatever released the other streams' groups meanwhile, and a replay
\* splits what a live run would have split (Coalesce and CoalesceSourceTime).
THEOREM AlwaysSplitsAtTheDeadline == Spec => []SplitsAtTheDeadline
<1>1. KeptInv => SplitsAtTheDeadline
  <2> SUFFICES ASSUME KeptInv, pc # "left", NEW i \in 1..Added, NEW j \in 1..Added,
                      Follows(i, j), came[j].frame
               PROVE  /\ came[j].seen - came[i].seen < Timeout /\ ~AtCap(i) => Together(i, j)
                      /\ replay /\ came[j].seen - came[i].seen >= Timeout => ~Together(i, j)
    BY DEF SplitsAtTheDeadline
  <2>1. FollowsIn(came, i, j)
    BY DEF Follows, FollowsIn
  <2>2. AtCapIn(out, i) => AtCap(i)
    BY HomesAreLines DEF AtCap, AtCapIn
  <2>3. Together(i, j) <=> Joined(out, buffers, i, j)
    BY HomesAreLines DEF Together, Joined
  <2>4. Split(out, buffers, came, Added, replay)
    BY DEF KeptInv, SplitInv
  <2> QED
    BY <2>1, <2>2, <2>3, <2>4 DEF Split
<1> QED
  BY <1>1, AlwaysKept, PTL
-----------------------------------------------------------------------------
(***************************************************************************)
(* The live timer: what HeldLinesAreReleased rests on besides fairness.    *)
(***************************************************************************)
\* In its select a live loop that holds a group has a timer armed, due within the timeout,
\* and one that is armed will find a group to release.
TimerStandsForAGroup ==
  ~ replay /\ pc = "select" =>
    /\ \A s \in Streams : Holds(s) => timerAt # Never /\ timerAt <= clock + Timeout
    /\ timerAt # Never => \E s \in Streams : Holds(s) /\ Deadline(s) <= timerAt

\* A group is no newer than the instant the loop works at, which is past.
GroupsArePast ==
  ~ replay =>
    /\ \A s \in Streams : Holds(s) => buffers[s].last <= clock
    /\ pc \in {"flush", "add", "arm"} =>
         now <= clock /\ \A s \in Streams : Holds(s) => buffers[s].last <= now

\* A group that is held was held before, or has just been given its line.
LEMMA GroupsAge ==
  ASSUME Inv, [Next]_vars, NEW s \in Streams, Holds(s)'
  PROVE  \/ Holds(s) /\ buffers'[s].last = buffers[s].last
         \/ pc = "add" /\ buffers'[s].last = now
<1>0. buffers \in [Streams -> Group]
  BY DEF Inv, TypeOK, Group
<1>1. ASSUME NEW r \in Streams, buffers' = [buffers EXCEPT ![r] = NoGroup]
      PROVE  Holds(s) /\ buffers'[s].last = buffers[s].last
  BY <1>0, <1>1 DEF Holds, NoGroup
<1>2. CASE Fold \/ Open
  <2>1. pc = "add" /\ Arriving.stream \in Streams /\ Folded.last = now /\ Opened.last = now
    BY <1>2, AddedGroup DEF Fold, Open
  <2>2. \E g \in {NoGroup, Folded, Opened} : buffers' = [buffers EXCEPT ![Arriving.stream] = g]
    BY <1>2 DEF Fold, Open, WithoutFull
  <2>3. NoGroup.count = 0
    BY DEF NoGroup
  <2> HIDE DEF NoGroup, Folded, Opened
  <2> QED
    BY <1>0, <2>1, <2>2, <2>3 DEF Holds
<1>3. CASE \E r \in Streams : FlushOne(r) \/ DrainOne(r)
  BY <1>1, <1>3 DEF FlushOne, DrainOne
<1>4. CASE UNCHANGED buffers
  BY <1>4 DEF Holds
<1> QED
  BY <1>2, <1>3, <1>4 DEF Next, TakeLine, TimerFires, Loop, FlushDone, Arm, DrainDone, InputEnds,
     Tick, Leave, vars

LEMMA GroupsArePastStep == Inv /\ GroupsArePast /\ [Next]_vars => GroupsArePast'
<1> SUFFICES ASSUME Inv, GroupsArePast, [Next]_vars, ~ replay'
             PROVE  /\ \A s \in Streams : Holds(s)' => buffers'[s].last <= clock'
                    /\ pc' \in {"flush", "add", "arm"} =>
                         now' <= clock' /\ \A s \in Streams : Holds(s)' => buffers'[s].last <= now'
  BY DEF GroupsArePast, Holds
<1>1. ~ replay
  BY DEF Next, TakeLine, TimerFires, Loop, FlushOne, DrainOne, FlushDone, Fold, Open, Arm,
     DrainDone, InputEnds, Tick, Leave, vars
<1>2. /\ clock \in Nat /\ clock' \in Nat /\ now \in Nat /\ now' \in Nat /\ clock <= clock'
      /\ \A s \in Streams : buffers[s].last \in Nat
  <2>1. clock' = clock \/ clock' = clock + 1
    BY <1>1 DEF Next, TakeLine, TimerFires, Loop, FlushOne, DrainOne, FlushDone, Fold, Open, Arm,
       DrainDone, InputEnds, Tick, Leave, vars
  <2>2. Inv'
    BY Inductive
  <2> QED
    BY <2>1, <2>2 DEF Inv, TypeOK
<1>3. \A s \in Streams : Holds(s)' => buffers'[s].last <= clock'
  BY <1>1, <1>2, GroupsAge DEF GroupsArePast
<1>4. ASSUME pc' \in {"flush", "add", "arm"}
      PROVE  now' <= clock' /\ \A s \in Streams : Holds(s)' => buffers'[s].last <= now'
  <2>1. CASE pc = "select" /\ now' = clock /\ UNCHANGED buffers
    BY <1>1, <1>2, <2>1 DEF GroupsArePast, Holds
  <2>2. CASE pc \in {"flush", "add", "arm"} /\ now' = now
    BY <1>1, <1>2, <2>2, GroupsAge DEF GroupsArePast
  <2>3. \/ pc = "select" /\ now' = clock /\ UNCHANGED buffers
        \/ pc \in {"flush", "add", "arm"} /\ now' = now
    BY <1>1, <1>4 DEF Next, TakeLine, TimerFires, Loop, FlushOne, DrainOne, FlushDone, Fold, Open,
       Looped, Arm, DrainDone, InputEnds, Tick, Leave, vars
  <2> QED
    BY <2>1, <2>2, <2>3
<1> QED
  BY <1>3, <1>4

LEMMA TimerStep ==
  Inv /\ GroupsArePast /\ TimerStandsForAGroup /\ [Next]_vars => TimerStandsForAGroup'
<1> SUFFICES ASSUME Inv, GroupsArePast, TimerStandsForAGroup, [Next]_vars, ~ replay', pc' = "select"
             PROVE  /\ \A s \in Streams : Holds(s)' => timerAt' # Never /\ timerAt' <= clock' + Timeout
                    /\ timerAt' # Never => \E s \in Streams : Holds(s)' /\ Deadline(s)' <= timerAt'
  BY DEF TimerStandsForAGroup
<1>0. /\ clock \in Nat /\ now \in Nat /\ \A s \in Streams : buffers[s].last \in Nat
      /\ timerAt \in Nat \cup {Never} /\ Timeout \in Nat /\ Never \notin Nat
  BY TimeoutAssumption, NeverAssumption DEF Inv, TypeOK
<1>1. ~ replay
  BY DEF Next, TakeLine, TimerFires, Loop, FlushOne, DrainOne, FlushDone, Fold, Open, Arm,
     DrainDone, InputEnds, Tick, Leave, vars
<1>2. CASE Arm
  <2>1. clock' = clock /\ buffers' = buffers /\ now <= clock
        /\ \A s \in Streams : Holds(s) => buffers[s].last <= now
    BY <1>1, <1>2 DEF Arm, GroupsArePast
  <2>2. CASE timerAt' = Never /\ \A s \in Streams : ~ Holds(s)
    BY <2>1, <2>2 DEF Holds
  <2>3. ASSUME NEW s \in Streams, Holds(s),
               timerAt' = IF Deadline(s) < now THEN clock ELSE clock + (Deadline(s) - now)
        PROVE  timerAt' \in Nat /\ Deadline(s) <= timerAt' /\ timerAt' <= clock + Timeout
    <3>1. Deadline(s) = buffers[s].last + Timeout /\ buffers[s].last \in Nat /\ buffers[s].last <= now
      BY <1>0, <2>1, <2>3 DEF Deadline
    <3> QED
      BY <1>0, <2>1, <2>3, <3>1
  <2>4. ASSUME NEW s \in Streams, Holds(s),
               timerAt' = IF Deadline(s) < now THEN clock ELSE clock + (Deadline(s) - now)
        PROVE  /\ \A r \in Streams : Holds(r)' => timerAt' # Never /\ timerAt' <= clock' + Timeout
               /\ \E r \in Streams : Holds(r)' /\ Deadline(r)' <= timerAt'
    <3>1. timerAt' \in Nat /\ Deadline(s) <= timerAt' /\ timerAt' <= clock + Timeout
      BY <2>3, <2>4
    <3>2. Holds(s)' /\ Deadline(s)' = Deadline(s)
      BY <2>1, <2>4 DEF Holds, Deadline
    <3> QED
      BY <1>0, <2>1, <3>1, <3>2
  <2> QED
    BY <1>2, <2>2, <2>4 DEF Arm
<1>3. CASE pc = "select" /\ UNCHANGED <<timerAt, buffers>> /\ (clock' = clock \/ clock' = clock + 1)
  BY <1>0, <1>1, <1>3 DEF TimerStandsForAGroup, Holds, Deadline
<1>4. Arm \/ (pc = "select" /\ UNCHANGED <<timerAt, buffers>> /\ (clock' = clock \/ clock' = clock + 1))
  BY <1>1 DEF Next, TakeLine, TimerFires, Loop, FlushOne, DrainOne, FlushDone, AfterFlush, Fold,
     Open, Looped, DrainDone, InputEnds, Tick, Leave, vars
<1> QED
  BY <1>2, <1>3, <1>4

\* A live group is never held without a timer, whatever fired or was released before, and the
\* timer never fires in vain: some group is due by then (arm and flushIdle of coalesce.go).
THEOREM ATimerAlwaysStandsForAGroup == Spec => []TimerStandsForAGroup
<1>1. Init => GroupsArePast /\ TimerStandsForAGroup
  BY NeverAssumption DEF Init, GroupsArePast, TimerStandsForAGroup, Holds, NoGroup
<1>2. Inv /\ GroupsArePast /\ TimerStandsForAGroup /\ [Next]_vars =>
        GroupsArePast' /\ TimerStandsForAGroup'
  BY GroupsArePastStep, TimerStep
<1> QED
  BY AlwaysInv, <1>1, <1>2, PTL DEF Spec

=============================================================================
