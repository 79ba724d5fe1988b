---------------------------- MODULE SnapshotFeed ----------------------------
(***************************************************************************)
(* What the TUI is shown: the collector of internal/pipeline/snapshot.go   *)
(* (the stream ring, the retained cards), the snapshots Run sends on a     *)
(* channel of capacity one, and the model of internal/tui that reads them. *)
(* Lines are numbered as they arrive; a snapshot is the number of lines    *)
(* and of attached answers it was built from.                              *)
(***************************************************************************)
EXTENDS Integers, FiniteSets, Sequences, SequencesExt

CONSTANTS
  Hashes,       \* templates
  RingSize,     \* Options.RingSize (2000)
  CardContext,  \* cardContext (3)
  CardsKept,    \* escalationsKept (20)
  MaxLines,     \* bounds the lines of a run
  MaxAnswers    \* bounds the answers attached

ASSUME FeedAssumption ==
  /\ RingSize \in Nat \ {0} /\ CardContext \in Nat /\ CardsKept \in Nat \ {0}
  /\ MaxLines \in Nat /\ MaxAnswers \in Nat

View == [lines : 0..MaxLines, answers : 0..MaxAnswers]
NoLines == [lines |-> 0, answers |-> 0]

VARIABLES
  ring,      \* the stream tail: slot -> line number (0: never written)
  head,      \* next slot to write
  filled,    \* the ring has wrapped
  total,     \* lines observed
  escalated, \* retained escalations, oldest first
  answers,   \* answers attached
  dirty,     \* something changed since the last snapshot was built
  run,       \* Run: "loop", "final", "done"
  quit,
  snaps,     \* the snapshot channel, capacity 1
  snapsOpen,
  reader,    \* the snapshot waitForSnapshot holds, until Update takes it
  got,       \* the last snapshot Update handled
  shown,     \* the last snapshot it applied
  paused, ended,
  latest     \* history: [Hashes -> the last line on which it escalated]

ringVars == <<ring, head, filled, total, escalated, latest>>
tuiVars  == <<reader, got, shown, paused, ended>>
feedVars == <<ringVars, answers, dirty, run, quit, snaps, snapsOpen, tuiVars>>

FeedInit ==
  /\ ring = [i \in 0..RingSize - 1 |-> 0] /\ head = 0 /\ filled = FALSE /\ total = 0
  /\ escalated = <<>> /\ latest = [h \in Hashes |-> 0]
  /\ answers = 0 /\ dirty = FALSE
  /\ run = "loop" /\ quit = FALSE
  /\ snaps = <<>> /\ snapsOpen = TRUE
  /\ reader = <<>> /\ got = NoLines /\ shown = NoLines /\ paused = FALSE /\ ended = FALSE

-----------------------------------------------------------------------------
(* The collector.                                                          *)

\* preceding: back from the slot before the trigger's, not past a slot never written and
\* not round to the trigger itself, then reversed.  next is head after the trigger was
\* written.
Back == IF CardContext < RingSize THEN CardContext ELSE RingSize - 1

ReachMutUnwritten(next, wrapped) == Back   \* slots never written are quoted too
Reach(next, wrapped) == IF wrapped \/ next - 1 >= Back THEN Back ELSE next - 1
SlotBefore(next, i) == IF next - 1 - i < 0 THEN next - 1 - i + RingSize ELSE next - 1 - i

Preceding(r, next, wrapped) ==
  LET n == Reach(next, wrapped)
  IN  [j \in 1..n |-> r[SlotBefore(next, n + 1 - j)]]

\* retain: the template's entry moves to the end; the oldest beyond CardsKept go.
WithoutMutKept(h) == escalated
Without(h) ==
  IF ~ \E i \in DOMAIN escalated : escalated[i].hash = h THEN escalated
  ELSE LET i == CHOOSE i \in DOMAIN escalated : escalated[i].hash = h
       IN  SubSeq(escalated, 1, i - 1) \o SubSeq(escalated, i + 1, Len(escalated))
LastN(s, n) == IF Len(s) > n THEN SubSeq(s, Len(s) - n + 1, Len(s)) ELSE s

Wraps(slot) == slot = RingSize

Observe(h, escalates) ==
  /\ run = "loop" /\ total < MaxLines
  /\ ring' = [ring EXCEPT ![head] = total + 1]
  /\ head' = IF Wraps(head + 1) THEN 0 ELSE head + 1
  /\ filled' = (filled \/ Wraps(head + 1))
  /\ total' = total + 1
  /\ IF escalates
       THEN /\ escalated' =
                 LastN(Append(Without(h),
                              [hash |-> h, at |-> total + 1,
                               context |-> Preceding(ring', head', filled')]), CardsKept)
            /\ latest' = [latest EXCEPT ![h] = total + 1]
       ELSE UNCHANGED <<escalated, latest>>
  /\ dirty' = TRUE
  /\ UNCHANGED <<answers, run, quit, snaps, snapsOpen, tuiVars>>

\* lines: the ring in chronological order.
Slots(from, to) == [i \in 1..to - from |-> ring[from + i - 1]]
StreamTail == IF filled THEN Slots(head, RingSize) \o Slots(0, head) ELSE Slots(0, head)

-----------------------------------------------------------------------------
(* Run: answers, ticks and the end.                                        *)

Snapshot == [lines |-> total, answers |-> answers]

AttachAnswer ==
  /\ run = "loop" /\ answers < MaxAnswers
  /\ answers' = answers + 1 /\ dirty' = TRUE
  /\ UNCHANGED <<ringVars, run, quit, snaps, snapsOpen, tuiVars>>

\* trySend: delivered only if the last one was taken.  Building it cleared dirty.
TrySend(s) == snaps' = IF snaps = <<>> THEN <<s>> ELSE snaps

Tick ==
  /\ run = "loop" /\ dirty
  /\ TrySend(Snapshot)
  /\ dirty' = FALSE
  /\ UNCHANGED <<ringVars, answers, run, quit, snapsOpen, tuiVars>>

\* Lines and answers are both closed: the loop is left.
InputsEnd ==
  /\ run = "loop" /\ run' = "final"
  /\ UNCHANGED <<ringVars, answers, dirty, quit, snaps, snapsOpen, tuiVars>>

\* The last snapshot waits for room, then the deferred close.
DeliverMutTry == TrySend(Snapshot)
Deliver == snaps = <<>> /\ snaps' = <<Snapshot>>

StillOpenMutReturn == snapsOpen
StillOpen == FALSE

FinalSend ==
  /\ run = "final" /\ Deliver
  /\ run' = "done" /\ dirty' = FALSE /\ snapsOpen' = StillOpen
  /\ UNCHANGED <<ringVars, answers, quit, tuiVars>>

Quit ==
  /\ ~quit /\ quit' = TRUE
  /\ UNCHANGED <<ringVars, answers, dirty, run, snaps, snapsOpen, tuiVars>>

\* ctx.Done, in the loop or in place of the last send.
Return ==
  /\ run # "done" /\ quit
  /\ run' = "done" /\ snapsOpen' = FALSE
  /\ UNCHANGED <<ringVars, answers, dirty, quit, snaps, tuiVars>>

-----------------------------------------------------------------------------
(* The TUI.                                                                *)

\* waitForSnapshot, issued again by Update after each delivery.
Receive ==
  /\ reader = <<>> /\ snaps # <<>>
  /\ reader' = snaps /\ snaps' = <<>>
  /\ UNCHANGED <<ringVars, answers, dirty, run, quit, snapsOpen, got, shown, paused, ended>>

\* Update on a snapshotMsg: drained while paused, applied only when not.
Apply ==
  /\ reader # <<>>
  /\ reader' = <<>> /\ got' = reader[1]
  /\ shown' = IF paused THEN shown ELSE reader[1]
  /\ UNCHANGED <<ringVars, answers, dirty, run, quit, snaps, snapsOpen, paused, ended>>

SeeEnd ==
  /\ reader = <<>> /\ snaps = <<>> /\ ~snapsOpen /\ ~ended
  /\ ended' = TRUE
  /\ UNCHANGED <<ringVars, answers, dirty, run, quit, snaps, snapsOpen, reader, got, shown, paused>>

TogglePause ==
  /\ paused' = ~paused
  /\ UNCHANGED <<ringVars, answers, dirty, run, quit, snaps, snapsOpen, reader, got, shown, ended>>

-----------------------------------------------------------------------------
FeedNext ==
  \/ \E h \in Hashes, e \in BOOLEAN : Observe(h, e)
  \/ AttachAnswer \/ Tick \/ InputsEnd \/ FinalSend \/ Quit \/ Return
  \/ Receive \/ Apply \/ SeeEnd \/ TogglePause

\* The ticker, the select of Run and Bubble Tea's loop keep going; nothing says that
\* lines or answers arrive, that the inputs end, or that anybody presses a key.
FeedSpec ==
  /\ FeedInit /\ [][FeedNext]_feedVars
  /\ WF_feedVars(Tick) /\ WF_feedVars(FinalSend) /\ WF_feedVars(Return)
  /\ WF_feedVars(Receive) /\ WF_feedVars(Apply) /\ WF_feedVars(SeeEnd)

-----------------------------------------------------------------------------
(* Types: every variable of the feed has the shape the code gives it; the  *)
(* head stays inside the ring and no more cards are kept than the pane     *)
(* holds.                                                                  *)
FeedTypeOK ==
  /\ ring \in [0..RingSize - 1 -> 0..MaxLines] /\ head \in 0..RingSize - 1
  /\ filled \in BOOLEAN /\ total \in 0..MaxLines /\ answers \in 0..MaxAnswers
  /\ Len(escalated) <= CardsKept
  /\ \A i \in DOMAIN escalated :
       escalated[i] \in [hash : Hashes, at : 1..MaxLines, context : Seq(0..MaxLines)]
  /\ latest \in [Hashes -> 0..MaxLines]
  /\ {dirty, quit, snapsOpen, paused, ended} \subseteq BOOLEAN
  /\ run \in {"loop", "final", "done"}
  /\ Len(snaps) <= 1 /\ Len(reader) <= 1
  /\ ToSet(snaps) \cup ToSet(reader) \cup {got, shown} \subseteq View

(* The stream pane is built from exactly the last lines of the stream, in  *)
(* order and none twice, before the ring wraps, at the wrap and after it   *)
(* (lines, observe).                                                       *)
TailIsTheLastLines ==
  LET n == IF total < RingSize THEN total ELSE RingSize
  IN  StreamTail = [i \in 1..n |-> total - n + i]

(* A card quotes the lines that came just before its own, oldest first,    *)
(* as many as there were up to cardContext, and never its own line:        *)
(* preceding walks back over the wrap but does not lap the ring.           *)
ContextPrecedesTheTrigger ==
  \A i \in DOMAIN escalated :
    LET at == escalated[i].at
        n  == Min({CardContext, RingSize - 1, at - 1})
    IN  escalated[i].context = [j \in 1..n |-> at - 1 - n + j]

(* The cards pane holds one card per template, for the templates that      *)
(* escalated last, oldest first, and each is of its template's newest      *)
(* escalation (retain, #34).                                               *)
CardsAreTheNewest ==
  LET flagged == {h \in Hashes : latest[h] > 0}
      newest  == {h \in flagged : Cardinality({g \in flagged : latest[g] > latest[h]}) < CardsKept}
  IN  /\ Len(escalated) = Cardinality(newest)
      /\ {[hash |-> e.hash, at |-> e.at] : e \in ToSet(escalated)}
           = {[hash |-> h, at |-> latest[h]] : h \in newest}
      /\ \A i, j \in DOMAIN escalated : i < j => escalated[i].at < escalated[j].at

(* The ring is read right by both its readers: the stream pane and a card. *)
RingQuotesTheStream == TailIsTheLastLines /\ ContextPrecedesTheTrigger

(* Once the inputs are exhausted the TUI is told so, whatever was in the   *)
(* channel and whether or not it is paused, and it has then been handed    *)
(* the final counts and the last answer: the last snapshot is never lost   *)
(* to a full channel or to the close, unless the user quit (end of Run,    *)
(* Update, waitForSnapshot).                                               *)
EndReachesTheTui ==
  (run = "final") ~> (quit \/ (ended /\ got = Snapshot))

(* snapshot.go on trySend: the consumer always sees the latest state.  A   *)
(* run that goes quiet should leave the TUI with what the pipeline knows.  *)
ConsumerSeesLatest == []<>(got = Snapshot \/ run # "loop")
=============================================================================
