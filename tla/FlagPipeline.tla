---------------------------- MODULE FlagPipeline ----------------------------
(***************************************************************************)
(* A flag from the scorer's decision to its answer: the pipeline goroutine *)
(* (internal/pipeline/pipeline.go), the scorer it drives (internal/score), *)
(* the LLM worker pool (internal/llm/pool.go) and, in plain mode, the      *)
(* printer (cmd/logscry/main.go), with the channels between them and the   *)
(* shutdown that runs along them.                                          *)
(*                                                                         *)
(* Abstracted: what a line says (whether it clears the threshold, and      *)
(* whether the rate limiter lets it through, is free); time (a cache entry *)
(* may expire at any moment); which templates the table's bound evicts     *)
(* (any that shrink may evict, see Evictable); and an answer's text, which *)
(* is "none" (no Summary), "some" (a partial's) or "full" (a final one's). *)
(***************************************************************************)
EXTENDS Integers, FiniteSets, Sequences

CONSTANTS
  Hashes,     \* templates
  Workers,    \* the pool's goroutines, at least one
  Queue,      \* capacity of the escalation channel
  EventRoom,  \* capacity of the event channel (1024 in the code)
  CardsKept,  \* escalationsKept
  Modes,      \* the consumers to consider: "tui", "plain", "dry" (plain, no LLM stage)
  Streaming,  \* --llm-stream: partial answers
  MaxFlags    \* bounds the flags of a run

ASSUME PipelineAssumption ==
  /\ Queue \in Nat /\ EventRoom \in Nat \ {0} /\ CardsKept \in Nat \ {0}
  /\ Modes \subseteq {"tui", "plain", "dry"} /\ Streaming \in BOOLEAN
  /\ MaxFlags \in Nat /\ IsFiniteSet(Workers) /\ Workers # {}

Flags   == 1..MaxFlags
Texts   == {"none", "some", "full"}
Request == [hash : Hashes, flag : Flags]
Answer  == [hash : Hashes, flag : Flags, state : {"pending", "done", "failed"}, text : Texts]
Card    == [state : {"none", "pending", "done", "failed"}, flag : 0..MaxFlags, text : Texts]
NoCard  == [state |-> "none", flag |-> 0, text |-> "none"]
NoRequest == [hash |-> "none", flag |-> 0]
NoAnswer  == [hash |-> "none", flag |-> 0, state |-> "none", text |-> "none"]

\* The channel has room for every escalation that could be in flight.
AnswerRoom == Queue + Cardinality(Workers)

VARIABLES
  mode,       \* the run's consumer, chosen at startup
  table,      \* the templates in the table
  last,       \* [Hashes -> 0..MaxFlags]: LastFlagID (0: FlagCount = 0)
  awaiting,   \* [Hashes -> Int]: Awaiting
  card,       \* [Hashes -> Card]: Explanation
  cards,      \* the collector's retained escalations, oldest first
  fresh,      \* templates inside their cache TTL
  flags,      \* the last flag minted
  ppc,        \* where the pipeline goroutine is
  cur,        \* the flag it is recording
  queued,     \* that flag reached the escalation channel
  lines,      \* "open", "closed" by ingestion, "nil" once the pipeline saw it
  answersNil, \* the pipeline's explanations channel is nil
  explaining, explained, explainFailed, explainDropped,
  escalations, escOpen,
  wpc,        \* where each worker is
  job,        \* the request it holds
  reply,      \* the answer it is sending
  partials,   \* it has sent a partial of this answer (at most one is modelled)
  explanations, expOpen,
  events, eventsOpen,
  printer,    \* "run", "done" (nil returned), or "failed" (the write error returned)
  eventsNil, outNil,   \* the printer's own channels that are nil
  cancelled,
  flagSent,   \* flags handed to export.Flag
  resolved,   \* [Flags -> Nat]: terminal resolutions handed to the export
  answered    \* [Hashes -> BOOLEAN]: the card was given a final answer with text

Routed  == mode = "tui"     \* answers come back through attach
Explain == mode # "dry"     \* an LLM stage is attached
Printed == mode # "tui"     \* a printer reads Events

tableVars == <<table, last, awaiting, card, cards>>
scoreVars == <<fresh, flags>>
statVars  == <<explaining, explained, explainFailed, explainDropped>>
runVars   == <<ppc, cur, queued, lines, answersNil>>
poolVars  == <<wpc, job, reply, partials>>
escVars   == <<escalations, escOpen>>
expVars   == <<explanations, expOpen>>
evVars    == <<events, eventsOpen>>
outVars   == <<printer, eventsNil, outNil>>
recVars   == <<flagSent, resolved, answered>>
vars == <<tableVars, scoreVars, statVars, runVars, poolVars, escVars, expVars,
          evVars, outVars, recVars, cancelled, mode>>

Init ==
  /\ mode \in Modes
  /\ table = {} /\ cards = <<>>
  /\ last = [h \in Hashes |-> 0] /\ awaiting = [h \in Hashes |-> 0]
  /\ card = [h \in Hashes |-> NoCard]
  /\ fresh = {} /\ flags = 0
  /\ ppc = "select" /\ cur = NoRequest /\ queued = FALSE /\ lines = "open" /\ answersNil = ~Routed
  /\ explaining = 0 /\ explained = 0 /\ explainFailed = 0 /\ explainDropped = 0
  /\ escalations = <<>> /\ escOpen = Explain
  /\ wpc = [w \in Workers |-> IF Explain THEN "idle" ELSE "gone"]
  /\ job = [w \in Workers |-> NoRequest] /\ reply = [w \in Workers |-> NoAnswer]
  /\ partials = [w \in Workers |-> FALSE]
  /\ explanations = <<>> /\ expOpen = Explain
  /\ events = 0 /\ eventsOpen = Printed
  /\ printer = IF Printed THEN "run" ELSE "done"
  /\ eventsNil = FALSE /\ outNil = ~Explain
  /\ cancelled = FALSE
  /\ flagSent = {} /\ resolved = [f \in Flags |-> 0]
  /\ answered = [h \in Hashes |-> FALSE]

-----------------------------------------------------------------------------
(* Process: upsert, Evaluate, then the flag.                               *)

Flagged(h)   == last[h] # 0
Carded(h)    == \E i \in DOMAIN cards : cards[i] = h

\* Evicting the template would take something from the user.
Pinned(h) ==
  Flagged(h) /\ ((Routed /\ awaiting[h] > 0) \/ Carded(h) \/ h \in fresh)

\* What shrink may evict while it makes room for the line's own template.
Evictable(h) == {t \in table \ {h} : ~Pinned(t)}

\* upsert: gone leaves the table, and a template that comes back starts afresh.
Upsert(h, gone) ==
  /\ table' = (table \cup {h}) \ gone
  /\ last'     = [t \in Hashes |-> IF t \in gone THEN 0 ELSE last[t]]
  /\ awaiting' = [t \in Hashes |-> IF t \in gone THEN 0 ELSE awaiting[t]]
  /\ card'     = [t \in Hashes |-> IF t \in gone THEN NoCard ELSE card[t]]
  /\ answered' = [t \in Hashes |-> IF t \in gone THEN FALSE ELSE answered[t]]

AfterLine == IF Printed THEN "event" ELSE "select"

LineArrives(h, gone) ==
  /\ ppc = "select" /\ lines = "open"
  /\ gone \subseteq Evictable(h)
  /\ Upsert(h, gone)

\* Below the threshold, kept quiet by the cache, or refused by the limiter.
QuietLine(h, gone) ==
  /\ LineArrives(h, gone)
  /\ ppc' = AfterLine
  /\ UNCHANGED <<cards, scoreVars, statVars, cur, queued, lines, answersNil, poolVars,
                 escVars, expVars, evVars, outVars, flagSent, resolved, cancelled, mode>>

\* decide, and emit, which drops the request when the channel is full or nil.
HasRoom == Explain /\ Len(escalations) < Queue

ReportQueuedMutUnset == FALSE           \* Result.Queued left unset
ReportQueued == HasRoom

FlaggedLine(h, gone) ==
  /\ LineArrives(h, gone)
  /\ h \notin fresh /\ flags < MaxFlags
  /\ fresh' = fresh \cup {h}
  /\ flags' = flags + 1
  /\ cur' = [hash |-> h, flag |-> flags + 1]
  /\ queued' = ReportQueued
  /\ escalations' = IF HasRoom THEN Append(escalations, cur') ELSE escalations
  /\ ppc' = "flagging"
  /\ UNCHANGED <<cards, statVars, lines, answersNil, poolVars, escOpen,
                 expVars, evVars, outVars, flagSent, resolved, cancelled, mode>>

\* reexplaining: the answer the template holds is carried forward.
Carried(c, f, state) ==
  IF c.text # "none" THEN [c EXCEPT !.state = state]
                     ELSE [state |-> state, flag |-> f, text |-> "none"]

\* retain: the template's earlier card is cut out, the new one goes last, and the oldest
\* falls off when there are more than CardsKept.
Without(h) ==
  IF ~Carded(h) THEN cards
  ELSE LET i == CHOOSE i \in DOMAIN cards : cards[i] = h
       IN  SubSeq(cards, 1, i - 1) \o SubSeq(cards, i + 1, Len(cards))
Retained(h) ==
  LET all == Append(Without(h), h)
  IN  IF Len(all) > CardsKept THEN Tail(all) ELSE all

QueueFullMutSilent(f) == resolved       \* a dropped escalation resolves nothing
QueueFull(f) == [resolved EXCEPT ![f] = @ + 1]

\* flagged, escalated and observe.  By now the request may be with a worker, and
\* in plain mode its answer may be with the printer.
RecordFlag ==
  /\ ppc = "flagging"
  /\ LET h == cur.hash
         f == cur.flag
     IN  /\ last' = [last EXCEPT ![h] = f]
         /\ flagSent' = flagSent \cup {f}
         /\ \/ /\ ~Explain
               /\ resolved' = [resolved EXCEPT ![f] = @ + 1]
               /\ UNCHANGED <<card, awaiting, explaining, explainFailed, explainDropped>>
            \/ /\ Explain /\ queued
               /\ card' = [card EXCEPT ![h] = Carried(@, f, "pending")]
               /\ explaining' = explaining + 1
               /\ awaiting' = [awaiting EXCEPT ![h] = @ + 1]
               /\ UNCHANGED <<resolved, explainFailed, explainDropped>>
            \/ /\ Explain /\ ~queued
               /\ card' = [card EXCEPT ![h] = Carried(@, f, "failed")]
               /\ resolved' = QueueFull(f)
               /\ explainFailed' = explainFailed + 1
               /\ explainDropped' = explainDropped + 1
               /\ UNCHANGED <<explaining, awaiting>>
         /\ cards' = IF Routed THEN Retained(h) ELSE cards
  /\ ppc' = AfterLine /\ cur' = NoRequest /\ queued' = FALSE
  /\ UNCHANGED <<table, scoreVars, explained, lines, answersNil, poolVars,
                 escVars, expVars, evVars, outVars, answered, cancelled, mode>>

SendEvent ==
  /\ ppc = "event" /\ events < EventRoom
  /\ events' = events + 1
  /\ ppc' = "select"
  /\ UNCHANGED <<tableVars, scoreVars, statVars, cur, queued, lines, answersNil, poolVars,
                 escVars, expVars, eventsOpen, outVars, recVars, cancelled, mode>>

\* A cache entry's TTL runs out.
Expire(h) ==
  /\ h \in fresh
  /\ fresh' = fresh \ {h}
  /\ UNCHANGED <<tableVars, flags, statVars, runVars, poolVars, escVars, expVars,
                 evVars, outVars, recVars, cancelled, mode>>

-----------------------------------------------------------------------------
(* attach: an answer lands on the template that asked for it.              *)

\* export.Resolve ignores a partial.
Terminal(ex) == ex.state # "pending"

Resolved(ex) == IF Terminal(ex) THEN [resolved EXCEPT ![ex.flag] = @ + 1] ELSE resolved

\* olderAnswer: an older flag's final text, while no newer flag has any.
ShowsOlderMutAlways(c, ex) == ex.state # "pending" /\ ex.text # "none"
ShowsOlder(c, ex) ==
  /\ ex.state # "pending" /\ ex.text # "none"
  /\ ~(c.text # "none" /\ c.flag >= ex.flag)

\* keepEarlierAnswer: a failure does not empty a card that has text.
LandedMutBlank(c, ex) == [state |-> ex.state, flag |-> ex.flag, text |-> ex.text]
Landed(c, ex) ==
  IF ex.state = "failed" /\ ex.text = "none" /\ c.text # "none"
    THEN [c EXCEPT !.state = "failed"]
    ELSE [state |-> ex.state, flag |-> ex.flag, text |-> ex.text]

NextCardMutNoOrder(h, ex) == Landed(card[h], ex)   \* the last answer in wins (#121)
NextCard(h, ex) ==
  IF ex.flag >= last[h] THEN Landed(card[h], ex)
  ELSE IF ShowsOlder(card[h], ex)
    THEN [state |-> card[h].state, flag |-> ex.flag, text |-> ex.text]
    ELSE card[h]

\* History: the last final answer the card took had text.
AnsweredBy(ex, before) ==
  IF ex.state = "done" /\ (ex.flag >= last[ex.hash] \/ ShowsOlder(card[ex.hash], ex))
    THEN ex.text = "full" ELSE before

\* The counters are per flag: a terminal answer counts one out.
CountsOutMutPartials(ex) == TRUE
CountsOut(ex) == ex.state # "pending"

Attach ==
  /\ ppc = "select" /\ ~answersNil /\ explanations # <<>>
  /\ LET ex == Head(explanations)
         h  == ex.hash
     IN  /\ resolved' = Resolved(ex)
         /\ IF h \in table
              THEN /\ card' = [card EXCEPT ![h] = NextCard(h, ex)]
                   /\ answered' = [answered EXCEPT ![h] = AnsweredBy(ex, @)]
                   /\ IF CountsOut(ex)
                        THEN /\ explaining' = explaining - 1
                             /\ awaiting' = [awaiting EXCEPT ![h] = @ - 1]
                        ELSE UNCHANGED <<explaining, awaiting>>
                   /\ explained' = IF ex.state = "done" THEN explained + 1 ELSE explained
                   /\ explainFailed' =
                        IF ex.state = "failed" THEN explainFailed + 1 ELSE explainFailed
              ELSE UNCHANGED <<card, answered, awaiting, explaining, explained, explainFailed>>
  /\ explanations' = Tail(explanations)
  /\ UNCHANGED <<table, last, cards, scoreVars, explainDropped, runVars, poolVars, escVars,
                 expOpen, evVars, outVars, flagSent, cancelled, mode>>

-----------------------------------------------------------------------------
(* Run's other cases, and how it ends.                                     *)

AnswersEnd ==
  /\ ppc = "select" /\ ~answersNil /\ explanations = <<>> /\ ~expOpen
  /\ answersNil' = TRUE
  /\ UNCHANGED <<tableVars, scoreVars, statVars, ppc, cur, queued, lines, poolVars,
                 escVars, expVars, evVars, outVars, recVars, cancelled, mode>>

CloseEscalationsMutNever == UNCHANGED escOpen
CloseEscalations == escOpen' = FALSE

LinesEnd ==
  /\ ppc = "select" /\ lines = "closed"
  /\ lines' = "nil"
  /\ CloseEscalations
  /\ UNCHANGED <<tableVars, scoreVars, statVars, ppc, cur, queued, answersNil, poolVars,
                 escalations, expVars, evVars, outVars, recVars, cancelled, mode>>

\* The loop ends with both inputs, or with the context; then the deferred close.
MayReturn == (lines = "nil" /\ answersNil /\ ppc = "select")
             \/ (cancelled /\ ppc \in {"select", "event"})

Return ==
  /\ MayReturn
  /\ ppc' = "done"
  /\ eventsOpen' = FALSE
  /\ UNCHANGED <<tableVars, scoreVars, statVars, cur, queued, lines, answersNil, poolVars,
                 escVars, expVars, events, outVars, recVars, cancelled, mode>>

-----------------------------------------------------------------------------
(* The pool.                                                               *)

Take(w) ==
  /\ wpc[w] = "idle" /\ escalations # <<>>
  /\ job' = [job EXCEPT ![w] = Head(escalations)]
  /\ escalations' = Tail(escalations)
  /\ partials' = [partials EXCEPT ![w] = FALSE]
  /\ wpc' = [wpc EXCEPT ![w] = "calling"]
  /\ UNCHANGED <<reply, tableVars, scoreVars, statVars, runVars, escOpen, expVars,
                 evVars, outVars, recVars, cancelled, mode>>

AnswerTo(w, state, text) ==
  [hash |-> job[w].hash, flag |-> job[w].flag, state |-> state, text |-> text]

\* trySend: a partial that finds no room is dropped.
Partial(w, text) ==
  /\ wpc[w] = "calling" /\ Streaming /\ ~partials[w]
  /\ explanations' = IF Len(explanations) < AnswerRoom
                       THEN Append(explanations, AnswerTo(w, "pending", text))
                       ELSE explanations
  /\ partials' = [partials EXCEPT ![w] = TRUE]
  /\ UNCHANGED <<wpc, job, reply, tableVars, scoreVars, statVars, runVars, escVars, expOpen,
                 evVars, outVars, recVars, cancelled, mode>>

\* explain returns.  An aborted request is not a failed explanation (StopWorker).
Reply(w, state, text) ==
  /\ wpc[w] = "calling" /\ ~cancelled
  /\ reply' = [reply EXCEPT ![w] = AnswerTo(w, state, text)]
  /\ wpc' = [wpc EXCEPT ![w] = "sending"]
  /\ UNCHANGED <<job, partials, tableVars, scoreVars, statVars, runVars, escVars, expVars,
                 evVars, outVars, recVars, cancelled, mode>>

\* What a worker held goes out of scope.
Forget(w) ==
  /\ job' = [job EXCEPT ![w] = NoRequest]
  /\ reply' = [reply EXCEPT ![w] = NoAnswer]
  /\ partials' = [partials EXCEPT ![w] = FALSE]

SendAnswer(w) ==
  /\ wpc[w] = "sending" /\ Len(explanations) < AnswerRoom
  /\ explanations' = Append(explanations, reply[w])
  /\ wpc' = [wpc EXCEPT ![w] = "idle"]
  /\ Forget(w)
  /\ UNCHANGED <<tableVars, scoreVars, statVars, runVars, escVars,
                 expOpen, evVars, outVars, recVars, cancelled, mode>>

StopWorker(w) ==
  /\ \/ wpc[w] = "idle" /\ escalations = <<>> /\ ~escOpen
     \/ wpc[w] # "gone" /\ cancelled
  /\ wpc' = [wpc EXCEPT ![w] = "gone"]
  /\ Forget(w)
  /\ UNCHANGED <<tableVars, scoreVars, statVars, runVars, escVars,
                 expVars, evVars, outVars, recVars, cancelled, mode>>

PoolEnds ==
  /\ expOpen /\ \A w \in Workers : wpc[w] = "gone"
  /\ expOpen' = FALSE
  /\ UNCHANGED <<tableVars, scoreVars, statVars, runVars, poolVars, escVars, explanations,
                 evVars, outVars, recVars, cancelled, mode>>

-----------------------------------------------------------------------------
(* printPlain.                                                             *)

PrintEvent ==
  /\ printer = "run" /\ events > 0
  /\ events' = events - 1
  /\ UNCHANGED <<tableVars, scoreVars, statVars, runVars, poolVars, escVars, expVars,
                 eventsOpen, outVars, recVars, cancelled, mode>>

PrintAnswer ==
  /\ printer = "run" /\ ~outNil /\ explanations # <<>>
  /\ resolved' = Resolved(Head(explanations))
  /\ explanations' = Tail(explanations)
  /\ UNCHANGED <<tableVars, scoreVars, statVars, runVars, poolVars, escVars, expOpen,
                 evVars, outVars, flagSent, answered, cancelled, mode>>

\* A write to stdout fails: the printer returns the error, and so does run.  Nothing is
\* cancelled: main exits once run's deferred close of the export is done, and until then the
\* other goroutines go on.  The exit is not a step here, so they may go on for ever.
PrintFails ==
  /\ printer = "run"
  /\ \/ /\ events > 0 /\ events' = events - 1
        /\ UNCHANGED <<explanations, resolved>>
     \/ /\ ~outNil /\ explanations # <<>> /\ Terminal(Head(explanations))
        /\ resolved' = Resolved(Head(explanations))
        /\ explanations' = Tail(explanations)
        /\ UNCHANGED events
  /\ printer' = "failed"
  /\ UNCHANGED <<tableVars, scoreVars, statVars, runVars, poolVars, escVars, expOpen,
                 eventsOpen, eventsNil, outNil, flagSent, answered, cancelled, mode>>

EventsEnd ==
  /\ printer = "run" /\ ~eventsNil /\ events = 0 /\ ~eventsOpen
  /\ eventsNil' = TRUE
  /\ UNCHANGED <<tableVars, scoreVars, statVars, runVars, poolVars, escVars, expVars,
                 evVars, printer, outNil, recVars, cancelled, mode>>

PrinterAnswersEnd ==
  /\ printer = "run" /\ ~outNil /\ explanations = <<>> /\ ~expOpen
  /\ outNil' = TRUE
  /\ UNCHANGED <<tableVars, scoreVars, statVars, runVars, poolVars, escVars, expVars,
                 evVars, printer, eventsNil, recVars, cancelled, mode>>

PrinterReturns ==
  /\ printer = "run" /\ ((eventsNil /\ outNil) \/ cancelled)
  /\ printer' = "done"
  /\ UNCHANGED <<tableVars, scoreVars, statVars, runVars, poolVars, escVars, expVars,
                 evVars, eventsNil, outNil, recVars, cancelled, mode>>

-----------------------------------------------------------------------------
(* The environment: ingestion ends, the user interrupts.                   *)

IngestEnds ==
  /\ lines = "open" /\ lines' = "closed"
  /\ UNCHANGED <<tableVars, scoreVars, statVars, ppc, cur, queued, answersNil, poolVars,
                 escVars, expVars, evVars, outVars, recVars, cancelled, mode>>

Cancel ==
  /\ ~cancelled /\ cancelled' = TRUE
  /\ UNCHANGED <<tableVars, scoreVars, statVars, runVars, poolVars, escVars, expVars,
                 evVars, outVars, recVars, mode>>

Line == \E h \in Hashes : \E gone \in SUBSET Evictable(h) :
          QuietLine(h, gone) \/ FlaggedLine(h, gone)

Run == RecordFlag \/ SendEvent \/ Attach \/ AnswersEnd \/ LinesEnd \/ Return

Call(w) == \/ \E text \in {"none", "full"} : Reply(w, "done", text)
           \/ Reply(w, "failed", "none")

Worker(w) == Take(w) \/ Call(w) \/ SendAnswer(w) \/ StopWorker(w)

Printer == PrintEvent \/ PrintAnswer \/ EventsEnd \/ PrinterAnswersEnd \/ PrinterReturns

Environment == IngestEnds \/ Cancel \/ PrintFails \/ (\E h \in Hashes : Expire(h))

Next ==
  \/ Line \/ Run \/ PoolEnds \/ Printer \/ Environment
  \/ \E w \in Workers : Worker(w) \/ (\E text \in {"none", "some"} : Partial(w, text))

(***************************************************************************)
(* Fairness.  A goroutine that can run does run, and a call to the model   *)
(* returns (each attempt has a timeout).  A select picks at random among   *)
(* the cases that are ready, so a case that is ready again and again is    *)
(* taken: strong fairness, stated where other cases could stay ready for   *)
(* ever.  Lines, the end of ingestion, an interrupt, a failing stdout and  *)
(* the passing of time are the environment's.                              *)
(***************************************************************************)
Fairness ==
  /\ WF_vars(Run) /\ SF_vars(Attach) /\ SF_vars(Return)
  /\ WF_vars(Printer) /\ SF_vars(PrintAnswer) /\ SF_vars(PrinterReturns)
  /\ WF_vars(PoolEnds) /\ \A w \in Workers : WF_vars(Worker(w))

Spec == Init /\ [][Next]_vars /\ Fairness
-----------------------------------------------------------------------------
(* Properties.                                                             *)

TableOK ==
  /\ mode \in Modes /\ table \subseteq Hashes
  /\ last \in [Hashes -> 0..MaxFlags] /\ awaiting \in [Hashes -> Int]
  /\ card \in [Hashes -> Card]
  /\ cards \in Seq(Hashes) /\ Len(cards) <= CardsKept
  /\ fresh \subseteq Hashes /\ flags \in 0..MaxFlags

RunOK ==
  /\ ppc \in {"select", "flagging", "event", "done"}
  /\ cur \in Request \cup {NoRequest} /\ (ppc = "flagging" => cur \in Request)
  /\ queued \in BOOLEAN /\ lines \in {"open", "closed", "nil"} /\ answersNil \in BOOLEAN
  /\ explaining \in Int /\ explained \in Nat
  /\ explainFailed \in Nat /\ explainDropped \in Nat

PoolOK ==
  /\ escalations \in Seq(Request) /\ Len(escalations) <= Queue /\ escOpen \in BOOLEAN
  /\ wpc \in [Workers -> {"idle", "calling", "sending", "gone"}]
  /\ job \in [Workers -> Request \cup {NoRequest}]
  /\ reply \in [Workers -> Answer \cup {NoAnswer}]
  /\ \A w \in Workers : /\ wpc[w] \in {"calling", "sending"} => job[w] \in Request
                        /\ wpc[w] = "sending" => reply[w] \in Answer
  /\ partials \in [Workers -> BOOLEAN]
  /\ explanations \in Seq(Answer) /\ Len(explanations) <= AnswerRoom /\ expOpen \in BOOLEAN

OutOK ==
  /\ events \in 0..EventRoom /\ eventsOpen \in BOOLEAN
  /\ printer \in {"run", "done", "failed"} /\ eventsNil \in BOOLEAN /\ outNil \in BOOLEAN
  /\ cancelled \in BOOLEAN
  /\ flagSent \subseteq Flags /\ resolved \in [Flags -> Nat]
  /\ answered \in [Hashes -> BOOLEAN]

\* Every variable has its type; no channel holds more than its capacity.
TypeOK == TableOK /\ RunOK /\ PoolOK /\ OutOK

\* Where the terminal answer to a flag still is, before attach or the printer reads it.
Awaited(h, f) ==
  \/ \E i \in DOMAIN escalations : escalations[i] = [hash |-> h, flag |-> f]
  \/ \E w \in Workers : wpc[w] \in {"calling", "sending"} /\ job[w] = [hash |-> h, flag |-> f]
  \/ \E i \in DOMAIN explanations : /\ explanations[i].hash = h /\ explanations[i].flag = f
                                    /\ explanations[i].state # "pending"

\* The flag the pipeline goroutine has queued and not yet recorded.
Recording(f) == ppc = "flagging" /\ cur.flag = f

OutFor(h) == {f \in Flags : Awaited(h, f) /\ ~Recording(f)}
OutFlags  == {f \in Flags : ~Recording(f) /\ \E h \in Hashes : Awaited(h, f)}

\* An answer always finds its template: whatever is evicted while the model thinks, no
\* template with an answer on the way leaves the table, so attach's early return, which
\* would leave the counters wrong for the rest of the run, is never taken (pinned, attach).
AnswersFindTheirTemplate ==
  Routed => \A h \in Hashes, f \in Flags : Awaited(h, f) => h \in table

\* The "explaining" counter is the number of queued flags whose answer has not been
\* attached, and each template's Awaiting its own share, through answers that come back
\* out of order, fail, stream, or belong to an older flag (escalated, attach).
CountersAreExact ==
  Routed /\ ~cancelled =>
    /\ explaining = Cardinality(OutFlags)
    /\ \A h \in Hashes : awaiting[h] = Cardinality(OutFor(h))

\* A card says "explaining..." exactly while the answer to its template's newest flag is on
\* the way: never for ever, and never finished by an older flag's answer (escalated, attach).
CardFollowsNewestFlag ==
  Routed /\ ~cancelled =>
    \A h \in table : last[h] # 0 =>
      (card[h].state = "pending" <=> Awaited(h, last[h]))

\* While a template lives, the text on its card is never replaced by an older flag's,
\* whatever order the answers come back in (olderAnswer, #121).
CardNeverGoesBack ==
  [][\A h \in table \cap table' :
       card[h].text # "none" /\ card'[h].text # "none" => card'[h].flag >= card[h].flag]_vars

\* A failed re-explanation leaves the card the answer it had (keepEarlierAnswer).
EarlierAnswerSurvives ==
  \A h \in table : card[h].state = "failed" /\ answered[h] => card[h].text = "full"

\* The export is handed each flag's resolution at most once, whichever goroutine delivers
\* it, and not before the answer is read: what ExportWriter assumes of its callers with
\* MaxSends = 1 (attach, escalated, flagged, printPlain).
EachFlagResolvesOnce ==
  \A f \in Flags :
    /\ resolved[f] <= 1
    /\ resolved[f] = 1 => f <= flags /\ \A h \in Hashes : ~Awaited(h, f)

\* Every flag is resolved in the end, unless the run is interrupted or stdout fails: a
\* queue-full drop on the spot, any other by the pool's one terminal answer (the bound on
\* export's pairs).
EveryFlagIsResolved ==
  \A f \in Flags : (f <= flags) ~> (resolved[f] = 1 \/ cancelled \/ printer = "failed")

\* When ingestion ends, or the user interrupts, every goroutine returns: closing lines
\* closes escalations, then explanations, then the consumer's loop (Run, llm.Run).  Only a
\* failing stdout ends a run sooner, and then the process exits under its goroutines.
RunEnds ==
  (lines # "open" \/ cancelled) ~>
    \/ ppc = "done" /\ printer = "done" /\ \A w \in Workers : wpc[w] = "gone"
    \/ printer = "failed"

\* Both: the chain of closes neither stops the run from ending nor cuts off an answer.
RunEndsResolved == RunEnds /\ EveryFlagIsResolved
=============================================================================
