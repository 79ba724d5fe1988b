------------------------ MODULE FlagPipeline_proofs ------------------------
(***************************************************************************)
(* From a flag to its answer, for every set of templates and workers,      *)
(* every queue and mode: where a flag's request, partials and answer can   *)
(* be, and what that makes of the counters, the cards and the export's     *)
(* resolutions; and how a run ends.                                        *)
(***************************************************************************)
EXTENDS FlagPipeline, FiniteSetTheorems, SequenceTheorems, TLAPS

(***************************************************************************)
(* Types.  TypeOK says one thing more, of the collector's cards, on which  *)
(* nothing else below depends (CardsKeptAt).                               *)
(***************************************************************************)
TemplatesOK ==
  /\ mode \in Modes /\ table \subseteq Hashes
  /\ last \in [Hashes -> 0..MaxFlags] /\ awaiting \in [Hashes -> Int]
  /\ card \in [Hashes -> Card]
  /\ fresh \subseteq Hashes /\ flags \in 0..MaxFlags

Typed == TemplatesOK /\ RunOK /\ PoolOK /\ OutOK

\* Only a line, a flag being recorded and an answer touch what templates hold.
LEMMA TemplatesFrame ==
  [Next]_vars => \/ Line \/ RecordFlag \/ Attach \/ (\E h \in Hashes : Expire(h))
                 \/ UNCHANGED <<mode, tableVars, scoreVars, explaining, answered>>
  BY DEF Next, Run, SendEvent, AnswersEnd, LinesEnd, Return, PoolEnds, Printer, PrintEvent,
     PrintAnswer, EventsEnd, PrinterAnswersEnd, PrinterReturns, Environment, IngestEnds, Cancel,
     PrintFails, Worker, Take, Call, Reply, SendAnswer, StopWorker, Partial, Forget,
     statVars, recVars, vars

\* Where requests and answers are changes at these steps only.
LEMMA TokensFrame ==
  [Next]_vars =>
    \/ \E h \in Hashes : \E gone \in SUBSET Evictable(h) : FlaggedLine(h, gone)
    \/ Attach \/ PrintAnswer \/ PrintFails
    \/ \E w \in Workers : Worker(w) \/ (\E text \in {"none", "some"} : Partial(w, text))
    \/ UNCHANGED <<escalations, explanations, poolVars>>
  BY DEF Next, Line, QuietLine, LineArrives, Upsert, Run, RecordFlag, SendEvent, AnswersEnd,
     LinesEnd, CloseEscalations, Return, PoolEnds, Printer, PrintEvent, EventsEnd,
     PrinterAnswersEnd, PrinterReturns, Environment, IngestEnds, Cancel, Expire, escVars,
     expVars, vars

LEMMA ModeStays == [Next]_vars => mode' = mode
  BY DEF Next, Line, QuietLine, FlaggedLine, LineArrives, Upsert, Run, RecordFlag, SendEvent,
     Attach, AnswersEnd, LinesEnd, Return, PoolEnds, Printer, PrintEvent, PrintAnswer, EventsEnd,
     PrinterAnswersEnd, PrinterReturns, Environment, IngestEnds, Cancel, PrintFails, Expire,
     Worker, Take, Call, Reply, SendAnswer, StopWorker, Partial, Forget, vars

\* The pipeline goroutine's own state: between two lines, only its place changes.
LEMMA RunFrame ==
  [Next]_vars =>
    \/ \E h \in Hashes : \E gone \in SUBSET Evictable(h) : FlaggedLine(h, gone)
    \/ RecordFlag
    \/ UNCHANGED <<ppc, cur, queued>>
    \/ ppc # "flagging" /\ ppc' # "flagging" /\ UNCHANGED <<cur, queued>>
<1>1. ASSUME NEW h \in Hashes, NEW gone \in SUBSET Evictable(h), QuietLine(h, gone)
      PROVE  ppc # "flagging" /\ ppc' # "flagging" /\ UNCHANGED <<cur, queued>>
  BY <1>1 DEF QuietLine, LineArrives, AfterLine
<1>2. CASE SendEvent \/ Return
  BY <1>2 DEF SendEvent, Return, MayReturn
<1>3. CASE Attach \/ AnswersEnd \/ LinesEnd
  BY <1>3 DEF Attach, AnswersEnd, LinesEnd, runVars
<1>4. CASE PoolEnds \/ Printer \/ Environment \/ UNCHANGED vars
  BY <1>4 DEF PoolEnds, Printer, PrintEvent, PrintAnswer, EventsEnd,
     PrinterAnswersEnd, PrinterReturns, Environment, IngestEnds, Cancel, PrintFails, Expire,
     runVars, vars
<1>5. ASSUME NEW w \in Workers, Worker(w) \/ (\E text \in {"none", "some"} : Partial(w, text))
      PROVE  UNCHANGED <<ppc, cur, queued>>
  BY <1>5 DEF Worker, Take, Call, Reply, SendAnswer, StopWorker, Partial, Forget, runVars
<1> QED
  BY <1>1, <1>2, <1>3, <1>4, <1>5 DEF Next, Line, Run

\* Nobody revokes a cancel.
LEMMA CancelStays == [Next]_vars /\ cancelled => cancelled'
  BY DEF Next, Line, QuietLine, FlaggedLine, LineArrives, Upsert, Run, RecordFlag, SendEvent,
     Attach, AnswersEnd, LinesEnd, Return, PoolEnds, Printer, PrintEvent, PrintAnswer, EventsEnd,
     PrinterAnswersEnd, PrinterReturns, Environment, IngestEnds, Cancel, PrintFails, Expire,
     Worker, Take, Call, Reply, SendAnswer, StopWorker, Partial, Forget, vars


LEMMA CarriedTyped ==
  ASSUME NEW c \in Card, NEW f \in Flags, NEW s \in {"pending", "failed"}
  PROVE  Carried(c, f, s) \in Card
  BY PipelineAssumption DEF Card, Flags, Texts, Carried

LEMMA LandedTyped ==
  ASSUME NEW c \in Card, NEW ex \in Answer
  PROVE  /\ Landed(c, ex) \in Card
         /\ [state |-> c.state, flag |-> ex.flag, text |-> ex.text] \in Card
  BY PipelineAssumption DEF Card, Flags, Texts, Answer, Landed

LEMMA UpsertTyped ==
  ASSUME TemplatesOK, answered \in [Hashes -> BOOLEAN],
         NEW h \in Hashes, NEW gone \in SUBSET Evictable(h), Upsert(h, gone)
  PROVE  /\ table' \subseteq Hashes /\ last' \in [Hashes -> 0..MaxFlags]
         /\ awaiting' \in [Hashes -> Int] /\ card' \in [Hashes -> Card]
         /\ answered' \in [Hashes -> BOOLEAN]
<1>1. NoCard \in Card
  BY PipelineAssumption DEF NoCard, Card, Texts
<1>2. 0 \in 0..MaxFlags /\ 0 \in Int
  BY PipelineAssumption
<1> QED
  BY <1>1, <1>2 DEF TemplatesOK, Upsert, Evictable

\* The head of explanations is an answer to a flag.
LEMMA HeadIsAnswer ==
  ASSUME PoolOK, explanations # <<>>
  PROVE  /\ Head(explanations) \in Answer /\ Head(explanations).hash \in Hashes
         /\ Head(explanations).flag \in Flags
         /\ Tail(explanations) \in Seq(Answer) /\ Len(Tail(explanations)) = Len(explanations) - 1
         /\ Len(explanations) \in Nat
<1>1. explanations \in Seq(Answer)
  BY DEF PoolOK
<1>2. Len(explanations) \in Nat
  BY <1>1, LenProperties
<1>3. Head(explanations) \in Answer
  BY <1>1, HeadTailProperties
<1>4. Tail(explanations) \in Seq(Answer) /\ Len(Tail(explanations)) = Len(explanations) - 1
  BY <1>1, HeadTailProperties
<1> QED
  BY <1>2, <1>3, <1>4 DEF Answer

LEMMA TemplatesTyped == Typed /\ [Next]_vars => TemplatesOK' /\ (answered \in [Hashes -> BOOLEAN])'
<1> SUFFICES ASSUME Typed, [Next]_vars
             PROVE  TemplatesOK' /\ (answered \in [Hashes -> BOOLEAN])'
  OBVIOUS
<1> USE DEF Typed
<1>0. TemplatesOK /\ answered \in [Hashes -> BOOLEAN] /\ MaxFlags \in Nat
  BY PipelineAssumption DEF OutOK
<1>1. ASSUME NEW h \in Hashes, NEW gone \in SUBSET Evictable(h),
             QuietLine(h, gone) \/ FlaggedLine(h, gone)
      PROVE  TemplatesOK' /\ (answered \in [Hashes -> BOOLEAN])'
  <2>1. Upsert(h, gone) /\ mode' = mode
    BY <1>1 DEF QuietLine, FlaggedLine, LineArrives
  <2>2. fresh' \subseteq Hashes /\ flags' \in 0..MaxFlags
    BY <1>0, <1>1 DEF QuietLine, FlaggedLine, scoreVars, TemplatesOK
  <2> QED
    BY <1>0, <2>1, <2>2, UpsertTyped DEF TemplatesOK
<1>2. CASE RecordFlag
  <2>1. cur \in Request /\ cur.hash \in Hashes /\ cur.flag \in Flags
    BY <1>2 DEF RecordFlag, RunOK, Request
  <2>2. /\ last' \in [Hashes -> 0..MaxFlags]
        /\ UNCHANGED <<mode, table, fresh, flags, answered>>
    BY <1>0, <1>2, <2>1 DEF RecordFlag, scoreVars, TemplatesOK, Flags
  <2>3. \A s \in {"pending", "failed"} : Carried(card[cur.hash], cur.flag, s) \in Card
    BY <2>1, CarriedTyped, <1>0 DEF TemplatesOK
  <2>4. card' \in [Hashes -> Card] /\ awaiting' \in [Hashes -> Int]
    BY <1>0, <1>2, <2>1, <2>3 DEF RecordFlag, TemplatesOK
  <2> QED
    BY <1>0, <2>2, <2>4 DEF TemplatesOK
<1>3. CASE Attach
  <2> DEFINE ex == Head(explanations)
  <2>1. ex \in Answer /\ ex.hash \in Hashes /\ ex.flag \in Flags
    BY <1>3, HeadIsAnswer DEF Attach
  <2>2. NextCard(ex.hash, ex) \in Card
    BY <1>0, <2>1, LandedTyped DEF NextCard, TemplatesOK
  <2>3. UNCHANGED <<mode, table, last, fresh, flags>>
    BY <1>3 DEF Attach, scoreVars
  <2>4. card' \in [Hashes -> Card] /\ awaiting' \in [Hashes -> Int]
    BY <1>0, <1>3, <2>1, <2>2 DEF Attach, TemplatesOK
  <2>5. AnsweredBy(ex, answered[ex.hash]) \in BOOLEAN
    BY <1>0, <2>1 DEF AnsweredBy
  <2>6. answered' \in [Hashes -> BOOLEAN]
    BY <1>0, <1>3, <2>1, <2>5 DEF Attach
  <2> QED
    BY <1>0, <2>3, <2>4, <2>6 DEF TemplatesOK
<1>4. ASSUME NEW h \in Hashes, Expire(h)
      PROVE  TemplatesOK' /\ (answered \in [Hashes -> BOOLEAN])'
  BY <1>0, <1>4 DEF Expire, TemplatesOK, tableVars, recVars
<1>5. CASE UNCHANGED <<mode, tableVars, scoreVars, explaining, answered>>
  BY <1>0, <1>5 DEF TemplatesOK, tableVars, scoreVars
<1> QED
  BY <1>1, <1>2, <1>3, <1>4, <1>5, TemplatesFrame DEF Line

LEMMA RunTyped == Typed /\ [Next]_vars => RunOK'
<1> SUFFICES ASSUME Typed, [Next]_vars  PROVE RunOK'
  OBVIOUS
<1>0. RunOK /\ MaxFlags \in Nat /\ flags \in 0..MaxFlags
  BY PipelineAssumption DEF Typed, TemplatesOK
<1>1. ASSUME NEW h \in Hashes, NEW gone \in SUBSET Evictable(h), FlaggedLine(h, gone)
      PROVE  RunOK'
  <2>1. cur' \in Request
    BY <1>0, <1>1 DEF FlaggedLine, Request, Flags
  <2>2. queued' \in BOOLEAN
    BY <1>1 DEF FlaggedLine, ReportQueued, HasRoom, Explain
  <2> QED
    BY <1>0, <1>1, <2>1, <2>2 DEF FlaggedLine, RunOK, statVars
<1>2. ASSUME NEW h \in Hashes, NEW gone \in SUBSET Evictable(h), QuietLine(h, gone)
      PROVE  RunOK'
  BY <1>0, <1>2 DEF QuietLine, RunOK, statVars, AfterLine
<1>3. CASE RecordFlag
  <2>1. explaining' \in Int /\ explainFailed' \in Nat /\ explainDropped' \in Nat
    BY <1>0, <1>3 DEF RecordFlag, RunOK
  <2>2. ppc' \in {"select", "event"} /\ cur' = NoRequest /\ queued' = FALSE
    BY <1>3 DEF RecordFlag, AfterLine
  <2>3. UNCHANGED <<explained, lines, answersNil>>
    BY <1>3 DEF RecordFlag
  <2> QED
    BY <1>0, <2>1, <2>2, <2>3 DEF RunOK
<1>4. CASE SendEvent \/ AnswersEnd \/ LinesEnd \/ Return
  BY <1>0, <1>4 DEF SendEvent, AnswersEnd, LinesEnd, Return, RunOK, statVars
<1>5. CASE Attach
  BY <1>0, <1>5 DEF Attach, RunOK, runVars
<1>6. CASE IngestEnds
  BY <1>0, <1>6 DEF IngestEnds, RunOK, statVars
<1>7. CASE Printer \/ PoolEnds \/ Cancel \/ PrintFails \/ (\E h \in Hashes : Expire(h))
  BY <1>0, <1>7 DEF Printer, PrintEvent, PrintAnswer, EventsEnd, PrinterAnswersEnd,
     PrinterReturns, PoolEnds, Cancel, PrintFails, Expire, RunOK, statVars, runVars
<1>8. ASSUME NEW w \in Workers, Worker(w) \/ (\E text \in {"none", "some"} : Partial(w, text))
      PROVE  RunOK'
  BY <1>0, <1>8 DEF Worker, Take, Call, Reply, SendAnswer, StopWorker, Partial, Forget,
     RunOK, statVars, runVars
<1>9. CASE UNCHANGED vars
  BY <1>0, <1>9 DEF RunOK, vars, statVars, runVars
<1> QED
  BY <1>1, <1>2, <1>3, <1>4, <1>5, <1>6, <1>7, <1>8, <1>9 DEF Next, Line, Run, Environment

LEMMA AnswerRoomIsNat == AnswerRoom \in Nat
  BY PipelineAssumption, FS_CardinalityType DEF AnswerRoom

\* Reading the head of explanations.
LEMMA HeadReadTyped ==
  ASSUME PoolOK, explanations # <<>>, explanations' = Tail(explanations),
         UNCHANGED <<escalations, escOpen, poolVars, expOpen>>
  PROVE  PoolOK'
<1>1. explanations' \in Seq(Answer) /\ Len(explanations') <= AnswerRoom
  BY HeadIsAnswer, AnswerRoomIsNat DEF PoolOK
<1> QED
  BY <1>1 DEF PoolOK, poolVars

LEMMA PoolTyped == Typed /\ [Next]_vars => PoolOK'
<1> SUFFICES ASSUME Typed, [Next]_vars  PROVE PoolOK'
  OBVIOUS
<1>0. PoolOK /\ Queue \in Nat /\ AnswerRoom \in Nat /\ MaxFlags \in Nat
  BY PipelineAssumption, AnswerRoomIsNat DEF Typed
<1>1. ASSUME NEW h \in Hashes, NEW gone \in SUBSET Evictable(h), FlaggedLine(h, gone)
      PROVE  PoolOK'
  <2>1. cur' \in Request
    BY <1>0, <1>1 DEF FlaggedLine, Request, Flags, Typed, TemplatesOK
  <2>2. UNCHANGED <<poolVars, expVars, escOpen>>
    BY <1>1 DEF FlaggedLine
  <2>3. escalations \in Seq(Request)
    BY <1>0 DEF PoolOK
  <2>4. CASE HasRoom
    <3>1. escalations' = Append(escalations, cur')
      BY <1>1, <2>4 DEF FlaggedLine
    <3>2. escalations' \in Seq(Request) /\ Len(escalations') = Len(escalations) + 1
      BY <2>1, <2>3, <3>1, AppendProperties
    <3>3. Len(escalations) \in Nat /\ Len(escalations') <= Queue
      BY <1>0, <2>3, <2>4, <3>2, LenProperties DEF HasRoom
    <3> QED
      BY <1>0, <2>2, <3>2, <3>3 DEF PoolOK, poolVars, expVars
  <2>5. CASE ~HasRoom
    <3>1. escalations' = escalations
      BY <1>1, <2>5 DEF FlaggedLine
    <3> QED
      BY <1>0, <2>2, <3>1 DEF PoolOK, poolVars, expVars
  <2> QED
    BY <2>4, <2>5
<1>2. ASSUME NEW h \in Hashes, NEW gone \in SUBSET Evictable(h), QuietLine(h, gone)
      PROVE  PoolOK'
  BY <1>0, <1>2 DEF QuietLine, PoolOK, poolVars, expVars, escVars
<1>3. CASE RecordFlag \/ SendEvent \/ AnswersEnd \/ LinesEnd \/ Return
  BY <1>0, <1>3 DEF RecordFlag, SendEvent, AnswersEnd, LinesEnd, CloseEscalations, Return, PoolOK,
     poolVars, expVars, escVars
<1>4. CASE Attach
  BY <1>0, <1>4, HeadReadTyped DEF Attach, escVars
<1>5. CASE PrintAnswer \/ PrintFails
  <2>1. CASE explanations' = Tail(explanations) /\ explanations # <<>>
    BY <1>0, <1>5, <2>1, HeadReadTyped DEF PrintAnswer, PrintFails, escVars
  <2>2. CASE UNCHANGED explanations
    BY <1>0, <1>5, <2>2 DEF PrintAnswer, PrintFails, escVars, poolVars, PoolOK
  <2> QED
    BY <1>5, <2>1, <2>2 DEF PrintAnswer, PrintFails
<1>6. CASE PoolEnds \/ PrintEvent \/ EventsEnd \/ PrinterAnswersEnd \/ PrinterReturns
           \/ IngestEnds \/ Cancel \/ (\E h \in Hashes : Expire(h)) \/ UNCHANGED vars
  BY <1>0, <1>6 DEF PoolEnds, PrintEvent, EventsEnd, PrinterAnswersEnd, PrinterReturns, IngestEnds,
     Cancel, Expire, vars, PoolOK, poolVars, expVars, escVars
<1>7. ASSUME NEW w \in Workers, Take(w)  PROVE PoolOK'
  <2>1. escalations \in Seq(Request) /\ escalations # <<>>
    BY <1>0, <1>7 DEF PoolOK, Take
  <2>2. /\ Head(escalations) \in Request /\ escalations' \in Seq(Request)
        /\ Len(escalations') = Len(escalations) - 1 /\ Len(escalations) \in Nat
    BY <1>7, <2>1, HeadTailProperties, LenProperties DEF Take
  <2>3. Len(escalations') <= Queue
    BY <1>0, <2>2 DEF PoolOK
  <2>4. /\ wpc' = [wpc EXCEPT ![w] = "calling"] /\ job' = [job EXCEPT ![w] = Head(escalations)]
        /\ partials' = [partials EXCEPT ![w] = FALSE]
        /\ UNCHANGED <<reply, escOpen, explanations, expOpen>>
    BY <1>7 DEF Take, expVars
  <2> QED
    BY <1>0, <2>2, <2>3, <2>4 DEF PoolOK
<1>8. ASSUME NEW w \in Workers, NEW text \in {"none", "some"}, Partial(w, text)  PROVE PoolOK'
  <2>1. job[w] \in Request
    BY <1>0, <1>8 DEF PoolOK, Partial
  <2>2. AnswerTo(w, "pending", text) \in Answer
    BY <2>1 DEF AnswerTo, Answer, Request, Texts
  <2>3. explanations \in Seq(Answer)
    BY <1>0 DEF PoolOK
  <2>4. explanations' \in Seq(Answer) /\ Len(explanations') <= AnswerRoom
    BY <1>0, <1>8, <2>2, <2>3, AppendProperties, LenProperties DEF Partial, PoolOK
  <2>5. partials' \in [Workers -> BOOLEAN] /\ UNCHANGED <<wpc, job, reply, escalations, escOpen, expOpen>>
    BY <1>0, <1>8 DEF Partial, PoolOK, escVars
  <2> QED
    BY <1>0, <2>4, <2>5 DEF PoolOK
<1>9. ASSUME NEW w \in Workers, Call(w)  PROVE PoolOK'
  <2>1. PICK s \in {"done", "failed"}, t \in {"none", "full"} : Reply(w, s, t)
    BY <1>9 DEF Call
  <2>2. job[w] \in Request
    BY <1>0, <2>1 DEF PoolOK, Reply
  <2>3. AnswerTo(w, s, t) \in Answer
    BY <2>2 DEF AnswerTo, Answer, Request, Texts
  <2>4. reply' = [reply EXCEPT ![w] = AnswerTo(w, s, t)] /\ wpc' = [wpc EXCEPT ![w] = "sending"]
        /\ UNCHANGED <<job, partials, escalations, escOpen, explanations, expOpen>>
    BY <2>1 DEF Reply, escVars, expVars
  <2> QED
    BY <1>0, <2>2, <2>3, <2>4 DEF PoolOK
<1>10. ASSUME NEW w \in Workers, SendAnswer(w) \/ StopWorker(w)  PROVE PoolOK'
  <2>1. wpc' = [wpc EXCEPT ![w] = "idle"] \/ wpc' = [wpc EXCEPT ![w] = "gone"]
    BY <1>10 DEF SendAnswer, StopWorker
  <2>2. /\ job' = [job EXCEPT ![w] = NoRequest] /\ reply' = [reply EXCEPT ![w] = NoAnswer]
        /\ partials' = [partials EXCEPT ![w] = FALSE]
        /\ UNCHANGED <<escalations, escOpen, expOpen>>
    BY <1>10 DEF SendAnswer, StopWorker, Forget, escVars, expVars
  <2>3. explanations' \in Seq(Answer) /\ Len(explanations') <= AnswerRoom
    <3>1. CASE SendAnswer(w)
      BY <1>0, <3>1, AppendProperties, LenProperties DEF SendAnswer, PoolOK
    <3>2. CASE StopWorker(w)
      BY <1>0, <3>2 DEF StopWorker, expVars, PoolOK
    <3> QED
      BY <1>10, <3>1, <3>2
  <2> QED
    BY <1>0, <2>1, <2>2, <2>3 DEF PoolOK
<1> QED
  BY <1>1, <1>2, <1>3, <1>4, <1>5, <1>6, <1>7, <1>8, <1>9, <1>10
  DEF Next, Line, Run, Printer, Environment, Worker

LEMMA OutTyped == Typed /\ [Next]_vars => OutOK'
<1> SUFFICES ASSUME Typed, [Next]_vars  PROVE OutOK'
  OBVIOUS
<1>0. /\ OutOK /\ EventRoom \in Nat /\ MaxFlags \in Nat
      /\ resolved \in [Flags -> Nat] /\ events \in 0..EventRoom
  BY PipelineAssumption DEF Typed, OutOK
<1>1. (answered \in [Hashes -> BOOLEAN])'
  BY TemplatesTyped
<1>2. ASSUME explanations # <<>>
      PROVE  Resolved(Head(explanations)) \in [Flags -> Nat]
  BY <1>0, <1>2, HeadIsAnswer DEF Resolved, Typed
<1>3. CASE RecordFlag
  <2>1. cur.flag \in Flags
    BY <1>3 DEF RecordFlag, Typed, RunOK, Request
  <2>2. resolved' \in [Flags -> Nat] /\ flagSent' \subseteq Flags
    BY <1>0, <1>3, <2>1 DEF RecordFlag, QueueFull, OutOK
  <2> QED
    BY <1>0, <1>1, <1>3, <2>2 DEF RecordFlag, OutOK, evVars, outVars
<1>4. CASE Attach
  <2>1. resolved' \in [Flags -> Nat]
    BY <1>2, <1>4 DEF Attach
  <2> QED
    BY <1>0, <1>1, <1>4, <2>1 DEF Attach, OutOK, evVars, outVars
<1>5. CASE PrintAnswer \/ PrintFails
  <2>1. resolved' \in [Flags -> Nat]
    BY <1>0, <1>2, <1>5 DEF PrintAnswer, PrintFails
  <2>2. events' \in 0..EventRoom
    BY <1>0, <1>5 DEF PrintAnswer, PrintFails, evVars
  <2>3. UNCHANGED <<eventsOpen, eventsNil, outNil, flagSent>>
    BY <1>5 DEF PrintAnswer, PrintFails, evVars, outVars
  <2>4. printer' \in {"run", "done", "failed"} /\ cancelled' \in BOOLEAN
    BY <1>0, <1>5 DEF PrintAnswer, PrintFails, outVars, OutOK
  <2> QED
    BY <1>0, <1>1, <2>1, <2>2, <2>3, <2>4 DEF OutOK
<1>6. ASSUME NEW h \in Hashes, NEW gone \in SUBSET Evictable(h),
             QuietLine(h, gone) \/ FlaggedLine(h, gone)
      PROVE  OutOK'
  BY <1>0, <1>1, <1>6 DEF QuietLine, FlaggedLine, OutOK, evVars, outVars
<1>7. CASE SendEvent \/ AnswersEnd \/ LinesEnd \/ Return
  <2>1. events' \in 0..EventRoom /\ (eventsOpen' = eventsOpen \/ eventsOpen' = FALSE)
    BY <1>0, <1>7 DEF SendEvent, AnswersEnd, LinesEnd, Return, evVars
  <2>2. UNCHANGED <<outVars, recVars, cancelled>>
    BY <1>7 DEF SendEvent, AnswersEnd, LinesEnd, Return
  <2> QED
    BY <1>0, <2>1, <2>2 DEF OutOK, outVars, recVars
<1>8. CASE PoolEnds \/ PrintEvent \/ EventsEnd \/ PrinterAnswersEnd \/ PrinterReturns
           \/ IngestEnds \/ Cancel \/ (\E h \in Hashes : Expire(h)) \/ UNCHANGED vars
  <2>1. events' \in 0..EventRoom /\ eventsOpen' = eventsOpen
    BY <1>0, <1>8 DEF PoolEnds, PrintEvent, EventsEnd, PrinterAnswersEnd, PrinterReturns,
       IngestEnds, Cancel, Expire, vars, evVars
  <2>2. /\ printer' = printer \/ printer' = "done"
        /\ eventsNil' = eventsNil \/ eventsNil' = TRUE
        /\ outNil' = outNil \/ outNil' = TRUE
        /\ cancelled' = cancelled \/ cancelled' = TRUE
    BY <1>8 DEF PoolEnds, PrintEvent, EventsEnd, PrinterAnswersEnd, PrinterReturns,
       IngestEnds, Cancel, Expire, vars, outVars
  <2>3. UNCHANGED recVars
    BY <1>8 DEF PoolEnds, PrintEvent, EventsEnd, PrinterAnswersEnd, PrinterReturns,
       IngestEnds, Cancel, Expire, vars
  <2> QED
    BY <1>0, <2>1, <2>2, <2>3 DEF OutOK, recVars
<1>9. ASSUME NEW w \in Workers, Worker(w) \/ (\E text \in {"none", "some"} : Partial(w, text))
      PROVE  OutOK'
  BY <1>0, <1>1, <1>9 DEF Worker, Take, Call, Reply, SendAnswer, StopWorker, Partial, Forget,
     OutOK, evVars, outVars, recVars
<1> QED
  BY <1>3, <1>4, <1>5, <1>6, <1>7, <1>8, <1>9
  DEF Next, Line, Run, Printer, Environment

LEMMA InitTyped == Init => Typed
<1> SUFFICES ASSUME Init  PROVE Typed
  OBVIOUS
<1>0. /\ Queue \in Nat /\ AnswerRoom \in Nat /\ EventRoom \in Nat /\ MaxFlags \in Nat
  BY PipelineAssumption, AnswerRoomIsNat
<1>1. TemplatesOK
  BY <1>0 DEF Init, TemplatesOK, NoCard, Card, Texts
<1>2. RunOK
  <2>1. answersNil \in BOOLEAN
    BY DEF Init, Routed
  <2> QED
    <3>1. /\ ppc = "select" /\ cur = NoRequest /\ queued \in BOOLEAN /\ lines = "open"
          /\ explaining = 0 /\ explained = 0 /\ explainFailed = 0 /\ explainDropped = 0
      BY DEF Init
    <3> QED
      BY <2>1, <3>1 DEF RunOK
<1>3. PoolOK
  BY <1>0 DEF Init, PoolOK, Explain
<1>4. OutOK
  <2>1. eventsOpen \in BOOLEAN /\ outNil \in BOOLEAN
    BY DEF Init, Explain, Printed
  <2>2. printer \in {"run", "done", "failed"}
    BY DEF Init
  <2> QED
    <3>1. eventsNil \in BOOLEAN /\ cancelled \in BOOLEAN
          /\ answered \in [Hashes -> BOOLEAN]
      BY DEF Init
    <3>2. events = 0 /\ flagSent = {} /\ resolved \in [Flags -> Nat]
      BY DEF Init
    <3> QED
      BY <1>0, <2>1, <2>2, <3>1, <3>2 DEF OutOK
<1> QED
  BY <1>1, <1>2, <1>3, <1>4 DEF Typed

LEMMA TypedStep == Typed /\ [Next]_vars => Typed'
  BY TemplatesTyped, RunTyped, PoolTyped, OutTyped DEF Typed

-----------------------------------------------------------------------------
(***************************************************************************)
(* Where a flag's request or answer is.  Known is every place one can be,  *)
(* partials included; Awaited, of FlagPipeline, is where the terminal one  *)
(* still is.                                                               *)
(***************************************************************************)
Busy(w)      == wpc[w] \in {"calling", "sending"}
Holds(w, f)  == Busy(w) /\ job[w].flag = f
IsCur(h, f)  == ppc = "flagging" /\ cur = [hash |-> h, flag |-> f]
Shown(h, f)  == \E i \in DOMAIN explanations : explanations[i].hash = h /\ explanations[i].flag = f
Wanted(h, f) == Awaited(h, f) \/ Shown(h, f)
Known(h, f)  == Wanted(h, f) \/ IsCur(h, f)
Queued(f)    == \E i \in DOMAIN escalations : escalations[i].flag = f

\* A flag's request is in one place, and its terminal answer, once there is one, is the
\* last of its answers in the channel.
OnePlace ==
  /\ \A i, j \in DOMAIN escalations : escalations[i].flag = escalations[j].flag => i = j
  /\ \A v, w \in Workers, f \in Flags : Holds(v, f) /\ Holds(w, f) => v = w
  /\ \A f \in Flags : Queued(f) =>
       (\A w \in Workers : ~Holds(w, f)) /\ (\A h \in Hashes : ~Shown(h, f))
  /\ \A i \in DOMAIN explanations : explanations[i].state # "pending" =>
       /\ \A w \in Workers : ~Holds(w, explanations[i].flag)
       /\ \A j \in DOMAIN explanations : explanations[j].flag = explanations[i].flag => j <= i

\* What a worker is about to send is the terminal answer to its job.
Replies ==
  \A w \in Workers : wpc[w] = "sending" =>
    /\ reply[w].hash = job[w].hash /\ reply[w].flag = job[w].flag
    /\ reply[w].state # "pending"

\* A flag is one template's, and was minted.
OneTemplate ==
  /\ \A g, h \in Hashes, f \in Flags : Known(g, f) /\ Known(h, f) => g = h
  /\ \A h \in Hashes, f \in Flags : Known(h, f) => f <= flags

\* Unless the run is interrupted, a partial's terminal answer is on its way.
PartialsFirst ==
  ~cancelled => \A h \in Hashes, f \in Flags : Shown(h, f) => Awaited(h, f)

\* The flag the pipeline goroutine is recording is the newest; when it was not queued
\* nothing of it is anywhere.
Recorded ==
  /\ queued => Explain
  /\ ppc = "flagging" =>
       /\ cur.flag = flags
       /\ ~queued => \A h \in Hashes : ~Wanted(h, cur.flag)

TokenInv == OnePlace /\ Replies /\ OneTemplate /\ PartialsFirst /\ Recorded


InQueue(h, f)   == \E i \in DOMAIN escalations : escalations[i] = [hash |-> h, flag |-> f]
InHand(h, f)    == \E w \in Workers : Busy(w) /\ job[w] = [hash |-> h, flag |-> f]
Concluded(h, f) == \E i \in DOMAIN explanations :
                     /\ explanations[i].hash = h /\ explanations[i].flag = f
                     /\ explanations[i].state # "pending"

LEMMA Places ==
  \A h \in Hashes, f \in Flags : Awaited(h, f) <=> InQueue(h, f) \/ InHand(h, f) \/ Concluded(h, f)
  BY DEF Awaited, InQueue, InHand, Busy, Concluded

LEMMA AppendEntries ==
  ASSUME NEW S, NEW s \in Seq(S), NEW e \in S
  PROVE  /\ DOMAIN s \subseteq DOMAIN Append(s, e)
         /\ \A i \in DOMAIN s : Append(s, e)[i] = s[i] /\ i < Len(s) + 1
         /\ Len(s) + 1 \in DOMAIN Append(s, e) /\ Append(s, e)[Len(s) + 1] = e
         /\ \A i \in DOMAIN Append(s, e) : i \in DOMAIN s \/ i = Len(s) + 1
  BY AppendProperties, LenProperties

LEMMA TailEntries ==
  ASSUME NEW S, NEW s \in Seq(S), s # <<>>
  PROVE  /\ 1 \in DOMAIN s /\ s[1] = Head(s)
         /\ DOMAIN s \subseteq Nat /\ DOMAIN Tail(s) \subseteq Nat
         /\ \A i \in DOMAIN Tail(s) : i + 1 \in DOMAIN s /\ Tail(s)[i] = s[i + 1]
         /\ \A i \in DOMAIN s : i = 1 \/ (i - 1 \in DOMAIN Tail(s) /\ Tail(s)[i - 1] = s[i])
<1>1. /\ Len(s) \in Nat /\ DOMAIN s = 1..Len(s) /\ Len(s) # 0
  BY LenProperties, EmptySeq
<1>2. /\ Tail(s) \in Seq(S) /\ Len(Tail(s)) = Len(s) - 1
      /\ \A i \in 1..Len(Tail(s)) : Tail(s)[i] = s[i + 1]
  BY HeadTailProperties
<1>3. DOMAIN Tail(s) = 1..(Len(s) - 1)
  BY <1>2, LenProperties
<1>4. \A i \in DOMAIN s : i = 1 \/ (i - 1 \in DOMAIN Tail(s) /\ Tail(s)[i - 1] = s[i])
  <2> SUFFICES ASSUME NEW i \in DOMAIN s, i # 1
               PROVE  i - 1 \in DOMAIN Tail(s) /\ Tail(s)[i - 1] = s[i]
    OBVIOUS
  <2>1. i \in Nat /\ i - 1 \in 1..(Len(s) - 1) /\ (i - 1) + 1 = i
    BY <1>1
  <2> QED
    BY <2>1, <1>2, <1>3
<1> QED
  BY <1>1, <1>2, <1>3, <1>4

LEMMA Channels ==
  ASSUME PoolOK
  PROVE  /\ escalations \in Seq(Request) /\ explanations \in Seq(Answer)
         /\ \A i \in DOMAIN escalations : escalations[i] \in Request
         /\ \A i \in DOMAIN explanations : explanations[i] \in Answer
  BY LenProperties DEF PoolOK

(***************************************************************************)
(* What each step does to the places.                                      *)
(***************************************************************************)
LEMMA FlaggedPlaces ==
  ASSUME Typed, NEW k \in Hashes, NEW gone \in SUBSET Evictable(k), FlaggedLine(k, gone)
  PROVE  /\ UNCHANGED <<explanations, poolVars>>
         /\ cur' = [hash |-> k, flag |-> flags + 1] /\ cur' \in Request /\ flags' = flags + 1
         /\ ppc = "select" /\ ppc' = "flagging" /\ (queued' => Explain)
         /\ escalations' = IF queued' THEN Append(escalations, cur') ELSE escalations
         /\ \A h \in Hashes, f \in Flags :
              /\ InQueue(h, f)' <=> InQueue(h, f) \/ (queued' /\ h = k /\ f = flags + 1)
              /\ (InHand(h, f)' <=> InHand(h, f)) /\ (Concluded(h, f)' <=> Concluded(h, f))
              /\ Shown(h, f)' <=> Shown(h, f)
<1>1. /\ UNCHANGED <<explanations, poolVars>>
      /\ cur' = [hash |-> k, flag |-> flags + 1] /\ flags' = flags + 1
      /\ ppc = "select" /\ ppc' = "flagging" /\ (queued' => Explain)
  BY DEF FlaggedLine, LineArrives, expVars, ReportQueued, HasRoom
<1>2. escalations' = IF queued' THEN Append(escalations, cur') ELSE escalations
  BY DEF FlaggedLine, ReportQueued, HasRoom
<1>3. cur' \in Request
  BY <1>1, PipelineAssumption DEF FlaggedLine, Request, Flags, Typed, TemplatesOK
<1>4. ASSUME NEW h \in Hashes, NEW f \in Flags
      PROVE  InQueue(h, f)' <=> InQueue(h, f) \/ (queued' /\ h = k /\ f = flags + 1)
  <2>1. CASE ~queued'
    BY <1>2, <2>1 DEF InQueue
  <2>2. CASE queued'
    <3>1. escalations \in Seq(Request)
      BY DEF Typed, PoolOK
    <3> DEFINE e == cur'
    <3>2. e \in Request /\ escalations' = Append(escalations, e)
      BY <1>2, <1>3, <2>2
    <3>3. e = [hash |-> h, flag |-> f] <=> h = k /\ f = flags + 1
      BY <1>1
    <3> HIDE DEF e
    <3> QED
      BY <2>2, <3>1, <3>2, <3>3, AppendEntries DEF InQueue
  <2> QED
    BY <2>1, <2>2
<1>5. \A h \in Hashes, f \in Flags :
        /\ (InHand(h, f)' <=> InHand(h, f)) /\ (Concluded(h, f)' <=> Concluded(h, f))
        /\ Shown(h, f)' <=> Shown(h, f)
  BY <1>1 DEF InHand, Busy, Concluded, Shown, poolVars
<1> QED
  BY <1>1, <1>2, <1>3, <1>4, <1>5

LEMMA TakePlaces ==
  ASSUME Typed, OnePlace, NEW w \in Workers, Take(w)
  PROVE  /\ escalations # <<>> /\ Head(escalations) \in Request
         /\ escalations' = Tail(escalations) /\ UNCHANGED explanations
         /\ ~Busy(w) /\ Busy(w)' /\ job'[w] = Head(escalations) /\ wpc'[w] = "calling"
         /\ \A v \in Workers \ {w} : (Busy(v)' <=> Busy(v)) /\ job'[v] = job[v]
         /\ \A h \in Hashes, f \in Flags :
              /\ InQueue(h, f)' => InQueue(h, f)
              /\ InHand(h, f)' <=> InHand(h, f) \/ Head(escalations) = [hash |-> h, flag |-> f]
              /\ InQueue(h, f) <=> InQueue(h, f)' \/ Head(escalations) = [hash |-> h, flag |-> f]
              /\ (Concluded(h, f)' <=> Concluded(h, f)) /\ (Shown(h, f)' <=> Shown(h, f))
<1>1. /\ escalations # <<>> /\ escalations' = Tail(escalations) /\ UNCHANGED explanations
      /\ wpc[w] = "idle"
      /\ wpc' = [wpc EXCEPT ![w] = "calling"] /\ job' = [job EXCEPT ![w] = Head(escalations)]
  BY DEF Take, expVars
<1>2. /\ escalations \in Seq(Request) /\ wpc \in [Workers -> {"idle", "calling", "sending", "gone"}]
      /\ job \in [Workers -> Request \cup {NoRequest}]
  BY DEF Typed, PoolOK
<1>3. Head(escalations) \in Request
  BY <1>1, <1>2, HeadTailProperties
<1>4. /\ ~Busy(w) /\ Busy(w)' /\ job'[w] = Head(escalations) /\ wpc'[w] = "calling"
      /\ \A v \in Workers \ {w} : (Busy(v)' <=> Busy(v)) /\ job'[v] = job[v]
  BY <1>1, <1>2 DEF Busy
<1>5. ASSUME NEW h \in Hashes, NEW f \in Flags
      PROVE  /\ InQueue(h, f)' => InQueue(h, f)
             /\ InQueue(h, f) <=> InQueue(h, f)' \/ Head(escalations) = [hash |-> h, flag |-> f]
  <2> DEFINE r == [hash |-> h, flag |-> f]
  <2>1. /\ 1 \in DOMAIN escalations /\ escalations[1] = Head(escalations)
        /\ \A i \in DOMAIN escalations' : i + 1 \in DOMAIN escalations /\ escalations'[i] = escalations[i + 1]
        /\ \A i \in DOMAIN escalations : i = 1 \/ (i - 1 \in DOMAIN escalations' /\ escalations'[i - 1] = escalations[i])
    BY <1>1, <1>2, TailEntries
  <2> HIDE DEF r
  <2>2. (\E i \in DOMAIN escalations' : escalations'[i] = r) => (\E i \in DOMAIN escalations : escalations[i] = r)
    BY <2>1
  <2>3. (\E i \in DOMAIN escalations : escalations[i] = r) =>
        Head(escalations) = r \/ (\E i \in DOMAIN escalations' : escalations'[i] = r)
    BY <2>1
  <2>4. Head(escalations) = r => (\E i \in DOMAIN escalations : escalations[i] = r)
    BY <2>1
  <2> QED
    BY <2>2, <2>3, <2>4 DEF InQueue, r
<1>6. ASSUME NEW h \in Hashes, NEW f \in Flags
      PROVE  InHand(h, f)' <=> InHand(h, f) \/ Head(escalations) = [hash |-> h, flag |-> f]
  <2> DEFINE r == Head(escalations)
  <2>1. job'[w] = r /\ ~Busy(w) /\ Busy(w)'
    BY <1>4
  <2> HIDE DEF r
  <2> QED
    BY <1>4, <2>1 DEF InHand, r
<1>7. \A h \in Hashes, f \in Flags :
        (Concluded(h, f)' <=> Concluded(h, f)) /\ (Shown(h, f)' <=> Shown(h, f))
  BY <1>1 DEF Concluded, Shown
<1> QED
  BY <1>1, <1>3, <1>4, <1>5, <1>6, <1>7

LEMMA PartialPlaces ==
  ASSUME Typed, NEW w \in Workers, NEW text \in {"none", "some"}, Partial(w, text)
  PROVE  /\ UNCHANGED <<escalations, wpc, job, reply>>
         /\ Busy(w) /\ job[w] \in Request
         /\ AnswerTo(w, "pending", text) \in Answer
         /\ \/ UNCHANGED explanations
            \/ explanations' = Append(explanations, AnswerTo(w, "pending", text))
         /\ \A h \in Hashes, f \in Flags :
              /\ (InQueue(h, f)' <=> InQueue(h, f)) /\ (InHand(h, f)' <=> InHand(h, f))
              /\ Concluded(h, f)' <=> Concluded(h, f)
              /\ Shown(h, f)' => Shown(h, f) \/ job[w] = [hash |-> h, flag |-> f]
              /\ Shown(h, f) => Shown(h, f)'
<1> DEFINE e == AnswerTo(w, "pending", text)
<1>1. /\ UNCHANGED <<escalations, wpc, job, reply>>
      /\ UNCHANGED explanations \/ explanations' = Append(explanations, e)
      /\ Busy(w)
  BY DEF Partial, escVars, Busy
<1>2. explanations \in Seq(Answer) /\ job[w] \in Request
  BY <1>1 DEF Typed, PoolOK, Busy
<1>3. e \in Answer /\ e.state = "pending" /\ e.hash = job[w].hash /\ e.flag = job[w].flag
  BY <1>2 DEF AnswerTo, Answer, Request, Texts
<1>4. \A h \in Hashes, f \in Flags :
        (InQueue(h, f)' <=> InQueue(h, f)) /\ (InHand(h, f)' <=> InHand(h, f))
  BY <1>1 DEF InQueue, InHand, Busy
<1>5. \A h \in Hashes, f \in Flags :
        e.hash = h /\ e.flag = f => job[w] = [hash |-> h, flag |-> f]
  BY <1>2, <1>3 DEF Request
<1> HIDE DEF e
<1>6. ASSUME NEW h \in Hashes, NEW f \in Flags
      PROVE  /\ Concluded(h, f)' <=> Concluded(h, f)
             /\ Shown(h, f)' => Shown(h, f) \/ job[w] = [hash |-> h, flag |-> f]
             /\ Shown(h, f) => Shown(h, f)'
  <2>1. CASE UNCHANGED explanations
    BY <2>1 DEF Concluded, Shown
  <2>2. CASE explanations' = Append(explanations, e)
    <3>1. Concluded(h, f)' <=> Concluded(h, f)
      BY <1>2, <1>3, <2>2, AppendEntries DEF Concluded
    <3>2. /\ Shown(h, f)' => Shown(h, f) \/ job[w] = [hash |-> h, flag |-> f]
          /\ Shown(h, f) => Shown(h, f)'
      BY <1>2, <1>3, <1>5, <2>2, AppendEntries DEF Shown
    <3> QED
      BY <3>1, <3>2
  <2> QED
    BY <1>1, <2>1, <2>2
<1> QED
  BY <1>1, <1>2, <1>3, <1>4, <1>6 DEF e

LEMMA ReplyPlaces ==
  ASSUME Typed, NEW w \in Workers, Call(w)
  PROVE  /\ UNCHANGED <<escalations, explanations, job>>
         /\ Busy(w) /\ wpc'[w] = "sending"
         /\ \A v \in Workers : Busy(v)' <=> Busy(v)
         /\ \A v \in Workers \ {w} : reply'[v] = reply[v] /\ wpc'[v] = wpc[v]
         /\ reply'[w].hash = job[w].hash /\ reply'[w].flag = job[w].flag
         /\ reply'[w].state # "pending"
         /\ reply'[w].state = "failed" => reply'[w].text = "none"
         /\ reply'[w].state = "done" => reply'[w].text # "some"
         /\ \A h \in Hashes, f \in Flags :
              /\ (InQueue(h, f)' <=> InQueue(h, f)) /\ (InHand(h, f)' <=> InHand(h, f))
              /\ (Concluded(h, f)' <=> Concluded(h, f)) /\ (Shown(h, f)' <=> Shown(h, f))
<1>1. PICK s \in {"done", "failed"}, t \in {"none", "full"} :
        Reply(w, s, t) /\ (s = "failed" => t = "none")
  BY DEF Call
<1>2. /\ reply' = [reply EXCEPT ![w] = AnswerTo(w, s, t)] /\ wpc' = [wpc EXCEPT ![w] = "sending"]
      /\ UNCHANGED <<escalations, explanations, job>> /\ wpc[w] = "calling"
  BY <1>1 DEF Reply, escVars, expVars
<1>3. /\ wpc \in [Workers -> {"idle", "calling", "sending", "gone"}]
      /\ reply \in [Workers -> Answer \cup {NoAnswer}]
  BY DEF Typed, PoolOK
<1>4. /\ Busy(w) /\ wpc'[w] = "sending"
      /\ \A v \in Workers : Busy(v)' <=> Busy(v)
      /\ \A v \in Workers \ {w} : reply'[v] = reply[v] /\ wpc'[v] = wpc[v]
      /\ reply'[w] = AnswerTo(w, s, t)
  BY <1>2, <1>3 DEF Busy
<1>5. \A h \in Hashes, f \in Flags :
        /\ (InQueue(h, f)' <=> InQueue(h, f)) /\ (InHand(h, f)' <=> InHand(h, f))
        /\ (Concluded(h, f)' <=> Concluded(h, f)) /\ (Shown(h, f)' <=> Shown(h, f))
  BY <1>2, <1>4 DEF InQueue, InHand, Concluded, Shown
<1> QED
  BY <1>1, <1>2, <1>4, <1>5 DEF AnswerTo

LEMMA SendPlaces ==
  ASSUME Typed, Replies, OnePlace, NEW w \in Workers, SendAnswer(w)
  PROVE  /\ UNCHANGED escalations
         /\ Busy(w) /\ ~Busy(w)' /\ job[w] \in Request /\ reply[w] \in Answer
         /\ wpc[w] = "sending" /\ reply[w].state # "pending"
         /\ reply[w].hash = job[w].hash /\ reply[w].flag = job[w].flag
         /\ explanations' = Append(explanations, reply[w])
         /\ \A v \in Workers \ {w} : /\ (Busy(v)' <=> Busy(v)) /\ job'[v] = job[v]
                                     /\ wpc'[v] = wpc[v] /\ reply'[v] = reply[v]
         /\ \A h \in Hashes, f \in Flags :
              /\ InQueue(h, f)' <=> InQueue(h, f)
              /\ InHand(h, f) <=> InHand(h, f)' \/ job[w] = [hash |-> h, flag |-> f]
              /\ Concluded(h, f)' <=> Concluded(h, f) \/ job[w] = [hash |-> h, flag |-> f]
              /\ Shown(h, f)' <=> Shown(h, f) \/ job[w] = [hash |-> h, flag |-> f]
<1>1. /\ UNCHANGED escalations /\ wpc[w] = "sending"
      /\ explanations' = Append(explanations, reply[w])
      /\ wpc' = [wpc EXCEPT ![w] = "idle"]
      /\ job' = [job EXCEPT ![w] = NoRequest] /\ reply' = [reply EXCEPT ![w] = NoAnswer]
  BY DEF SendAnswer, Forget, escVars
<1>2. /\ wpc \in [Workers -> {"idle", "calling", "sending", "gone"}]
      /\ job \in [Workers -> Request \cup {NoRequest}]
      /\ reply \in [Workers -> Answer \cup {NoAnswer}]
      /\ explanations \in Seq(Answer)
      /\ job[w] \in Request /\ reply[w] \in Answer
  BY <1>1 DEF Typed, PoolOK
<1>3. reply[w].hash = job[w].hash /\ reply[w].flag = job[w].flag /\ reply[w].state # "pending"
  BY <1>1 DEF Replies
<1>4. /\ Busy(w) /\ ~Busy(w)'
      /\ \A v \in Workers \ {w} : /\ (Busy(v)' <=> Busy(v)) /\ job'[v] = job[v]
                                  /\ wpc'[v] = wpc[v] /\ reply'[v] = reply[v]
  BY <1>1, <1>2 DEF Busy
<1>5. ASSUME NEW h \in Hashes, NEW f \in Flags
      PROVE  InHand(h, f) <=> InHand(h, f)' \/ job[w] = [hash |-> h, flag |-> f]
  BY <1>4 DEF InHand
<1>6. ASSUME NEW h \in Hashes, NEW f \in Flags
      PROVE  /\ Concluded(h, f)' <=> Concluded(h, f) \/ job[w] = [hash |-> h, flag |-> f]
             /\ Shown(h, f)' <=> Shown(h, f) \/ job[w] = [hash |-> h, flag |-> f]
  <2> DEFINE e == reply[w]
  <2>1. (e.hash = h /\ e.flag = f) <=> job[w] = [hash |-> h, flag |-> f]
    BY <1>2, <1>3 DEF Request
  <2>2. e \in Answer /\ e.state # "pending" /\ explanations' = Append(explanations, e)
    BY <1>1, <1>2, <1>3
  <2> HIDE DEF e
  <2>3. Shown(h, f)' <=> Shown(h, f) \/ (e.hash = h /\ e.flag = f)
    BY <1>2, <2>2, AppendEntries DEF Shown
  <2>4. Concluded(h, f)' <=> Concluded(h, f) \/ (e.hash = h /\ e.flag = f)
    BY <1>2, <2>2, AppendEntries DEF Concluded
  <2> QED
    BY <2>1, <2>3, <2>4
<1>7. \A h \in Hashes, f \in Flags : InQueue(h, f)' <=> InQueue(h, f)
  BY <1>1 DEF InQueue
<1> QED
  BY <1>1, <1>2, <1>3, <1>4, <1>5, <1>6, <1>7

LEMMA StopPlaces ==
  ASSUME Typed, NEW w \in Workers, StopWorker(w)
  PROVE  /\ UNCHANGED <<escalations, explanations, cancelled>>
         /\ ~Busy(w)' /\ (~cancelled => ~Busy(w)) /\ wpc'[w] = "gone"
         /\ \A v \in Workers \ {w} : /\ (Busy(v)' <=> Busy(v)) /\ job'[v] = job[v]
                                     /\ wpc'[v] = wpc[v] /\ reply'[v] = reply[v]
         /\ \A h \in Hashes, f \in Flags :
              /\ (InQueue(h, f)' <=> InQueue(h, f))
              /\ InHand(h, f)' => InHand(h, f)
              /\ ~cancelled => (InHand(h, f) => InHand(h, f)')
              /\ (Concluded(h, f)' <=> Concluded(h, f)) /\ (Shown(h, f)' <=> Shown(h, f))
<1>1. /\ UNCHANGED <<escalations, explanations, cancelled>>
      /\ ~cancelled => wpc[w] = "idle"
      /\ wpc' = [wpc EXCEPT ![w] = "gone"]
      /\ job' = [job EXCEPT ![w] = NoRequest] /\ reply' = [reply EXCEPT ![w] = NoAnswer]
  BY DEF StopWorker, Forget, escVars, expVars
<1>2. /\ wpc \in [Workers -> {"idle", "calling", "sending", "gone"}]
      /\ job \in [Workers -> Request \cup {NoRequest}]
      /\ reply \in [Workers -> Answer \cup {NoAnswer}]
  BY DEF Typed, PoolOK
<1>3. /\ ~Busy(w)' /\ (~cancelled => ~Busy(w)) /\ wpc'[w] = "gone"
      /\ \A v \in Workers \ {w} : /\ (Busy(v)' <=> Busy(v)) /\ job'[v] = job[v]
                                  /\ wpc'[v] = wpc[v] /\ reply'[v] = reply[v]
  BY <1>1, <1>2 DEF Busy
<1>4. \A h \in Hashes, f \in Flags :
        InHand(h, f)' => InHand(h, f)
  BY <1>3 DEF InHand
<1>5. ~cancelled => \A h \in Hashes, f \in Flags : InHand(h, f) => InHand(h, f)'
  BY <1>3 DEF InHand
<1>6. \A h \in Hashes, f \in Flags :
        /\ (InQueue(h, f)' <=> InQueue(h, f))
        /\ (Concluded(h, f)' <=> Concluded(h, f)) /\ (Shown(h, f)' <=> Shown(h, f))
  BY <1>1 DEF InQueue, Concluded, Shown
<1> QED
  BY <1>1, <1>3, <1>4, <1>5, <1>6

\* attach and the printer take the answer at the head.
Reads == explanations # <<>> /\ explanations' = Tail(explanations)

LEMMA ReadPlaces ==
  ASSUME Typed, OnePlace, Reads, UNCHANGED <<escalations, poolVars>>
  PROVE  LET ex == Head(explanations)
         IN  \A h \in Hashes, f \in Flags :
               /\ (InQueue(h, f)' <=> InQueue(h, f)) /\ (InHand(h, f)' <=> InHand(h, f))
               /\ ex.state = "pending" => (Concluded(h, f)' <=> Concluded(h, f))
               /\ ex.state # "pending" =>
                    /\ Concluded(h, f)' <=> Concluded(h, f) /\ ~(ex.hash = h /\ ex.flag = f)
                    /\ ex.hash = h /\ ex.flag = f => Concluded(h, f) /\ ~Shown(h, f)'
               /\ Shown(h, f)' => Shown(h, f)
               /\ Shown(h, f) => Shown(h, f)' \/ (ex.hash = h /\ ex.flag = f)
               /\ ex.hash = h /\ ex.flag = f => Shown(h, f)
<1> DEFINE ex == Head(explanations)
<1> SUFFICES ASSUME NEW h \in Hashes, NEW f \in Flags
             PROVE  /\ (InQueue(h, f)' <=> InQueue(h, f)) /\ (InHand(h, f)' <=> InHand(h, f))
                    /\ ex.state = "pending" => (Concluded(h, f)' <=> Concluded(h, f))
                    /\ ex.state # "pending" =>
                         /\ Concluded(h, f)' <=> Concluded(h, f) /\ ~(ex.hash = h /\ ex.flag = f)
                         /\ ex.hash = h /\ ex.flag = f => Concluded(h, f) /\ ~Shown(h, f)'
                    /\ Shown(h, f)' => Shown(h, f)
                    /\ Shown(h, f) => Shown(h, f)' \/ (ex.hash = h /\ ex.flag = f)
                    /\ ex.hash = h /\ ex.flag = f => Shown(h, f)
  OBVIOUS
<1>1. /\ 1 \in DOMAIN explanations /\ explanations[1] = ex
      /\ DOMAIN explanations \subseteq Nat /\ DOMAIN explanations' \subseteq Nat
      /\ \A i \in DOMAIN explanations' : i + 1 \in DOMAIN explanations /\ explanations'[i] = explanations[i + 1]
      /\ \A i \in DOMAIN explanations : i = 1 \/ (i - 1 \in DOMAIN explanations' /\ explanations'[i - 1] = explanations[i])
  BY TailEntries DEF Reads, Typed, PoolOK
<1>2. \A i \in DOMAIN explanations' : i \in Nat /\ i + 1 > 1
  <2>1. explanations' \in Seq(Answer)
    BY HeadIsAnswer DEF Reads, Typed
  <2> QED
    BY <2>1, LenProperties
<1>3. (InQueue(h, f)' <=> InQueue(h, f)) /\ (InHand(h, f)' <=> InHand(h, f))
  BY DEF InQueue, InHand, Busy, poolVars
<1>4. ex.state # "pending" =>
        \A i \in DOMAIN explanations' : explanations'[i].flag # ex.flag
  BY <1>1, <1>2 DEF OnePlace
<1> HIDE DEF ex
<1>5. /\ Shown(h, f)' => Shown(h, f)
      /\ Shown(h, f) => Shown(h, f)' \/ (ex.hash = h /\ ex.flag = f)
      /\ ex.hash = h /\ ex.flag = f => Shown(h, f)
  BY <1>1 DEF Shown
<1>6. /\ Concluded(h, f)' => Concluded(h, f)
      /\ Concluded(h, f) => Concluded(h, f)' \/ (ex.state # "pending" /\ ex.hash = h /\ ex.flag = f)
      /\ ex.state # "pending" /\ ex.hash = h /\ ex.flag = f => Concluded(h, f)
  BY <1>1 DEF Concluded
<1>7. ex.state # "pending" /\ ex.hash = h /\ ex.flag = f => ~Shown(h, f)' /\ ~Concluded(h, f)'
  BY <1>4 DEF Shown, Concluded
<1> QED
  BY <1>3, <1>5, <1>6, <1>7 DEF ex

LEMMA OtherPlaces ==
  ASSUME UNCHANGED <<escalations, explanations, poolVars>>
  PROVE  \A h \in Hashes, f \in Flags :
           /\ (InQueue(h, f)' <=> InQueue(h, f)) /\ (InHand(h, f)' <=> InHand(h, f))
           /\ (Concluded(h, f)' <=> Concluded(h, f)) /\ (Shown(h, f)' <=> Shown(h, f))
  BY DEF InQueue, InHand, Busy, Concluded, Shown, poolVars

LEMMA Moves ==
  [Next]_vars =>
    \/ \E k \in Hashes : \E gone \in SUBSET Evictable(k) : FlaggedLine(k, gone)
    \/ \E w \in Workers : \/ Take(w) \/ Call(w) \/ SendAnswer(w) \/ StopWorker(w)
                          \/ \E text \in {"none", "some"} : Partial(w, text)
    \/ Reads /\ UNCHANGED <<escalations, poolVars>>
    \/ UNCHANGED <<escalations, explanations, poolVars>>
  BY TokensFrame DEF Worker, Attach, PrintAnswer, PrintFails, Reads, escVars

\* A flag nobody has minted is nowhere.
LEMMA NewFlag ==
  ASSUME Typed, OneTemplate, flags + 1 \in Flags
  PROVE  /\ \A i \in DOMAIN escalations : escalations[i].flag # flags + 1
         /\ \A w \in Workers : ~Holds(w, flags + 1)
         /\ \A i \in DOMAIN explanations : explanations[i].flag # flags + 1
         /\ \A h \in Hashes : ~Wanted(h, flags + 1)
<1>0. flags \in Nat /\ PoolOK
  BY PipelineAssumption DEF Typed, TemplatesOK
<1>1. \A h \in Hashes : ~Wanted(h, flags + 1)
  BY <1>0 DEF OneTemplate, Known
<1>2. \A i \in DOMAIN escalations : escalations[i].flag # flags + 1
  <2> SUFFICES ASSUME NEW i \in DOMAIN escalations, escalations[i].flag = flags + 1  PROVE FALSE
    OBVIOUS
  <2>1. escalations[i] \in Request
    BY <1>0, Channels
  <2>2. InQueue(escalations[i].hash, flags + 1)
    BY <2>1 DEF InQueue, Request
  <2> QED
    BY <1>1, <2>1, <2>2, Places DEF Wanted, Request
<1>3. \A w \in Workers : ~Holds(w, flags + 1)
  <2> SUFFICES ASSUME NEW w \in Workers, Holds(w, flags + 1)  PROVE FALSE
    OBVIOUS
  <2>1. job[w] \in Request
    BY <1>0 DEF PoolOK, Holds, Busy
  <2>2. InHand(job[w].hash, flags + 1)
    BY <2>1 DEF InHand, Holds, Request
  <2> QED
    BY <1>1, <2>1, <2>2, Places DEF Wanted, Request
<1>4. \A i \in DOMAIN explanations : explanations[i].flag # flags + 1
  <2> SUFFICES ASSUME NEW i \in DOMAIN explanations, explanations[i].flag = flags + 1  PROVE FALSE
    OBVIOUS
  <2>1. explanations[i] \in Answer
    BY <1>0, Channels
  <2> QED
    BY <1>1, <2>1 DEF Wanted, Shown, Answer
<1> QED
  BY <1>1, <1>2, <1>3, <1>4

\* OnePlace, read at the entries of the channels.
EntriesApart ==
  /\ \A i, j \in DOMAIN escalations : escalations[i].flag = escalations[j].flag => i = j
  /\ \A v, w \in Workers : Busy(v) /\ Busy(w) /\ job[v].flag = job[w].flag => v = w
  /\ \A i \in DOMAIN escalations :
       /\ \A w \in Workers : Busy(w) => job[w].flag # escalations[i].flag
       /\ \A j \in DOMAIN explanations : explanations[j].flag # escalations[i].flag
  /\ \A i \in DOMAIN explanations : explanations[i].state # "pending" =>
       /\ \A w \in Workers : Busy(w) => job[w].flag # explanations[i].flag
       /\ \A j \in DOMAIN explanations : explanations[j].flag = explanations[i].flag => j <= i

LEMMA OnePlaceIs == PoolOK => (OnePlace <=> EntriesApart)
<1> SUFFICES ASSUME PoolOK  PROVE OnePlace <=> EntriesApart
  OBVIOUS
<1>1. /\ \A i \in DOMAIN escalations : escalations[i].flag \in Flags
      /\ \A i \in DOMAIN explanations : explanations[i].flag \in Flags /\ explanations[i].hash \in Hashes
      /\ \A w \in Workers : Busy(w) => job[w].flag \in Flags
  BY Channels DEF PoolOK, Request, Answer, Busy
<1>2. (\A v, w \in Workers, f \in Flags : Holds(v, f) /\ Holds(w, f) => v = w) <=>
      (\A v, w \in Workers : Busy(v) /\ Busy(w) /\ job[v].flag = job[w].flag => v = w)
  BY <1>1 DEF Holds
<1>3. (\A f \in Flags : Queued(f) => (\A w \in Workers : ~Holds(w, f)) /\ (\A h \in Hashes : ~Shown(h, f)))
      <=> \A i \in DOMAIN escalations :
            /\ \A w \in Workers : Busy(w) => job[w].flag # escalations[i].flag
            /\ \A j \in DOMAIN explanations : explanations[j].flag # escalations[i].flag
  BY <1>1 DEF Queued, Holds, Shown
<1>4. (\A i \in DOMAIN explanations : explanations[i].state # "pending" =>
         /\ \A w \in Workers : ~Holds(w, explanations[i].flag)
         /\ \A j \in DOMAIN explanations : explanations[j].flag = explanations[i].flag => j <= i)
      <=> \A i \in DOMAIN explanations : explanations[i].state # "pending" =>
            /\ \A w \in Workers : Busy(w) => job[w].flag # explanations[i].flag
            /\ \A j \in DOMAIN explanations : explanations[j].flag = explanations[i].flag => j <= i
  BY <1>1 DEF Holds
<1> QED
  BY <1>2, <1>3, <1>4 DEF OnePlace, EntriesApart

LEMMA OnePlaceStep == Typed /\ OnePlace /\ Replies /\ OneTemplate /\ [Next]_vars => OnePlace'
<1> SUFFICES ASSUME Typed, OnePlace, Replies, OneTemplate, [Next]_vars  PROVE OnePlace'
  OBVIOUS
<1>0. PoolOK /\ PoolOK' /\ EntriesApart
  BY PoolTyped, OnePlaceIs DEF Typed
<1>a. (PoolOK => (OnePlace <=> EntriesApart))'
  BY OnePlaceIs, PTL
<1> SUFFICES EntriesApart'
  BY <1>0, <1>a
<1>b. /\ escalations \in Seq(Request) /\ explanations \in Seq(Answer)
      /\ DOMAIN escalations \subseteq Nat /\ DOMAIN explanations \subseteq Nat
      /\ Len(escalations) \in Nat /\ Len(explanations) \in Nat
  BY <1>0, LenProperties DEF PoolOK
<1>1. ASSUME NEW k \in Hashes, NEW gone \in SUBSET Evictable(k), FlaggedLine(k, gone)
      PROVE  EntriesApart'
  <2> DEFINE e == cur'
  <2>1. /\ UNCHANGED <<explanations, wpc, job>> /\ e \in Request /\ e.flag = flags + 1
        /\ escalations' = escalations \/ escalations' = Append(escalations, e)
    BY <1>1, FlaggedPlaces DEF poolVars
  <2>2. /\ \A i \in DOMAIN escalations : escalations[i].flag # e.flag
        /\ \A w \in Workers : Busy(w) => job[w].flag # e.flag
        /\ \A i \in DOMAIN explanations : explanations[i].flag # e.flag
    BY <2>1, NewFlag DEF Holds, Request
  <2>3. UNCHANGED <<explanations, job>> /\ \A w \in Workers : Busy(w)' <=> Busy(w)
    BY <2>1 DEF Busy
  <2> HIDE DEF e
  <2>4. CASE escalations' = escalations
    BY <1>0, <2>3, <2>4 DEF EntriesApart
  <2>5. CASE escalations' = Append(escalations, e)
    <3>1. /\ \A i \in DOMAIN escalations' :
               (i \in DOMAIN escalations /\ escalations'[i] = escalations[i])
               \/ (i = Len(escalations) + 1 /\ escalations'[i] = e)
      BY <1>b, <2>1, <2>5, AppendEntries
    <3> QED
      BY <1>0, <2>2, <2>3, <3>1 DEF EntriesApart
  <2> QED
    BY <2>1, <2>4, <2>5
<1>2. ASSUME NEW w \in Workers, Take(w)  PROVE EntriesApart'
  <2> DEFINE r == Head(escalations)
  <2>1. /\ UNCHANGED explanations /\ ~Busy(w) /\ job'[w] = r
        /\ \A v \in Workers \ {w} : (Busy(v)' <=> Busy(v)) /\ job'[v] = job[v]
    BY <1>2, TakePlaces
  <2>2. /\ escalations # <<>> /\ escalations' = Tail(escalations)
    BY <1>2, TakePlaces
  <2>3. /\ 1 \in DOMAIN escalations /\ escalations[1] = r
        /\ \A i \in DOMAIN escalations' : i \in Nat /\ i # 0
        /\ \A i \in DOMAIN escalations' : i + 1 \in DOMAIN escalations /\ escalations'[i] = escalations[i + 1]
    <3>1. escalations' \in Seq(Request)
      BY <1>0 DEF PoolOK
    <3> QED
      BY <1>b, <2>2, <3>1, TailEntries, LenProperties
  <2> HIDE DEF r
  <2>4. \A i \in DOMAIN escalations' : escalations'[i].flag # r.flag
    BY <1>0, <2>3 DEF EntriesApart
  <2>5. \A i, j \in DOMAIN escalations' : escalations'[i].flag = escalations'[j].flag => i = j
    BY <1>0, <2>3 DEF EntriesApart
  <2>6. /\ \A v \in Workers : Busy(v) => job[v].flag # r.flag
        /\ \A i \in DOMAIN explanations : explanations[i].flag # r.flag
    BY <1>0, <2>3 DEF EntriesApart
  <2>7. \A i \in DOMAIN escalations' :
          /\ \A v \in Workers : Busy(v) => job[v].flag # escalations'[i].flag
          /\ \A j \in DOMAIN explanations : explanations[j].flag # escalations'[i].flag
    BY <1>0, <2>3 DEF EntriesApart
  <2> QED
    BY <1>0, <2>1, <2>4, <2>5, <2>6, <2>7 DEF EntriesApart
<1>3. ASSUME NEW w \in Workers, NEW text \in {"none", "some"}, Partial(w, text)
      PROVE  EntriesApart'
  <2> DEFINE e == AnswerTo(w, "pending", text)
  <2>1. /\ UNCHANGED <<escalations, job>> /\ \A v \in Workers : Busy(v)' <=> Busy(v)
        /\ Busy(w) /\ e \in Answer
        /\ explanations' = explanations \/ explanations' = Append(explanations, e)
    BY <1>3, PartialPlaces DEF Busy
  <2>2. e.state = "pending" /\ e.flag = job[w].flag
    BY DEF AnswerTo
  <2> HIDE DEF e
  <2>3. CASE explanations' = explanations
    BY <1>0, <2>1, <2>3 DEF EntriesApart
  <2>4. CASE explanations' = Append(explanations, e)
    <3>1. /\ \A i \in DOMAIN explanations' :
               (i \in DOMAIN explanations /\ explanations'[i] = explanations[i])
               \/ (i = Len(explanations) + 1 /\ explanations'[i] = e)
      BY <1>b, <2>1, <2>4, AppendEntries
    <3> QED
      BY <1>0, <2>1, <2>2, <3>1 DEF EntriesApart
  <2> QED
    BY <2>1, <2>3, <2>4
<1>4. ASSUME NEW w \in Workers, Call(w)  PROVE EntriesApart'
  <2>1. UNCHANGED <<escalations, explanations, job>> /\ \A v \in Workers : Busy(v)' <=> Busy(v)
    BY <1>4, ReplyPlaces
  <2> QED
    BY <1>0, <2>1 DEF EntriesApart
<1>5. ASSUME NEW w \in Workers, SendAnswer(w)  PROVE EntriesApart'
  <2> DEFINE e == reply[w]
  <2>1. /\ UNCHANGED escalations /\ Busy(w) /\ ~Busy(w)'
        /\ \A v \in Workers \ {w} : (Busy(v)' <=> Busy(v)) /\ job'[v] = job[v]
    BY <1>5, SendPlaces
  <2>2. e \in Answer /\ e.flag = job[w].flag /\ explanations' = Append(explanations, e)
    BY <1>5, SendPlaces
  <2> HIDE DEF e
  <2>3. /\ \A i \in DOMAIN explanations' :
             (i \in DOMAIN explanations /\ explanations'[i] = explanations[i] /\ i <= Len(explanations))
             \/ (i = Len(explanations) + 1 /\ explanations'[i] = e)
    BY <1>b, <2>2, AppendEntries, LenProperties
  <2>4. \A v \in Workers : Busy(v)' => Busy(v) /\ job'[v] = job[v] /\ job[v].flag # e.flag
    BY <1>0, <2>1, <2>2 DEF EntriesApart
  <2>5. \A i \in DOMAIN escalations : escalations[i].flag # e.flag
    BY <1>0, <2>1, <2>2 DEF EntriesApart
  <2>6. \A i \in DOMAIN explanations : explanations[i].state # "pending" => explanations[i].flag # e.flag
    BY <1>0, <2>1, <2>2 DEF EntriesApart
  <2>7. \A i \in DOMAIN escalations' :
         /\ \A v \in Workers : Busy(v)' => job'[v].flag # escalations'[i].flag
         /\ \A j \in DOMAIN explanations' : explanations'[j].flag # escalations'[i].flag
    BY <1>0, <2>1, <2>3, <2>4, <2>5 DEF EntriesApart
  <2>8. \A i \in DOMAIN explanations' : explanations'[i].state # "pending" =>
         /\ \A v \in Workers : Busy(v)' => job'[v].flag # explanations'[i].flag
         /\ \A j \in DOMAIN explanations' : explanations'[j].flag = explanations'[i].flag => j <= i
    BY <1>0, <1>b, <2>3, <2>4, <2>6 DEF EntriesApart
  <2> QED
    BY <1>0, <2>1, <2>4, <2>7, <2>8 DEF EntriesApart
<1>6. ASSUME NEW w \in Workers, StopWorker(w)  PROVE EntriesApart'
  <2>1. /\ UNCHANGED <<escalations, explanations>>
        /\ \A v \in Workers : Busy(v)' => Busy(v) /\ job'[v] = job[v]
    BY <1>6, StopPlaces
  <2> QED
    BY <1>0, <2>1 DEF EntriesApart
<1>7. CASE Reads /\ UNCHANGED <<escalations, poolVars>>
  <2>1. UNCHANGED <<escalations, job>> /\ \A v \in Workers : Busy(v)' <=> Busy(v)
    BY <1>7 DEF poolVars, Busy
  <2>2. \A i \in DOMAIN explanations' : i + 1 \in DOMAIN explanations /\ explanations'[i] = explanations[i + 1]
    BY <1>7, <1>b, TailEntries DEF Reads
  <2>3. DOMAIN explanations' \subseteq Nat
    BY <1>7, <1>b, TailEntries DEF Reads
  <2> QED
    BY <1>0, <1>b, <2>1, <2>2, <2>3 DEF EntriesApart
<1>8. CASE UNCHANGED <<escalations, explanations, poolVars>>
  <2>1. UNCHANGED <<escalations, explanations, job>> /\ \A v \in Workers : Busy(v)' <=> Busy(v)
    BY <1>8 DEF poolVars, Busy
  <2> QED
    BY <1>0, <2>1 DEF EntriesApart
<1> QED
  BY <1>1, <1>2, <1>3, <1>4, <1>5, <1>6, <1>7, <1>8, Moves

(***************************************************************************)
(* The same, for what is still to come of a flag.                          *)
(***************************************************************************)
Same(h, f) == (Awaited(h, f)' <=> Awaited(h, f)) /\ (Wanted(h, f)' <=> Wanted(h, f))

LEMMA PlacesNext ==
  (\A h \in Hashes, f \in Flags :
     Awaited(h, f) <=> InQueue(h, f) \/ InHand(h, f) \/ Concluded(h, f))'
  BY Places, PTL

LEMMA FlaggedWants ==
  ASSUME Typed, NEW k \in Hashes, NEW gone \in SUBSET Evictable(k), FlaggedLine(k, gone)
  PROVE  \A h \in Hashes, f \in Flags :
           /\ Awaited(h, f)' <=> Awaited(h, f) \/ (queued' /\ h = k /\ f = flags + 1)
           /\ Wanted(h, f)' <=> Wanted(h, f) \/ (queued' /\ h = k /\ f = flags + 1)
<1> SUFFICES ASSUME NEW h \in Hashes, NEW f \in Flags
             PROVE  /\ Awaited(h, f)' <=> Awaited(h, f) \/ (queued' /\ h = k /\ f = flags + 1)
                    /\ Wanted(h, f)' <=> Wanted(h, f) \/ (queued' /\ h = k /\ f = flags + 1)
  OBVIOUS
<1>1. /\ Awaited(h, f) <=> InQueue(h, f) \/ InHand(h, f) \/ Concluded(h, f)
      /\ Awaited(h, f)' <=> InQueue(h, f)' \/ InHand(h, f)' \/ Concluded(h, f)'
  BY Places, PlacesNext
<1>2. /\ InQueue(h, f)' <=> InQueue(h, f) \/ (queued' /\ h = k /\ f = flags + 1)
      /\ (InHand(h, f)' <=> InHand(h, f)) /\ (Concluded(h, f)' <=> Concluded(h, f))
      /\ Shown(h, f)' <=> Shown(h, f)
  BY FlaggedPlaces
<1> QED
  BY <1>1, <1>2 DEF Wanted

LEMMA WorkerWants ==
  ASSUME Typed, OnePlace, Replies, NEW w \in Workers,
         Take(w) \/ Call(w) \/ SendAnswer(w) \/ (\E text \in {"none", "some"} : Partial(w, text))
  PROVE  \A h \in Hashes, f \in Flags : Same(h, f)
<1> SUFFICES ASSUME NEW h \in Hashes, NEW f \in Flags  PROVE Same(h, f)
  OBVIOUS
<1>0. /\ Awaited(h, f) <=> InQueue(h, f) \/ InHand(h, f) \/ Concluded(h, f)
      /\ Awaited(h, f)' <=> InQueue(h, f)' \/ InHand(h, f)' \/ Concluded(h, f)'
  BY Places, PlacesNext
<1>1. CASE Take(w)
  BY <1>0, <1>1, TakePlaces DEF Same, Wanted
<1>2. CASE Call(w)
  BY <1>0, <1>2, ReplyPlaces DEF Same, Wanted
<1>3. CASE SendAnswer(w)
  <2>1. Concluded(h, f)' => Shown(h, f)'
    BY DEF Concluded, Shown
  <2> QED
    BY <1>0, <1>3, <2>1, SendPlaces DEF Same, Wanted
<1>4. ASSUME NEW text \in {"none", "some"}, Partial(w, text)  PROVE Same(h, f)
  <2>1. job[w] = [hash |-> h, flag |-> f] => InHand(h, f)
    BY <1>4, PartialPlaces DEF InHand
  <2> QED
    BY <1>0, <1>4, <2>1, PartialPlaces DEF Same, Wanted
<1> QED
  BY <1>1, <1>2, <1>3, <1>4

LEMMA StopWants ==
  ASSUME Typed, NEW w \in Workers, StopWorker(w)
  PROVE  \A h \in Hashes, f \in Flags :
           /\ Awaited(h, f)' => Awaited(h, f)
           /\ Wanted(h, f)' => Wanted(h, f)
           /\ ~cancelled => Same(h, f)
  BY StopPlaces, Places, PlacesNext DEF Wanted, Same

LEMMA ReadWants ==
  ASSUME Typed, OnePlace, Reads, UNCHANGED <<escalations, poolVars>>
  PROVE  LET ex == Head(explanations)
         IN  /\ ex \in Answer /\ ex.hash \in Hashes /\ ex.flag \in Flags
             /\ Wanted(ex.hash, ex.flag)
             /\ \A h \in Hashes, f \in Flags :
                  /\ ex.state = "pending" => /\ Awaited(h, f)' <=> Awaited(h, f)
                                             /\ Wanted(h, f)' => Wanted(h, f)
                  /\ ex.state # "pending" =>
                       /\ Awaited(h, f)' <=> Awaited(h, f) /\ ~(ex.hash = h /\ ex.flag = f)
                       /\ Wanted(h, f)' <=> Wanted(h, f) /\ ~(ex.hash = h /\ ex.flag = f)
             /\ ex.state # "pending" => Awaited(ex.hash, ex.flag)
<1> DEFINE ex == Head(explanations)
<1>1. ex \in Answer /\ ex.hash \in Hashes /\ ex.flag \in Flags
  BY HeadIsAnswer DEF Reads, Typed
<1>2. \A h \in Hashes, f \in Flags :
               /\ (InQueue(h, f)' <=> InQueue(h, f)) /\ (InHand(h, f)' <=> InHand(h, f))
               /\ ex.state = "pending" => (Concluded(h, f)' <=> Concluded(h, f))
               /\ ex.state # "pending" =>
                    /\ Concluded(h, f)' <=> Concluded(h, f) /\ ~(ex.hash = h /\ ex.flag = f)
                    /\ ex.hash = h /\ ex.flag = f => Concluded(h, f) /\ ~Shown(h, f)'
               /\ Shown(h, f)' => Shown(h, f)
               /\ Shown(h, f) => Shown(h, f)' \/ (ex.hash = h /\ ex.flag = f)
               /\ ex.hash = h /\ ex.flag = f => Shown(h, f)
  BY ReadPlaces
<1>3. ex.state # "pending" => ~InQueue(ex.hash, ex.flag) /\ ~InHand(ex.hash, ex.flag)
  <2>1. 1 \in DOMAIN explanations /\ explanations[1] = ex
    BY TailEntries DEF Reads, Typed, PoolOK
  <2>2. EntriesApart
    BY OnePlaceIs DEF Typed
  <2> HIDE DEF ex
  <2> QED
    BY <2>1, <2>2 DEF EntriesApart, InQueue, InHand
<1> HIDE DEF ex
<1>4. ASSUME NEW h \in Hashes, NEW f \in Flags
      PROVE  /\ ex.state = "pending" => /\ Awaited(h, f)' <=> Awaited(h, f)
                                        /\ Wanted(h, f)' => Wanted(h, f)
             /\ ex.state # "pending" =>
                  /\ Awaited(h, f)' <=> Awaited(h, f) /\ ~(ex.hash = h /\ ex.flag = f)
                  /\ Wanted(h, f)' <=> Wanted(h, f) /\ ~(ex.hash = h /\ ex.flag = f)
  <2>1. ex.state = "pending" => (Awaited(h, f)' <=> Awaited(h, f))
    BY <1>2, Places, PlacesNext
  <2>2. ex.state # "pending" => (Awaited(h, f)' <=> Awaited(h, f) /\ ~(ex.hash = h /\ ex.flag = f))
    BY <1>2, <1>3, Places, PlacesNext
  <2> QED
    BY <1>2, <2>1, <2>2 DEF Wanted
<1>5. /\ Wanted(ex.hash, ex.flag)
      /\ ex.state # "pending" => Awaited(ex.hash, ex.flag)
  BY <1>1, <1>2, Places DEF Wanted
<1> QED
  BY <1>1, <1>4, <1>5 DEF ex

LEMMA OtherWants ==
  ASSUME UNCHANGED <<escalations, explanations, poolVars>>
  PROVE  \A h \in Hashes, f \in Flags : Same(h, f)
  BY OtherPlaces, Places, PlacesNext DEF Wanted, Same

\* Only a line that is flagged and queued brings something new.
LEMMA NothingNew ==
  ASSUME Typed, OnePlace, Replies, [Next]_vars, NEW h \in Hashes, NEW f \in Flags, Wanted(h, f)'
  PROVE  \/ Wanted(h, f)
         \/ /\ f = flags + 1 /\ flags' = flags + 1 /\ queued'
            /\ ppc' = "flagging" /\ cur' = [hash |-> h, flag |-> f]
<1>1. ASSUME NEW k \in Hashes, NEW gone \in SUBSET Evictable(k), FlaggedLine(k, gone),
             ~Wanted(h, f)
      PROVE  /\ f = flags + 1 /\ flags' = flags + 1 /\ queued'
             /\ ppc' = "flagging" /\ cur' = [hash |-> h, flag |-> f]
  BY <1>1, FlaggedWants, FlaggedPlaces
<1>2. CASE Reads /\ UNCHANGED <<escalations, poolVars>>
  BY <1>2, ReadWants
<1>3. CASE UNCHANGED <<escalations, explanations, poolVars>>
  BY <1>3, OtherWants DEF Same
<1>4. ASSUME NEW w \in Workers, Take(w) \/ Call(w) \/ SendAnswer(w) \/ StopWorker(w)
                                \/ (\E text \in {"none", "some"} : Partial(w, text))
      PROVE  Wanted(h, f)
  BY <1>4, WorkerWants, StopWants DEF Same
<1> QED
  BY <1>1, <1>2, <1>3, <1>4, Moves

LEMMA FlagsGrow ==
  [Next]_vars => \/ flags' = flags
                 \/ \E k \in Hashes : \E gone \in SUBSET Evictable(k) : FlaggedLine(k, gone)
  BY TemplatesFrame DEF Line, QuietLine, RecordFlag, Attach, Expire, scoreVars

LEMMA RepliesStep == Typed /\ OnePlace /\ Replies /\ [Next]_vars => Replies'
<1> SUFFICES ASSUME Typed, OnePlace, Replies, [Next]_vars  PROVE Replies'
  OBVIOUS
<1>1. CASE UNCHANGED poolVars
  BY <1>1 DEF Replies, poolVars
<1>2. ASSUME NEW w \in Workers, Take(w)  PROVE Replies'
  <2>1. UNCHANGED reply /\ wpc'[w] = "calling"
    BY <1>2, TakePlaces DEF Take
  <2>2. \A v \in Workers \ {w} : wpc'[v] = wpc[v] /\ job'[v] = job[v]
    BY <1>2 DEF Take, Typed, PoolOK
  <2> QED
    BY <2>1, <2>2 DEF Replies
<1>3. ASSUME NEW w \in Workers, Call(w)  PROVE Replies'
  BY <1>3, ReplyPlaces DEF Replies
<1>4. ASSUME NEW w \in Workers, SendAnswer(w)  PROVE Replies'
  <2>1. ~Busy(w)'
    BY <1>4, SendPlaces
  <2>2. wpc'[w] # "sending"
    BY <2>1 DEF Busy
  <2>3. \A v \in Workers \ {w} : wpc'[v] = wpc[v] /\ job'[v] = job[v] /\ reply'[v] = reply[v]
    BY <1>4, SendPlaces
  <2> QED
    BY <2>2, <2>3 DEF Replies
<1>5. ASSUME NEW w \in Workers, StopWorker(w)  PROVE Replies'
  BY <1>5, StopPlaces DEF Replies
<1>6. ASSUME NEW w \in Workers, NEW text \in {"none", "some"}, Partial(w, text)  PROVE Replies'
  BY <1>6, PartialPlaces DEF Replies
<1>7. ASSUME NEW k \in Hashes, NEW gone \in SUBSET Evictable(k), FlaggedLine(k, gone)
      PROVE  UNCHANGED poolVars
  BY <1>7, FlaggedPlaces
<1> QED
  BY <1>1, <1>2, <1>3, <1>4, <1>5, <1>6, <1>7, Moves

LEMMA OneTemplateStep ==
  Typed /\ OnePlace /\ Replies /\ OneTemplate /\ [Next]_vars => OneTemplate'
<1> SUFFICES ASSUME Typed, OnePlace, Replies, OneTemplate, [Next]_vars  PROVE OneTemplate'
  OBVIOUS
<1>0. flags \in Nat
  BY PipelineAssumption DEF Typed, TemplatesOK
<1>1. flags' = flags \/ flags' = flags + 1
  BY FlagsGrow, FlaggedPlaces
<1>2. ASSUME NEW h \in Hashes, NEW f \in Flags, Known(h, f)'
      PROVE  \/ Known(h, f)
             \/ f = flags + 1 /\ flags' = flags + 1 /\ cur' = [hash |-> h, flag |-> f]
  <2>1. CASE Wanted(h, f)'
    BY <2>1, NothingNew DEF Known
  <2>2. CASE IsCur(h, f)'
    <3>1. ppc' = "flagging" /\ cur' = [hash |-> h, flag |-> f]
      BY <2>2 DEF IsCur
    <3>2. CASE UNCHANGED <<ppc, cur, queued>>
      BY <3>1, <3>2 DEF Known, IsCur
    <3>3. ASSUME NEW k \in Hashes, NEW gone \in SUBSET Evictable(k), FlaggedLine(k, gone)
          PROVE  f = flags + 1 /\ flags' = flags + 1
      BY <3>1, <3>3, FlaggedPlaces
    <3>4. ~RecordFlag
      BY <3>1 DEF RecordFlag, AfterLine
    <3> QED
      BY <3>1, <3>2, <3>3, <3>4, RunFrame
  <2> QED
    BY <1>2, <2>1, <2>2 DEF Known
<1>3. (\A h \in Hashes, f \in Flags : Known(h, f) => f <= flags)'
  BY <1>0, <1>1, <1>2 DEF OneTemplate, Flags
<1>4. \A g, h \in Hashes, f \in Flags : Known(g, f)' /\ Known(h, f)' => g = h
  <2> SUFFICES ASSUME NEW g \in Hashes, NEW h \in Hashes, NEW f \in Flags, Known(g, f)', Known(h, f)'
               PROVE  g = h
    OBVIOUS
  <2>1. f = flags + 1 => ~Known(g, f) /\ ~Known(h, f)
    BY <1>0 DEF OneTemplate
  <2>2. CASE f = flags + 1
    <3>1. cur' = [hash |-> g, flag |-> f] /\ cur' = [hash |-> h, flag |-> f]
      BY <1>2, <2>1, <2>2
    <3> QED
      BY <3>1
  <2>3. CASE f # flags + 1
    BY <1>2, <2>3 DEF OneTemplate
  <2> QED
    BY <2>2, <2>3
<1> QED
  BY <1>3, <1>4 DEF OneTemplate

LEMMA PartialsFirstStep ==
  Typed /\ OnePlace /\ Replies /\ PartialsFirst /\ [Next]_vars => PartialsFirst'
<1> SUFFICES ASSUME Typed, OnePlace, Replies, PartialsFirst, [Next]_vars, ~cancelled',
                    NEW h \in Hashes, NEW f \in Flags, Shown(h, f)'
             PROVE  Awaited(h, f)'
  BY DEF PartialsFirst
<1>1. ~cancelled
  BY CancelStays
<1>2. Wanted(h, f)'
  BY DEF Wanted
<1>3. Wanted(h, f) => Awaited(h, f)
  BY <1>1 DEF Wanted, PartialsFirst
<1>4. ASSUME NEW k \in Hashes, NEW gone \in SUBSET Evictable(k), FlaggedLine(k, gone)
      PROVE  Awaited(h, f)'
  BY <1>2, <1>3, <1>4, FlaggedWants
<1>5. ASSUME NEW w \in Workers, Take(w) \/ Call(w) \/ SendAnswer(w) \/ StopWorker(w)
                                \/ (\E text \in {"none", "some"} : Partial(w, text))
      PROVE  Awaited(h, f)'
  BY <1>1, <1>2, <1>3, <1>5, WorkerWants, StopWants DEF Same
<1>6. CASE Reads /\ UNCHANGED <<escalations, poolVars>>
  <2>1. CASE Head(explanations).state = "pending"
    BY <1>2, <1>3, <1>6, <2>1, ReadWants
  <2>2. CASE Head(explanations).state # "pending"
    BY <1>2, <1>3, <1>6, <2>2, ReadWants
  <2> QED
    BY <2>1, <2>2
<1>7. CASE UNCHANGED <<escalations, explanations, poolVars>>
  BY <1>2, <1>3, <1>7, OtherWants DEF Same
<1> QED
  BY <1>4, <1>5, <1>6, <1>7, Moves

LEMMA RecordedStep ==
  Typed /\ OnePlace /\ Replies /\ OneTemplate /\ Recorded /\ [Next]_vars => Recorded'
<1> SUFFICES ASSUME Typed, OnePlace, Replies, OneTemplate, Recorded, [Next]_vars  PROVE Recorded'
  OBVIOUS
<1>0. Explain' <=> Explain
  BY ModeStays DEF Explain
<1>1. ASSUME NEW k \in Hashes, NEW gone \in SUBSET Evictable(k), FlaggedLine(k, gone)
      PROVE  Recorded'
  <2>1. /\ cur' = [hash |-> k, flag |-> flags + 1] /\ cur' \in Request /\ flags' = flags + 1
        /\ queued' => Explain
    BY <1>1, FlaggedPlaces
  <2>2. flags + 1 \in Flags
    BY <2>1 DEF Request
  <2> PICK q \in Flags : q = flags + 1
    BY <2>2
  <2>3. ~queued' => \A h \in Hashes : ~Wanted(h, q)'
    BY <1>1, <2>2, FlaggedWants, NewFlag
  <2>4. cur'.flag = flags' /\ cur'.flag = q
    BY <2>1
  <2>5. ~queued' => \A h \in Hashes : ~Wanted(h, cur.flag)'
    BY <2>3, <2>4
  <2> QED
    BY <1>0, <2>1, <2>4, <2>5 DEF Recorded
<1>2. CASE RecordFlag
  <2>1. ppc' # "flagging" /\ queued' = FALSE
    BY <1>2 DEF RecordFlag, AfterLine
  <2> QED
    BY <2>1 DEF Recorded
<1>3. CASE ppc # "flagging" /\ ppc' # "flagging" /\ UNCHANGED <<cur, queued>>
  BY <1>0, <1>3 DEF Recorded
<1>4. ASSUME UNCHANGED <<ppc, cur, queued>>,
             ~\E k \in Hashes : \E gone \in SUBSET Evictable(k) : FlaggedLine(k, gone)
      PROVE  Recorded'
  <2>1. UNCHANGED flags
    BY <1>4, FlagsGrow
  <2>2. ASSUME ppc = "flagging", ~queued, NEW h \in Hashes, Wanted(h, cur.flag)'  PROVE FALSE
    <3>1. cur \in Request
      BY <2>2 DEF Typed, RunOK
    <3> DEFINE f == cur.flag
    <3>2. f \in Flags /\ f' = f /\ ~Wanted(h, f)
      BY <1>4, <2>2, <3>1 DEF Request, Recorded
    <3>3. PICK q \in Flags : q = f
      BY <3>2
    <3>4. Wanted(h, q)' /\ ~Wanted(h, q)
      BY <2>2, <3>2, <3>3
    <3>5. queued' = queued
      BY <1>4
    <3> QED
      BY <2>2, <3>4, <3>5, NothingNew
  <2> QED
    BY <1>0, <1>4, <2>1, <2>2 DEF Recorded
<1> QED
  BY <1>1, <1>2, <1>3, <1>4, RunFrame

LEMMA AwaitedNew ==
  ASSUME Typed, OnePlace, Replies, [Next]_vars, NEW h \in Hashes, NEW f \in Flags, Awaited(h, f)'
  PROVE  Awaited(h, f) \/ f = flags + 1
<1>1. ASSUME NEW k \in Hashes, NEW gone \in SUBSET Evictable(k), FlaggedLine(k, gone)
      PROVE  Awaited(h, f) \/ f = flags + 1
  BY <1>1, FlaggedWants
<1>2. CASE Reads /\ UNCHANGED <<escalations, poolVars>>
  <2>1. CASE Head(explanations).state = "pending"
    BY <1>2, <2>1, ReadWants
  <2>2. CASE Head(explanations).state # "pending"
    BY <1>2, <2>2, ReadWants
  <2> QED
    BY <2>1, <2>2
<1>3. CASE UNCHANGED <<escalations, explanations, poolVars>>
  BY <1>3, OtherWants DEF Same
<1>4. ASSUME NEW w \in Workers, Take(w) \/ Call(w) \/ SendAnswer(w) \/ StopWorker(w)
                                \/ (\E text \in {"none", "some"} : Partial(w, text))
      PROVE  Awaited(h, f)
  BY <1>4, WorkerWants, StopWants DEF Same
<1> QED
  BY <1>1, <1>2, <1>3, <1>4, Moves

LEMMA InitTokens == Init => TokenInv
<1> SUFFICES ASSUME Init  PROVE TokenInv
  OBVIOUS
<1>1. /\ escalations = <<>> /\ explanations = <<>> /\ ppc = "select" /\ queued = FALSE
      /\ \A w \in Workers : ~Busy(w) /\ wpc[w] # "sending"
  BY DEF Init, Busy
<1>2. DOMAIN escalations = {} /\ DOMAIN explanations = {}
  BY <1>1
<1>3. \A h \in Hashes, f \in Flags : ~Known(h, f) /\ ~Shown(h, f)
  BY <1>1, <1>2 DEF Known, Wanted, Awaited, Shown, IsCur, Busy
<1> QED
  BY <1>1, <1>2, <1>3
  DEF TokenInv, OnePlace, Queued, Holds, Replies, OneTemplate, PartialsFirst, Recorded

LEMMA TokenStep == Typed /\ TokenInv /\ [Next]_vars => TokenInv'
  BY OnePlaceStep, RepliesStep, OneTemplateStep, PartialsFirstStep, RecordedStep DEF TokenInv

(***************************************************************************)
(* The export's resolutions.                                               *)
(***************************************************************************)
ResolvedOnce ==
  /\ \A f \in Flags : resolved[f] <= 1 /\ (f > flags => resolved[f] = 0)
  /\ \A h \in Hashes, f \in Flags : Awaited(h, f) => resolved[f] = 0
  /\ ppc = "flagging" /\ ~queued => resolved[cur.flag] = 0

LEMMA ResolvedFrame ==
  [Next]_vars => \/ RecordFlag
                 \/ resolved' = resolved
                 \/ /\ Reads /\ UNCHANGED <<escalations, poolVars, flags, ppc, cur, queued>>
                    /\ resolved' = Resolved(Head(explanations))
  BY DEF Next, Line, QuietLine, FlaggedLine, Run, SendEvent, AnswersEnd, LinesEnd, Return,
     Attach, PoolEnds, Printer, PrintEvent, PrintAnswer, EventsEnd, PrinterAnswersEnd,
     PrinterReturns, Environment, IngestEnds, Cancel, PrintFails, Expire, Worker, Take, Call,
     Reply, SendAnswer, StopWorker, Partial, Forget, Reads, recVars, escVars, scoreVars, runVars,
     vars

LEMMA ResolvedStep == Typed /\ TokenInv /\ ResolvedOnce /\ [Next]_vars => ResolvedOnce'
<1> SUFFICES ASSUME Typed, TokenInv, ResolvedOnce, [Next]_vars  PROVE ResolvedOnce'
  OBVIOUS
<1>0. /\ flags \in Nat /\ resolved \in [Flags -> Nat] /\ Flags \subseteq Nat
      /\ OnePlace /\ Replies /\ OneTemplate /\ Recorded
  BY PipelineAssumption DEF Typed, TemplatesOK, OutOK, Flags, TokenInv
<1>1. flags' = flags \/ flags' = flags + 1
  BY FlagsGrow, FlaggedPlaces
<1>2. CASE RecordFlag
  <2>1. /\ ppc = "flagging" /\ ppc' # "flagging" /\ UNCHANGED <<flags, escalations, explanations, poolVars>>
    BY <1>2 DEF RecordFlag, AfterLine, scoreVars, escVars, expVars
  <2>2. cur.flag \in Flags /\ cur.flag = flags
    BY <1>0, <2>1 DEF Typed, RunOK, Request, Recorded
  <2> PICK q \in Flags : q = cur.flag
    BY <2>2
  <2>3. \/ resolved' = resolved
        \/ ~queued /\ resolved' = [resolved EXCEPT ![q] = @ + 1]
    BY <1>0, <1>2 DEF RecordFlag, Recorded, QueueFull
  <2>4. ~queued => resolved[q] = 0 /\ \A h \in Hashes : ~Awaited(h, q)
    BY <1>0, <2>1 DEF ResolvedOnce, Recorded, Wanted
  <2>5. \A h \in Hashes, f \in Flags : Awaited(h, f)' <=> Awaited(h, f)
    BY <2>1, OtherWants DEF Same
  <2>6. \A f \in Flags : resolved'[f] = resolved[f] \/ (f = q /\ ~queued /\ resolved'[f] = 1)
    BY <1>0, <2>3, <2>4
  <2> QED
    BY <1>0, <2>1, <2>2, <2>4, <2>5, <2>6 DEF ResolvedOnce
<1>3. CASE resolved' = resolved
  <2>1. \A h \in Hashes, f \in Flags : Awaited(h, f)' => resolved'[f] = 0
    BY <1>0, <1>3, AwaitedNew DEF ResolvedOnce
  <2>2. (ppc = "flagging" /\ ~queued => resolved[cur.flag] = 0)'
    <3>1. ASSUME NEW k \in Hashes, NEW gone \in SUBSET Evictable(k), FlaggedLine(k, gone)
          PROVE  resolved'[cur'.flag] = 0
      <4>1. cur'.flag = flags + 1 /\ flags + 1 \in Flags
        BY <3>1, FlaggedPlaces DEF Request
      <4> QED
        BY <1>0, <1>3, <4>1 DEF ResolvedOnce
    <3>2. CASE RecordFlag
      BY <3>2 DEF RecordFlag, AfterLine
    <3> QED
      BY <1>3, <3>1, <3>2, RunFrame DEF ResolvedOnce
  <2>3. \A f \in Flags : resolved'[f] <= 1 /\ (f > flags' => resolved'[f] = 0)
    BY <1>0, <1>1, <1>3 DEF ResolvedOnce
  <2> QED
    BY <2>1, <2>2, <2>3 DEF ResolvedOnce
<1>4. CASE /\ Reads /\ UNCHANGED <<escalations, poolVars, flags, ppc, cur, queued>>
           /\ resolved' = Resolved(Head(explanations))
  <2> DEFINE ex == Head(explanations)
  <2>1. /\ ex.hash \in Hashes /\ ex.flag \in Flags /\ Wanted(ex.hash, ex.flag)
    BY <1>0, <1>4, ReadWants
  <2>2. CASE ex.state = "pending"
    <3>1. resolved' = resolved
      BY <1>4, <2>2 DEF Resolved, Terminal
    <3>2. \A h \in Hashes, f \in Flags : Awaited(h, f)' <=> Awaited(h, f)
      BY <1>0, <1>4, <2>2, ReadWants
    <3> QED
      BY <1>4, <3>1, <3>2 DEF ResolvedOnce
  <2>3. CASE ex.state # "pending"
    <3>1. /\ Awaited(ex.hash, ex.flag)
          /\ \A h \in Hashes, f \in Flags :
               Awaited(h, f)' <=> Awaited(h, f) /\ ~(ex.hash = h /\ ex.flag = f)
      BY <1>0, <1>4, <2>3, ReadWants
    <3>2. \A h \in Hashes : Awaited(h, ex.flag) => h = ex.hash
      BY <1>0, <2>1 DEF OneTemplate, Known, Wanted
    <3>3. ex.flag <= flags /\ resolved[ex.flag] = 0
      BY <1>0, <2>1, <3>1 DEF OneTemplate, Known, ResolvedOnce
    <3>4. resolved' = [resolved EXCEPT ![ex.flag] = @ + 1]
      BY <1>4, <2>3 DEF Resolved, Terminal
    <3> HIDE DEF ex
    <3>5. \A f \in Flags : resolved'[f] = IF f = ex.flag THEN 1 ELSE resolved[f]
      BY <1>0, <2>1, <3>3, <3>4
    <3>6. \A h \in Hashes, f \in Flags : Awaited(h, f)' => f # ex.flag /\ Awaited(h, f)
      BY <2>1, <3>1, <3>2
    <3>7. ppc = "flagging" /\ ~queued => cur.flag # ex.flag /\ cur.flag \in Flags
      BY <1>0, <2>1 DEF Recorded, Typed, RunOK, Request
    <3>8. \A f \in Flags : resolved'[f] <= 1 /\ (f > flags' => resolved'[f] = 0)
      BY <1>0, <1>4, <3>3, <3>5 DEF ResolvedOnce
    <3>9. \A h \in Hashes, f \in Flags : Awaited(h, f)' => resolved'[f] = 0
      BY <3>5, <3>6 DEF ResolvedOnce
    <3>10. ppc' = "flagging" /\ ~queued' => resolved'[cur'.flag] = 0
      BY <1>4, <3>5, <3>7 DEF ResolvedOnce
    <3> QED
      BY <3>8, <3>9, <3>10 DEF ResolvedOnce
  <2> QED
    BY <2>2, <2>3
<1> QED
  BY <1>2, <1>3, <1>4, ResolvedFrame

LEMMA InitResolved == Init => ResolvedOnce
<1> SUFFICES ASSUME Init  PROVE ResolvedOnce
  OBVIOUS
<1>1. ppc = "select" /\ \A f \in Flags : resolved[f] = 0
  BY DEF Init
<1> QED
  BY <1>1 DEF ResolvedOnce

\* However the answers travel, whichever goroutine reads them and whenever the run is
\* interrupted, the export is handed each flag's resolution at most once (attach, escalated,
\* printPlain).
THEOREM EachFlagAlwaysResolvesOnce == Spec => []EachFlagResolvesOnce
<1>1. Typed /\ ResolvedOnce => EachFlagResolvesOnce
  <2> SUFFICES ASSUME Typed, ResolvedOnce, NEW f \in Flags
               PROVE  /\ resolved[f] <= 1
                      /\ resolved[f] = 1 => f <= flags /\ \A h \in Hashes : ~Awaited(h, f)
    BY DEF EachFlagResolvesOnce
  <2>1. f \in Nat /\ flags \in Nat
    BY PipelineAssumption DEF Flags, Typed, TemplatesOK
  <2> QED
    BY <2>1 DEF ResolvedOnce
<1> QED
  BY InitTyped, InitTokens, InitResolved, TypedStep, TokenStep, ResolvedStep, <1>1, PTL DEF Spec

(***************************************************************************)
(* What the templates and the counters say of the answers on their way.    *)
(***************************************************************************)
WantedFor(h) == {f \in Flags : Wanted(h, f) /\ ~Recording(f)}

\* What is on its way belongs to a template that is in the table, and was recorded there.
Housed ==
  \A h \in Hashes, f \in Flags : Wanted(h, f) =>
    h \in table /\ (~Recording(f) => f <= last[h])

Counted ==
  /\ \A h \in Hashes : /\ awaiting[h] >= Cardinality(WantedFor(h))
                       /\ ~cancelled => awaiting[h] = Cardinality(WantedFor(h))
  /\ ~cancelled => explaining = Cardinality(OutFlags)

\* The request of the flag being recorded has not been answered yet.
CurIsOut ==
  ppc = "flagging" =>
    cur.hash \in table /\ (queued /\ ~cancelled => Awaited(cur.hash, cur.flag))

Accounts == Routed => printer = "done" /\ Housed /\ Counted /\ CurIsOut

LastIsNewest ==
  \A h \in Hashes : last[h] <= flags /\ (ppc = "flagging" => last[h] < cur.flag)

LEMMA FlagSets ==
  ASSUME NEW S \in SUBSET Flags
  PROVE  /\ IsFiniteSet(S) /\ Cardinality(S) \in Nat
         /\ \A f \in S : Cardinality(S) >= 1
<1>1. IsFiniteSet(Flags)
  BY PipelineAssumption, FS_Interval DEF Flags
<1>2. IsFiniteSet(S) /\ Cardinality(S) \in Nat
  BY <1>1, FS_Subset, FS_CardinalityType
<1>3. Cardinality(S) = 0 <=> S = {}
  BY <1>2, FS_EmptySet
<1> QED
  BY <1>2, <1>3

\* Between two lines nothing of a template that shrink may evict is on its way.
LEMMA EvictedIsUnwanted ==
  ASSUME Typed, Routed, Housed, Counted, ppc = "select",
         NEW k \in Hashes, NEW gone \in SUBSET Evictable(k), NEW t \in gone
  PROVE  t \in Hashes /\ t # k /\ (\A f \in Flags : ~Wanted(t, f)) /\ WantedFor(t) = {}
<1>1. t \in Hashes /\ t # k /\ ~Pinned(t)
  BY DEF Evictable, Typed, TemplatesOK
<1>2. ASSUME NEW f \in Flags, Wanted(t, f)  PROVE FALSE
  <2>1. ~Recording(f)
    BY DEF Recording
  <2>2. f \in WantedFor(t) /\ f <= last[t]
    BY <1>1, <1>2, <2>1 DEF WantedFor, Housed
  <2>3. Cardinality(WantedFor(t)) >= 1 /\ Cardinality(WantedFor(t)) \in Nat
    BY <2>2, FlagSets DEF WantedFor
  <2>4. awaiting[t] \in Int /\ awaiting[t] >= Cardinality(WantedFor(t))
    BY <1>1 DEF Counted, Typed, TemplatesOK
  <2>5. f \in Nat /\ f # 0 /\ last[t] \in Nat
    BY <1>1, PipelineAssumption DEF Flags, Typed, TemplatesOK
  <2>6. awaiting[t] > 0 /\ Flagged(t)
    BY <2>2, <2>3, <2>4, <2>5 DEF Flagged
  <2> QED
    BY <1>1, <2>6 DEF Pinned
<1> QED
  BY <1>1, <1>2 DEF WantedFor

\* Steps that leave the pipeline goroutine out of a flag, or where it is in one.
LEMMA SameSets ==
  ASSUME \A h \in Hashes, f \in Flags : Same(h, f),
         \A f \in Flags : Recording(f)' <=> Recording(f)
  PROVE  /\ \A h \in Hashes : WantedFor(h)' = WantedFor(h)
         /\ OutFlags' = OutFlags
  BY DEF WantedFor, OutFlags, Same

LEMMA LessWanted ==
  ASSUME \A h \in Hashes, f \in Flags : Wanted(h, f)' => Wanted(h, f),
         \A f \in Flags : Recording(f)' <=> Recording(f)
  PROVE  \A h \in Hashes : /\ WantedFor(h)' \subseteq WantedFor(h)
                           /\ Cardinality(WantedFor(h)') <= Cardinality(WantedFor(h))
<1> SUFFICES ASSUME NEW h \in Hashes
             PROVE  /\ WantedFor(h)' \subseteq WantedFor(h)
                    /\ Cardinality(WantedFor(h)') <= Cardinality(WantedFor(h))
  OBVIOUS
<1>1. WantedFor(h)' \subseteq WantedFor(h)
  BY DEF WantedFor
<1>2. IsFiniteSet(WantedFor(h))
  BY FlagSets DEF WantedFor
<1> QED
  BY <1>1, <1>2, FS_Subset

LEMMA LastStep == Typed /\ Recorded /\ LastIsNewest /\ [Next]_vars => LastIsNewest'
<1> SUFFICES ASSUME Typed, Recorded, LastIsNewest, [Next]_vars  PROVE LastIsNewest'
  OBVIOUS
<1>0. flags \in Nat /\ last \in [Hashes -> 0..MaxFlags] /\ MaxFlags \in Nat
  BY PipelineAssumption DEF Typed, TemplatesOK
<1>1. ASSUME NEW k \in Hashes, NEW gone \in SUBSET Evictable(k),
             QuietLine(k, gone) \/ FlaggedLine(k, gone)
      PROVE  LastIsNewest'
  <2>1. \A h \in Hashes : last'[h] = last[h] \/ last'[h] = 0
    BY <1>0, <1>1 DEF QuietLine, FlaggedLine, LineArrives, Upsert
  <2>2. \/ flags' = flags + 1 /\ cur'.flag = flags + 1
        \/ flags' = flags /\ ppc' # "flagging"
    BY <1>1 DEF QuietLine, FlaggedLine, scoreVars, AfterLine
  <2> QED
    BY <1>0, <2>1, <2>2 DEF LastIsNewest
<1>2. CASE RecordFlag
  <2>1. cur \in Request /\ cur.flag = flags /\ flags' = flags /\ ppc' # "flagging"
    BY <1>2 DEF RecordFlag, Typed, RunOK, Recorded, scoreVars, AfterLine
  <2>2. \A h \in Hashes : last'[h] = last[h] \/ last'[h] = cur.flag
    BY <1>0, <1>2, <2>1 DEF RecordFlag, Request
  <2> QED
    BY <1>0, <2>1, <2>2 DEF LastIsNewest
<1>3. CASE UNCHANGED <<last, flags, ppc, cur>>
  BY <1>3 DEF LastIsNewest
<1>4. CASE UNCHANGED <<last, flags, cur>> /\ ppc' # "flagging"
  BY <1>4 DEF LastIsNewest
<1>5. \/ Line \/ RecordFlag \/ UNCHANGED <<last, flags>>
  BY TemplatesFrame DEF Attach, Expire, scoreVars, tableVars
<1>6. \/ Line \/ RecordFlag \/ UNCHANGED <<ppc, cur>> \/ (UNCHANGED cur /\ ppc' # "flagging")
  BY RunFrame DEF Line
<1> QED
  BY <1>1, <1>2, <1>3, <1>4, <1>5, <1>6 DEF Line

AccountsAt == Housed /\ Counted /\ CurIsOut

LEMMA LineAccounts ==
  ASSUME Typed, TokenInv, Routed, Routed', AccountsAt, [Next]_vars,
         NEW k \in Hashes, NEW gone \in SUBSET Evictable(k),
         QuietLine(k, gone) \/ FlaggedLine(k, gone)
  PROVE  AccountsAt'
<1>0. /\ flags \in Nat /\ Flags \subseteq Nat /\ ppc = "select"
      /\ OneTemplate /\ Housed /\ Counted
      /\ last \in [Hashes -> 0..MaxFlags] /\ awaiting \in [Hashes -> Int] /\ table \subseteq Hashes
      /\ \A f \in Flags : ~Recording(f)
  BY PipelineAssumption DEF Typed, TemplatesOK, Flags, TokenInv, AccountsAt, QuietLine, FlaggedLine,
     LineArrives, Recording
<1>1. \A t \in gone : t \in Hashes /\ t # k /\ (\A f \in Flags : ~Wanted(t, f)) /\ WantedFor(t) = {}
  BY <1>0, EvictedIsUnwanted
<1>2. /\ table' = (table \cup {k}) \ gone
      /\ \A h \in Hashes : /\ h \in gone => last'[h] = 0 /\ awaiting'[h] = 0
                           /\ h \notin gone => last'[h] = last[h] /\ awaiting'[h] = awaiting[h]
      /\ UNCHANGED <<explaining, cancelled>>
  BY DEF QuietLine, FlaggedLine, LineArrives, Upsert, statVars
<1>3. \A h \in Hashes, f \in Flags : Wanted(h, f) => h \notin gone
  BY <1>1
<1>4. /\ \A h \in Hashes, f \in Flags :
           Wanted(h, f)' => Wanted(h, f) \/ (h = k /\ f = flags + 1 /\ Recording(f)')
      /\ \A h \in Hashes : WantedFor(h)' = WantedFor(h)
      /\ OutFlags' = OutFlags
  <2>1. CASE QuietLine(k, gone)
    <3>1. UNCHANGED <<escalations, explanations, poolVars>> /\ ppc' # "flagging"
      BY <2>1 DEF QuietLine, escVars, expVars, AfterLine
    <3>2. \A h \in Hashes, f \in Flags : Same(h, f)
      BY <3>1, OtherWants
    <3>3. \A f \in Flags : Recording(f)' <=> Recording(f)
      BY <1>0, <3>1 DEF Recording
    <3> QED
      BY <3>2, <3>3, SameSets DEF Same
  <2>2. CASE FlaggedLine(k, gone)
    <3>1. ppc' = "flagging" /\ cur'.flag = flags + 1 /\ flags + 1 \in Flags
      BY <2>2, FlaggedPlaces DEF Request
    <3>2. \A f \in Flags : Recording(f)' <=> f = flags + 1
      BY <3>1 DEF Recording
    <3>3. \A h \in Hashes, f \in Flags :
           /\ Awaited(h, f)' <=> Awaited(h, f) \/ (queued' /\ h = k /\ f = flags + 1)
           /\ Wanted(h, f)' <=> Wanted(h, f) \/ (queued' /\ h = k /\ f = flags + 1)
      BY <2>2, FlaggedWants
    <3>4. \A h \in Hashes, f \in Flags : Wanted(h, f) => f # flags + 1
      BY <1>0, <3>1, NewFlag
    <3>5. \A h \in Hashes : WantedFor(h)' = WantedFor(h)
      BY <1>0, <3>2, <3>3, <3>4 DEF WantedFor
    <3>6. OutFlags' = OutFlags
      BY <1>0, <3>2, <3>3, <3>4 DEF OutFlags, Wanted
    <3> QED
      BY <3>2, <3>3, <3>5, <3>6
  <2> QED
    BY <2>1, <2>2
<1>5. k \in table'
  BY <1>1, <1>2
<1>6. Housed'
  <2> SUFFICES ASSUME NEW h \in Hashes, NEW f \in Flags, Wanted(h, f)'
               PROVE  h \in table' /\ (~Recording(f)' => f <= last'[h])
    BY DEF Housed
  <2>1. CASE Wanted(h, f)
    BY <1>0, <1>2, <1>3, <2>1 DEF Housed
  <2>2. CASE h = k /\ f = flags + 1 /\ Recording(f)'
    BY <1>5, <2>2
  <2> QED
    BY <1>4, <2>1, <2>2
<1>7. Counted'
  <2>1. Cardinality({}) = 0
    BY FS_EmptySet
  <2>2. \A h \in Hashes : /\ awaiting'[h] >= Cardinality(WantedFor(h)')
                          /\ ~cancelled' => awaiting'[h] = Cardinality(WantedFor(h)')
    <3> SUFFICES ASSUME NEW h \in Hashes
                 PROVE  /\ awaiting'[h] >= Cardinality(WantedFor(h)')
                        /\ ~cancelled' => awaiting'[h] = Cardinality(WantedFor(h)')
      OBVIOUS
    <3>1. WantedFor(h)' = WantedFor(h)
      BY <1>4
    <3>2. CASE h \in gone
      <4>1. WantedFor(h)' = {} /\ awaiting'[h] = 0
        BY <1>1, <1>2, <3>1, <3>2
      <4> QED
        BY <2>1, <4>1
    <3>3. CASE h \notin gone
      <4>1. awaiting'[h] = awaiting[h] /\ (cancelled' <=> cancelled)
        BY <1>2, <3>3
      <4>2. /\ awaiting[h] >= Cardinality(WantedFor(h))
            /\ ~cancelled => awaiting[h] = Cardinality(WantedFor(h))
        BY <1>0 DEF Counted
      <4> QED
        BY <3>1, <4>1, <4>2
    <3> QED
      BY <3>2, <3>3
  <2>3. ~cancelled' => explaining' = Cardinality(OutFlags')
    BY <1>0, <1>2, <1>4 DEF Counted
  <2> QED
    BY <2>2, <2>3 DEF Counted
<1>8. CurIsOut'
  <2>1. CASE QuietLine(k, gone)
    BY <2>1 DEF QuietLine, AfterLine, CurIsOut
  <2>2. CASE FlaggedLine(k, gone)
    <3>1. cur' = [hash |-> k, flag |-> flags + 1] /\ flags + 1 \in Flags
      BY <2>2, FlaggedPlaces DEF Request
    <3> PICK q \in Flags : q = flags + 1
      BY <3>1
    <3>2. queued' => Awaited(k, q)'
      BY <2>2, FlaggedWants
    <3>3. cur'.hash = k /\ cur'.flag = q
      BY <3>1
    <3>4. queued' => Awaited(cur.hash, cur.flag)'
      BY <3>2, <3>3
    <3> QED
      BY <1>5, <3>3, <3>4 DEF CurIsOut
  <2> QED
    BY <2>1, <2>2
<1> QED
  BY <1>6, <1>7, <1>8 DEF AccountsAt

LEMMA RecordAccounts ==
  ASSUME Typed, TokenInv, LastIsNewest, Routed, Routed', AccountsAt, RecordFlag
  PROVE  AccountsAt'
<1>0. /\ flags \in Nat /\ Flags \subseteq Nat /\ ppc = "flagging" /\ ppc' # "flagging"
      /\ OneTemplate /\ Recorded /\ Housed /\ Counted /\ CurIsOut
      /\ last \in [Hashes -> 0..MaxFlags] /\ awaiting \in [Hashes -> Int] /\ explaining \in Int
      /\ cur \in Request /\ MaxFlags \in Nat
      /\ UNCHANGED <<escalations, explanations, poolVars, table, cancelled>>
  BY PipelineAssumption DEF Typed, TemplatesOK, RunOK, Flags, TokenInv, AccountsAt, RecordFlag,
     AfterLine, escVars, expVars
<1> PICK g \in Hashes, q \in Flags : cur = [hash |-> g, flag |-> q]
  BY <1>0 DEF Request
<1>1. /\ last' = [last EXCEPT ![g] = q]
      /\ queued => /\ awaiting' = [awaiting EXCEPT ![g] = @ + 1] /\ explaining' = explaining + 1
      /\ ~queued => UNCHANGED <<awaiting, explaining>>
  BY <1>0 DEF RecordFlag, Recorded
<1>2. \A h \in Hashes, f \in Flags : Same(h, f)
  BY <1>0, OtherWants
<1>3. \A f \in Flags : (Recording(f) <=> f = q) /\ ~Recording(f)'
  BY <1>0 DEF Recording
<1>4. \A h \in Hashes : Wanted(h, q) => h = g /\ queued
  BY <1>0 DEF OneTemplate, Known, IsCur, Recorded
<1>5. \A h \in Hashes : last[h] < q /\ q = flags
  BY <1>0 DEF LastIsNewest, Recorded
<1>6. Housed'
  <2> SUFFICES ASSUME NEW h \in Hashes, NEW f \in Flags, Wanted(h, f)'
               PROVE  h \in table' /\ f <= last'[h]
    BY DEF Housed
  <2>1. Wanted(h, f) /\ h \in table
    BY <1>0, <1>2 DEF Same, Housed
  <2>2. CASE f = q
    BY <1>0, <1>1, <1>4, <2>1, <2>2
  <2>3. CASE f # q
    <3>1. f <= last[h]
      BY <1>0, <1>3, <2>1, <2>3 DEF Housed
    <3> QED
      BY <1>0, <1>1, <1>5, <2>1, <3>1
  <2> QED
    BY <2>2, <2>3
<1>7. /\ \A h \in Hashes : h # g => WantedFor(h)' = WantedFor(h)
      /\ WantedFor(g)' = IF Wanted(g, q) THEN WantedFor(g) \cup {q} ELSE WantedFor(g)
      /\ q \notin WantedFor(g)
  BY <1>2, <1>3, <1>4 DEF WantedFor, Same
<1>8. /\ OutFlags' = IF Awaited(g, q) THEN OutFlags \cup {q} ELSE OutFlags
      /\ q \notin OutFlags
  BY <1>2, <1>3, <1>4 DEF OutFlags, Same, Wanted
<1>9. queued /\ ~cancelled => Awaited(g, q) /\ Wanted(g, q)
  BY <1>0 DEF CurIsOut, Wanted
<1>10. /\ IsFiniteSet(WantedFor(g)) /\ IsFiniteSet(OutFlags)
       /\ Cardinality(WantedFor(g)) \in Nat /\ Cardinality(OutFlags) \in Nat
       /\ Cardinality(WantedFor(g) \cup {q}) = Cardinality(WantedFor(g)) + 1
       /\ Cardinality(OutFlags \cup {q}) = Cardinality(OutFlags) + 1
  <2>1. /\ IsFiniteSet(WantedFor(g)) /\ IsFiniteSet(OutFlags)
        /\ Cardinality(WantedFor(g)) \in Nat /\ Cardinality(OutFlags) \in Nat
    BY FlagSets DEF WantedFor, OutFlags
  <2> QED
    BY <1>7, <1>8, <2>1, FS_AddElement
<1>11. Counted'
  <2>1. ASSUME NEW h \in Hashes
        PROVE  /\ awaiting'[h] >= Cardinality(WantedFor(h)')
               /\ ~cancelled' => awaiting'[h] = Cardinality(WantedFor(h)')
    <3>1. /\ awaiting[h] >= Cardinality(WantedFor(h))
          /\ ~cancelled => awaiting[h] = Cardinality(WantedFor(h))
      BY <1>0 DEF Counted
    <3>2. CASE h # g
      <4>1. awaiting'[h] = awaiting[h]
        BY <1>0, <1>1, <3>2
      <4> QED
        BY <1>0, <1>7, <3>1, <3>2, <4>1
    <3>3. CASE h = g
      <4>1. queued => awaiting'[g] = awaiting[g] + 1
        BY <1>0, <1>1
      <4>2. ~queued => awaiting'[g] = awaiting[g] /\ ~Wanted(g, q)
        BY <1>1, <1>4
      <4>3. /\ Cardinality(WantedFor(g)') = IF Wanted(g, q) THEN Cardinality(WantedFor(g)) + 1
                                                            ELSE Cardinality(WantedFor(g))
        BY <1>7, <1>10
      <4>4. awaiting[g] \in Int /\ (cancelled' <=> cancelled)
        BY <1>0
      <4> QED
        BY <1>9, <1>10, <3>1, <3>3, <4>1, <4>2, <4>3, <4>4
    <3> QED
      BY <3>2, <3>3
  <2>2. ~cancelled' => explaining' = Cardinality(OutFlags')
    <3>1. ~cancelled => explaining = Cardinality(OutFlags)
      BY <1>0 DEF Counted
    <3>2. Cardinality(OutFlags') = IF Awaited(g, q) THEN Cardinality(OutFlags) + 1
                                                    ELSE Cardinality(OutFlags)
      BY <1>8, <1>10
    <3>3. ~queued => ~Awaited(g, q)
      BY <1>4 DEF Wanted
    <3> QED
      BY <1>0, <1>1, <1>9, <3>1, <3>2, <3>3
  <2> QED
    BY <2>1, <2>2 DEF Counted
<1>12. CurIsOut'
  BY <1>0 DEF CurIsOut
<1> QED
  BY <1>6, <1>11, <1>12 DEF AccountsAt

LEMMA AttachAccounts ==
  ASSUME Typed, TokenInv, PartialsFirst', Routed, Routed', AccountsAt, Attach
  PROVE  AccountsAt'
<1> DEFINE ex == Head(explanations)
<1>0. /\ ppc = "select" /\ ppc' = "select" /\ Reads
      /\ OnePlace /\ PartialsFirst /\ Housed /\ Counted
      /\ awaiting \in [Hashes -> Int] /\ explaining \in Int
      /\ UNCHANGED <<escalations, poolVars, table, last, cancelled>>
      /\ \A f \in Flags : ~Recording(f) /\ ~Recording(f)'
  BY DEF Typed, TemplatesOK, RunOK, TokenInv, AccountsAt, Attach, Reads, runVars, escVars, Recording
<1>1. /\ ex \in Answer /\ ex.hash \in Hashes /\ ex.flag \in Flags
      /\ Wanted(ex.hash, ex.flag)
      /\ \A h \in Hashes, f \in Flags :
           /\ ex.state = "pending" => /\ Awaited(h, f)' <=> Awaited(h, f)
                                      /\ Wanted(h, f)' => Wanted(h, f)
           /\ ex.state # "pending" =>
                /\ Awaited(h, f)' <=> Awaited(h, f) /\ ~(ex.hash = h /\ ex.flag = f)
                /\ Wanted(h, f)' <=> Wanted(h, f) /\ ~(ex.hash = h /\ ex.flag = f)
      /\ ex.state # "pending" => Awaited(ex.hash, ex.flag)
  BY <1>0, ReadWants
<1>2. ex.hash \in table
  BY <1>0, <1>1 DEF Housed
<1>3. /\ ex.state = "pending" => UNCHANGED <<awaiting, explaining>>
      /\ ex.state # "pending" => /\ awaiting' = [awaiting EXCEPT ![ex.hash] = @ - 1]
                                 /\ explaining' = explaining - 1
  BY <1>2 DEF Attach, CountsOut
<1>4. ~cancelled => \A h \in Hashes, f \in Flags :
        (Wanted(h, f) <=> Awaited(h, f)) /\ (Wanted(h, f)' <=> Awaited(h, f)')
  BY <1>0 DEF PartialsFirst, Wanted
<1>5. Housed'
  <2>1. \A h \in Hashes, f \in Flags : Wanted(h, f)' => Wanted(h, f)
    BY <1>1
  <2> QED
    BY <1>0, <2>1 DEF Housed
<1>6. CurIsOut'
  BY <1>0 DEF CurIsOut
<1> PICK g \in Hashes, q \in Flags : g = ex.hash /\ q = ex.flag
  BY <1>1
<1> DEFINE st == ex.state
<1>7. /\ Wanted(g, q)
      /\ \A h \in Hashes, f \in Flags :
           /\ st = "pending" => /\ Awaited(h, f)' <=> Awaited(h, f)
                                /\ Wanted(h, f)' => Wanted(h, f)
           /\ st # "pending" => /\ Awaited(h, f)' <=> Awaited(h, f) /\ ~(g = h /\ q = f)
                                /\ Wanted(h, f)' <=> Wanted(h, f) /\ ~(g = h /\ q = f)
      /\ st # "pending" => Awaited(g, q) /\ \A h \in Hashes : Awaited(h, q) => h = g
      /\ st = "pending" => UNCHANGED <<awaiting, explaining>>
      /\ st # "pending" => awaiting' = [awaiting EXCEPT ![g] = @ - 1] /\ explaining' = explaining - 1
  <2>1. \A h \in Hashes : Awaited(h, ex.flag) => h = ex.hash
    BY <1>1 DEF TokenInv, OneTemplate, Known, Wanted
  <2> QED
    BY <1>1, <1>3, <2>1
<1> HIDE DEF ex, st
<1>8. Counted'
  <2>1. CASE st = "pending"
    <3>1. \A h \in Hashes : Cardinality(WantedFor(h)') <= Cardinality(WantedFor(h))
      BY <1>0, <1>7, <2>1, LessWanted
    <3>2. ~cancelled => /\ \A h \in Hashes : WantedFor(h)' = WantedFor(h)
                        /\ OutFlags' = OutFlags
      BY <1>0, <1>4, <1>7, <2>1, SameSets DEF Same
    <3>3. \A h \in Hashes : /\ Cardinality(WantedFor(h)) \in Nat /\ WantedFor(h)' \in SUBSET Flags
                            /\ awaiting'[h] = awaiting[h] /\ awaiting[h] \in Int
      BY <1>0, <1>7, <2>1, FlagSets DEF WantedFor
    <3>4. \A h \in Hashes : Cardinality(WantedFor(h)') \in Nat
      BY <3>3, FlagSets
    <3>5. explaining' = explaining /\ (cancelled' <=> cancelled)
      BY <1>0, <1>7, <2>1
    <3>6. ASSUME NEW h \in Hashes
          PROVE  /\ awaiting'[h] >= Cardinality(WantedFor(h)')
                 /\ ~cancelled' => awaiting'[h] = Cardinality(WantedFor(h)')
      <4>1. /\ awaiting[h] >= Cardinality(WantedFor(h))
            /\ ~cancelled => awaiting[h] = Cardinality(WantedFor(h))
        BY <1>0 DEF Counted
      <4> QED
        BY <3>1, <3>2, <3>3, <3>4, <3>5, <4>1
    <3>7. ~cancelled' => explaining' = Cardinality(OutFlags')
      BY <1>0, <3>2, <3>5 DEF Counted
    <3> QED
      BY <3>6, <3>7 DEF Counted
  <2>2. CASE st # "pending"
    <3>1. /\ \A h \in Hashes : h # g => WantedFor(h)' = WantedFor(h)
          /\ WantedFor(g)' = WantedFor(g) \ {q} /\ q \in WantedFor(g)
      BY <1>0, <1>7, <2>2 DEF WantedFor
    <3>2. OutFlags' = OutFlags \ {q} /\ q \in OutFlags
      BY <1>0, <1>7, <2>2 DEF OutFlags
    <3>3. /\ IsFiniteSet(WantedFor(g)) /\ IsFiniteSet(OutFlags)
          /\ Cardinality(WantedFor(g)) \in Nat /\ Cardinality(OutFlags) \in Nat
      BY FlagSets DEF WantedFor, OutFlags
    <3>4. /\ Cardinality(WantedFor(g)') = Cardinality(WantedFor(g)) - 1
          /\ Cardinality(OutFlags') = Cardinality(OutFlags) - 1
      BY <3>1, <3>2, <3>3, FS_RemoveElement
    <3>5. ASSUME NEW h \in Hashes
          PROVE  /\ awaiting'[h] >= Cardinality(WantedFor(h)')
                 /\ ~cancelled' => awaiting'[h] = Cardinality(WantedFor(h)')
      <4>1. /\ awaiting[h] >= Cardinality(WantedFor(h))
            /\ ~cancelled => awaiting[h] = Cardinality(WantedFor(h))
            /\ cancelled' <=> cancelled
        BY <1>0 DEF Counted
      <4>2. awaiting'[h] = IF h = g THEN awaiting[h] - 1 ELSE awaiting[h]
        BY <1>0, <1>7, <2>2
      <4>3. awaiting[h] \in Int
        BY <1>0
      <4>4. CASE h = g
        <5>1. Cardinality(WantedFor(h)') = Cardinality(WantedFor(h)) - 1
          BY <3>4, <4>4
        <5>2. Cardinality(WantedFor(h)) \in Nat
          BY <3>3, <4>4
        <5> QED
          BY <4>1, <4>2, <4>3, <4>4, <5>1, <5>2
      <4>5. CASE h # g
        <5>1. WantedFor(h)' = WantedFor(h)
          BY <3>1, <4>5
        <5> QED
          BY <4>1, <4>2, <4>5, <5>1
      <4> QED
        BY <4>4, <4>5
    <3>6. ~cancelled' => explaining' = Cardinality(OutFlags')
      BY <1>0, <1>7, <2>2, <3>3, <3>4 DEF Counted
    <3> QED
      BY <3>5, <3>6 DEF Counted
  <2> QED
    BY <2>1, <2>2
<1> QED
  BY <1>5, <1>6, <1>8 DEF AccountsAt

LEMMA RestAccounts ==
  ASSUME Typed, TokenInv, Routed, Routed', AccountsAt, printer = "done", [Next]_vars,
         ~Line, ~RecordFlag, ~Attach
  PROVE  AccountsAt'
<1>0. /\ OnePlace /\ Replies /\ Housed /\ Counted /\ CurIsOut
      /\ awaiting \in [Hashes -> Int]
  BY DEF Typed, TemplatesOK, TokenInv, AccountsAt
<1>1. UNCHANGED <<table, last, awaiting, explaining>>
  BY TemplatesFrame DEF Expire, tableVars, statVars
<1>2. UNCHANGED <<ppc, cur, queued>> \/ (ppc # "flagging" /\ ppc' # "flagging")
  BY RunFrame DEF Line
<1>3. \A f \in Flags : Recording(f)' <=> Recording(f)
  BY <1>2 DEF Recording
<1>4. \/ \A h \in Hashes, f \in Flags : Same(h, f)
      \/ /\ cancelled
         /\ \A h \in Hashes, f \in Flags : Wanted(h, f)' => Wanted(h, f)
  <2>1. ASSUME NEW w \in Workers, Worker(w) \/ (\E text \in {"none", "some"} : Partial(w, text)),
               ~cancelled
        PROVE  \A h \in Hashes, f \in Flags : Same(h, f)
    BY <1>0, <2>1, WorkerWants, StopWants DEF Worker
  <2>2. ASSUME NEW w \in Workers, Worker(w) \/ (\E text \in {"none", "some"} : Partial(w, text))
        PROVE  \A h \in Hashes, f \in Flags : Wanted(h, f)' => Wanted(h, f)
    BY <1>0, <2>2, WorkerWants, StopWants DEF Worker, Same
  <2>3. CASE UNCHANGED <<escalations, explanations, poolVars>>
    BY <2>3, OtherWants
  <2>4. ~PrintAnswer /\ ~PrintFails
    BY DEF PrintAnswer, PrintFails
  <2> QED
    BY <2>1, <2>2, <2>3, <2>4, TokensFrame DEF Line
<1>5. \A h \in Hashes, f \in Flags : Wanted(h, f)' => Wanted(h, f)
  BY <1>4 DEF Same
<1>6. Housed'
  BY <1>1, <1>3, <1>5 , <1>0 DEF Housed
<1>7. CASE \A h \in Hashes, f \in Flags : Same(h, f)
  <2>1. (\A h \in Hashes : WantedFor(h)' = WantedFor(h)) /\ OutFlags' = OutFlags
    BY <1>3, <1>7, SameSets
  <2>2. cancelled => cancelled'
    BY CancelStays
  <2>3. Counted'
    BY <1>0, <1>1, <2>1, <2>2 DEF Counted
  <2>4. CurIsOut'
    <3>1. CASE UNCHANGED <<ppc, cur, queued>>
      <4>1. ASSUME ppc = "flagging"
            PROVE  Awaited(cur.hash, cur.flag)' <=> Awaited(cur.hash, cur.flag)
        <5>1. cur \in Request
          BY <4>1 DEF Typed, RunOK
        <5> PICK g \in Hashes, q \in Flags : g = cur.hash /\ q = cur.flag
          BY <5>1 DEF Request
        <5>2. Awaited(g, q)' <=> Awaited(g, q)
          BY <1>7 DEF Same
        <5>3. g = cur'.hash /\ q = cur'.flag
          BY <3>1
        <5> QED
          BY <5>2, <5>3
      <4> QED
        BY <1>0, <1>1, <2>2, <3>1, <4>1 DEF CurIsOut
    <3>2. CASE ppc' # "flagging"
      BY <3>2 DEF CurIsOut
    <3> QED
      BY <1>2, <3>1, <3>2
  <2> QED
    BY <1>6, <2>3, <2>4 DEF AccountsAt
<1>8. CASE cancelled
  <2>1. cancelled'
    BY <1>8, CancelStays
  <2>2. \A h \in Hashes : Cardinality(WantedFor(h)') <= Cardinality(WantedFor(h))
    BY <1>3, <1>5, LessWanted
  <2>3. \A h \in Hashes : /\ WantedFor(h)' \in SUBSET Flags
                          /\ Cardinality(WantedFor(h)) \in Nat
    BY <1>3, <1>5, FlagSets DEF WantedFor
  <2>4. \A h \in Hashes : Cardinality(WantedFor(h)') \in Nat
    BY <2>3, FlagSets
  <2>5. \A h \in Hashes : awaiting'[h] = awaiting[h] /\ awaiting[h] \in Int
    BY <1>0, <1>1
  <2>6. Counted'
    BY <1>0, <2>1, <2>2, <2>3, <2>4, <2>5 DEF Counted
  <2>7. CurIsOut'
    BY <1>0, <1>1, <1>2, <2>1 DEF CurIsOut
  <2> QED
    BY <1>6, <2>6, <2>7 DEF AccountsAt
<1> QED
  BY <1>4, <1>7, <1>8

LEMMA PrinterDone == [Next]_vars /\ printer = "done" => printer' = "done"
  BY DEF Next, Line, QuietLine, FlaggedLine, Run, RecordFlag, SendEvent, Attach, AnswersEnd,
     LinesEnd, Return, PoolEnds, Printer, PrintEvent, PrintAnswer, EventsEnd, PrinterAnswersEnd,
     PrinterReturns, Environment, IngestEnds, Cancel, PrintFails, Expire, Worker, Take, Call,
     Reply, SendAnswer, StopWorker, Partial, Forget, outVars, vars

LEMMA AccountsStep ==
  Typed /\ TokenInv /\ LastIsNewest /\ Accounts /\ [Next]_vars => Accounts'
<1> SUFFICES ASSUME Typed, TokenInv, LastIsNewest, Accounts, [Next]_vars, Routed'
             PROVE  printer' = "done" /\ AccountsAt'
  BY DEF Accounts, AccountsAt
<1>1. Routed /\ printer = "done" /\ AccountsAt
  BY ModeStays DEF Accounts, AccountsAt, Routed
<1>2. printer' = "done" /\ PartialsFirst'
  BY <1>1, PrinterDone, TokenStep DEF TokenInv
<1>3. CASE Line
  <2> PICK k \in Hashes : \E gone \in SUBSET Evictable(k) : QuietLine(k, gone) \/ FlaggedLine(k, gone)
    BY <1>3 DEF Line
  <2> PICK gone \in SUBSET Evictable(k) : QuietLine(k, gone) \/ FlaggedLine(k, gone)
    OBVIOUS
  <2> QED
    BY <1>1, <1>2, LineAccounts
<1>4. CASE RecordFlag
  BY <1>1, <1>2, <1>4, RecordAccounts
<1>5. CASE Attach
  BY <1>1, <1>2, <1>5, AttachAccounts
<1>6. CASE ~Line /\ ~RecordFlag /\ ~Attach
  BY <1>1, <1>2, <1>6, RestAccounts
<1> QED
  BY <1>2, <1>3, <1>4, <1>5, <1>6

LEMMA InitAccounts == Init => Accounts /\ LastIsNewest
<1> SUFFICES ASSUME Init  PROVE Accounts /\ LastIsNewest
  OBVIOUS
<1>1. /\ escalations = <<>> /\ explanations = <<>> /\ ppc = "select"
      /\ \A w \in Workers : ~Busy(w)
      /\ explaining = 0 /\ flags = 0 /\ \A h \in Hashes : last[h] = 0 /\ awaiting[h] = 0
      /\ Routed => printer = "done"
  BY DEF Init, Busy, Printed, Routed
<1>2. DOMAIN escalations = {} /\ DOMAIN explanations = {}
  BY <1>1
<1>3. \A h \in Hashes, f \in Flags : ~Wanted(h, f) /\ ~Awaited(h, f)
  BY <1>1, <1>2 DEF Wanted, Awaited, Shown, Busy
<1>4. /\ OutFlags = {} /\ \A h \in Hashes : WantedFor(h) = {}
  BY <1>3 DEF OutFlags, WantedFor
<1>5. Cardinality({}) = 0
  BY FS_EmptySet
<1>6. Housed /\ CurIsOut
  BY <1>1, <1>3 DEF Housed, CurIsOut
<1>7. Counted
  <2>1. Cardinality(OutFlags) = 0 /\ \A h \in Hashes : Cardinality(WantedFor(h)) = 0
    BY <1>4, <1>5
  <2>2. explaining = 0 /\ \A h \in Hashes : awaiting[h] = 0
    BY <1>1
  <2>3. \A h \in Hashes : awaiting[h] >= Cardinality(WantedFor(h))
    BY <2>1, <2>2
  <2> QED
    BY <2>1, <2>2, <2>3 DEF Counted
<1>8. LastIsNewest
  BY <1>1 DEF LastIsNewest
<1> QED
  BY <1>1, <1>6, <1>7, <1>8 DEF Accounts

(***************************************************************************)
(* The cards.                                                              *)
(***************************************************************************)
CardsBehind ==
  /\ ~answersNil => Routed
  /\ \A h \in Hashes : card[h].flag <= last[h]

\* A card's state and the answer to its template's newest flag.
CardState ==
  \A h \in Hashes, f \in Flags :
    last[h] = f => (card[h].state = "pending" <=> Awaited(h, f))

Cards ==
  Routed => /\ \A h \in Hashes : h \notin table => last[h] = 0
            /\ ~cancelled => CardState

LEMMA NextCardIs ==
  ASSUME Typed, NEW h \in Hashes, NEW ex \in Answer
  PROVE  /\ NextCard(h, ex).flag \in {ex.flag, card[h].flag}
         /\ card[h].text # "none" /\ card[h].flag <= last[h] => NextCard(h, ex).flag >= card[h].flag
         /\ ex.flag >= last[h] => NextCard(h, ex).state = ex.state
         /\ ex.flag < last[h] => NextCard(h, ex).state = card[h].state
<1>1. /\ card[h] \in Card /\ last[h] \in Nat /\ card[h].flag \in Nat /\ ex.flag \in Nat
  BY PipelineAssumption DEF Typed, TemplatesOK, Card, Answer, Flags
<1> DEFINE c == card[h]
<1>2. c \in Card
  BY <1>1
<1> HIDE DEF c
<1>3. /\ Landed(c, ex).flag \in {ex.flag, c.flag}
      /\ Landed(c, ex).state = ex.state
  BY <1>2 DEF Card, Landed
<1>4. ex.flag >= last[h] => NextCard(h, ex) = Landed(c, ex)
  BY DEF NextCard, c
<1>5. ASSUME ~(ex.flag >= last[h])
      PROVE  /\ NextCard(h, ex).flag \in {ex.flag, c.flag}
             /\ c.text # "none" /\ NextCard(h, ex).flag = ex.flag => NextCard(h, ex).flag >= c.flag
             /\ NextCard(h, ex).state = c.state
  <2>1. CASE ShowsOlder(c, ex)
    <3>1. NextCard(h, ex) = [state |-> c.state, flag |-> ex.flag, text |-> ex.text]
      BY <1>5, <2>1 DEF NextCard, c
    <3>2. c.text # "none" => ~(c.flag >= ex.flag)
      BY <2>1 DEF ShowsOlder
    <3>3. c.flag \in Nat
      BY <1>1 DEF c
    <3> QED
      BY <1>1, <3>1, <3>2, <3>3
  <2>2. CASE ~ShowsOlder(c, ex)
    <3>1. NextCard(h, ex) = c
      BY <1>5, <2>2 DEF NextCard, c
    <3>2. c.flag \in Nat
      BY <1>1 DEF c
    <3> QED
      BY <3>1, <3>2
  <2> QED
    BY <2>1, <2>2
<1>6. c.flag \in Nat /\ c = card[h]
  BY <1>1 DEF c
<1>7. CASE ex.flag >= last[h]
  <2>1. NextCard(h, ex).flag \in {ex.flag, c.flag} /\ NextCard(h, ex).state = ex.state
    BY <1>3, <1>4, <1>7
  <2> QED
    BY <1>1, <1>6, <1>7, <2>1
<1>8. CASE ~(ex.flag >= last[h])
  BY <1>1, <1>5, <1>6, <1>8
<1> QED
  BY <1>7, <1>8

\* What a step does to one template's newest flag and card.
LEMMA LineCards ==
  ASSUME Typed, NEW k \in Hashes, NEW gone \in SUBSET Evictable(k),
         QuietLine(k, gone) \/ FlaggedLine(k, gone)
  PROVE  /\ table' = (table \cup {k}) \ gone
         /\ \A h \in Hashes :
              /\ h \in gone => last'[h] = 0 /\ card'[h] = NoCard
              /\ h \notin gone => last'[h] = last[h] /\ card'[h] = card[h]
         /\ UNCHANGED <<answersNil, cancelled>>
  BY DEF QuietLine, FlaggedLine, LineArrives, Upsert, runVars

LEMMA RecordCards ==
  ASSUME Typed, Recorded, RecordFlag
  PROVE  /\ cur.hash \in Hashes /\ cur.flag \in Flags /\ ppc = "flagging" /\ ppc' # "flagging"
         /\ \A h \in Hashes : /\ h # cur.hash => last'[h] = last[h] /\ card'[h] = card[h]
                              /\ h = cur.hash => last'[h] = cur.flag
         /\ \/ card' = card /\ ~Explain
            \/ queued /\ card'[cur.hash] = Carried(card[cur.hash], cur.flag, "pending")
            \/ ~queued /\ card'[cur.hash] = Carried(card[cur.hash], cur.flag, "failed")
         /\ UNCHANGED <<table, answersNil, cancelled, escalations, explanations, poolVars>>
<1>1. /\ ppc = "flagging" /\ cur \in Request
      /\ last \in [Hashes -> 0..MaxFlags] /\ card \in [Hashes -> Card]
  BY DEF RecordFlag, Typed, TemplatesOK, RunOK
<1>2. cur.hash \in Hashes /\ cur.flag \in Flags
  BY <1>1 DEF Request
<1>3. /\ last' = [last EXCEPT ![cur.hash] = cur.flag]
      /\ \/ card' = card /\ ~Explain
         \/ queued /\ card' = [card EXCEPT ![cur.hash] = Carried(@, cur.flag, "pending")]
         \/ ~queued /\ card' = [card EXCEPT ![cur.hash] = Carried(@, cur.flag, "failed")]
  BY DEF RecordFlag
<1>4. /\ ppc' # "flagging"
      /\ UNCHANGED <<table, answersNil, cancelled, escalations, explanations, poolVars>>
  BY DEF RecordFlag, AfterLine, escVars, expVars
<1> QED
  BY <1>1, <1>2, <1>3, <1>4

LEMMA AttachCards ==
  ASSUME Typed, Attach
  PROVE  LET ex == Head(explanations)
         IN  /\ ex \in Answer /\ ex.hash \in Hashes /\ ex.flag \in Flags
             /\ \A h \in Hashes : h # ex.hash \/ h \notin table => card'[h] = card[h]
             /\ ex.hash \in table => card'[ex.hash] = NextCard(ex.hash, ex)
             /\ Reads /\ ppc = "select" /\ ppc' = "select" /\ ~answersNil
             /\ UNCHANGED <<table, last, answersNil, cancelled, escalations, poolVars>>
<1> DEFINE ex == Head(explanations)
<1>1. ex \in Answer /\ ex.hash \in Hashes /\ ex.flag \in Flags
  BY HeadIsAnswer DEF Attach, Typed
<1>2. card \in [Hashes -> Card]
  BY DEF Typed, TemplatesOK
<1>3. /\ ex.hash \in table => card' = [card EXCEPT ![ex.hash] = NextCard(ex.hash, ex)]
      /\ ex.hash \notin table => card' = card
      /\ Reads /\ ppc = "select" /\ ppc' = "select" /\ ~answersNil
      /\ UNCHANGED <<table, last, answersNil, cancelled, escalations, poolVars>>
  BY DEF Attach, Reads, runVars, escVars
<1> HIDE DEF ex
<1>4. /\ \A h \in Hashes : h # ex.hash \/ h \notin table => card'[h] = card[h]
      /\ ex.hash \in table => card'[ex.hash] = NextCard(ex.hash, ex)
  BY <1>1, <1>2, <1>3
<1> QED
  BY <1>1, <1>3, <1>4 DEF ex

LEMMA CarriedIs ==
  ASSUME NEW c \in Card, NEW f \in Flags, NEW s \in {"pending", "failed"}
  PROVE  /\ Carried(c, f, s).state = s
         /\ Carried(c, f, s).flag \in {f, c.flag}
         /\ Carried(c, f, s).text = c.text
         /\ c.text # "none" => Carried(c, f, s).flag = c.flag
  BY DEF Card, Carried

LEMMA AnswersNilFrame ==
  [Next]_vars => Line \/ RecordFlag \/ Attach \/ answersNil' = answersNil \/ answersNil' = TRUE
  BY DEF Next, Run, SendEvent, AnswersEnd, LinesEnd, Return, PoolEnds, Printer, PrintEvent,
     PrintAnswer, EventsEnd, PrinterAnswersEnd, PrinterReturns, Environment, IngestEnds, Cancel,
     PrintFails, Expire, Worker, Take, Call, Reply, SendAnswer, StopWorker, Partial, Forget,
     runVars, vars

LEMMA CardsBehindStep ==
  Typed /\ TokenInv /\ LastIsNewest /\ Accounts /\ CardsBehind /\ [Next]_vars => CardsBehind'
<1> SUFFICES ASSUME Typed, TokenInv, LastIsNewest, Accounts, CardsBehind, [Next]_vars
             PROVE  CardsBehind'
  OBVIOUS
<1>0. /\ \A h \in Hashes : last[h] \in Nat /\ card[h] \in Card /\ card[h].flag \in Nat
      /\ OnePlace /\ Recorded /\ Flags \subseteq Nat
  BY PipelineAssumption DEF Typed, TemplatesOK, TokenInv, Flags, Card
<1>1. (Routed' <=> Routed)
  BY ModeStays DEF Routed
<1>2. CASE Line
  <2> PICK k \in Hashes : \E gone \in SUBSET Evictable(k) : QuietLine(k, gone) \/ FlaggedLine(k, gone)
    BY <1>2 DEF Line
  <2> PICK gone \in SUBSET Evictable(k) : QuietLine(k, gone) \/ FlaggedLine(k, gone)
    OBVIOUS
  <2>1. ASSUME NEW h \in Hashes  PROVE card'[h].flag <= last'[h]
    <3>1. NoCard.flag = 0
      BY DEF NoCard
    <3> QED
      BY <1>0, <3>1, LineCards DEF CardsBehind
  <2>2. answersNil' = answersNil
    BY LineCards
  <2> QED
    BY <1>1, <2>1, <2>2 DEF CardsBehind
<1>3. CASE RecordFlag
  <2> PICK g \in Hashes, q \in Flags : g = cur.hash /\ q = cur.flag
    BY <1>0, <1>3, RecordCards
  <2>1. card[g].flag <= last[g] /\ last[g] < q
    BY <1>0, <1>3, RecordCards DEF CardsBehind, LastIsNewest
  <2>2. card'[g].flag \in {q, card[g].flag}
    BY <1>0, <1>3, RecordCards, CarriedIs
  <2>3. card'[g].flag <= last'[g]
    <3>1. last'[g] = q
      BY <1>0, <1>3, RecordCards
    <3> QED
      BY <1>0, <2>1, <2>2, <3>1
  <2>4. \A h \in Hashes : h # g => card'[h].flag <= last'[h]
    BY <1>0, <1>3, RecordCards DEF CardsBehind
  <2>5. answersNil' = answersNil
    BY <1>0, <1>3, RecordCards
  <2> QED
    BY <1>1, <2>3, <2>4, <2>5 DEF CardsBehind
<1>4. CASE Attach
  <2> DEFINE ex == Head(explanations)
  <2>1. /\ ex \in Answer /\ ex.hash \in Hashes /\ ex.flag \in Flags
        /\ \A h \in Hashes : h # ex.hash \/ h \notin table => card'[h] = card[h]
        /\ ex.hash \in table => card'[ex.hash] = NextCard(ex.hash, ex)
        /\ Reads /\ ppc = "select" /\ ~answersNil
        /\ UNCHANGED <<table, last, answersNil, cancelled, escalations, poolVars>>
    BY <1>4, AttachCards
  <2>2. Wanted(ex.hash, ex.flag)
    BY <1>0, <2>1, ReadWants
  <2>3. Housed
    BY <2>1 DEF CardsBehind, Accounts
  <2>4. ex.flag <= last[ex.hash]
    BY <2>1, <2>2, <2>3 DEF Housed, Recording
  <2>5. NextCard(ex.hash, ex).flag \in {ex.flag, card[ex.hash].flag}
    BY <2>1, NextCardIs
  <2> HIDE DEF ex
  <2>6. ASSUME NEW h \in Hashes  PROVE card'[h].flag <= last[h]
    <3>1. CASE h = ex.hash /\ h \in table
      BY <2>1, <2>4, <2>5, <3>1 DEF CardsBehind
    <3>2. CASE ~(h = ex.hash /\ h \in table)
      BY <2>1, <3>2 DEF CardsBehind
    <3> QED
      BY <3>1, <3>2
  <2> QED
    BY <1>1, <2>1, <2>6 DEF CardsBehind
<1>5. CASE ~Line /\ ~RecordFlag /\ ~Attach
  <2>1. UNCHANGED <<last, card>>
    BY <1>5, TemplatesFrame DEF Expire, tableVars
  <2>2. answersNil' = answersNil \/ answersNil' = TRUE
    BY <1>5, AnswersNilFrame
  <2>3. ~answersNil' => Routed
    BY <2>2 DEF CardsBehind
  <2> QED
    BY <1>1, <2>1, <2>3 DEF CardsBehind
<1> QED
  BY <1>2, <1>3, <1>4, <1>5

LEMMA CardsGoForward ==
  ASSUME Typed, TokenInv, Accounts, CardsBehind, [Next]_vars,
         NEW h \in table \cap table', card[h].text # "none", card'[h].text # "none"
  PROVE  card'[h].flag >= card[h].flag
<1>0. /\ h \in Hashes /\ card[h] \in Card /\ card[h].flag \in Nat /\ Recorded
      /\ card[h].flag <= last[h]
  BY PipelineAssumption DEF Typed, TemplatesOK, TokenInv, Card, CardsBehind
<1>1. CASE card'[h] = card[h]
  BY <1>0, <1>1
<1>2. CASE Line
  <2> PICK k \in Hashes : \E gone \in SUBSET Evictable(k) : QuietLine(k, gone) \/ FlaggedLine(k, gone)
    BY <1>2 DEF Line
  <2> PICK gone \in SUBSET Evictable(k) : QuietLine(k, gone) \/ FlaggedLine(k, gone)
    OBVIOUS
  <2>1. h \notin gone
    BY LineCards
  <2> QED
    BY <1>0, <1>1, <2>1, LineCards
<1>3. CASE RecordFlag
  <2>1. CASE h = cur.hash
    <3>1. card'[h] = card[h] \/ card'[h].flag = card[h].flag
      BY <1>0, <1>3, <2>1, RecordCards, CarriedIs
    <3> QED
      BY <1>0, <1>1, <3>1
  <2>2. CASE h # cur.hash
    BY <1>0, <1>1, <1>3, <2>2, RecordCards
  <2> QED
    BY <2>1, <2>2
<1>4. CASE Attach
  <2> DEFINE ex == Head(explanations)
  <2>1. /\ ex \in Answer
        /\ h # ex.hash => card'[h] = card[h]
        /\ h = ex.hash => card'[h] = NextCard(h, ex)
    BY <1>0, <1>4, AttachCards
  <2>2. NextCard(h, ex).flag >= card[h].flag
    BY <1>0, <2>1, NextCardIs
  <2> QED
    BY <1>1, <2>1, <2>2
<1>5. CASE ~Line /\ ~RecordFlag /\ ~Attach
  <2>1. card' = card
    BY <1>5, TemplatesFrame DEF Expire, tableVars
  <2> QED
    BY <1>1, <2>1
<1> QED
  BY <1>2, <1>3, <1>4, <1>5

LEMMA LineCardState ==
  ASSUME Typed, TokenInv, LastIsNewest, Routed, Accounts, Cards,
         NEW k \in Hashes, NEW gone \in SUBSET Evictable(k),
         QuietLine(k, gone) \/ FlaggedLine(k, gone)
  PROVE  /\ \A h \in Hashes : h \notin table' => last'[h] = 0
         /\ ~cancelled' => CardState'
<1>0. /\ \A h \in Hashes : last[h] \in Nat /\ last[h] <= flags
      /\ Flags \subseteq Nat /\ flags \in Nat
      /\ Housed /\ Counted /\ ppc = "select" /\ gone \in SUBSET Hashes
      /\ \A h \in Hashes : h \notin table => last[h] = 0
      /\ ~cancelled => CardState
  BY PipelineAssumption DEF Typed, TemplatesOK, LastIsNewest, Flags, Accounts, Cards, QuietLine,
     FlaggedLine, LineArrives, Evictable
<1>1. /\ table' = (table \cup {k}) \ gone
      /\ \A h \in Hashes :
           /\ h \in gone => last'[h] = 0 /\ card'[h] = NoCard
           /\ h \notin gone => last'[h] = last[h] /\ card'[h] = card[h]
      /\ UNCHANGED <<answersNil, cancelled>>
  BY LineCards
<1>2. \A h \in Hashes : h \notin table' => last'[h] = 0
  BY <1>0, <1>1
<1>3. \A h \in Hashes, f \in Flags :
        Awaited(h, f)' <=> Awaited(h, f) \/ (FlaggedLine(k, gone) /\ queued' /\ h = k /\ f = flags + 1)
  <2>1. CASE QuietLine(k, gone)
    <3>1. UNCHANGED <<escalations, explanations, poolVars>>
      BY <2>1 DEF QuietLine, escVars, expVars
    <3>2. \A h \in Hashes, f \in Flags : Same(h, f)
      BY <3>1, OtherWants
    <3>3. flags' = flags
      BY <2>1 DEF QuietLine, scoreVars
    <3>4. FlaggedLine(k, gone) => flags' = flags + 1
      BY FlaggedPlaces
    <3> QED
      BY <1>0, <3>2, <3>3, <3>4 DEF Same
  <2>2. CASE FlaggedLine(k, gone)
    BY <2>2, FlaggedWants
  <2> QED
    BY <2>1, <2>2
<1>4. ASSUME ~cancelled', NEW h \in Hashes, NEW f \in Flags, last'[h] = f
      PROVE  card'[h].state = "pending" <=> Awaited(h, f)'
  <2>1. h \notin gone /\ last[h] = f /\ card'[h] = card[h]
    BY <1>0, <1>1, <1>4 DEF Flags
  <2>2. Awaited(h, f)' <=> Awaited(h, f)
    BY <1>0, <1>3, <2>1
  <2>3. CardState
    BY <1>0, <1>1, <1>4
  <2> QED
    BY <2>1, <2>2, <2>3 DEF CardState
<1>5. ~cancelled' => CardState'
  BY <1>4 DEF CardState
<1> QED
  BY <1>2, <1>5

LEMMA RecordCardState ==
  ASSUME Typed, TokenInv, LastIsNewest, Routed, Accounts, Cards, RecordFlag
  PROVE  /\ \A h \in Hashes : h \notin table' => last'[h] = 0
         /\ ~cancelled' => CardState'
<1>0. /\ \A h \in Hashes : last[h] \in Nat /\ card[h] \in Card
      /\ Flags \subseteq Nat /\ Recorded /\ CurIsOut /\ Explain
      /\ \A h \in Hashes : h \notin table => last[h] = 0
      /\ ~cancelled => CardState
  BY PipelineAssumption DEF Typed, TemplatesOK, TokenInv, Flags, Accounts, Cards, Routed, Explain
<1>1. /\ cur.hash \in Hashes /\ cur.flag \in Flags /\ ppc = "flagging"
      /\ \A h \in Hashes : /\ h # cur.hash => last'[h] = last[h] /\ card'[h] = card[h]
                           /\ h = cur.hash => last'[h] = cur.flag
      /\ \/ card' = card /\ ~Explain
         \/ queued /\ card'[cur.hash] = Carried(card[cur.hash], cur.flag, "pending")
         \/ ~queued /\ card'[cur.hash] = Carried(card[cur.hash], cur.flag, "failed")
      /\ UNCHANGED <<table, answersNil, cancelled, escalations, explanations, poolVars>>
  BY <1>0, RecordCards
<1> PICK g \in Hashes, q \in Flags : g = cur.hash /\ q = cur.flag
  BY <1>1
<1>2. \A h \in Hashes, f \in Flags : Awaited(h, f)' <=> Awaited(h, f)
  BY <1>1, OtherWants DEF Same
<1>3. /\ queued => card'[g].state = "pending"
      /\ ~queued => card'[g].state = "failed"
  BY <1>0, <1>1, CarriedIs
<1>4. /\ queued /\ ~cancelled => Awaited(g, q)
      /\ ~queued => ~Awaited(g, q)
  BY <1>0, <1>1 DEF CurIsOut, Recorded, Wanted
<1>5. \A h \in Hashes : h \notin table' => last'[h] = 0
  <2>1. g \in table
    BY <1>0, <1>1 DEF CurIsOut
  <2> QED
    BY <1>0, <1>1, <2>1
<1>6. ASSUME ~cancelled', NEW h \in Hashes, NEW f \in Flags, last'[h] = f
      PROVE  card'[h].state = "pending" <=> Awaited(h, f)'
  <2>1. CASE h = g
    <3>1. f = q
      BY <1>1, <1>6, <2>1
    <3>2. queued \in BOOLEAN
      BY DEF Typed, RunOK
    <3>3. ~cancelled
      BY <1>1, <1>6
    <3> QED
      BY <1>2, <1>3, <1>4, <2>1, <3>1, <3>2, <3>3
  <2>2. CASE h # g
    <3>1. last[h] = f /\ card'[h] = card[h] /\ CardState
      BY <1>0, <1>1, <1>6, <2>2
    <3> QED
      BY <1>2, <3>1 DEF CardState
  <2> QED
    BY <2>1, <2>2
<1>7. ~cancelled' => CardState'
  BY <1>6 DEF CardState
<1> QED
  BY <1>5, <1>7

LEMMA AttachCardState ==
  ASSUME Typed, TokenInv, PartialsFirst', LastIsNewest, Routed, Accounts, Cards, Attach
  PROVE  /\ \A h \in Hashes : h \notin table' => last'[h] = 0
         /\ ~cancelled' => CardState'
<1> DEFINE ex == Head(explanations)
<1>0. /\ \A h \in Hashes : last[h] \in Nat
      /\ Flags \subseteq Nat /\ OnePlace /\ OneTemplate /\ PartialsFirst /\ Housed
      /\ \A h \in Hashes : h \notin table => last[h] = 0
      /\ ~cancelled => CardState
  BY PipelineAssumption DEF Typed, TemplatesOK, TokenInv, Flags, Accounts, Cards
<1>1. /\ ex \in Answer /\ ex.hash \in Hashes /\ ex.flag \in Flags
      /\ \A h \in Hashes : h # ex.hash \/ h \notin table => card'[h] = card[h]
      /\ ex.hash \in table => card'[ex.hash] = NextCard(ex.hash, ex)
      /\ Reads /\ ppc = "select"
      /\ UNCHANGED <<table, last, answersNil, cancelled, escalations, poolVars>>
  BY AttachCards
<1>2. /\ Wanted(ex.hash, ex.flag)
      /\ \A h \in Hashes, f \in Flags :
           /\ ex.state = "pending" => (Awaited(h, f)' <=> Awaited(h, f))
           /\ ex.state # "pending" =>
                (Awaited(h, f)' <=> Awaited(h, f) /\ ~(ex.hash = h /\ ex.flag = f))
  BY <1>0, <1>1, ReadWants
<1> PICK g \in Hashes, q \in Flags : g = ex.hash /\ q = ex.flag
  BY <1>1
<1>3. g \in table /\ q <= last[g]
  BY <1>0, <1>1, <1>2 DEF Housed, Recording
<1>4. /\ q >= last[g] => card'[g].state = ex.state
      /\ q < last[g] => card'[g].state = card[g].state
  BY <1>1, <1>3, NextCardIs
<1>5. ~cancelled => Awaited(g, q)
  BY <1>0, <1>2 DEF PartialsFirst, Wanted
<1> DEFINE st == ex.state
<1>6. /\ \A h \in Hashes : h # g => card'[h] = card[h]
      /\ q >= last[g] => card'[g].state = st
      /\ \A h \in Hashes, f \in Flags :
           /\ st = "pending" => (Awaited(h, f)' <=> Awaited(h, f))
           /\ st # "pending" => (Awaited(h, f)' <=> Awaited(h, f) /\ ~(g = h /\ q = f))
  BY <1>1, <1>2, <1>4
<1> HIDE DEF ex, st
<1>7. ASSUME ~cancelled', NEW h \in Hashes, NEW f \in Flags, last'[h] = f
      PROVE  card'[h].state = "pending" <=> Awaited(h, f)'
  <2>1. last[h] = f /\ CardState /\ Awaited(g, q)
    BY <1>0, <1>1, <1>5, <1>7
  <2>2. CASE h = g /\ f = q
    <3>1. card'[h].state = st
      BY <1>0, <1>3, <1>6, <2>1, <2>2
    <3> QED
      BY <1>6, <2>1, <2>2, <3>1
  <2>3. CASE ~(h = g /\ f = q)
    <3>1. Awaited(h, f)' <=> Awaited(h, f)
      BY <1>6, <2>3
    <3>2. card'[h].state = card[h].state
      BY <1>0, <1>3, <1>4, <1>6, <2>1, <2>3
    <3> QED
      BY <2>1, <3>1, <3>2 DEF CardState
  <2> QED
    BY <2>2, <2>3
<1>8. ~cancelled' => CardState'
  BY <1>7 DEF CardState
<1> QED
  BY <1>0, <1>1, <1>8

LEMMA CardsStep ==
  Typed /\ TokenInv /\ LastIsNewest /\ Accounts /\ Cards /\ [Next]_vars => Cards'
<1> SUFFICES ASSUME Typed, TokenInv, LastIsNewest, Accounts, Cards, [Next]_vars, Routed
             PROVE  /\ \A h \in Hashes : h \notin table' => last'[h] = 0
                    /\ ~cancelled' => CardState'
  BY ModeStays DEF Cards, Routed
<1>1. CASE Line
  <2> PICK k \in Hashes : \E gone \in SUBSET Evictable(k) : QuietLine(k, gone) \/ FlaggedLine(k, gone)
    BY <1>1 DEF Line
  <2> PICK gone \in SUBSET Evictable(k) : QuietLine(k, gone) \/ FlaggedLine(k, gone)
    OBVIOUS
  <2> QED
    BY LineCardState
<1>2. CASE RecordFlag
  BY <1>2, RecordCardState
<1>3. CASE Attach
  <2>1. PartialsFirst'
    BY TokenStep DEF TokenInv
  <2> QED
    BY <1>3, <2>1, AttachCardState
<1>4. CASE ~Line /\ ~RecordFlag /\ ~Attach
  <2>1. UNCHANGED <<table, last, card>>
    BY <1>4, TemplatesFrame DEF Expire, tableVars
  <2>2. cancelled => cancelled'
    BY CancelStays
  <2>3. ASSUME ~cancelled  PROVE \A h \in Hashes, f \in Flags : Same(h, f)
    <3>1. OnePlace /\ Replies /\ printer = "done"
      BY DEF TokenInv, Accounts
    <3>2. ASSUME NEW w \in Workers, Worker(w) \/ (\E text \in {"none", "some"} : Partial(w, text))
          PROVE  \A h \in Hashes, f \in Flags : Same(h, f)
      BY <2>3, <3>1, <3>2, WorkerWants, StopWants DEF Worker
    <3>3. CASE UNCHANGED <<escalations, explanations, poolVars>>
      BY <3>3, OtherWants
    <3>4. ~PrintAnswer /\ ~PrintFails
      BY <3>1 DEF PrintAnswer, PrintFails
    <3> QED
      BY <1>4, <3>2, <3>3, <3>4, TokensFrame DEF Line
  <2>4. ~cancelled' => CardState'
    BY <2>1, <2>2, <2>3 DEF Cards, CardState, Same
  <2>5. \A h \in Hashes : h \notin table' => last'[h] = 0
    BY <2>1 DEF Cards
  <2> QED
    BY <2>4, <2>5
<1> QED
  BY <1>1, <1>2, <1>3, <1>4

LEMMA InitCards == Init => CardsBehind /\ Cards
<1> SUFFICES ASSUME Init  PROVE CardsBehind /\ Cards
  OBVIOUS
<1>1. \A h \in Hashes : last[h] = 0 /\ card[h] = NoCard
  BY DEF Init
<1>2. \A h \in Hashes : card[h].flag = 0
  BY <1>1 DEF NoCard
<1>3. \A f \in Flags : f # 0
  BY PipelineAssumption DEF Flags
<1>4. ~answersNil => Routed
  BY DEF Init
<1>5. \A h \in Hashes : card[h].flag <= last[h]
  BY <1>1, <1>2
<1>6. CardState
  BY <1>1, <1>3 DEF CardState
<1> QED
  BY <1>1, <1>4, <1>5, <1>6 DEF CardsBehind, Cards

FlagInv == Typed /\ TokenInv /\ LastIsNewest /\ Accounts /\ CardsBehind /\ Cards

LEMMA FlagInvAlways == Spec => []FlagInv
<1>1. Init => FlagInv
  BY InitTyped, InitTokens, InitAccounts, InitCards DEF FlagInv
<1>2. FlagInv /\ [Next]_vars => FlagInv'
  <2> SUFFICES ASSUME FlagInv, [Next]_vars  PROVE FlagInv'
    OBVIOUS
  <2>1. Typed /\ TokenInv /\ LastIsNewest /\ Accounts /\ CardsBehind /\ Cards
    BY DEF FlagInv
  <2>2. Recorded
    BY <2>1 DEF TokenInv
  <2>3. Typed'
    BY <2>1, TypedStep
  <2>4. TokenInv'
    BY <2>1, TokenStep
  <2>5. LastIsNewest'
    BY <2>1, <2>2, LastStep
  <2>6. Accounts'
    BY <2>1, AccountsStep
  <2>7. CardsBehind' /\ Cards'
    BY <2>1, CardsBehindStep, CardsStep
  <2> QED
    BY <2>3, <2>4, <2>5, <2>6, <2>7 DEF FlagInv
<1> QED
  BY <1>1, <1>2, PTL DEF Spec

\* A template with an answer on its way is in the table when the answer comes, whatever was
\* evicted while the model thought: attach's early return, which would leave the counters wrong
\* for the rest of the run, is never taken (pinned, shrink, attach).
THEOREM AnswersAlwaysFindTheirTemplate == Spec => []AnswersFindTheirTemplate
<1>1. FlagInv => AnswersFindTheirTemplate
  BY DEF FlagInv, Accounts, Housed, Wanted, AnswersFindTheirTemplate
<1> QED
  BY FlagInvAlways, <1>1, PTL

\* The explaining counter and each template's Awaiting are exact, through answers that come
\* back out of order, fail, stream, or belong to an older flag, and through evictions of the
\* templates around them (escalated, attach, upsert).
THEOREM CountersAreAlwaysExact == Spec => []CountersAreExact
<1>1. FlagInv => CountersAreExact
  <2> SUFFICES ASSUME FlagInv, Routed, ~cancelled
               PROVE  /\ explaining = Cardinality(OutFlags)
                      /\ \A h \in Hashes : awaiting[h] = Cardinality(OutFor(h))
    BY DEF CountersAreExact
  <2>1. Counted /\ PartialsFirst
    BY DEF FlagInv, Accounts, TokenInv
  <2>2. \A h \in Hashes : WantedFor(h) = OutFor(h)
    BY <2>1 DEF WantedFor, OutFor, Wanted, PartialsFirst
  <2> QED
    BY <2>1, <2>2 DEF Counted
<1> QED
  BY FlagInvAlways, <1>1, PTL

\* A card says "explaining..." exactly while the answer to its template's newest flag is on
\* the way, for every order of answers and evictions: never for ever, and never finished by
\* an older flag's answer (escalated, attach).
THEOREM CardsAlwaysFollowTheNewestFlag == Spec => []CardFollowsNewestFlag
<1>1. FlagInv => CardFollowsNewestFlag
  <2> SUFFICES ASSUME FlagInv, Routed, ~cancelled, NEW h \in table, last[h] # 0
               PROVE  card[h].state = "pending" <=> Awaited(h, last[h])
    BY DEF CardFollowsNewestFlag
  <2>1. h \in Hashes /\ last[h] \in Flags
    BY PipelineAssumption DEF FlagInv, Typed, TemplatesOK, Flags
  <2>2. CardState
    BY DEF FlagInv, Cards
  <2> QED
    BY <2>1, <2>2 DEF CardState
<1> QED
  BY FlagInvAlways, <1>1, PTL

\* While a template lives, whatever order its answers come back in and whatever is evicted
\* around it, the text on its card is never replaced by an older flag's (olderAnswer, #121).
THEOREM CardsNeverGoBack == Spec => CardNeverGoesBack
<1>1. FlagInv /\ [Next]_vars =>
        [\A h \in table \cap table' :
           card[h].text # "none" /\ card'[h].text # "none" => card'[h].flag >= card[h].flag]_vars
  BY CardsGoForward DEF FlagInv
<1> QED
  BY FlagInvAlways, <1>1, PTL DEF Spec, CardNeverGoesBack

(***************************************************************************)
(* The answer a card keeps.                                                *)
(***************************************************************************)
TextFits(ex) ==
  /\ ex.state = "pending" => Streaming
  /\ ex.state = "failed" => ex.text = "none"
  /\ ex.state = "done" => ex.text # "some"

AnswersFit ==
  /\ \A i \in DOMAIN explanations : TextFits(explanations[i])
  /\ \A w \in Workers : wpc[w] = "sending" => TextFits(reply[w])

AnswerHeld == \A h \in Hashes : answered[h] => card[h].text = "full"

LEMMA AnswersFitStep == Typed /\ TokenInv /\ AnswersFit /\ [Next]_vars => AnswersFit'
<1> SUFFICES ASSUME Typed, TokenInv, AnswersFit, [Next]_vars  PROVE AnswersFit'
  OBVIOUS
<1>0. OnePlace /\ Replies /\ explanations \in Seq(Answer)
  BY DEF TokenInv, Typed, PoolOK
<1>1. CASE UNCHANGED <<explanations, poolVars>>
  BY <1>1 DEF AnswersFit, poolVars, TextFits
<1>2. ASSUME NEW w \in Workers, Take(w)  PROVE AnswersFit'
  <2>1. UNCHANGED <<reply, explanations>> /\ wpc'[w] # "sending"
    BY <1>2, TakePlaces DEF Take, expVars, Typed, PoolOK
  <2>2. \A v \in Workers \ {w} : wpc'[v] = wpc[v]
    BY <1>2 DEF Take, Typed, PoolOK
  <2> QED
    BY <2>1, <2>2 DEF AnswersFit, TextFits
<1>3. ASSUME NEW w \in Workers, Call(w)  PROVE AnswersFit'
  <2>1. /\ UNCHANGED explanations /\ TextFits(reply'[w])
        /\ \A v \in Workers \ {w} : reply'[v] = reply[v] /\ wpc'[v] = wpc[v]
    BY <1>3, ReplyPlaces DEF TextFits
  <2> QED
    BY <2>1 DEF AnswersFit, TextFits
<1>4. ASSUME NEW w \in Workers, SendAnswer(w)  PROVE AnswersFit'
  <2> DEFINE e == reply[w]
  <2>1. /\ ~Busy(w)' /\ TextFits(e) /\ e \in Answer
        /\ explanations' = Append(explanations, e)
        /\ \A v \in Workers \ {w} : wpc'[v] = wpc[v] /\ reply'[v] = reply[v]
    BY <1>0, <1>4, SendPlaces DEF AnswersFit
  <2>2. wpc'[w] # "sending"
    BY <2>1 DEF Busy
  <2> HIDE DEF e
  <2>3. \A i \in DOMAIN explanations' : TextFits(explanations'[i])
    BY <1>0, <2>1, AppendEntries DEF AnswersFit
  <2> QED
    BY <2>1, <2>2, <2>3 DEF AnswersFit, TextFits
<1>5. ASSUME NEW w \in Workers, StopWorker(w)  PROVE AnswersFit'
  BY <1>5, StopPlaces DEF AnswersFit, TextFits
<1>6. ASSUME NEW w \in Workers, NEW text \in {"none", "some"}, Partial(w, text)  PROVE AnswersFit'
  <2> DEFINE e == AnswerTo(w, "pending", text)
  <2>1. /\ e \in Answer /\ UNCHANGED <<wpc, reply>>
        /\ UNCHANGED explanations \/ explanations' = Append(explanations, e)
    BY <1>6, PartialPlaces
  <2>2. TextFits(e)
    BY <1>6 DEF TextFits, Partial, AnswerTo
  <2> HIDE DEF e
  <2>3. \A i \in DOMAIN explanations' : TextFits(explanations'[i])
    BY <1>0, <2>1, <2>2, AppendEntries DEF AnswersFit
  <2> QED
    BY <2>1, <2>3 DEF AnswersFit, TextFits
<1>7. ASSUME NEW k \in Hashes, NEW gone \in SUBSET Evictable(k), FlaggedLine(k, gone)
      PROVE  UNCHANGED <<explanations, poolVars>>
  BY <1>7 DEF FlaggedLine, expVars
<1>8. CASE Reads /\ UNCHANGED <<escalations, poolVars>>
  <2>1. explanations # <<>> /\ explanations' = Tail(explanations)
    BY <1>8 DEF Reads
  <2>2. \A i \in DOMAIN explanations' : TextFits(explanations'[i])
    BY <1>0, <2>1, TailEntries DEF AnswersFit
  <2> QED
    BY <1>8, <2>2 DEF AnswersFit, poolVars, TextFits
<1> QED
  BY <1>1, <1>2, <1>3, <1>4, <1>5, <1>6, <1>7, <1>8, Moves

LEMMA AnsweredFrame ==
  [Next]_vars => Line \/ RecordFlag \/ Attach \/ UNCHANGED <<card, answered>>
  BY TemplatesFrame DEF Expire, tableVars, recVars

\* A final answer leaves on the card what History says of it.
LEMMA LandsWithText ==
  ASSUME NEW h \in Hashes, NEW ex \in Answer, ex.hash = h, card[h] \in Card,
         TextFits(ex), ex.state # "pending", answered[h] => card[h].text = "full",
         AnsweredBy(ex, answered[h])
  PROVE  NextCard(h, ex).text = "full"
<1>1. ex.state \in {"done", "failed"} /\ ex.text \in Texts
  BY DEF Answer
<1> DEFINE c == card[h]
<1>2. c \in Card /\ c = card[h]
  OBVIOUS
<1> HIDE DEF c
<1>3. CASE ex.state = "done" /\ (ex.flag >= last[h] \/ ShowsOlder(c, ex))
  <2>1. ex.text = "full"
    BY <1>2, <1>3 DEF AnsweredBy
  <2>2. ex.flag >= last[h] => NextCard(h, ex) = Landed(c, ex)
    BY <1>2 DEF NextCard
  <2>3. Landed(c, ex).text = "full"
    BY <1>3, <2>1 DEF Landed
  <2>4. ~(ex.flag >= last[h]) => NextCard(h, ex).text = "full"
    BY <1>2, <1>3, <2>1 DEF NextCard
  <2> QED
    BY <2>2, <2>3, <2>4
<1>4. CASE ~(ex.state = "done" /\ (ex.flag >= last[h] \/ ShowsOlder(c, ex)))
  <2>1. c.text = "full"
    BY <1>2, <1>4 DEF AnsweredBy
  <2>2. CASE ex.flag >= last[h]
    <3>1. NextCard(h, ex) = Landed(c, ex)
      BY <1>2, <2>2 DEF NextCard
    <3>2. ex.state = "failed" /\ ex.text = "none"
      BY <1>1, <1>4, <2>2 DEF TextFits
    <3>3. Landed(c, ex) = [c EXCEPT !.state = "failed"]
      BY <2>1, <3>2 DEF Landed
    <3>4. [c EXCEPT !.state = "failed"].text = c.text
      BY <1>2 DEF Card
    <3> QED
      BY <2>1, <3>1, <3>3, <3>4
  <2>3. CASE ~(ex.flag >= last[h])
    <3>1. ~ShowsOlder(c, ex)
      BY <1>1, <1>4 DEF ShowsOlder, TextFits
    <3> QED
      BY <1>2, <2>1, <2>3, <3>1 DEF NextCard
  <2> QED
    BY <2>2, <2>3
<1> QED
  BY <1>3, <1>4

LEMMA AnswerHeldStep ==
  ASSUME Streaming = FALSE
  PROVE  Typed /\ TokenInv /\ AnswersFit /\ AnswerHeld /\ [Next]_vars => AnswerHeld'
<1> SUFFICES ASSUME Typed, TokenInv, AnswersFit, AnswerHeld, [Next]_vars  PROVE AnswerHeld'
  OBVIOUS
<1>0. /\ \A h \in Hashes : card[h] \in Card
      /\ answered \in [Hashes -> BOOLEAN] /\ Recorded
  BY DEF Typed, TemplatesOK, OutOK, TokenInv
<1>1. CASE Line
  <2> PICK k \in Hashes : \E gone \in SUBSET Evictable(k) : QuietLine(k, gone) \/ FlaggedLine(k, gone)
    BY <1>1 DEF Line
  <2> PICK gone \in SUBSET Evictable(k) : QuietLine(k, gone) \/ FlaggedLine(k, gone)
    OBVIOUS
  <2>1. \A h \in Hashes : /\ h \in gone => ~answered'[h]
                          /\ h \notin gone => answered'[h] = answered[h] /\ card'[h] = card[h]
    BY DEF QuietLine, FlaggedLine, LineArrives, Upsert
  <2> QED
    BY <2>1 DEF AnswerHeld
<1>2. CASE RecordFlag
  <2>1. answered' = answered
    BY <1>2 DEF RecordFlag
  <2>2. \A h \in Hashes : card'[h].text = card[h].text
    BY <1>0, <1>2, RecordCards, CarriedIs
  <2> QED
    BY <2>1, <2>2 DEF AnswerHeld
<1>3. CASE Attach
  <2> DEFINE ex == Head(explanations)
  <2>1. /\ ex \in Answer /\ ex.hash \in Hashes
        /\ \A h \in Hashes : h # ex.hash \/ h \notin table => card'[h] = card[h]
        /\ ex.hash \in table => card'[ex.hash] = NextCard(ex.hash, ex)
        /\ Reads
    BY <1>3, AttachCards
  <2>2. /\ ex.hash \in table => answered' = [answered EXCEPT ![ex.hash] = AnsweredBy(ex, @)]
        /\ ex.hash \notin table => answered' = answered
    BY <1>3 DEF Attach
  <2>3. TextFits(ex)
    <3>1. explanations \in Seq(Answer) /\ explanations # <<>>
      BY <2>1 DEF Typed, PoolOK, Reads
    <3>2. 1 \in DOMAIN explanations /\ explanations[1] = ex
      BY <3>1, TailEntries
    <3> HIDE DEF ex
    <3> QED
      BY <3>2 DEF AnswersFit
  <2> HIDE DEF ex
  <2>4. ex.state # "pending"
    BY <2>3 DEF TextFits
  <2>5. ASSUME NEW h \in Hashes, answered'[h]  PROVE card'[h].text = "full"
    <3>1. CASE h = ex.hash /\ h \in table
      <4>1. answered'[h] = AnsweredBy(ex, answered[h])
        BY <1>0, <2>2, <3>1
      <4>2. AnsweredBy(ex, answered[h])
        BY <2>5, <4>1
      <4>3. answered[h] => card[h].text = "full"
        BY DEF AnswerHeld
      <4>4. NextCard(h, ex).text = "full"
        BY <1>0, <2>1, <2>3, <2>4, <3>1, <4>2, <4>3, LandsWithText
      <4> QED
        BY <2>1, <3>1, <4>4
    <3>2. CASE ~(h = ex.hash /\ h \in table)
      <4>1. answered'[h] = answered[h] /\ card'[h] = card[h]
        BY <1>0, <2>1, <2>2, <3>2
      <4> QED
        BY <2>5, <4>1 DEF AnswerHeld
    <3> QED
      BY <3>1, <3>2
  <2> QED
    BY <2>5 DEF AnswerHeld
<1>4. CASE UNCHANGED <<card, answered>>
  BY <1>4 DEF AnswerHeld
<1> QED
  BY <1>1, <1>2, <1>3, <1>4, AnsweredFrame

LEMMA InitAnswers == Init => AnswersFit /\ AnswerHeld
<1> SUFFICES ASSUME Init  PROVE AnswersFit /\ AnswerHeld
  OBVIOUS
<1>1. /\ explanations = <<>>
      /\ \A w \in Workers : wpc[w] # "sending"
      /\ \A h \in Hashes : answered[h] = FALSE
  BY DEF Init
<1>2. DOMAIN explanations = {}
  BY <1>1
<1> QED
  BY <1>1, <1>2 DEF AnswersFit, AnswerHeld

\* Without streaming, a failed re-explanation leaves the card the answer it had, through any
\* order of answers: a card that was given a final answer with text shows one until its
\* template is evicted (keepEarlierAnswer).  With streaming a partial takes the text's place.
THEOREM EarlierAnswersAlwaysSurvive ==
  ASSUME Streaming = FALSE
  PROVE  Spec => []EarlierAnswerSurvives
<1> DEFINE Inv == FlagInv /\ AnswersFit /\ AnswerHeld
<1>1. Init /\ FlagInv => Inv
  BY InitAnswers
<1>2. Inv /\ FlagInv' /\ [Next]_vars => Inv'
  <2> SUFFICES ASSUME Inv, FlagInv', [Next]_vars  PROVE AnswersFit' /\ AnswerHeld'
    OBVIOUS
  <2>1. Typed /\ TokenInv
    BY DEF FlagInv
  <2> QED
    BY <2>1, AnswersFitStep, AnswerHeldStep
<1>3. Inv => EarlierAnswerSurvives
  BY DEF FlagInv, Typed, TemplatesOK, AnswerHeld, EarlierAnswerSurvives
<1> QED
  BY FlagInvAlways, <1>1, <1>2, <1>3, PTL DEF Spec

(***************************************************************************)
(* The collector's cards: one for a template, the newest CardsKept of them.*)
(***************************************************************************)
CardsApart == \A i, j \in DOMAIN cards : cards[i] = cards[j] => i = j

CardsKeptAt == cards \in Seq(Hashes) /\ Len(cards) <= CardsKept /\ CardsApart

LEMMA CutOut ==
  ASSUME NEW s \in Seq(Hashes), NEW i \in 1..Len(s)
  PROVE  LET t == SubSeq(s, 1, i - 1) \o SubSeq(s, i + 1, Len(s))
         IN  /\ t \in Seq(Hashes) /\ Len(t) = Len(s) - 1
             /\ \A j \in 1..(Len(s) - 1) : t[j] = IF j < i THEN s[j] ELSE s[j + 1]
<1> DEFINE a == SubSeq(s, 1, i - 1)
           b == SubSeq(s, i + 1, Len(s))
<1>0. Len(s) \in Nat /\ i \in Nat /\ \A j \in 1..Len(s) : s[j] \in Hashes
  BY LenProperties, ElementOfSeq
<1>1. /\ a \in Seq(Hashes) /\ Len(a) = i - 1
      /\ \A j \in 1..(i - 1) : a[j] = s[j]
  <2>1. \A j \in 1..(i - 1) : s[j] \in Hashes
    BY <1>0
  <2>2. /\ a \in Seq(Hashes) /\ Len(a) = IF 1 <= i - 1 THEN (i - 1) - 1 + 1 ELSE 0
        /\ \A j \in 1..((i - 1) - 1 + 1) : a[j] = s[1 + j - 1]
    BY <1>0, <2>1, SubSeqProperties
  <2> HIDE DEF a
  <2>3. ASSUME NEW j \in 1..(i - 1)  PROVE a[j] = s[j]
    <3>1. j \in 1..((i - 1) - 1 + 1) /\ 1 + j - 1 = j
      BY <1>0
    <3> QED
      BY <2>2, <3>1
  <2> QED
    BY <1>0, <2>2, <2>3
<1>2. /\ b \in Seq(Hashes) /\ Len(b) = Len(s) - i
      /\ \A j \in 1..(Len(s) - i) : b[j] = s[i + j]
  <2>1. \A j \in (i + 1)..Len(s) : s[j] \in Hashes
    BY <1>0
  <2>2. /\ b \in Seq(Hashes) /\ Len(b) = IF i + 1 <= Len(s) THEN Len(s) - (i + 1) + 1 ELSE 0
        /\ \A j \in 1..(Len(s) - (i + 1) + 1) : b[j] = s[(i + 1) + j - 1]
    BY <1>0, <2>1, SubSeqProperties
  <2> HIDE DEF b
  <2>3. ASSUME NEW j \in 1..(Len(s) - i)  PROVE b[j] = s[i + j]
    <3>1. j \in 1..(Len(s) - (i + 1) + 1) /\ (i + 1) + j - 1 = i + j
      BY <1>0
    <3> QED
      BY <2>2, <3>1
  <2> QED
    BY <1>0, <2>2, <2>3
<1> HIDE DEF a, b
<1>3. /\ a \o b \in Seq(Hashes) /\ Len(a \o b) = Len(a) + Len(b)
      /\ \A j \in 1..(Len(a) + Len(b)) : (a \o b)[j] = IF j <= Len(a) THEN a[j] ELSE b[j - Len(a)]
  BY <1>1, <1>2, ConcatProperties
<1>4. ASSUME NEW j \in 1..(Len(s) - 1)
      PROVE  (a \o b)[j] = IF j < i THEN s[j] ELSE s[j + 1]
  <2>1. CASE j < i
    BY <1>0, <1>1, <1>2, <1>3, <2>1
  <2>2. CASE ~(j < i)
    <3>1. j - (i - 1) \in 1..(Len(s) - i) /\ i + (j - (i - 1)) = j + 1 /\ ~(j <= i - 1)
      BY <1>0, <2>2
    <3>2. b[j - (i - 1)] = s[j + 1]
      BY <1>2, <3>1
    <3>3. j \in 1..(Len(a) + Len(b))
      BY <1>0, <1>1, <1>2
    <3> QED
      BY <1>1, <1>3, <2>2, <3>1, <3>2, <3>3
  <2> QED
    BY <2>1, <2>2
<1>5. Len(a \o b) = Len(s) - 1
  BY <1>0, <1>1, <1>2, <1>3
<1> QED
  BY <1>3, <1>4, <1>5 DEF a, b

LEMMA WithoutIs ==
  ASSUME CardsKeptAt, NEW h \in Hashes
  PROVE  /\ Without(h) \in Seq(Hashes) /\ Len(Without(h)) <= CardsKept
         /\ \A i \in DOMAIN Without(h) : Without(h)[i] # h
         /\ \A i, j \in DOMAIN Without(h) : Without(h)[i] = Without(h)[j] => i = j
<1>0. cards \in Seq(Hashes) /\ Len(cards) \in Nat /\ DOMAIN cards = 1..Len(cards) /\ CardsKept \in Nat
  BY LenProperties, PipelineAssumption DEF CardsKeptAt
<1>1. CASE ~Carded(h)
  <2>1. Without(h) = cards /\ \A i \in DOMAIN cards : cards[i] # h
    BY <1>1 DEF Without, Carded
  <2> QED
    BY <2>1 DEF CardsKeptAt, CardsApart
<1>2. CASE Carded(h)
  <2> DEFINE k == CHOOSE i \in DOMAIN cards : cards[i] = h
             t == SubSeq(cards, 1, k - 1) \o SubSeq(cards, k + 1, Len(cards))
  <2>1. k \in DOMAIN cards /\ cards[k] = h
    BY <1>2 DEF Carded
  <2>2. Without(h) = t
    BY <1>2 DEF Without
  <2>3. /\ t \in Seq(Hashes) /\ Len(t) = Len(cards) - 1
        /\ \A j \in 1..(Len(cards) - 1) : t[j] = IF j < k THEN cards[j] ELSE cards[j + 1]
    <3>1. k \in 1..Len(cards)
      BY <1>0, <2>1
    <3> HIDE DEF k
    <3> QED
      BY <1>0, <3>1, CutOut
  <2> HIDE DEF k, t
  <2>4. DOMAIN t = 1..(Len(cards) - 1)
    BY <2>3, LenProperties
  <2>5. \A j \in DOMAIN t : \E i \in DOMAIN cards : i # k /\ t[j] = cards[i]
                                                      /\ i = IF j < k THEN j ELSE j + 1
    BY <1>0, <2>1, <2>3, <2>4
  <2>6. \A j \in DOMAIN t : t[j] # h
    BY <2>1, <2>5 DEF CardsKeptAt, CardsApart
  <2>7. \A i, j \in DOMAIN t : t[i] = t[j] => i = j
    <3> SUFFICES ASSUME NEW i \in DOMAIN t, NEW j \in DOMAIN t, t[i] = t[j]  PROVE i = j
      OBVIOUS
    <3> DEFINE ii == IF i < k THEN i ELSE i + 1
               jj == IF j < k THEN j ELSE j + 1
    <3>1. ii \in DOMAIN cards /\ jj \in DOMAIN cards /\ t[i] = cards[ii] /\ t[j] = cards[jj]
      BY <2>5
    <3>2. ii = jj
      BY <3>1 DEF CardsKeptAt, CardsApart
    <3>3. i \in Nat /\ j \in Nat /\ k \in Nat
      BY <1>0, <2>1, <2>4
    <3> QED
      BY <3>2, <3>3
  <2>8. Len(t) <= CardsKept
    BY <1>0, <2>3 DEF CardsKeptAt
  <2> QED
    BY <2>2, <2>3, <2>6, <2>7, <2>8
<1> QED
  BY <1>1, <1>2

LEMMA RetainedIs ==
  ASSUME CardsKeptAt, NEW h \in Hashes
  PROVE  /\ Retained(h) \in Seq(Hashes) /\ Len(Retained(h)) <= CardsKept
         /\ \A i, j \in DOMAIN Retained(h) : Retained(h)[i] = Retained(h)[j] => i = j
<1> DEFINE w == Without(h)
           all == Append(w, h)
<1>1. /\ w \in Seq(Hashes) /\ Len(w) <= CardsKept /\ Len(w) \in Nat /\ CardsKept \in Nat \ {0}
      /\ \A i \in DOMAIN w : w[i] # h
      /\ \A i, j \in DOMAIN w : w[i] = w[j] => i = j
  BY WithoutIs, LenProperties, PipelineAssumption
<1>2. Retained(h) = IF Len(all) > CardsKept THEN Tail(all) ELSE all
  BY DEF Retained
<1> HIDE DEF w
<1>3. /\ all \in Seq(Hashes) /\ Len(all) = Len(w) + 1
      /\ \A i \in DOMAIN w : all[i] = w[i] /\ i < Len(w) + 1
      /\ all[Len(w) + 1] = h
      /\ \A i \in DOMAIN all : i \in DOMAIN w \/ i = Len(w) + 1
  BY <1>1, AppendEntries, AppendProperties
<1> HIDE DEF all
<1>4. \A i, j \in DOMAIN all : all[i] = all[j] => i = j
  BY <1>1, <1>3
<1>5. CASE Len(all) > CardsKept
  <2>1. all # <<>>
    BY <1>1, <1>3, EmptySeq
  <2>2. /\ Tail(all) \in Seq(Hashes) /\ Len(Tail(all)) = Len(all) - 1
        /\ DOMAIN Tail(all) \subseteq Nat
        /\ \A i \in DOMAIN Tail(all) : i + 1 \in DOMAIN all /\ Tail(all)[i] = all[i + 1]
    BY <1>3, <2>1, HeadTailProperties, TailEntries
  <2>3. \A i, j \in DOMAIN Tail(all) : Tail(all)[i] = Tail(all)[j] => i = j
    <3> SUFFICES ASSUME NEW i \in DOMAIN Tail(all), NEW j \in DOMAIN Tail(all),
                        Tail(all)[i] = Tail(all)[j]
                 PROVE  i = j
      OBVIOUS
    <3>1. i + 1 = j + 1 /\ i \in Nat /\ j \in Nat
      BY <1>4, <2>2
    <3> QED
      BY <3>1
  <2> QED
    BY <1>1, <1>2, <1>3, <1>5, <2>2, <2>3
<1>6. CASE ~(Len(all) > CardsKept)
  BY <1>1, <1>2, <1>3, <1>4, <1>6
<1> QED
  BY <1>5, <1>6

LEMMA CardsFrame == [Next]_vars => RecordFlag \/ cards' = cards
  BY TemplatesFrame DEF Line, QuietLine, FlaggedLine, Attach, Expire, tableVars

LEMMA CardsKeptStep == Typed /\ CardsKeptAt /\ [Next]_vars => CardsKeptAt'
<1> SUFFICES ASSUME Typed, CardsKeptAt, [Next]_vars  PROVE CardsKeptAt'
  OBVIOUS
<1>1. CASE cards' = cards
  BY <1>1 DEF CardsKeptAt, CardsApart
<1>2. CASE RecordFlag
  <2>1. cur.hash \in Hashes /\ cards' = IF Routed THEN Retained(cur.hash) ELSE cards
    BY <1>2 DEF RecordFlag, Typed, RunOK, Request
  <2>2. CASE Routed
    <3> PICK h \in Hashes : h = cur.hash
      BY <2>1
    <3>1. cards' = Retained(h)
      BY <2>1, <2>2
    <3> QED
      BY <3>1, RetainedIs DEF CardsKeptAt, CardsApart
  <2> QED
    BY <1>1, <2>1, <2>2
<1> QED
  BY <1>1, <1>2, CardsFrame

LEMMA CardsKeptAlways == Spec => [](Typed /\ CardsKeptAt)
<1>1. Init => CardsKeptAt
  <2> SUFFICES ASSUME Init  PROVE CardsKeptAt
    OBVIOUS
  <2>1. cards = <<>> /\ cards \in Seq(Hashes) /\ DOMAIN cards = {} /\ Len(cards) = 0
    BY DEF Init
  <2> QED
    BY <2>1, PipelineAssumption DEF CardsKeptAt, CardsApart
<1>2. Typed /\ CardsKeptAt /\ [Next]_vars => (Typed /\ CardsKeptAt)'
  BY TypedStep, CardsKeptStep
<1> QED
  BY InitTyped, <1>1, <1>2, PTL DEF Spec

\* Every variable keeps its type, the channels never hold more than their capacity and the
\* collector never more than CardsKept cards.
THEOREM TypesAlwaysHold == Spec => []TypeOK
<1>1. Typed /\ CardsKeptAt => TypeOK
  BY DEF Typed, TemplatesOK, CardsKeptAt, TypeOK, TableOK
<1> QED
  BY CardsKeptAlways, <1>1, PTL

\* The collector holds one card for a template, however often it is flagged: the pin that a
\* card is on its template goes when that card does (retain, retains, pinned).
THEOREM CardsAreAlwaysApart == Spec => []CardsApart
<1>1. Typed /\ CardsKeptAt => CardsApart
  BY DEF CardsKeptAt
<1> QED
  BY CardsKeptAlways, <1>1, PTL

-----------------------------------------------------------------------------
(***************************************************************************)
(* How a run ends.  What liveness says of it (RunEndsResolved) rests on    *)
(* three facts that need no fairness: no flag is ever forgotten, something *)
(* can always move until the run is over, and once the lines have ended    *)
(* there is only so much left to do.                                       *)
(***************************************************************************)

\* A flag that was minted is resolved, or its terminal answer is still on the way, or the
\* pipeline goroutine is about to resolve it as a queue-full drop.
Kept ==
  ~cancelled => \A f \in Flags : f <= flags =>
    resolved[f] # 0 \/ (Recording(f) /\ ~queued) \/ \E h \in Hashes : Awaited(h, f)

\* Until the run is interrupted no flag is lost between the goroutines.
NoFlagIsForgotten ==
  ~cancelled => \A f \in Flags : f <= flags =>
    resolved[f] = 1 \/ Recording(f) \/ \E h \in Hashes : Awaited(h, f)

\* Every goroutine has returned, or stdout failed and the process exits under them.
RunOver ==
  \/ ppc = "done" /\ printer = "done" /\ \A w \in Workers : wpc[w] = "gone"
  \/ printer = "failed"

\* A run that ended by itself has resolved each of its flags.
EndIsResolved ==
  ~cancelled /\ ppc = "done" /\ printer = "done" => \A f \in Flags : f <= flags => resolved[f] = 1

\* A run without an LLM stage has no pool and no channels to it.
NoStage ==
  ~Explain => /\ escalations = <<>> /\ explanations = <<>>
              /\ ~expOpen /\ ~escOpen /\ outNil
              /\ \A w \in Workers : wpc[w] = "gone"

\* The places of the pipeline goroutine and of the printer, and the channels each closes.
Ends ==
  /\ Routed => printer = "done"
  /\ ppc = "event" => Printed
  /\ Printed => answersNil
  /\ lines = "nil" => ~escOpen /\ ppc \in {"select", "done"}
  /\ Explain /\ ~escOpen => lines = "nil"
  /\ ppc = "done" => ~eventsOpen
  /\ Printed /\ ~eventsOpen => ppc = "done"
  /\ Printed /\ eventsNil => ~eventsOpen /\ events = 0

\* What an uninterrupted run has behind it at each close: a worker leaves an empty and closed
\* queue, the pool closes its answers behind the last worker, and whoever reads the answers
\* stops when they have all been read.
Chain ==
  ~cancelled =>
    /\ \A w \in Workers : wpc[w] = "gone" => escalations = <<>> /\ ~escOpen
    /\ ~expOpen => \A w \in Workers : wpc[w] = "gone"
    /\ Routed /\ answersNil => explanations = <<>> /\ ~expOpen
    /\ Printed /\ outNil => explanations = <<>> /\ ~expOpen
    /\ ppc = "done" => lines = "nil" /\ answersNil
    /\ Printed /\ printer = "done" => eventsNil /\ outNil

EndInv == NoStage /\ Ends /\ Chain

\* The guards of the steps that fairness is stated of.
PipelineCanMove ==
  \/ ppc = "flagging"
  \/ ppc = "event" /\ events < EventRoom
  \/ ppc = "select" /\ lines = "closed"
  \/ ppc = "select" /\ ~answersNil /\ (explanations # <<>> \/ ~expOpen)
  \/ MayReturn
WorkerCanMove(w) ==
  \/ wpc[w] = "idle" /\ (escalations # <<>> \/ ~escOpen)
  \/ wpc[w] = "calling" /\ ~cancelled
  \/ wpc[w] = "sending" /\ Len(explanations) < AnswerRoom
  \/ wpc[w] # "gone" /\ cancelled
PoolCanEnd == expOpen /\ \A w \in Workers : wpc[w] = "gone"
PrinterCanMove ==
  /\ printer = "run"
  /\ \/ events > 0
     \/ ~outNil /\ (explanations # <<>> \/ ~expOpen)
     \/ ~eventsNil /\ events = 0 /\ ~eventsOpen
     \/ (eventsNil /\ outNil) \/ cancelled

\* Once the lines have ended or the run is interrupted, somebody can move until all have
\* returned: no two goroutines wait for each other's channel.
ShutdownNeverSticks ==
  lines # "open" \/ cancelled =>
    RunOver \/ PipelineCanMove \/ PoolCanEnd \/ PrinterCanMove \/ \E w \in Workers : WorkerCanMove(w)

\* What is left to do, in steps.
At(place)   == {w \in Workers : wpc[w] = place}
Unstreamed  == {w \in Workers : wpc[w] = "calling" /\ ~partials[w]}
PoolWork ==
  6 * Len(escalations) + Len(explanations) + Cardinality(At("idle")) + 4 * Cardinality(At("calling"))
    + 2 * Cardinality(Unstreamed) + 3 * Cardinality(At("sending"))
PlaceWork ==
  CASE ppc = "flagging" -> 5 [] ppc = "event" -> 3 [] ppc = "select" -> 1 [] ppc = "done" -> 0
Still(b) == IF b THEN 1 ELSE 0
ReadWork ==
  events + Still(printer = "run") + Still(~eventsNil) + Still(~outNil)
CloseWork == Still(lines = "closed") + Still(~answersNil) + Still(expOpen)
Work == PoolWork + PlaceWork + ReadWork + CloseWork

\* Once the lines have ended, every step but an interrupt and a cache entry's expiry leaves
\* less to do.
ShutdownAdvances ==
  [][lines # "open" => /\ lines' # "open" /\ Work \in Nat /\ Work' \in Nat
                       /\ Work' < Work \/ (Work' = Work /\ (Cancel \/ \E h \in Hashes : Expire(h)))]_vars

-----------------------------------------------------------------------------
LEMMA Deliveries ==
  [Next]_vars =>
    \/ \E k \in Hashes : \E gone \in SUBSET Evictable(k) : FlaggedLine(k, gone)
    \/ RecordFlag
    \/ /\ Reads /\ UNCHANGED <<escalations, poolVars, flags, ppc, cur, queued>>
       /\ resolved' = Resolved(Head(explanations))
    \/ /\ \E w \in Workers : \/ Take(w) \/ Call(w) \/ SendAnswer(w) \/ StopWorker(w)
                            \/ \E text \in {"none", "some"} : Partial(w, text)
       /\ resolved' = resolved
    \/ UNCHANGED <<escalations, explanations, poolVars, resolved>>
  BY DEF Next, Line, QuietLine, LineArrives, Upsert, Run, SendEvent, AnswersEnd, LinesEnd,
     CloseEscalations, Return,
     Attach, PoolEnds, Printer, PrintEvent, PrintAnswer, EventsEnd, PrinterAnswersEnd,
     PrinterReturns, Environment, IngestEnds, Cancel, PrintFails, Expire, Worker, Take, Call,
     Reply, SendAnswer, StopWorker, Partial, Forget, Reads, recVars, escVars, expVars, scoreVars,
     runVars, vars

LEMMA KeptStep == Typed /\ TokenInv /\ ResolvedOnce /\ Kept /\ [Next]_vars => Kept'
<1> SUFFICES ASSUME Typed, TokenInv, ResolvedOnce, Kept, [Next]_vars, ~cancelled',
                    NEW f \in Flags, f <= flags'
             PROVE  (resolved[f] # 0 \/ (Recording(f) /\ ~queued) \/ \E h \in Hashes : Awaited(h, f))'
  BY DEF Kept
<1>0. /\ flags \in Nat /\ resolved \in [Flags -> Nat] /\ Flags \subseteq Nat /\ ~cancelled
      /\ OnePlace /\ Replies /\ OneTemplate /\ Recorded
  BY CancelStays, PipelineAssumption DEF Typed, TemplatesOK, OutOK, Flags, TokenInv
<1>1. f <= flags =>
        resolved[f] # 0 \/ (Recording(f) /\ ~queued) \/ \E h \in Hashes : Awaited(h, f)
  BY <1>0 DEF Kept
<1>2. ASSUME NEW k \in Hashes, NEW gone \in SUBSET Evictable(k), FlaggedLine(k, gone)
      PROVE  (resolved[f] # 0 \/ (Recording(f) /\ ~queued) \/ \E h \in Hashes : Awaited(h, f))'
  <2>1. /\ cur' = [hash |-> k, flag |-> flags + 1] /\ flags' = flags + 1
        /\ ppc = "select" /\ ppc' = "flagging"
        /\ \A h \in Hashes : Awaited(h, f)' <=> Awaited(h, f) \/ (queued' /\ h = k /\ f = flags + 1)
    BY <1>2, FlaggedPlaces, FlaggedWants
  <2>2. resolved' = resolved
    BY <1>2 DEF FlaggedLine
  <2>3. CASE f = flags + 1
    <3>1. cur'.flag = f
      BY <2>1, <2>3
    <3> QED
      BY <2>1, <2>3, <3>1 DEF Recording
  <2>4. CASE f # flags + 1
    <3>1. f <= flags
      BY <1>0, <2>1, <2>4
    <3> QED
      BY <1>1, <2>1, <2>2, <3>1 DEF Recording
  <2> QED
    BY <2>3, <2>4
<1>3. CASE RecordFlag
  <2>1. /\ ppc = "flagging"
        /\ UNCHANGED <<flags, escalations, explanations, poolVars>>
    BY <1>3 DEF RecordFlag, scoreVars, escVars, expVars
  <2>2. cur.flag \in Flags
    BY <2>1 DEF Typed, RunOK, Request
  <2> PICK q \in Flags : q = cur.flag
    BY <2>2
  <2>3. /\ resolved' = resolved \/ resolved' = [resolved EXCEPT ![q] = @ + 1]
        /\ ~queued => resolved' = [resolved EXCEPT ![q] = @ + 1]
    BY <1>0, <1>3 DEF RecordFlag, Recorded, QueueFull
  <2>4. resolved[f] # 0 => resolved'[f] # 0
    BY <1>0, <2>3
  <2>5. \A h \in Hashes : Awaited(h, f)' <=> Awaited(h, f)
    BY <2>1, OtherWants DEF Same
  <2>6. Recording(f) /\ ~queued => resolved'[f] # 0
    BY <1>0, <2>3 DEF Recording
  <2> QED
    BY <1>1, <2>1, <2>4, <2>5, <2>6
<1>4. CASE /\ Reads /\ UNCHANGED <<escalations, poolVars, flags, ppc, cur, queued>>
           /\ resolved' = Resolved(Head(explanations))
  <2> DEFINE ex == Head(explanations)
  <2>1. ex.hash \in Hashes /\ ex.flag \in Flags
    BY <1>0, <1>4, ReadWants
  <2>2. CASE ex.state = "pending"
    <3>1. resolved' = resolved
      BY <1>4, <2>2 DEF Resolved, Terminal
    <3>2. \A h \in Hashes : Awaited(h, f)' <=> Awaited(h, f)
      BY <1>0, <1>4, <2>2, ReadWants
    <3> QED
      BY <1>1, <1>4, <3>1, <3>2 DEF Recording
  <2>3. CASE ex.state # "pending"
    <3>1. \A h \in Hashes : Awaited(h, f) => Awaited(h, f)' \/ ex.flag = f
      BY <1>0, <1>4, <2>3, ReadWants
    <3>2. resolved' = [resolved EXCEPT ![ex.flag] = @ + 1]
      BY <1>4, <2>3 DEF Resolved, Terminal
    <3> HIDE DEF ex
    <3>3. (resolved[f] # 0 => resolved'[f] # 0) /\ (ex.flag = f => resolved'[f] # 0)
      BY <1>0, <2>1, <3>2
    <3> QED
      BY <1>1, <1>4, <3>1, <3>3 DEF Recording
  <2> QED
    BY <2>2, <2>3
<1>5. ASSUME resolved' = resolved, ~RecordFlag,
             ~\E k \in Hashes : \E gone \in SUBSET Evictable(k) : FlaggedLine(k, gone),
             \A h \in Hashes : Awaited(h, f)' <=> Awaited(h, f)
      PROVE  (resolved[f] # 0 \/ (Recording(f) /\ ~queued) \/ \E h \in Hashes : Awaited(h, f))'
  <2>1. flags' = flags
    BY <1>5, FlagsGrow
  <2>2. Recording(f) /\ ~queued => (Recording(f) /\ ~queued)'
    BY <1>5, RunFrame DEF Recording
  <2> QED
    BY <1>1, <1>5, <2>1, <2>2
<1>6. ASSUME NEW w \in Workers, Take(w) \/ Call(w) \/ SendAnswer(w) \/ StopWorker(w)
                                \/ (\E text \in {"none", "some"} : Partial(w, text))
      PROVE  \A h \in Hashes : Awaited(h, f)' <=> Awaited(h, f)
  BY <1>0, <1>6, WorkerWants, StopWants DEF Same
<1>7. ASSUME UNCHANGED <<escalations, explanations, poolVars>>
      PROVE  \A h \in Hashes : Awaited(h, f)' <=> Awaited(h, f)
  BY <1>7, OtherWants DEF Same
<1> QED
  <2>1. CASE \E k \in Hashes : \E gone \in SUBSET Evictable(k) : FlaggedLine(k, gone)
    BY <1>2, <2>1
  <2>2. CASE /\ ~\E k \in Hashes : \E gone \in SUBSET Evictable(k) : FlaggedLine(k, gone)
             /\ ~RecordFlag
    <3>1. CASE /\ \E w \in Workers : \/ Take(w) \/ Call(w) \/ SendAnswer(w) \/ StopWorker(w)
                                     \/ \E text \in {"none", "some"} : Partial(w, text)
               /\ resolved' = resolved
      BY <1>5, <1>6, <2>2, <3>1
    <3>2. CASE UNCHANGED <<escalations, explanations, poolVars, resolved>>
      BY <1>5, <1>7, <2>2, <3>2
    <3> QED
      BY <1>4, <2>2, <3>1, <3>2, Deliveries
  <2> QED
    BY <1>3, <2>1, <2>2

LEMMA InitKept == Init => Kept
  BY PipelineAssumption DEF Init, Kept, Flags

LEMMA InitEnds == Init => EndInv
<1> SUFFICES ASSUME Init  PROVE EndInv
  OBVIOUS
<1>1. NoStage
  BY DEF Init, NoStage
<1>2. Ends
  BY DEF Init, Ends, Routed, Printed
<1>3. Chain
  BY DEF Init, Chain, Routed, Printed, Explain
<1> QED
  BY <1>1, <1>2, <1>3 DEF EndInv

\* What each actor can do to the channels and to the places of the others.
LEMMA LineEnds ==
  ASSUME Typed, EndInv, NEW h \in Hashes, NEW gone \in SUBSET Evictable(h),
         QuietLine(h, gone) \/ FlaggedLine(h, gone)
  PROVE  EndInv'
<1>1. /\ ppc = "select" /\ lines = "open"
      /\ ppc' \in {"select", "event", "flagging"} /\ (ppc' = "event" => Printed)
      /\ escalations' # escalations => Explain
      /\ UNCHANGED <<mode, lines, answersNil, wpc, escOpen, explanations, expOpen, events,
                     eventsOpen, printer, eventsNil, outNil, cancelled>>
  BY DEF QuietLine, FlaggedLine, LineArrives, AfterLine, HasRoom, poolVars, expVars, evVars, outVars,
     escVars
<1>2. NoStage'
  BY <1>1 DEF EndInv, NoStage, Explain
<1>3. Ends'
  BY <1>1 DEF EndInv, Ends, Explain, Routed, Printed
<1>4. Chain'
  <2>1. NoStage /\ Ends /\ Chain
    BY DEF EndInv
  <2>2. ASSUME NEW w \in Workers, wpc[w] = "gone", ~cancelled
        PROVE  escalations' = <<>>
    <3>1. ~escOpen /\ escalations = <<>>
      BY <2>1, <2>2 DEF Chain
    <3>2. ~Explain
      BY <1>1, <2>1, <3>1 DEF Ends
    <3> QED
      BY <1>1, <3>1, <3>2
  <2>3. ~cancelled => Explain \/ escalations' = <<>>
    BY <1>1, <2>1 DEF NoStage
  <2> QED
    BY <1>1, <2>1, <2>2 DEF Chain, Routed, Printed
<1> QED
  BY <1>2, <1>3, <1>4 DEF EndInv

LEMMA RunKeepsEnds == Typed /\ EndInv /\ Run => EndInv'
<1> SUFFICES ASSUME Typed, EndInv, Run  PROVE EndInv'
  OBVIOUS
<1>0. NoStage /\ Ends /\ Chain /\ ppc \in {"select", "flagging", "event", "done"}
      /\ events \in Nat /\ lines \in {"open", "closed", "nil"}
  BY PipelineAssumption DEF EndInv, Typed, RunOK, OutOK
<1>1. CASE RecordFlag
  <2>1. /\ ppc = "flagging" /\ ppc' \in {"select", "event"} /\ (ppc' = "event" => Printed)
        /\ UNCHANGED <<mode, lines, answersNil, wpc, escalations, escOpen, explanations, expOpen,
                       events, eventsOpen, printer, eventsNil, outNil, cancelled>>
    BY <1>1 DEF RecordFlag, AfterLine, poolVars, expVars, evVars, outVars, escVars
  <2> QED
    BY <1>0, <2>1 DEF EndInv, NoStage, Ends, Chain, Explain, Routed, Printed
<1>2. CASE SendEvent
  <2>1. /\ ppc = "event" /\ ppc' = "select" /\ events' = events + 1
        /\ UNCHANGED <<mode, lines, answersNil, wpc, escalations, escOpen, explanations, expOpen,
                       eventsOpen, printer, eventsNil, outNil, cancelled>>
    BY <1>2 DEF SendEvent, poolVars, expVars, outVars, escVars
  <2> QED
    BY <1>0, <2>1 DEF EndInv, NoStage, Ends, Chain, Explain, Routed, Printed
<1>3. CASE Attach
  <2>1. /\ ppc = "select" /\ ~answersNil /\ explanations # <<>>
        /\ UNCHANGED <<mode, ppc, lines, answersNil, wpc, escalations, escOpen, expOpen,
                       events, eventsOpen, printer, eventsNil, outNil, cancelled>>
    BY <1>3 DEF Attach, poolVars, runVars, outVars, escVars, evVars
  <2> QED
    BY <1>0, <2>1 DEF EndInv, NoStage, Ends, Chain, Explain, Routed, Printed
<1>4. CASE AnswersEnd
  <2>1. /\ ppc = "select" /\ ~answersNil /\ explanations = <<>> /\ ~expOpen /\ answersNil'
        /\ UNCHANGED <<mode, ppc, lines, wpc, escalations, escOpen, explanations, expOpen,
                       events, eventsOpen, printer, eventsNil, outNil, cancelled>>
    BY <1>4 DEF AnswersEnd, poolVars, outVars, escVars, expVars, evVars
  <2> QED
    BY <1>0, <2>1 DEF EndInv, NoStage, Ends, Chain, Explain, Routed, Printed
<1>5. CASE LinesEnd
  <2>1. /\ ppc = "select" /\ lines = "closed" /\ lines' = "nil" /\ ~escOpen'
        /\ UNCHANGED <<mode, ppc, answersNil, wpc, escalations, explanations, expOpen,
                       events, eventsOpen, printer, eventsNil, outNil, cancelled>>
    BY <1>5 DEF LinesEnd, CloseEscalations, poolVars, outVars, expVars, evVars
  <2> QED
    BY <1>0, <2>1 DEF EndInv, NoStage, Ends, Chain, Explain, Routed, Printed
<1>6. CASE Return
  <2>1. /\ \/ lines = "nil" /\ answersNil /\ ppc = "select"
           \/ cancelled
        /\ ppc' = "done" /\ ~eventsOpen'
        /\ UNCHANGED <<mode, lines, answersNil, wpc, escalations, escOpen, explanations, expOpen,
                       events, printer, eventsNil, outNil, cancelled>>
    BY <1>6 DEF Return, MayReturn, poolVars, outVars, escVars, expVars
  <2> QED
    BY <1>0, <2>1 DEF EndInv, NoStage, Ends, Chain, Explain, Routed, Printed
<1> QED
  BY <1>1, <1>2, <1>3, <1>4, <1>5, <1>6 DEF Run

LEMMA PoolKeepsEnds ==
  ASSUME Typed, EndInv,
         \/ PoolEnds
         \/ \E w \in Workers : Worker(w) \/ (\E text \in {"none", "some"} : Partial(w, text))
  PROVE  EndInv'
<1>0. /\ NoStage /\ Ends /\ Chain
      /\ wpc \in [Workers -> {"idle", "calling", "sending", "gone"}]
  BY DEF EndInv, Typed, PoolOK
<1>1. CASE PoolEnds
  <2>1. /\ expOpen /\ ~expOpen' /\ \A w \in Workers : wpc[w] = "gone"
        /\ UNCHANGED <<mode, ppc, lines, answersNil, wpc, escalations, escOpen, explanations,
                       events, eventsOpen, printer, eventsNil, outNil, cancelled>>
    BY <1>1 DEF PoolEnds, poolVars, runVars, outVars, escVars, evVars
  <2> QED
    BY <1>0, <2>1 DEF EndInv, NoStage, Ends, Chain, Explain, Routed, Printed
<1>2. ASSUME NEW w \in Workers, Worker(w) \/ (\E text \in {"none", "some"} : Partial(w, text))
      PROVE  EndInv'
  <2>1. /\ wpc[w] # "gone"
        /\ UNCHANGED <<mode, ppc, lines, answersNil, escOpen, expOpen,
                       events, eventsOpen, printer, eventsNil, outNil, cancelled>>
    BY <1>2 DEF Worker, Take, Call, Reply, SendAnswer, StopWorker, Partial, runVars, outVars, escVars,
       expVars, evVars
  <2>2. /\ \A v \in Workers : v # w => wpc'[v] = wpc[v]
        /\ wpc'[w] = "gone" => cancelled \/ (escalations = <<>> /\ ~escOpen)
        /\ escalations' = escalations \/ (escalations # <<>> /\ escalations' = Tail(escalations))
        /\ wpc'[w] = "gone" => escalations' = escalations
    BY <1>0, <1>2, <2>1 DEF Worker, Take, Call, Reply, SendAnswer, StopWorker, Partial, escVars
  <2>3. Explain
    BY <1>0, <2>1 DEF NoStage
  <2>4. Ends'
    BY <1>0, <2>1 DEF Ends, Explain, Routed, Printed
  <2>5. NoStage'
    BY <2>1, <2>3 DEF NoStage, Explain
  <2>6. Chain'
    BY <1>0, <2>1, <2>2 DEF Chain, Routed, Printed
  <2> QED
    BY <2>4, <2>5, <2>6 DEF EndInv
<1> QED
  BY <1>1, <1>2

LEMMA PrinterKeepsEnds == Typed /\ EndInv /\ (Printer \/ PrintFails) => EndInv'
<1> SUFFICES ASSUME Typed, EndInv, Printer \/ PrintFails  PROVE EndInv'
  OBVIOUS
<1>0. NoStage /\ Ends /\ Chain /\ events \in Nat
  BY PipelineAssumption DEF EndInv, Typed, OutOK
<1>1. /\ printer = "run"
      /\ UNCHANGED <<mode, ppc, lines, answersNil, wpc, escalations, escOpen, expOpen, eventsOpen>>
  BY DEF Printer, PrintEvent, PrintAnswer, EventsEnd, PrinterAnswersEnd, PrinterReturns, PrintFails,
     poolVars, runVars, escVars, expVars, evVars
<1>2. Printed
  BY <1>0, <1>1 DEF Ends, Routed, Printed
<1>3. CASE PrintEvent
  BY <1>0, <1>1, <1>2, <1>3
  DEF PrintEvent, outVars, expVars, EndInv, NoStage, Ends, Chain, Explain, Routed, Printed
<1>4. CASE PrintAnswer
  BY <1>0, <1>1, <1>2, <1>4
  DEF PrintAnswer, outVars, evVars, EndInv, NoStage, Ends, Chain, Explain, Routed, Printed
<1>5. CASE PrintFails
  BY <1>0, <1>1, <1>2, <1>5
  DEF PrintFails, EndInv, NoStage, Ends, Chain, Explain, Routed, Printed
<1>6. CASE EventsEnd
  BY <1>0, <1>1, <1>2, <1>6
  DEF EventsEnd, evVars, expVars, EndInv, NoStage, Ends, Chain, Explain, Routed, Printed
<1>7. CASE PrinterAnswersEnd
  BY <1>0, <1>1, <1>2, <1>7
  DEF PrinterAnswersEnd, evVars, expVars, EndInv, NoStage, Ends, Chain, Explain, Routed, Printed
<1>8. CASE PrinterReturns
  BY <1>0, <1>1, <1>2, <1>8
  DEF PrinterReturns, evVars, expVars, EndInv, NoStage, Ends, Chain, Explain, Routed, Printed
<1> QED
  BY <1>3, <1>4, <1>5, <1>6, <1>7, <1>8 DEF Printer

LEMMA EndStep == Typed /\ EndInv /\ [Next]_vars => EndInv'
<1> SUFFICES ASSUME Typed, EndInv, [Next]_vars  PROVE EndInv'
  OBVIOUS
<1>1. ASSUME \/ IngestEnds \/ Cancel \/ (\E h \in Hashes : Expire(h)) \/ UNCHANGED vars
      PROVE  EndInv'
  <2>1. /\ UNCHANGED <<mode, ppc, answersNil, wpc, escalations, escOpen, explanations, expOpen,
                       events, eventsOpen, printer, eventsNil, outNil>>
        /\ cancelled' = cancelled \/ cancelled'
        /\ lines' = lines \/ (lines = "open" /\ lines' = "closed")
    BY <1>1 DEF IngestEnds, Cancel, Expire, poolVars, runVars, escVars, expVars, evVars, outVars, vars
  <2>2. NoStage'
    BY <2>1 DEF EndInv, NoStage, Explain
  <2>3. Ends'
    BY <2>1 DEF EndInv, Ends, Explain, Routed, Printed
  <2>4. Chain'
    BY <2>1 DEF EndInv, Chain, Routed, Printed
  <2> QED
    BY <2>2, <2>3, <2>4 DEF EndInv
<1> QED
  BY <1>1, LineEnds, RunKeepsEnds, PoolKeepsEnds, PrinterKeepsEnds DEF Next, Line, Environment

LEMMA EndsAlways == Spec => [](Typed /\ TokenInv /\ ResolvedOnce /\ Kept /\ EndInv)
<1>1. Init => Typed /\ TokenInv /\ ResolvedOnce /\ Kept /\ EndInv
  BY InitTyped, InitTokens, InitResolved, InitKept, InitEnds
<1>2. /\ Typed /\ TokenInv /\ ResolvedOnce /\ Kept /\ EndInv
      /\ [Next]_vars
      => (Typed /\ TokenInv /\ ResolvedOnce /\ Kept /\ EndInv)'
  BY TypedStep, TokenStep, ResolvedStep, KeptStep, EndStep
<1> QED
  BY <1>1, <1>2, PTL DEF Spec

\* Until the run is interrupted, every flag the scorer raised is resolved, or still to be
\* recorded, or has its terminal answer on the way: none falls between the full queue, the
\* pool and the goroutine that reads the answers (emit, work, attach, printPlain).
THEOREM NoFlagIsEverForgotten == Spec => []NoFlagIsForgotten
<1>1. Typed /\ ResolvedOnce /\ Kept => NoFlagIsForgotten
  <2> SUFFICES ASSUME Typed, ResolvedOnce, Kept, ~cancelled, NEW f \in Flags, f <= flags,
                      resolved[f] # 0
               PROVE  resolved[f] = 1
    BY DEF NoFlagIsForgotten, Kept
  <2>1. resolved[f] \in Nat
    BY DEF Typed, OutOK
  <2> QED
    BY <2>1 DEF ResolvedOnce
<1> QED
  BY EndsAlways, <1>1, PTL

\* When the pipeline goroutine and the printer of an uninterrupted run have returned, every
\* channel between them has been read to its end.
LEMMA NothingIsLeft ==
  ASSUME Typed, EndInv, ~cancelled, ppc = "done", printer = "done"
  PROVE  /\ escalations = <<>> /\ explanations = <<>> /\ \A w \in Workers : wpc[w] = "gone"
<1>1. NoStage /\ Ends /\ Chain
  BY DEF EndInv
<1>2. CASE ~Explain
  BY <1>1, <1>2 DEF NoStage
<1>3. CASE Explain
  <2>1. answersNil /\ (Printed => outNil)
    BY <1>1 DEF Chain
  <2>2. explanations = <<>> /\ ~expOpen
    BY <1>1, <2>1 DEF Chain, Routed, Printed
  <2>3. \A w \in Workers : wpc[w] = "gone"
    BY <1>1, <2>2 DEF Chain
  <2>4. PICK w \in Workers : TRUE
    BY PipelineAssumption
  <2> QED
    BY <1>1, <2>2, <2>3, <2>4 DEF Chain
<1> QED
  BY <1>2, <1>3

\* A run that ended by itself handed the export one resolution of every flag it raised: no
\* goroutine returns while an answer is still on its way to it (Run, llm.Run, printPlain).
THEOREM TheEndHasResolvedAll == Spec => []EndIsResolved
<1>1. Typed /\ ResolvedOnce /\ Kept /\ EndInv => EndIsResolved
  <2> SUFFICES ASSUME Typed, ResolvedOnce, Kept, EndInv, ~cancelled, ppc = "done",
                      printer = "done", NEW f \in Flags, f <= flags
               PROVE  resolved[f] = 1
    BY DEF EndIsResolved
  <2>1. /\ escalations = <<>> /\ explanations = <<>> /\ \A w \in Workers : wpc[w] = "gone"
    BY NothingIsLeft
  <2>2. DOMAIN escalations = {} /\ DOMAIN explanations = {}
    BY <2>1
  <2>3. ~Recording(f) /\ \A h \in Hashes : ~Awaited(h, f)
    BY <2>1, <2>2 DEF Recording, Awaited
  <2>4. resolved[f] \in Nat /\ resolved[f] # 0
    BY <2>3 DEF Typed, OutOK, Kept
  <2> QED
    BY <2>4 DEF ResolvedOnce
<1> QED
  BY EndsAlways, <1>1, PTL

\* A worker that has not returned can move, or whoever reads its answers can.
LEMMA WorkerIsServed ==
  ASSUME Typed, EndInv, ~cancelled, printer # "failed", lines = "nil",
         NEW w \in Workers, wpc[w] # "gone"
  PROVE  PipelineCanMove \/ PrinterCanMove \/ WorkerCanMove(w)
<1>0. /\ NoStage /\ Ends /\ Chain /\ ~escOpen
      /\ wpc[w] \in {"idle", "calling", "sending"} /\ printer \in {"run", "done"}
      /\ ppc \in {"select", "done"}
  BY DEF EndInv, Typed, PoolOK, OutOK, Ends
<1>1. CASE wpc[w] = "idle" \/ wpc[w] = "calling"
  BY <1>0, <1>1 DEF WorkerCanMove
<1>2. CASE wpc[w] = "sending"
  <2>1. CASE Len(explanations) < AnswerRoom
    BY <1>2, <2>1 DEF WorkerCanMove
  <2>2. CASE explanations # <<>>
    <3>1. expOpen
      BY <1>0 DEF Chain
    <3>2. CASE Routed
      <4>1. ~answersNil
        BY <1>0, <2>2, <3>2 DEF Chain
      <4>2. ppc = "select"
        BY <1>0, <4>1 DEF Chain
      <4> QED
        BY <2>2, <4>1, <4>2 DEF PipelineCanMove
    <3>3. CASE Printed
      <4>1. ~outNil /\ printer = "run"
        BY <1>0, <2>2, <3>3 DEF Chain
      <4> QED
        BY <2>2, <4>1 DEF PrinterCanMove
    <3> QED
      BY <3>2, <3>3 DEF Routed, Printed
  <2>3. Len(explanations) \in Nat /\ (Len(explanations) = 0 => explanations = <<>>)
    BY EmptySeq, LenProperties DEF Typed, PoolOK
  <2>4. AnswerRoom \in Nat /\ AnswerRoom > 0
    <3>1. Cardinality(Workers) \in Nat /\ Cardinality(Workers) # 0
      BY PipelineAssumption, FS_CardinalityType, FS_EmptySet
    <3> QED
      BY <3>1, PipelineAssumption DEF AnswerRoom
  <2> QED
    BY <2>1, <2>2, <2>3, <2>4
<1> QED
  BY <1>0, <1>1, <1>2

\* Once the lines have ended, or the run is interrupted, some goroutine can move until all
\* have returned: the full event channel, the full channel of answers and the closes that
\* each wait for another never hold up everybody (Run, llm.Run, printPlain).
THEOREM ShutdownNeverSticksAlways == Spec => []ShutdownNeverSticks
<1>1. Typed /\ EndInv => ShutdownNeverSticks
  <2> SUFFICES ASSUME Typed, EndInv, lines # "open" \/ cancelled, ~RunOver,
                      ~PoolCanEnd, \A w \in Workers : ~WorkerCanMove(w)
               PROVE  PipelineCanMove \/ PrinterCanMove
    BY DEF ShutdownNeverSticks
  <2>0. /\ NoStage /\ Ends /\ Chain
        /\ ppc \in {"select", "flagging", "event", "done"} /\ lines \in {"open", "closed", "nil"}
        /\ events \in 0..EventRoom /\ EventRoom \in Nat /\ EventRoom > 0
        /\ printer \in {"run", "done"}
    BY PipelineAssumption DEF EndInv, Typed, RunOK, OutOK, RunOver
  <2>1. CASE cancelled
    <3>1. \A w \in Workers : wpc[w] = "gone"
      BY <2>1 DEF WorkerCanMove
    <3>2. CASE ppc # "done"
      BY <2>0, <2>1, <3>2 DEF PipelineCanMove, MayReturn
    <3>3. CASE printer = "run"
      BY <2>1, <3>3 DEF PrinterCanMove
    <3> QED
      BY <2>0, <3>1, <3>2, <3>3 DEF RunOver
  <2>2. CASE ~cancelled /\ ppc = "flagging"
    BY <2>2 DEF PipelineCanMove
  <2>3. CASE ~cancelled /\ ppc = "event"
    <3>1. CASE events < EventRoom
      BY <2>3, <3>1 DEF PipelineCanMove
    <3>2. CASE events > 0
      <4>1. Printed /\ printer # "done"
        BY <2>0, <2>3 DEF Ends, Chain
      <4> QED
        BY <2>0, <3>2, <4>1 DEF PrinterCanMove
    <3> QED
      BY <2>0, <3>1, <3>2
  <2>4. CASE ~cancelled /\ ppc = "select" /\ lines = "closed"
    BY <2>4 DEF PipelineCanMove
  <2>5. CASE ~cancelled /\ lines = "nil" /\ ppc \in {"select", "done"}
    <3>1. CASE \E w \in Workers : wpc[w] # "gone"
      BY <2>0, <2>5, <3>1, WorkerIsServed
    <3>2. CASE \A w \in Workers : wpc[w] = "gone"
      <4>1. ~expOpen
        BY <3>2 DEF PoolCanEnd
      <4>2. CASE ppc = "select"
        BY <2>5, <4>1, <4>2 DEF PipelineCanMove, MayReturn
      <4>3. CASE ppc = "done"
        <5>1. printer = "run" /\ ~eventsOpen
          BY <2>0, <3>2, <4>3 DEF RunOver, Ends
        <5> QED
          BY <2>0, <4>1, <5>1 DEF PrinterCanMove
      <4> QED
        BY <2>5, <4>2, <4>3
    <3> QED
      BY <3>1, <3>2
  <2> QED
    BY <2>0, <2>1, <2>2, <2>3, <2>4, <2>5 DEF Chain
<1> QED
  BY EndsAlways, <1>1, PTL

PoolPlaces == {"idle", "calling", "sending", "gone"}

LEMMA PlaceCounts ==
  ASSUME Typed
  PROVE  /\ \A p \in PoolPlaces : IsFiniteSet(At(p)) /\ Cardinality(At(p)) \in Nat
         /\ IsFiniteSet(Unstreamed) /\ Cardinality(Unstreamed) \in Nat
<1>1. ASSUME NEW S \in SUBSET Workers  PROVE IsFiniteSet(S) /\ Cardinality(S) \in Nat
  BY PipelineAssumption, FS_Subset, FS_CardinalityType
<1>2. \A p \in PoolPlaces : At(p) \in SUBSET Workers
  BY DEF At
<1>3. Unstreamed \in SUBSET Workers
  BY DEF Unstreamed
<1> QED
  BY <1>1, <1>2, <1>3

\* A worker that moves leaves one place for one other.
LEMMA WorkerMoves ==
  ASSUME Typed, NEW w \in Workers, NEW p \in PoolPlaces, NEW q \in PoolPlaces, p # q,
         wpc[w] = p, wpc' = [wpc EXCEPT ![w] = q]
  PROVE  /\ Cardinality(At(p)') = Cardinality(At(p)) - 1
         /\ Cardinality(At(q)') = Cardinality(At(q)) + 1
         /\ \A r \in PoolPlaces : r # q /\ r # p => Cardinality(At(r)') = Cardinality(At(r))
<1>0. wpc \in [Workers -> PoolPlaces]
  BY DEF Typed, PoolOK, PoolPlaces
<1>1. At(p)' = At(p) \ {w} /\ w \in At(p)
  BY <1>0 DEF At
<1>2. At(q)' = At(q) \cup {w} /\ w \notin At(q)
  BY <1>0 DEF At
<1>3. ASSUME NEW r \in PoolPlaces, r # q, r # p  PROVE At(r)' = At(r)
  BY <1>0, <1>3 DEF At
<1>4. IsFiniteSet(At(p)) /\ IsFiniteSet(At(q))
  BY PlaceCounts
<1>5. Cardinality(At(p) \ {w}) = Cardinality(At(p)) - 1
  BY <1>1, <1>4, FS_RemoveElement
<1>6. Cardinality(At(q) \cup {w}) = Cardinality(At(q)) + 1
  BY <1>2, <1>4, FS_AddElement
<1> QED
  BY <1>1, <1>2, <1>3, <1>5, <1>6

\* What a worker's call may still stream.
LEMMA UnstreamedLess ==
  ASSUME Typed, Unstreamed' \subseteq Unstreamed
  PROVE  Cardinality(Unstreamed') <= Cardinality(Unstreamed) /\ Cardinality(Unstreamed') \in Nat
<1>1. IsFiniteSet(Unstreamed)
  BY PlaceCounts
<1> QED
  BY <1>1, FS_Subset, FS_CardinalityType

\* The amounts PoolWork is made of, as numbers.
Amounts(E, X, I, C, U, S) ==
  /\ E = Len(escalations) /\ X = Len(explanations) /\ I = Cardinality(At("idle"))
  /\ C = Cardinality(At("calling")) /\ U = Cardinality(Unstreamed) /\ S = Cardinality(At("sending"))

LEMMA AmountsAre == Typed => \E E, X, I, C, U, S \in Nat : Amounts(E, X, I, C, U, S)
<1> SUFFICES ASSUME Typed  PROVE \E E, X, I, C, U, S \in Nat : Amounts(E, X, I, C, U, S)
  OBVIOUS
<1>1. Len(escalations) \in Nat /\ Len(explanations) \in Nat
  BY LenProperties DEF Typed, PoolOK
<1>2. /\ Cardinality(At("idle")) \in Nat /\ Cardinality(At("calling")) \in Nat
      /\ Cardinality(At("sending")) \in Nat /\ Cardinality(Unstreamed) \in Nat
  BY PlaceCounts DEF PoolPlaces
<1> QED
  BY <1>1, <1>2 DEF Amounts

LEMMA AmountsNext == (Typed => \E E, X, I, C, U, S \in Nat : Amounts(E, X, I, C, U, S))'
  BY AmountsAre, PTL

LEMMA WorkIs ==
  \A E, X, I, C, U, S \in Nat :
    Amounts(E, X, I, C, U, S) => PoolWork = 6 * E + X + I + 4 * C + 2 * U + 3 * S
  BY DEF Amounts, PoolWork

LEMMA WorkNext ==
  (\A E, X, I, C, U, S \in Nat :
    Amounts(E, X, I, C, U, S) => PoolWork = 6 * E + X + I + 4 * C + 2 * U + 3 * S)'
  BY WorkIs, PTL

LEMMA WorkIsNat ==
  Typed => PoolWork \in Nat /\ PlaceWork \in Nat /\ ReadWork \in Nat /\ CloseWork \in Nat
<1> SUFFICES ASSUME Typed
             PROVE  PoolWork \in Nat /\ PlaceWork \in Nat /\ ReadWork \in Nat /\ CloseWork \in Nat
  OBVIOUS
<1>1. PICK E, X, I, C, U, S \in Nat : Amounts(E, X, I, C, U, S)
  BY AmountsAre
<1>2. PoolWork = 6 * E + X + I + 4 * C + 2 * U + 3 * S
  BY <1>1, WorkIs
<1>3. PoolWork \in Nat
  BY <1>2
<1>4. PlaceWork \in Nat
  BY DEF PlaceWork, Typed, RunOK
<1>5. events \in Nat
  BY PipelineAssumption DEF Typed, OutOK
<1>6. ReadWork \in Nat /\ CloseWork \in Nat
  BY <1>5 DEF ReadWork, CloseWork, Still
<1> QED
  BY <1>3, <1>4, <1>6

LEMMA WorkIsNatNext ==
  (Typed => PoolWork \in Nat /\ PlaceWork \in Nat /\ ReadWork \in Nat /\ CloseWork \in Nat)'
  BY WorkIsNat, PTL

LEMMA WorkerWork ==
  ASSUME Typed, Typed', NEW w \in Workers,
         Worker(w) \/ (\E text \in {"none", "some"} : Partial(w, text))
  PROVE  PoolWork' < PoolWork
<1>0. /\ wpc \in [Workers -> PoolPlaces] /\ partials \in [Workers -> BOOLEAN] /\ w \in Workers
      /\ escalations \in Seq(Request) /\ explanations \in Seq(Answer)
  BY DEF Typed, PoolOK, PoolPlaces
<1>1. PICK E, X, I, C, U, S \in Nat : Amounts(E, X, I, C, U, S)
  BY AmountsAre
<1>2. PICK e, x, i, c, u, s \in Nat : Amounts(e, x, i, c, u, s)'
  BY AmountsNext
<1>a. PoolWork = 6 * E + X + I + 4 * C + 2 * U + 3 * S
  BY <1>1, WorkIs
<1>b. PoolWork' = 6 * e + x + i + 4 * c + 2 * u + 3 * s
  BY <1>2, WorkNext
<1> SUFFICES 6 * e + x + i + 4 * c + 2 * u + 3 * s < 6 * E + X + I + 4 * C + 2 * U + 3 * S
  BY <1>a, <1>b
<1>e. e = Len(escalations') /\ E = Len(escalations) /\ x = Len(explanations') /\ X = Len(explanations)
  BY <1>1, <1>2 DEF Amounts
<1>p. /\ i = Cardinality(At("idle")') /\ I = Cardinality(At("idle"))
      /\ c = Cardinality(At("calling")') /\ C = Cardinality(At("calling"))
      /\ s = Cardinality(At("sending")') /\ S = Cardinality(At("sending"))
  BY <1>1, <1>2 DEF Amounts
<1>u. u = Cardinality(Unstreamed') /\ U = Cardinality(Unstreamed)
  BY <1>1, <1>2 DEF Amounts
<1>3. CASE Take(w)
  <2>1. /\ wpc[w] = "idle" /\ wpc' = [wpc EXCEPT ![w] = "calling"]
        /\ partials' = [partials EXCEPT ![w] = FALSE]
        /\ escalations # <<>> /\ escalations' = Tail(escalations) /\ explanations' = explanations
    BY <1>3 DEF Take, expVars
  <2>2. e = E - 1 /\ x = X
    BY <1>0, <2>1, HeadTailProperties, <1>e
  <2>3. i = I - 1 /\ c = C + 1 /\ s = S
    BY <2>1, WorkerMoves, <1>p DEF PoolPlaces
  <2>4. Unstreamed' = Unstreamed \cup {w} /\ w \notin Unstreamed
    BY <1>0, <2>1 DEF Unstreamed
  <2>5. u = U + 1
    BY <2>4, PlaceCounts, FS_AddElement, <1>u
  <2> QED
    BY <2>2, <2>3, <2>5
<1>4. CASE Call(w)
  <2>1. /\ wpc[w] = "calling" /\ wpc' = [wpc EXCEPT ![w] = "sending"]
        /\ UNCHANGED <<partials, escalations, explanations>>
    BY <1>4 DEF Call, Reply, expVars, escVars
  <2>2. e = E /\ x = X
    BY <1>e, <2>1
  <2>3. i = I /\ c = C - 1 /\ s = S + 1
    BY <2>1, WorkerMoves, <1>p DEF PoolPlaces
  <2>4. Unstreamed' \subseteq Unstreamed
    BY <1>0, <2>1 DEF Unstreamed
  <2>5. u <= U /\ u \in Nat
    BY <2>4, UnstreamedLess, <1>u
  <2> QED
    BY <2>2, <2>3, <2>5
<1>5. CASE SendAnswer(w)
  <2>1. /\ wpc[w] = "sending" /\ wpc' = [wpc EXCEPT ![w] = "idle"]
        /\ partials' = [partials EXCEPT ![w] = FALSE]
        /\ explanations' = Append(explanations, reply[w]) /\ escalations' = escalations
    BY <1>5 DEF SendAnswer, Forget, escVars
  <2>2. reply[w] \in Answer
    BY <2>1 DEF Typed, PoolOK
  <2>3. e = E /\ x = X + 1
    BY <1>0, <2>1, <2>2, AppendProperties, <1>e
  <2>4. i = I + 1 /\ c = C /\ s = S - 1
    BY <2>1, WorkerMoves, <1>p DEF PoolPlaces
  <2>5. Unstreamed' \subseteq Unstreamed
    BY <1>0, <2>1 DEF Unstreamed
  <2>6. u <= U /\ u \in Nat
    BY <2>5, UnstreamedLess, <1>u
  <2> QED
    BY <2>3, <2>4, <2>6
<1>6. CASE StopWorker(w)
  <2>1. /\ wpc[w] # "gone" /\ wpc' = [wpc EXCEPT ![w] = "gone"]
        /\ partials' = [partials EXCEPT ![w] = FALSE]
        /\ UNCHANGED <<escalations, explanations>>
    BY <1>6 DEF StopWorker, Forget, expVars, escVars
  <2>2. e = E /\ x = X
    BY <1>e, <2>1
  <2>3. \/ /\ i = I - 1 /\ c = C
           /\ s = S
        \/ /\ i = I /\ c = C - 1
           /\ s = S
        \/ /\ i = I /\ c = C
           /\ s = S - 1
    <3>1. wpc[w] \in {"idle", "calling", "sending"}
      BY <1>0, <2>1 DEF PoolPlaces
    <3> QED
      BY <2>1, <3>1, WorkerMoves, <1>p DEF PoolPlaces
  <2>4. Unstreamed' \subseteq Unstreamed
    BY <1>0, <2>1 DEF Unstreamed
  <2>5. u <= U /\ u \in Nat
    BY <2>4, UnstreamedLess, <1>u
  <2> QED
    BY <2>2, <2>3, <2>5
<1>7. ASSUME NEW text \in {"none", "some"}, Partial(w, text)
      PROVE  6 * e + x + i + 4 * c + 2 * u + 3 * s < 6 * E + X + I + 4 * C + 2 * U + 3 * S
  <2>1. /\ wpc[w] = "calling" /\ wpc' = wpc /\ ~partials[w]
        /\ partials' = [partials EXCEPT ![w] = TRUE]
        /\ escalations' = escalations
        /\ \/ explanations' = explanations
           \/ explanations' = Append(explanations, AnswerTo(w, "pending", text))
    BY <1>7 DEF Partial, escVars
  <2>2. AnswerTo(w, "pending", text) \in Answer
    BY <2>1 DEF Typed, PoolOK, AnswerTo, Answer, Request, Texts
  <2>3. e = E /\ (x = X \/ x = X + 1)
    BY <1>0, <2>1, <2>2, AppendProperties, <1>e
  <2>4. i = I /\ c = C /\ s = S
    BY <1>p, <2>1 DEF At
  <2>5. Unstreamed' = Unstreamed \ {w} /\ w \in Unstreamed
    BY <1>0, <2>1 DEF Unstreamed
  <2>6. u = U - 1
    BY <2>5, PlaceCounts, FS_RemoveElement, <1>u
  <2> QED
    BY <2>3, <2>4, <2>6
<1> QED
  BY <1>3, <1>4, <1>5, <1>6, <1>7 DEF Worker

\* Steps that leave the pool alone leave its work alone.
LEMMA SamePoolWork ==
  ASSUME UNCHANGED <<escalations, explanations, wpc, partials>>
  PROVE  PoolWork' = PoolWork
<1>1. Unstreamed' = Unstreamed /\ \A p : At(p)' = At(p)
  BY DEF Unstreamed, At
<1> QED
  BY <1>1 DEF PoolWork

\* An answer that is read is one answer less.
LEMMA ReadWorkLess ==
  ASSUME Typed, Typed', Reads, UNCHANGED <<escalations, wpc, partials>>
  PROVE  PoolWork' < PoolWork
<1>1. PICK E, X, I, C, U, S \in Nat : Amounts(E, X, I, C, U, S)
  BY AmountsAre
<1>2. PICK e, x, i, c, u, s \in Nat : Amounts(e, x, i, c, u, s)'
  BY AmountsNext
<1>a. PoolWork = 6 * E + X + I + 4 * C + 2 * U + 3 * S
  BY <1>1, WorkIs
<1>b. PoolWork' = 6 * e + x + i + 4 * c + 2 * u + 3 * s
  BY <1>2, WorkNext
<1>3. e = E /\ i = I /\ c = C /\ s = S /\ u = U
  BY <1>1, <1>2 DEF Amounts, At, Unstreamed
<1>4. x = Len(Tail(explanations)) /\ X = Len(explanations)
  BY <1>1, <1>2 DEF Amounts, Reads
<1>5. Len(Tail(explanations)) = Len(explanations) - 1
  BY HeadIsAnswer DEF Reads, Typed
<1>6. x = X - 1
  BY <1>4, <1>5
<1>7. 6 * e + x + i + 4 * c + 2 * u + 3 * s < 6 * E + X + I + 4 * C + 2 * U + 3 * S
  BY <1>3, <1>6
<1> QED
  BY <1>a, <1>b, <1>7

\* The four parts of the work, as numbers.
Parts(P, L, R, C) == P = PoolWork /\ L = PlaceWork /\ R = ReadWork /\ C = CloseWork

LEMMA PartsAre == Typed => \E P, L, R, C \in Nat : Parts(P, L, R, C)
  BY WorkIsNat DEF Parts

LEMMA PartsNext == (Typed => \E P, L, R, C \in Nat : Parts(P, L, R, C))'
  BY PartsAre, PTL

Shrinks ==
  /\ lines' # "open"
  /\ PoolWork' + PlaceWork' + ReadWork' + CloseWork' < PoolWork + PlaceWork + ReadWork + CloseWork

LEMMA WorkShrinks ==
  ASSUME Typed, Typed', lines # "open", Next,
         ~Cancel, ~\E h \in Hashes : Expire(h)
  PROVE  Shrinks
<1>0. /\ events \in Nat /\ events' \in Nat /\ lines \in {"closed", "nil"}
      /\ PoolWork \in Nat /\ PlaceWork \in Nat /\ ReadWork \in Nat /\ CloseWork \in Nat
  BY WorkIsNat, PipelineAssumption DEF Typed, OutOK, RunOK
<1>a. PICK P, L, R, C \in Nat : Parts(P, L, R, C)
  BY PartsAre
<1>b. PICK p, l, r, c \in Nat : Parts(p, l, r, c)'
  BY PartsNext
<1>c. /\ P = PoolWork /\ L = PlaceWork /\ R = ReadWork /\ C = CloseWork
      /\ p = PoolWork' /\ l = PlaceWork' /\ r = ReadWork' /\ c = CloseWork'
  BY <1>a, <1>b DEF Parts
<1> SUFFICES p + l + r + c < P + L + R + C /\ lines' # "open"
  BY <1>c DEF Shrinks
<1>1. CASE RecordFlag
  <2>1. /\ ppc = "flagging" /\ ppc' \in {"select", "event"}
        /\ UNCHANGED <<lines, answersNil, expOpen, events, printer, eventsNil, outNil>>
        /\ UNCHANGED <<escalations, explanations, wpc, partials>>
    BY <1>1 DEF RecordFlag, AfterLine, poolVars, expVars, evVars, outVars, escVars
  <2>2. p = P
    BY <1>c, <2>1, SamePoolWork
  <2>3. l < L /\ r = R /\ c = C /\ lines' # "open"
    BY <1>0, <1>c, <2>1 DEF PlaceWork, ReadWork, CloseWork, Still
  <2> QED
    BY <2>2, <2>3
<1>2. CASE SendEvent
  <2>1. /\ ppc = "event" /\ ppc' = "select" /\ events' = events + 1
        /\ UNCHANGED <<lines, answersNil, expOpen, printer, eventsNil, outNil>>
        /\ UNCHANGED <<escalations, explanations, wpc, partials>>
    BY <1>2 DEF SendEvent, poolVars, expVars, outVars, escVars
  <2>2. p = P
    BY <1>c, <2>1, SamePoolWork
  <2>3. l = L - 2 /\ r = R + 1 /\ c = C
        /\ lines' # "open"
    BY <1>0, <1>c, <2>1 DEF PlaceWork, ReadWork, CloseWork, Still
  <2> QED
    BY <2>2, <2>3
<1>3. CASE Attach \/ PrintAnswer
  <2>1. /\ Reads /\ UNCHANGED <<escalations, wpc, partials>>
        /\ UNCHANGED <<ppc, lines, answersNil, expOpen, events, printer, eventsNil, outNil>>
    BY <1>3 DEF Attach, PrintAnswer, Reads, poolVars, runVars, evVars, outVars, escVars
  <2>2. p < P
    BY <1>c, <2>1, ReadWorkLess
  <2>3. l = L /\ r = R /\ c = C /\ lines' # "open"
    BY <1>0, <1>c, <2>1 DEF PlaceWork, ReadWork, CloseWork, Still
  <2> QED
    BY <2>2, <2>3
<1>4. CASE AnswersEnd \/ LinesEnd \/ PoolEnds
  <2>1. /\ \/ ~answersNil /\ answersNil' /\ lines' = lines /\ expOpen' = expOpen
           \/ lines = "closed" /\ lines' = "nil" /\ answersNil' = answersNil /\ expOpen' = expOpen
           \/ expOpen /\ ~expOpen' /\ lines' = lines /\ answersNil' = answersNil
        /\ UNCHANGED <<ppc, events, printer, eventsNil, outNil>>
        /\ UNCHANGED <<escalations, explanations, wpc, partials>>
    BY <1>4 DEF AnswersEnd, LinesEnd, PoolEnds, poolVars, runVars, expVars, evVars, outVars, escVars
  <2>2. p = P
    BY <1>c, <2>1, SamePoolWork
  <2>3. l = L /\ r = R /\ c < C /\ lines' # "open"
    BY <1>0, <1>c, <2>1 DEF PlaceWork, ReadWork, CloseWork, Still
  <2> QED
    BY <2>2, <2>3
<1>5. CASE Return
  <2>1. /\ ppc \in {"select", "event"} /\ ppc' = "done"
        /\ UNCHANGED <<lines, answersNil, expOpen, events, printer, eventsNil, outNil>>
        /\ UNCHANGED <<escalations, explanations, wpc, partials>>
    BY <1>5 DEF Return, MayReturn, poolVars, expVars, outVars, escVars
  <2>2. p = P
    BY <1>c, <2>1, SamePoolWork
  <2>3. l < L /\ r = R /\ c = C /\ lines' # "open"
    BY <1>0, <1>c, <2>1 DEF PlaceWork, ReadWork, CloseWork, Still
  <2> QED
    BY <2>2, <2>3
<1>6. ASSUME NEW w \in Workers, Worker(w) \/ (\E text \in {"none", "some"} : Partial(w, text))
      PROVE  p + l + r + c < P + L + R + C /\ lines' # "open"
  <2>1. UNCHANGED <<ppc, lines, answersNil, expOpen, events, printer, eventsNil, outNil>>
    BY <1>6 DEF Worker, Take, Call, Reply, SendAnswer, StopWorker, Partial, runVars, outVars,
       expVars, evVars
  <2>2. p < P
    BY <1>c, <1>6, WorkerWork
  <2>3. l = L /\ r = R /\ c = C /\ lines' # "open"
    BY <1>0, <1>c, <2>1 DEF PlaceWork, ReadWork, CloseWork, Still
  <2> QED
    BY <2>2, <2>3
<1>7. CASE PrintEvent \/ EventsEnd \/ PrinterAnswersEnd \/ PrinterReturns
  <2>1. /\ \/ /\ events > 0 /\ events' = events - 1
              /\ UNCHANGED <<printer, eventsNil, outNil>>
           \/ ~eventsNil /\ eventsNil' /\ UNCHANGED <<events, printer, outNil>>
           \/ ~outNil /\ outNil' /\ UNCHANGED <<events, printer, eventsNil>>
           \/ printer = "run" /\ printer' = "done" /\ UNCHANGED <<events, eventsNil, outNil>>
        /\ UNCHANGED <<ppc, lines, answersNil, expOpen>>
        /\ UNCHANGED <<escalations, explanations, wpc, partials>>
    BY <1>7 DEF PrintEvent, EventsEnd, PrinterAnswersEnd, PrinterReturns, poolVars, runVars, expVars,
       evVars, outVars, escVars
  <2>2. p = P
    BY <1>c, <2>1, SamePoolWork
  <2>3. l = L /\ r < R /\ c = C /\ lines' # "open"
    BY <1>0, <1>c, <2>1 DEF PlaceWork, ReadWork, CloseWork, Still
  <2> QED
    BY <2>2, <2>3
<1>8. CASE PrintFails
  <2>1. /\ printer = "run" /\ printer' = "failed"
        /\ \/ events' = events - 1 /\ UNCHANGED explanations
           \/ events' = events /\ Reads
        /\ UNCHANGED <<ppc, lines, answersNil, expOpen, eventsNil, outNil>>
        /\ UNCHANGED <<escalations, wpc, partials>>
    BY <1>8 DEF PrintFails, Reads, poolVars, runVars, escVars
  <2>2. p <= P
    <3>1. UNCHANGED explanations => p = P
      BY <1>c, <2>1, SamePoolWork
    <3>2. Reads => p < P
      BY <1>c, <2>1, ReadWorkLess
    <3> QED
      BY <2>1, <3>1, <3>2
  <2>3. l = L /\ r < R /\ c = C /\ lines' # "open"
    BY <1>0, <1>c, <2>1 DEF PlaceWork, ReadWork, CloseWork, Still
  <2> QED
    BY <2>2, <2>3
<1>9. ~Line /\ ~IngestEnds
  BY DEF Line, QuietLine, FlaggedLine, LineArrives, IngestEnds
<1> QED
  BY <1>1, <1>2, <1>3, <1>4, <1>5, <1>6, <1>7, <1>8, <1>9 DEF Next, Run, Printer, Environment

LEMMA WorkStays ==
  ASSUME lines # "open", Cancel \/ \E h \in Hashes : Expire(h)
  PROVE  Work' = Work /\ lines' # "open"
<1>1. /\ UNCHANGED <<ppc, lines, answersNil, expOpen, events, printer, eventsNil, outNil>>
      /\ UNCHANGED <<escalations, explanations, wpc, partials>>
  BY DEF Cancel, Expire, poolVars, runVars, expVars, evVars, outVars, escVars
<1>2. PoolWork' = PoolWork
  BY <1>1, SamePoolWork
<1>3. PlaceWork' = PlaceWork /\ ReadWork' = ReadWork /\ CloseWork' = CloseWork
  BY <1>1 DEF PlaceWork, ReadWork, CloseWork, Still
<1> QED
  BY <1>1, <1>2, <1>3 DEF Work

\* Once the lines have ended there is only so much left to do: every step but an interrupt and
\* a cache entry's expiry leaves less of it, so with ShutdownNeverSticks the run cannot go on
\* for ever, whatever the order of its goroutines (Run, llm.Run, printPlain).
THEOREM ShutdownAlwaysAdvances == Spec => ShutdownAdvances
<1>1. Typed /\ Typed' /\ [Next]_vars =>
        [lines # "open" => /\ lines' # "open" /\ Work \in Nat /\ Work' \in Nat
                           /\ \/ Work' < Work
                              \/ Work' = Work /\ (Cancel \/ \E h \in Hashes : Expire(h))]_vars
  <2> SUFFICES ASSUME Typed, Typed', Next, lines # "open"
               PROVE  /\ lines' # "open" /\ Work \in Nat /\ Work' \in Nat
                      /\ \/ Work' < Work
                         \/ Work' = Work /\ (Cancel \/ \E h \in Hashes : Expire(h))
    OBVIOUS
  <2>1. Work \in Nat /\ Work' \in Nat
    BY WorkIsNat, WorkIsNatNext DEF Work
  <2>2. CASE Cancel \/ \E h \in Hashes : Expire(h)
    BY <2>1, <2>2, WorkStays
  <2>3. CASE ~Cancel /\ ~\E h \in Hashes : Expire(h)
    <3>1. Shrinks
      BY <2>3, WorkShrinks
    <3> QED
      BY <2>1, <3>1 DEF Shrinks, Work
  <2> QED
    BY <2>2, <2>3
<1> QED
  BY InitTyped, TypedStep, <1>1, PTL DEF Spec, ShutdownAdvances

=============================================================================
