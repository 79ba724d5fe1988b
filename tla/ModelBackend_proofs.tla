------------------------- MODULE ModelBackend_proofs -------------------------
(***************************************************************************)
(* For every number of workers and retries, every budget and whatever the  *)
(* server does: capabilities are given up one at a time and only when they *)
(* were refused, nothing that cannot succeed is asked again, an answer is  *)
(* all of one call, and an Explain makes so many calls and no more.        *)
(***************************************************************************)
EXTENDS ModelBackend, TLAPS

Stages == {"idle", "json", "ask", "calling", "reading", "sleep"}

ControlOK ==
  /\ pc \in [Workers -> Stages] /\ opts \in [Workers -> Opts]
  /\ lasting \in [Workers -> SUBSET Opts]
  /\ result = [w \in Workers |-> result[w]]
  /\ refused \subseteq Opts

\* What failed for good asked for something that is no longer asked for.
OnlyLessIsAsked ==
  \A w \in Workers :
    /\ pc[w] \in {"idle", "json"} => lasting[w] = {}
    /\ \A o \in lasting[w] : (o.stream /\ ~ opts[w].stream) \/ (o.json /\ ~ opts[w].json)

Inv == ControlOK /\ OnlyLessIsAsked /\ DowngradesStepByStep

LEMMA InitInv == Init => Inv
<1> SUFFICES ASSUME Init PROVE Inv
  OBVIOUS
<1>1. ControlOK
  BY DEF Init, ControlOK, Stages, Opts, NoOpts
<1>2. OnlyLessIsAsked
  BY DEF Init, OnlyLessIsAsked
<1>3. DowngradesStepByStep
  BY DEF Init, DowngradesStepByStep, NoAnswer, Failure
<1> QED
  BY <1>1, <1>2, <1>3 DEF Inv

\* An Explain that returns anything but a refusal of the plainest request.
LEMMA ReturnKeepsInv ==
  ASSUME Inv, NEW w \in Workers, NEW r, Return(w, r),
         refused \subseteq refused', refused' \subseteq Opts,
         r.err = "rejected" => [stream |-> FALSE, json |-> FALSE] \in refused'
  PROVE  Inv'
<1>1. ControlOK'
  BY DEF Inv, ControlOK, Return, Stages, Opts, NoOpts
<1>2. OnlyLessIsAsked'
  BY DEF Inv, ControlOK, OnlyLessIsAsked, Return
<1>3. DowngradesStepByStep'
  <2>1. ASSUME NEW v \in Workers, result'[v].err = "rejected"
        PROVE  [stream |-> FALSE, json |-> FALSE] \in refused'
    <3>1. CASE v = w
      BY <2>1, <3>1 DEF Inv, ControlOK, Return
    <3>2. CASE v # w
      BY <2>1, <3>2 DEF Inv, ControlOK, Return, DowngradesStepByStep
    <3> QED
      BY <3>1, <3>2
  <2>2. /\ jsonOff' => [stream |-> FALSE, json |-> TRUE] \in refused'
        /\ streamOff' => \E o \in refused' : o.stream
    BY DEF Inv, Return, DowngradesStepByStep
  <2> QED
    BY <2>1, <2>2 DEF DowngradesStepByStep
<1> QED
  BY <1>1, <1>2, <1>3 DEF Inv

\* A call that fails: returned, retried, or asked again with one capability less.
LEMMA FailKeepsInv ==
  ASSUME Inv, NEW w \in Workers, NEW err \in Failures, NEW saved,
         saved.err # "rejected",
         CallFails(w, err, saved), pc[w] \notin {"idle", "json"},
         refused \subseteq refused', refused' \subseteq Opts,
         err = "rejected" => opts[w] \in refused'
  PROVE  Inv'
<1>1. CASE cancelled /\ Return(w, Failure("cancelled"))
  BY <1>1, ReturnKeepsInv DEF Failure
<1>2. CASE /\ ~ cancelled /\ Retryable(w, err)
           /\ tries' = [tries EXCEPT ![w] = @ + 1]
           /\ pc' = [pc EXCEPT ![w] = "sleep"]
           /\ CallOver(w, err)
           /\ UNCHANGED <<streamOff, jsonOff, opts, result>>
  <2>1. lasting' = lasting
    BY <1>2 DEF CallOver, Retryable, Transient
  <2>2. ControlOK'
    BY <1>2, <2>1 DEF Inv, ControlOK, Stages
  <2>3. OnlyLessIsAsked'
    BY <1>2, <2>1 DEF Inv, ControlOK, OnlyLessIsAsked
  <2>4. DowngradesStepByStep'
    BY <1>2 DEF Inv, DowngradesStepByStep
  <2> QED
    BY <2>2, <2>3, <2>4 DEF Inv
<1>3. CASE Return(w, saved)
  BY <1>3, ReturnKeepsInv
<1>4. CASE /\ Rejects(err) /\ Downgrade(w)
           /\ tries' = [tries EXCEPT ![w] = 0]
           /\ pc' = [pc EXCEPT ![w] = "ask"]
           /\ CallOver(w, err)
           /\ UNCHANGED result
  <2>1. opts[w] \in Opts /\ opts[w] \in refused' /\ err = "rejected"
    BY <1>4 DEF Inv, ControlOK, Rejects
  <2>2. lasting' = [lasting EXCEPT ![w] = @ \cup {opts[w]}]
    BY <1>4, <2>1 DEF CallOver
  <2>3. \/ opts[w].stream /\ DropStream(w)
        \/ ~ opts[w].stream /\ opts[w].json /\ DropJson(w)
    BY <1>4 DEF Downgrade
  <2>4. ControlOK'
    <3>1. pc' \in [Workers -> Stages] /\ result' = [v \in Workers |-> result'[v]]
      BY <1>4 DEF Inv, ControlOK, Stages
    <3>2. lasting' \in [Workers -> SUBSET Opts]
      BY <2>1, <2>2 DEF Inv, ControlOK
    <3>3. opts' \in [Workers -> Opts]
      <4>1. \/ opts' = [opts EXCEPT ![w].stream = FALSE]
            \/ opts' = [opts EXCEPT ![w].json = FALSE]
        BY <2>3 DEF DropStream, DropJson
      <4>2. opts \in [Workers -> Opts]
        BY DEF Inv, ControlOK
      <4>3. [opts[w] EXCEPT !.stream = FALSE] \in Opts /\ [opts[w] EXCEPT !.json = FALSE] \in Opts
        BY <2>1 DEF Opts
      <4> QED
        BY <4>1, <4>2, <4>3
    <3> QED
      BY <3>1, <3>2, <3>3, <2>1 DEF ControlOK, Inv
  <2>5. OnlyLessIsAsked'
    <3> SUFFICES ASSUME NEW v \in Workers
                 PROVE  /\ pc'[v] \in {"idle", "json"} => lasting'[v] = {}
                        /\ \A o \in lasting'[v] :
                             (o.stream /\ ~ opts'[v].stream) \/ (o.json /\ ~ opts'[v].json)
      BY DEF OnlyLessIsAsked
    <3>1. CASE v # w
      BY <1>4, <2>2, <2>3, <3>1 DEF Inv, ControlOK, OnlyLessIsAsked, DropStream, DropJson
    <3>2. CASE v = w
      <4>1. pc'[w] = "ask" /\ lasting'[w] = lasting[w] \cup {opts[w]}
        BY <1>4, <2>2 DEF Inv, ControlOK
      <4>2. \A o \in lasting[w] :
              (o.stream /\ ~ opts[w].stream) \/ (o.json /\ ~ opts[w].json)
        BY DEF Inv, OnlyLessIsAsked
      <4>3. CASE opts[w].stream /\ DropStream(w)
        <5>1. opts'[w].stream = FALSE /\ opts'[w].json = opts[w].json
          BY <2>1, <4>3 DEF Inv, ControlOK, DropStream, Opts
        <5> QED
          BY <3>2, <4>1, <4>2, <4>3, <5>1
      <4>4. CASE ~ opts[w].stream /\ opts[w].json /\ DropJson(w)
        <5>1. opts'[w].json = FALSE /\ opts'[w].stream = opts[w].stream
          BY <2>1, <4>4 DEF Inv, ControlOK, DropJson, Opts
        <5> QED
          BY <3>2, <4>1, <4>2, <4>4, <5>1
      <4> QED
        BY <2>3, <4>3, <4>4
    <3> QED
      BY <3>1, <3>2
  <2>6. DowngradesStepByStep'
    <3>1. CASE opts[w].stream /\ DropStream(w)
      BY <1>4, <2>1, <3>1 DEF Inv, DowngradesStepByStep, DropStream
    <3>2. CASE ~ opts[w].stream /\ opts[w].json /\ DropJson(w)
      <4>1. opts[w] = [stream |-> FALSE, json |-> TRUE]
        BY <2>1, <3>2 DEF Opts
      <4> QED
        BY <1>4, <2>1, <3>2, <4>1 DEF Inv, DowngradesStepByStep, DropJson
    <3> QED
      BY <2>3, <3>1, <3>2
  <2> QED
    BY <2>4, <2>5, <2>6 DEF Inv
<1>5. CASE /\ ~ (Rejects(err) /\ (opts[w].stream \/ opts[w].json))
           /\ Return(w, Failure(err))
  <2>1. Failure(err).err = err
    BY DEF Failure
  <2>2. err = "rejected" => [stream |-> FALSE, json |-> FALSE] \in refused'
    <3>1. err = "rejected" => opts[w] = [stream |-> FALSE, json |-> FALSE]
      BY <1>5 DEF Inv, ControlOK, Opts, Rejects
    <3> QED
      BY <3>1
  <2> QED
    BY <1>5, <2>1, <2>2, ReturnKeepsInv
<1> QED
  BY <1>1, <1>2, <1>3, <1>4, <1>5 DEF CallFails, GiveUp

\* What content makes of an answer is never a refusal.
LEMMA ContentIsNoRefusal ==
  ASSUME NEW a
  PROVE  Content(a).err \in {"none", "budget", "empty"}
BY DEF Content, Answer, Failure

LEMMA DeliverKeepsInv ==
  ASSUME Inv, NEW w \in Workers, NEW a, Deliver(w, Content(a)),
         pc[w] \notin {"idle", "json"}, UNCHANGED refused
  PROVE  Inv'
<1>1. Content(a).err \in {"none", "budget", "empty"}
  BY ContentIsNoRefusal
<1>2. refused \subseteq refused' /\ refused' \subseteq Opts
  BY DEF Inv, ControlOK
<1>3. CASE Content(a).err = "none"
  BY <1>2, <1>3, ReturnKeepsInv DEF Deliver
<1>4. CASE Content(a).err # "none"
  <2>1. NoAnswer.err # "rejected"
    BY DEF NoAnswer, Failure
  <2> QED
    BY <1>1, <1>2, <1>4, <2>1, FailKeepsInv DEF Deliver, Failures
<1> QED
  BY <1>3, <1>4

LEMMA CutKeepsInv ==
  ASSUME Inv, NEW w \in Workers, NEW a, NEW err \in {"torn", "limit"}, Cut(w, a, err),
         pc[w] \notin {"idle", "json"}, UNCHANGED refused
  PROVE  Inv'
<1>1. CASE Closed(a)
  BY <1>1, DeliverKeepsInv DEF Cut
<1>2. CASE ~ Closed(a)
  <2>1. Salvage(a).err # "rejected"
    <3> DEFINE r == IF a.fields > 0 THEN Answer("fields", a)
                    ELSE IF a.text \in {"open", "closed"} THEN NoAnswer
                    ELSE Content(a)
    <3>1. CASE r.err = "none" /\ r.kind # "none"
      <4>1. Salvage(a) = [r EXCEPT !.truncated = TRUE]
        BY <3>1 DEF Salvage
      <4>2. r.err = "none" => [r EXCEPT !.truncated = TRUE].err # "rejected"
        BY DEF Answer, NoAnswer, Failure, Content
      <4> QED
        BY <3>1, <4>1, <4>2
    <3>2. CASE ~ (r.err = "none" /\ r.kind # "none")
      BY <3>2 DEF Salvage, NoAnswer, Failure
    <3> QED
      BY <3>1, <3>2
  <2>2. refused \subseteq refused' /\ refused' \subseteq Opts
    BY DEF Inv, ControlOK
  <2> QED
    BY <1>2, <2>1, <2>2, FailKeepsInv DEF Cut, Failures
<1> QED
  BY <1>1, <1>2

LEMMA CleanKeepsInv ==
  ASSUME Inv, NEW w \in Workers, NEW a, Clean(w, a),
         pc[w] \notin {"idle", "json"}, UNCHANGED refused
  PROVE  Inv'
BY CutKeepsInv, DeliverKeepsInv DEF Clean

\* A step that changes no flag, no result and no memory of what failed.
LEMMA QuietStep ==
  ASSUME Inv, pc' \in [Workers -> Stages], opts' = opts,
         UNCHANGED <<streamOff, jsonOff, lasting, result, refused>>,
         \A w \in Workers : pc'[w] \in {"idle", "json"} => pc[w] \in {"idle", "json"}
  PROVE  Inv'
<1>1. ControlOK'
  BY DEF Inv, ControlOK
<1>2. OnlyLessIsAsked'
  BY DEF Inv, OnlyLessIsAsked
<1>3. DowngradesStepByStep'
  BY DEF Inv, DowngradesStepByStep
<1> QED
  BY <1>1, <1>2, <1>3 DEF Inv

LEMMA Inductive == Inv /\ [Next]_vars => Inv'
<1> SUFFICES ASSUME Inv, [Next]_vars PROVE Inv'
  OBVIOUS
<1>1. ControlOK
  BY DEF Inv
<1>2. ASSUME NEW w \in Workers, Start(w) PROVE Inv'
  <2>1. ControlOK'
    BY <1>1, <1>2, ConfigAssumption DEF Start, ControlOK, Stages, Opts
  <2>2. OnlyLessIsAsked'
    BY <1>1, <1>2 DEF Inv, ControlOK, OnlyLessIsAsked, Start
  <2>3. DowngradesStepByStep'
    <3>1. ASSUME NEW v \in Workers, result'[v].err = "rejected" PROVE result[v].err = "rejected"
      BY <1>1, <1>2, <3>1 DEF ControlOK, Start, NoAnswer, Failure
    <3> QED
      BY <1>2, <3>1 DEF Inv, DowngradesStepByStep, Start
  <2> QED
    BY <2>1, <2>2, <2>3 DEF Inv
<1>3. ASSUME NEW w \in Workers, MaskFails(w) PROVE Inv'
  <2>1. ControlOK'
    BY <1>1, <1>3 DEF MaskFails, ControlOK
  <2>2. OnlyLessIsAsked'
    BY <1>3 DEF Inv, OnlyLessIsAsked, MaskFails
  <2>3. DowngradesStepByStep'
    <3>1. ASSUME NEW v \in Workers, result'[v].err = "rejected" PROVE result[v].err = "rejected"
      BY <1>1, <1>3, <3>1 DEF ControlOK, MaskFails, Failure
    <3> QED
      BY <1>3, <3>1 DEF Inv, DowngradesStepByStep, MaskFails
  <2> QED
    BY <2>1, <2>2, <2>3 DEF Inv
<1>4. ASSUME NEW w \in Workers, Step(w) PROVE Inv'
  <2>1. CASE ReadJsonMode(w)
    <3>1. ControlOK'
      BY <1>1, <2>1, ConfigAssumption DEF ReadJsonMode, ControlOK, Stages, Opts
    <3>2. OnlyLessIsAsked'
      BY <1>1, <2>1 DEF Inv, ControlOK, OnlyLessIsAsked, ReadJsonMode
    <3>3. DowngradesStepByStep'
      BY <2>1 DEF Inv, DowngradesStepByStep, ReadJsonMode
    <3> QED
      BY <3>1, <3>2, <3>3 DEF Inv
  <2>2. CASE Ask(w)
    BY <1>1, <2>2, QuietStep DEF Ask, ControlOK, Stages
  <2>3. CASE SleepEnds(w)
    <3>1. CASE pc' = [pc EXCEPT ![w] = "ask"] /\ UNCHANGED <<streamOff, jsonOff, opts, lasting, result>>
      BY <1>1, <2>3, <3>1, QuietStep DEF SleepEnds, ControlOK, Stages
    <3>2. CASE Return(w, Failure("cancelled"))
      BY <1>1, <2>3, <3>2, ReturnKeepsInv DEF SleepEnds, Failure, ControlOK
    <3> QED
      BY <2>3, <3>1, <3>2 DEF SleepEnds
  <2>4. CASE CallRefused(w)
    <3>1. PICK err \in {"network", "busy", "denied", "rejected"} :
            /\ CallFails(w, err, NoAnswer)
            /\ refused' = IF Rejects(err) THEN refused \cup {opts[w]} ELSE refused
      BY <2>4 DEF CallRefused
    <3>2. refused \subseteq refused' /\ refused' \subseteq Opts
      BY <1>1, <3>1 DEF ControlOK
    <3>3. err = "rejected" => opts[w] \in refused'
      BY <3>1 DEF Rejects
    <3>4. pc[w] \notin {"idle", "json"} /\ NoAnswer.err # "rejected" /\ err \in Failures
      BY <2>4 DEF CallRefused, NoAnswer, Failure, Failures
    <3> QED
      BY <3>1, <3>2, <3>3, <3>4, FailKeepsInv
  <2>5. CASE BodyArrives(w)
    BY <2>5, DeliverKeepsInv DEF BodyArrives
  <2>6. CASE StreamOpens(w)
    BY <1>1, <2>6, QuietStep DEF StreamOpens, ControlOK, Stages
  <2>7. CASE Chunk(w)
    BY <1>1, <2>7, QuietStep DEF Chunk, ControlOK
  <2>8. CASE StreamEnds(w)
    <3>1. pc[w] = "reading" /\ UNCHANGED refused
      BY <2>8 DEF StreamEnds
    <3> QED
      BY <2>8, <3>1, CleanKeepsInv, CutKeepsInv DEF StreamEnds
  <2> QED
    BY <1>4, <2>1, <2>2, <2>3, <2>4, <2>5, <2>6, <2>7, <2>8 DEF Step
<1>5. CASE Cancel
  BY <1>1, <1>5, QuietStep DEF Cancel, workerVars, ControlOK
<1>6. CASE UNCHANGED vars
  BY <1>1, <1>6, QuietStep DEF vars, workerVars, ControlOK
<1> QED
  BY <1>2, <1>3, <1>4, <1>5, <1>6 DEF Next

THEOREM InvAlways == Spec => []Inv
BY InitInv, Inductive, PTL DEF Spec

\* Explain's downgrades, for any workers: streaming goes first, JSON mode only when a
\* request without streaming was refused too, and a refusal is final only when nothing
\* was left to give up.
THEOREM DowngradesAlwaysStepByStep == Spec => []DowngradesStepByStep
<1>1. Inv => DowngradesStepByStep
  BY DEF Inv
<1> QED
  BY InvAlways, <1>1, PTL

\* attempt and transient: a request that failed for good is not sent again as it was.
THEOREM OnlyTransientIsEverRetried == Spec => []OnlyTransientIsRetried
<1>1. Inv => OnlyTransientIsRetried
  BY DEF Inv, ControlOK, OnlyLessIsAsked, OnlyTransientIsRetried, Opts
<1> QED
  BY InvAlways, <1>1, PTL

-----------------------------------------------------------------------------
(***************************************************************************)
(* What a call collects.  Every action but Start, ReadJsonMode, Ask and    *)
(* the flags' is one of five: it returns, it fails, it delivers, it cuts,  *)
(* or it reads on.                                                         *)
(***************************************************************************)
LEMMA CallIsTyped ==
  ASSUME TypeOK, NEW w \in Workers
  PROVE  Call(w) \in Calls
BY DEF TypeOK, Call, Calls

LEMMA FreshIsTyped == Fresh \in Received /\ NoAnswer \in Answers /\ NoOpts \in Opts
BY BudgetAssumption, BoundAssumption
   DEF Fresh, Received, NoAnswer, Failure, Answers, NoOpts, Opts

LEMMA FailureIsTyped ==
  ASSUME NEW err \in Failures \cup {"mask", "cancelled"}
  PROVE  Failure(err) \in Answers
BY BoundAssumption DEF Failure, Answers

LEMMA AnswerIsTyped ==
  ASSUME NEW a \in Received, NEW kind \in {"fields", "prose", "thought"}
  PROVE  Answer(kind, a) \in Answers
BY DEF Answer, Answers, Received, Closed

LEMMA ContentIsTyped ==
  ASSUME NEW a \in Received
  PROVE  Content(a) \in Answers
<1>1. CASE a.text # "none"
  BY <1>1, AnswerIsTyped DEF Content
<1>2. CASE a.text = "none" /\ a.finish = "length"
  BY <1>2, FailureIsTyped DEF Content, Failures
<1>3. CASE a.text = "none" /\ a.finish # "length" /\ a.thought
  BY <1>3, AnswerIsTyped DEF Content
<1>4. CASE a.text = "none" /\ a.finish # "length" /\ ~ a.thought
  BY <1>4, FailureIsTyped DEF Content, Failures
<1> QED
  BY <1>1, <1>2, <1>3, <1>4

LEMMA MarkedIsTyped ==
  ASSUME NEW r \in Answers
  PROVE  [r EXCEPT !.truncated = TRUE] \in Answers
BY DEF Answers

LEMMA SalvageIsTyped ==
  ASSUME NEW a \in Received
  PROVE  Salvage(a) \in Answers
<1> DEFINE r == IF a.fields > 0 THEN Answer("fields", a)
                ELSE IF a.text \in {"open", "closed"} THEN NoAnswer
                ELSE Content(a)
<1>1. r \in Answers
  BY AnswerIsTyped, ContentIsTyped, FreshIsTyped
<1>2. Salvage(a) = [r EXCEPT !.truncated = TRUE] \/ Salvage(a) = NoAnswer
  BY DEF Salvage
<1> QED
  BY <1>1, <1>2, MarkedIsTyped, FreshIsTyped

\* The parts of the type invariant that a call's end may touch.
LEMMA ReturnKeepsTypes ==
  ASSUME TypeOK, NEW w \in Workers, NEW r \in Answers, Return(w, r),
         cancelled' = cancelled, explains' = explains, refused' \subseteq Opts
  PROVE  TypeOK'
BY FreshIsTyped, RetriesAssumption DEF TypeOK, Return

LEMMA OverKeepsTypes ==
  ASSUME TypeOK, NEW w \in Workers, NEW err, CallOver(w, err)
  PROVE  /\ acc' \in [Workers -> Received] /\ sent' \in [Workers -> Answers]
         /\ lasting' \in [Workers -> SUBSET Opts]
BY FreshIsTyped DEF TypeOK, CallOver, Kept

LEMMA FailKeepsTypes ==
  ASSUME TypeOK, NEW w \in Workers, NEW err \in Failures, NEW saved \in Answers,
         CallFails(w, err, saved),
         cancelled' = cancelled, explains' = explains, refused' \subseteq Opts
  PROVE  TypeOK'
<1>1. ASSUME NEW r \in Answers, Return(w, r) PROVE TypeOK'
  BY <1>1, ReturnKeepsTypes
<1>2. CASE cancelled /\ Return(w, Failure("cancelled"))
  BY <1>1, <1>2, FailureIsTyped
<1>3. CASE /\ ~ cancelled /\ Retryable(w, err)
           /\ tries' = [tries EXCEPT ![w] = @ + 1]
           /\ pc' = [pc EXCEPT ![w] = "sleep"]
           /\ CallOver(w, err)
           /\ UNCHANGED <<streamOff, jsonOff, opts, result>>
  <2>1. tries[w] + 1 \in 0..Retries
    BY <1>3, RetriesAssumption DEF TypeOK, Retryable
  <2> QED
    BY <1>3, <2>1, OverKeepsTypes DEF TypeOK
<1>4. CASE Return(w, saved)
  BY <1>1, <1>4
<1>5. CASE Return(w, Failure(err))
  BY <1>1, <1>5, FailureIsTyped
<1>6. CASE /\ Downgrade(w)
           /\ tries' = [tries EXCEPT ![w] = 0]
           /\ pc' = [pc EXCEPT ![w] = "ask"]
           /\ CallOver(w, err)
           /\ UNCHANGED result
  <2>1. /\ opts' \in [Workers -> Opts] /\ streamOff' \in BOOLEAN /\ jsonOff' \in BOOLEAN
    <3>1. /\ [opts[w] EXCEPT !.stream = FALSE] \in Opts
          /\ [opts[w] EXCEPT !.json = FALSE] \in Opts
          /\ opts \in [Workers -> Opts]
      BY DEF TypeOK, Opts
    <3>2. \/ opts' = [opts EXCEPT ![w].stream = FALSE]
          \/ opts' = [opts EXCEPT ![w].json = FALSE]
      BY <1>6 DEF Downgrade, DropStream, DropJson
    <3>3. streamOff' \in BOOLEAN /\ jsonOff' \in BOOLEAN
      BY <1>6 DEF TypeOK, Downgrade, DropStream, DropJson
    <3> QED
      BY <3>1, <3>2, <3>3
  <2>2. tries' \in [Workers -> 0..Retries]
    BY <1>6, RetriesAssumption DEF TypeOK
  <2>3. pc' \in [Workers -> {"idle", "json", "ask", "calling", "reading", "sleep"}]
    BY <1>6 DEF TypeOK
  <2>4. /\ acc' \in [Workers -> Received] /\ sent' \in [Workers -> Answers]
        /\ lasting' \in [Workers -> SUBSET Opts]
    BY <1>6, OverKeepsTypes
  <2> QED
    BY <1>6, <2>1, <2>2, <2>3, <2>4 DEF TypeOK
<1> QED
  BY <1>2, <1>3, <1>4, <1>5, <1>6 DEF CallFails, GiveUp

LEMMA DeliverKeepsTypes ==
  ASSUME TypeOK, NEW w \in Workers, NEW a \in Received, Deliver(w, Content(a)),
         UNCHANGED <<cancelled, explains, refused>>
  PROVE  TypeOK'
<1>1. CASE Content(a).err = "none"
  BY <1>1, ContentIsTyped, ReturnKeepsTypes DEF Deliver, TypeOK
<1>2. CASE Content(a).err # "none"
  BY <1>2, ContentIsNoRefusal, FreshIsTyped, FailKeepsTypes DEF Deliver, Failures, TypeOK
<1> QED
  BY <1>1, <1>2

LEMMA CutKeepsTypes ==
  ASSUME TypeOK, NEW w \in Workers, NEW a \in Received, NEW err \in {"torn", "limit"},
         Cut(w, a, err), UNCHANGED <<cancelled, explains, refused>>
  PROVE  TypeOK'
BY DeliverKeepsTypes, SalvageIsTyped, FailKeepsTypes DEF Cut, Failures, TypeOK

LEMMA CleanKeepsTypes ==
  ASSUME TypeOK, NEW w \in Workers, NEW a \in Received,
         Clean(w, a), UNCHANGED <<cancelled, explains, refused>>
  PROVE  TypeOK'
<1>1. [a EXCEPT !.end = "clean"] \in Received
  BY DEF Received
<1> QED
  BY <1>1, DeliverKeepsTypes, CutKeepsTypes DEF Clean

\* What a chunk leaves is something received, and no less than what was there.
LEMMA TakenIsTyped ==
  ASSUME TypeOK, NEW w \in Workers, acc[w].wire < MaxWire, NEW piece \in Pieces(acc[w])
  PROVE  /\ Taken(w, piece) \in Received
         /\ Taken(w, piece).wire = acc[w].wire + 1
         /\ Taken(w, piece).fields >= acc[w].fields
<1> DEFINE a == [acc[w] EXCEPT !.wire = @ + 1,
                               !.finish = IF piece \in {"stop", "length"} THEN piece ELSE @]
<1>1. acc[w] \in Received /\ Call(w) \in Calls
  BY CallIsTyped DEF TypeOK
<1>2. /\ a \in Received /\ a.wire = acc[w].wire + 1 /\ a.fields = acc[w].fields
      /\ a.size = acc[w].size /\ a.text = acc[w].text
  <2>1. (IF piece \in {"stop", "length"} THEN piece ELSE acc[w].finish)
          \in {"none", "stop", "length"}
    BY <1>1 DEF Received
  <2>2. acc[w].wire + 1 \in 0..MaxWire
    BY <1>1, BudgetAssumption DEF Received
  <2> QED
    BY <1>1, <2>1, <2>2 DEF Received
<1>3. piece \in {"think", "prose", "brace", "close", "field", "stop", "length"}
  BY DEF Pieces
<1>4. piece = "field" => acc[w].fields < MaxFields
  BY DEF Pieces
<1> HIDE DEF a
<1>5. CASE a.size > MaxBody
  <2>1. Taken(w, piece) = [a EXCEPT !.over = TRUE]
    BY <1>5 DEF Taken, a
  <2>2. /\ [a EXCEPT !.over = TRUE] \in Received
        /\ [a EXCEPT !.over = TRUE].wire = a.wire
        /\ [a EXCEPT !.over = TRUE].fields = a.fields
    BY <1>2 DEF Received
  <2>3. acc[w].fields \in Int
    BY <1>1 DEF Received
  <2> QED
    BY <1>2, <2>1, <2>2, <2>3
<1>6. CASE ~ (a.size > MaxBody)
  <2>1. Taken(w, piece) = Written(w, a, piece)
    BY <1>6 DEF Taken, a
  <2>2. (CASE piece = "prose" -> "prose" [] piece = "brace" -> "open"
           [] piece = "close" -> "closed" [] OTHER -> a.text)
        \in {"none", "prose", "open", "closed"}
    BY <1>2 DEF Received
  <2>3. (IF piece = "field" THEN a.fields + 1 ELSE a.fields) \in 0..MaxFields
    BY <1>2, <1>4, BoundAssumption DEF Received
  <2>4. (IF piece \in {"stop", "length"} THEN a.size ELSE a.size + 1) \in 0..(MaxBody + 1)
    BY <1>2, <1>6, BudgetAssumption DEF Received
  <2>5. (a.thought \/ piece = "think") \in BOOLEAN /\ a.from \cup {Call(w)} \in SUBSET Calls
    BY <1>1, <1>2 DEF Received
  <2>6. Written(w, a, piece) \in Received
    BY <1>2, <2>2, <2>3, <2>4, <2>5 DEF Written, Received
  <2>7. /\ Written(w, a, piece).wire = a.wire
        /\ Written(w, a, piece).fields = IF piece = "field" THEN a.fields + 1 ELSE a.fields
    BY <1>2 DEF Written, Received
  <2> QED
    BY <1>1, <1>2, <2>1, <2>6, <2>7 DEF Received
<1> QED
  BY <1>5, <1>6

\* While a call is read on, there is something left of its wire.
LEMMA UnspentIsLess ==
  ASSUME TypeOK, NEW w \in Workers, Chunk(w)
  PROVE  acc[w].wire < MaxWire
<1>1. acc[w] \in Received /\ MaxWire \in Nat
  BY BudgetAssumption DEF TypeOK
<1> QED
  BY <1>1 DEF Chunk, Spent, Received

LEMMA BodiesAreTyped ==
  ASSUME TypeOK, NEW w \in Workers, NEW a \in Bodies(w)
  PROVE  a \in Received
<1>1. Call(w) \in Calls
  BY CallIsTyped
<1>2. 0..1 \subseteq 0..MaxFields /\ 0 \in 0..(MaxBody + 1) /\ 0 \in 0..MaxWire
  BY BudgetAssumption, BoundAssumption
<1> QED
  BY <1>1, <1>2 DEF Bodies, Received

\* The five ends of a stream, as the transitions of Cut and Clean.
LEMMA StreamEndsSomehow ==
  ASSUME NEW w \in Workers, StreamEnds(w)
  PROVE  Clean(w, acc[w]) \/ \E err \in {"torn", "limit"} : Cut(w, acc[w], err)
BY DEF StreamEnds

\* One of the two capabilities set anew.
LEMMA OptsSet ==
  ASSUME NEW o \in Opts, NEW b \in BOOLEAN
  PROVE  [o EXCEPT !.stream = b] \in Opts /\ [o EXCEPT !.json = b] \in Opts
BY DEF Opts

LEMMA TypeInductive == TypeOK /\ [Next]_vars => TypeOK'
<1> SUFFICES ASSUME TypeOK, [Next]_vars PROVE TypeOK'
  OBVIOUS
<1>1. ASSUME NEW w \in Workers, Start(w) PROVE TypeOK'
  <2>1. opts' \in [Workers -> Opts]
    <3>1. PICK b \in BOOLEAN : b = (Stream /\ ~ streamOff)
      OBVIOUS
    <3>2. opts' = [opts EXCEPT ![w].stream = b] /\ opts \in [Workers -> Opts]
      BY <1>1, <3>1 DEF Start, TypeOK
    <3>3. [opts[w] EXCEPT !.stream = b] \in Opts
      BY <3>2, OptsSet
    <3> QED
      BY <3>2, <3>3
  <2>2. explains' \in 0..MaxExplains
    BY <1>1, BoundAssumption DEF Start, TypeOK
  <2> QED
    BY <1>1, <2>1, <2>2, FreshIsTyped DEF Start, TypeOK
<1>2. ASSUME NEW w \in Workers, MaskFails(w) PROVE TypeOK'
  <2>1. explains' \in 0..MaxExplains
    BY <1>2, BoundAssumption DEF MaskFails, TypeOK
  <2>2. Failure("mask") \in Answers
    BY FailureIsTyped
  <2> QED
    BY <1>2, <2>1, <2>2 DEF MaskFails, TypeOK
<1>3. ASSUME NEW w \in Workers, Step(w) PROVE TypeOK'
  <2>1. CASE ReadJsonMode(w)
    <3>1. opts' \in [Workers -> Opts]
      <4>1. PICK b \in BOOLEAN : b = (JSONMode /\ ~ jsonOff)
        OBVIOUS
      <4>2. opts' = [opts EXCEPT ![w].json = b] /\ opts \in [Workers -> Opts]
        BY <2>1, <4>1 DEF ReadJsonMode, TypeOK
      <4>3. [opts[w] EXCEPT !.json = b] \in Opts
        BY <4>2, OptsSet
      <4> QED
        BY <4>2, <4>3
    <3> QED
      BY <2>1, <3>1 DEF ReadJsonMode, TypeOK
  <2>2. CASE Ask(w)
    BY <2>2 DEF Ask, TypeOK
  <2>3. CASE SleepEnds(w)
    <3>1. CASE pc' = [pc EXCEPT ![w] = "ask"]
               /\ UNCHANGED <<streamOff, jsonOff, opts, tries, acc, sent, lasting, result>>
      BY <2>3, <3>1 DEF SleepEnds, TypeOK
    <3>2. CASE Return(w, Failure("cancelled"))
      BY <2>3, <3>2, FailureIsTyped, ReturnKeepsTypes DEF SleepEnds, TypeOK
    <3> QED
      BY <2>3, <3>1, <3>2 DEF SleepEnds
  <2>4. CASE CallRefused(w)
    <3>1. PICK err \in {"network", "busy", "denied", "rejected"} :
            /\ CallFails(w, err, NoAnswer)
            /\ refused' = IF Rejects(err) THEN refused \cup {opts[w]} ELSE refused
      BY <2>4 DEF CallRefused
    <3>2. refused' \subseteq Opts /\ err \in Failures
      BY <3>1 DEF TypeOK, Failures
    <3>3. cancelled' = cancelled /\ explains' = explains
      BY <2>4 DEF CallRefused
    <3> QED
      BY <3>1, <3>2, <3>3, FailKeepsTypes, FreshIsTyped
  <2>5. CASE BodyArrives(w)
    <3>1. PICK a \in Bodies(w) : Deliver(w, Content(a))
      BY <2>5 DEF BodyArrives
    <3>2. a \in Received /\ UNCHANGED <<cancelled, explains, refused>>
      BY <2>5, BodiesAreTyped DEF BodyArrives
    <3> QED
      BY <3>1, <3>2, DeliverKeepsTypes
  <2>6. CASE StreamOpens(w)
    BY <2>6 DEF StreamOpens, TypeOK
  <2>7. CASE Chunk(w)
    <3>1. PICK piece \in Pieces(acc[w]) :
            /\ acc' = [acc EXCEPT ![w] = Taken(w, piece)]
            /\ sent' = Partial(w, Taken(w, piece))
      BY <2>7 DEF Chunk
    <3>2. acc[w].wire < MaxWire
      BY <2>7, UnspentIsLess
    <3>3. Taken(w, piece) \in Received
      BY <3>2, TakenIsTyped
    <3>4. sent' \in [Workers -> Answers]
      BY <3>1, <3>3, AnswerIsTyped DEF Partial, TypeOK
    <3>5. acc' \in [Workers -> Received]
      BY <3>1, <3>3 DEF TypeOK
    <3> QED
      BY <2>7, <3>4, <3>5 DEF Chunk, TypeOK
  <2>8. CASE StreamEnds(w)
    <3>1. acc[w] \in Received /\ UNCHANGED <<cancelled, explains, refused>>
      BY <2>8 DEF TypeOK, StreamEnds
    <3>2. CASE Clean(w, acc[w])
      BY <3>1, <3>2, CleanKeepsTypes
    <3>3. ASSUME NEW err \in {"torn", "limit"}, Cut(w, acc[w], err) PROVE TypeOK'
      BY <3>1, <3>3, CutKeepsTypes
    <3> QED
      BY <2>8, <3>2, <3>3, StreamEndsSomehow
  <2> QED
    BY <1>3, <2>1, <2>2, <2>3, <2>4, <2>5, <2>6, <2>7, <2>8 DEF Step
<1>4. CASE Cancel
  BY <1>4 DEF Cancel, workerVars, TypeOK
<1>5. CASE UNCHANGED vars
  BY <1>5 DEF vars, workerVars, TypeOK
<1> QED
  BY <1>1, <1>2, <1>3, <1>4, <1>5 DEF Next

LEMMA TypeInit == Init => TypeOK
<1> SUFFICES ASSUME Init PROVE TypeOK
  OBVIOUS
<1>1. 0 \in 0..Retries /\ 0 \in 0..MaxExplains
  BY RetriesAssumption, BoundAssumption
<1> QED
  BY <1>1, FreshIsTyped DEF Init, TypeOK

\* Explain's state, for any number of workers and whatever the server sends: what it keeps
\* of an answer, and the budgets of consumeStream.
THEOREM TypesAlwaysHold == Spec => []TypeOK
  BY TypeInit, TypeInductive, PTL DEF Spec

-----------------------------------------------------------------------------
(***************************************************************************)
(* An answer is one call's: what is collected was written by the call that *)
(* is being read, since every end of a call drops it.                      *)
(***************************************************************************)
Gathered(c, a) ==
  /\ a.from \subseteq {c}
  /\ a.text # "none" \/ a.thought => a.from = {c}
  /\ a.fields > 0 => a.text # "none"

OneCall ==
  \A w \in Workers :
    /\ pc[w] # "reading" => acc[w] = Fresh /\ sent[w] = NoAnswer
    /\ Gathered(Call(w), acc[w])
    /\ sent[w].fields <= acc[w].fields

CallInv == TypeOK /\ OneCall

\* Whatever a worker does, the others' calls are as they were.
OthersRest(w) ==
  \A v \in Workers \ {w} :
    /\ pc'[v] = pc[v] /\ opts'[v] = opts[v] /\ tries'[v] = tries[v]
    /\ acc'[v] = acc[v] /\ sent'[v] = sent[v] /\ result'[v] = result[v]

\* A call that is over, with nothing of it kept but what it returned.
Ends(w) ==
  /\ OthersRest(w)
  /\ pc'[w] # "reading" /\ acc'[w] = Fresh /\ sent'[w] = NoAnswer

\* What Explain may return, after a call that had collected a.
GoodAnswer(w, a, r) ==
  r.kind # "none" =>
    /\ r.from = {Call(w)} /\ r.fields = a.fields
    /\ r.truncated \/ r.whole

EndsWell(w, a) == Ends(w) /\ (pc'[w] = "idle" => GoodAnswer(w, a, result'[w]))

LEMMA FreshIsGathered ==
  ASSUME NEW c
  PROVE  Gathered(c, Fresh) /\ NoAnswer.fields <= Fresh.fields
BY DEF Gathered, Fresh, NoAnswer, Failure

LEMMA EndKeepsCalls ==
  ASSUME CallInv, NEW w \in Workers, Ends(w)
  PROVE  OneCall'
<1> SUFFICES ASSUME NEW v \in Workers
             PROVE  /\ pc'[v] # "reading" => acc'[v] = Fresh /\ sent'[v] = NoAnswer
                    /\ Gathered(Call(v)', acc'[v])
                    /\ sent'[v].fields <= acc'[v].fields
  BY DEF OneCall
<1>1. CASE v = w
  BY <1>1, FreshIsGathered DEF Ends
<1>2. CASE v # w
  BY <1>2 DEF CallInv, OneCall, Ends, OthersRest, Call
<1> QED
  BY <1>1, <1>2

LEMMA ReturnEnds ==
  ASSUME TypeOK, NEW w \in Workers, NEW r, Return(w, r)
  PROVE  Ends(w) /\ result'[w] = r /\ pc'[w] = "idle"
BY DEF TypeOK, Return, Ends, OthersRest

LEMMA OverEnds ==
  ASSUME TypeOK, NEW w \in Workers, NEW err, CallOver(w, err),
         \/ tries' = [tries EXCEPT ![w] = @ + 1] /\ opts' = opts
         \/ tries' = [tries EXCEPT ![w] = 0] /\ Downgrade(w),
         \/ pc' = [pc EXCEPT ![w] = "sleep"]
         \/ pc' = [pc EXCEPT ![w] = "ask"],
         UNCHANGED result
  PROVE  Ends(w) /\ pc'[w] # "idle"
<1>1. \A v \in Workers \ {w} : opts'[v] = opts[v]
  BY DEF TypeOK, Downgrade, DropStream, DropJson
<1> QED
  BY <1>1 DEF TypeOK, CallOver, Kept, Ends, OthersRest

LEMMA FailEndsWell ==
  ASSUME TypeOK, NEW w \in Workers, NEW err, NEW saved, NEW a, CallFails(w, err, saved),
         GoodAnswer(w, a, saved)
  PROVE  EndsWell(w, a)
<1>1. ASSUME NEW e PROVE GoodAnswer(w, a, Failure(e))
  BY DEF GoodAnswer, Failure
<1>2. ASSUME NEW r, Return(w, r), GoodAnswer(w, a, r) PROVE EndsWell(w, a)
  BY <1>2, ReturnEnds DEF EndsWell
<1>3. CASE Return(w, Failure("cancelled"))
  BY <1>1, <1>2, <1>3
<1>4. CASE /\ tries' = [tries EXCEPT ![w] = @ + 1]
           /\ pc' = [pc EXCEPT ![w] = "sleep"]
           /\ CallOver(w, err)
           /\ UNCHANGED <<streamOff, jsonOff, opts, result>>
  BY <1>4, OverEnds DEF EndsWell
<1>5. CASE Return(w, saved)
  BY <1>2, <1>5
<1>6. CASE Return(w, Failure(err))
  BY <1>1, <1>2, <1>6
<1>7. CASE /\ Downgrade(w)
           /\ tries' = [tries EXCEPT ![w] = 0]
           /\ pc' = [pc EXCEPT ![w] = "ask"]
           /\ CallOver(w, err)
           /\ UNCHANGED result
  BY <1>7, OverEnds DEF EndsWell
<1> QED
  BY <1>3, <1>4, <1>5, <1>6, <1>7 DEF CallFails, GiveUp

\* content and salvageable take no field, and no prose, from anywhere but this call.
LEMMA ContentIsOneCalls ==
  ASSUME NEW w \in Workers, NEW a, Gathered(Call(w), a),
         a.end = "clean" \/ Closed(a)
  PROVE  GoodAnswer(w, a, Content(a))
<1>1. CASE a.text # "none"
  BY <1>1 DEF Content, Answer, GoodAnswer, Gathered
<1>2. CASE a.text = "none" /\ a.finish = "length"
  BY <1>2 DEF Content, Failure, GoodAnswer
<1>3. CASE a.text = "none" /\ a.finish # "length" /\ a.thought
  BY <1>3 DEF Content, Answer, GoodAnswer, Gathered
<1>4. CASE a.text = "none" /\ a.finish # "length" /\ ~ a.thought
  BY <1>4 DEF Content, Failure, GoodAnswer
<1> QED
  BY <1>1, <1>2, <1>3, <1>4

LEMMA SalvageIsOneCalls ==
  ASSUME NEW w \in Workers, NEW a \in Received, Gathered(Call(w), a)
  PROVE  GoodAnswer(w, a, Salvage(a))
<1>1. GoodAnswer(w, a, NoAnswer)
  BY DEF GoodAnswer, NoAnswer, Failure
<1>2. ASSUME NEW kind, NEW r, r = [Answer(kind, a) EXCEPT !.truncated = TRUE], a.from = {Call(w)}
      PROVE  GoodAnswer(w, a, r)
  BY <1>2 DEF GoodAnswer, Answer
<1>3. CASE a.fields > 0
  <2>1. Salvage(a) = NoAnswer \/ Salvage(a) = [Answer("fields", a) EXCEPT !.truncated = TRUE]
    BY <1>3 DEF Salvage
  <2>2. a.from = {Call(w)}
    BY <1>3 DEF Gathered
  <2> QED
    BY <1>1, <1>2, <2>1, <2>2
<1>4. CASE ~ (a.fields > 0) /\ a.text \in {"open", "closed"}
  BY <1>1, <1>4 DEF Salvage, NoAnswer, Failure
<1>5. CASE ~ (a.fields > 0) /\ a.text \notin {"open", "closed"}
  <2>1. \/ Salvage(a) = NoAnswer
        \/ Content(a).kind # "none" /\ Salvage(a) = [Content(a) EXCEPT !.truncated = TRUE]
    BY <1>5 DEF Salvage
  <2>2. ASSUME Content(a).kind # "none"
        PROVE  (\E kind \in {"fields", "prose", "thought"} : Content(a) = Answer(kind, a))
               /\ a.from = {Call(w)}
    BY <2>2 DEF Content, Failure, Gathered
  <2> QED
    BY <1>1, <1>2, <2>1, <2>2
<1> QED
  BY <1>3, <1>4, <1>5

LEMMA DeliverEndsWell ==
  ASSUME TypeOK, NEW w \in Workers, NEW a, Deliver(w, Content(a)),
         Gathered(Call(w), a), a.end = "clean" \/ Closed(a)
  PROVE  EndsWell(w, a)
<1>1. GoodAnswer(w, a, Content(a)) /\ GoodAnswer(w, a, NoAnswer)
  BY ContentIsOneCalls DEF GoodAnswer, NoAnswer, Failure
<1>2. CASE Content(a).err = "none"
  BY <1>1, <1>2, ReturnEnds DEF Deliver, EndsWell
<1>3. CASE Content(a).err # "none"
  BY <1>1, <1>3, FailEndsWell DEF Deliver
<1> QED
  BY <1>2, <1>3

LEMMA CutEndsWell ==
  ASSUME TypeOK, NEW w \in Workers, NEW a \in Received, NEW err, Cut(w, a, err),
         Gathered(Call(w), a)
  PROVE  EndsWell(w, a)
BY DeliverEndsWell, SalvageIsOneCalls, FailEndsWell DEF Cut

LEMMA CleanEndsWell ==
  ASSUME TypeOK, NEW w \in Workers, NEW a \in Received, Clean(w, a),
         Gathered(Call(w), a)
  PROVE  EndsWell(w, a)
<1> DEFINE b == [a EXCEPT !.end = "clean"]
<1>1. b.end = "clean" /\ b.fields = a.fields /\ Gathered(Call(w), b)
  BY DEF Received, Gathered
<1>2. CASE a.over
  BY <1>2, CutEndsWell DEF Clean
<1>3. CASE ~ a.over
  <2>1. EndsWell(w, b)
    BY <1>1, <1>3, DeliverEndsWell DEF Clean
  <2> QED
    BY <1>1, <2>1 DEF EndsWell, GoodAnswer
<1> QED
  BY <1>2, <1>3

\* A piece is written by the call that reads it.
LEMMA TakenIsOneCalls ==
  ASSUME TypeOK, NEW w \in Workers, Gathered(Call(w), acc[w]), NEW piece \in Pieces(acc[w])
  PROVE  Gathered(Call(w), Taken(w, piece))
<1> DEFINE a == [acc[w] EXCEPT !.wire = @ + 1,
                               !.finish = IF piece \in {"stop", "length"} THEN piece ELSE @]
<1>1. acc[w] \in Received
  BY DEF TypeOK
<1>2. /\ a.text = acc[w].text /\ a.fields = acc[w].fields /\ a.thought = acc[w].thought
      /\ a.from = acc[w].from
      /\ a = [text |-> a.text, fields |-> a.fields, thought |-> a.thought, finish |-> a.finish,
              size |-> a.size, wire |-> a.wire, over |-> a.over, from |-> a.from, end |-> a.end]
  <2> DEFINE f == IF piece \in {"stop", "length"} THEN piece ELSE acc[w].finish
             n == acc[w].wire + 1
  <2>1. a = [acc[w] EXCEPT !.wire = n, !.finish = f]
    OBVIOUS
  <2> HIDE DEF a, f, n
  <2>2. a = [text |-> acc[w].text, fields |-> acc[w].fields, thought |-> acc[w].thought,
             finish |-> f, size |-> acc[w].size, wire |-> n, over |-> acc[w].over,
             from |-> acc[w].from, end |-> acc[w].end]
    BY <1>1, <2>1 DEF Received
  <2> QED
    BY <2>2
<1>3. piece \in {"think", "prose", "brace", "close", "field", "stop", "length"}
      /\ (piece = "field" => acc[w].text = "open")
  BY DEF Pieces
<1> HIDE DEF a
<1>4. CASE a.size > MaxBody
  <2>1. Taken(w, piece) = [a EXCEPT !.over = TRUE]
    BY <1>4 DEF Taken, a
  <2> QED
    BY <1>2, <2>1 DEF Gathered
<1>5. CASE ~ (a.size > MaxBody)
  <2>1. Taken(w, piece) = Written(w, a, piece)
    BY <1>5 DEF Taken, a
  <2>2. /\ Written(w, a, piece).from = a.from \cup {Call(w)}
        /\ Written(w, a, piece).text \in {a.text, "prose", "open", "closed"}
        /\ piece = "field" => Written(w, a, piece).text = a.text
        /\ piece # "field" => Written(w, a, piece).fields = a.fields
        /\ a.text # "none" => Written(w, a, piece).text # "none"
    BY <1>2, <1>3 DEF Written
  <2>3. Written(w, a, piece).from = {Call(w)}
    BY <1>2, <2>2 DEF Gathered
  <2>4. Written(w, a, piece).fields > 0 => Written(w, a, piece).text # "none"
    BY <1>2, <1>3, <2>2 DEF Gathered
  <2> QED
    BY <2>1, <2>3, <2>4 DEF Gathered
<1> QED
  BY <1>4, <1>5

\* A step of a worker ends its call, with an answer that has all the fields OnPartial was
\* shown of it, or keeps it.
LEMMA StepOfACall ==
  ASSUME CallInv, NEW w \in Workers, Step(w)
  PROVE  \/ /\ Ends(w)
            /\ pc'[w] = "idle" =>
                 \E a : GoodAnswer(w, a, result'[w])
                        /\ (sent[w].from = {Call(w)} => a.fields >= sent[w].fields)
         \/ pc'[w] # "idle" /\ OneCall' /\ OthersRest(w)
<1> USE DEF CallInv
<1>1. /\ acc[w] \in Received /\ sent[w] \in Answers
      /\ Gathered(Call(w), acc[w]) /\ sent[w].fields <= acc[w].fields
      /\ pc[w] # "reading" => acc[w] = Fresh /\ sent[w] = NoAnswer
      /\ acc[w].fields \in Int /\ sent[w].fields \in Int
  <2>1. acc[w] \in Received /\ sent[w] \in Answers
    BY DEF TypeOK
  <2> QED
    BY <2>1 DEF OneCall, Received, Answers
<1>2. ASSUME NEW a, EndsWell(w, a), a.fields >= sent[w].fields
      PROVE  /\ Ends(w)
             /\ pc'[w] = "idle" =>
                  \E b : GoodAnswer(w, b, result'[w])
                         /\ (sent[w].from = {Call(w)} => b.fields >= sent[w].fields)
  BY <1>2 DEF EndsWell
<1>3. CASE ReadJsonMode(w)
  <2>1. OthersRest(w) /\ pc'[w] = "ask"
    BY <1>3 DEF ReadJsonMode, OthersRest, TypeOK
  <2>2. acc'[w] = Fresh /\ sent'[w] = NoAnswer
    BY <1>1, <1>3 DEF ReadJsonMode
  <2> QED
    BY <2>1, <2>2, EndKeepsCalls DEF Ends
<1>4. CASE Ask(w)
  <2>1. OthersRest(w) /\ pc'[w] = "calling" /\ acc'[w] = Fresh /\ sent'[w] = NoAnswer
    BY <1>1, <1>4 DEF Ask, OthersRest, TypeOK
  <2> QED
    BY <2>1, EndKeepsCalls DEF Ends
<1>5. CASE SleepEnds(w)
  <2>1. CASE pc' = [pc EXCEPT ![w] = "ask"]
             /\ UNCHANGED <<streamOff, jsonOff, opts, tries, acc, sent, lasting, result>>
    <3>1. OthersRest(w) /\ pc'[w] = "ask" /\ acc'[w] = Fresh /\ sent'[w] = NoAnswer
      BY <1>1, <1>5, <2>1 DEF SleepEnds, OthersRest, TypeOK
    <3> QED
      BY <3>1, EndKeepsCalls DEF Ends
  <2>2. CASE Return(w, Failure("cancelled"))
    <3>1. Ends(w) /\ result'[w] = Failure("cancelled")
      BY <2>2, ReturnEnds
    <3>2. GoodAnswer(w, acc[w], result'[w])
      BY <3>1 DEF GoodAnswer, Failure
    <3> QED
      BY <1>1, <3>1, <3>2
  <2> QED
    BY <1>5, <2>1, <2>2 DEF SleepEnds
<1>6. CASE CallRefused(w)
  <2>1. PICK err : CallFails(w, err, NoAnswer)
    BY <1>6 DEF CallRefused
  <2>2. GoodAnswer(w, acc[w], NoAnswer)
    BY DEF GoodAnswer, NoAnswer, Failure
  <2>3. EndsWell(w, acc[w])
    BY <2>1, <2>2, FailEndsWell
  <2> QED
    BY <1>1, <1>2, <2>3
<1>7. CASE BodyArrives(w)
  <2>1. PICK a \in Bodies(w) : Deliver(w, Content(a))
    BY <1>7 DEF BodyArrives
  <2>2. Gathered(Call(w), a) /\ a.end = "clean" /\ a.fields \in 0..1
    BY <2>1 DEF Bodies, Gathered
  <2>3. EndsWell(w, a)
    BY <2>1, <2>2, DeliverEndsWell
  <2>4. sent[w].fields = 0
    BY <1>1, <1>7 DEF BodyArrives, NoAnswer, Failure
  <2> QED
    BY <1>2, <2>2, <2>3, <2>4
<1>8. CASE StreamOpens(w)
  <2>1. OthersRest(w) /\ pc'[w] = "reading"
    BY <1>8 DEF StreamOpens, OthersRest, TypeOK
  <2>2. OneCall'
    BY <1>8, <2>1 DEF StreamOpens, OthersRest, OneCall, Call
  <2> QED
    BY <2>1, <2>2
<1>9. CASE Chunk(w)
  <2>1. PICK piece \in Pieces(acc[w]) :
          /\ acc' = [acc EXCEPT ![w] = Taken(w, piece)]
          /\ sent' = Partial(w, Taken(w, piece))
    BY <1>9 DEF Chunk
  <2>2. /\ Taken(w, piece) \in Received /\ Gathered(Call(w), Taken(w, piece))
        /\ Taken(w, piece).fields >= acc[w].fields /\ Taken(w, piece).fields \in Int
    <3>1. Taken(w, piece) \in Received /\ Taken(w, piece).fields >= acc[w].fields
      BY <1>9, UnspentIsLess, TakenIsTyped
    <3> QED
      BY <1>1, <3>1, TakenIsOneCalls DEF Received
  <2>3. /\ \A v \in Workers \ {w} : acc'[v] = acc[v] /\ sent'[v] = sent[v]
        /\ acc'[w] = Taken(w, piece)
    BY <2>1 DEF TypeOK, Partial
  <2>4. OthersRest(w) /\ pc'[w] = "reading"
    BY <1>9, <2>3 DEF OthersRest, TypeOK, Chunk
  <2>5. sent'[w].fields <= acc'[w].fields
    <3>1. sent'[w] = Answer("fields", Taken(w, piece)) \/ sent'[w] = sent[w]
      BY <2>1 DEF TypeOK, Partial
    <3> QED
      BY <1>1, <2>2, <2>3, <3>1 DEF Answer
  <2>6. Call(w)' = Call(w)
    BY <1>9 DEF Chunk, Call
  <2>7. OneCall'
    <3> SUFFICES ASSUME NEW v \in Workers
                 PROVE  /\ pc'[v] # "reading" => acc'[v] = Fresh /\ sent'[v] = NoAnswer
                        /\ Gathered(Call(v)', acc'[v])
                        /\ sent'[v].fields <= acc'[v].fields
      BY DEF OneCall
    <3>1. CASE v = w
      BY <2>2, <2>3, <2>4, <2>5, <2>6, <3>1
    <3>2. CASE v # w
      BY <2>4, <3>2 DEF OneCall, OthersRest, Call
    <3> QED
      BY <3>1, <3>2
  <2> QED
    BY <2>4, <2>7
<1>10. CASE StreamEnds(w)
  <2>1. EndsWell(w, acc[w])
    BY <1>1, <1>10, StreamEndsSomehow, CleanEndsWell, CutEndsWell
  <2> QED
    BY <1>1, <1>2, <2>1
<1> QED
  BY <1>3, <1>4, <1>5, <1>6, <1>7, <1>8, <1>9, <1>10 DEF Step

LEMMA CallInductive == CallInv /\ [Next]_vars => CallInv'
<1> SUFFICES ASSUME CallInv, [Next]_vars PROVE OneCall'
  BY TypeInductive DEF CallInv
<1>1. ASSUME NEW w \in Workers, Start(w) PROVE OneCall'
  <2>1. OthersRest(w) /\ pc'[w] = "json" /\ acc'[w] = Fresh /\ sent'[w] = NoAnswer
    BY <1>1 DEF CallInv, TypeOK, OneCall, Start, OthersRest
  <2> QED
    BY <2>1, EndKeepsCalls DEF Ends
<1>2. ASSUME NEW w \in Workers, MaskFails(w) PROVE OneCall'
  BY <1>2 DEF CallInv, OneCall, MaskFails, Call
<1>3. ASSUME NEW w \in Workers, Step(w) PROVE OneCall'
  BY <1>3, StepOfACall, EndKeepsCalls
<1>4. CASE Cancel
  BY <1>4 DEF CallInv, OneCall, Cancel, workerVars, Call
<1>5. CASE UNCHANGED vars
  BY <1>5 DEF CallInv, OneCall, vars, workerVars, Call
<1> QED
  BY <1>1, <1>2, <1>3, <1>4, <1>5 DEF Next

LEMMA CallInit == Init => CallInv
<1> SUFFICES ASSUME Init PROVE OneCall
  BY TypeInit DEF CallInv
<1> QED
  BY FreshIsGathered DEF Init, OneCall

\* What a step must not do, of the state before it and after.
WellReturned ==
  \A w \in Workers :
    pc[w] # "idle" /\ pc'[w] = "idle" /\ result'[w].kind # "none" =>
      /\ result'[w].from = {Call(w)}
      /\ sent[w].from = {Call(w)} => result'[w].fields >= sent[w].fields
      /\ result'[w].truncated \/ result'[w].whole

LEMMA StepsReturnWell == CallInv /\ [Next]_vars => WellReturned
<1> SUFFICES ASSUME CallInv, [Next]_vars, NEW v \in Workers,
                    pc[v] # "idle", pc'[v] = "idle", result'[v].kind # "none"
             PROVE  /\ result'[v].from = {Call(v)}
                    /\ sent[v].from = {Call(v)} => result'[v].fields >= sent[v].fields
                    /\ result'[v].truncated \/ result'[v].whole
  BY DEF WellReturned
<1>1. ASSUME NEW w \in Workers, Start(w) \/ MaskFails(w) PROVE FALSE
  BY <1>1 DEF CallInv, TypeOK, Start, MaskFails
<1>2. ~ Cancel /\ ~ UNCHANGED vars
  BY DEF Cancel, workerVars, vars
<1>3. PICK w \in Workers : Step(w)
  BY <1>1, <1>2 DEF Next
<1>4. v = w
  BY <1>3, StepOfACall DEF Ends, OthersRest
<1>5. PICK a : /\ GoodAnswer(w, a, result'[w])
               /\ (sent[w].from = {Call(w)} => a.fields >= sent[w].fields)
  BY <1>3, <1>4, StepOfACall
<1> QED
  BY <1>4, <1>5 DEF GoodAnswer

\* consumeStream, torn and attempt, for any workers and whatever the server sends: an answer
\* is of one call, with every field OnPartial was shown of it, and unmarked only if whole.
THEOREM AnAnswerIsAlwaysOneCalls == Spec => AnswerIsOneCalls
<1>1. CallInv /\ [Next]_vars => [WellReturned]_vars
  BY StepsReturnWell
<1> QED
  BY CallInit, CallInductive, <1>1, PTL DEF Spec, AnswerIsOneCalls, WellReturned

-----------------------------------------------------------------------------
(***************************************************************************)
(* How much an Explain does: what ExplainReturns rests on besides          *)
(* fairness, and the reason no server can make one Explain a retry storm.  *)
(***************************************************************************)
One(b) == IF b THEN 1 ELSE 0

\* The capabilities that can still be given up; Explain has yet to ask for those at "json".
Downgrades(w) == IF pc[w] \in {"idle", "json"} THEN 2 ELSE One(opts[w].stream) + One(opts[w].json)

\* The calls it may make after the one it is at.
CallsAfter(w) == Downgrades(w) * (Retries + 1) + (Retries - tries[w])

InACall(w) == pc[w] \in {"calling", "reading"}

\* The steps left of the call it is at, or is about to make.
Place(w) ==
  CASE pc[w] = "reading" -> MaxWire - acc[w].wire
    [] pc[w] = "calling" -> MaxWire + 1
    [] pc[w] = "ask"     -> MaxWire + 2
    [] OTHER             -> MaxWire + 3

StepsLeft(w) == (MaxWire + 4) * CallsAfter(w) + Place(w)

\* An Explain makes at most 3 * (Retries + 1) calls, and none after a call that the
\* interrupt of the run found under way.
CallsAreBounded ==
  [][\A w \in Workers :
       /\ CallsAfter(w) \in 0..(3 * Retries + 2)
       /\ pc[w] # "idle" /\ pc'[w] # "idle" =>
            /\ CallsAfter(w)' <= CallsAfter(w)
            /\ InACall(w) /\ ~ InACall(w)' => CallsAfter(w)' < CallsAfter(w) /\ ~ cancelled]_vars

\* Each step of a worker ends its Explain or leaves it less to do, whatever the server sends,
\* and nobody else's step gives it more.
ExplainAdvances ==
  [][\A w \in Workers : pc[w] # "idle" =>
       /\ Step(w) => pc'[w] = "idle" \/ (StepsLeft(w)' \in Nat /\ StepsLeft(w)' < StepsLeft(w))
       /\ ~ Step(w) => pc'[w] = pc[w] /\ StepsLeft(w)' = StepsLeft(w)]_vars

\* The call is over and another follows: the run goes on, and a retry or a capability is gone.
Again(w) ==
  /\ ~ cancelled /\ pc'[w] \in {"sleep", "ask"}
  /\ \/ opts'[w] = opts[w] /\ tries'[w] = tries[w] + 1
     \/ /\ tries'[w] = 0
        /\ \/ opts[w].stream /\ ~ opts'[w].stream /\ opts'[w].json = opts[w].json
           \/ opts[w].json /\ ~ opts'[w].json /\ opts'[w].stream = opts[w].stream

OverOrAgain(w) == pc'[w] = "idle" \/ Again(w)

LEMMA ReturnIsOver ==
  ASSUME TypeOK, NEW w \in Workers, NEW r, Return(w, r)
  PROVE  OverOrAgain(w)
BY DEF TypeOK, Return, OverOrAgain

LEMMA FailIsOver ==
  ASSUME TypeOK, NEW w \in Workers, NEW err, NEW saved, CallFails(w, err, saved)
  PROVE  OverOrAgain(w)
<1>0. /\ opts \in [Workers -> Opts] /\ opts[w] \in Opts
      /\ pc \in [Workers -> {"idle", "json", "ask", "calling", "reading", "sleep"}]
      /\ tries \in [Workers -> 0..Retries]
  BY DEF TypeOK
<1>1. ASSUME NEW r, Return(w, r) PROVE OverOrAgain(w)
  BY <1>1, ReturnIsOver
<1>2. CASE /\ ~ cancelled
           /\ tries' = [tries EXCEPT ![w] = @ + 1]
           /\ pc' = [pc EXCEPT ![w] = "sleep"]
           /\ UNCHANGED opts
  BY <1>0, <1>2 DEF OverOrAgain, Again
<1>3. CASE /\ ~ cancelled
           /\ Downgrade(w)
           /\ tries' = [tries EXCEPT ![w] = 0]
           /\ pc' = [pc EXCEPT ![w] = "ask"]
  <2>1. pc'[w] = "ask" /\ tries'[w] = 0
    BY <1>0, <1>3
  <2>2. CASE opts[w].stream /\ opts' = [opts EXCEPT ![w].stream = FALSE]
    <3>1. ~ opts'[w].stream /\ opts'[w].json = opts[w].json
      BY <1>0, <2>2 DEF Opts
    <3> QED
      BY <1>3, <2>1, <2>2, <3>1 DEF OverOrAgain, Again
  <2>3. CASE opts[w].json /\ opts' = [opts EXCEPT ![w].json = FALSE]
    <3>1. ~ opts'[w].json /\ opts'[w].stream = opts[w].stream
      BY <1>0, <2>3 DEF Opts
    <3> QED
      BY <1>3, <2>1, <2>3, <3>1 DEF OverOrAgain, Again
  <2> QED
    BY <1>3, <2>2, <2>3 DEF Downgrade, DropStream, DropJson
<1> QED
  BY <1>1, <1>2, <1>3 DEF CallFails, GiveUp

LEMMA DeliverIsOver ==
  ASSUME TypeOK, NEW w \in Workers, NEW r, Deliver(w, r)
  PROVE  OverOrAgain(w)
BY ReturnIsOver, FailIsOver DEF Deliver

LEMMA CutIsOver ==
  ASSUME TypeOK, NEW w \in Workers, NEW a, NEW err, Cut(w, a, err)
  PROVE  OverOrAgain(w)
BY DeliverIsOver, FailIsOver DEF Cut

LEMMA CleanIsOver ==
  ASSUME TypeOK, NEW w \in Workers, NEW a, Clean(w, a)
  PROVE  OverOrAgain(w)
BY DeliverIsOver, CutIsOver DEF Clean

\* What a worker's step does to the place of its Explain.
Moves(w, from, to) == pc[w] = from /\ pc'[w] = to /\ tries'[w] = tries[w]

LEMMA StepOfAnExplain ==
  ASSUME TypeOK, NEW w \in Workers, Step(w)
  PROVE  \/ pc'[w] = "idle"
         \/ InACall(w) /\ Again(w)
         \/ Moves(w, "json", "ask")
         \/ /\ opts'[w] = opts[w]
            /\ \/ Moves(w, "sleep", "ask") \/ Moves(w, "ask", "calling")
               \/ Moves(w, "calling", "reading") /\ acc'[w] = acc[w]
               \/ Moves(w, "reading", "reading") /\ acc'[w].wire = acc[w].wire + 1
<1>0. /\ pc \in [Workers -> {"idle", "json", "ask", "calling", "reading", "sleep"}]
      /\ acc \in [Workers -> Received] /\ acc[w] \in Received
  BY DEF TypeOK
<1>1. CASE ReadJsonMode(w)
  BY <1>0, <1>1 DEF ReadJsonMode, Moves
<1>2. CASE Ask(w)
  BY <1>0, <1>2 DEF Ask, Moves
<1>3. CASE SleepEnds(w)
  BY <1>0, <1>3, ReturnEnds DEF SleepEnds, Moves
<1>4. CASE CallRefused(w)
  BY <1>4, FailIsOver DEF CallRefused, InACall, OverOrAgain
<1>5. CASE BodyArrives(w)
  BY <1>5, DeliverIsOver DEF BodyArrives, InACall, OverOrAgain
<1>6. CASE StreamOpens(w)
  BY <1>0, <1>6 DEF StreamOpens, Moves
<1>7. CASE Chunk(w)
  <2>1. pc[w] = "reading"
    BY <1>7 DEF Chunk
  <2>2. PICK piece \in Pieces(acc[w]) : acc' = [acc EXCEPT ![w] = Taken(w, piece)]
    BY <1>7 DEF Chunk
  <2>4. UNCHANGED <<pc, opts, tries>>
    BY <1>7 DEF Chunk
  <2>3. Taken(w, piece).wire = acc[w].wire + 1
    BY <1>0 DEF Taken, Written, Received
  <2> QED
    BY <1>0, <2>1, <2>2, <2>3, <2>4 DEF Moves
<1>8. CASE StreamEnds(w)
  BY <1>8, StreamEndsSomehow, CleanIsOver, CutIsOver DEF StreamEnds, InACall, OverOrAgain
<1> QED
  BY <1>1, <1>2, <1>3, <1>4, <1>5, <1>6, <1>7, <1>8 DEF Step

\* The numbers of an Explain.
Counted ==
  \A w \in Workers :
    /\ Downgrades(w) \in 0..2 /\ tries[w] \in 0..Retries
    /\ CallsAfter(w) = Downgrades(w) * (Retries + 1) + (Retries - tries[w])
    /\ CallsAfter(w) \in 0..(3 * Retries + 2)
    /\ Place(w) \in 0..(MaxWire + 3) /\ acc[w].wire \in 0..MaxWire
    /\ StepsLeft(w) = (MaxWire + 4) * CallsAfter(w) + Place(w)
    /\ StepsLeft(w) \in Nat

LEMMA CallsCounted == TypeOK => Counted
<1> SUFFICES ASSUME TypeOK, NEW w \in Workers
             PROVE  /\ Downgrades(w) \in 0..2 /\ tries[w] \in 0..Retries
                    /\ CallsAfter(w) = Downgrades(w) * (Retries + 1) + (Retries - tries[w])
                    /\ CallsAfter(w) \in 0..(3 * Retries + 2)
                    /\ Place(w) \in 0..(MaxWire + 3) /\ acc[w].wire \in 0..MaxWire
                    /\ StepsLeft(w) = (MaxWire + 4) * CallsAfter(w) + Place(w)
                    /\ StepsLeft(w) \in Nat
  BY DEF Counted
<1>1. Downgrades(w) \in 0..2
  BY DEF Downgrades, One
<1>2. tries[w] \in 0..Retries /\ Retries \in Nat
  BY RetriesAssumption DEF TypeOK
<1>3. acc[w].wire \in 0..MaxWire /\ MaxWire \in Nat
  <2>1. acc[w] \in Received
    BY DEF TypeOK
  <2> QED
    BY <2>1, BudgetAssumption DEF Received
<1>4. CallsAfter(w) = Downgrades(w) * (Retries + 1) + (Retries - tries[w])
  BY DEF CallsAfter
<1>5. CallsAfter(w) \in 0..(3 * Retries + 2)
  <2>1. Downgrades(w) = 0 \/ Downgrades(w) = 1 \/ Downgrades(w) = 2
    BY <1>1
  <2> QED
    BY <1>2, <1>4, <2>1
<1>6. Place(w) \in 0..(MaxWire + 3)
  <2>1. CASE pc[w] = "reading"
    BY <1>3, <2>1 DEF Place
  <2>2. CASE pc[w] = "calling"
    BY <1>3, <2>2 DEF Place
  <2>3. CASE pc[w] = "ask"
    BY <1>3, <2>3 DEF Place
  <2>4. CASE pc[w] \notin {"reading", "calling", "ask"}
    <3>1. Place(w) = MaxWire + 3
      BY <2>4 DEF Place
    <3> QED
      BY <1>3, <3>1
  <2> QED
    BY <2>1, <2>2, <2>3, <2>4
<1>7. StepsLeft(w) = (MaxWire + 4) * CallsAfter(w) + Place(w) /\ StepsLeft(w) \in Nat
  <2>1. PICK c \in Nat, p \in Nat : c = CallsAfter(w) /\ p = Place(w)
    BY <1>2, <1>3, <1>5, <1>6
  <2>2. (MaxWire + 4) * c + p \in Nat
    BY <1>3
  <2> QED
    BY <2>1, <2>2 DEF StepsLeft
<1> QED
  BY <1>1, <1>2, <1>3, <1>4, <1>5, <1>6, <1>7

\* A call less is worth more than all the steps of the next.
LEMMA CallsWeigh ==
  ASSUME NEW m \in Nat, NEW c \in Nat, NEW d \in Nat, NEW p \in Nat, NEW q \in Nat,
         q <= m + 3, (d < c) \/ (d <= c /\ q < p)
  PROVE  (m + 4) * d + q < (m + 4) * c + p
<1>1. PICK e \in Nat : c = d + e /\ (e > 0 \/ q < p)
  <2>1. c - d \in Nat /\ c = d + (c - d) /\ (c - d > 0 \/ q < p)
    OBVIOUS
  <2> QED
    BY <2>1
<1>2. (m + 4) * c = (m + 4) * d + (m + 4) * e
  BY <1>1
<1>3. (m + 4) * e \in Nat /\ (e > 0 => (m + 4) * e >= m + 4)
  OBVIOUS
<1>4. (m + 4) * d \in Nat /\ (m + 4) * c \in Nat
  OBVIOUS
<1> QED
  BY <1>1, <1>2, <1>3, <1>4

\* A call that is followed by another uses one up.
LEMMA AgainCounts ==
  ASSUME TypeOK, TypeOK', NEW w \in Workers, InACall(w), Again(w)
  PROVE  CallsAfter(w)' < CallsAfter(w)
<1>1. Counted /\ Counted'
  BY CallsCounted, PTL
<1>2. PICK r \in Nat, d \in 0..2, e \in 0..2, t \in 0..Retries, u \in 0..Retries :
        /\ r = Retries /\ d = Downgrades(w) /\ e = Downgrades(w)' /\ t = tries[w] /\ u = tries'[w]
        /\ CallsAfter(w) = d * (r + 1) + (r - t) /\ CallsAfter(w)' = e * (r + 1) + (r - u)
  BY <1>1, RetriesAssumption DEF Counted
<1>3. /\ d = One(opts[w].stream) + One(opts[w].json)
      /\ e = One(opts'[w].stream) + One(opts'[w].json)
  BY <1>2 DEF InACall, Again, Downgrades
<1>4. (e = d /\ u = t + 1) \/ (d = e + 1 /\ u = 0)
  BY <1>2, <1>3 DEF Again, One
<1>5. e * (r + 1) + (r - u) < d * (r + 1) + (r - t)
  <2>1. CASE e = d /\ u = t + 1
    <3>1. d * (r + 1) \in Nat
      OBVIOUS
    <3> QED
      BY <2>1, <3>1
  <2>2. CASE d = e + 1 /\ u = 0
    <3>1. d * (r + 1) = e * (r + 1) + (r + 1) /\ e * (r + 1) \in Nat
      BY <2>2
    <3>2. t \in Nat /\ t <= r
      BY <1>2
    <3> QED
      BY <2>2, <3>1, <3>2
  <2> QED
    BY <1>4, <2>1, <2>2
<1> QED
  BY <1>2, <1>5

\* A step inside a call, or between two, leaves the calls to come and takes the next place.
LEMMA StepsCount ==
  ASSUME TypeOK, TypeOK', NEW w \in Workers, Step(w), pc'[w] # "idle", ~ (InACall(w) /\ Again(w))
  PROVE  /\ CallsAfter(w)' <= CallsAfter(w) /\ Place(w)' < Place(w)
         /\ InACall(w) => InACall(w)'
<1>1. Counted /\ Counted'
  BY CallsCounted, PTL
<1>2. PICK r \in Nat, d \in 0..2, e \in 0..2, t \in 0..Retries :
        /\ r = Retries /\ d = Downgrades(w) /\ e = Downgrades(w)' /\ t = tries[w]
        /\ CallsAfter(w) = d * (r + 1) + (r - t)
        /\ tries'[w] = tries[w] => CallsAfter(w)' = e * (r + 1) + (r - t)
  BY <1>1, RetriesAssumption DEF Counted
<1>3. PICK m \in Nat, x \in 0..MaxWire, y \in 0..MaxWire :
        m = MaxWire /\ x = acc[w].wire /\ y = acc'[w].wire
  BY <1>1, BudgetAssumption DEF Counted
<1>4. e <= d /\ tries'[w] = tries[w] => CallsAfter(w)' <= CallsAfter(w)
  <2>1. (d = 0 \/ d = 1 \/ d = 2) /\ (e = 0 \/ e = 1 \/ e = 2)
    OBVIOUS
  <2> QED
    BY <1>2, <2>1
<1>5. CASE Moves(w, "json", "ask")
  <2>1. d = 2 /\ tries'[w] = tries[w]
    BY <1>2, <1>5 DEF Moves, Downgrades
  <2>2. Place(w) = m + 3 /\ Place(w)' = m + 2
    BY <1>3, <1>5 DEF Moves, Place
  <2> QED
    BY <1>4, <1>5, <2>1, <2>2 DEF Moves, InACall
<1>6. CASE opts'[w] = opts[w] /\ pc[w] \notin {"idle", "json"} /\ pc'[w] \notin {"idle", "json"}
           /\ tries'[w] = tries[w]
  <2>1. e = d
    BY <1>2, <1>6 DEF Downgrades
  <2>2. CallsAfter(w)' <= CallsAfter(w)
    BY <1>4, <1>6, <2>1
  <2>3. CASE Moves(w, "sleep", "ask")
    <3>1. Place(w) = m + 3 /\ Place(w)' = m + 2
      BY <1>3, <2>3 DEF Moves, Place
    <3> QED
      BY <2>2, <2>3, <3>1 DEF Moves, InACall
  <2>4. CASE Moves(w, "ask", "calling")
    <3>1. Place(w) = m + 2 /\ Place(w)' = m + 1
      BY <1>3, <2>4 DEF Moves, Place
    <3> QED
      BY <2>2, <2>4, <3>1 DEF Moves, InACall
  <2>5. CASE Moves(w, "calling", "reading") /\ acc'[w] = acc[w]
    <3>1. Place(w) = m + 1 /\ Place(w)' = m - y
      BY <1>3, <2>5 DEF Moves, Place
    <3> QED
      BY <2>2, <2>5, <3>1 DEF Moves, InACall
  <2>6. CASE Moves(w, "reading", "reading") /\ acc'[w].wire = acc[w].wire + 1
    <3>1. Place(w) = m - x /\ Place(w)' = m - y /\ y = x + 1
      BY <1>3, <2>6 DEF Moves, Place
    <3> QED
      BY <2>2, <2>6, <3>1 DEF Moves, InACall
  <2> QED
    BY <1>6, <2>3, <2>4, <2>5, <2>6, StepOfAnExplain DEF Moves
<1> QED
  BY <1>5, <1>6, StepOfAnExplain DEF Moves

\* What anybody else does leaves an Explain as it is.
LEMMA OthersLeave ==
  ASSUME CallInv, [Next]_vars, NEW w \in Workers, pc[w] # "idle", ~ Step(w)
  PROVE  pc'[w] = pc[w] /\ opts'[w] = opts[w] /\ tries'[w] = tries[w] /\ acc'[w] = acc[w]
<1>1. ASSUME NEW v \in Workers, Start(v) \/ MaskFails(v)
      PROVE  pc'[w] = pc[w] /\ opts'[w] = opts[w] /\ tries'[w] = tries[w] /\ acc'[w] = acc[w]
  BY <1>1 DEF CallInv, TypeOK, Start, MaskFails
<1>2. ASSUME NEW v \in Workers, Step(v)
      PROVE  pc'[w] = pc[w] /\ opts'[w] = opts[w] /\ tries'[w] = tries[w] /\ acc'[w] = acc[w]
  BY <1>2, StepOfACall DEF Ends, OthersRest
<1>3. CASE Cancel \/ UNCHANGED vars
  BY <1>3 DEF Cancel, vars, workerVars
<1> QED
  BY <1>1, <1>2, <1>3 DEF Next

CountsDown ==
  \A w \in Workers :
    /\ CallsAfter(w) \in 0..(3 * Retries + 2)
    /\ pc[w] # "idle" /\ pc'[w] # "idle" =>
         /\ CallsAfter(w)' <= CallsAfter(w)
         /\ InACall(w) /\ ~ InACall(w)' => CallsAfter(w)' < CallsAfter(w) /\ ~ cancelled

LEMMA StepsCountDown == CallInv /\ CallInv' /\ [Next]_vars => CountsDown
<1> SUFFICES ASSUME CallInv, CallInv', [Next]_vars, NEW w \in Workers
             PROVE  /\ CallsAfter(w) \in 0..(3 * Retries + 2)
                    /\ pc[w] # "idle" /\ pc'[w] # "idle" =>
                         /\ CallsAfter(w)' <= CallsAfter(w)
                         /\ InACall(w) /\ ~ InACall(w)' => CallsAfter(w)' < CallsAfter(w) /\ ~ cancelled
  BY DEF CountsDown
<1>1. TypeOK /\ TypeOK'
  BY DEF CallInv
<1>2. Counted /\ Counted'
  BY <1>1, CallsCounted, PTL
<1>3. CallsAfter(w) \in 0..(3 * Retries + 2) /\ CallsAfter(w) \in Int /\ CallsAfter(w)' \in Int
  BY <1>2, RetriesAssumption DEF Counted
<1>4. CASE pc[w] # "idle" /\ pc'[w] # "idle" /\ Step(w)
  <2>1. CASE InACall(w) /\ Again(w)
    <3>1. CallsAfter(w)' < CallsAfter(w)
      BY <1>1, <2>1, AgainCounts
    <3> QED
      BY <1>3, <2>1, <3>1 DEF Again
  <2>2. CASE ~ (InACall(w) /\ Again(w))
    BY <1>1, <1>3, <1>4, <2>2, StepsCount
  <2> QED
    BY <2>1, <2>2
<1>5. CASE pc[w] # "idle" /\ ~ Step(w)
  <2>1. CallsAfter(w)' = CallsAfter(w) /\ InACall(w)' = InACall(w)
    BY <1>5, OthersLeave DEF CallsAfter, Downgrades, InACall
  <2> QED
    BY <1>3, <2>1
<1> QED
  BY <1>3, <1>4, <1>5

\* attempt and Explain, whatever the server answers: an Explain makes at most
\* 3 * (Retries + 1) calls, and an interrupt found during a call lets none follow it.
THEOREM CallsAreAlwaysBounded == Spec => CallsAreBounded
<1>1. CallInv /\ CallInv' /\ [Next]_vars => [CountsDown]_vars
  BY StepsCountDown
<1> QED
  BY CallInit, CallInductive, <1>1, PTL DEF Spec, CallsAreBounded, CountsDown

Advances ==
  \A w \in Workers : pc[w] # "idle" =>
    /\ Step(w) => pc'[w] = "idle" \/ (StepsLeft(w)' \in Nat /\ StepsLeft(w)' < StepsLeft(w))
    /\ ~ Step(w) => pc'[w] = pc[w] /\ StepsLeft(w)' = StepsLeft(w)

LEMMA StepsAdvance == CallInv /\ CallInv' /\ [Next]_vars => Advances
<1> SUFFICES ASSUME CallInv, CallInv', [Next]_vars, NEW w \in Workers, pc[w] # "idle"
             PROVE  /\ Step(w) => pc'[w] = "idle"
                                  \/ (StepsLeft(w)' \in Nat /\ StepsLeft(w)' < StepsLeft(w))
                    /\ ~ Step(w) => pc'[w] = pc[w] /\ StepsLeft(w)' = StepsLeft(w)
  BY DEF Advances
<1>1. TypeOK /\ TypeOK'
  BY DEF CallInv
<1>2. Counted /\ Counted'
  BY <1>1, CallsCounted, PTL
<1>3. PICK m \in Nat, c \in Nat, d \in Nat, p \in Nat, q \in Nat :
        /\ m = MaxWire /\ c = CallsAfter(w) /\ d = CallsAfter(w)'
        /\ p = Place(w) /\ q = Place(w)' /\ q <= m + 3
        /\ StepsLeft(w) = (m + 4) * c + p /\ StepsLeft(w)' = (m + 4) * d + q
        /\ StepsLeft(w)' \in Nat
  <2>1. /\ CallsAfter(w) \in Nat /\ CallsAfter(w)' \in Nat
        /\ Place(w) \in Nat /\ Place(w)' \in Nat /\ Place(w)' <= MaxWire + 3 /\ MaxWire \in Nat
    BY <1>2, RetriesAssumption, BudgetAssumption DEF Counted
  <2>2. /\ StepsLeft(w) = (MaxWire + 4) * CallsAfter(w) + Place(w)
        /\ StepsLeft(w)' = (MaxWire + 4) * CallsAfter(w)' + Place(w)'
        /\ StepsLeft(w)' \in Nat
    BY <1>2 DEF Counted
  <2> QED
    BY <2>1, <2>2
<1>4. CASE Step(w) /\ pc'[w] # "idle"
  <2>1. d < c \/ (d <= c /\ q < p)
    BY <1>1, <1>3, <1>4, AgainCounts, StepsCount
  <2>2. (m + 4) * d + q < (m + 4) * c + p
    BY <1>3, <2>1, CallsWeigh
  <2> QED
    BY <1>3, <1>4, <2>2
<1>5. CASE ~ Step(w)
  BY <1>5, OthersLeave DEF StepsLeft, CallsAfter, Downgrades, Place
<1> QED
  BY <1>4, <1>5

\* Every step of a worker ends its Explain or leaves less of it, for any budgets and retries:
\* with a worker that always moves on (a call has a deadline), every Explain returns.
THEOREM ExplainsAlwaysAdvance == Spec => ExplainAdvances
<1>1. CallInv /\ CallInv' /\ [Next]_vars => [Advances]_vars
  BY StepsAdvance
<1> QED
  BY CallInit, CallInductive, <1>1, PTL DEF Spec, ExplainAdvances, Advances

=============================================================================
