---------------------------- MODULE ModelBackend ----------------------------
(***************************************************************************)
(* The calls to the model (internal/llm/openai_compatible.go with sse.go,  *)
(* parse.go and the anonymizing decorator): what each worker of the pool   *)
(* does in Explain.  Workers share two flags, the capabilities the server  *)
(* has refused; everything else belongs to one Explain.                    *)
(*                                                                         *)
(* The server may answer any request with any status, and a stream with    *)
(* any chunks, cut anywhere.  Abstracted: an answer is prose, or a JSON    *)
(* object whose fields close one after another; a chunk is one of its      *)
(* pieces, and the byte budgets count chunks.                              *)
(***************************************************************************)
EXTENDS Integers, FiniteSets

CONSTANTS
  Workers,
  Stream, JSONMode, Anonymize,  \* Config
  Retries,
  MaxBody,       \* maxBodyBytes, in chunks kept
  MaxWire,       \* maxStreamBytes, in chunks read
  MaxFields,     \* bound: fields of an answer
  MaxExplains    \* bound: requests

ASSUME ConfigAssumption == Stream \in BOOLEAN /\ JSONMode \in BOOLEAN /\ Anonymize \in BOOLEAN
ASSUME RetriesAssumption == Retries \in Nat
ASSUME BudgetAssumption == MaxBody \in Nat /\ MaxWire \in Nat \ {0}
ASSUME BoundAssumption == MaxFields \in Nat \ {0} /\ MaxExplains \in Nat

VARIABLES
  streamOff, jsonOff,
  cancelled,   \* the run's context
  explains,
  pc,          \* "idle", "json", "ask", "calling", "reading", "sleep"
  opts,        \* this Explain's callOpts
  tries,       \* attempt's i
  acc,         \* what this call has received
  sent,        \* the last answer this call gave to OnPartial
  lasting,     \* the opts this Explain has sent and had an error that will not pass
  result,      \* what the last Explain returned
  refused      \* the opts the server has answered with 400 or 422

workerVars == <<pc, opts, tries, acc, sent, lasting, result>>
vars == <<streamOff, jsonOff, cancelled, explains, workerVars, refused>>

Opts == [stream : BOOLEAN, json : BOOLEAN]

\* Why a call fails.  "network" is all that is no status and no stream: an error of the
\* transport, a deadline before the answer began, a body that does not decode.
Failures == {"network", "busy", "denied", "rejected", "empty", "budget", "torn", "limit"}

\* A call of an Explain, told from its other calls.
Call(w) == [opts |-> opts[w], tries |-> tries[w]]
Calls == [opts : Opts, tries : 0..Retries]

\* answer, reasoning and finish, what was read of the wire, and whether the model ended it.
Received ==
  [text : {"none", "prose", "open", "closed"}, fields : 0..MaxFields, thought : BOOLEAN,
   finish : {"none", "stop", "length"}, size : 0..(MaxBody + 1), wire : 0..MaxWire,
   over : BOOLEAN, from : SUBSET Calls, end : {"none", "clean"}]

Fresh ==
  [text |-> "none", fields |-> 0, thought |-> FALSE, finish |-> "none", size |-> 0,
   wire |-> 0, over |-> FALSE, from |-> {}, end |-> "none"]

\* partialExplanation: the object is known to be closed only when a field of it was found.
Closed(a) == a.text = "closed" /\ a.fields > 0

\* What Explain returns: an error, or an answer of some fields, prose or reasoning, which
\* the model finished or not.
Failure(err) ==
  [err |-> err, kind |-> "none", fields |-> 0, truncated |-> FALSE, from |-> {}, whole |-> FALSE]
Answer(kind, a) ==
  [err |-> "none", kind |-> kind, fields |-> a.fields, truncated |-> FALSE, from |-> a.from,
   whole |-> a.end = "clean" \/ Closed(a)]
NoAnswer == Failure("none")
NoOpts == [stream |-> FALSE, json |-> FALSE]

Init ==
  /\ streamOff = FALSE /\ jsonOff = FALSE /\ cancelled = FALSE /\ explains = 0
  /\ pc = [w \in Workers |-> "idle"]
  /\ opts = [w \in Workers |-> NoOpts]
  /\ tries = [w \in Workers |-> 0]
  /\ acc = [w \in Workers |-> Fresh]
  /\ sent = [w \in Workers |-> NoAnswer]
  /\ lasting = [w \in Workers |-> {}]
  /\ result = [w \in Workers |-> NoAnswer]
  /\ refused = {}

-----------------------------------------------------------------------------
\* Explain reads the two flags one after the other; a payload that cannot be masked never
\* gets that far.
Start(w) ==
  /\ pc[w] = "idle" /\ explains < MaxExplains
  /\ explains' = explains + 1
  /\ opts' = [opts EXCEPT ![w].stream = Stream /\ ~ streamOff]
  /\ result' = [result EXCEPT ![w] = NoAnswer]
  /\ pc' = [pc EXCEPT ![w] = "json"]
  /\ UNCHANGED <<streamOff, jsonOff, cancelled, tries, acc, sent, lasting, refused>>

MaskFails(w) ==
  /\ Anonymize
  /\ pc[w] = "idle" /\ explains < MaxExplains
  /\ explains' = explains + 1
  /\ result' = [result EXCEPT ![w] = Failure("mask")]
  /\ UNCHANGED <<streamOff, jsonOff, cancelled, pc, opts, tries, acc, sent, lasting, refused>>

ReadJsonMode(w) ==
  /\ pc[w] = "json"
  /\ opts' = [opts EXCEPT ![w].json = JSONMode /\ ~ jsonOff]
  /\ pc' = [pc EXCEPT ![w] = "ask"]
  /\ UNCHANGED <<streamOff, jsonOff, cancelled, explains, tries, acc, sent, lasting, result, refused>>

\* call: the request leaves.
Ask(w) ==
  /\ pc[w] = "ask"
  /\ pc' = [pc EXCEPT ![w] = "calling"]
  /\ UNCHANGED <<streamOff, jsonOff, cancelled, explains, opts, tries, acc, sent, lasting, result, refused>>

-----------------------------------------------------------------------------
\* Explain returns; nothing of it is left but what it returned and the two flags.
Return(w, r) ==
  /\ result' = [result EXCEPT ![w] = r]
  /\ pc' = [pc EXCEPT ![w] = "idle"]
  /\ opts' = [opts EXCEPT ![w] = NoOpts]
  /\ tries' = [tries EXCEPT ![w] = 0]
  /\ acc' = [acc EXCEPT ![w] = Fresh]
  /\ sent' = [sent EXCEPT ![w] = NoAnswer]
  /\ lasting' = [lasting EXCEPT ![w] = {}]
  /\ UNCHANGED <<streamOff, jsonOff>>

\* What a call collected goes with it: the next one starts from nothing.
KeptMutSpliced(w) == acc[w]
Kept(w) == Fresh

CallOver(w, err) ==
  /\ acc' = [acc EXCEPT ![w] = Kept(w)]
  /\ sent' = [sent EXCEPT ![w] = NoAnswer]
  /\ lasting' = IF err \in {"denied", "rejected", "budget", "limit"}
                THEN [lasting EXCEPT ![w] = @ \cup {opts[w]}] ELSE lasting

TransientMutTorn(err) == err \notin {"denied", "rejected", "budget"}
Transient(err) == err \in {"network", "busy", "empty", "torn"}

Rejects(err) == err = "rejected"

\* Explain, after an attempt that failed: one capability less, streaming first.
DropStreamMutOpts(w) == streamOff' = TRUE /\ UNCHANGED <<opts, jsonOff>>
DropStream(w) ==
  /\ streamOff' = TRUE
  /\ opts' = [opts EXCEPT ![w].stream = FALSE]
  /\ UNCHANGED jsonOff

DropJson(w) ==
  /\ jsonOff' = TRUE
  /\ opts' = [opts EXCEPT ![w].json = FALSE]
  /\ UNCHANGED streamOff

DowngradeMutFlags(w) ==
  \/ opts[w].stream /\ ~ streamOff /\ DropStream(w)
  \/ ~ (opts[w].stream /\ ~ streamOff) /\ opts[w].json /\ DropJson(w)
Downgrade(w) ==
  \/ opts[w].stream /\ DropStream(w)
  \/ ~ opts[w].stream /\ opts[w].json /\ DropJson(w)

GiveUp(w, err) ==
  \/ /\ Rejects(err) /\ Downgrade(w)
     /\ tries' = [tries EXCEPT ![w] = 0]
     /\ pc' = [pc EXCEPT ![w] = "ask"]
     /\ CallOver(w, err)
     /\ UNCHANGED result
  \/ /\ ~ (Rejects(err) /\ (opts[w].stream \/ opts[w].json))
     /\ Return(w, Failure(err))

\* attempt, after a call that failed with something saved or nothing.
Retryable(w, err) == Transient(err) /\ tries[w] < Retries

CallFails(w, err, saved) ==
  \/ cancelled /\ Return(w, Failure("cancelled"))
  \/ /\ ~ cancelled /\ Retryable(w, err)
     /\ tries' = [tries EXCEPT ![w] = @ + 1]
     /\ pc' = [pc EXCEPT ![w] = "sleep"]
     /\ CallOver(w, err)
     /\ UNCHANGED <<streamOff, jsonOff, opts, result>>
  \/ /\ ~ cancelled /\ ~ Retryable(w, err)
     /\ IF saved # NoAnswer THEN Return(w, saved) ELSE GiveUp(w, err)

\* The backoff, and the cancellation that may end it.
SleepEnds(w) ==
  /\ pc[w] = "sleep"
  /\ \/ /\ pc' = [pc EXCEPT ![w] = "ask"]
        /\ UNCHANGED <<streamOff, jsonOff, opts, tries, acc, sent, lasting, result>>
     \/ cancelled /\ Return(w, Failure("cancelled"))
  /\ UNCHANGED <<cancelled, explains, refused>>

-----------------------------------------------------------------------------
\* content: the answer, and failing that the reasoning.
Content(a) ==
  IF a.text # "none" THEN Answer(IF a.fields > 0 THEN "fields" ELSE "prose", a)
  ELSE IF a.finish = "length" THEN Failure("budget")
  ELSE IF a.thought THEN Answer("thought", a)
  ELSE Failure("empty")

Deliver(w, r) ==
  IF r.err = "none"
  THEN Return(w, r)
  ELSE CallFails(w, r.err, NoAnswer)

\* The call fails before an answer begins.
CallRefused(w) ==
  /\ pc[w] = "calling"
  /\ \E err \in {"network", "busy", "denied", "rejected"} :
       /\ CallFails(w, err, NoAnswer)
       /\ refused' = IF Rejects(err) THEN refused \cup {opts[w]} ELSE refused
  /\ UNCHANGED <<cancelled, explains>>

\* A whole answer at once.
Bodies(w) ==
  {b \in [text : {"none", "prose", "closed"}, fields : 0..1, thought : BOOLEAN,
          finish : {"stop", "length"}, size : {0}, wire : {0}, over : {FALSE},
          from : {{Call(w)}}, end : {"clean"}] : b.fields > 0 => b.text = "closed"}

BodyArrives(w) ==
  /\ pc[w] = "calling" /\ ~ opts[w].stream
  /\ \E a \in Bodies(w) : Deliver(w, Content(a))
  /\ UNCHANGED <<cancelled, explains, refused>>

StreamOpens(w) ==
  /\ pc[w] = "calling" /\ opts[w].stream
  /\ pc' = [pc EXCEPT ![w] = "reading"]
  /\ UNCHANGED <<streamOff, jsonOff, cancelled, explains, opts, tries, acc, sent, lasting, result, refused>>

-----------------------------------------------------------------------------
\* consumeStream: what a chunk's delta adds to the answer.
Pieces(a) ==
            (IF a.text = "none" /\ ~ a.thought THEN {"think"} ELSE {})
            \cup (IF a.text = "none" THEN {"prose"} ELSE {})
            \cup (IF a.text \in {"none", "prose"} THEN {"brace"} ELSE {})
            \cup (IF a.text = "open" THEN {"close"} ELSE {})
            \cup (IF a.text = "open" /\ a.fields < MaxFields THEN {"field"} ELSE {})
            \cup (IF a.finish = "none" THEN {"stop", "length"} ELSE {})

Written(w, a, piece) ==
  [a EXCEPT
     !.text = CASE piece = "prose" -> "prose" [] piece = "brace" -> "open"
                [] piece = "close" -> "closed" [] OTHER -> @,
     !.fields = IF piece = "field" THEN @ + 1 ELSE @,
     !.thought = @ \/ piece = "think",
     !.size = IF piece \in {"stop", "length"} THEN @ ELSE @ + 1,
     !.from = @ \cup {Call(w)}]

\* A chunk is read off the wire, its finish_reason noted, and its text kept while the
\* answer is inside its budget.
Taken(w, piece) ==
  LET a == [acc[w] EXCEPT !.wire = @ + 1,
                          !.finish = IF piece \in {"stop", "length"} THEN piece ELSE @]
  IN  IF a.size > MaxBody THEN [a EXCEPT !.over = TRUE] ELSE Written(w, a, piece)

\* salvageable, never a fragment of JSON.
Salvage(a) ==
  LET r == IF a.fields > 0 THEN Answer("fields", a)
           ELSE IF a.text \in {"open", "closed"} THEN NoAnswer
           ELSE Content(a)
  IN  IF r.err = "none" /\ r.kind # "none" THEN [r EXCEPT !.truncated = TRUE] ELSE NoAnswer

\* The stream stops with an error; "limit" is one no retry can help.
Cut(w, a, err) ==
  IF Closed(a) THEN Deliver(w, Content(a)) ELSE CallFails(w, err, Salvage(a))

\* The model has said that it finished.
Clean(w, a) ==
  IF a.over THEN Cut(w, a, "limit") ELSE Deliver(w, Content([a EXCEPT !.end = "clean"]))

Partial(w, a) ==
  IF a.fields > acc[w].fields THEN [sent EXCEPT ![w] = Answer("fields", a)] ELSE sent

\* readSSE looks at its budget after a line was handled: the chunk that spends it is taken,
\* and shown, before the stream is cut.
Spent(a) == a.wire >= MaxWire

Chunk(w) ==
  /\ pc[w] = "reading" /\ ~ Spent(acc[w])
  /\ \E piece \in Pieces(acc[w]) :
       LET a == Taken(w, piece)
       IN  /\ acc' = [acc EXCEPT ![w] = a]
           /\ sent' = Partial(w, a)
  /\ UNCHANGED <<streamOff, jsonOff, cancelled, explains, pc, opts, tries, lasting, result, refused>>

\* The wire's budget, if it is spent; else [DONE]; the end of the body, clean after a
\* finish_reason; an error of the transport, a cancelled run among them; and the deadline
\* of this call.
CleanEOF(a) == a.finish # "none"

StreamEnds(w) ==
  /\ pc[w] = "reading"
  /\ \/ Spent(acc[w]) /\ Cut(w, acc[w], "limit")
     \/ /\ ~ Spent(acc[w])
        /\ \/ Clean(w, acc[w])
           \/ IF CleanEOF(acc[w]) THEN Clean(w, acc[w]) ELSE Cut(w, acc[w], "torn")
           \/ Cut(w, acc[w], "torn")
           \/ Cut(w, acc[w], "limit")
  /\ UNCHANGED <<cancelled, explains, refused>>

Cancel ==
  /\ ~ cancelled
  /\ cancelled' = TRUE
  /\ UNCHANGED <<streamOff, jsonOff, explains, workerVars, refused>>

Step(w) ==
  \/ ReadJsonMode(w) \/ Ask(w) \/ SleepEnds(w)
  \/ CallRefused(w) \/ BodyArrives(w) \/ StreamOpens(w) \/ Chunk(w) \/ StreamEnds(w)

Next ==
  \/ \E w \in Workers : Start(w) \/ MaskFails(w) \/ Step(w)
  \/ Cancel

\* A call has a deadline, and its stream a budget: a worker in Explain always moves on.
Fairness == \A w \in Workers : WF_vars(Step(w))

Spec == Init /\ [][Next]_vars /\ Fairness

-----------------------------------------------------------------------------
Answers ==
  [err : Failures \cup {"none", "mask", "cancelled"}, kind : {"none", "fields", "prose", "thought"},
   fields : 0..MaxFields, truncated : BOOLEAN, from : SUBSET Calls, whole : BOOLEAN]

TypeOK ==
  /\ streamOff \in BOOLEAN /\ jsonOff \in BOOLEAN /\ cancelled \in BOOLEAN
  /\ explains \in 0..MaxExplains
  /\ pc \in [Workers -> {"idle", "json", "ask", "calling", "reading", "sleep"}]
  /\ opts \in [Workers -> Opts] /\ tries \in [Workers -> 0..Retries]
  /\ acc \in [Workers -> Received]
  /\ sent \in [Workers -> Answers] /\ result \in [Workers -> Answers]
  /\ lasting \in [Workers -> SUBSET Opts]
  /\ refused \subseteq Opts

\* A request goes out unchanged only after a failure that time may mend: never after a bad
\* key, our own deadline or budget in mid-stream, a spent token budget or a refusal
\* ("retrying it is how a retry storm starts", Explain's comment).
OnlyTransientIsRetried ==
  \A w \in Workers :
    pc[w] = "calling" => opts[w] \notin lasting[w]

\* Whatever other workers find out meanwhile: a worker gives up on a refusal only once the
\* plainest request was refused, and JSON mode, which parsing relies on, is given up only
\* when a request without streaming was refused too (Explain's order of downgrades).
DowngradesStepByStep ==
  /\ \A w \in Workers : result[w].err = "rejected" => [stream |-> FALSE, json |-> FALSE] \in refused
  /\ jsonOff => [stream |-> FALSE, json |-> TRUE] \in refused
  /\ streamOff => \E o \in refused : o.stream

\* An answer is all of one call, the last, with every field that OnPartial was shown of
\* it; and it is unmarked only if the model finished it, or closed its object
\* (consumeStream, torn, Truncated).
AnswerIsOneCalls ==
  [][\A w \in Workers :
       pc[w] # "idle" /\ pc'[w] = "idle" /\ result'[w].kind # "none" =>
         /\ result'[w].from = {Call(w)}
         /\ sent[w].from = {Call(w)} => result'[w].fields >= sent[w].fields
         /\ result'[w].truncated \/ result'[w].whole]_vars

\* Every Explain returns: retries and downgrades are bounded, and a cancelled run is left
\* at the next failure or in mid-backoff.
ExplainReturns == \A w \in Workers : pc[w] # "idle" ~> pc[w] = "idle"
=============================================================================
