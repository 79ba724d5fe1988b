-------------------------- MODULE BackgroundNotices --------------------------
(***************************************************************************)
(* What a run has to say besides its lines: the channel errs that          *)
(* cmd/logscry/main.go (backgroundNotices, run) makes, everyone who sends  *)
(* on it, how it is closed, and --plain's loop that reads it.              *)
(*                                                                         *)
(* One-shot sends block: the journald notice, each source's error (ingest. *)
(* Run's report), the first cut line (Truncations), the replay notice.  A  *)
(* source that goes on, and the pipeline at a bound, Post instead, and are *)
(* dropped and counted when there is no room (Notices).  Readers outlive   *)
(* their sources after a cancel; the pipeline outlives the sources.        *)
(***************************************************************************)
EXTENDS Integers, Sequences, FiniteSets

CONSTANTS
  Sources,   \* sources there may be
  None,      \* no source
  Room,      \* noticeRoom
  MaxCuts,   \* bound: lines cut
  MaxPosts   \* bound: notices posted

ASSUME SourcesAssumption == IsFiniteSet(Sources) /\ None \notin Sources
ASSUME BoundAssumption == Room \in Nat /\ MaxCuts \in Nat /\ MaxPosts \in Nat

VARIABLES
  sources, replay, docker,   \* the run's configuration
  cancelled,
  errs, errsOpen, linesOpen,
  gpc,        \* the ingest goroutine: "start", "run", "replay", "stopNotices", "stopCuts",
              \* "closeErrs", "closeLines", "done"
  spc,        \* a source: "running", "posting", "reporting", "done"
  failed,     \* the sources that returned an error
  rpc,        \* its reader: "reading", "record", "notify", "gone"
  cuts, announced,            \* Truncations: lines cut, and done
  noticesDone, dropped,       \* Notices
  ppc,        \* the pipeline: "running", "posting", "closed"
  evicting,   \* Evictions.once has run
  posts,      \* notices posted while they were sent
  printer,    \* --plain's loop: "loop", "pending", "returned", "left"
  eventsNil, errsNil, answersNil,
  sent, printed               \* one-shots sent; everything printed

configVars == <<sources, replay, docker>>
chanVars == <<errs, errsOpen, linesOpen>>
sourceVars == <<spc, failed>>
cutVars == <<rpc, cuts, announced>>
noticeVars == <<noticesDone, dropped, posts>>
pipelineVars == <<ppc, evicting>>
printerVars == <<printer, eventsNil, errsNil, answersNil, printed>>
vars == <<configVars, cancelled, chanVars, gpc, sourceVars, cutVars, noticeVars,
          pipelineVars, printerVars, sent>>

\* What is said, by whom.
Error(s) == [kind |-> "error", of |-> s]
Said(kind) == [kind |-> kind, of |-> None]
OneShots == {Error(s) : s \in Sources} \cup {Said(k) : k \in {"journald", "cut", "replay"}}

\* backgroundNotices
Capacity == Cardinality(sources) + 3 + Room

Init ==
  /\ sources \in (SUBSET Sources) \ {{}}
  /\ replay \in BOOLEAN /\ (replay => Cardinality(sources) = 1)
  /\ docker \in sources \cup {None} /\ (replay => docker = None)
  /\ cancelled = FALSE
  /\ errs = <<>> /\ errsOpen = TRUE /\ linesOpen = TRUE
  /\ gpc = "start"
  /\ spc = [s \in Sources |-> "running"] /\ failed = {}
  /\ rpc = [s \in Sources |-> "reading"] /\ cuts = 0 /\ announced = FALSE
  /\ noticesDone = FALSE /\ dropped = 0 /\ posts = 0
  /\ ppc = "running" /\ evicting = FALSE
  /\ printer = "loop" /\ eventsNil = FALSE /\ errsNil = FALSE /\ answersNil \in BOOLEAN
  /\ replay => answersNil      \* startLLM: no pool in a replay, nor in a dry run
  /\ sent = {} /\ printed = {}

-----------------------------------------------------------------------------
\* A send that waits for room.
HasRoom == Len(errs) < Capacity
Send(m) == HasRoom /\ errs' = Append(errs, m) /\ sent' = sent \cup {m}

\* run: the journald notice goes first, before any goroutine starts.
Launch ==
  /\ gpc = "start"
  /\ \/ ~ replay /\ Send(Said("journald"))
     \/ UNCHANGED <<errs, sent>>
  /\ gpc' = "run"
  /\ UNCHANGED <<configVars, cancelled, errsOpen, linesOpen, sourceVars, cutVars, noticeVars,
                 pipelineVars, printerVars>>

\* A source's Lines returns; its reader has ended, except after a cancel.  An error is
\* reported unless the run was cancelled.
LinesReturn(s) ==
  /\ gpc = "run" /\ spc[s] = "running"
  /\ \/ rpc[s] = "reading" /\ rpc' = [rpc EXCEPT ![s] = "gone"]
     \/ rpc[s] = "gone" /\ UNCHANGED rpc
     \/ cancelled /\ UNCHANGED rpc
  /\ \/ /\ failed' = failed \cup {s}
        /\ spc' = [spc EXCEPT ![s] = IF cancelled THEN "done" ELSE "reporting"]
     \/ spc' = [spc EXCEPT ![s] = "done"] /\ UNCHANGED failed
  /\ UNCHANGED <<configVars, cancelled, chanVars, gpc, cuts, announced, noticeVars,
                 pipelineVars, printerVars, sent>>

Report(s) ==
  /\ spc[s] = "reporting"
  /\ Send(Error(s))
  /\ spc' = [spc EXCEPT ![s] = "done"]
  /\ UNCHANGED <<configVars, cancelled, errsOpen, linesOpen, gpc, failed, cutVars, noticeVars,
                 pipelineVars, printerVars>>

-----------------------------------------------------------------------------
\* Truncations.record: a cut is counted, and the first one announced under the lock.
CutsLocked == \E s \in Sources : rpc[s] = "notify"

CutLine(s) ==
  /\ gpc # "start" /\ rpc[s] = "reading" /\ cuts < MaxCuts
  /\ cuts' = cuts + 1
  /\ rpc' = [rpc EXCEPT ![s] = "record"]
  /\ UNCHANGED <<configVars, cancelled, chanVars, gpc, sourceVars, announced, noticeVars,
                 pipelineVars, printerVars, sent>>

Record(s) ==
  /\ rpc[s] = "record" /\ ~ CutsLocked
  /\ announced' = TRUE
  /\ rpc' = [rpc EXCEPT ![s] = IF announced THEN "reading" ELSE "notify"]
  /\ UNCHANGED <<configVars, cancelled, chanVars, gpc, sourceVars, cuts, noticeVars,
                 pipelineVars, printerVars, sent>>

Announce(s) ==
  /\ rpc[s] = "notify"
  /\ Send(Said("cut"))
  /\ rpc' = [rpc EXCEPT ![s] = "reading"]
  /\ UNCHANGED <<configVars, cancelled, errsOpen, linesOpen, gpc, sourceVars, cuts, announced,
                 noticeVars, pipelineVars, printerVars>>

\* A reader left behind by a cancelled source meets the cancel in its own time.
ReaderLeaves(s) ==
  /\ spc[s] = "done" /\ rpc[s] = "reading"
  /\ rpc' = [rpc EXCEPT ![s] = "gone"]
  /\ UNCHANGED <<configVars, cancelled, chanVars, gpc, sourceVars, cuts, announced, noticeVars,
                 pipelineVars, printerVars, sent>>

-----------------------------------------------------------------------------
\* Notices.Post, under its lock: first the room, then a send that does not wait.
NoticesLocked == ppc = "posting" \/ \E s \in Sources : spc[s] = "posting"

Dropping == Len(errs) >= Room

\* What Post decides before it sends; `goes` is whether it goes on to the send.
Checked(goes) ==
  /\ ~ NoticesLocked /\ posts < MaxPosts
  /\ goes = (~ noticesDone /\ ~ Dropping)
  /\ posts' = IF noticesDone THEN posts ELSE posts + 1
  /\ dropped' = IF ~ noticesDone /\ Dropping THEN dropped + 1 ELSE dropped
  /\ UNCHANGED noticesDone

Posted ==
  /\ IF HasRoom THEN errs' = Append(errs, Said("post")) /\ UNCHANGED dropped
                ELSE dropped' = dropped + 1 /\ UNCHANGED errs
  /\ UNCHANGED <<noticesDone, posts, sent>>

\* The Docker source, losing and regaining its event stream.
SourcePosts(s) ==
  /\ gpc = "run" /\ s = docker
  /\ \/ /\ spc[s] = "running"
        /\ \E goes \in BOOLEAN :
             Checked(goes) /\ spc' = [spc EXCEPT ![s] = IF goes THEN "posting" ELSE @]
        /\ UNCHANGED <<errs, sent>>
     \/ spc[s] = "posting" /\ Posted /\ spc' = [spc EXCEPT ![s] = "running"]
  /\ UNCHANGED <<configVars, cancelled, errsOpen, linesOpen, gpc, failed, cutVars, pipelineVars,
                 printerVars>>

\* The pipeline at its first eviction: it runs until lines is closed, or cancelled.  run makes
\* a second such notice, for the status bar's source names; --plain has no such list.
PipelinePosts ==
  /\ gpc # "start"
  /\ \/ /\ ppc = "running" /\ ~ evicting
        /\ evicting' = TRUE
        /\ \E goes \in BOOLEAN : Checked(goes) /\ ppc' = IF goes THEN "posting" ELSE ppc
        /\ UNCHANGED <<errs, sent>>
     \/ ppc = "posting" /\ Posted /\ ppc' = "running" /\ UNCHANGED evicting
  /\ UNCHANGED <<configVars, cancelled, errsOpen, linesOpen, gpc, sourceVars, cutVars,
                 printerVars>>

PipelineEnds ==
  /\ ppc = "running" /\ (~ linesOpen \/ cancelled)
  /\ ppc' = "closed" /\ UNCHANGED evicting
  /\ UNCHANGED <<configVars, cancelled, chanVars, gpc, sourceVars, cutVars, noticeVars,
                 printerVars, sent>>

-----------------------------------------------------------------------------
\* MUTANT: errs is closed before Truncations.Stop.
AfterMutCloseFirst(step) ==
  CASE step = "stopNotices" -> "closeErrs"
    [] step = "closeErrs"   -> "stopCuts"
    [] step = "stopCuts"    -> "closeLines"
    [] step = "closeLines"  -> "done"

\* run's goroutine: once every source has returned, the replay notice, then the deferred
\* calls, last registered first.
After(step) ==
  CASE step = "stopNotices" -> "stopCuts"
    [] step = "stopCuts"    -> "closeErrs"
    [] step = "closeErrs"   -> "closeLines"
    [] step = "closeLines"  -> "done"

SourcesReturned ==
  /\ gpc = "run" /\ \A s \in sources : spc[s] = "done"
  /\ gpc' = IF failed # {} /\ ~ cancelled THEN "stopNotices" ELSE "replay"
  /\ UNCHANGED <<configVars, cancelled, chanVars, sourceVars, cutVars, noticeVars,
                 pipelineVars, printerVars, sent>>

ReplayNotice ==
  /\ gpc = "replay"
  /\ \/ replay /\ Send(Said("replay"))
     \/ UNCHANGED <<errs, sent>>
  /\ gpc' = "stopNotices"
  /\ UNCHANGED <<configVars, cancelled, errsOpen, linesOpen, sourceVars, cutVars, noticeVars,
                 pipelineVars, printerVars>>

StopNotices ==
  /\ gpc = "stopNotices" /\ ~ NoticesLocked
  /\ noticesDone' = TRUE
  /\ gpc' = After(gpc)
  /\ UNCHANGED <<configVars, cancelled, chanVars, sourceVars, cutVars, dropped, posts, pipelineVars,
                 printerVars, sent>>

StopCuts ==
  /\ gpc = "stopCuts" /\ ~ CutsLocked
  /\ announced' = TRUE
  /\ gpc' = After(gpc)
  /\ UNCHANGED <<configVars, cancelled, chanVars, sourceVars, rpc, cuts, noticeVars,
                 pipelineVars, printerVars, sent>>

Close ==
  /\ \/ gpc = "closeErrs" /\ errsOpen' = FALSE /\ UNCHANGED linesOpen
     \/ gpc = "closeLines" /\ linesOpen' = FALSE /\ UNCHANGED errsOpen
  /\ gpc' = After(gpc)
  /\ UNCHANGED <<configVars, cancelled, errs, sourceVars, cutVars, noticeVars,
                 pipelineVars, printerVars, sent>>

-----------------------------------------------------------------------------
\* printPlain: what it reads from errs, in the select and in printPending.
TakeNotice ==
  /\ errs # <<>>
  /\ printed' = printed \cup {Head(errs)}
  /\ errs' = Tail(errs)

PrintError ==
  /\ printer = "loop" /\ ~ errsNil
  /\ \/ TakeNotice /\ UNCHANGED errsNil
     \/ errs = <<>> /\ ~ errsOpen /\ errsNil' = TRUE /\ UNCHANGED <<errs, printed>>
  /\ UNCHANGED <<configVars, cancelled, errsOpen, linesOpen, gpc, sourceVars, cutVars,
                 noticeVars, pipelineVars, printer, eventsNil, answersNil, sent>>

\* MUTANT: the end of events without printPending.
EventsEndMutNoPending ==
  /\ printer = "loop" /\ ppc = "closed" /\ ~ eventsNil
  /\ eventsNil' = TRUE
  /\ UNCHANGED <<configVars, cancelled, chanVars, gpc, sourceVars, cutVars, noticeVars,
                 pipelineVars, printer, errsNil, answersNil, printed, sent>>

\* events is closed: what is waiting in errs is printed before anything else.
EventsEnd ==
  /\ printer = "loop" /\ ppc = "closed" /\ ~ eventsNil
  /\ eventsNil' = TRUE
  /\ printer' = "pending"
  /\ UNCHANGED <<configVars, cancelled, chanVars, gpc, sourceVars, cutVars, noticeVars,
                 pipelineVars, errsNil, answersNil, printed, sent>>

PrintPending ==
  /\ printer = "pending"
  /\ \/ ~ errsNil /\ TakeNotice /\ UNCHANGED <<printer, errsNil>>
     \/ /\ errsNil \/ errs = <<>>
        /\ errsNil' = (errsNil \/ ~ errsOpen)
        /\ printer' = "loop"
        /\ UNCHANGED <<errs, printed>>
  /\ UNCHANGED <<configVars, cancelled, errsOpen, linesOpen, gpc, sourceVars, cutVars,
                 noticeVars, pipelineVars, eventsNil, answersNil, sent>>

\* The pool closes explanations once the pipeline has closed escalations.
AnswersEnd ==
  /\ printer = "loop" /\ ppc = "closed" /\ ~ answersNil
  /\ answersNil' = TRUE
  /\ UNCHANGED <<configVars, cancelled, chanVars, gpc, sourceVars, cutVars, noticeVars,
                 pipelineVars, printer, eventsNil, errsNil, printed, sent>>

\* The loop's end, or one before it: a cancel, or standard output that cannot be written.
PrinterReturns ==
  /\ printer = "loop"
  /\ \/ eventsNil /\ answersNil /\ printer' = "returned"
     \/ ~ (eventsNil /\ answersNil) /\ printer' = "left"
  /\ UNCHANGED <<configVars, cancelled, chanVars, gpc, sourceVars, cutVars, noticeVars,
                 pipelineVars, eventsNil, errsNil, answersNil, printed, sent>>

Cancel ==
  /\ gpc # "start" /\ ~ cancelled
  /\ cancelled' = TRUE
  /\ UNCHANGED <<configVars, chanVars, gpc, sourceVars, cutVars, noticeVars, pipelineVars, printerVars,
                 sent>>

-----------------------------------------------------------------------------
Source(s) == Report(s) \/ SourcePosts(s)
Reader(s) == Record(s) \/ Announce(s) \/ ReaderLeaves(s)
Ingest == SourcesReturned \/ ReplayNotice \/ StopNotices \/ StopCuts \/ Close
Printer == PrintError \/ EventsEnd \/ PrintPending \/ AnswersEnd \/ PrinterReturns

Next ==
  \/ Launch
  \/ \E s \in sources : LinesReturn(s) \/ CutLine(s) \/ Source(s) \/ Reader(s)
  \/ PipelinePosts \/ PipelineEnds
  \/ Ingest \/ Printer \/ Cancel

Spec == Init /\ [][Next]_vars

-----------------------------------------------------------------------------
TypeOK ==
  /\ sources \subseteq Sources /\ docker \in Sources \cup {None}
  /\ replay \in BOOLEAN /\ cancelled \in BOOLEAN
  /\ errs \in Seq(OneShots \cup {Said("post")}) /\ errsOpen \in BOOLEAN /\ linesOpen \in BOOLEAN
  /\ gpc \in {"start", "run", "replay", "stopNotices", "stopCuts", "closeErrs", "closeLines",
              "done"}
  /\ spc \in [Sources -> {"running", "posting", "reporting", "done"}] /\ failed \subseteq Sources
  /\ rpc \in [Sources -> {"reading", "record", "notify", "gone"}]
  /\ cuts \in 0..MaxCuts /\ announced \in BOOLEAN
  /\ noticesDone \in BOOLEAN /\ posts \in 0..MaxPosts
  /\ dropped \in 0..MaxPosts /\ dropped <= posts
  /\ ppc \in {"running", "posting", "closed"} /\ evicting \in BOOLEAN
  /\ printer \in {"loop", "pending", "returned", "left"}
  /\ eventsNil \in BOOLEAN /\ errsNil \in BOOLEAN /\ answersNil \in BOOLEAN
  /\ sent \subseteq OneShots /\ printed \subseteq OneShots \cup {Said("post")}

\* Someone is at a send on errs.
Sending ==
  \/ gpc \in {"start", "replay"} \/ ppc = "posting"
  \/ \E s \in Sources : spc[s] \in {"reporting", "posting"} \/ rpc[s] = "notify"

\* No send ever waits, although nobody may be reading: the channel has room for every
\* one-shot besides the notices ("so none of those sends ever blocks", backgroundNotices),
\* and it is open, so none panics: a reader and the pipeline may outlive it, but Stop has
\* been waited for (Truncations.Stop, Notices.Stop).
SendsNeverWait == Sending => HasRoom /\ errsOpen

\* A --plain run that ends by itself has printed every source's error and notice, however
\* late they came and whatever its select chose (printPending, #97), and
\* has left no posted notice in errs.
EverythingIsPrinted ==
  printer = "returned" /\ ~ cancelled => sent \subseteq printed /\ errs = <<>>
=============================================================================
