# logscry in TLA+

logscry reads log streams, groups their lines into templates, scores the templates, sends
the interesting ones to a language model, and shows the result in a TUI or prints it. This
directory models the parts of it whose correctness depends on who does what first: queues
that drop, answers that come back late, files that are cut short, followers that are stopped
and replaced, a table at its bound, groups that fall due while the pipeline blocks, calls that
are retried and downgraded, and the chain of channel closes that ends a run.

Every definition is translated from the Go source; `PROJECT.json` maps each one to its lines.
Modules check with `tlc -config <Run>.cfg <MC module>`, the proofs with
`tlapm <module>_proofs.tla` for each of the eight `*_proofs` modules (a minute to ten each).

## 1. The system

One process, goroutines joined by channels:

    sources ──lines──▶ coalescer ──▶ pipeline goroutine ──escalations──▶ LLM workers
      │                              │  │  ▲                                │
      │ errs (notices)               │  │  └──────── explanations ──────────┘  (TUI)
      ▼                              │  │                  └──▶ printer        (plain)
     TUI / printer ◀──snapshots/events─┘  └──flag / resolution──▶ export writer ──▶ file

| Component (source) | State | Operations | What makes it correct |
|---|---|---|---|
| Export writer (`internal/export`) | account of half records, queue, maps of waiting halves, file offset, loss counters | Flag, Resolve, WouldEscalate from any goroutine; the writer goroutine; Close | each record has one fate (written once, or counted lost once); the file always parses; Close returns |
| Pipeline goroutine (`internal/pipeline/pipeline.go`) | template table, retained cards, counters, each template's last flag and answer | Process a line, evict at a bound, attach an answer, take a snapshot, shut down | answers find their template, which is never evicted under them; the table is bounded; counters are exact; a card follows its newest flag; the run ends |
| Snapshot collector (`snapshot.go`) | ring of recent lines, cards with context, dirty flag | observe, retain, preceding, snapshot, trySend | the pane shows the last lines, a card the lines before its trigger; the last state arrives |
| Scorer (`internal/score`) | cache with a TTL, rate limiter, novelty and burst windows, escalation queue | decide, emit | a template is flagged at most once per TTL and flags are rationed; a full queue is reported, not waited for |
| LLM pool (`internal/llm/pool.go`) | workers and the request each holds | take, call, partials, final answer, close | one terminal answer per request; partials never replace it |
| LLM backend (`internal/llm`) | two shared flags, each call's mode and what it has received | request, retry, downgrade, read a stream | what cannot succeed is not retried; capabilities go one at a time; an answer is one call's; a torn stream still yields what it said |
| Plain printer, startup, shutdown (`cmd/logscry`) | its three channels | print, drain, return; build and join everything | no goroutine is left waiting |
| TUI model (`internal/tui/model.go`) | current snapshot, pause, selection | wait for a snapshot, apply it, see the end | it learns of the end with the last state |
| Docker source (`internal/ingest/docker.go`) | one follower per container, per-stream marks, the newest event handled | subscribe, list, handle start/die, lose the stream, reconnect; follow a log | each line once, each event once, a restart is followed, a stop completes |
| Other sources and fan-in (`internal/ingest`) | one reader each | read lines until EOF or cancel | the fan-in ends when every source has |
| Background notices (`ingest/notices.go`, `cmd/logscry`) | a bounded channel, a drop count, a stopped flag | Send, Stop | no sender blocks, nothing is sent after the close |
| Coalescer (`pipeline/coalesce.go`) | one buffer per source and stream | append, flush on idle or on the next head line | lines stay in order; output times do not go back in a replay |
| Source names (`pipeline/sources.go`) | a bounded, least-recently-seen list | note | bounded, and the most recent are kept |
| Templating, anonymizer, configuration, rendering | none worth the name | text in, text out | covered by the repository's table tests |

**What is hard here.** (a) A flag's two halves reach the export from two goroutines in either
order, because the request leaves for the model inside `Evaluate`, before the flag is
recorded. (b) Queues at their limit drop, refuse or block depending on the mode, and whatever
was counted must be uncounted exactly once. (c) Answers return in any order, also for
templates re-flagged or about to be evicted. (d) A disk may stop in the middle of a line while
Close waits with two timers. (e) Container events, followers' exits and cancellations
interleave freely, and the event stream itself is lost and replayed. (f) The end of a run is a
chain of closes across six goroutines. (g) The table is trimmed by a bounded walk over templates
that cards, answers and the cache still hold. (h) The coalescer works with an instant it read
before a release blocked. (i) Workers share what each finds out about the server. `hazards` in `PROJECT.json` lists each at its line with
the property that watches it.

## 2. The modules

| Module | Models | Composition |
|---|---|---|
| `ExportWriter` | `export.go`: send, the writer goroutine, the file, Close | |
| `ExportLedger` | what the export promises: every record gets one fate, lines are only appended, the notice is last and claims no more than was lost | refined by `ExportWriter` (`ImplementsLedger`, at its end) |
| `ExportWriter_proofs` | types, the file's shape and growth, the one fate of each record, the loss accounts, a clean close, halves, news of refused halves, replays, the refinement of `ExportLedger` | extends `ExportWriter`, `TLAPS` |
| `FlagPipeline` | pipeline goroutine, scorer's decision and queue, LLM pool, printer, and the shutdown through all of them | composes those four components in one state |
| `FlagPipeline_proofs` | types, counters, cards and their answers, resolutions, no eviction under an answer, how a run ends | extends `FlagPipeline`, `TLAPS` |
| `SnapshotFeed` | ring, cards, context, snapshots, the capacity-1 channel, the TUI that reads it | |
| `TemplateTable` | upsert, `shrink`'s walk, pins and eviction, the signals' gates, the cache with its sweep, the rate limiter | |
| `TemplateTable_proofs` | types, flags are rationed, one flag per TTL, nothing outlives its template, only pins keep the table over, eviction costs no burst | extends `TemplateTable`, `TLAPS` |
| `Coalescer` | both loops of `coalesce.go` | |
| `CoalesceIdeal` | what a replay's coalescer promises: groups released by a timer that is never late | refined by `Coalescer` (`Ideal` in `Coalescer.tla`) |
| `Coalescer_proofs` | types, ordered output times, the refinement of `CoalesceIdeal`, streams keep their lines, the split at the deadline, the live timer | extends `Coalescer`, `TLAPS` |
| `ModelBackend` | `Explain` of every worker: calls, retries, downgrades, streams, what a cut answer leaves | |
| `ModelBackend_proofs` | types, downgrades step by step, only transient failures retried, an answer is one call's, a bounded number of calls | extends `ModelBackend`, `TLAPS` |
| `BackgroundNotices` | everyone who sends on `errs`, Stop and close, `printPlain`'s reading of it | composes `run`'s goroutine, sources, readers, pipeline and printer as far as `errs` goes |
| `Display_proofs` | what reaches the user: no send on `errs` waits or meets a closed channel, everything is printed; the ring and the cards quote the stream, the end is the final state, the screen never goes back; types of both | extends `BackgroundNotices`, `SnapshotFeed`, `TLAPS` |
| `DockerFollowers` | `Lines`, `connect`, `followerSet` and the daemon's events | |
| `DockerFollowers_proofs` | types, each line and each event once, a restart is followed, a run inside a gap is read, stops take on nobody | extends `DockerFollowers`, `TLAPS` |
| `DockerLog` | `followContainer`'s request, the marks, the demuxer, its pipes and readers | one follower of `DockerFollowers` in detail |
| `DockerLog_proofs` | types, each stream read once and in order, a clean end is complete, how a cancelled follower leaves | extends `DockerLog`, `TLAPS` |
| `MC...` | the same on small instances, symmetry, refinement mappings | |

How they meet. `FlagPipeline` records what it hands to the export (`flagSent`, `resolved`);
`EachFlagResolvesOnce` there is the assumption under which `ExportLive` runs (`MaxSends = 1`).
`DockerFollowers` takes a container's log as one stream with distinct stamps, so that a mark is
a line's index; `DockerLog` shows what a mark is when two streams share stamps. `DockerLog`
lets a follower start whenever none runs and be cancelled at any time, which includes every
schedule `DockerFollowers` produces for one container. `TemplateTable` says which templates a walk
takes where `FlagPipeline` allows any set its `Evictable` does: that a template with a card, an
answer on its way or a live cache entry stays (`NothingOutlivesItsTemplate`) is what `Evictable`
assumes; and it gives a time to the expiry and the refusals that are free choices there.
`ModelBackend` is what a worker of `FlagPipeline` does between `Take` and `Reply`, whose outcome
(an answer, a failure, partials before either) is free there. `Coalescer` stands between the
sources and the pipeline, which its releases wait for. `BackgroundNotices` is the `errs` side of
the shutdown whose `lines`, `events` and `explanations` side is in `FlagPipeline`.

### State and actions

*ExportWriter.* `mu` says where the holder of the mutex is inside `send` (a first half and its
bookkeeping are one step when only the mutex's holder can see the difference; a second half is
three, because the writer, `Close` and the counters run between). `pairs` is send's account,
`waiting` the writer's two maps, `abandoned` the news of a refused second half, `in` the
channel. `wpc` walks `run`, `handle`, `write`, `writeTrailer`, `closeFile`; `cpc` walks `Close`
and `await`, whose select may take any ready case. A write may put part of a line in the file,
finish it, fail and roll back, or fail to roll back. `blocking` is `OpenBlocking` against
`Open`. `lost`, `begun`, `counted`, `due` and `lossAtClose` are history for the properties.

*FlagPipeline.* `ppc` is the pipeline goroutine: in its select, recording a flag (after
`Evaluate` has already queued the request), or sending an event. A line is `QuietLine` or
`FlaggedLine`, for any template and any set of evictions the pins allow. `attach` is
`Attach`, the workers' life is `Take`, `Partial`, `Reply`, `SendAnswer`, `StopWorker`, and the
printer's `PrintEvent`, `PrintAnswer`, `PrintFails` and the three closes it sees. `PrintFails`
ends the printer as `failed` and cancels nothing: main exits once the export is closed, under
whatever the other goroutines are doing. The exit is no step, so they may also go on. `mode`
chooses TUI, plain or plain without a model.

*SnapshotFeed.* `Observe` writes the ring slot and retains a card; `Snapshot` builds the view
and clears dirty; `TrySend` drops when the previous one was not taken; `FinalSend` waits or
gives up on cancel; `Receive`, `Apply`, `SeeEnd`, `TogglePause` are the TUI.

*DockerFollowers.* `pc` is `Lines`: about to connect, listing, handling events, closing (the
connection's context is cancelled and its followers are awaited), in the backoff, or ended.
`run` is followerSet's map, `marks` what it stores at an exit. `FollowerExits` stores the mark,
removes the entry and launches the successor in one step, as the code does under one lock.
`history` and `pos` are the daemon's events and how far the subscription has delivered them.

*DockerLog.* `file` is the daemon's log; `cursor` what it has looked at for this follower;
`demux` and `frame` the demuxer; `ahead` the lines a reader has taken from its pipe and not
sent; `mark`, `prev` and `skip` as in the code.

*TemplateTable.* One line is `LineArrives` (upsert: counts, `Recent`, the move to the back, the
cost), then `Skip` and `Evict` while the table is over a bound and the walk's budget lasts, then
`Verdict` (`Quiet`, `Suppressed` or `Flagged`), all at one instant of `clock`. `inFlight` is what the pool
still owes, by hash: like a card and a cache entry it is keyed elsewhere and outlives an eviction,
while `awaiting` goes with the record. A count stops at `CountCap`, past which nothing reads it. A held template is
the line's own, a pinned one, or one that may still burst while half the walk is not spent. A
pattern costs a unit and so does a slot of `Recent`. Whether a window's rate is a large enough
multiple of its half-life-weighted baseline is free once the gates before that comparison pass.
`Mark` sweeps what has expired when the map has doubled; `Refilled` is the limiter's bucket, in
exact fractions of a call.

*Coalescer.* `pc` walks `select`, `flush`, `add`, `arm`, `drain`. `now` is the instant the loop
read on leaving its select; each release (`FlushOne`, `Fold`, `Open`, `DrainOne`) is a step,
since it may block, and `Tick` moves the wall clock on between two of them. `replay` chooses
`CoalesceSourceTime`, whose clock is the latest timestamp seen; timestamps may go back. A line is
one of four kinds, which is all `isContinuation` and `traceStartRe` tell of it.

*ModelBackend.* `pc` is a worker in `Explain`: reading the two flags one after the other, asking,
calling, reading a stream, in the backoff. `acc` is what the call has received, piece by piece:
prose, an opening brace, fields that close, the closing brace, a finish reason. A chunk that
spends the wire's budget (`Spent`) is taken and shown before the stream is cut, as `readSSE` looks
at its budget after it has handled the line. `StreamEnds` is the ways a stream can end; `Cut` and `Clean` decide between an answer, what is salvaged of
it and an error; `CallFails` is `attempt`'s retry, `GiveUp` is `Explain`'s downgrade.

*BackgroundNotices.* `gpc` is `run`'s ingest goroutine through its deferred calls, `spc` a
source, `rpc` its reader (which may outlive it after a cancel), `ppc` the pipeline, `printer`
`printPlain`'s loop with its `eventsNil`, `errsNil` and `answersNil`. Of the two one-time eviction
notices it has the templates': the other is about the list of source names, which `--plain` does
not keep. The locks of `Notices` and
`Truncations` are the states `posting` and `notify` of their holders.

## 3. The runs

| Run | Instance | Shows |
|---|---|---|
| `ExportLive` | 2 keys, queue of 1, live | exact loss, lost never written, the file parses, no half is held for ever, a clean close is complete, and `ExportLedger` is implemented |
| `ExportResend` | 1 key sent twice per half, queue of 1, live and blocking | halves join only within a record; a replay drops nothing; a live Close returns without the disk, and a blocked sender is released (`NobodyWaitsForEver`) |
| `FlagCards` | TUI, 2 templates, 2 workers, 2 flags, streaming, 1 card kept, queue of 1 | counters exact, a card follows its newest flag, a card's text never goes back |
| `FlagShutdown` | all three modes, 1 template, 1 worker, 2 flags, no streaming | an earlier answer survives a failure, one resolution each, and in the end the run ends with every flag resolved (`RunEndsResolved`), or has been interrupted, or stdout has failed |
| `FeedRing` | 3 templates, ring of 3, context of 3, 2 cards, 4 lines, 1 answer | the pane is the last lines and a card's context the lines before its trigger, also once the ring has lapped (`RingQuotesTheStream`); cards are the newest; the end reaches the TUI, with the last state (`EndReachesTheTui`) |
| `DockerFollow` | 1 container, 4 events, 2 lines, tail of 1, 1 failure | each line once and each event once (`NothingTwiceNothingLost`), a restart is followed, a run inside a gap is read, every stop completes |
| `DockerRestart` | 1 container, 4 events | *violated*: see section 4 |
| `DockerRead` | 2 streams, 3 lines, 2 stamps, tail of 2, 3 followers | each stream read once and in order, a clean end is complete, a cancelled follower leaves |
| `Coalesce` | 2 streams, 3 lines, timeout of 2, cap of 3 lines, instants 0..3, live and replay | lines stay whole and in order; a group splits exactly at its deadline, whatever the pipeline blocked meanwhile; a replay is `CoalesceIdeal`; nothing is held for ever |
| `Table` | 3 templates, table of 2 or 5 units, walk of 2, `Recent` of 2, 1 card, TTL of 1, 2 calls per 2 instants, 6 lines, instants 0..2 | what is carded, cached or owed an answer stays in the table; the table goes over only behind pins; one flag per TTL; flags (not the calls each may cost) are rationed; the half of a walk that honours burst holds costs no burst |
| `Backend` | 2 workers, 2 Explains, streaming and JSON mode, 1 retry, budgets of 3 and 5 chunks, 2 fields | only transient failures are retried; capabilities go one at a time; an answer is one call's and keeps what was shown; every Explain returns |
| `Notices` | 1 or 2 sources, live and replay, one room for notices, 2 cuts, 2 posts | no send on `errs` waits or meets a closed channel; a plain run that ends by itself has printed all |

Every module also states its `TypeOK` (`FeedTypeOK` in `SnapshotFeed`, whose names are its own so that
`Display_proofs` can extend it beside `BackgroundNotices`). It is proved for every instance of every
module (section 5), so no run repeats it; add it to a configuration's INVARIANTS to check it.
`LinesStay` (`ExportWriter`), `AnswersFindTheirTemplate` (`FlagPipeline`) and `ReplayIsMonotone`
(`Coalescer`) are in no run because they are proved, and so is `NewsFindsItsHalf` (`ExportWriter`).
`TableAddsUp` (`MCTemplateTable`), the half of which that says the list and the map agree is proved
as `ListAndMapAgree`, can be added in the same way.

**Why these bounds are enough to be interesting.** A queue of one is full after one message, so
refusals, drops and blocked senders happen at once; two keys or two templates are needed for
one record to overtake another and no third adds a new relation, since the code relates records
only through a key. Two flags of one template give every order of two answers. A ring of three
with four lines wraps; a context as long as the ring is what could lap. Four container events
are die, start, die, start: a restart inside a restart. Two stamps over three lines make ties
and crossings; three followers are two cut-offs and an end. Three templates are one more than the
table of two can hold, and five units one less than two full `Recent` rings cost, so either bound
is met alone; a walk of two has a half that honours burst holds and a half that does not; six
lines are what a baseline, a flag and an eviction need. Two streams make two groups due at once,
and one group due while the other's release blocks. A timeout of two with four instants lets a
continuation put a deadline off and the group still be held at the old one; a cap of three is met
by the last line, after a group was kept. What three lines cannot show, a further line of a stream
whose group was released at its cap, is left to `Coalescer_proofs`, which holds for every cap and
any number of lines. Two workers are what can refuse a capability behind another's back, and one retry with two
modes to give up makes every order of retry and downgrade; a body budget of three below a wire
budget of five lets a stream pass either one first. One room beside the one-shots is a notice
channel that fills at the first post. Every bound is a CONSTANT (`Max...`)
used in a guard. After a quit, the containers of `DockerFollowers` stand still: no follower is
waiting for them any more.

Deadlock is not checked in the specifications that end (the run is over, or a bound is
reached); the liveness properties say what must be reached instead. `SnapshotFeed` checks it.
`ExportLive`, `FlagCards`, `Table` and `Notices` use symmetry (keys; templates and workers;
templates; sources) and check no liveness: `CardNeverGoesBack`, `EvictionCostsNoBurst` and the
refinement of `ExportLedger`, which has no fairness, are safety. `TemplateTable` and
`BackgroundNotices` state no fairness at all: what they are checked for is safety.

**Fairness.** Weak fairness for what the Go scheduler runs: a goroutine with something to do
does it. Strong fairness for a case of a select whose other cases may stay ready (`Attach`,
`Return`, `PrintAnswer`, `PrinterReturns` in `FlagPipeline`): Go picks among ready cases at
random, so a case that is ready again and again is taken. None for what the program does not control: the disk, the model's reply beyond its
timeout, lines, the user, a failing stdout, containers, and whoever reads the source's output. So `CloseEnds`
(in `NobodyWaitsForEver`) holds with a disk that never moves again, and
`CancelledFollowerLeaves` with nobody reading. `HeldLinesAreReleased` has the coalescer's
goroutine, its timer and the passing of time fair, and the end of a capture file; a live source
need not ever end or send again. `ExplainReturns` has each worker fair at whatever it waits for,
because a call has a deadline and its stream a budget. `RunEnds` (in `RunEndsResolved`) needs the workers' calls to return, which their timeout gives. The select of
`DockerFollowers` takes its cancelled case (`SeesQuit`), which once ready stays ready.

## 4. Findings

Checked by a run of its own:

- `DockerRestart`: die, start, die before the first follower has left; the successor is not
  marked stopped, so the start that follows is ignored and the container is not followed
  (`docker.go:331`, against `docker.go:297`: "Such a start is not dropped"). For every other
  schedule `SingleRestartIsFollowed` holds: its `stale` names exactly the containers that died
  while a start of theirs was pending. A die and a start replayed from a gap onto a follower the
  list attached leave such a pending start too.

Stated in a module and found by TLC when the statement is added to a configuration:

- `TrailerBoundIsForTheTrailer`, as an INVARIANT of `ExportLive`: `await` may receive
  `trailerDone` before `drained`; the drained case then arms the trailer's two-second timer for
  the final sync (`export.go:439`, against the comment at `export.go:400`).
- `EarlierAnswerSurvives`, in `FlagShutdown` with `Streaming = TRUE`: a streamed partial replaces
  the full answer on a card; if that re-explanation fails, the earlier answer does not survive
  (`pipeline.go:326`, against `logscry_RDI_v1.md:203`).
- `ConsumerSeesLatest`, as a PROPERTY of `FeedRing`: a dropped snapshot has cleared dirty, so on a
  stream that goes quiet the TUI keeps an older state (`pipeline.go:653`, against
  `snapshot.go:333`).
- `CutLinesComeBack`, as an INVARIANT of `DockerRead`: with one stream's mark unset, the next
  follower asks from the other stream's mark, and a line that was read and cut off is not read
  again (`docker.go:452`, against `docker.go:540`). `CleanEndIsComplete` holds for every stream
  that had delivered a line.

One more limit met on the way: if a first attach's tail begins between two lines of one stamp,
the count at the mark does not mean "the first n lines" and one line is delivered twice.
`StreamIsReadOnce` excludes that case by name (`TailSplitsAStamp`). And the limiter's comment
(`ratelimit.go:6`) promises that the process makes no more than `PerMin` calls in a minute, which the
code breaks in two ways. A full bucket and its refill together let up to twice that through in
the minute after a quiet one. And a token is a flag, not a call: the retries and downgrades inside
the flag's one `Explain` are not charged, and there may be up to `3 * (Retries + 1)` calls
(`CallsAreBounded`). `FlagsAreRationed` states what does hold, of the flags alone; no property here
bounds the calls of a minute.

## 5. The proofs

Each theorem holds for every value of the constants that meets the assumptions named with it.
The pattern is the same throughout: a property that is not inductive is joined by what it tacitly
relies on, the conjunction is proved step by step (frame lemmas say which action leaves which
part alone), and the property follows from it.

`ExportWriter_proofs`, from `ExportAssumption` alone (the queue's capacity is a positive natural):

- `TypeCorrect`: `Spec => [](TypeOK /\ FileShape)`. `FileShape` ties the file to the writer's
  variables (offset complete lines, then at most one partial line, and only while `short` or
  after `broken`): without it `offset` could point past the file and a rollback would not be known
  to keep the right lines. `FileEndsOnARecordAlways` follows.
- `LostNeverWrittenAlways`: needs to know where each half of a record can be. `GateInv` says that
  every number in use was given out, that only a record whose second half was accepted has both
  halves with the writer, that the half in `send` is of a record not yet decided and is nowhere
  else, and that the fates exclude each other. Giving up takes the same gate as starting a
  record, which is why every record counted and not begun can be declared lost in one step.
- `LossIsAlwaysExact`: the counters `dropped`, `started` and `queued` are the numbers of records
  lost, begun and counted (`CountInv`). That needs the halves to reach the writer in the order of
  their numbers (`OrderInv`: in the channel, at most one waiting for each key, and in send's
  account), so that a half can only ever meet the one it was counted with. `WholeInv` is all of it.
- `OneLinePerRecordAlways`, `LinesStayAlways`, `CleanCloseIsAlwaysComplete`: from `DeliveryInv`,
  which follows a record from the moment it is begun to its line: which line is the partial one,
  what each writer and close phase has still to do, and that what was queued before a clean close
  has landed by its end.
- `ReplayAlwaysLosesNothing`: a blocking sender is never refused (`ReplayWaits`).
- `NoHalfIsLeftBehind`, when each half is sent at most once (`MaxSends <= 1`): `HalvesInv` says
  that a half waits only for one that can still come. `EachFlagAlwaysResolvesOnce`, below, is what
  justifies that hypothesis in the program.
- `NewsAlwaysFindsItsHalf` (`NewsFindsItsHalf`), for any number of sends: the news that a half was
  refused names a record the writer has the other half of, so taking it off the books never misses.
  `NewsTold` has the time before the news too: from the refusal until `send` has told of it, the
  writer keeps the twin, whatever it handles meanwhile.
- `ImplementsTheLedger`: `Spec => ImplementsLedger`. Initial states map to initial states and
  every step is one of `ExportLedger` or a stutter, under `LedgerInv`.

`FlagPipeline_proofs`, from `PipelineAssumption`:

- `TypesAlwaysHold`.
- `EachFlagAlwaysResolvesOnce`: `TokenInv` says that a flag's request is in at most one place (the
  queue, a worker, the answers on their way), that its terminal answer is the last of its answers
  there, and that all of them name the flag's own template.
- `AnswersAlwaysFindTheirTemplate` and `CountersAreAlwaysExact`: from `Accounts`, by which a template
  with an answer out is in the table, and `awaiting` is the number of them.
- `CardsAlwaysFollowTheNewestFlag` and `CardsNeverGoBack`: a card is pending exactly while the
  answer to its template's newest flag is out (`Cards`), and holds none to a later flag
  (`CardsBehind`). `CardsAreAlwaysApart`: the collector keeps one card for a template.
- `EarlierAnswersAlwaysSurvive`, with `Streaming = FALSE`; with streaming it is false (section 4).
- How a run ends, in three facts that need no fairness. `NoFlagIsEverForgotten`: until the run is
  interrupted, a flag is resolved, about to be resolved as a drop, or its terminal answer is on its
  way (`Kept`). `TheEndHasResolvedAll`: a run that ended by itself has resolved every flag once, from
  `EndInv`, which says what each close has behind it: a worker leaves an empty and closed queue, the
  pool closes its answers behind the last worker, and who reads them stops when all are read.
  `ShutdownNeverSticksAlways` and `ShutdownAlwaysAdvances`: after the end of the lines somebody can
  move until everybody has returned (or stdout has failed and main exits under the rest), and each step but an interrupt and an expiry lowers `Work`, a
  sum of what is queued, called, sent, read and still to close, weighted so that each hand-over
  loses. What `RunEndsResolved` adds is that somebody who can move does, which stays model-checked.
  The sum does not speak of an interrupt while lines are still open: Go's `select` may go on taking
  lines for a while, which is why `Return` has strong fairness. The pool must have a worker for
  this: `Workers # {}` in `PipelineAssumption`, as `llm/pool.go` raises its count to at least 1.

`DockerFollowers_proofs`, from `DockerAssumption`:

- `BothLogsAreReadOnce`: `NothingTwiceNothingLost`. For lines (`LineInv`): a mark is the last line
  delivered, and a follower's stream stands right behind what it has delivered. For events
  (`EventInv`): the mark is the newest event's stamp with the count of that stamp handled, and
  `skip` counts what of a replay was handled before the gap.
- `ARestartIsAlwaysFollowed` (`SingleRestartIsFollowed`): a container's die and start alternate in
  what is yet to be handled, and whoever follows wrongly is still to be told; a running
  container for which nothing pends is followed (`FollowInv`).
- `GapRunsAreAlwaysRead`: `GapInv`, that nothing cuts off the follower of a container that is gone,
  and that once it is out it has read everything.
- `StopsAlwaysOnlyEmpty` (`StopsOnlyEmpty`), the safety half of `EveryStopCompletes`: while a connection
  closes, its followers only leave, and none gets the successor a kept start had promised it;
  `connect` returns when none is left; after a quit `Lines` only goes on to its end, through one
  more connection at the most.
- `TypesAlwaysHold`.

`DockerLog_proofs`, from `DockerLogAssumption`:

- `StreamsAreAlwaysReadOnce` (`StreamIsReadOnce`): a mark is the stamp of the last line delivered
  and a count of that stamp's lines, exact unless the tail splits a stamp. A new follower has
  either delivered nothing yet, and then what it still skips and what it has passed of the mark's
  stamp add up to the mark's count, or it stands past everything delivered and skips nothing
  (`ResumesOf`). What lies between demuxer and reader is in order and complete (`PipeOf`).
- `ACleanEndIsAlwaysComplete` (`CleanEndIsComplete`): a follower nobody cancelled stops only at
  the end of the log, with nothing left on the way (`EndOK`).
- `ACancelledFollowerNeverSticks` and `FollowersAlwaysAdvance`, the safety half of
  `CancelledFollowerLeaves`: the demuxer is never left writing to a reader that has returned, nor a
  reader waiting for a demuxer that has, and each step leaves the follower less to do (`WorkLeft`:
  the lines of the log it may still read, those on their way, and who has yet to return). The bound
  on the first of these is `MaxLog`: a follower of a container that never stops writing may, in the
  model, go on reading until the body's read fails.
- `TypesAlwaysHold`.

`TemplateTable_proofs`, for every number of templates, every bound of the table, TTL and rate,
from `LimiterAssumption`, `CacheAssumption` and `TableAssumption`:

- `FlagsAreRationedAlways`: not inductive alone; `TokensAccounted` says that what the flags since
  any one of them have spent, with what is left in the bucket, is no more than the bucket and what
  has flowed in by the last refill.
- `OneFlagPerTTLAlways`: from `CacheRemembers`: every flag younger than the TTL is still in the
  cache, whatever a sweep took.
- `TypesAlwaysHold`: the types (`Types`), and that no ring nor the cards outgrow their capacity
  (`Bounded`).
- `ListAndMapAgree` and `NothingEverOutlivesItsTemplate`: the table's list and map hold the same
  templates, and what a card, an answer the pool still owes or a live cache entry names is in both.
  For the answers it needs that each template's `awaiting` is what the pool owes it (`Owed`), since
  `pinned` reads the one and the answer comes from the other.
- `OnlyPinsKeepItOver` (`OverOnlyBehindPins`): what the second half of a walk has stepped over is
  at the back of the list, and each of it is pinned or the line's own (`Walked`); a walk that ends
  with the table over has stepped over everything.
- `EvictionNeverCostsABurst`, when `BaselineMinCount < BurstMinCount` and `1 < BurstMinCount`, as in
  the defaults (20 and 25). Configuration does not enforce that order: were the burst's threshold
  no larger, a template one line short of its baseline could burst on its next line while
  `MayBurst` does not yet hold it.

`Coalescer_proofs`, for every set of streams, timeout, cap and course of the capture's times,
from `TimeoutAssumption`, `CapAssumption`, `NeverAssumption` and `BoundAssumption`:

- `TypeCorrect`.
- `ReplayTimesAreOrdered`: `Spec => []ReplayIsMonotone`, the comment's "monotone by construction".
  The heart is `ReplayOrder`: what has happened is never later than the clock nor than the
  deadline of any group still held, and a line is added only when every group held is due after
  it. That needs the order of `flushIdle` (earliest deadline first), and it is why the mutant that
  flushes in map order breaks the refinement.
- `ReplayImplementsIdeal`: every step of a replay is a step of `CoalesceIdeal` or a stutter.
- `StreamsAlwaysKeepTheirLines`: what was sent of a stream, then what is held of it, are its lines
  in order (`LineInv`).
- `AlwaysSplitsAtTheDeadline`: every group sent is at its cap, or a later line of its stream
  followed it, or it had been idle for the timeout (`ClosedInv`).
- `ATimerAlwaysStandsForAGroup` (`TimerStandsForAGroup`): whenever the live loop is in its select, a
  held group has a timer armed, due within the timeout, and an armed timer has a group to release.
  The timer is set from the instant the loop works at, so this needs that the instant is past and
  that no held group is newer (`GroupsArePast`). It is what `HeldLinesAreReleased` rests on
  besides fairness.

`ModelBackend_proofs`, for any number of workers sharing the two flags, any retries and budgets:

- `DowngradesAlwaysStepByStep` and `OnlyTransientIsEverRetried`, from `OnlyLessIsAsked`: what
  failed for good asked for something this Explain no longer asks for.
- `AnAnswerIsAlwaysOneCalls` (`AnswerIsOneCalls`): what has been collected was written by the call
  being read, since every end of a call drops it (`OneCall`).
- `CallsAreAlwaysBounded` and `ExplainsAlwaysAdvance`: an Explain makes at most `3 * (Retries + 1)`
  calls, whatever the server answers and whatever the other workers give up meanwhile, and each
  step a worker takes leaves it less to do (`StepsLeft`: the tries left of this call, those of a call
  for each capability it can still give up, and what the call it is at may still send). An Explain
  works on its own copy of the two flags, so nobody else's step gives it more. With fairness on
  `Step(w)` this is `ExplainReturns`.
- `TypesAlwaysHold`.

`Display_proofs`, on `BackgroundNotices`, for any finite set of sources and any room, from
`SourcesAssumption` and `BoundAssumption`:

- `SendsNeverWaitAlways`. The invariant has what has been waited for at each step of the close
  (`Ordered`), one holder per lock (`Locked`), that whoever sent a one-shot cannot send it again
  (`SentOnce`), and the count that gives the room, `Len(errs) + Pending <= Room +
  Cardinality(sent)` (`RoomLeft`): a poster that has found room keeps it, since only one-shots can
  come in between and each has a slot of its own beside `Room`.
- `EverythingIsAlwaysPrinted`: every one-shot sent is printed or still in `errs`, and a loop that
  stopped reading left `errs` closed and empty (`PrintInv`).
- `TypesAlwaysHold`, which states `dropped <= posts`: a notice on its way is counted as posted and
  not yet as dropped, so drops never outnumber posts.

and on `SnapshotFeed`, for any ring, context, cap, templates and bounds, from `FeedAssumption`:

- `RingAlwaysQuotesTheStream`: `RingOK` says where every line is: the head is the count of lines
  modulo the ring, written as the number of laps so far, and each slot holds the last line whose
  turn it was. From it the stream pane is the newest lines, and a card's context, walked back slot
  by slot, is the lines just before the trigger, without ever lapping round to it.
- `CardsAreAlwaysTheNewest`: `CardsOK` says that a card stands for its template's last escalation,
  that cards are ordered by it, and that the templates left out all escalated before every card
  kept, which happens only when the pane is full. A card replaced by a newer one of its own template
  makes room for itself, one that is pushed out is the oldest.
- `TheEndIsTheFinalState`, the safety half of `EndReachesTheTui`: `SnapsOK` says which snapshot is the
  newest of those on their way; Run's last send is of everything, and nobody replaces it.
- `TheScreenNeverGoesBack`: the snapshots handled, held, and in the channel are in order, none newer
  than what the collector knows, whatever is dropped while the channel is full.
- `FeedTypesAlwaysHold`.

Only model-checked: all liveness and the fairness it rests on (temporal reasoning over ENABLED is
outside these provers), and the byte account in `TableAddsUp`, a sum over the table written as a
fold, whose value for every table is an induction over data that the provers cannot make.

## 6. Not modelled

Text: templating, normalisation, anonymizing (that a payload which cannot be masked is not sent is
modelled), the prompt, the answer's parsing beyond which of its fields closed, JSON encoding,
layout, wording of notices. I/O below a line: bufio, the terminal, HTTP, child processes.
Configuration and the terminal's background query, which run once before anything else. Of the
scorer, the ratio of a window's rate to its weighted baseline, in floating point (a free choice
once its gates pass), and the context sent with a flag. Of the collector, the per-second rate and
the sorted summaries. Of the TUI, selection, scrolling, expanded cards and the list of notices:
state of one goroutine, with no one to interleave with. The list of source names, a smaller
bounded list than the table's. In Docker: the selector, TTY logs (the one-stream case), a log
request that fails while the event stream is up, the pace of the backoff, and the daemon's
256-event buffer, beyond which the repository's own README says events are lost.

Two modules leave time out on purpose: in `FlagPipeline` a cache entry may expire at any moment and
the limiter may refuse any request, and in `ExportWriter` a timer may fire whenever it is armed.
Both allow more than the code does.

## 7. Plan

In order:

1. The TUI's panes across snapshots: the selection, which follows a template by its hash, the
   scroll lock of the stream, and cards that age out while expanded.
2. `DockerLog` with a log request that fails while the event stream is up, and TTY logs.
3. Source names and the context ring, as small modules with their bounds.
4. Proofs: that a follower of `DockerLog`, with the marks as
   line indices, is a follower of `DockerFollowers` when stamps are distinct.
