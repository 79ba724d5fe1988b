---------------------------- MODULE TemplateTable ----------------------------
(***************************************************************************)
(* The pipeline goroutine's template table at its bound                    *)
(* (internal/pipeline/pipeline.go: upsert, shrink, pinned, evict), with    *)
(* the scorer's gates a line passes (internal/score: Evaluate, decide, the *)
(* explanation cache and the rate limiter), which decide what is pinned.   *)
(*                                                                         *)
(* One line is a few steps, all at one instant: upsert, a walk of the      *)
(* least recently seen templates while the table is over a bound, then the *)
(* verdict.  Abstracted: a pattern costs one unit and so does a slot of    *)
(* Recent; a count stops at CountCap, past which nothing reads it; whether *)
(* a window's rate is a multiple of the baseline is free (the two gates    *)
(* before that comparison are not); tokens are counted in 1/Minute of a    *)
(* token, exactly.  The mode is the TUI's, in which answers are routed     *)
(* back to the table (pinned's p.routed).                                  *)
(***************************************************************************)
EXTENDS Integers, Sequences, FiniteSets

CONSTANTS
  Hashes,        \* templates there are
  MaxTemplates,  \* the bound on their number ...
  MaxBytes,      \* ... and on what they cost
  Walk,          \* evictionWalk
  RecentCap,     \* slots of Template.Recent
  CardsKept,     \* escalationsKept
  BaselineMinAge, BaselineMinCount, BurstWindow, BurstMinCount, Cooloff, Warmup, WarmupLines,
  TTL,           \* the explanation cache's
  MinSweep,      \* minSweep
  PerMin, Minute,\* the limiter's calls per minute, and a minute in instants
  MaxTime,       \* bound: instants
  MaxLines       \* bound: lines

ASSUME TableAssumption ==
  /\ IsFiniteSet(Hashes)
  /\ MaxTemplates \in Nat \ {0} /\ MaxBytes \in Nat /\ Walk \in 1..MaxTemplates
  /\ RecentCap \in Nat \ {0} /\ CardsKept \in Nat \ {0}
ASSUME ScoreAssumption ==
  /\ BaselineMinAge \in Nat /\ BaselineMinCount \in Nat /\ Cooloff \in Nat
  /\ BurstWindow \in Nat \ {0} /\ BurstMinCount \in Nat
  /\ Warmup \in Nat /\ WarmupLines \in Nat
ASSUME CacheAssumption == TTL \in Nat /\ MinSweep \in Nat \ {0}
ASSUME LimiterAssumption == PerMin \in Nat /\ Minute \in Nat \ {0}
ASSUME BoundAssumption == MaxTime \in Nat /\ MaxLines \in Nat

VARIABLES
  clock,
  pc,        \* "idle", or where the line in hand is: "shrink", "score"
  line,      \* its template and its severity
  gap,       \* how long its template had been unseen (-1: it is new)
  skips,     \* held templates this walk stepped over
  table,     \* the templates held, by hash (count 0: not in the table)
  order,     \* their hashes, least recently seen first
  bytes,
  inFlight,  \* answers the pool still owes, by hash: they outlive the template that asked
  cards,     \* the collector's retained escalations, oldest first
  cache,     \* the cache's entries: when each template was last flagged (-1: none)
  sweepAt,
  tokens, last,  \* the limiter
  start, lines,  \* the scorer's warmup (start -1: no line yet)
  flags      \* every flag raised, with its instant

lineVars  == <<pc, line, gap, skips>>
tableVars == <<table, order, bytes>>
scoreVars == <<cache, sweepAt, tokens, last, start, lines>>
vars == <<clock, lineVars, tableVars, inFlight, cards, scoreVars, flags>>

\* A line's severity in hundredths: routine, an ERROR, a fatal.
Severities == {0, 60, 100}
NoveltyWeight == 45
BurstWeight == 100
Threshold == 100

Absent == [count |-> 0, first |-> 0, recent |-> <<>>, flagged |-> FALSE, awaiting |-> 0]

Capacity == PerMin * Minute

Init ==
  /\ clock = 0
  /\ pc = "idle" /\ line = [hash |-> "none", severity |-> 0] /\ gap = -1 /\ skips = 0
  /\ table = [h \in Hashes |-> Absent] /\ order = <<>> /\ bytes = 0
  /\ inFlight = [h \in Hashes |-> 0]
  /\ cards = <<>>
  /\ cache = [h \in Hashes |-> -1] /\ sweepAt = MinSweep
  /\ tokens = Capacity /\ last = 0
  /\ start = -1 /\ lines = 0
  /\ flags = <<>>

Least(a, b) == IF a < b THEN a ELSE b
In(h) == table[h].count > 0
LastSeen(h) == table[h].recent[Len(table[h].recent)]
Holds(s, h) == \E i \in DOMAIN s : s[i] = h
Without(s, h) ==
  IF ~ Holds(s, h) THEN s
  ELSE LET i == CHOOSE i \in DOMAIN s : s[i] = h
       IN  SubSeq(s, 1, i - 1) \o SubSeq(s, i + 1, Len(s))

\* templateBytes
Bytes(t) == 1 + Len(t.recent)

-----------------------------------------------------------------------------
\* pushRecent
Pushed(recent) ==
  IF Len(recent) < RecentCap THEN Append(recent, clock) ELSE Append(Tail(recent), clock)

\* upsert: a new template, or one more occurrence; either way it is the last of order.
Growth(t) == Bytes([t EXCEPT !.recent = Pushed(t.recent)]) - IF t.count = 0 THEN 0 ELSE Bytes(t)

\* A count is compared with 1 (novelty) and with BaselineMinCount (burst, MayBurst).
CountCap == IF BaselineMinCount = 0 THEN 2 ELSE BaselineMinCount + 1

Occurred(h) ==
  [table[h] EXCEPT !.count = Least(@ + 1, CountCap),
                   !.first = IF In(h) THEN @ ELSE clock,
                   !.recent = Pushed(@)]

LineArrives(h, severity) ==
  /\ pc = "idle" /\ lines < MaxLines
  /\ line' = [hash |-> h, severity |-> severity]
  /\ gap' = IF In(h) THEN clock - LastSeen(h) ELSE -1
  /\ table' = [table EXCEPT ![h] = Occurred(h)]
  /\ order' = Append(Without(order, h), h)
  /\ bytes' = bytes + Growth(table[h])
  /\ start' = IF start = -1 THEN clock ELSE start
  /\ lines' = lines + 1
  /\ skips' = 0
  /\ pc' = "shrink"
  /\ UNCHANGED <<clock, inFlight, cards, cache, sweepAt, tokens, last, flags>>

Over == Len(order) > MaxTemplates \/ bytes > MaxBytes

\* Cache.Count > 0
Explained(h) == cache[h] # -1 /\ clock - cache[h] < TTL

Carded(h) == Holds(cards, h)

PinnedMutUnawaited(h) == table[h].flagged /\ (Carded(h) \/ Explained(h))
Pinned(h) ==
  table[h].flagged /\ (table[h].awaiting > 0 \/ Carded(h) \/ Explained(h))

\* score.MayBurst
MayBurstMutOpenWindow(h) ==
  /\ table[h].count >= BaselineMinCount
  /\ clock - table[h].first >= BaselineMinAge
  /\ clock - LastSeen(h) < BurstWindow
MayBurst(h) ==
  /\ table[h].count >= BaselineMinCount
  /\ clock - table[h].first >= BaselineMinAge
  /\ clock - LastSeen(h) <= BurstWindow

HeldMutBurstAlways(h) == h = line.hash \/ Pinned(h) \/ MayBurst(h)
Held(h) == h = line.hash \/ Pinned(h) \/ (skips < Walk \div 2 /\ MayBurst(h))

Walking == pc = "shrink" /\ Over /\ skips < Walk

\* shrink: a held template at the front moves to the back ...
Skip ==
  /\ Walking /\ Held(Head(order))
  /\ order' = Append(Tail(order), Head(order))
  /\ skips' = skips + 1
  /\ UNCHANGED <<clock, pc, line, gap, table, bytes, inFlight, cards, scoreVars, flags>>

\* ... and any other is evicted, with all it owns.  Its card, its cache entry and the
\* answers on their way to it are keyed by its hash elsewhere, and stay.
Evict ==
  /\ Walking /\ ~ Held(Head(order))
  /\ table' = [table EXCEPT ![Head(order)] = Absent]
  /\ order' = Tail(order)
  /\ bytes' = bytes - Bytes(table[Head(order)])
  /\ UNCHANGED <<clock, lineVars, inFlight, cards, scoreVars, flags>>

ShrinkDone ==
  /\ pc = "shrink" /\ ~ Walking
  /\ pc' = "score"
  /\ UNCHANGED <<clock, line, gap, skips, tableVars, inFlight, cards, scoreVars, flags>>

-----------------------------------------------------------------------------
\* warmedUp, novelty
WarmedUp == clock - start >= Warmup /\ lines > WarmupLines
Novel == WarmedUp /\ (table[line.hash].count = 1 \/ gap > Cooloff)

\* burst: a baseline, and enough occurrences in the window.  The rest is a ratio.
InWindow(t) == Cardinality({i \in DOMAIN t.recent : t.recent[i] >= clock - BurstWindow})
CanBurst(t) ==
  /\ t.count >= BaselineMinCount /\ clock - t.first >= BaselineMinAge /\ clock > t.first
  /\ InWindow(t) >= BurstMinCount

Score(burst) ==
  line.severity + (IF Novel THEN NoveltyWeight ELSE 0) + (IF burst THEN BurstWeight ELSE 0)

\* Cache.Mark, which sweeps what has expired when the map has doubled.
Entries(c) == {h \in Hashes : c[h] # -1}
SweptMutAll(c) == [h \in Hashes |-> -1]
Swept(c) == [h \in Hashes |-> IF c[h] # -1 /\ clock - c[h] >= TTL THEN -1 ELSE c[h]]
NextSweep(n) == IF 2 * n > MinSweep THEN 2 * n ELSE MinSweep

Mark(h) ==
  LET marked == [cache EXCEPT ![h] = clock]
  IN  IF Cardinality(Entries(marked)) >= sweepAt
      THEN /\ cache' = Swept(marked)
           /\ sweepAt' = NextSweep(Cardinality(Entries(Swept(marked))))
      ELSE cache' = marked /\ UNCHANGED sweepAt

\* RateLimiter.Allow: the tokens once refilled.
RefilledMutUncapped == tokens + (clock - last) * PerMin
Refilled == Least(Capacity, tokens + (clock - last) * PerMin)

\* decide, below the threshold or already explained.
Quiet(burst) ==
  /\ Score(burst) < Threshold \/ Explained(line.hash)
  /\ UNCHANGED <<table, inFlight, cards, cache, sweepAt, tokens, last, flags>>

Suppressed(burst) ==
  /\ Score(burst) >= Threshold /\ ~ Explained(line.hash)
  /\ Refilled < Minute
  /\ tokens' = Refilled /\ last' = clock
  /\ UNCHANGED <<table, inFlight, cards, cache, sweepAt, flags>>

\* emit reaches the channel or not; flagged and observe follow before the next line.
Retained(h) ==
  LET all == Append(Without(cards, h), h)
  IN  IF Len(all) > CardsKept THEN Tail(all) ELSE all

Flagged(burst, queued) ==
  /\ Score(burst) >= Threshold /\ ~ Explained(line.hash)
  /\ Refilled >= Minute
  /\ tokens' = Refilled - Minute /\ last' = clock
  /\ Mark(line.hash)
  /\ table' = [table EXCEPT ![line.hash].flagged = TRUE,
                            ![line.hash].awaiting = IF queued THEN @ + 1 ELSE @]
  /\ inFlight' = IF queued THEN [inFlight EXCEPT ![line.hash] = @ + 1] ELSE inFlight
  /\ cards' = Retained(line.hash)
  /\ flags' = Append(flags, [hash |-> line.hash, at |-> clock])

Verdict ==
  /\ pc = "score"
  /\ \E burst \in {b \in BOOLEAN : b => CanBurst(table[line.hash])} :
       \/ Quiet(burst)
       \/ Suppressed(burst)
       \/ \E queued \in BOOLEAN : Flagged(burst, queued)
  /\ pc' = "idle"
  /\ line' = [hash |-> "none", severity |-> 0] /\ gap' = -1 /\ skips' = 0
  /\ UNCHANGED <<clock, order, bytes, start, lines>>

\* attach: the answer to a queued flag counts out of the template the table holds by then.
Attach(h) ==
  /\ pc = "idle" /\ inFlight[h] > 0
  /\ inFlight' = [inFlight EXCEPT ![h] = @ - 1]
  /\ table' = IF In(h) THEN [table EXCEPT ![h].awaiting = @ - 1] ELSE table
  /\ UNCHANGED <<clock, lineVars, order, bytes, cards, scoreVars, flags>>

\* One instant serves the whole of a line.
Tick ==
  /\ pc = "idle" /\ clock < MaxTime
  /\ clock' = clock + 1
  /\ UNCHANGED <<lineVars, tableVars, inFlight, cards, scoreVars, flags>>

Next ==
  \/ \E h \in Hashes, s \in Severities : LineArrives(h, s)
  \/ Skip \/ Evict \/ ShrinkDone \/ Verdict
  \/ \E h \in Hashes : Attach(h)
  \/ Tick

Spec == Init /\ [][Next]_vars

-----------------------------------------------------------------------------
Records == [count : 0..CountCap, first : 0..MaxTime, recent : Seq(0..MaxTime),
            flagged : BOOLEAN, awaiting : Int]

Types ==
  /\ clock \in 0..MaxTime
  /\ pc \in {"idle", "shrink", "score"}
  /\ gap \in Int /\ skips \in 0..Walk
  /\ table \in [Hashes -> Records] /\ bytes \in Int
  /\ order \in Seq(Hashes) /\ cards \in Seq(Hashes)
  /\ inFlight \in [Hashes -> Nat]
  /\ cache \in [Hashes -> -1..MaxTime] /\ sweepAt \in Nat \ {0}
  /\ tokens \in 0..Capacity /\ last \in 0..clock
  /\ start \in -1..MaxTime /\ lines \in 0..MaxLines
  /\ flags \in Seq([hash : Hashes, at : 0..MaxTime])

\* No ring is over its capacity, nor the cards over theirs, and no template has more
\* answers counted out than in.
Bounded ==
  /\ \A h \in Hashes : Len(table[h].recent) <= RecentCap /\ table[h].awaiting >= 0
  /\ Len(cards) <= CardsKept

\* Every variable has its type, and the rings, the cards and the counts keep within
\* their bounds.
TypeOK == Types /\ Bounded

\* "Nothing else in the process is keyed by a hash that outlives its template" (evict's
\* comment): a template with a card, an answer on its way or a live cache entry is in the
\* table, whatever the walks evicted, and knows that it was flagged; so attach's early
\* return, for an answer whose template is gone, is never taken.
NothingOutlivesItsTemplate ==
  \A h \in Hashes :
    Carded(h) \/ Explained(h) \/ inFlight[h] > 0 => In(h) /\ table[h].flagged

\* A line leaves the table over a bound only behind pins: the walk that gave up has just
\* moved half a walk of templates to the back that it may never evict.  A template that is
\* merely bursting never keeps the table over ("the bound is the one that protects the
\* process", shrink's comment).
OverOnlyBehindPins ==
  pc = "score" /\ Over =>
    \A i \in DOMAIN order :
      i > Len(order) - (Walk - Walk \div 2) => order[i] = line.hash \/ Pinned(order[i])

\* A template is flagged at most once per TTL, although its entry may be swept, its card
\* may be pushed out and its template evicted in between.
OneFlagPerTTL ==
  \A i, j \in DOMAIN flags :
    i < j /\ flags[i].hash = flags[j].hash => flags[j].at - flags[i].at >= TTL

\* In any window the limiter lets through no more flags than a bucket of PerMin tokens
\* refilled at PerMin a minute holds.  It bounds flags, and is not the promise of
\* RateLimiter's comment ("cannot make more than perMin calls per minute"), which the code
\* breaks twice over: a full bucket and its refill let up to 2 * PerMin flags through in
\* the minute after a quiet one, and the retries and downgrades of a flag's Explain are not
\* charged, so that one flag may cost 3 * (Retries + 1) calls (ModelBackend, CallsAreBounded).
FlagsAreRationed ==
  \A i, j \in DOMAIN flags :
    i <= j => (j - i + 1) * Minute <= Capacity + PerMin * (flags[j].at - flags[i].at)

\* In the half of a walk that honours burst holds, no template is evicted that could have
\* burst on a line at this instant (MayBurst: "evicting tmpl now could cost a burst"), given
\* thresholds like the default ones, where a burst takes more lines than a baseline does.
\* With BurstMinCount <= BaselineMinCount, which the configuration allows, a template one
\* line short of its baseline could burst on that line, and MayBurst does not hold it.
WouldBurst(h) == CanBurst(Occurred(h))

EvictionCostsNoBurst ==
  [][Evict /\ skips < Walk \div 2 => ~ WouldBurst(Head(order))]_vars
=============================================================================
