------------------------ MODULE TemplateTable_proofs ------------------------
(***************************************************************************)
(* Two invariants, for every set of templates and every bound, rate, TTL   *)
(* and threshold.  Inv holds the scorer's two guarantees: flags are        *)
(* rationed, and a template is flagged once per TTL; the table, its walk   *)
(* and its pins have no part in either.  TableInv, on top of it, holds the *)
(* table's: nothing outlives its template, only pins keep the table over a *)
(* bound, and eviction costs no burst.                                     *)
(***************************************************************************)
EXTENDS TemplateTable, FiniteSetTheorems, SequenceTheorems, TLAPS

Flag == [hash : Hashes, at : Nat]

GatesTypeOK ==
  /\ clock \in Nat /\ last \in 0..clock
  /\ tokens \in 0..Capacity
  /\ flags \in Seq(Flag) /\ \A i \in DOMAIN flags : flags[i].at <= clock
  /\ cache \in [Hashes -> Int]
  /\ pc \in {"idle", "shrink", "score"}
  /\ pc # "idle" => line.hash \in Hashes

\* What the flags since any one of them have spent, and what is left, is no more than the
\* bucket held before it and what has flowed in by the last refill.
TokensAccounted ==
  \A i \in DOMAIN flags :
    (Len(flags) - i + 1) * Minute + tokens <= Capacity + PerMin * (last - flags[i].at)

\* The cache remembers every flag that is younger than the TTL, whatever it has swept.
CacheRemembers ==
  \A i \in DOMAIN flags :
    clock - flags[i].at >= TTL \/ cache[flags[i].hash] >= flags[i].at

Inv ==
  /\ GatesTypeOK /\ TokensAccounted /\ CacheRemembers
  /\ FlagsAreRationed /\ OneFlagPerTTL

USE DEF Capacity, Least

-----------------------------------------------------------------------------
LEMMA InitInv == Init => Inv
<1> SUFFICES ASSUME Init PROVE Inv
  OBVIOUS
<1>1. flags = <<>> /\ DOMAIN flags = {} /\ Len(flags) = 0
  BY DEF Init
<1>2. PerMin * Minute \in Nat
  BY LimiterAssumption
<1>3. GatesTypeOK
  BY <1>1, <1>2 DEF Init, GatesTypeOK
<1> QED
  BY <1>1, <1>3 DEF Inv, TokensAccounted, CacheRemembers, FlagsAreRationed, OneFlagPerTTL

\* What a flag already raised holds.
LEMMA FlagTypes ==
  ASSUME GatesTypeOK, NEW i \in DOMAIN flags
  PROVE  /\ flags[i] \in Flag /\ flags[i].hash \in Hashes /\ flags[i].at \in Nat
         /\ flags[i].at <= clock
         /\ i \in Nat /\ Len(flags) \in Nat /\ clock \in Nat /\ last \in Nat
<1>1. flags \in Seq(Flag) /\ clock \in Nat /\ last \in 0..clock /\ flags[i].at <= clock
  BY DEF GatesTypeOK
<1>2. flags[i] \in Flag /\ i \in Nat /\ Len(flags) \in Nat
  BY <1>1
<1>3. flags[i].hash \in Hashes /\ flags[i].at \in Nat
  BY <1>2 DEF Flag
<1> QED
  BY <1>1, <1>2, <1>3

\* A refill adds at most what flowed in since the last, and never overfills the bucket.
LEMMA RefillIsBounded ==
  ASSUME GatesTypeOK
  PROVE  /\ Refilled \in 0..Capacity
         /\ Refilled <= tokens + PerMin * (clock - last)
<1>1. clock - last \in Nat /\ tokens \in Nat /\ PerMin \in Nat /\ PerMin * Minute \in Nat
  BY LimiterAssumption DEF GatesTypeOK
<1>2. (clock - last) * PerMin = PerMin * (clock - last) /\ (clock - last) * PerMin \in Nat
  BY <1>1
<1> QED
  BY <1>1, <1>2 DEF Refilled

\* What is left of a bound once a part is taken away.
LEMMA AtMost ==
  ASSUME NEW a \in Int, NEW b \in Int, NEW c \in Nat, a + c <= b
  PROVE  a <= b
OBVIOUS

\* A call's tokens move from what is left to what was spent.
LEMMA Spending ==
  ASSUME NEW spent \in Int, NEW left \in Int, NEW after \in Int, NEW call \in Int,
         NEW bound \in Int, NEW was \in Int, NEW since \in Int,
         spent + left <= bound + was, after + call <= left + since
  PROVE  spent + call + after <= bound + (was + since)
OBVIOUS

\* What is spent, and what flows in, is a number.
LEMMA Products ==
  ASSUME NEW a \in Int, NEW b \in Int
  PROVE  a * b \in Int
OBVIOUS

\* What has flowed in adds up over two stretches of time.
LEMMA Inflow ==
  ASSUME NEW p \in Nat, NEW a \in Int, NEW b \in Int, NEW c \in Int
  PROVE  p * (c - a) = p * (b - a) + p * (c - b)
OBVIOUS

\* Refilling, with no flag, keeps the account.
LEMMA RefillKeepsAccount ==
  ASSUME Inv, tokens' = Refilled, last' = clock, UNCHANGED <<clock, flags>>
  PROVE  /\ TokensAccounted'
         /\ tokens' \in 0..Capacity /\ last' \in 0..clock'
<1>1. GatesTypeOK
  BY DEF Inv
<1>2. tokens' \in 0..Capacity /\ tokens' <= tokens + PerMin * (clock - last)
  BY <1>1, RefillIsBounded
<1>3. TokensAccounted'
  <2> SUFFICES ASSUME NEW i \in DOMAIN flags
               PROVE  (Len(flags) - i + 1) * Minute + tokens'
                        <= Capacity + PerMin * (clock - flags[i].at)
    BY DEF TokensAccounted
  <2>1. (Len(flags) - i + 1) * Minute + tokens <= Capacity + PerMin * (last - flags[i].at)
    BY DEF Inv, TokensAccounted
  <2> DEFINE spent == (Len(flags) - i + 1) * Minute
             was == PerMin * (last - flags[i].at)
             since == PerMin * (clock - last)
             is == PerMin * (clock - flags[i].at)
             cap == Capacity
  <2>2. flags[i].at \in Nat /\ last \in Nat /\ clock \in Nat /\ i \in Nat /\ Len(flags) \in Nat
    BY <1>1, FlagTypes
  <2>3. is = was + since
    <3>1. PerMin \in Nat /\ flags[i].at \in Int /\ last \in Int /\ clock \in Int
      BY <2>2, LimiterAssumption
    <3> QED
      BY ONLY <3>1, Inflow
  <2>4. spent \in Int /\ was \in Int /\ since \in Int /\ is \in Int /\ cap \in Int
    <3>1. /\ Len(flags) - i + 1 \in Int /\ last - flags[i].at \in Int
          /\ clock - last \in Int /\ clock - flags[i].at \in Int
          /\ Minute \in Int /\ PerMin \in Int
      BY <2>2, LimiterAssumption
    <3>2. spent \in Int
      BY ONLY <3>1, Products
    <3>3. was \in Int
      BY ONLY <3>1, Products
    <3>4. since \in Int
      BY ONLY <3>1, Products
    <3>5. is \in Int
      BY ONLY <3>1, Products
    <3>6. cap \in Int
      BY ONLY <3>1, Products DEF Capacity
    <3> QED
      BY ONLY <3>2, <3>3, <3>4, <3>5, <3>6
  <2>5. tokens \in Int /\ tokens' \in Int /\ tokens' <= tokens + since
    BY <1>1, <1>2, <2>4 DEF GatesTypeOK
  <2>6. spent + tokens <= cap + was
    BY <2>1
  <2> HIDE DEF spent, was, since, is, cap
  <2>7. spent + tokens' <= cap + is
    BY <2>3, <2>4, <2>5, <2>6
  <2> QED
    BY <2>7 DEF spent, is, cap
<1> QED
  BY <1>1, <1>2, <1>3 DEF GatesTypeOK

\* Marking a template forgets no flag younger than the TTL, whatever is swept with it.
LEMMA MarkRemembers ==
  ASSUME Inv, NEW h \in Hashes, Mark(h)
  PROVE  /\ cache' \in [Hashes -> Int]
         /\ \A g \in Hashes : \/ cache'[g] >= cache[g] /\ g # h
                              \/ g = h /\ cache'[g] = clock
                              \/ g # h /\ clock - cache[g] >= TTL
                              \/ g = h /\ TTL = 0
<1> DEFINE marked == [cache EXCEPT ![h] = clock]
<1>1. clock \in Nat /\ cache \in [Hashes -> Int] /\ TTL \in Nat
  BY CacheAssumption DEF Inv, GatesTypeOK
<1>2. marked \in [Hashes -> Int]
  BY <1>1
<1>3. cache' = marked \/ cache' = Swept(marked)
  BY DEF Mark
<1>4. CASE cache' = marked
  BY <1>1, <1>2, <1>4
<1>5. CASE cache' = Swept(marked)
  <2>1. Swept(marked) \in [Hashes -> Int]
    BY <1>1, <1>2 DEF Swept
  <2>2. ASSUME NEW g \in Hashes
        PROVE  \/ cache'[g] = marked[g]
               \/ cache'[g] = -1 /\ clock - marked[g] >= TTL
    BY <1>5, <1>2 DEF Swept
  <2>3. marked[h] = clock /\ \A g \in Hashes : g # h => marked[g] = cache[g]
    BY <1>1
  <2> HIDE DEF marked
  <2>4. ASSUME NEW g \in Hashes
        PROVE  \/ cache'[g] >= cache[g] /\ g # h
               \/ g = h /\ cache'[g] = clock
               \/ g # h /\ clock - cache[g] >= TTL
               \/ g = h /\ TTL = 0
    BY <1>1, <2>2, <2>3
  <2> QED
    BY <1>5, <2>1, <2>4
<1> QED
  BY <1>3, <1>4, <1>5

-----------------------------------------------------------------------------
\* A flag spends one call's tokens.
LEMMA FlagKeepsAccount ==
  ASSUME Inv, pc = "score", NEW burst \in BOOLEAN, NEW queued \in BOOLEAN,
         Flagged(burst, queued), UNCHANGED clock
  PROVE  /\ TokensAccounted' /\ FlagsAreRationed'
         /\ tokens' \in 0..Capacity /\ last' \in 0..clock'
<1> DEFINE new == [hash |-> line.hash, at |-> clock]
           n == Len(flags)
<1>1. GatesTypeOK /\ line.hash \in Hashes
  BY DEF Inv, GatesTypeOK
<1>2. /\ flags \in Seq(Flag) /\ clock \in Nat /\ n \in Nat /\ new \in Flag
      /\ Minute \in Nat /\ PerMin \in Nat /\ PerMin * Minute \in Nat
  BY <1>1, LimiterAssumption DEF GatesTypeOK, Flag
<1>3. /\ flags' = Append(flags, new) /\ Len(flags') = n + 1 /\ DOMAIN flags' = 1..(n + 1)
      /\ \A i \in 1..n : flags'[i] = flags[i]
      /\ flags'[n + 1] = new /\ DOMAIN flags = 1..n
  BY <1>2 DEF Flagged
<1>4. Refilled \in 0..Capacity /\ Refilled <= tokens + PerMin * (clock - last)
  BY <1>1, RefillIsBounded
<1>5. tokens' = Refilled - Minute /\ Refilled >= Minute /\ last' = clock
  BY DEF Flagged
<1>6. tokens' \in 0..Capacity
  BY <1>2, <1>4, <1>5
<1>7. ASSUME NEW i \in 1..n
      PROVE  (n + 1 - i + 1) * Minute + tokens' <= Capacity + PerMin * (clock - flags[i].at)
  <2>1. (n - i + 1) * Minute + tokens <= Capacity + PerMin * (last - flags[i].at)
    BY <1>3 DEF Inv, TokensAccounted
  <2> DEFINE spent == (n - i + 1) * Minute
             was == PerMin * (last - flags[i].at)
             since == PerMin * (clock - last)
             is == PerMin * (clock - flags[i].at)
             cap == Capacity
  <2>2. flags[i].at \in Nat /\ last \in Nat /\ i \in Nat /\ tokens \in Nat
    <3>1. tokens \in Nat
      BY <1>1, <1>2 DEF GatesTypeOK
    <3> QED
      BY <1>1, <1>3, <3>1, FlagTypes
  <2>3. is = was + since
    <3>1. PerMin \in Nat /\ flags[i].at \in Int /\ last \in Int /\ clock \in Int
      BY <1>2, <2>2
    <3> QED
      BY ONLY <3>1, Inflow
  <2>4. spent \in Int /\ was \in Int /\ since \in Int /\ is \in Int /\ cap \in Int
    <3>1. /\ n - i + 1 \in Int /\ last - flags[i].at \in Int
          /\ clock - last \in Int /\ clock - flags[i].at \in Int
          /\ Minute \in Int /\ PerMin \in Int
      BY <1>2, <2>2
    <3>2. spent \in Int
      BY ONLY <3>1, Products
    <3>3. was \in Int
      BY ONLY <3>1, Products
    <3>4. since \in Int
      BY ONLY <3>1, Products
    <3>5. is \in Int
      BY ONLY <3>1, Products
    <3>6. cap \in Int
      BY ONLY <3>1, Products DEF Capacity
    <3> QED
      BY ONLY <3>2, <3>3, <3>4, <3>5, <3>6
  <2>5. (n + 1 - i + 1) * Minute = spent + Minute
    BY <1>2, <2>2
  <2>6. spent + tokens <= cap + was /\ tokens' \in Int /\ tokens' + Minute <= tokens + since
    BY <1>2, <1>4, <1>5, <1>6, <2>1, <2>2
  <2>7. Minute \in Int /\ tokens \in Int /\ tokens' \in Int
    BY <1>2, <2>2, <2>6
  <2> HIDE DEF spent, was, since, is, cap
  <2>8. spent + Minute + tokens' <= cap + (was + since)
    BY <2>4, <2>6, <2>7, Spending
  <2>9. spent + Minute + tokens' <= cap + is
    BY <2>3, <2>8
  <2> QED
    BY <2>5, <2>9 DEF is, cap
<1>8. (n + 1 - (n + 1) + 1) * Minute + tokens' <= Capacity + PerMin * (clock - new.at)
  <2>1. (n + 1 - (n + 1) + 1) * Minute = Minute /\ PerMin * (clock - new.at) = 0
    BY <1>2
  <2> QED
    BY <1>2, <1>4, <1>5, <2>1
<1>9. ASSUME NEW i \in 1..(n + 1)
      PROVE  (n + 1 - i + 1) * Minute + tokens' <= Capacity + PerMin * (clock - flags'[i].at)
  <2> HIDE DEF new
  <2>1. CASE i \in 1..n
    <3>1. flags'[i] = flags[i]
      BY <1>3, <2>1
    <3> QED
      BY <1>7, <2>1, <3>1
  <2>2. CASE i = n + 1
    BY <1>3, <1>8, <2>2
  <2> QED
    BY <1>2, <2>1, <2>2
<1>10. TokensAccounted'
  BY <1>3, <1>5, <1>9 DEF TokensAccounted
<1>11. FlagsAreRationed'
  <2> SUFFICES ASSUME NEW i \in 1..(n + 1), NEW j \in 1..(n + 1), i <= j
               PROVE  (j - i + 1) * Minute
                        <= Capacity + PerMin * (flags'[j].at - flags'[i].at)
    BY <1>3 DEF FlagsAreRationed
  <2>1. CASE j = n + 1
    <3> DEFINE spent == (n + 1 - i + 1) * Minute
               in == Capacity + PerMin * (clock - flags'[i].at)
    <3>1. spent + tokens' <= in
      BY <1>9
    <3>2. spent \in Int /\ in \in Int /\ tokens' \in Nat
      <4>1. flags'[i].at \in Nat
        BY <1>1, <1>2, <1>3, FlagTypes
      <4> QED
        BY <1>2, <1>6, <4>1
    <3> HIDE DEF spent, in
    <3>3. spent <= in
      BY <3>1, <3>2, AtMost
    <3> QED
      BY <1>3, <2>1, <3>3 DEF spent, in
  <2>2. CASE j # n + 1
    <3>1. i \in 1..n /\ j \in 1..n
      BY <1>2, <2>2
    <3> QED
      BY <1>3, <3>1 DEF Inv, FlagsAreRationed
  <2> QED
    BY <2>1, <2>2
<1> QED
  BY <1>1, <1>5, <1>6, <1>10, <1>11 DEF GatesTypeOK

\* A template that is flagged was not flagged in the last TTL: the cache would know.
LEMMA FlagIsRemembered ==
  ASSUME Inv, pc = "score", NEW burst \in BOOLEAN, NEW queued \in BOOLEAN,
         Flagged(burst, queued), UNCHANGED clock
  PROVE  /\ CacheRemembers' /\ OneFlagPerTTL'
         /\ cache' \in [Hashes -> Int] /\ flags' \in Seq(Flag)
         /\ \A i \in DOMAIN flags' : flags'[i].at <= clock
<1> DEFINE new == [hash |-> line.hash, at |-> clock]
           n == Len(flags)
<1>1. GatesTypeOK /\ line.hash \in Hashes
  BY DEF Inv, GatesTypeOK
<1>2. /\ flags \in Seq(Flag) /\ clock \in Nat /\ n \in Nat /\ new \in Flag /\ TTL \in Nat
      /\ cache \in [Hashes -> Int]
  BY <1>1, CacheAssumption DEF GatesTypeOK, Flag
<1>3. /\ flags' = Append(flags, new) /\ flags' \in Seq(Flag)
      /\ Len(flags') = n + 1 /\ DOMAIN flags' = 1..(n + 1)
      /\ \A i \in 1..n : flags'[i] = flags[i]
      /\ flags'[n + 1] = new /\ DOMAIN flags = 1..n
  BY <1>2 DEF Flagged
<1>4. \A i \in 1..n : flags[i].hash \in Hashes /\ flags[i].at \in Nat /\ flags[i].at <= clock
  BY <1>1, <1>3, FlagTypes
<1>5. Mark(line.hash) /\ ~ Explained(line.hash)
  BY DEF Flagged
<1>6. /\ cache' \in [Hashes -> Int]
      /\ \A g \in Hashes : \/ cache'[g] >= cache[g] /\ g # line.hash
                           \/ g = line.hash /\ cache'[g] = clock
                           \/ g # line.hash /\ clock - cache[g] >= TTL
                           \/ g = line.hash /\ TTL = 0
  BY <1>1, <1>5, MarkRemembers
<1>7. ASSUME NEW i \in 1..n
      PROVE  clock - flags[i].at >= TTL \/ cache[flags[i].hash] >= flags[i].at
  BY <1>3 DEF Inv, CacheRemembers
<1>8. ASSUME NEW i \in 1..n
      PROVE  clock - flags[i].at >= TTL \/ cache'[flags[i].hash] >= flags[i].at
  <2> DEFINE g == flags[i].hash
  <2>1. /\ g \in Hashes /\ flags[i].at \in Nat /\ flags[i].at <= clock
        /\ cache[g] \in Int /\ cache'[g] \in Int
    BY <1>2, <1>4, <1>6
  <2>2. clock \in Int /\ TTL \in Nat
    BY <1>2
  <2>3. CASE g = line.hash
    BY <1>6, <2>1, <2>2, <2>3
  <2>4. CASE g # line.hash
    <3>1. cache'[g] >= cache[g] \/ clock - cache[g] >= TTL
      BY <1>6, <2>1, <2>4
    <3>2. clock - flags[i].at >= TTL \/ cache[g] >= flags[i].at
      BY <1>7
    <3> HIDE DEF g
    <3>3. clock - flags[i].at >= TTL \/ cache'[g] >= flags[i].at
      BY <2>1, <2>2, <3>1, <3>2
    <3> QED
      BY <3>3 DEF g
  <2> QED
    BY <2>3, <2>4
<1>9. TTL = 0 \/ cache'[line.hash] = clock
  BY <1>1, <1>6
<1>10. CacheRemembers'
  <2> SUFFICES ASSUME NEW i \in 1..(n + 1)
               PROVE  clock - flags'[i].at >= TTL \/ cache'[flags'[i].hash] >= flags'[i].at
    BY <1>3 DEF CacheRemembers
  <2>1. CASE i \in 1..n
    BY <1>3, <1>8, <2>1
  <2>2. CASE i = n + 1
    BY <1>2, <1>3, <1>9, <2>2
  <2> QED
    BY <1>2, <2>1, <2>2
<1>11. ASSUME NEW i \in 1..n, flags[i].hash = line.hash
       PROVE  clock - flags[i].at >= TTL
  <2>1. cache[line.hash] = -1 \/ clock - cache[line.hash] >= TTL
    BY <1>1, <1>2, <1>5 DEF Explained
  <2> QED
    BY <1>1, <1>2, <1>4, <1>7, <1>11, <2>1
<1>12. OneFlagPerTTL'
  <2> SUFFICES ASSUME NEW i \in 1..(n + 1), NEW j \in 1..(n + 1),
                      i < j, flags'[i].hash = flags'[j].hash
               PROVE  flags'[j].at - flags'[i].at >= TTL
    BY <1>3 DEF OneFlagPerTTL
  <2>1. i \in 1..n
    BY <1>2
  <2>2. CASE j = n + 1
    BY <1>3, <1>11, <2>1, <2>2
  <2>3. CASE j # n + 1
    <3>1. j \in 1..n
      BY <1>2, <2>3
    <3> QED
      BY <1>3, <2>1, <3>1 DEF Inv, OneFlagPerTTL
  <2> QED
    BY <2>2, <2>3
<1> QED
  BY <1>2, <1>3, <1>4, <1>6, <1>10, <1>12

-----------------------------------------------------------------------------
\* A step that raises no flag and touches neither cache nor limiter keeps the invariant,
\* whatever the time.
LEMMA OtherStep ==
  ASSUME Inv, UNCHANGED <<cache, tokens, last, flags>>,
         clock' \in Nat, clock' >= clock,
         pc' \in {"idle", "shrink", "score"}, pc' # "idle" => line'.hash \in Hashes
  PROVE  Inv'
<1>1. GatesTypeOK'
  <2>1. \A i \in DOMAIN flags : flags[i].at \in Nat /\ flags[i].at <= clock /\ clock \in Nat
    BY FlagTypes DEF Inv
  <2>2. \A i \in DOMAIN flags : flags[i].at <= clock'
    BY <2>1
  <2>3. last \in 0..clock'
    BY DEF Inv, GatesTypeOK
  <2> QED
    BY <2>2, <2>3 DEF Inv, GatesTypeOK, Flag
<1>2. CacheRemembers'
  <2> SUFFICES ASSUME NEW i \in DOMAIN flags
               PROVE  clock' - flags[i].at >= TTL \/ cache[flags[i].hash] >= flags[i].at
    BY DEF CacheRemembers
  <2>1. flags[i].at \in Nat /\ clock \in Nat /\ TTL \in Nat
    BY CacheAssumption, FlagTypes DEF Inv
  <2> QED
    BY <2>1 DEF Inv, CacheRemembers
<1> QED
  BY <1>1, <1>2 DEF Inv, TokensAccounted, FlagsAreRationed, OneFlagPerTTL

LEMMA Inductive == Inv /\ [Next]_vars => Inv'
<1> SUFFICES ASSUME Inv, [Next]_vars PROVE Inv'
  OBVIOUS
<1>1. GatesTypeOK /\ clock \in Nat
  BY DEF Inv, GatesTypeOK
<1>2. ASSUME NEW h \in Hashes, NEW s \in Severities, LineArrives(h, s) PROVE Inv'
  <2>1. line'.hash = h /\ pc' = "shrink"
    BY <1>2 DEF LineArrives
  <2> QED
    BY <1>1, <1>2, <2>1, OtherStep DEF LineArrives
<1>3. CASE Skip
  BY <1>1, <1>3, OtherStep DEF Skip, Walking, scoreVars, GatesTypeOK
<1>4. CASE Evict
  BY <1>1, <1>4, OtherStep DEF Evict, Walking, lineVars, scoreVars, GatesTypeOK
<1>5. CASE ShrinkDone
  BY <1>1, <1>5, OtherStep DEF ShrinkDone, scoreVars, tableVars, GatesTypeOK
<1>6. ASSUME NEW h \in Hashes, Attach(h) PROVE Inv'
  BY <1>1, <1>6, OtherStep DEF Attach, lineVars, scoreVars, GatesTypeOK
<1>7. CASE Tick
  BY <1>1, <1>7, OtherStep DEF Tick, lineVars, scoreVars, GatesTypeOK
<1>8. CASE Verdict
  <2>1. PICK burst \in BOOLEAN :
          \/ Quiet(burst)
          \/ Suppressed(burst)
          \/ \E queued \in BOOLEAN : Flagged(burst, queued)
    BY <1>8 DEF Verdict
  <2>2. pc = "score" /\ pc' = "idle" /\ clock' = clock
    BY <1>8 DEF Verdict
  <2>3. CASE Quiet(burst)
    BY <1>1, <2>2, <2>3, OtherStep DEF Quiet
  <2>4. CASE Suppressed(burst)
    <3>1. UNCHANGED <<cache, flags>> /\ tokens' = Refilled /\ last' = clock
      BY <2>4 DEF Suppressed
    <3>2. TokensAccounted' /\ tokens' \in 0..Capacity /\ last' \in 0..clock'
      BY <2>2, <3>1, RefillKeepsAccount
    <3>3. GatesTypeOK'
      BY <1>1, <2>2, <3>1, <3>2 DEF GatesTypeOK, Flag
    <3> QED
      BY <2>2, <3>1, <3>2, <3>3 DEF Inv, CacheRemembers, FlagsAreRationed, OneFlagPerTTL
  <2>5. ASSUME NEW queued \in BOOLEAN, Flagged(burst, queued) PROVE Inv'
    <3>1. TokensAccounted' /\ FlagsAreRationed' /\ tokens' \in 0..Capacity /\ last' \in 0..clock'
      BY <2>2, <2>5, FlagKeepsAccount
    <3>2. /\ CacheRemembers' /\ OneFlagPerTTL'
          /\ cache' \in [Hashes -> Int] /\ flags' \in Seq(Flag)
          /\ \A i \in DOMAIN flags' : flags'[i].at <= clock
      BY <2>2, <2>5, FlagIsRemembered
    <3>3. GatesTypeOK'
      BY <1>1, <2>2, <3>1, <3>2 DEF GatesTypeOK, Flag
    <3> QED
      BY <3>1, <3>2, <3>3 DEF Inv
  <2> QED
    BY <2>1, <2>3, <2>4, <2>5
<1>9. CASE UNCHANGED vars
  BY <1>1, <1>9, OtherStep DEF vars, lineVars, scoreVars, GatesTypeOK
<1> QED
  BY <1>2, <1>3, <1>4, <1>5, <1>6, <1>7, <1>8, <1>9 DEF Next

THEOREM InvAlways == Spec => []Inv
BY InitInv, Inductive, PTL DEF Spec

\* What RateLimiter.Allow guarantees, for every rate: however loud the logs, the
\* flags raised (not the calls each may cost) in any time are at most a bucket and its refill.
THEOREM FlagsAreRationedAlways == Spec => []FlagsAreRationed
<1>1. Inv => FlagsAreRationed
  BY DEF Inv
<1> QED
  BY InvAlways, <1>1, PTL

\* Cache.Count and Cache.Mark, sweep included, let a template be flagged once per TTL.
THEOREM OneFlagPerTTLAlways == Spec => []OneFlagPerTTL
<1>1. Inv => OneFlagPerTTL
  BY DEF Inv
<1> QED
  BY InvAlways, <1>1, PTL

-----------------------------------------------------------------------------
\* Lists: what cutting out, appending and rotating leave of a list without repeats.
Apart(s) == \A i, j \in DOMAIN s : s[i] = s[j] => i = j

LEMMA AppendEntries ==
  ASSUME NEW S, NEW s \in Seq(S), NEW e \in S
  PROVE  /\ DOMAIN s \subseteq DOMAIN Append(s, e)
         /\ \A i \in DOMAIN s : Append(s, e)[i] = s[i] /\ i < Len(s) + 1
         /\ Len(s) + 1 \in DOMAIN Append(s, e) /\ Append(s, e)[Len(s) + 1] = e
         /\ \A i \in DOMAIN Append(s, e) : i \in DOMAIN s \/ i = Len(s) + 1
  BY AppendProperties, LenProperties

LEMMA TailEntries ==
  ASSUME NEW S, NEW s \in Seq(S), s # <<>>
  PROVE  /\ 1 \in DOMAIN s /\ s[1] = Head(s)
         /\ DOMAIN s \subseteq Nat /\ DOMAIN Tail(s) \subseteq Nat
         /\ \A i \in DOMAIN Tail(s) : i + 1 \in DOMAIN s /\ Tail(s)[i] = s[i + 1]
         /\ \A i \in DOMAIN s : i = 1 \/ (i - 1 \in DOMAIN Tail(s) /\ Tail(s)[i - 1] = s[i])
<1>1. /\ Len(s) \in Nat /\ DOMAIN s = 1..Len(s) /\ Len(s) # 0
  BY LenProperties, EmptySeq
<1>2. /\ Tail(s) \in Seq(S) /\ Len(Tail(s)) = Len(s) - 1
      /\ \A i \in 1..Len(Tail(s)) : Tail(s)[i] = s[i + 1]
  BY HeadTailProperties
<1>3. DOMAIN Tail(s) = 1..(Len(s) - 1)
  BY <1>2, LenProperties
<1>4. \A i \in DOMAIN s : i = 1 \/ (i - 1 \in DOMAIN Tail(s) /\ Tail(s)[i - 1] = s[i])
  <2> SUFFICES ASSUME NEW i \in DOMAIN s, i # 1
               PROVE  i - 1 \in DOMAIN Tail(s) /\ Tail(s)[i - 1] = s[i]
    OBVIOUS
  <2>1. i \in Nat /\ i - 1 \in 1..(Len(s) - 1) /\ (i - 1) + 1 = i
    BY <1>1
  <2> QED
    BY <2>1, <1>2, <1>3
<1> QED
  BY <1>1, <1>2, <1>3, <1>4

LEMMA CutOut ==
  ASSUME NEW S, NEW s \in Seq(S), NEW i \in 1..Len(s)
  PROVE  LET t == SubSeq(s, 1, i - 1) \o SubSeq(s, i + 1, Len(s))
         IN  /\ t \in Seq(S) /\ Len(t) = Len(s) - 1
             /\ \A j \in 1..(Len(s) - 1) : t[j] = IF j < i THEN s[j] ELSE s[j + 1]
<1> DEFINE a == SubSeq(s, 1, i - 1)
           b == SubSeq(s, i + 1, Len(s))
<1>0. Len(s) \in Nat /\ i \in Nat /\ \A j \in 1..Len(s) : s[j] \in S
  BY LenProperties, ElementOfSeq
<1>1. /\ a \in Seq(S) /\ Len(a) = i - 1
      /\ \A j \in 1..(i - 1) : a[j] = s[j]
  <2>1. \A j \in 1..(i - 1) : s[j] \in S
    BY <1>0
  <2>2. /\ a \in Seq(S) /\ Len(a) = IF 1 <= i - 1 THEN (i - 1) - 1 + 1 ELSE 0
        /\ \A j \in 1..((i - 1) - 1 + 1) : a[j] = s[1 + j - 1]
    BY <1>0, <2>1, SubSeqProperties
  <2> HIDE DEF a
  <2>3. ASSUME NEW j \in 1..(i - 1)  PROVE a[j] = s[j]
    <3>1. j \in 1..((i - 1) - 1 + 1) /\ 1 + j - 1 = j
      BY <1>0
    <3> QED
      BY <2>2, <3>1
  <2> QED
    BY <1>0, <2>2, <2>3
<1>2. /\ b \in Seq(S) /\ Len(b) = Len(s) - i
      /\ \A j \in 1..(Len(s) - i) : b[j] = s[i + j]
  <2>1. \A j \in (i + 1)..Len(s) : s[j] \in S
    BY <1>0
  <2>2. /\ b \in Seq(S) /\ Len(b) = IF i + 1 <= Len(s) THEN Len(s) - (i + 1) + 1 ELSE 0
        /\ \A j \in 1..(Len(s) - (i + 1) + 1) : b[j] = s[(i + 1) + j - 1]
    BY <1>0, <2>1, SubSeqProperties
  <2> HIDE DEF b
  <2>3. ASSUME NEW j \in 1..(Len(s) - i)  PROVE b[j] = s[i + j]
    <3>1. j \in 1..(Len(s) - (i + 1) + 1) /\ (i + 1) + j - 1 = i + j
      BY <1>0
    <3> QED
      BY <2>2, <3>1
  <2> QED
    BY <1>0, <2>2, <2>3
<1> HIDE DEF a, b
<1>3. /\ a \o b \in Seq(S) /\ Len(a \o b) = Len(a) + Len(b)
      /\ \A j \in 1..(Len(a) + Len(b)) : (a \o b)[j] = IF j <= Len(a) THEN a[j] ELSE b[j - Len(a)]
  BY <1>1, <1>2, ConcatProperties
<1>4. ASSUME NEW j \in 1..(Len(s) - 1)
      PROVE  (a \o b)[j] = IF j < i THEN s[j] ELSE s[j + 1]
  <2>1. CASE j < i
    BY <1>0, <1>1, <1>2, <1>3, <2>1
  <2>2. CASE ~(j < i)
    <3>1. j - (i - 1) \in 1..(Len(s) - i) /\ i + (j - (i - 1)) = j + 1 /\ ~(j <= i - 1)
      BY <1>0, <2>2
    <3>2. b[j - (i - 1)] = s[j + 1]
      BY <1>2, <3>1
    <3>3. j \in 1..(Len(a) + Len(b))
      BY <1>0, <1>1, <1>2
    <3> QED
      BY <1>1, <1>3, <2>2, <3>1, <3>2, <3>3
  <2> QED
    BY <2>1, <2>2
<1>5. Len(a \o b) = Len(s) - 1
  BY <1>0, <1>1, <1>2, <1>3
<1> QED
  BY <1>3, <1>4, <1>5 DEF a, b

\* Without cuts out the one place an entry has.
LEMMA WithoutIs ==
  ASSUME NEW S, NEW s \in Seq(S), Apart(s), NEW h
  PROVE  /\ Without(s, h) \in Seq(S) /\ Len(Without(s, h)) <= Len(s) /\ Apart(Without(s, h))
         /\ \A g : Holds(Without(s, h), g) <=> Holds(s, g) /\ g # h
<1>0. Len(s) \in Nat /\ DOMAIN s = 1..Len(s)
  BY LenProperties
<1>1. CASE ~Holds(s, h)
  <2>1. Without(s, h) = s
    BY <1>1 DEF Without
  <2> QED
    BY <1>0, <1>1, <2>1 DEF Holds
<1>2. CASE Holds(s, h)
  <2> DEFINE k == CHOOSE i \in DOMAIN s : s[i] = h
             t == SubSeq(s, 1, k - 1) \o SubSeq(s, k + 1, Len(s))
  <2>1. k \in DOMAIN s /\ s[k] = h
    BY <1>2 DEF Holds
  <2>2. Without(s, h) = t
    BY <1>2 DEF Without
  <2>3. /\ t \in Seq(S) /\ Len(t) = Len(s) - 1
        /\ \A j \in 1..(Len(s) - 1) : t[j] = IF j < k THEN s[j] ELSE s[j + 1]
    <3>1. k \in 1..Len(s)
      BY <1>0, <2>1
    <3> HIDE DEF k
    <3> QED
      BY <1>0, <3>1, CutOut
  <2> HIDE DEF k, t
  <2>4. DOMAIN t = 1..(Len(s) - 1)
    BY <2>3, LenProperties
  <2> DEFINE Was(j) == IF j < k THEN j ELSE j + 1
  <2>5. \A j \in DOMAIN t : Was(j) \in DOMAIN s /\ Was(j) # k /\ t[j] = s[Was(j)] /\ j \in Nat
    BY <1>0, <2>1, <2>3, <2>4
  <2>6. k \in Nat
    BY <1>0, <2>1
  <2>7. Apart(t)
    <3> SUFFICES ASSUME NEW i \in DOMAIN t, NEW j \in DOMAIN t, t[i] = t[j]  PROVE i = j
      BY DEF Apart
    <3>1. s[Was(i)] = s[Was(j)] /\ i \in Nat /\ j \in Nat
      BY <2>5
    <3>2. Was(i) = Was(j)
      BY <2>5, <3>1 DEF Apart
    <3> QED
      BY <2>6, <3>1, <3>2
  <2>8. ASSUME NEW g, Holds(t, g)  PROVE Holds(s, g) /\ g # h
    <3>1. PICK j \in DOMAIN t : t[j] = g
      BY <2>8 DEF Holds
    <3>2. Was(j) \in DOMAIN s /\ Was(j) # k /\ s[Was(j)] = g
      BY <2>5, <3>1
    <3> HIDE DEF Was
    <3> QED
      BY <2>1, <3>2 DEF Holds, Apart
  <2>9. ASSUME NEW g, Holds(s, g), g # h  PROVE Holds(t, g)
    <3>1. PICK i \in DOMAIN s : s[i] = g
      BY <2>9 DEF Holds
    <3>2. i # k
      BY <2>1, <2>9, <3>1
    <3>3. CASE i < k
      <4>1. i \in 1..(Len(s) - 1) /\ t[i] = s[i]
        BY <1>0, <2>1, <2>3, <3>3
      <4> QED
        BY <2>4, <3>1, <4>1 DEF Holds
    <3>4. CASE i > k
      <4>1. i - 1 \in 1..(Len(s) - 1) /\ ~(i - 1 < k) /\ (i - 1) + 1 = i
        BY <1>0, <2>1, <3>4
      <4>2. t[i - 1] = s[i]
        BY <2>3, <4>1
      <4> QED
        BY <2>4, <3>1, <4>1, <4>2 DEF Holds
    <3> QED
      BY <1>0, <2>6, <3>2, <3>3, <3>4
  <2> QED
    BY <1>0, <2>2, <2>3, <2>7, <2>8, <2>9
<1> QED
  BY <1>1, <1>2

LEMMA AppendApart ==
  ASSUME NEW S, NEW s \in Seq(S), Apart(s), NEW h \in S, ~Holds(s, h)
  PROVE  /\ Append(s, h) \in Seq(S) /\ Len(Append(s, h)) = Len(s) + 1 /\ Apart(Append(s, h))
         /\ \A g : Holds(Append(s, h), g) <=> Holds(s, g) \/ g = h
<1> DEFINE t == Append(s, h)
<1>1. t \in Seq(S) /\ Len(t) = Len(s) + 1
  BY AppendProperties
<1>2. /\ DOMAIN s \subseteq DOMAIN t
      /\ \A i \in DOMAIN s : t[i] = s[i]
      /\ Len(s) + 1 \in DOMAIN t /\ t[Len(s) + 1] = h
      /\ \A i \in DOMAIN t : i \in DOMAIN s \/ i = Len(s) + 1
  BY AppendEntries
<1> HIDE DEF t
<1>3. \A i \in DOMAIN s : s[i] # h
  BY DEF Holds
<1>4. Apart(t)
  BY <1>2, <1>3 DEF Apart
<1>5. \A g : Holds(t, g) <=> Holds(s, g) \/ g = h
  BY <1>2 DEF Holds
<1> QED
  BY <1>1, <1>4, <1>5 DEF t

LEMMA TailApart ==
  ASSUME NEW S, NEW s \in Seq(S), Apart(s), s # <<>>
  PROVE  /\ Tail(s) \in Seq(S) /\ Len(Tail(s)) = Len(s) - 1 /\ Apart(Tail(s))
         /\ Head(s) \in S /\ Holds(s, Head(s))
         /\ \A g : Holds(Tail(s), g) <=> Holds(s, g) /\ g # Head(s)
<1> DEFINE t == Tail(s)
<1>1. t \in Seq(S) /\ Len(t) = Len(s) - 1 /\ Head(s) \in S
  BY HeadTailProperties
<1>2. /\ 1 \in DOMAIN s /\ s[1] = Head(s)
      /\ DOMAIN s \subseteq Nat /\ DOMAIN t \subseteq Nat
      /\ \A i \in DOMAIN t : i + 1 \in DOMAIN s /\ t[i] = s[i + 1]
      /\ \A i \in DOMAIN s : i = 1 \/ (i - 1 \in DOMAIN t /\ t[i - 1] = s[i])
  BY TailEntries
<1> HIDE DEF t
<1>3. DOMAIN t = 1..Len(t)
  BY <1>1, LenProperties
<1>4. Apart(t)
  <2> SUFFICES ASSUME NEW i \in DOMAIN t, NEW j \in DOMAIN t, t[i] = t[j]  PROVE i = j
    BY DEF Apart
  <2>1. i + 1 = j + 1 /\ i \in Nat /\ j \in Nat
    BY <1>2 DEF Apart
  <2> QED
    BY <2>1
<1>5. ASSUME NEW g, Holds(t, g)  PROVE Holds(s, g) /\ g # Head(s)
  <2>1. PICK i \in DOMAIN t : t[i] = g
    BY <1>5 DEF Holds
  <2>2. i + 1 \in DOMAIN s /\ s[i + 1] = g /\ i + 1 # 1
    BY <1>2, <1>3, <2>1
  <2> QED
    BY <1>2, <2>2 DEF Holds, Apart
<1>6. ASSUME NEW g, Holds(s, g), g # Head(s)  PROVE Holds(t, g)
  BY <1>2, <1>6 DEF Holds
<1>7. Holds(s, Head(s))
  BY <1>2 DEF Holds
<1> QED
  BY <1>1, <1>4, <1>5, <1>6, <1>7 DEF t

\* A list's front moved to its back is the same entries.
LEMMA RotateApart ==
  ASSUME NEW S, NEW s \in Seq(S), Apart(s), s # <<>>
  PROVE  /\ Append(Tail(s), Head(s)) \in Seq(S) /\ Len(Append(Tail(s), Head(s))) = Len(s)
         /\ Apart(Append(Tail(s), Head(s)))
         /\ \A g : Holds(Append(Tail(s), Head(s)), g) <=> Holds(s, g)
<1>1. /\ Tail(s) \in Seq(S) /\ Len(Tail(s)) = Len(s) - 1 /\ Apart(Tail(s))
      /\ Head(s) \in S /\ Holds(s, Head(s)) /\ ~Holds(Tail(s), Head(s))
      /\ \A g : Holds(Tail(s), g) <=> Holds(s, g) /\ g # Head(s)
  BY TailApart
<1>2. /\ Append(Tail(s), Head(s)) \in Seq(S) /\ Len(Append(Tail(s), Head(s))) = Len(Tail(s)) + 1
      /\ Apart(Append(Tail(s), Head(s)))
      /\ \A g : Holds(Append(Tail(s), Head(s)), g) <=> Holds(Tail(s), g) \/ g = Head(s)
  BY <1>1, AppendApart
<1>3. Len(s) \in Nat
  BY LenProperties
<1> QED
  BY <1>1, <1>2, <1>3

-----------------------------------------------------------------------------
\* The list and the map tell of the same templates, the line's among them while a line is
\* in hand.
Listed ==
  /\ Apart(order)
  /\ \A h \in Hashes : In(h) <=> Holds(order, h)
  /\ pc # "idle" => In(line.hash)

CardsListed == Apart(cards) /\ Len(cards) <= CardsKept

\* A template's ring: its last occurrences in order of time, all of them until it is full
\* or the template has its baseline.
RingOK(t, now) ==
  /\ Len(t.recent) <= RecentCap
  /\ t.count = 0 <=> Len(t.recent) = 0
  /\ \A i, j \in DOMAIN t.recent : i <= j => t.recent[i] <= t.recent[j]
  /\ \A i \in DOMAIN t.recent : t.recent[i] <= now
  /\ t.count <= BaselineMinCount => Len(t.recent) <= t.count
RingsOK == \A h \in Hashes : RingOK(table[h], clock)

\* What a walk stepped over in its second half is at the back of the list, and was held
\* for good; and it gave up only at its end.
Fixed(h) == h = line.hash \/ Pinned(h)
SteppedOver(h) ==
  \E i \in DOMAIN order : i > Len(order) - (skips - Walk \div 2) /\ order[i] = h
Walked ==
  /\ pc # "idle" => \A h \in Hashes : SteppedOver(h) => Fixed(h)
  /\ pc = "score" /\ Over => skips = Walk

\* Each template's Awaiting is what the pool still owes it.
Owed == \A h \in Hashes : table[h].awaiting = inFlight[h]

TableInv ==
  /\ Inv /\ Types /\ Listed /\ CardsListed /\ RingsOK /\ Walked
  /\ NothingOutlivesItsTemplate /\ Owed

-----------------------------------------------------------------------------
\* A count is told apart up to the baseline, and to two.
LEMMA CapIs == CountCap \in Nat /\ CountCap > BaselineMinCount /\ CountCap > 1
BY ScoreAssumption DEF CountCap

\* What the steps do to a template.
LEMMA TypesOpen ==
  ASSUME Types
  PROVE  /\ clock \in 0..MaxTime /\ clock \in Nat /\ MaxTime \in Nat
         /\ table \in [Hashes -> Records]
         /\ order \in Seq(Hashes) /\ cards \in Seq(Hashes)
         /\ skips \in 0..Walk /\ Walk \in Nat /\ bytes \in Int
         /\ BaselineMinCount \in Nat /\ RecentCap \in Nat \ {0} /\ CardsKept \in Nat \ {0}
         /\ cache \in [Hashes -> -1..MaxTime] /\ TTL \in Nat
         /\ inFlight \in [Hashes -> Nat]
BY TableAssumption, ScoreAssumption, BoundAssumption, CacheAssumption DEF Types

LEMMA RecordFields ==
  ASSUME NEW t \in Records
  PROVE  /\ t.count \in 0..CountCap /\ t.first \in 0..MaxTime
         /\ t.recent \in Seq(0..MaxTime) /\ t.flagged \in BOOLEAN /\ t.awaiting \in Int
         /\ t.count \in Nat
BY CapIs DEF Records

LEMMA PushedIs ==
  ASSUME NEW r \in Seq(0..MaxTime), clock \in 0..MaxTime, Len(r) <= RecentCap,
         \A i \in DOMAIN r : r[i] <= clock,
         \A i, j \in DOMAIN r : i <= j => r[i] <= r[j]
  PROVE  /\ Pushed(r) \in Seq(0..MaxTime)
         /\ Len(Pushed(r)) <= RecentCap /\ Len(Pushed(r)) <= Len(r) + 1 /\ Len(Pushed(r)) > 0
         /\ \A i \in DOMAIN Pushed(r) : Pushed(r)[i] <= clock
         /\ \A i, j \in DOMAIN Pushed(r) : i <= j => Pushed(r)[i] <= Pushed(r)[j]
         /\ \A i \in DOMAIN Pushed(r) :
              i = Len(Pushed(r)) \/ \E j \in DOMAIN r : Pushed(r)[i] = r[j]
<1>0. /\ Len(r) \in Nat /\ DOMAIN r = 1..Len(r) /\ clock \in Nat /\ RecentCap \in Nat \ {0}
      /\ \A i \in 1..Len(r) : r[i] \in Nat
  BY LenProperties, BoundAssumption, TableAssumption
<1>1. CASE Len(r) < RecentCap
  <2> DEFINE p == Append(r, clock)
  <2>1. Pushed(r) = p
    BY <1>1 DEF Pushed
  <2>2. /\ p \in Seq(0..MaxTime) /\ Len(p) = Len(r) + 1 /\ p[Len(r) + 1] = clock
        /\ \A i \in 1..Len(r) : p[i] = r[i]
    BY AppendProperties
  <2>3. DOMAIN p = 1..(Len(r) + 1)
    BY <2>2, LenProperties
  <2> HIDE DEF p
  <2>4. \A i \in DOMAIN p : i \in 1..Len(r) \/ i = Len(r) + 1
    BY <1>0, <2>3
  <2>5. \A i, j \in DOMAIN p : i <= j => p[i] <= p[j]
    BY <1>0, <2>2, <2>3, <2>4
  <2>6. \A i \in DOMAIN p : p[i] <= clock
    BY <1>0, <2>2, <2>4
  <2>7. \A i \in DOMAIN p : i = Len(p) \/ \E j \in DOMAIN r : p[i] = r[j]
    BY <1>0, <2>2, <2>4
  <2>8. Len(p) <= RecentCap /\ Len(p) <= Len(r) + 1 /\ Len(p) > 0
    BY <1>0, <1>1, <2>2
  <2> QED
    BY <2>1, <2>2, <2>5, <2>6, <2>7, <2>8
<1>2. CASE ~(Len(r) < RecentCap)
  <2> DEFINE t == Tail(r)
             p == Append(t, clock)
  <2>1. Pushed(r) = p
    BY <1>2 DEF Pushed
  <2>2. Len(r) > 0 /\ r # <<>>
    BY <1>0, <1>2, EmptySeq
  <2>3. /\ t \in Seq(0..MaxTime) /\ Len(t) = Len(r) - 1
        /\ \A i \in 1..Len(t) : t[i] = r[i + 1]
    BY <2>2, HeadTailProperties
  <2> HIDE DEF t
  <2>4. /\ p \in Seq(0..MaxTime) /\ Len(p) = Len(r) /\ p[Len(r)] = clock
        /\ \A i \in 1..(Len(r) - 1) : p[i] = r[i + 1]
    <3>1. clock \in 0..MaxTime
      OBVIOUS
    <3>2. /\ p \in Seq(0..MaxTime) /\ Len(p) = Len(t) + 1 /\ p[Len(t) + 1] = clock
          /\ \A i \in 1..Len(t) : p[i] = t[i]
      BY <2>3, <3>1, AppendProperties
    <3> QED
      BY <1>0, <2>3, <3>2
  <2>5. DOMAIN p = 1..Len(r)
    BY <2>4, LenProperties
  <2> HIDE DEF p
  <2>6. \A i \in DOMAIN p : (i \in 1..(Len(r) - 1) /\ i + 1 \in 1..Len(r)) \/ i = Len(r)
    BY <1>0, <2>5
  <2>7. \A i, j \in DOMAIN p : i <= j => p[i] <= p[j]
    <3> SUFFICES ASSUME NEW i \in DOMAIN p, NEW j \in DOMAIN p, i <= j  PROVE p[i] <= p[j]
      OBVIOUS
    <3>1. CASE j = Len(r)
      BY <1>0, <2>4, <2>6, <3>1
    <3>2. CASE j # Len(r)
      <4>1. /\ j \in 1..(Len(r) - 1) /\ i \in 1..(Len(r) - 1)
            /\ i + 1 \in 1..Len(r) /\ j + 1 \in 1..Len(r) /\ i + 1 <= j + 1
        BY <1>0, <2>5, <2>6, <3>2
      <4> QED
        BY <1>0, <2>4, <4>1
    <3> QED
      BY <3>1, <3>2
  <2>8. \A i \in DOMAIN p : p[i] <= clock
    BY <1>0, <2>4, <2>6
  <2>9. \A i \in DOMAIN p : i = Len(p) \/ \E j \in DOMAIN r : p[i] = r[j]
    BY <1>0, <2>4, <2>6
  <2>10. Len(p) <= RecentCap /\ Len(p) <= Len(r) + 1 /\ Len(p) > 0
    BY <1>0, <2>2, <2>4
  <2> QED
    BY <2>1, <2>4, <2>7, <2>8, <2>9, <2>10
<1> QED
  BY <1>1, <1>2

\* upsert, field by field.
LEMMA OccurredIs ==
  ASSUME Types, RingsOK, NEW h \in Hashes
  PROVE  /\ Occurred(h) \in Records
         /\ Occurred(h).count = Least(table[h].count + 1, CountCap)
         /\ Occurred(h).first = (IF In(h) THEN table[h].first ELSE clock)
         /\ Occurred(h).recent = Pushed(table[h].recent)
         /\ Occurred(h).flagged = table[h].flagged
         /\ Occurred(h).awaiting = table[h].awaiting
<1> DEFINE old == table[h]
           r == Pushed(old.recent)
           f == IF In(h) THEN old.first ELSE clock
           c == Least(old.count + 1, CountCap)
           new == [old EXCEPT !.count = c, !.first = f, !.recent = r]
<1>1. Occurred(h) = new
  BY DEF Occurred
<1>2. table \in [Hashes -> Records] /\ old \in Records /\ clock \in 0..MaxTime
  BY TypesOpen
<1>3. r \in Seq(0..MaxTime)
  BY <1>2, RecordFields, PushedIs DEF RingsOK, RingOK
<1>4. c \in 0..CountCap /\ f \in 0..MaxTime
  <2>1. old.count \in Nat /\ old.first \in 0..MaxTime /\ CountCap \in Nat
    BY <1>2, RecordFields, CapIs
  <2> HIDE DEF old
  <2>2. c \in 0..CountCap
    BY <2>1 DEF Least
  <2>3. f \in 0..MaxTime
    BY <1>2, <2>1
  <2> QED
    BY <2>2, <2>3
<1>5. old = [count |-> old.count, first |-> old.first, recent |-> old.recent,
             flagged |-> old.flagged, awaiting |-> old.awaiting]
  BY <1>2 DEF Records
<1> HIDE DEF old, r, f, c
<1>6. /\ new \in Records /\ new.count = c /\ new.first = f /\ new.recent = r
      /\ new.flagged = old.flagged /\ new.awaiting = old.awaiting
  BY <1>2, <1>3, <1>4 DEF Records
<1> HIDE DEF new
<1> QED
  BY <1>1, <1>6 DEF old, r, f, c

LEMMA ArrivalIs ==
  ASSUME Types, RingsOK, NEW h \in Hashes, NEW s \in Severities, LineArrives(h, s)
  PROVE  /\ table' \in [Hashes -> Records]
         /\ \A g \in Hashes : g # h => table'[g] = table[g]
         /\ table'[h].count = Least(table[h].count + 1, CountCap)
         /\ table'[h].recent = Pushed(table[h].recent)
         /\ table'[h].flagged = table[h].flagged
         /\ table'[h].awaiting = table[h].awaiting
<1>1. table' = [table EXCEPT ![h] = Occurred(h)]
  BY DEF LineArrives
<1>2. table \in [Hashes -> Records] /\ Occurred(h) \in Records
  BY TypesOpen, OccurredIs
<1>3. /\ table' \in [Hashes -> Records] /\ table'[h] = Occurred(h)
      /\ \A g \in Hashes : g # h => table'[g] = table[g]
  BY <1>1, <1>2
<1> QED
  BY <1>3, OccurredIs

\* flagged and emit, field by field.
LEMMA FlaggedIs ==
  ASSUME Types, line.hash \in Hashes, NEW burst \in BOOLEAN, NEW queued \in BOOLEAN,
         Flagged(burst, queued)
  PROVE  /\ table' \in [Hashes -> Records]
         /\ \A g \in Hashes : g # line.hash => table'[g] = table[g]
         /\ table'[line.hash].count = table[line.hash].count
         /\ table'[line.hash].first = table[line.hash].first
         /\ table'[line.hash].recent = table[line.hash].recent
         /\ table'[line.hash].flagged = TRUE
         /\ table'[line.hash].awaiting
              = IF queued THEN table[line.hash].awaiting + 1 ELSE table[line.hash].awaiting
<1> DEFINE h == line.hash
           old == table[h]
           n == IF queued THEN old.awaiting + 1 ELSE old.awaiting
           new == [old EXCEPT !.flagged = TRUE, !.awaiting = n]
<1>1. h \in Hashes /\ table \in [Hashes -> Records] /\ old \in Records
  BY TypesOpen
<1>2. table' = [table EXCEPT ![h] = new]
  BY <1>1 DEF Flagged, Records
<1>3. n \in Int
  BY <1>1, RecordFields
<1> HIDE DEF old, n, h
<1>4. /\ new \in Records /\ new.count = old.count /\ new.first = old.first
      /\ new.recent = old.recent /\ new.flagged = TRUE /\ new.awaiting = n
  BY <1>1, <1>3 DEF Records
<1> HIDE DEF new
<1>5. /\ table' \in [Hashes -> Records] /\ table'[h] = new
      /\ \A g \in Hashes : g # h => table'[g] = table[g]
  BY <1>1, <1>2, <1>4
<1> QED
  BY <1>4, <1>5 DEF old, n, h

\* attach, field by field.
LEMMA AttachIs ==
  ASSUME Types, NEW h \in Hashes, Attach(h), In(h)
  PROVE  /\ table' \in [Hashes -> Records]
         /\ \A g \in Hashes : g # h => table'[g] = table[g]
         /\ table'[h].count = table[h].count
         /\ table'[h].first = table[h].first
         /\ table'[h].recent = table[h].recent
         /\ table'[h].flagged = table[h].flagged
         /\ table'[h].awaiting = table[h].awaiting - 1
<1> DEFINE old == table[h]
           n == old.awaiting - 1
           new == [old EXCEPT !.awaiting = n]
<1>1. table \in [Hashes -> Records] /\ old \in Records
  BY TypesOpen
<1>2. table' = [table EXCEPT ![h] = new]
  BY <1>1 DEF Attach
<1>3. n \in Int
  BY <1>1, RecordFields
<1> HIDE DEF n
<1>4. /\ new \in Records /\ new.count = old.count /\ new.first = old.first
      /\ new.recent = old.recent /\ new.flagged = old.flagged /\ new.awaiting = n
  BY <1>1, <1>3 DEF Records
<1> HIDE DEF new
<1>5. /\ table' \in [Hashes -> Records] /\ table'[h] = new
      /\ \A g \in Hashes : g # h => table'[g] = table[g]
  BY <1>1, <1>2, <1>4
<1> QED
  BY <1>4, <1>5 DEF n

\* One answer more or less in flight.
LEMMA InFlightIs ==
  ASSUME Types, NEW h \in Hashes, NEW n \in Nat, inFlight' = [inFlight EXCEPT ![h] = n]
  PROVE  /\ inFlight' \in [Hashes -> Nat] /\ inFlight'[h] = n
         /\ \A g \in Hashes : g # h => inFlight'[g] = inFlight[g]
BY TypesOpen

\* What a verdict leaves alone, and what it does when it flags.
LEMMA VerdictIs ==
  ASSUME Verdict
  PROVE  /\ pc = "score" /\ pc' = "idle" /\ gap' = -1 /\ skips' = 0
         /\ UNCHANGED <<clock, order, bytes, start, lines>>
         /\ \/ UNCHANGED <<table, inFlight, cards, cache, sweepAt, flags>>
            \/ \E burst, queued \in BOOLEAN : Flagged(burst, queued)
BY DEF Verdict, Quiet, Suppressed

\* Marking sets one entry to now; another only ever expires.
LEMMA MarkIs ==
  ASSUME Types, NEW h \in Hashes, Mark(h)
  PROVE  /\ cache' \in [Hashes -> -1..MaxTime] /\ sweepAt' \in Nat \ {0}
         /\ \A g \in Hashes : g # h => cache'[g] = cache[g] \/ cache'[g] = -1
<1> DEFINE marked == [cache EXCEPT ![h] = clock]
<1>1. clock \in 0..MaxTime /\ cache \in [Hashes -> -1..MaxTime] /\ MaxTime \in Nat
  BY TypesOpen
<1>2. marked \in [Hashes -> -1..MaxTime] /\ \A g \in Hashes : g # h => marked[g] = cache[g]
  BY <1>1
<1>3. /\ \/ cache' = marked /\ sweepAt' = sweepAt
         \/ cache' = Swept(marked) /\ sweepAt' = NextSweep(Cardinality(Entries(Swept(marked))))
  BY DEF Mark
<1> HIDE DEF marked
<1>4. /\ Swept(marked) \in [Hashes -> -1..MaxTime]
      /\ \A g \in Hashes : Swept(marked)[g] = marked[g] \/ Swept(marked)[g] = -1
  BY <1>1, <1>2 DEF Swept
<1>5. sweepAt' \in Nat \ {0}
  <2>1. Cardinality(Entries(Swept(marked))) \in Nat
    BY FS_Subset, FS_CardinalityType, TableAssumption DEF Entries
  <2>2. \A n \in Nat : NextSweep(n) \in Nat \ {0}
    BY CacheAssumption DEF NextSweep
  <2> QED
    BY <1>3, <2>1, <2>2 DEF Types
<1>6. cache' \in [Hashes -> -1..MaxTime]
  BY <1>2, <1>3, <1>4
<1>7. ASSUME NEW g \in Hashes, g # h  PROVE cache'[g] = cache[g] \/ cache'[g] = -1
  BY <1>2, <1>3, <1>4, <1>7
<1> QED
  BY <1>5, <1>6, <1>7

-----------------------------------------------------------------------------
\* retain: the card goes last, and only what it was or a template already carded is carded.
LEMMA RetainedIs ==
  ASSUME Types, CardsListed, NEW h \in Hashes
  PROVE  /\ Retained(h) \in Seq(Hashes) /\ Len(Retained(h)) <= CardsKept /\ Apart(Retained(h))
         /\ \A g : Holds(Retained(h), g) => Holds(cards, g) \/ g = h
<1> DEFINE w == Without(cards, h)
           all == Append(w, h)
<1>0. cards \in Seq(Hashes) /\ Apart(cards) /\ Len(cards) <= CardsKept /\ CardsKept \in Nat \ {0}
  BY TypesOpen DEF CardsListed
<1>1. /\ w \in Seq(Hashes) /\ Len(w) <= Len(cards) /\ Apart(w)
      /\ \A g : Holds(w, g) <=> Holds(cards, g) /\ g # h
  BY <1>0, WithoutIs
<1>2. Retained(h) = IF Len(all) > CardsKept THEN Tail(all) ELSE all
  BY DEF Retained
<1> HIDE DEF w
<1>3. ~Holds(w, h)
  BY <1>1
<1>4. /\ all \in Seq(Hashes) /\ Len(all) = Len(w) + 1 /\ Apart(all)
      /\ \A g : Holds(all, g) <=> Holds(w, g) \/ g = h
  BY <1>1, <1>3, AppendApart
<1> HIDE DEF all
<1>5. Len(w) \in Nat /\ Len(cards) \in Nat
  BY <1>0, <1>1, LenProperties
<1>6. CASE Len(all) > CardsKept
  <2>1. all # <<>>
    BY <1>0, <1>4, <1>6, EmptySeq
  <2>2. /\ Tail(all) \in Seq(Hashes) /\ Len(Tail(all)) = Len(all) - 1 /\ Apart(Tail(all))
        /\ \A g : Holds(Tail(all), g) <=> Holds(all, g) /\ g # Head(all)
    BY <1>4, <2>1, TailApart
  <2>3. Len(Tail(all)) <= CardsKept
    BY <1>0, <1>1, <1>4, <1>5, <2>2
  <2> QED
    BY <1>1, <1>2, <1>4, <1>6, <2>2, <2>3
<1>7. CASE ~(Len(all) > CardsKept)
  <2>1. Len(all) <= CardsKept
    BY <1>0, <1>4, <1>5, <1>7
  <2> QED
    BY <1>1, <1>2, <1>4, <1>7, <2>1
<1> QED
  BY <1>6, <1>7

\* While a line is in hand the list is not empty: the line's template is in it.
LEMMA FrontIs ==
  ASSUME GatesTypeOK, Types, Listed, pc # "idle"
  PROVE  /\ order # <<>> /\ order \in Seq(Hashes) /\ Apart(order) /\ Len(order) \in Nat \ {0}
         /\ Head(order) \in Hashes /\ Holds(order, Head(order)) /\ In(Head(order))
<1>1. order \in Seq(Hashes) /\ Apart(order) /\ (line.hash \in Hashes => Holds(order, line.hash))
  BY TypesOpen DEF Listed
<1>2. Len(order) \in Nat /\ DOMAIN order = 1..Len(order)
  BY <1>1, LenProperties
<1>3. line.hash \in Hashes
  BY DEF GatesTypeOK
<1>4. order # <<>> /\ Len(order) # 0
  BY <1>1, <1>2, <1>3, EmptySeq DEF Holds
<1>5. Head(order) \in Hashes /\ Holds(order, Head(order))
  BY <1>1, <1>4, TailApart
<1> QED
  BY <1>1, <1>2, <1>4, <1>5 DEF Listed

\* What the scorer's invariant leaves to show of the types.
LEMMA TypesClose ==
  ASSUME Inv', Types, clock' \in 0..MaxTime, gap' \in Int, skips' \in 0..Walk,
         table' \in [Hashes -> Records], bytes' \in Int,
         order' \in Seq(Hashes), cards' \in Seq(Hashes), inFlight' \in [Hashes -> Nat],
         cache' \in [Hashes -> -1..MaxTime], sweepAt' \in Nat \ {0},
         start' \in -1..MaxTime, lines' \in 0..MaxLines,
         flags' \in Seq([hash : Hashes, at : 0..MaxTime])
  PROVE  Types'
<1>1. pc' \in {"idle", "shrink", "score"} /\ tokens' \in 0..Capacity /\ last' \in 0..clock'
  BY DEF Inv, GatesTypeOK
<1> QED
  BY <1>1 DEF Types, Records

\* Where nothing but a line's place, an answer's count or a mark changes, the list, the
\* cards and the rings stay as they are.
LEMMA RingsFrame ==
  ASSUME Types, RingsOK, clock' \in Nat, clock' >= clock, table' \in [Hashes -> Records],
         \A g \in Hashes : table'[g].count = table[g].count /\ table'[g].recent = table[g].recent
  PROVE  RingsOK'
<1> SUFFICES ASSUME NEW g \in Hashes  PROVE RingOK(table[g], clock)'
  BY DEF RingsOK
<1>1. RingOK(table[g], clock) /\ clock \in Nat /\ MaxTime \in Nat
  BY TypesOpen DEF RingsOK
<1>2. table[g] \in Records
  BY TypesOpen
<1>3. table[g].recent \in Seq(0..MaxTime)
  BY <1>2, RecordFields
<1>4. \A i \in DOMAIN table[g].recent : table[g].recent[i] <= clock'
  <2> SUFFICES ASSUME NEW i \in DOMAIN table[g].recent  PROVE table[g].recent[i] <= clock'
    OBVIOUS
  <2>1. table[g].recent[i] \in 0..MaxTime
    BY <1>3, ElementOfSeq, LenProperties
  <2>2. table[g].recent[i] \in Nat /\ table[g].recent[i] <= clock
    BY <1>1, <2>1 DEF RingOK
  <2> QED
    BY <1>1, <2>2
<1> QED
  BY <1>1, <1>4 DEF RingOK

LEMMA ListedFrame ==
  ASSUME Listed, order' = order, table' \in [Hashes -> Records],
         \A g \in Hashes : table'[g].count = table[g].count,
         pc' = "idle" \/ (pc # "idle" /\ line' = line /\ line.hash \in Hashes)
  PROVE  Listed'
BY DEF Listed, In

-----------------------------------------------------------------------------
LEMMA ArriveStep ==
  ASSUME TableInv, Inv', NEW h \in Hashes, NEW s \in Severities, LineArrives(h, s)
  PROVE  TableInv'
<1>1. /\ Inv /\ Types /\ Listed /\ CardsListed /\ RingsOK /\ Walked
      /\ NothingOutlivesItsTemplate /\ Owed
  BY DEF TableInv
<1>2. /\ pc = "idle" /\ pc' = "shrink" /\ lines < MaxLines /\ lines' = lines + 1 /\ skips' = 0
      /\ line' = [hash |-> h, severity |-> s]
      /\ gap' = (IF In(h) THEN clock - LastSeen(h) ELSE -1)
      /\ order' = Append(Without(order, h), h)
      /\ bytes' = bytes + Growth(table[h])
      /\ start' = (IF start = -1 THEN clock ELSE start)
      /\ UNCHANGED <<clock, inFlight, cards, cache, sweepAt, tokens, last, flags>>
  BY DEF LineArrives
<1>3. /\ table' \in [Hashes -> Records]
      /\ \A g \in Hashes : g # h => table'[g] = table[g]
      /\ table'[h].count = Least(table[h].count + 1, CountCap)
      /\ table'[h].recent = Pushed(table[h].recent)
      /\ table'[h].flagged = table[h].flagged
      /\ table'[h].awaiting = table[h].awaiting
  BY <1>1, ArrivalIs
<1>4. /\ clock \in 0..MaxTime /\ clock \in Nat /\ MaxTime \in Nat
      /\ table \in [Hashes -> Records] /\ table[h] \in Records
      /\ order \in Seq(Hashes) /\ BaselineMinCount \in Nat /\ bytes \in Int
      /\ RecentCap \in Nat \ {0}
  BY <1>1, TypesOpen
<1> DEFINE r == table[h].recent
           p == Pushed(table[h].recent)
<1>5. /\ table[h].count \in 0..CountCap /\ table[h].count \in Nat
      /\ r \in Seq(0..MaxTime) /\ Len(r) \in Nat /\ RingOK(table[h], clock)
  BY <1>1, <1>4, RecordFields, LenProperties DEF RingsOK
<1>6. /\ p \in Seq(0..MaxTime)
      /\ Len(p) <= RecentCap /\ Len(p) <= Len(r) + 1 /\ Len(p) > 0
      /\ \A i \in DOMAIN p : p[i] <= clock
      /\ \A i, j \in DOMAIN p : i <= j => p[i] <= p[j]
  BY <1>4, <1>5, PushedIs DEF RingOK
<1>7. Len(p) \in Nat
  BY <1>6, LenProperties
<1>8. /\ Without(order, h) \in Seq(Hashes) /\ Apart(Without(order, h))
      /\ \A g : Holds(Without(order, h), g) <=> Holds(order, g) /\ g # h
  BY <1>1, <1>4, WithoutIs DEF Listed
<1>9. /\ order' \in Seq(Hashes) /\ Apart(order')
      /\ \A g : Holds(order', g) <=> Holds(order, g) \/ g = h
  <2>1. /\ Append(Without(order, h), h) \in Seq(Hashes) /\ Apart(Append(Without(order, h), h))
        /\ \A g : Holds(Append(Without(order, h), h), g) <=> Holds(Without(order, h), g) \/ g = h
    BY <1>8, AppendApart
  <2> QED
    BY <1>2, <1>8, <2>1
<1>10. table'[h].count \in Nat /\ table'[h].count > 0
       /\ (table'[h].count <= BaselineMinCount => table'[h].count = table[h].count + 1)
  BY <1>3, <1>4, <1>5, CapIs DEF Least
<1>11. Types'
  <2>1. gap' \in Int
    <3>1. CASE In(h)
      <4>1. Len(r) # 0
        BY <1>5, <3>1 DEF In, RingOK
      <4>2. r[Len(r)] \in 0..MaxTime
        <5> HIDE DEF r
        <5>1. r \in Seq(0..MaxTime) /\ Len(r) \in 1..Len(r)
          BY <1>5, <4>1
        <5> QED
          BY <5>1, ElementOfSeq
      <4>3. LastSeen(h) = r[Len(r)]
        BY DEF LastSeen
      <4>4. gap' = clock - LastSeen(h)
        BY <1>2, <3>1
      <4>5. LastSeen(h) \in 0..MaxTime
        BY <4>2, <4>3
      <4>6. clock \in Int /\ MaxTime \in Int
        BY <1>4
      <4> QED
        BY ONLY <4>4, <4>5, <4>6
    <3>2. CASE ~In(h)
      BY <1>2, <3>2
    <3> QED
      BY <3>1, <3>2
  <2>2. bytes' \in Int
    <3> DEFINE t == table[h]
               u == [t EXCEPT !.recent = p]
    <3>1. Growth(t) = Bytes(u) - (IF t.count = 0 THEN 0 ELSE Bytes(t))
      BY DEF Growth
    <3>2. u.recent = p
      BY <1>4 DEF Records
    <3> HIDE DEF u
    <3>3. Bytes(u) = 1 + Len(p) /\ Bytes(t) = 1 + Len(r)
      BY <3>2 DEF Bytes
    <3> HIDE DEF t, p
    <3>4. Growth(t) \in Int
      BY <1>5, <1>7, <3>1, <3>3
    <3> QED
      BY <1>2, <1>4, <3>4 DEF t
  <2>3. start' \in -1..MaxTime /\ lines' \in 0..MaxLines /\ skips' \in 0..Walk
    BY <1>1, <1>2, <1>4, TypesOpen, BoundAssumption DEF Types
  <2>4. UNCHANGED <<clock, inFlight, cards, cache, sweepAt, flags>>
    BY <1>2
  <2>5. /\ clock \in 0..MaxTime /\ cards \in Seq(Hashes) /\ cache \in [Hashes -> -1..MaxTime]
        /\ inFlight \in [Hashes -> Nat]
        /\ sweepAt \in Nat \ {0} /\ flags \in Seq([hash : Hashes, at : 0..MaxTime])
    BY <1>1 DEF Types
  <2> QED
    BY <1>1, <1>3, <1>9, <2>1, <2>2, <2>3, <2>4, <2>5, TypesClose
<1>12. Listed'
  <2>1. ASSUME NEW g \in Hashes  PROVE In(g)' <=> Holds(order', g)
    <3>1. CASE g = h
      BY <1>9, <1>10, <3>1 DEF In
    <3>2. CASE g # h
      <4>1. In(g)' <=> In(g)
        BY <1>3, <3>2 DEF In
      <4> QED
        BY <1>1, <1>9, <3>2, <4>1 DEF Listed
    <3> QED
      BY <3>1, <3>2
  <2>2. In(line.hash)'
    BY <1>2, <1>10 DEF In
  <2> QED
    BY <1>9, <2>1, <2>2 DEF Listed
<1>13. CardsListed'
  BY <1>1, <1>2 DEF CardsListed
<1>14. RingsOK'
  <2> SUFFICES ASSUME NEW g \in Hashes  PROVE RingOK(table'[g], clock')
    BY DEF RingsOK
  <2>1. CASE g = h
    <3>1. table'[h].count <= BaselineMinCount => Len(p) <= table'[h].count
      <4>1. table[h].count <= BaselineMinCount => Len(r) <= table[h].count
        BY <1>5 DEF RingOK
      <4> DEFINE c == table[h].count
                 d == table'[h].count
      <4>2. /\ c \in Nat /\ d \in Nat /\ (d <= BaselineMinCount => d = c + 1)
            /\ (c <= BaselineMinCount => Len(r) <= c)
            /\ Len(p) \in Nat /\ Len(r) \in Nat /\ Len(p) <= Len(r) + 1
            /\ BaselineMinCount \in Nat
        BY <1>4, <1>5, <1>6, <1>7, <1>10, <4>1
      <4> HIDE DEF c, d, p, r
      <4>3. d <= BaselineMinCount => Len(p) <= d
        BY ONLY <4>2
      <4> QED
        BY <4>3 DEF d
    <3>2. table'[h].recent = p /\ clock' = clock
      BY <1>2, <1>3
    <3> HIDE DEF p, r
    <3>3. table'[h].count = 0 <=> Len(p) = 0
      BY <1>6, <1>7, <1>10
    <3> QED
      BY <1>6, <2>1, <3>1, <3>2, <3>3 DEF RingOK
  <2>2. CASE g # h
    BY <1>1, <1>2, <1>3, <2>2 DEF RingsOK
  <2> QED
    BY <2>1, <2>2
<1>15. Walked'
  <2>1. \A i \in DOMAIN order' : ~(i > Len(order') - (0 - Walk \div 2))
    <3>1. Len(order') \in Nat /\ DOMAIN order' = 1..Len(order')
      BY <1>9, LenProperties
    <3>2. Walk \in Nat
      BY <1>1, TypesOpen
    <3> QED
      BY <3>1, <3>2
  <2> QED
    BY <1>2, <2>1 DEF Walked, SteppedOver
<1>16. NothingOutlivesItsTemplate'
  <2> SUFFICES ASSUME NEW g \in Hashes,
                      Carded(g)' \/ Explained(g)' \/ inFlight'[g] > 0
               PROVE  In(g)' /\ table'[g].flagged
    BY DEF NothingOutlivesItsTemplate
  <2>1. Carded(g) \/ Explained(g) \/ inFlight[g] > 0
    BY <1>2, <1>3 DEF Carded, Explained
  <2>2. In(g) /\ table[g].flagged
    BY <1>1, <2>1 DEF NothingOutlivesItsTemplate
  <2> QED
    BY <1>3, <1>10, <2>2 DEF In
<1>17. Owed'
  BY <1>1, <1>2, <1>3 DEF Owed
<1> QED
  BY <1>11, <1>12, <1>13, <1>14, <1>15, <1>16, <1>17 DEF TableInv

LEMMA HalfWalk ==
  ASSUME Types
  PROVE  Walk \div 2 \in Nat /\ Walk \in Nat /\ skips \in Nat /\ skips <= Walk
<1>1. Walk \in Nat /\ skips \in 0..Walk
  BY TypesOpen
<1> QED
  BY <1>1

LEMMA SkipStep ==
  ASSUME TableInv, Inv', Skip
  PROVE  TableInv'
<1>1. /\ Inv /\ GatesTypeOK /\ Types /\ Listed /\ CardsListed /\ RingsOK /\ Walked
      /\ NothingOutlivesItsTemplate /\ Owed
  BY DEF TableInv, Inv
<1>2. /\ pc = "shrink" /\ pc' = "shrink" /\ skips < Walk /\ skips' = skips + 1
      /\ Held(Head(order)) /\ order' = Append(Tail(order), Head(order))
      /\ UNCHANGED <<clock, line, gap, table, bytes, inFlight, cards, cache, sweepAt, start, lines, flags>>
  BY DEF Skip, Walking, scoreVars
<1>3. order # <<>> /\ order \in Seq(Hashes) /\ Apart(order) /\ Len(order) \in Nat \ {0}
  BY <1>1, <1>2, FrontIs
<1>4. /\ order' \in Seq(Hashes) /\ Len(order') = Len(order) /\ Apart(order')
      /\ \A g : Holds(order', g) <=> Holds(order, g)
  BY <1>2, <1>3, RotateApart
<1>5. Types'
  <2>1. skips' \in 0..Walk
    BY <1>1, <1>2, HalfWalk
  <2>2. /\ clock \in 0..MaxTime /\ cards \in Seq(Hashes) /\ cache \in [Hashes -> -1..MaxTime]
        /\ inFlight \in [Hashes -> Nat]
        /\ sweepAt \in Nat \ {0} /\ flags \in Seq([hash : Hashes, at : 0..MaxTime])
        /\ gap \in Int /\ table \in [Hashes -> Records] /\ bytes \in Int
        /\ start \in -1..MaxTime /\ lines \in 0..MaxLines
    BY <1>1 DEF Types
  <2> QED
    BY <1>1, <1>2, <1>4, <2>1, <2>2, TypesClose
<1>6. Listed'
  BY <1>1, <1>2, <1>4 DEF Listed, In
<1>7. CardsListed' /\ RingsOK' /\ NothingOutlivesItsTemplate' /\ Owed'
  BY <1>1, <1>2 DEF Owed, CardsListed, RingsOK, NothingOutlivesItsTemplate, In, Carded, Explained
<1>8. Walked'
  <2>1. \A g \in Hashes : Fixed(g) => Fixed(g)'
    BY <1>2 DEF Fixed, Pinned, Carded, Explained
  <2>2. skips >= Walk \div 2 => Fixed(Head(order))
    BY <1>1, <1>2, HalfWalk DEF Held, Fixed
  <2> SUFFICES ASSUME NEW g \in Hashes, NEW i \in DOMAIN order', order'[i] = g,
                      i > Len(order') - (skips' - Walk \div 2)
               PROVE  Fixed(g)
    <3>1. pc' = "shrink"
      BY <1>2
    <3> QED
      BY <2>1, <3>1 DEF Walked, SteppedOver
  <2> DEFINE n == Len(order)
             half == Walk \div 2
  <2>3. Tail(order) \in Seq(Hashes) /\ Len(Tail(order)) = n - 1 /\ Head(order) \in Hashes
        /\ \A j \in 1..Len(Tail(order)) : Tail(order)[j] = order[j + 1]
    BY <1>3, HeadTailProperties
  <2>4. DOMAIN order' = 1..n /\ DOMAIN order = 1..n
    BY <1>3, <1>4, LenProperties
  <2>5. /\ \A j \in 1..Len(Tail(order)) : order'[j] = Tail(order)[j]
        /\ order'[Len(Tail(order)) + 1] = Head(order)
    BY <1>2, <2>3, AppendProperties
  <2>6. skips \in Nat /\ half \in Nat /\ n \in Nat \ {0} /\ i \in 1..n
    BY <1>1, <1>3, <2>4, HalfWalk
  <2>7. i > n - (skips + 1 - half)
    <3>1. i > Len(order') - (skips' - half) /\ Len(order') = n /\ skips' = skips + 1
      BY <1>2, <1>4
    <3> HIDE DEF n, half
    <3> QED
      BY <2>6, <3>1
  <2> HIDE DEF n, half
  <2>8. CASE i = n
    <3>1. order'[i] = Head(order)
      BY <2>3, <2>5, <2>6, <2>8
    <3>2. skips >= half
      BY <2>6, <2>7, <2>8
    <3> QED
      BY <2>2, <3>1, <3>2 DEF half
  <2>9. CASE i # n
    <3>1. i \in 1..(n - 1) /\ i + 1 \in 1..n /\ i + 1 > n - (skips - half)
      BY <2>6, <2>7, <2>9
    <3>2. order'[i] = order[i + 1]
      BY <2>3, <2>5, <3>1
    <3>3. SteppedOver(g)
      BY <2>4, <3>1, <3>2 DEF SteppedOver, n, half
    <3> QED
      BY <1>1, <1>2, <3>3 DEF Walked
  <2> QED
    BY <2>8, <2>9
<1> QED
  BY <1>5, <1>6, <1>7, <1>8 DEF TableInv

LEMMA EvictStep ==
  ASSUME TableInv, Inv', Evict
  PROVE  TableInv'
<1> DEFINE h == Head(order)
<1>1. /\ Inv /\ GatesTypeOK /\ Types /\ Listed /\ CardsListed /\ RingsOK /\ Walked
      /\ NothingOutlivesItsTemplate /\ Owed
  BY DEF TableInv, Inv
<1>2. /\ pc = "shrink" /\ pc' = "shrink" /\ ~Held(h) /\ order' = Tail(order)
      /\ table' = [table EXCEPT ![h] = Absent] /\ bytes' = bytes - Bytes(table[h])
      /\ UNCHANGED <<clock, line, gap, skips, inFlight, cards, cache, sweepAt, start, lines, flags>>
  BY DEF Evict, Walking, scoreVars, lineVars
<1>3. /\ order # <<>> /\ order \in Seq(Hashes) /\ Apart(order) /\ Len(order) \in Nat \ {0}
      /\ h \in Hashes
  BY <1>1, <1>2, FrontIs
<1>4. /\ order' \in Seq(Hashes) /\ Len(order') = Len(order) - 1 /\ Apart(order')
      /\ \A g : Holds(order', g) <=> Holds(order, g) /\ g # h
  BY <1>2, <1>3, TailApart
<1>5. /\ table \in [Hashes -> Records] /\ table[h] \in Records
      /\ table[h].recent \in Seq(0..MaxTime) /\ MaxTime \in Nat /\ clock \in Nat
  BY <1>1, <1>3, TypesOpen, RecordFields
<1>6. Absent \in Records
  BY <1>5, CapIs DEF Absent, Records
<1>7. /\ table' \in [Hashes -> Records] /\ table'[h] = Absent
      /\ \A g \in Hashes : g # h => table'[g] = table[g]
  BY <1>2, <1>3, <1>5, <1>6
<1>8. ~Fixed(h) /\ ~Pinned(h) /\ h # line.hash
  BY <1>2 DEF Held, Fixed
<1> HIDE DEF h
<1>9. Types'
  <2>1. bytes' \in Int
    <3>1. Len(table[h].recent) \in Nat
      BY <1>5, LenProperties
    <3>2. Bytes(table[h]) \in Int /\ bytes \in Int
      BY <1>1, <3>1, TypesOpen DEF Bytes
    <3> QED
      BY <1>2, <3>2
  <2>2. /\ clock \in 0..MaxTime /\ cards \in Seq(Hashes) /\ cache \in [Hashes -> -1..MaxTime]
        /\ inFlight \in [Hashes -> Nat]
        /\ sweepAt \in Nat \ {0} /\ flags \in Seq([hash : Hashes, at : 0..MaxTime])
        /\ gap \in Int /\ skips \in 0..Walk
        /\ start \in -1..MaxTime /\ lines \in 0..MaxLines
    BY <1>1 DEF Types
  <2> QED
    BY <1>1, <1>2, <1>4, <1>7, <2>1, <2>2, TypesClose
<1>10. Listed'
  <2>1. \A g \in Hashes : In(g)' <=> In(g) /\ g # h
    BY <1>7 DEF In, Absent
  <2>2. line.hash \in Hashes /\ In(line.hash)
    BY <1>1, <1>2 DEF Listed, GatesTypeOK
  <2> QED
    BY <1>1, <1>2, <1>4, <1>8, <2>1, <2>2 DEF Listed, In
<1>11. CardsListed'
  BY <1>1, <1>2 DEF CardsListed
<1>12. RingsOK'
  <2> SUFFICES ASSUME NEW g \in Hashes  PROVE RingOK(table'[g], clock')
    BY DEF RingsOK
  <2>1. CASE g = h
    BY <1>7, <2>1, TableAssumption, ScoreAssumption DEF RingOK, Absent
  <2>2. CASE g # h
    BY <1>1, <1>2, <1>7, <2>2 DEF RingsOK
  <2> QED
    BY <2>1, <2>2
<1>13. Walked'
  <2>1. \A g \in Hashes : Fixed(g) => Fixed(g)'
    <3> SUFFICES ASSUME NEW g \in Hashes, Fixed(g)  PROVE Fixed(g)'
      OBVIOUS
    <3>1. g # h
      BY <1>8
    <3> QED
      BY <1>2, <1>7, <3>1 DEF Fixed, Pinned, Carded, Explained
  <2> SUFFICES ASSUME NEW g \in Hashes, NEW i \in DOMAIN order', order'[i] = g,
                      i > Len(order') - (skips' - Walk \div 2)
               PROVE  Fixed(g)
    BY <1>2, <2>1 DEF Walked, SteppedOver
  <2> DEFINE n == Len(order)
             half == Walk \div 2
  <2>2. \A j \in 1..Len(order') : order'[j] = order[j + 1]
    BY <1>2, <1>3, HeadTailProperties
  <2>3. DOMAIN order' = 1..(n - 1) /\ DOMAIN order = 1..n
    BY <1>3, <1>4, LenProperties
  <2>4. skips \in Nat /\ half \in Nat /\ n \in Nat \ {0} /\ i \in 1..(n - 1)
    BY <1>1, <1>3, <2>3, HalfWalk
  <2>5. i > (n - 1) - (skips - half)
    BY <1>2, <1>4
  <2> HIDE DEF n, half
  <2>6. i + 1 \in 1..n /\ i + 1 > n - (skips - half)
    BY <2>4, <2>5
  <2>7. order'[i] = order[i + 1]
    BY <1>3, <1>4, <2>2, <2>3, <2>4 DEF n
  <2>8. SteppedOver(g)
    BY <2>3, <2>6, <2>7 DEF SteppedOver, n, half
  <2> QED
    BY <1>1, <1>2, <2>8 DEF Walked
<1>14. ~Carded(h) /\ ~Explained(h) /\ ~(inFlight[h] > 0)
  <2> SUFFICES ASSUME Carded(h) \/ Explained(h) \/ inFlight[h] > 0  PROVE FALSE
    OBVIOUS
  <2>1. table[h].flagged /\ table[h].awaiting = inFlight[h]
    BY <1>1, <1>3 DEF NothingOutlivesItsTemplate, Owed, h
  <2> QED
    BY <1>8, <2>1 DEF Pinned
<1>15. NothingOutlivesItsTemplate'
  <2> SUFFICES ASSUME NEW g \in Hashes,
                      Carded(g)' \/ Explained(g)' \/ inFlight'[g] > 0
               PROVE  In(g)' /\ table'[g].flagged
    BY DEF NothingOutlivesItsTemplate
  <2>1. Carded(g) \/ Explained(g) \/ inFlight[g] > 0
    BY <1>2 DEF Carded, Explained
  <2>2. g # h /\ In(g) /\ table[g].flagged
    BY <1>1, <1>14, <2>1 DEF NothingOutlivesItsTemplate
  <2> QED
    BY <1>7, <2>2 DEF In
<1>16. Owed'
  <2> SUFFICES ASSUME NEW g \in Hashes  PROVE table'[g].awaiting = inFlight'[g]
    BY DEF Owed
  <2>1. CASE g = h
    <3>1. inFlight[g] \in Nat /\ ~(inFlight[g] > 0)
      BY <1>1, <1>14, <2>1, TypesOpen
    <3>2. inFlight[g] = 0
      BY <3>1
    <3> QED
      BY <1>2, <1>7, <2>1, <3>2 DEF Absent
  <2>2. CASE g # h
    BY <1>1, <1>2, <1>7, <2>2 DEF Owed
  <2> QED
    BY <2>1, <2>2
<1> QED
  BY <1>9, <1>10, <1>11, <1>12, <1>13, <1>15, <1>16 DEF TableInv

LEMMA ShrinkDoneStep ==
  ASSUME TableInv, Inv', ShrinkDone
  PROVE  TableInv'
<1>1. /\ Inv /\ GatesTypeOK /\ Types /\ Listed /\ CardsListed /\ RingsOK /\ Walked
      /\ NothingOutlivesItsTemplate /\ Owed
  BY DEF TableInv, Inv
<1>2. /\ pc = "shrink" /\ pc' = "score" /\ ~Walking
      /\ UNCHANGED <<clock, line, gap, skips, table, order, bytes, inFlight, cards, cache, sweepAt,
                     start, lines, flags>>
  BY DEF ShrinkDone, scoreVars, tableVars
<1>3. Types'
  <2>1. /\ clock \in 0..MaxTime /\ cards \in Seq(Hashes) /\ cache \in [Hashes -> -1..MaxTime]
        /\ inFlight \in [Hashes -> Nat]
        /\ sweepAt \in Nat \ {0} /\ flags \in Seq([hash : Hashes, at : 0..MaxTime])
        /\ gap \in Int /\ skips \in 0..Walk /\ table \in [Hashes -> Records] /\ bytes \in Int
        /\ start \in -1..MaxTime /\ lines \in 0..MaxLines /\ order \in Seq(Hashes)
    BY <1>1 DEF Types
  <2> QED
    BY <1>1, <1>2, <2>1, TypesClose
<1>4. Listed'
  BY <1>1, <1>2 DEF Listed, In
<1>5. CardsListed' /\ RingsOK' /\ NothingOutlivesItsTemplate' /\ Owed'
  BY <1>1, <1>2 DEF Owed, CardsListed, RingsOK, NothingOutlivesItsTemplate, In, Carded, Explained
<1>6. Walked'
  <2>1. \A g \in Hashes : Fixed(g) => Fixed(g)'
    BY <1>2 DEF Fixed, Pinned, Carded, Explained
  <2>2. \A g \in Hashes : SteppedOver(g)' => SteppedOver(g)
    BY <1>2 DEF SteppedOver
  <2>3. Over' => skips' = Walk
    BY <1>1, <1>2, HalfWalk DEF Over, Walking
  <2> QED
    BY <1>1, <1>2, <2>1, <2>2, <2>3 DEF Walked
<1> QED
  BY <1>3, <1>4, <1>5, <1>6 DEF TableInv

LEMMA AttachStep ==
  ASSUME TableInv, Inv', NEW h \in Hashes, Attach(h)
  PROVE  TableInv'
<1>1. /\ Inv /\ GatesTypeOK /\ Types /\ Listed /\ CardsListed /\ RingsOK /\ Walked
      /\ NothingOutlivesItsTemplate /\ Owed
  BY DEF TableInv, Inv
<1>2. /\ pc = "idle" /\ pc' = "idle"
      /\ UNCHANGED <<clock, line, gap, skips, order, bytes, cards, cache, sweepAt,
                     start, lines, flags>>
  BY DEF Attach, scoreVars, lineVars
<1>0. /\ In(h) /\ inFlight \in [Hashes -> Nat] /\ inFlight[h] > 0
      /\ inFlight' = [inFlight EXCEPT ![h] = inFlight[h] - 1]
  BY <1>1, TypesOpen DEF Attach, NothingOutlivesItsTemplate
<1>3. /\ table' \in [Hashes -> Records]
      /\ \A g \in Hashes : g # h => table'[g] = table[g]
      /\ table'[h].count = table[h].count /\ table'[h].recent = table[h].recent
      /\ table'[h].flagged = table[h].flagged
      /\ table'[h].awaiting = table[h].awaiting - 1
  BY <1>0, <1>1, AttachIs
<1>11. /\ inFlight' \in [Hashes -> Nat] /\ inFlight'[h] = inFlight[h] - 1
       /\ \A g \in Hashes : g # h => inFlight'[g] = inFlight[g]
  <2>1. inFlight[h] - 1 \in Nat
    BY <1>0
  <2> QED
    BY <1>0, <1>1, <2>1, InFlightIs
<1>4. Types'
  <2>1. /\ clock \in 0..MaxTime /\ cards \in Seq(Hashes) /\ cache \in [Hashes -> -1..MaxTime]
        /\ sweepAt \in Nat \ {0} /\ flags \in Seq([hash : Hashes, at : 0..MaxTime])
        /\ gap \in Int /\ skips \in 0..Walk /\ bytes \in Int
        /\ start \in -1..MaxTime /\ lines \in 0..MaxLines /\ order \in Seq(Hashes)
    BY <1>1 DEF Types
  <2> QED
    BY <1>1, <1>2, <1>3, <1>11, <2>1, TypesClose
<1>5. \A g \in Hashes : table'[g].count = table[g].count /\ table'[g].recent = table[g].recent
  BY <1>3
<1>6. Listed'
  BY <1>1, <1>2, <1>3, <1>5, ListedFrame
<1>7. CardsListed'
  BY <1>1, <1>2 DEF CardsListed
<1>8. RingsOK'
  <2>1. clock' \in Nat /\ clock' >= clock
    BY <1>1, <1>2, TypesOpen
  <2> QED
    BY <1>1, <1>3, <1>5, <2>1, RingsFrame
<1>9. Walked'
  BY <1>2 DEF Walked
<1>10. NothingOutlivesItsTemplate'
  <2> SUFFICES ASSUME NEW g \in Hashes,
                      Carded(g)' \/ Explained(g)' \/ inFlight'[g] > 0
               PROVE  In(g)' /\ table'[g].flagged
    BY DEF NothingOutlivesItsTemplate
  <2>1. inFlight'[g] > 0 => inFlight[g] > 0
    <3>1. inFlight[h] \in Int
      BY <1>0
    <3> QED
      BY <1>0, <1>11, <3>1
  <2>2. Carded(g) \/ Explained(g) \/ inFlight[g] > 0
    BY <1>2, <2>1 DEF Carded, Explained
  <2>3. In(g) /\ table[g].flagged
    BY <1>1, <2>2 DEF NothingOutlivesItsTemplate
  <2> QED
    BY <1>3, <1>5, <2>3 DEF In
<1>12. Owed'
  BY <1>1, <1>3, <1>11 DEF Owed
<1> QED
  BY <1>4, <1>6, <1>7, <1>8, <1>9, <1>10, <1>12 DEF TableInv

LEMMA TickStep ==
  ASSUME TableInv, Inv', Tick
  PROVE  TableInv'
<1>1. /\ Inv /\ GatesTypeOK /\ Types /\ Listed /\ CardsListed /\ RingsOK /\ Walked
      /\ NothingOutlivesItsTemplate /\ Owed
  BY DEF TableInv, Inv
<1>2. /\ pc = "idle" /\ pc' = "idle" /\ clock < MaxTime /\ clock' = clock + 1
      /\ UNCHANGED <<line, gap, skips, table, order, bytes, inFlight, cards, cache, sweepAt,
                     start, lines, flags>>
  BY DEF Tick, scoreVars, lineVars, tableVars
<1>3. /\ clock \in 0..MaxTime /\ cards \in Seq(Hashes) /\ cache \in [Hashes -> -1..MaxTime]
      /\ inFlight \in [Hashes -> Nat]
      /\ sweepAt \in Nat \ {0} /\ flags \in Seq([hash : Hashes, at : 0..MaxTime])
      /\ gap \in Int /\ skips \in 0..Walk /\ table \in [Hashes -> Records] /\ bytes \in Int
      /\ start \in -1..MaxTime /\ lines \in 0..MaxLines /\ order \in Seq(Hashes)
      /\ MaxTime \in Nat /\ TTL \in Nat
  BY <1>1, TypesOpen DEF Types
<1>4. clock' \in 0..MaxTime /\ clock' \in Nat /\ clock' >= clock /\ clock \in Nat
  BY <1>2, <1>3
<1>5. Types'
  BY <1>1, <1>2, <1>3, <1>4, TypesClose
<1>6. Listed'
  BY <1>1, <1>2 DEF Listed, In
<1>7. CardsListed'
  BY <1>1, <1>2 DEF CardsListed
<1>8. RingsOK'
  BY <1>1, <1>2, <1>3, <1>4, RingsFrame
<1>9. Walked'
  BY <1>2 DEF Walked
<1>10. NothingOutlivesItsTemplate'
  <2>1. \A g \in Hashes : Explained(g)' => Explained(g)
    <3> SUFFICES ASSUME NEW g \in Hashes, Explained(g)'  PROVE Explained(g)
      OBVIOUS
    <3>1. cache[g] # -1 /\ (clock + 1) - cache[g] < TTL
      BY <1>2 DEF Explained
    <3>2. cache[g] \in Int
      BY <1>3
    <3>3. clock - cache[g] < TTL
      BY <1>3, <1>4, <3>1, <3>2
    <3> QED
      BY <3>1, <3>3 DEF Explained
  <2>2. \A g \in Hashes : (Carded(g)' <=> Carded(g)) /\ (In(g)' <=> In(g))
    BY <1>2 DEF Carded, In
  <2> QED
    BY <1>1, <1>2, <2>1, <2>2 DEF NothingOutlivesItsTemplate
<1>11. Owed'
  BY <1>1, <1>2 DEF Owed
<1> QED
  BY <1>5, <1>6, <1>7, <1>8, <1>9, <1>10, <1>11 DEF TableInv

LEMMA VerdictStep ==
  ASSUME TableInv, Inv', Verdict
  PROVE  TableInv'
<1>1. /\ Inv /\ GatesTypeOK /\ Types /\ Listed /\ CardsListed /\ RingsOK /\ Walked
      /\ NothingOutlivesItsTemplate /\ Owed
  BY DEF TableInv, Inv
<1>2. /\ pc = "score" /\ pc' = "idle" /\ gap' = -1 /\ skips' = 0
      /\ UNCHANGED <<clock, order, bytes, start, lines>>
      /\ \/ UNCHANGED <<table, inFlight, cards, cache, sweepAt, flags>>
         \/ \E burst, queued \in BOOLEAN : Flagged(burst, queued)
  BY VerdictIs
<1>3. /\ clock \in 0..MaxTime /\ cards \in Seq(Hashes) /\ cache \in [Hashes -> -1..MaxTime]
      /\ inFlight \in [Hashes -> Nat]
      /\ sweepAt \in Nat \ {0} /\ flags \in Seq([hash : Hashes, at : 0..MaxTime])
      /\ table \in [Hashes -> Records] /\ bytes \in Int
      /\ start \in -1..MaxTime /\ lines \in 0..MaxLines /\ order \in Seq(Hashes)
      /\ clock \in Nat /\ Walk \in Nat
  BY <1>1, TypesOpen DEF Types
<1>4. gap' \in Int /\ skips' \in 0..Walk /\ clock' \in 0..MaxTime /\ clock' \in Nat
      /\ clock' >= clock
  BY <1>2, <1>3
<1>5. Walked'
  BY <1>2 DEF Walked
<1>6. CASE UNCHANGED <<table, inFlight, cards, cache, sweepAt, flags>>
  <2>1. Types'
    BY <1>1, <1>2, <1>3, <1>4, <1>6, TypesClose
  <2>2. Listed' /\ CardsListed'
    BY <1>1, <1>2, <1>6 DEF Listed, In, CardsListed
  <2>3. RingsOK' /\ NothingOutlivesItsTemplate' /\ Owed'
    BY <1>1, <1>2, <1>6 DEF Owed, RingsOK, NothingOutlivesItsTemplate, In, Carded, Explained
  <2> QED
    BY <1>5, <2>1, <2>2, <2>3 DEF TableInv
<1>7. ASSUME NEW burst \in BOOLEAN, NEW queued \in BOOLEAN, Flagged(burst, queued)
      PROVE  TableInv'
  <2> DEFINE h == line.hash
  <2>1. h \in Hashes /\ In(h)
    BY <1>1, <1>2 DEF GatesTypeOK, Listed
  <2>2. /\ table' \in [Hashes -> Records]
        /\ \A g \in Hashes : g # h => table'[g] = table[g]
        /\ table'[h].count = table[h].count /\ table'[h].recent = table[h].recent
        /\ table'[h].flagged = TRUE
        /\ table'[h].awaiting = IF queued THEN table[h].awaiting + 1 ELSE table[h].awaiting
    BY <1>1, <1>7, <2>1, FlaggedIs
  <2>13. /\ inFlight' = IF queued THEN [inFlight EXCEPT ![h] = inFlight[h] + 1] ELSE inFlight
         /\ inFlight[h] + 1 \in Nat
    BY <1>3, <1>7, <2>1 DEF Flagged
  <2>3. /\ Mark(h) /\ cards' = Retained(h)
        /\ flags' = Append(flags, [hash |-> h, at |-> clock])
    BY <1>7 DEF Flagged
  <2> HIDE DEF h
  <2>4. /\ cards' \in Seq(Hashes) /\ Len(cards') <= CardsKept /\ Apart(cards')
        /\ \A g : Holds(cards', g) => Holds(cards, g) \/ g = h
    BY <1>1, <2>1, <2>3, RetainedIs
  <2>5. /\ cache' \in [Hashes -> -1..MaxTime] /\ sweepAt' \in Nat \ {0}
        /\ \A g \in Hashes : g # h => cache'[g] = cache[g] \/ cache'[g] = -1
    BY <1>1, <2>1, <2>3, MarkIs
  <2>6. flags' \in Seq([hash : Hashes, at : 0..MaxTime])
    <3>1. [hash |-> h, at |-> clock] \in [hash : Hashes, at : 0..MaxTime]
      BY <1>3, <2>1
    <3> QED
      BY <1>3, <2>3, <3>1, AppendProperties
  <2>14. /\ inFlight' \in [Hashes -> Nat]
         /\ inFlight'[h] = IF queued THEN inFlight[h] + 1 ELSE inFlight[h]
         /\ \A g \in Hashes : g # h => inFlight'[g] = inFlight[g]
    <3>1. CASE queued
      BY <1>1, <2>1, <2>13, <3>1, InFlightIs
    <3>2. CASE ~queued
      BY <1>3, <2>13, <3>2
    <3> QED
      BY <3>1, <3>2
  <2>7. Types'
    BY <1>1, <1>2, <1>3, <1>4, <2>2, <2>4, <2>5, <2>6, <2>14, TypesClose
  <2>8. \A g \in Hashes : table'[g].count = table[g].count /\ table'[g].recent = table[g].recent
    BY <2>2
  <2>9. Listed'
    BY <1>1, <1>2, <2>2, <2>8, ListedFrame
  <2>10. CardsListed'
    BY <2>4 DEF CardsListed
  <2>11. RingsOK'
    BY <1>1, <1>4, <2>2, <2>8, RingsFrame
  <2>12. NothingOutlivesItsTemplate'
    <3> SUFFICES ASSUME NEW g \in Hashes,
                        Carded(g)' \/ Explained(g)' \/ inFlight'[g] > 0
                 PROVE  In(g)' /\ table'[g].flagged
      BY DEF NothingOutlivesItsTemplate
    <3>1. CASE g = h
      BY <2>1, <2>2, <2>8, <3>1 DEF In
    <3>2. CASE g # h
      <4>1. Carded(g)' => Carded(g)
        BY <2>4, <3>2 DEF Carded
      <4>2. Explained(g)' => Explained(g)
        BY <1>2, <2>5, <3>2 DEF Explained
      <4>3. In(g) /\ table[g].flagged
        BY <1>1, <2>14, <3>2, <4>1, <4>2 DEF NothingOutlivesItsTemplate
      <4> QED
        BY <2>2, <3>2, <4>3 DEF In
    <3> QED
      BY <3>1, <3>2
  <2>15. Owed'
    BY <1>1, <2>1, <2>2, <2>14 DEF Owed
  <2> QED
    BY <1>5, <2>7, <2>9, <2>10, <2>11, <2>12, <2>15 DEF TableInv
<1> QED
  BY <1>2, <1>6, <1>7

LEMMA InitTableInv == Init => TableInv
<1> SUFFICES ASSUME Init PROVE TableInv
  OBVIOUS
<1>1. Inv
  BY InitInv
<1>2. Absent \in Records
  BY BoundAssumption, CapIs DEF Absent, Records
<1>3. /\ pc = "idle" /\ order = <<>> /\ cards = <<>> /\ flags = <<>> /\ bytes = 0 /\ clock = 0
      /\ gap = -1 /\ skips = 0 /\ table = [h \in Hashes |-> Absent]
      /\ inFlight = [h \in Hashes |-> 0]
      /\ cache = [h \in Hashes |-> -1] /\ sweepAt = MinSweep /\ start = -1 /\ lines = 0
  BY DEF Init
<1>4. DOMAIN order = {} /\ Len(order) = 0 /\ DOMAIN cards = {} /\ Len(cards) = 0
  BY <1>3
<1>5. Types
  <2>1. MaxTime \in Nat /\ MaxLines \in Nat /\ Walk \in Nat /\ MinSweep \in Nat \ {0}
    BY BoundAssumption, TableAssumption, CacheAssumption
  <2>2. tokens \in 0..Capacity /\ last \in 0..clock
    BY <1>1 DEF Inv, GatesTypeOK
  <2>3. /\ table \in [Hashes -> Records] /\ cache \in [Hashes -> -1..MaxTime]
        /\ inFlight \in [Hashes -> Nat]
    BY <1>2, <1>3, <2>1
  <2>4. /\ order \in Seq(Hashes) /\ cards \in Seq(Hashes)
        /\ flags \in Seq([hash : Hashes, at : 0..MaxTime])
    BY <1>3, EmptySeq
  <2>5. /\ clock \in 0..MaxTime /\ gap \in Int /\ skips \in 0..Walk /\ bytes \in Int
        /\ start \in -1..MaxTime /\ lines \in 0..MaxLines /\ sweepAt \in Nat \ {0}
        /\ pc \in {"idle", "shrink", "score"}
    BY <1>3, <2>1
  <2> QED
    BY <2>2, <2>3, <2>4, <2>5 DEF Types
<1>6. Listed
  BY <1>3, <1>4 DEF Listed, Apart, Holds, In, Absent
<1>7. CardsListed
  BY <1>4, TableAssumption DEF CardsListed, Apart
<1>8. RingsOK
  <2> SUFFICES ASSUME NEW h \in Hashes  PROVE RingOK(table[h], clock)
    BY DEF RingsOK
  <2>1. table[h].count = 0 /\ table[h].recent = <<>> /\ Len(<<>>) = 0 /\ DOMAIN <<>> = {}
    BY <1>3 DEF Absent
  <2> QED
    BY <2>1, TableAssumption DEF RingOK
<1>9. Walked
  BY <1>3 DEF Walked
<1>10. NothingOutlivesItsTemplate
  <2> SUFFICES ASSUME NEW h \in Hashes  PROVE ~Carded(h) /\ ~Explained(h) /\ ~(inFlight[h] > 0)
    BY DEF NothingOutlivesItsTemplate
  <2> QED
    BY <1>3, <1>4 DEF Carded, Holds, Explained, Absent
<1>11. Owed
  BY <1>3 DEF Owed, Absent
<1> QED
  BY <1>1, <1>5, <1>6, <1>7, <1>8, <1>9, <1>10, <1>11 DEF TableInv

LEMMA TableInductive == TableInv /\ [Next]_vars => TableInv'
<1> SUFFICES ASSUME TableInv, [Next]_vars PROVE TableInv'
  OBVIOUS
<1>1. Inv'
  BY Inductive DEF TableInv
<1>2. ASSUME NEW h \in Hashes, NEW s \in Severities, LineArrives(h, s) PROVE TableInv'
  BY <1>1, <1>2, ArriveStep
<1>3. CASE Skip
  BY <1>1, <1>3, SkipStep
<1>4. CASE Evict
  BY <1>1, <1>4, EvictStep
<1>5. CASE ShrinkDone
  BY <1>1, <1>5, ShrinkDoneStep
<1>6. CASE Verdict
  BY <1>1, <1>6, VerdictStep
<1>7. ASSUME NEW h \in Hashes, Attach(h) PROVE TableInv'
  BY <1>1, <1>7, AttachStep
<1>8. CASE Tick
  BY <1>1, <1>8, TickStep
<1>9. CASE UNCHANGED vars
  <2>1. UNCHANGED <<clock, pc, line, gap, skips, table, order, bytes, inFlight, cards, cache, sweepAt,
                    tokens, last, start, lines, flags>>
    BY <1>9 DEF vars, lineVars, tableVars, scoreVars
  <2>2. Types'
    BY <2>1 DEF TableInv, Types, Records
  <2>3. Listed' /\ CardsListed' /\ NothingOutlivesItsTemplate' /\ Owed'
    BY <2>1 DEF TableInv, Owed, Listed, CardsListed, NothingOutlivesItsTemplate, In, Carded, Explained
  <2>4. RingsOK'
    BY <2>1 DEF TableInv, RingsOK
  <2>5. Walked'
    <3>1. (\A g \in Hashes : Fixed(g) => Fixed(g)') /\ (\A g \in Hashes : SteppedOver(g)' => SteppedOver(g))
      BY <2>1 DEF Fixed, Pinned, Carded, Explained, SteppedOver
    <3>2. Over' => Over
      BY <2>1 DEF Over
    <3> QED
      BY <2>1, <3>1, <3>2 DEF TableInv, Walked
  <2> QED
    BY <1>1, <2>2, <2>3, <2>4, <2>5 DEF TableInv
<1> QED
  BY <1>2, <1>3, <1>4, <1>5, <1>6, <1>7, <1>8, <1>9 DEF Next

THEOREM TableInvAlways == Spec => []TableInv
BY InitTableInv, TableInductive, PTL DEF Spec

-----------------------------------------------------------------------------
\* Every template, list, cache entry and token count stays of its type; no walk steps over
\* more than it may, no ring outgrows its capacity nor the cards theirs, and no template has
\* more answers counted out than in (upsert, pushRecent, shrink, evict, retain, Evaluate,
\* attach), for every table and every threshold.
THEOREM TypesAlwaysHold == Spec => []TypeOK
<1>1. TableInv => TypeOK
  <2> SUFFICES ASSUME TableInv  PROVE Bounded
    BY DEF TableInv, TypeOK
  <2>1. \A h \in Hashes : Len(table[h].recent) <= RecentCap
    BY DEF TableInv, RingsOK, RingOK
  <2>2. ASSUME NEW h \in Hashes  PROVE table[h].awaiting >= 0
    <3>1. table[h].awaiting = inFlight[h] /\ inFlight[h] \in Nat
      BY TypesOpen DEF TableInv, Owed
    <3> QED
      BY <3>1
  <2> QED
    BY <2>1, <2>2 DEF Bounded, TableInv, CardsListed
<1> QED
  BY TableInvAlways, <1>1, PTL

\* upsert and evict keep the list and the map together: a template is in the map exactly
\* when it is in the list, and it is in the list once; a line in hand keeps its template.
THEOREM ListAndMapAgree == Spec => []Listed
<1>1. TableInv => Listed
  BY DEF TableInv
<1> QED
  BY TableInvAlways, <1>1, PTL

\* evict's comment, for every table: nothing keyed by a hash (a card, an answer on its way,
\* a live cache entry) outlives its template, since pinned holds a template for each.
THEOREM NothingEverOutlivesItsTemplate == Spec => []NothingOutlivesItsTemplate
<1>1. TableInv => NothingOutlivesItsTemplate
  BY DEF TableInv
<1> QED
  BY TableInvAlways, <1>1, PTL

\* shrink gives a line up over a bound only behind the second half of a walk of templates
\* that pinned holds for good, or its own; MayBurst alone never keeps the table over.
THEOREM OnlyPinsKeepItOver == Spec => []OverOnlyBehindPins
<1>1. TableInv => OverOnlyBehindPins
  <2> SUFFICES ASSUME TableInv, pc = "score", Over, NEW i \in DOMAIN order,
                      i > Len(order) - (Walk - Walk \div 2)
               PROVE  order[i] = line.hash \/ Pinned(order[i])
    BY DEF OverOnlyBehindPins
  <2>1. skips = Walk
    BY DEF TableInv, Walked
  <2>2. order \in Seq(Hashes)
    BY TypesOpen DEF TableInv
  <2>3. order[i] \in Hashes
    BY <2>2, ElementOfSeq, LenProperties
  <2>4. SteppedOver(order[i])
    BY <2>1 DEF SteppedOver
  <2> QED
    BY <2>3, <2>4 DEF TableInv, Walked, Fixed
<1> QED
  BY TableInvAlways, <1>1, PTL

\* The occurrences in a window are no more than the slots there are.
LEMMA WindowIs ==
  ASSUME NEW t \in Records, NEW last1 \in Nat,
         \A i \in DOMAIN t.recent : t.recent[i] >= clock - BurstWindow => i = last1
  PROVE  InWindow(t) <= 1
<1> DEFINE seen == {i \in DOMAIN t.recent : t.recent[i] >= clock - BurstWindow}
<1>1. seen \subseteq {last1}
  OBVIOUS
<1>2. IsFiniteSet({last1}) /\ Cardinality({last1}) = 1
  BY FS_Singleton
<1>3. Cardinality(seen) <= 1
  BY <1>1, <1>2, FS_Subset
<1> QED
  BY <1>3 DEF InWindow

LEMMA WindowAtMost ==
  ASSUME NEW t \in Records
  PROVE  InWindow(t) <= Len(t.recent) /\ InWindow(t) \in Nat
<1> DEFINE seen == {i \in DOMAIN t.recent : t.recent[i] >= clock - BurstWindow}
           n == Len(t.recent)
<1>1. t.recent \in Seq(0..MaxTime)
  BY RecordFields
<1>2. n \in Nat /\ DOMAIN t.recent = 1..n
  BY <1>1, LenProperties
<1>3. IsFiniteSet(1..n) /\ Cardinality(1..n) = n
  BY <1>2, FS_Interval
<1>4. seen \subseteq 1..n
  BY <1>2
<1>5. Cardinality(seen) <= n /\ IsFiniteSet(seen)
  BY <1>3, <1>4, FS_Subset
<1>6. Cardinality(seen) \in Nat
  BY <1>5, FS_CardinalityType
<1> QED
  BY <1>5, <1>6 DEF InWindow

\* An evicted template that MayBurst did not hold could not have burst: it is too young, or
\* has had too few lines for a burst, or the line would be alone in the window.
LEMMA NoBurstIsLost ==
  ASSUME BaselineMinCount < BurstMinCount, 1 < BurstMinCount,
         TableInv, Evict, skips < Walk \div 2
  PROVE  ~WouldBurst(Head(order))
<1> DEFINE h == Head(order)
           t == table[h]
           r == table[h].recent
           o == Occurred(h)
<1>1. /\ Inv /\ GatesTypeOK /\ Types /\ Listed /\ RingsOK /\ pc = "shrink"
  BY DEF TableInv, Inv, Evict, Walking
<1>2. h \in Hashes /\ In(h)
  BY <1>1, FrontIs
<1>3. ~MayBurst(h)
  BY DEF Evict, Held
<1> HIDE DEF h
<1>4. /\ clock \in 0..MaxTime /\ clock \in Nat /\ MaxTime \in Nat /\ t \in Records
      /\ BaselineMinCount \in Nat /\ BurstMinCount \in Nat /\ BurstWindow \in Nat
      /\ BaselineMinAge \in Nat
  BY <1>1, <1>2, TypesOpen, ScoreAssumption
<1>5. /\ r \in Seq(0..MaxTime) /\ Len(r) \in Nat /\ DOMAIN r = 1..Len(r)
      /\ t.count \in Nat /\ t.count > 0 /\ RingOK(t, clock)
  BY <1>1, <1>2, <1>4, RecordFields, LenProperties DEF RingsOK, In
<1>6. /\ o \in Records /\ o.first = t.first /\ o.recent = Pushed(r)
      /\ o.count = Least(t.count + 1, CountCap)
  BY <1>1, <1>2, OccurredIs
<1>7. /\ Pushed(r) \in Seq(0..MaxTime) /\ Len(Pushed(r)) <= Len(r) + 1
      /\ \A i \in DOMAIN Pushed(r) :
           i = Len(Pushed(r)) \/ \E j \in DOMAIN r : Pushed(r)[i] = r[j]
  BY <1>4, <1>5, PushedIs DEF RingOK
<1>8. Len(Pushed(r)) \in Nat
  BY <1>7, LenProperties
<1> SUFFICES ASSUME CanBurst(o)  PROVE FALSE
  BY DEF WouldBurst, h
<1>9. InWindow(o) >= BurstMinCount /\ clock - t.first >= BaselineMinAge
  BY <1>6 DEF CanBurst
<1>10. CASE t.count < BaselineMinCount
  <2>1. t.count <= BaselineMinCount => Len(r) <= t.count
    BY <1>5 DEF RingOK
  <2>2. Len(Pushed(r)) <= BaselineMinCount
    <3> DEFINE c == t.count
               n == Len(r)
               m == Len(Pushed(r))
    <3>1. /\ c \in Nat /\ n \in Nat /\ m \in Nat /\ BaselineMinCount \in Nat
          /\ c < BaselineMinCount /\ m <= n + 1 /\ (c <= BaselineMinCount => n <= c)
      BY <1>4, <1>5, <1>7, <1>8, <1>10, <2>1
    <3> HIDE DEF c, n, m
    <3>2. m <= BaselineMinCount
      BY <3>1
    <3> QED
      BY <3>2 DEF m
  <2>3. InWindow(o) <= Len(Pushed(r)) /\ InWindow(o) \in Nat
    BY <1>6, WindowAtMost
  <2> HIDE DEF o, r
  <2> QED
    BY <1>4, <1>8, <1>9, <2>2, <2>3
<1>11. CASE t.count >= BaselineMinCount
  <2>1. ~(clock - LastSeen(h) <= BurstWindow)
    BY <1>3, <1>9, <1>11 DEF MayBurst
  <2>2. Len(r) # 0
    BY <1>5 DEF RingOK
  <2>3. LastSeen(h) = r[Len(r)] /\ Len(r) \in DOMAIN r
    BY <1>5, <2>2 DEF LastSeen
  <2>4. \A j \in DOMAIN r : r[j] <= r[Len(r)] /\ r[j] \in 0..MaxTime
    <3> SUFFICES ASSUME NEW j \in DOMAIN r  PROVE r[j] <= r[Len(r)] /\ r[j] \in 0..MaxTime
      OBVIOUS
    <3>1. j <= Len(r)
      BY <1>5
    <3>2. r[j] <= r[Len(r)]
      BY <1>5, <2>3, <3>1 DEF RingOK
    <3>3. r[j] \in 0..MaxTime
      BY <1>5, ElementOfSeq
    <3> QED
      BY <3>2, <3>3
  <2>5. \A j \in DOMAIN r : ~(r[j] >= clock - BurstWindow)
    <3> SUFFICES ASSUME NEW j \in DOMAIN r  PROVE ~(r[j] >= clock - BurstWindow)
      OBVIOUS
    <3> DEFINE x == r[j]
               y == r[Len(r)]
    <3>1. x \in Nat /\ y \in Nat /\ x <= y
      BY <1>4, <2>3, <2>4
    <3>2. ~(clock - y <= BurstWindow)
      BY <2>1, <2>3
    <3> HIDE DEF x, y
    <3>3. ~(x >= clock - BurstWindow)
      BY <1>4, <3>1, <3>2
    <3> QED
      BY <3>3 DEF x
  <2>6. \A i \in DOMAIN o.recent : o.recent[i] >= clock - BurstWindow => i = Len(Pushed(r))
    BY <1>6, <1>7, <2>5
  <2>7. InWindow(o) <= 1
    BY <1>6, <1>8, <2>6, WindowIs
  <2>8. InWindow(o) \in Nat
    BY <1>6, WindowAtMost
  <2> HIDE DEF o
  <2> QED
    BY <1>4, <1>9, <2>7, <2>8
<1> QED
  BY <1>4, <1>5, <1>10, <1>11

\* MayBurst's promise, for every table and every window, where a burst takes more lines than
\* a baseline does: the half of a walk that honours it evicts no template that could have
\* burst on a line at that instant.
THEOREM EvictionNeverCostsABurst ==
  ASSUME BaselineMinCount < BurstMinCount, 1 < BurstMinCount
  PROVE  Spec => EvictionCostsNoBurst
<1>1. TableInv => (Evict /\ skips < Walk \div 2 => ~WouldBurst(Head(order)))
  BY NoBurstIsLost
<1>2. Spec => [][Evict /\ skips < Walk \div 2 => ~WouldBurst(Head(order))]_vars
  BY TableInvAlways, <1>1, PTL DEF Spec
<1> QED
  BY <1>2 DEF EvictionCostsNoBurst
=============================================================================
