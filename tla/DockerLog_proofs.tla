--------------------------- MODULE DockerLog_proofs ---------------------------
(***************************************************************************)
(* One container's log, for every tail, read-ahead, log, course of stamps  *)
(* and number of followers: each stream is read once and in order, a       *)
(* follower that was not cut off left nothing behind, and one that was     *)
(* can always go on leaving.                                               *)
(***************************************************************************)
EXTENDS DockerLog, FiniteSetTheorems, SequenceTheorems, WellFoundedInduction, TLAPS

-----------------------------------------------------------------------------
(* The least and the greatest of a set of naturals.                        *)

\* A set of naturals with an element has a least one, and Min is it.
LEMMA LeastOf ==
  ASSUME NEW S \in SUBSET Nat, S # {}
  PROVE  Min(S) \in S /\ \A j \in S : Min(S) <= j
<1> DEFINE R == {ss \in Nat \X Nat : ss[1] < ss[2]}
<1>0. IsWellFoundedOn(R, Nat)
  BY NatLessThanWellFounded DEF OpToRel
<1>1. \E i \in S : \A j \in S : ~(<<j, i>> \in R)
  <2> HIDE DEF R
  <2> QED
    BY <1>0, WFMin
<1>2. \E i \in S : \A j \in S : i <= j
  <2> PICK i \in S : \A j \in S : ~(<<j, i>> \in R)
    BY <1>1
  <2> SUFFICES ASSUME NEW j \in S PROVE i <= j
    OBVIOUS
  <2>1. ~ (<<j, i>> \in R) /\ i \in Nat /\ j \in Nat
    OBVIOUS
  <2>2. ~ (j < i)
    BY <2>1
  <2> QED
    BY <2>1, <2>2
<1> QED
  BY <1>2 DEF Min

\* A bounded one has a greatest, and Max is it.
LEMMA GreatestOf ==
  ASSUME NEW S \in SUBSET Nat, NEW n \in Nat, \A j \in S : j <= n, S # {}
  PROVE  Max(S) \in S /\ \A j \in S : j <= Max(S)
<1> DEFINE T == {j \in Nat : j <= n /\ n - j \in S}
<1>1. T \in SUBSET Nat /\ T # {}
  <2> PICK i \in S : TRUE
    OBVIOUS
  <2>1. n - i \in T
    OBVIOUS
  <2> QED
    BY <2>1
<1>2. PICK k \in T : \A j \in T : k <= j
  <2> HIDE DEF T
  <2> QED
    BY <1>1, LeastOf
<1>3. \A j \in S : j <= n - k
  <2> TAKE j \in S
  <2>1. n - j \in T /\ k \in Nat /\ j \in Nat
    OBVIOUS
  <2>2. k <= n - j
    BY <1>2, <2>1
  <2> QED
    BY <2>1, <2>2
<1> QED
  BY <1>2, <1>3 DEF Max

-----------------------------------------------------------------------------
(***************************************************************************)
(* A stream's lines in a log f, and how many of one stamp there are up to  *)
(* a line or before it.  The count of a mark is such a number.             *)
(***************************************************************************)
IsLine(f, s, i) == i \in DOMAIN f /\ f[i].s = s
Upto(f, s, t, k)   == {j \in DOMAIN f : f[j].s = s /\ f[j].at = t /\ j <= k}
Before(f, s, t, k) == {j \in DOMAIN f : f[j].s = s /\ f[j].at = t /\ j < k}
NoneIn(f, s, a, b) == \A j \in DOMAIN f : IsLine(f, s, j) => ~ (a < j /\ j < b)
InOrder(f) ==
  \A s \in Streams : \A i, j \in DOMAIN f :
    IsLine(f, s, i) /\ IsLine(f, s, j) /\ i < j => f[i].at <= f[j].at

\* These counts are naturals, no more than the log is long.
LEMMA CountsAreFinite ==
  ASSUME NEW f \in Seq(Line), NEW s, NEW t, NEW k
  PROVE  /\ IsFiniteSet(Upto(f, s, t, k)) /\ IsFiniteSet(Before(f, s, t, k))
         /\ Cardinality(Upto(f, s, t, k)) \in Nat /\ Cardinality(Upto(f, s, t, k)) <= Len(f)
         /\ Cardinality(Before(f, s, t, k)) \in Nat
<1>1. Len(f) \in Nat /\ DOMAIN f = 1..Len(f)
  OBVIOUS
<1>2. IsFiniteSet(1..Len(f)) /\ Cardinality(1..Len(f)) = Len(f)
  BY <1>1, FS_Interval
<1>3. Upto(f, s, t, k) \in SUBSET (1..Len(f)) /\ Before(f, s, t, k) \in SUBSET (1..Len(f))
  BY <1>1 DEF Upto, Before
<1> QED
  BY <1>2, <1>3, FS_Subset, FS_CardinalityType

\* Counting a line that comes after all that were counted.
LEMMA CountOneMore ==
  ASSUME NEW f \in Seq(Line), NEW s, NEW k \in Nat, NEW i \in DOMAIN f, IsLine(f, s, i),
         NoneIn(f, s, k, i), k < i
  PROVE  Cardinality(Upto(f, s, f[i].at, i)) = Cardinality(Upto(f, s, f[i].at, k)) + 1
<1>1. Upto(f, s, f[i].at, i) = Upto(f, s, f[i].at, k) \cup {i} /\ i \notin Upto(f, s, f[i].at, k)
  BY DEF Upto, IsLine, NoneIn
<1> QED
  BY <1>1, CountsAreFinite, FS_AddElement

\* Counting a line of that stamp itself.
LEMMA CountUptoIt ==
  ASSUME NEW f \in Seq(Line), NEW s, NEW i \in DOMAIN f, IsLine(f, s, i)
  PROVE  Cardinality(Upto(f, s, f[i].at, i)) = Cardinality(Before(f, s, f[i].at, i)) + 1
<1>1. Upto(f, s, f[i].at, i) = Before(f, s, f[i].at, i) \cup {i}
      /\ i \notin Before(f, s, f[i].at, i)
  BY DEF Upto, Before, IsLine
<1> QED
  BY <1>1, CountsAreFinite, FS_AddElement

\* The first line of its stamp, with nothing of that stamp before it.
LEMMA CountFromOne ==
  ASSUME NEW f \in Seq(Line), NEW s, NEW i \in DOMAIN f, IsLine(f, s, i)
  PROVE  /\ Cardinality(Upto(f, s, f[i].at, i)) >= 1
         /\ (\A j \in DOMAIN f : IsLine(f, s, j) /\ j < i => f[j].at # f[i].at)
              => Cardinality(Upto(f, s, f[i].at, i)) = 1
<1>1. Cardinality(Upto(f, s, f[i].at, i)) = Cardinality(Before(f, s, f[i].at, i)) + 1
      /\ Cardinality(Before(f, s, f[i].at, i)) \in Nat
  BY CountUptoIt, CountsAreFinite
<1>2. ASSUME \A j \in DOMAIN f : IsLine(f, s, j) /\ j < i => f[j].at # f[i].at
      PROVE  Cardinality(Before(f, s, f[i].at, i)) = 0
  <2>1. Before(f, s, f[i].at, i) = {}
    BY <1>2 DEF Before, IsLine
  <2> QED
    BY <2>1, FS_EmptySet
<1> QED
  BY <1>1, <1>2

\* More of a stamp up to k than before i: one of them is at i or after it.
LEMMA SomeAreLeft ==
  ASSUME NEW f \in Seq(Line), NEW s, NEW t, NEW k, NEW i \in Nat,
         Cardinality(Before(f, s, t, i)) < Cardinality(Upto(f, s, t, k))
  PROVE  \E j \in DOMAIN f : IsLine(f, s, j) /\ f[j].at = t /\ i <= j /\ j <= k
<1> SUFFICES ASSUME \A j \in DOMAIN f : IsLine(f, s, j) /\ f[j].at = t /\ j <= k => j < i
             PROVE  FALSE
  OBVIOUS
<1>1. Upto(f, s, t, k) \in SUBSET Before(f, s, t, i)
  BY DEF Upto, Before, IsLine
<1>2. Cardinality(Upto(f, s, t, k)) <= Cardinality(Before(f, s, t, i))
  BY <1>1, CountsAreFinite, FS_Subset
<1> QED
  BY <1>2, CountsAreFinite

\* As many before i as up to a line of that stamp: that line is before i.
LEMMA NoneAreLeft ==
  ASSUME NEW f \in Seq(Line), NEW s, NEW k \in DOMAIN f, IsLine(f, s, k), NEW i \in Nat,
         Cardinality(Before(f, s, f[k].at, i)) >= Cardinality(Upto(f, s, f[k].at, k))
  PROVE  k < i
<1> SUFFICES ASSUME ~ (k < i) PROVE FALSE
  OBVIOUS
<1>1. Before(f, s, f[k].at, i) \in SUBSET Upto(f, s, f[k].at, k)
  BY DEF Upto, Before
<1>2. k \in Upto(f, s, f[k].at, k) /\ k \notin Before(f, s, f[k].at, i)
  BY DEF Upto, Before, IsLine
<1>3. Cardinality(Before(f, s, f[k].at, i)) # Cardinality(Upto(f, s, f[k].at, k))
      /\ Cardinality(Before(f, s, f[k].at, i)) <= Cardinality(Upto(f, s, f[k].at, k))
  BY <1>1, <1>2, CountsAreFinite, FS_Subset
<1> QED
  BY <1>3, CountsAreFinite

-----------------------------------------------------------------------------
(***************************************************************************)
(* The inductive invariant, stream by stream.  At(s) is how far the        *)
(* follower has come in the stream: every line of it before At(s) was      *)
(* skipped, delivered or not asked for.                                    *)
(***************************************************************************)
Writing(s) == demux = "write" /\ file[frame].s = s
At(s) ==
  IF ahead[s] # <<>> THEN Head(ahead[s]) ELSE IF Writing(s) THEN frame ELSE cursor

\* The daemon's log and the demuxer's place in it.
LogOK ==
  /\ InOrder(file)
  /\ cursor <= Len(file) + 1 /\ (end # Live => end <= Len(file))
  /\ follower = "none" => demux = "done" /\ \A s \in Streams : reader[s] = "done"
  /\ demux = "write" => frame \in DOMAIN file /\ frame < cursor /\ file[frame].at >= since

\* What lies between the demuxer and a reader: lines of its stream, in order, all of those
\* asked for from At(s) on.
PipeOf(s) ==
  /\ reader[s] = "done" => ahead[s] = <<>>
  /\ \A a \in DOMAIN ahead[s] :
       /\ IsLine(file, s, ahead[s][a]) /\ ahead[s][a] < cursor
       /\ file[ahead[s][a]].at >= since
       /\ Writing(s) => ahead[s][a] < frame
  /\ \A a, b \in DOMAIN ahead[s] : a < b => ahead[s][a] < ahead[s][b]
  /\ reader[s] = "read" =>
       \A i \in DOMAIN file :
         IsLine(file, s, i) /\ At(s) <= i /\ i < cursor /\ file[i].at >= since =>
           \/ \E a \in DOMAIN ahead[s] : ahead[s][a] = i
           \/ Writing(s) /\ i = frame

\* A mark is the stamp of the last line delivered and how many of that stamp there were.
GotOf(s) ==
  /\ \A a \in DOMAIN got[s] : IsLine(file, s, got[s][a])
  /\ got[s] = <<>> => mark[s] = NoMark
  /\ got[s] # <<>> =>
       /\ mark[s].at = file[Last(got[s])].at
       /\ mark[s].n <= Cardinality(Upto(file, s, mark[s].at, Last(got[s])))
       /\ ~ TailSplitsAStamp(s) =>
            mark[s].n = Cardinality(Upto(file, s, mark[s].at, Last(got[s])))

\* Either this follower has delivered nothing of the stream, and what it has still to skip
\* and what it has passed make up its mark; or it is past all that was ever delivered.
ResumesOf(s) ==
  \/ /\ mark[s] = prev[s]
     /\ skip[s] + Cardinality(Before(file, s, prev[s].at, At(s))) = prev[s].n
  \/ skip[s] = 0 /\ Last(got[s]) < At(s)

ReadOf(s) ==
  reader[s] = "read" =>
    /\ prev[s].at = 0 => skip[s] = 0
    /\ prev[s].at <= mark[s].at /\ (prev[s].at # 0 => since <= prev[s].at)
    /\ got[s] # <<>> =>
         /\ file[Last(got[s])].at >= since
         /\ NoneIn(file, s, Last(got[s]), At(s))
         /\ ResumesOf(s)

OnceOf(s) ==
  ~ TailSplitsAStamp(s) =>
    \A i \in 1..(Len(got[s]) - 1) :
      got[s][i] < got[s][i + 1] /\ NoneIn(file, s, got[s][i], got[s][i + 1])

\* A follower nobody cancelled stops only at the end of the log.
EndOK ==
  ~ cancelled /\ followers > 0 =>
    /\ demux = "done" => end # Live /\ ToSend = {}
    /\ \A s \in Streams : reader[s] = "done" =>
         /\ demux = "done"
         /\ got[s] # <<>> => NoneIn(file, s, Last(got[s]), end + 1)

StreamOK(s) == PipeOf(s) /\ GotOf(s) /\ ReadOf(s) /\ OnceOf(s)

Inv == TypeOK /\ LogOK /\ EndOK /\ \A s \in Streams : StreamOK(s)

-----------------------------------------------------------------------------
(* Plain facts of a state.                                                 *)

\* The types of a log's lines.
LEMMA LineFacts ==
  ASSUME NEW f \in Seq(Line)
  PROVE  /\ Len(f) \in Nat /\ DOMAIN f = 1..Len(f)
         /\ \A i \in DOMAIN f : i \in Nat /\ f[i].s \in Streams /\ f[i].at \in 1..MaxStamp
                                /\ f[i].at \in Nat /\ f[i].at > 0
<1>1. Len(f) \in Nat /\ DOMAIN f = 1..Len(f)
  OBVIOUS
<1>2. ASSUME NEW i \in DOMAIN f
      PROVE  /\ i \in Nat /\ f[i].s \in Streams /\ f[i].at \in 1..MaxStamp
             /\ f[i].at \in Nat /\ f[i].at > 0
  <2>1. f[i] \in Line /\ i \in Nat
    BY <1>1
  <2> QED
    BY <2>1, DockerLogAssumption DEF Line
<1> QED
  BY <1>1, <1>2

\* The head and the tail of a sequence that has one.
LEMMA HeadOfASeq ==
  ASSUME NEW S, NEW q \in Seq(S), q # <<>>
  PROVE  /\ Len(q) \in Nat /\ Len(q) > 0 /\ DOMAIN q = 1..Len(q)
         /\ Head(q) = q[1] /\ Head(q) \in S
         /\ Tail(q) \in Seq(S) /\ Len(Tail(q)) = Len(q) - 1
         /\ DOMAIN Tail(q) = 1..(Len(q) - 1)
         /\ \A a \in DOMAIN Tail(q) : a + 1 \in DOMAIN q /\ Tail(q)[a] = q[a + 1]
<1>1. Len(q) \in Nat /\ Len(q) > 0 /\ DOMAIN q = 1..Len(q)
  BY EmptySeq
<1>2. /\ Tail(q) \in Seq(S) /\ Len(Tail(q)) = Len(q) - 1
      /\ \A a \in 1..Len(Tail(q)) : Tail(q)[a] = q[a + 1]
  BY HeadTailProperties
<1>3. DOMAIN Tail(q) = 1..Len(Tail(q))
  BY <1>2
<1> QED
  BY <1>1, <1>2, <1>3

\* The same of a sequence of line numbers.
LEMMA HeadFacts ==
  ASSUME NEW q \in Seq(1..MaxLog), q # <<>>
  PROVE  /\ Len(q) \in Nat /\ Len(q) > 0 /\ 1 \in DOMAIN q /\ DOMAIN q = 1..Len(q)
         /\ Head(q) = q[1] /\ Head(q) \in 1..MaxLog /\ Head(q) \in Nat
         /\ Tail(q) \in Seq(1..MaxLog) /\ Len(Tail(q)) = Len(q) - 1
         /\ DOMAIN Tail(q) = 1..(Len(q) - 1)
         /\ \A a \in DOMAIN Tail(q) : a + 1 \in DOMAIN q /\ Tail(q)[a] = q[a + 1]
<1> DEFINE S == 1..MaxLog
<1>1. q \in Seq(S) /\ S \subseteq Nat
  BY DockerLogAssumption
<1> HIDE DEF S
<1>2. /\ Len(q) \in Nat /\ Len(q) > 0 /\ DOMAIN q = 1..Len(q)
      /\ Head(q) = q[1] /\ Head(q) \in S
      /\ Tail(q) \in Seq(S) /\ Len(Tail(q)) = Len(q) - 1
      /\ DOMAIN Tail(q) = 1..(Len(q) - 1)
      /\ \A a \in DOMAIN Tail(q) : a + 1 \in DOMAIN q /\ Tail(q)[a] = q[a + 1]
  BY <1>1, HeadOfASeq, Zenon
<1>3. 1 \in DOMAIN q
  BY <1>2
<1> QED
  BY <1>1, <1>2, <1>3 DEF S

\* The last line delivered of a stream, and its mark.
LEMMA LastFacts ==
  ASSUME TypeOK, NEW s \in Streams, GotOf(s), got[s] # <<>>
  PROVE  /\ Last(got[s]) \in DOMAIN file /\ IsLine(file, s, Last(got[s]))
         /\ mark[s].at = file[Last(got[s])].at /\ mark[s].at > 0
         /\ mark[s].at \in Nat /\ mark[s].n \in Nat
<1>1. got[s] \in Seq(1..MaxLog) /\ file \in Seq(Line) /\ mark[s] \in Mark
  BY DEF TypeOK
<1>2. Len(got[s]) \in DOMAIN got[s]
  BY <1>1
<1>3. IsLine(file, s, Last(got[s]))
  BY <1>2 DEF GotOf, Last
<1> QED
  BY <1>1, <1>3, LineFacts DEF GotOf, IsLine, Mark

\* How far the follower has come in a stream.
LEMMA AtFacts ==
  ASSUME TypeOK, LogOK, NEW s \in Streams, PipeOf(s)
  PROVE  /\ At(s) \in Nat /\ At(s) <= cursor
         /\ ahead[s] # <<>> =>
              /\ At(s) = Head(ahead[s]) /\ Head(ahead[s]) \in DOMAIN file
              /\ IsLine(file, s, Head(ahead[s])) /\ Head(ahead[s]) < cursor
              /\ file[Head(ahead[s])].at >= since
<1>1. ahead[s] \in Seq(1..MaxLog) /\ cursor \in Nat /\ frame \in Nat
  BY DockerLogAssumption DEF TypeOK
<1>2. CASE ahead[s] # <<>>
  <2>1. 1 \in DOMAIN ahead[s] /\ Head(ahead[s]) = ahead[s][1] /\ Head(ahead[s]) \in Nat
    BY <1>1, <1>2, HeadFacts
  <2> QED
    BY <1>1, <1>2, <2>1 DEF PipeOf, At, IsLine
<1>3. CASE ahead[s] = <<>>
  BY <1>1, <1>3 DEF LogOK, At, Writing
<1> QED
  BY <1>2, <1>3

-----------------------------------------------------------------------------
(* Steps that leave a stream alone.                                        *)

\* Nothing is delivered.
LEMMA SameGot ==
  ASSUME NEW s \in Streams, GotOf(s), OnceOf(s), file' = file,
         got'[s] = got[s], mark'[s] = mark[s]
  PROVE  GotOf(s)' /\ OnceOf(s)'
BY DEF GotOf, OnceOf, TailSplitsAStamp, LinesOf

SameView(s) ==
  /\ file' = file /\ cursor' = cursor /\ since' = since
  /\ reader'[s] = reader[s] /\ ahead'[s] = ahead[s]
  /\ prev'[s] = prev[s] /\ skip'[s] = skip[s]
  /\ mark'[s] = mark[s] /\ got'[s] = got[s]
  /\ Writing(s)' <=> Writing(s)
  /\ Writing(s) => frame' = frame

\* Seen from one stream, nothing changes.
LEMMA SameAt ==
  ASSUME NEW s \in Streams, SameView(s)
  PROVE  At(s)' = At(s)
BY DEF SameView, At

\* Nor does what holds of it.
LEMMA SameStream ==
  ASSUME NEW s \in Streams, StreamOK(s), SameView(s)
  PROVE  StreamOK(s)'
<1>1. At(s)' = At(s)
  BY SameAt
<1>2. GotOf(s)' /\ OnceOf(s)'
  BY SameGot DEF StreamOK, SameView
<1>3. PipeOf(s)'
  BY <1>1 DEF StreamOK, SameView, PipeOf
<1>4. ReadOf(s)'
  BY <1>1 DEF StreamOK, SameView, ReadOf, ResumesOf
<1> QED
  BY <1>2, <1>3, <1>4 DEF StreamOK

\* A reader that has returned.
LEMMA StoppedStream ==
  ASSUME NEW s \in Streams, StreamOK(s), file' = file,
         got'[s] = got[s], mark'[s] = mark[s], reader'[s] = "done", ahead'[s] = <<>>
  PROVE  StreamOK(s)'
<1>1. GotOf(s)' /\ OnceOf(s)'
  BY SameGot DEF StreamOK
<1>2. PipeOf(s)' /\ ReadOf(s)'
  BY DEF PipeOf, ReadOf
<1> QED
  BY <1>1, <1>2 DEF StreamOK

\* The follower comes further in a stream by lines it did not ask for.
LEMMA MovesOn ==
  ASSUME Inv, NEW s \in Streams, TypeOK', file' = file, since' = since,
         reader'[s] = reader[s], prev'[s] = prev[s], skip'[s] = skip[s],
         mark'[s] = mark[s], got'[s] = got[s],
         At(s)' \in Nat, At(s) <= At(s)',
         reader[s] = "read" =>
           \A j \in DOMAIN file :
             IsLine(file, s, j) /\ At(s) <= j /\ j < At(s)' => file[j].at < since
  PROVE  ReadOf(s)'
<1> SUFFICES ASSUME reader[s] = "read" PROVE ReadOf(s)'
  BY DEF ReadOf
<1>1. /\ TypeOK /\ PipeOf(s) /\ GotOf(s) /\ ReadOf(s) /\ LogOK
      /\ file \in Seq(Line) /\ since \in Nat /\ At(s) \in Nat
  <2>1. TypeOK /\ PipeOf(s) /\ GotOf(s) /\ ReadOf(s) /\ LogOK
    BY DEF Inv, StreamOK
  <2>2. file \in Seq(Line) /\ since \in Nat
    BY <2>1, DockerLogAssumption DEF TypeOK
  <2> QED
    BY <2>1, <2>2, AtFacts
<1>2. ASSUME got[s] # <<>>
      PROVE  NoneIn(file, s, Last(got[s]), At(s)') /\ ResumesOf(s)'
  <2>1. /\ IsLine(file, s, Last(got[s])) /\ mark[s].at = file[Last(got[s])].at /\ mark[s].at > 0
        /\ file[Last(got[s])].at >= since /\ Last(got[s]) \in DOMAIN file
        /\ NoneIn(file, s, Last(got[s]), At(s)) /\ ResumesOf(s)
    BY <1>1, <1>2, LastFacts DEF ReadOf
  <2>2. NoneIn(file, s, Last(got[s]), At(s)')
    <3> SUFFICES ASSUME NEW j \in DOMAIN file, IsLine(file, s, j), Last(got[s]) < j, j < At(s)'
                 PROVE  FALSE
      BY DEF NoneIn
    <3>1. ~ (j < At(s)) /\ j \in Nat
      BY <1>1, <2>1, LineFacts DEF NoneIn
    <3>2. file[j].at < since /\ file[Last(got[s])].at <= file[j].at
      BY <1>1, <2>1, <3>1 DEF LogOK, InOrder
    <3>3. file[j].at \in Nat /\ file[Last(got[s])].at \in Nat
      BY <1>1, <2>1, LineFacts
    <3> QED
      BY <1>1, <2>1, <3>2, <3>3
  <2>3. ResumesOf(s)'
    <3>1. CASE skip[s] = 0 /\ Last(got[s]) < At(s)
      <4>1. Last(got[s]) < At(s)'
        BY <1>1, <2>1, <3>1, LineFacts
      <4> QED
        BY <3>1, <4>1 DEF ResumesOf
    <3>2. CASE /\ mark[s] = prev[s]
               /\ skip[s] + Cardinality(Before(file, s, prev[s].at, At(s))) = prev[s].n
      <4>1. since <= prev[s].at /\ prev[s].at \in Nat
        BY <1>1, <2>1, <3>2, LineFacts DEF ReadOf
      <4>2. \A j \in DOMAIN file :
              IsLine(file, s, j) /\ file[j].at = prev[s].at => (j < At(s) <=> j < At(s)')
        <5> TAKE j \in DOMAIN file
        <5>1. j \in Nat
          BY <1>1, LineFacts
        <5> QED
          BY <1>1, <4>1, <5>1
      <4>3. Before(file, s, prev[s].at, At(s)) = Before(file, s, prev[s].at, At(s)')
        BY <4>2 DEF Before, IsLine
      <4> QED
        BY <3>2, <4>3 DEF ResumesOf
    <3> QED
      BY <2>1, <3>1, <3>2 DEF ResumesOf
  <2> QED
    BY <2>2, <2>3
<1> QED
  BY <1>1, <1>2 DEF ReadOf

-----------------------------------------------------------------------------
(* A reader takes the next line from its pipe, to skip it or to send it.   *)

Takes(s) ==
  /\ reader[s] = "read" /\ ahead[s] # <<>>
  /\ ahead' = [ahead EXCEPT ![s] = Tail(@)]
  /\ file' = file /\ cursor' = cursor /\ since' = since
  /\ demux' = demux /\ frame' = frame /\ reader' = reader /\ prev' = prev

\* The pipe is a line shorter, and no line of the stream lies between that one and the next.
LEMMA TakesOn ==
  ASSUME Inv, NEW s \in Streams, Takes(s)
  PROVE  /\ PipeOf(s)' /\ At(s)' \in Nat /\ Head(ahead[s]) < At(s)'
         /\ NoneIn(file, s, Head(ahead[s]), At(s)')
<1> DEFINE q == ahead[s]  i == Head(ahead[s])  r == Tail(ahead[s])
<1>1. /\ TypeOK /\ LogOK /\ PipeOf(s) /\ reader[s] = "read" /\ q # <<>>
      /\ q \in Seq(1..MaxLog) /\ cursor \in Nat /\ frame \in Nat /\ file \in Seq(Line)
      /\ since \in Nat
  BY DockerLogAssumption DEF Inv, StreamOK, Takes, TypeOK
<1>2. ahead'[s] = r
  BY <1>1 DEF Takes, TypeOK
<1>3. Writing(s)' <=> Writing(s)
  BY DEF Takes, Writing
<1>4. /\ IsLine(file, s, i) /\ i \in DOMAIN file /\ i < cursor /\ i \in Nat
      /\ file[i].at >= since /\ At(s) = i
  BY <1>1, AtFacts, HeadFacts
<1>5. /\ Len(q) \in Nat /\ Len(q) > 0 /\ DOMAIN q = 1..Len(q) /\ i = q[1]
      /\ r \in Seq(1..MaxLog) /\ DOMAIN r = 1..(Len(q) - 1)
      /\ Len(r) = Len(q) - 1
      /\ \A a \in DOMAIN r : a + 1 \in DOMAIN q /\ r[a] = q[a + 1]
  BY <1>1, HeadFacts
<1>6. /\ \A a \in DOMAIN q :
           /\ IsLine(file, s, q[a]) /\ q[a] < cursor /\ file[q[a]].at >= since
           /\ Writing(s) => q[a] < frame
           /\ q[a] \in Nat
      /\ \A a, b \in DOMAIN q : a < b => q[a] < q[b]
      /\ \A j \in DOMAIN file :
           IsLine(file, s, j) /\ i <= j /\ j < cursor /\ file[j].at >= since =>
             (\E a \in DOMAIN q : q[a] = j) \/ (Writing(s) /\ j = frame)
  BY <1>1, <1>4, LineFacts DEF PipeOf, IsLine
<1> HIDE DEF q, i, r
<1>7. \/ r # <<>> /\ At(s)' = q[2] /\ 2 \in DOMAIN q
      \/ r = <<>> /\ DOMAIN q = {1} /\ Writing(s) /\ At(s)' = frame
      \/ r = <<>> /\ DOMAIN q = {1} /\ ~ Writing(s) /\ At(s)' = cursor
  <2>1. CASE r # <<>>
    <3>1. Head(r) = r[1] /\ 1 \in DOMAIN r
      BY <1>5, <2>1, HeadFacts
    <3>2. Head(r) = q[2] /\ 2 \in DOMAIN q
      BY <1>5, <3>1
    <3>3. ahead'[s] # <<>>
      BY <1>2, <2>1
    <3>4. At(s)' = Head(ahead'[s])
      BY <3>3 DEF At
    <3>5. At(s)' = q[2]
      BY <1>2, <3>2, <3>4
    <3> QED
      BY <2>1, <3>2, <3>5
  <2>2. CASE r = <<>>
    <3>1. DOMAIN q = {1}
      <4>1. Len(r) = 0
        BY <2>2
      <4>2. Len(q) = 1
        BY <1>5, <4>1
      <4> QED
        BY <1>5, <4>2
    <3>2. ahead'[s] = <<>> /\ frame' = frame /\ cursor' = cursor
      BY <1>2, <2>2 DEF Takes
    <3>3. At(s)' = IF Writing(s)' THEN frame' ELSE cursor'
      BY <3>2 DEF At
    <3> QED
      BY <1>3, <2>2, <3>1, <3>2, <3>3
  <2> QED
    BY <2>1, <2>2
<1>8. At(s)' \in Nat /\ i < At(s)'
  <2>1. CASE r # <<>> /\ At(s)' = q[2] /\ 2 \in DOMAIN q
    BY <1>5, <1>6, <2>1
  <2>2. CASE Writing(s) /\ At(s)' = frame
    BY <1>1, <1>5, <1>6, <2>2
  <2>3. CASE At(s)' = cursor
    BY <1>1, <1>4, <2>3
  <2> QED
    BY <1>7, <2>1, <2>2, <2>3
<1>9. NoneIn(file, s, i, At(s)')
  <2> SUFFICES ASSUME NEW j \in DOMAIN file, IsLine(file, s, j), i < j, j < At(s)'
               PROVE  FALSE
    BY DEF NoneIn
  <2>1. j \in Nat /\ At(s)' <= cursor
    BY <1>1, <1>6, <1>7, LineFacts DEF LogOK, Writing
  <2>2. file[j].at >= since
    <3>1. file[i].at <= file[j].at /\ file[i].at \in Nat /\ file[j].at \in Nat
      BY <1>1, <1>4, LineFacts DEF LogOK, InOrder
    <3> QED
      BY <1>1, <1>4, <3>1
  <2>3. (\E a \in DOMAIN q : q[a] = j) \/ (Writing(s) /\ j = frame)
    BY <1>1, <1>4, <1>6, <1>8, <2>1, <2>2
  <2>4. ASSUME NEW a \in DOMAIN q, q[a] = j PROVE FALSE
    <3>1. a # 1 /\ a \in Nat /\ a >= 1
      BY <1>4, <1>5, <2>4
    <3>2. 2 \in DOMAIN q /\ At(s)' = q[2]
      BY <1>5, <1>7, <2>4, <3>1
    <3>3. a = 2 \/ q[2] < q[a]
      BY <1>6, <3>1, <3>2
    <3> QED
      BY <1>6, <2>1, <2>4, <3>2, <3>3
  <2>5. ASSUME Writing(s), j = frame PROVE FALSE
    BY <1>6, <1>7, <2>1, <2>5
  <2> QED
    BY <2>3, <2>4, <2>5
<1>10. PipeOf(s)'
  <2>1. \A a \in DOMAIN r :
          /\ IsLine(file, s, r[a]) /\ r[a] < cursor /\ file[r[a]].at >= since
          /\ Writing(s) => r[a] < frame
    BY <1>5, <1>6
  <2>2. \A a, b \in DOMAIN r : a < b => r[a] < r[b]
    <3> TAKE a, b \in DOMAIN r
    <3>1. a < b => a + 1 < b + 1
      BY <1>5
    <3> QED
      BY <1>5, <1>6, <3>1
  <2>3. \A j \in DOMAIN file :
          IsLine(file, s, j) /\ At(s)' <= j /\ j < cursor /\ file[j].at >= since =>
            (\E a \in DOMAIN r : r[a] = j) \/ (Writing(s) /\ j = frame)
    <3> SUFFICES ASSUME NEW j \in DOMAIN file, IsLine(file, s, j), At(s)' <= j, j < cursor,
                        file[j].at >= since, ~ (Writing(s) /\ j = frame)
                 PROVE  \E a \in DOMAIN r : r[a] = j
      OBVIOUS
    <3>1. j \in Nat /\ i < j
      BY <1>1, <1>4, <1>8, LineFacts
    <3>2. PICK a \in DOMAIN q : q[a] = j
      BY <1>4, <1>6, <3>1
    <3>3. a - 1 \in DOMAIN r
      BY <1>4, <1>5, <3>1, <3>2
    <3>4. r[a - 1] = q[a]
      BY <1>5, <3>3
    <3> QED
      BY <3>2, <3>3, <3>4
  <2>4. ahead'[s] = r /\ reader'[s] # "done"
    BY <1>1, <1>2 DEF Takes
  <2>5. file' = file /\ cursor' = cursor /\ since' = since /\ frame' = frame
    BY DEF Takes
  <2> QED
    BY <1>3, <2>1, <2>2, <2>3, <2>4, <2>5 DEF PipeOf
<1> QED
  BY <1>8, <1>9, <1>10 DEF i

\* While there is something to skip, the next line is among what was delivered, and has been
\* seen; past what was delivered, no line is older than the mark.
LEMMA NextLine ==
  ASSUME Inv, NEW s \in Streams, reader[s] = "read", ahead[s] # <<>>, got[s] # <<>>
  PROVE  LET i == Head(ahead[s]) IN
         /\ skip[s] > 0 => i <= Last(got[s]) /\ Seen(s, i)
         /\ Last(got[s]) < i => file[i].at >= mark[s].at
         /\ skip[s] > 0 => mark[s] = prev[s]
                           /\ skip[s] + Cardinality(Before(file, s, prev[s].at, i)) = prev[s].n
<1> DEFINE i == Head(ahead[s])
<1>1. /\ TypeOK /\ LogOK /\ PipeOf(s) /\ GotOf(s) /\ ReadOf(s)
      /\ file \in Seq(Line) /\ skip[s] \in Nat
  BY DockerLogAssumption DEF Inv, StreamOK, TypeOK
<1>2. /\ IsLine(file, s, i) /\ i \in DOMAIN file /\ i \in Nat /\ At(s) = i
      /\ file[i].at \in Nat
  BY <1>1, AtFacts, LineFacts
<1>3. /\ Last(got[s]) \in DOMAIN file /\ IsLine(file, s, Last(got[s]))
      /\ Last(got[s]) \in Nat
      /\ mark[s].at = file[Last(got[s])].at /\ mark[s].at > 0
      /\ mark[s].at \in Nat /\ mark[s].n \in Nat
  BY <1>1, LastFacts, LineFacts
<1> HIDE DEF i
<1>4. ASSUME skip[s] > 0
      PROVE  /\ mark[s] = prev[s]
             /\ skip[s] + Cardinality(Before(file, s, prev[s].at, i)) = prev[s].n
             /\ i <= Last(got[s]) /\ Seen(s, i)
  <2>1. /\ mark[s] = prev[s]
        /\ skip[s] + Cardinality(Before(file, s, prev[s].at, i)) = prev[s].n
    BY <1>1, <1>2, <1>4 DEF ReadOf, ResumesOf
  <2>2. Cardinality(Before(file, s, prev[s].at, i)) < Cardinality(Upto(file, s, prev[s].at, Last(got[s])))
    <3>1. /\ Cardinality(Before(file, s, prev[s].at, i)) \in Nat
          /\ Cardinality(Upto(file, s, prev[s].at, Last(got[s]))) \in Nat
      BY <1>1, CountsAreFinite
    <3>2. mark[s].n <= Cardinality(Upto(file, s, mark[s].at, Last(got[s])))
      BY <1>1 DEF GotOf
    <3> QED
      BY <1>1, <1>3, <1>4, <2>1, <3>1, <3>2
  <2>3. PICK j \in DOMAIN file :
          IsLine(file, s, j) /\ file[j].at = prev[s].at /\ i <= j /\ j <= Last(got[s])
    BY <1>1, <1>2, <2>2, SomeAreLeft
  <2>4. file[i].at <= file[j].at /\ j \in Nat /\ file[j].at \in Nat
    <3>1. j \in Nat /\ file[j].at \in Nat
      BY <1>1, LineFacts
    <3>2. i = j \/ i < j
      BY <1>2, <2>3, <3>1
    <3> QED
      BY <1>1, <1>2, <2>3, <3>1, <3>2 DEF LogOK, InOrder
  <2>5. i <= Last(got[s])
    BY <1>2, <1>3, <2>3, <2>4
  <2>6. Seen(s, i)
    BY <1>2, <1>3, <1>4, <2>1, <2>3, <2>4 DEF Seen
  <2> QED
    BY <2>1, <2>5, <2>6
<1>5. Last(got[s]) < i => file[i].at >= mark[s].at
  BY <1>1, <1>2, <1>3 DEF LogOK, InOrder
<1> QED
  BY <1>4, <1>5 DEF i

\* A line an earlier follower delivered.
LEMMA SkipsKeeps ==
  ASSUME Inv, NEW s \in Streams, Skips(s)
  PROVE  StreamOK(s)' /\ skip' \in [Streams -> 0..MaxLog]
<1> DEFINE i == Head(ahead[s])
<1>1. /\ TypeOK /\ LogOK /\ PipeOf(s) /\ GotOf(s) /\ ReadOf(s) /\ OnceOf(s)
      /\ file \in Seq(Line) /\ skip[s] \in Nat /\ prev[s].at \in Nat /\ prev[s] \in Mark
      /\ skip \in [Streams -> 0..MaxLog]
  BY DockerLogAssumption DEF Inv, StreamOK, TypeOK, Mark
<1>2. Takes(s) /\ reader[s] = "read" /\ ahead[s] # <<>> /\ Seen(s, i)
  BY DEF Skips, Takes, outVars, logVars, reqVars, netVars, pipeVars
<1>3. /\ mark' = mark /\ got' = got /\ file' = file /\ prev' = prev /\ reader' = reader
      /\ since' = since
  BY DEF Skips, outVars, logVars, reqVars, netVars, pipeVars
<1>4. /\ PipeOf(s)' /\ At(s)' \in Nat /\ i < At(s)'
      /\ NoneIn(file, s, i, At(s)')
  BY <1>2, TakesOn
<1>5. GotOf(s)' /\ OnceOf(s)'
  BY <1>1, <1>3, SameGot
<1>6. prev[s].at > 0 /\ mark[s].at > 0 /\ prev[s].at <= mark[s].at
      /\ got[s] # <<>> /\ mark[s].at \in Nat
  <2>1. prev[s].at # 0 /\ prev[s].at <= mark[s].at
    BY <1>1, <1>2 DEF Seen, ReadOf
  <2>2. mark[s].at \in Nat
    BY <1>1 DEF TypeOK, Mark
  <2>3. mark[s] # NoMark
    BY <1>1, <2>1, <2>2 DEF NoMark
  <2> QED
    BY <1>1, <2>1, <2>2, <2>3 DEF GotOf
<1>7. /\ IsLine(file, s, i) /\ i \in DOMAIN file /\ i \in Nat /\ At(s) = i
      /\ file[i].at \in Nat
  BY <1>1, <1>2, AtFacts, LineFacts
<1>8. /\ skip[s] > 0 => i <= Last(got[s])
      /\ Last(got[s]) < i => file[i].at >= mark[s].at
      /\ skip[s] > 0 => mark[s] = prev[s]
                        /\ skip[s] + Cardinality(Before(file, s, prev[s].at, i)) = prev[s].n
  BY <1>2, <1>6, NextLine
<1>9. skip'[s] = IF file[i].at = prev[s].at THEN skip[s] - 1 ELSE skip[s]
  BY <1>1 DEF Skips
<1> HIDE DEF i
<1>10. file[i].at = prev[s].at => skip[s] > 0
  BY <1>2, <1>7 DEF Seen
<1>11. skip' \in [Streams -> 0..MaxLog]
  <2>1. skip' = [skip EXCEPT ![s] = IF file[i].at = prev[s].at THEN skip[s] - 1 ELSE skip[s]]
    BY <1>1 DEF Skips, i
  <2> QED
    BY <1>1, <1>10, <2>1, DockerLogAssumption
<1>12. Last(got[s]) \in Nat /\ Last(got[s]) \in DOMAIN file
  BY <1>1, <1>6, LastFacts, LineFacts
<1>13. i <= Last(got[s])
  <2> SUFFICES ASSUME Last(got[s]) < i PROVE FALSE
    BY <1>7, <1>12
  <2>1. skip[s] = 0
    BY <1>1, <1>7, <1>8, <1>12
  <2>2. file[i].at < prev[s].at
    BY <1>1, <1>2, <1>7, <2>1 DEF Seen
  <2> QED
    BY <1>1, <1>6, <1>7, <1>8, <2>2
<1>14. mark[s] = prev[s] /\ skip[s] + Cardinality(Before(file, s, prev[s].at, i)) = prev[s].n
  BY <1>1, <1>2, <1>6, <1>7, <1>12, <1>13 DEF ReadOf, ResumesOf
<1>15. NoneIn(file, s, Last(got[s]), At(s)')
  <2> SUFFICES ASSUME NEW j \in DOMAIN file, IsLine(file, s, j), Last(got[s]) < j, j < At(s)'
               PROVE  FALSE
    BY DEF NoneIn
  <2>1. j \in Nat /\ i < j
    BY <1>1, <1>7, <1>12, <1>13, LineFacts
  <2> QED
    BY <1>4, <2>1 DEF NoneIn
<1>16. skip'[s] + Cardinality(Before(file, s, prev[s].at, At(s)')) = prev[s].n
  <2>1. \A j \in DOMAIN file : IsLine(file, s, j) => (j < At(s)' <=> j < i \/ j = i)
    <3> TAKE j \in DOMAIN file
    <3>1. j \in Nat
      BY <1>1, LineFacts
    <3> QED
      BY <1>4, <1>7, <3>1 DEF NoneIn
  <2>2. Cardinality(Before(file, s, prev[s].at, i)) \in Nat
    BY <1>1, CountsAreFinite
  <2>3. CASE file[i].at = prev[s].at
    <3>1. Before(file, s, prev[s].at, At(s)') = Before(file, s, prev[s].at, i) \cup {i}
          /\ i \notin Before(file, s, prev[s].at, i)
      BY <1>7, <2>1, <2>3 DEF Before, IsLine
    <3>2. Cardinality(Before(file, s, prev[s].at, At(s)'))
            = Cardinality(Before(file, s, prev[s].at, i)) + 1
      BY <1>1, <3>1, CountsAreFinite, FS_AddElement
    <3> QED
      BY <1>1, <1>9, <1>14, <2>2, <2>3, <3>2
  <2>4. CASE file[i].at # prev[s].at
    <3>1. Before(file, s, prev[s].at, At(s)') = Before(file, s, prev[s].at, i)
      BY <1>7, <2>1, <2>4 DEF Before, IsLine
    <3> QED
      BY <1>9, <1>14, <2>4, <3>1
  <2> QED
    BY <2>3, <2>4
<1>17. ReadOf(s)'
  <2>1. ResumesOf(s)'
    BY <1>3, <1>14, <1>16 DEF ResumesOf
  <2>2. file[Last(got[s])].at >= since /\ (prev[s].at # 0 => since <= prev[s].at)
    BY <1>1, <1>2, <1>6 DEF ReadOf
  <2> QED
    BY <1>3, <1>6, <1>15, <2>1, <2>2 DEF ReadOf
<1> QED
  BY <1>4, <1>5, <1>11, <1>17 DEF StreamOK

\* A line no follower has delivered: the mark counts it, and it is the next of its stream.
LEMMA SendsKeeps ==
  ASSUME Inv, NEW s \in Streams, Sends(s)
  PROVE  /\ StreamOK(s)' /\ mark'[s] \in Mark
         /\ got' \in [Streams -> Seq(1..MaxLog)]
<1> DEFINE i == Head(ahead[s])  g == got[s]
<1>1. /\ TypeOK /\ LogOK /\ PipeOf(s) /\ GotOf(s) /\ ReadOf(s) /\ OnceOf(s)
      /\ file \in Seq(Line) /\ skip[s] \in Nat /\ prev[s].at \in Nat /\ prev[s] \in Mark
      /\ mark[s] \in Mark /\ mark[s].at \in Nat /\ mark[s].n \in Nat
      /\ got \in [Streams -> Seq(1..MaxLog)] /\ g \in Seq(1..MaxLog)
      /\ Len(file) <= MaxLog
  BY DockerLogAssumption DEF Inv, StreamOK, TypeOK, Mark
<1>2. Takes(s) /\ reader[s] = "read" /\ ahead[s] # <<>> /\ ~ Seen(s, i)
  BY DEF Sends, Takes, logVars, reqVars, netVars, pipeVars
<1>3. /\ file' = file /\ prev' = prev /\ reader' = reader /\ since' = since /\ skip' = skip
      /\ got' = [got EXCEPT ![s] = Append(@, i)]
      /\ mark' = [mark EXCEPT ![s] = Advanced(@, file[i].at)]
  BY DEF Sends, logVars, reqVars, netVars, pipeVars
<1>4. /\ PipeOf(s)' /\ At(s)' \in Nat /\ i < At(s)'
      /\ NoneIn(file, s, i, At(s)')
  BY <1>2, TakesOn
<1>5. /\ IsLine(file, s, i) /\ i \in DOMAIN file /\ i \in Nat /\ At(s) = i
      /\ file[i].at \in Nat /\ file[i].at \in 1..MaxStamp /\ file[i].at > 0
      /\ file[i].at >= since /\ i \in 1..MaxLog
  <2>1. /\ IsLine(file, s, i) /\ i \in DOMAIN file /\ At(s) = i /\ file[i].at >= since
    BY <1>1, <1>2, AtFacts
  <2> HIDE DEF i
  <2>2. /\ i \in Nat /\ file[i].at \in Nat /\ file[i].at \in 1..MaxStamp /\ file[i].at > 0
        /\ Len(file) \in Nat /\ i \in 1..Len(file)
    BY <1>1, <2>1, LineFacts
  <2>3. i \in 1..MaxLog
    BY <1>1, <2>2, DockerLogAssumption
  <2> QED
    BY <2>1, <2>2, <2>3
<1> HIDE DEF i, g
<1>6. got'[s] = Append(g, i) /\ got'[s] # <<>> /\ Last(got'[s]) = i
      /\ Len(got'[s]) = Len(g) + 1 /\ DOMAIN got'[s] = 1..(Len(g) + 1)
      /\ \A a \in 1..Len(g) : got'[s][a] = g[a]
      /\ got'[s][Len(g) + 1] = i
      /\ Len(g) \in Nat /\ DOMAIN g = 1..Len(g)
  <2>1. got'[s] = Append(g, i)
    BY <1>1, <1>3 DEF g
  <2>2. /\ Len(g) \in Nat /\ DOMAIN g = 1..Len(g)
        /\ Append(g, i) \in Seq(1..MaxLog) /\ Append(g, i) # <<>>
        /\ Len(Append(g, i)) = Len(g) + 1
        /\ \A a \in 1..Len(g) : Append(g, i)[a] = g[a]
        /\ Append(g, i)[Len(g) + 1] = i
    <3> DEFINE S == 1..MaxLog
    <3>1. g \in Seq(S) /\ i \in S
      BY <1>1, <1>5
    <3> HIDE DEF S
    <3>2. /\ Append(g, i) \in Seq(S) /\ Append(g, i) # <<>>
          /\ Len(Append(g, i)) = Len(g) + 1
          /\ \A a \in 1..Len(g) : Append(g, i)[a] = g[a]
          /\ Append(g, i)[Len(g) + 1] = i
      BY <3>1, AppendProperties
    <3>3. Len(g) \in Nat /\ DOMAIN g = 1..Len(g)
      BY <3>1
    <3> QED
      BY <3>2, <3>3 DEF S
  <2>3. DOMAIN Append(g, i) = 1..(Len(g) + 1)
    BY <2>2
  <2> QED
    BY <2>1, <2>2, <2>3 DEF Last
<1>7. mark'[s] = Advanced(mark[s], file[i].at)
  BY <1>1, <1>3 DEF TypeOK
<1>8. CASE g = <<>>
  <2>1. mark[s].at = 0 /\ prev[s].at = 0 /\ skip[s] = 0
    <3>1. mark[s] = NoMark
      BY <1>1, <1>8 DEF GotOf, g
    <3>2. prev[s].at = 0
      BY <1>1, <1>2, <3>1 DEF ReadOf, NoMark
    <3> QED
      BY <1>1, <1>2, <3>1, <3>2 DEF ReadOf, NoMark
  <2>2. mark'[s] = [at |-> file[i].at, n |-> 1]
    BY <1>5, <1>7, <2>1 DEF Advanced
  <2>3. Len(g) = 0 /\ got'[s][1] = i
    BY <1>6, <1>8
  <2>4. GotOf(s)'
    <3>1. ~ TailSplitsAStamp(s)' =>
            \A j \in DOMAIN file : IsLine(file, s, j) /\ j < i => file[j].at # file[i].at
      BY <1>3, <1>6, <2>3 DEF TailSplitsAStamp, LinesOf, IsLine
    <3>2. /\ 1 <= Cardinality(Upto(file, s, file[i].at, i))
          /\ Cardinality(Upto(file, s, file[i].at, i)) \in Nat
          /\ ~ TailSplitsAStamp(s)' => Cardinality(Upto(file, s, file[i].at, i)) = 1
      BY <1>1, <1>5, <3>1, CountFromOne, CountsAreFinite
    <3>3. \A a \in DOMAIN got'[s] : IsLine(file, s, got'[s][a])
      BY <1>5, <1>6, <2>3
    <3> QED
      BY <1>3, <1>6, <2>2, <3>2, <3>3 DEF GotOf
  <2>5. OnceOf(s)'
    <3>1. Len(got'[s]) - 1 = 0
      BY <1>6, <2>3
    <3> QED
      BY <3>1 DEF OnceOf
  <2>6. ReadOf(s)'
    <3>1. skip'[s] = 0 /\ prev'[s].at = 0 /\ mark'[s].at \in Nat
      BY <1>3, <1>5, <2>1, <2>2
    <3>2. ResumesOf(s)'
      BY <1>4, <1>6, <3>1 DEF ResumesOf
    <3> QED
      BY <1>3, <1>4, <1>5, <1>6, <3>1, <3>2 DEF ReadOf
  <2>7. mark'[s] \in Mark
    <3>1. 1 \in 0..MaxLog
      BY <1>5, DockerLogAssumption
    <3> QED
      BY <1>5, <2>2, <3>1 DEF Mark
  <2> QED
    BY <1>1, <1>3, <1>4, <1>5, <2>4, <2>5, <2>6, <2>7 DEF StreamOK
<1>9. CASE g # <<>>
  <2> DEFINE l == Last(got[s])
  <2>1. /\ l \in DOMAIN file /\ IsLine(file, s, l) /\ l \in Nat
        /\ mark[s].at = file[l].at /\ mark[s].at > 0
    BY <1>1, <1>9, LastFacts, LineFacts DEF g
  <2>2. /\ l = g[Len(g)] /\ Len(g) > 0 /\ got'[s][1] = got[s][1]
    <3>1. Len(g) > 0
      BY <1>1, <1>9, HeadFacts
    <3>2. 1 \in 1..Len(g)
      BY <1>6, <3>1
    <3> QED
      BY <1>6, <3>1, <3>2 DEF Last, g
  <2>3. skip[s] = 0
    BY <1>1, <1>2, <1>9, NextLine DEF i, g
  <2>4. l < i => file[i].at >= mark[s].at
    BY <1>2, <1>9, NextLine DEF i, g
  <2>5. NoneIn(file, s, l, i) /\ ResumesOf(s)
    BY <1>1, <1>2, <1>5, <1>9 DEF ReadOf, g
  <2>6. Cardinality(Before(file, s, prev[s].at, i)) \in Nat
        /\ Cardinality(Upto(file, s, mark[s].at, l)) \in Nat
        /\ Cardinality(Upto(file, s, file[i].at, i)) \in Nat
        /\ Cardinality(Upto(file, s, file[i].at, i)) <= Len(file)
        /\ Cardinality(Upto(file, s, mark[s].at, i)) \in Nat
    BY <1>1, CountsAreFinite
  <2>7. TailSplitsAStamp(s)' <=> TailSplitsAStamp(s)
    BY <1>3, <1>6, <1>9, <2>2 DEF TailSplitsAStamp, LinesOf, g
  <2>8. /\ mark[s].n <= Cardinality(Upto(file, s, mark[s].at, l))
        /\ ~ TailSplitsAStamp(s) => mark[s].n = Cardinality(Upto(file, s, mark[s].at, l))
    BY <1>1, <1>9 DEF GotOf, g
  <2> HIDE DEF l
  \* Either nothing was delivered since the mark was read, or the line is past all that was.
  <2>9. \/ mark[s] = prev[s] /\ Cardinality(Before(file, s, mark[s].at, i)) = mark[s].n
        \/ l < i
    BY <1>1, <1>5, <2>3, <2>5, <2>6 DEF ResumesOf, l
  <2>10. file[i].at >= mark[s].at
    <3>1. CASE mark[s] = prev[s]
      BY <1>1, <1>2, <1>5, <2>1, <3>1 DEF Seen
    <3> QED
      BY <2>4, <2>9, <3>1
  <2>11. ~ TailSplitsAStamp(s) => l < i
    <3> SUFFICES ASSUME ~ TailSplitsAStamp(s), ~ (l < i) PROVE FALSE
      OBVIOUS
    <3>1. Cardinality(Before(file, s, file[l].at, i)) = Cardinality(Upto(file, s, file[l].at, l))
      BY <2>1, <2>8, <2>9
    <3>2. Cardinality(Before(file, s, file[l].at, i)) >= Cardinality(Upto(file, s, file[l].at, l))
      BY <2>1, <2>6, <3>1
    <3> QED
      BY <1>1, <1>5, <2>1, <3>2, NoneAreLeft
  <2>12. /\ mark'[s].at = file[i].at /\ mark'[s].n \in Nat
         /\ mark'[s] = [at |-> mark'[s].at, n |-> mark'[s].n]
         /\ mark'[s].n <= Cardinality(Upto(file, s, file[i].at, i))
         /\ ~ TailSplitsAStamp(s) => mark'[s].n = Cardinality(Upto(file, s, file[i].at, i))
    <3>1. CASE file[i].at > mark[s].at
      <4>1. mark'[s] = [at |-> file[i].at, n |-> 1]
        BY <1>7, <3>1 DEF Advanced
      <4>2. l < i
        <5> SUFFICES ASSUME ~ (l < i) PROVE FALSE
          OBVIOUS
        <5>1. i = l \/ i < l
          BY <1>5, <2>1
        <5>2. file[i].at <= file[l].at
          BY <1>1, <1>5, <2>1, <5>1 DEF LogOK, InOrder
        <5> QED
          BY <1>1, <1>5, <2>1, <3>1, <5>2
      <4>3. \A j \in DOMAIN file : IsLine(file, s, j) /\ j < i => file[j].at # file[i].at
        <5> SUFFICES ASSUME NEW j \in DOMAIN file, IsLine(file, s, j), j < i
                     PROVE  file[j].at # file[i].at
          OBVIOUS
        <5>1. j \in Nat /\ file[j].at \in Nat
          BY <1>1, LineFacts
        <5>2. j = l \/ j < l
          BY <2>1, <2>5, <5>1 DEF NoneIn
        <5>3. file[j].at <= file[l].at
          BY <1>1, <2>1, <5>1, <5>2 DEF LogOK, InOrder
        <5> QED
          BY <1>1, <1>5, <2>1, <3>1, <5>1, <5>3
      <4>4. Cardinality(Upto(file, s, file[i].at, i)) = 1
        BY <1>1, <1>5, <4>3, CountFromOne
      <4> QED
        BY <4>1, <4>4
    <3>2. CASE file[i].at = mark[s].at
      <4>1. mark'[s] = [mark[s] EXCEPT !.n = @ + 1]
        BY <1>1, <1>5, <1>7, <3>2 DEF Advanced
      <4>2. /\ mark'[s].at = file[i].at /\ mark'[s].n = mark[s].n + 1
            /\ mark'[s] = [at |-> mark'[s].at, n |-> mark'[s].n]
        BY <1>1, <3>2, <4>1 DEF Mark
      <4>3. CASE Cardinality(Before(file, s, mark[s].at, i)) = mark[s].n
        <5>1. Cardinality(Upto(file, s, file[i].at, i)) = mark[s].n + 1
          BY <1>1, <1>5, <3>2, <4>3, CountUptoIt
        <5> QED
          BY <1>1, <4>2, <5>1
      <4>4. CASE l < i
        <5>1. Cardinality(Upto(file, s, file[i].at, i))
                = Cardinality(Upto(file, s, file[i].at, l)) + 1
          BY <1>1, <1>5, <2>1, <2>5, <4>4, CountOneMore DEF l
        <5> QED
          BY <1>1, <2>6, <2>8, <3>2, <4>2, <5>1
      <4> QED
        BY <2>9, <4>3, <4>4
    <3> QED
      BY <1>1, <1>5, <2>10, <3>1, <3>2
  <2>13. mark'[s] \in Mark
    <3>1. mark'[s].n \in 0..MaxLog
      BY <1>1, <1>6, <2>6, <2>12, DockerLogAssumption
    <3> QED
      BY <1>5, <2>12, <3>1 DEF Mark
  <2>14. GotOf(s)'
    <3>1. \A a \in DOMAIN got'[s] : IsLine(file, s, got'[s][a])
      <4> TAKE a \in DOMAIN got'[s]
      <4>1. a \in 1..Len(g) \/ a = Len(g) + 1
        BY <1>6
      <4>2. a \in 1..Len(g) => IsLine(file, s, g[a])
        BY <1>1, <1>6 DEF GotOf, g
      <4> QED
        BY <1>5, <1>6, <4>1, <4>2
    <3> QED
      BY <1>3, <1>6, <2>7, <2>12, <3>1 DEF GotOf
  <2>15. OnceOf(s)'
    <3> SUFFICES ASSUME ~ TailSplitsAStamp(s), NEW a \in 1..(Len(got'[s]) - 1)
                 PROVE  /\ got'[s][a] < got'[s][a + 1]
                        /\ NoneIn(file, s, got'[s][a], got'[s][a + 1])
      BY <1>3, <2>7 DEF OnceOf
    <3>1. CASE a = Len(g)
      <4>1. got'[s][a] = l /\ got'[s][a + 1] = i
        BY <1>6, <2>2, <3>1
      <4> QED
        BY <2>5, <2>11, <4>1 DEF l
    <3>2. CASE a # Len(g)
      <4>1. a \in 1..(Len(g) - 1) /\ a \in 1..Len(g) /\ a + 1 \in 1..Len(g)
        BY <1>6, <3>2
      <4>2. g[a] < g[a + 1] /\ NoneIn(file, s, g[a], g[a + 1])
        BY <1>1, <4>1 DEF OnceOf, g
      <4> QED
        BY <1>6, <4>1, <4>2
    <3> QED
      BY <3>1, <3>2
  <2>16. ReadOf(s)'
    <3>1. ResumesOf(s)'
      BY <1>3, <1>4, <1>6, <2>3 DEF ResumesOf
    <3>2. /\ prev[s].at <= file[i].at /\ (prev[s].at # 0 => since <= prev[s].at)
          /\ (prev[s].at = 0 => skip[s] = 0)
      BY <1>1, <1>2, <1>5, <2>10 DEF ReadOf
    <3> QED
      BY <1>3, <1>4, <1>5, <1>6, <2>12, <3>1, <3>2 DEF ReadOf
  <2> QED
    BY <1>1, <1>3, <1>4, <1>5, <2>13, <2>14, <2>15, <2>16 DEF StreamOK
<1> QED
  BY <1>8, <1>9

-----------------------------------------------------------------------------
(* The demuxer, the request and the daemon.                                *)

\* The least of what is left to send: all before it is outside of what was asked for.
LEMMA NextFrame ==
  ASSUME TypeOK, LogOK, ToSend # {}
  PROVE  /\ Min(ToSend) \in DOMAIN file /\ Min(ToSend) \in Nat
         /\ Min(ToSend) \in 1..Len(file)
         /\ cursor <= Min(ToSend) /\ file[Min(ToSend)].at >= since
         /\ \A j \in DOMAIN file : cursor <= j /\ j < Min(ToSend) => file[j].at < since
<1>1. file \in Seq(Line) /\ since \in Nat /\ cursor \in Nat /\ end \in Nat
  BY DockerLogAssumption DEF TypeOK, Live
<1>2. ToSend \in SUBSET Nat
  BY <1>1, LineFacts DEF ToSend
<1>3. Min(ToSend) \in ToSend /\ \A j \in ToSend : Min(ToSend) <= j
  BY <1>2, LeastOf
<1> DEFINE f == Min(ToSend)
<1>4. f \in DOMAIN file /\ f >= cursor /\ f <= end /\ file[f].at >= since
      /\ \A j \in DOMAIN file : j >= cursor /\ j <= end /\ file[j].at >= since => f <= j
  BY <1>3 DEF ToSend
<1> HIDE DEF f
<1>5. ASSUME NEW j \in DOMAIN file, cursor <= j, j < f
      PROVE  file[j].at < since
  <2>1. j \in Nat /\ f \in Nat /\ file[j].at \in Nat
    BY <1>1, <1>4, LineFacts
  <2> QED
    BY <1>1, <1>4, <1>5, <2>1
<1> QED
  BY <1>1, <1>4, <1>5, LineFacts DEF f

\* The demuxer takes the next line asked for.
LEMMA DemuxReadsKeeps ==
  ASSUME Inv, DemuxReads, TypeOK'
  PROVE  LogOK' /\ \A s \in Streams : StreamOK(s)'
<1> DEFINE f == Min(ToSend)
<1>1. /\ TypeOK /\ LogOK /\ file \in Seq(Line) /\ cursor \in Nat /\ since \in Nat
      /\ follower = "running" /\ demux = "read"
  BY DockerLogAssumption DEF Inv, TypeOK, DemuxReads
<1>2. /\ file' = file /\ since' = since /\ end' = end /\ follower' = follower /\ reader' = reader
      /\ ahead' = ahead /\ skip' = skip /\ prev' = prev /\ mark' = mark /\ got' = got
      /\ frame' = f /\ cursor' = f + 1 /\ demux' = "write"
  BY DEF DemuxReads, logVars, reqVars, readVars, outVars
<1>3. /\ f \in DOMAIN file /\ f \in Nat /\ f \in 1..Len(file) /\ cursor <= f
      /\ file[f].at >= since
      /\ \A j \in DOMAIN file : cursor <= j /\ j < f => file[j].at < since
  BY <1>1, NextFrame DEF DemuxReads
<1> HIDE DEF f
<1>4. LogOK'
  BY <1>1, <1>2, <1>3 DEF LogOK
<1>5. ASSUME NEW s \in Streams PROVE StreamOK(s)'
  <2>1. PipeOf(s) /\ GotOf(s) /\ OnceOf(s)
    BY DEF Inv, StreamOK
  <2>2. GotOf(s)' /\ OnceOf(s)'
    BY <1>2, <2>1, SameGot
  <2>3. ~ Writing(s) /\ (Writing(s)' <=> file[f].s = s)
    BY <1>1, <1>2 DEF Writing
  <2>4. /\ ahead[s] # <<>> => At(s)' = At(s) /\ At(s) < cursor
        /\ ahead[s] = <<>> => At(s) = cursor /\ At(s)' = IF file[f].s = s THEN f ELSE f + 1
    <3>1. ahead[s] # <<>> => At(s) = Head(ahead[s]) /\ At(s)' = Head(ahead[s])
      BY <1>2 DEF At
    <3>2. ahead[s] # <<>> => At(s) < cursor
      BY <1>1, <2>1, <3>1, AtFacts
    <3>3. ahead[s] = <<>> => At(s) = cursor
      BY <2>3 DEF At
    <3>4. ahead[s] = <<>> => At(s)' = IF file[f].s = s THEN f ELSE f + 1
      BY <1>2, <2>3 DEF At
    <3> QED
      BY <3>1, <3>2, <3>3, <3>4
  <2>5. At(s) \in Nat /\ At(s)' \in Nat /\ At(s) <= At(s)'
    BY <1>1, <1>3, <2>1, <2>4, AtFacts
  <2>6. PipeOf(s)'
    <3>1. reader'[s] = "done" => ahead'[s] = <<>>
      BY <1>2, <2>1 DEF PipeOf
    <3>2. \A a \in DOMAIN ahead[s] :
            /\ IsLine(file, s, ahead[s][a]) /\ ahead[s][a] < f
            /\ file[ahead[s][a]].at >= since
      <4> TAKE a \in DOMAIN ahead[s]
      <4>1. IsLine(file, s, ahead[s][a]) /\ ahead[s][a] < cursor
            /\ file[ahead[s][a]].at >= since
        BY <2>1 DEF PipeOf
      <4>2. ahead[s][a] \in Nat
        BY <1>1, <4>1, LineFacts DEF IsLine
      <4> QED
        BY <1>1, <1>3, <4>1, <4>2
    <3>3. \A a \in DOMAIN ahead[s] : ahead[s][a] < f + 1
      BY <1>1, <1>3, <3>2, LineFacts DEF IsLine
    <3>4. \A a, b \in DOMAIN ahead[s] : a < b => ahead[s][a] < ahead[s][b]
      BY <2>1 DEF PipeOf
    <3>5. ASSUME reader[s] = "read", NEW i \in DOMAIN file, IsLine(file, s, i),
                 At(s)' <= i, i < f + 1, file[i].at >= since
          PROVE  (\E a \in DOMAIN ahead[s] : ahead[s][a] = i) \/ (file[f].s = s /\ i = f)
      <4>1. i \in Nat /\ file[i].at \in Nat
        BY <1>1, LineFacts
      <4>2. CASE i < cursor
        <5>1. ahead[s] # <<>>
          BY <1>1, <1>3, <2>4, <3>5, <4>1, <4>2
        <5> QED
          BY <2>1, <2>3, <2>4, <3>5, <4>2, <5>1 DEF PipeOf
      <4>3. CASE ~ (i < cursor)
        <5>1. ~ (i < f)
          BY <1>1, <1>3, <3>5, <4>1, <4>3
        <5>2. i = f
          BY <1>3, <3>5, <4>1, <5>1
        <5> QED
          BY <3>5, <5>2 DEF IsLine
      <4> QED
        BY <4>2, <4>3
    <3> QED
      BY <1>2, <2>3, <3>1, <3>2, <3>3, <3>4, <3>5 DEF PipeOf
  <2>7. ReadOf(s)'
    <3>1. ASSUME NEW j \in DOMAIN file, IsLine(file, s, j), At(s) <= j, j < At(s)'
          PROVE  file[j].at < since
      <4>1. j \in Nat
        BY <1>1, LineFacts
      <4>2. ahead[s] = <<>>
        BY <2>4, <2>5, <3>1, <4>1
      <4>3. j < f \/ (j = f /\ file[f].s # s)
        BY <1>3, <2>4, <3>1, <4>1, <4>2
      <4> QED
        BY <1>3, <2>4, <3>1, <4>2, <4>3 DEF IsLine
    <3> QED
      BY <1>2, <2>5, <3>1, MovesOn
  <2> QED
    BY <2>2, <2>6, <2>7 DEF StreamOK
<1> QED
  BY <1>4, <1>5

\* The frame is in the reader's hands.
LEMMA PipeTakesKeeps ==
  ASSUME Inv, PipeTakes, TypeOK'
  PROVE  LogOK' /\ \A s \in Streams : StreamOK(s)'
<1>0. /\ TypeOK /\ LogOK /\ file \in Seq(Line) /\ cursor \in Nat /\ since \in Nat
      /\ demux = "write" /\ frame \in DOMAIN file /\ frame \in Nat
      /\ file[frame].s \in Streams /\ frame < cursor /\ file[frame].at >= since
  <2>1. TypeOK /\ LogOK /\ demux = "write"
    BY DEF Inv, PipeTakes
  <2>2. file \in Seq(Line) /\ cursor \in Nat /\ since \in Nat
    BY <2>1, DockerLogAssumption DEF TypeOK
  <2>3. frame \in DOMAIN file /\ frame < cursor /\ file[frame].at >= since
    BY <2>1 DEF LogOK
  <2>4. frame \in Nat /\ file[frame].s \in Streams
    BY <2>2, <2>3, LineFacts
  <2> QED
    BY <2>1, <2>2, <2>3, <2>4
<1> PICK t \in Streams : t = file[frame].s
  BY <1>0
<1>1. reader[t] = "read"
  BY DEF PipeTakes
<1>2. /\ file' = file /\ since' = since /\ end' = end /\ follower' = follower /\ reader' = reader
      /\ skip' = skip /\ prev' = prev /\ mark' = mark /\ got' = got
      /\ frame' = frame /\ cursor' = cursor /\ demux' = "read"
      /\ ahead' = [ahead EXCEPT ![t] = Append(@, frame)]
  BY DEF PipeTakes, logVars, reqVars, netVars, outVars
<1>3. LogOK'
  BY <1>0, <1>1, <1>2 DEF LogOK
<1>4. ASSUME NEW s \in Streams, s # t PROVE StreamOK(s)'
  <2>1. ~ Writing(s) /\ ~ Writing(s)'
    BY <1>2, <1>4 DEF Writing
  <2>2. ahead'[s] = ahead[s]
    BY <1>0, <1>1, <1>2, <1>4 DEF TypeOK
  <2>3. SameView(s)
    BY <1>2, <2>1, <2>2 DEF SameView
  <2> QED
    BY <2>3, SameStream DEF Inv
<1>5. StreamOK(t)'
  <2> DEFINE q == ahead[t]  r == Append(q, frame)
  <2>1. PipeOf(t) /\ GotOf(t) /\ OnceOf(t) /\ q \in Seq(1..MaxLog)
    BY <1>0, <1>1 DEF Inv, StreamOK, TypeOK
  <2>2. GotOf(t)' /\ OnceOf(t)'
    <3>1. mark'[t] = mark[t] /\ got'[t] = got[t]
      BY <1>2
    <3> QED
      BY <1>0, <1>1, <1>2, <2>1, <3>1, SameGot
  <2>3. Writing(t) /\ ~ Writing(t)'
    BY <1>0, <1>1, <1>2 DEF Writing
  <2>4. ahead'[t] = r
    BY <1>0, <1>1, <1>2 DEF TypeOK
  <2>5. /\ Len(q) \in Nat /\ DOMAIN q = 1..Len(q) /\ DOMAIN r = 1..(Len(q) + 1) /\ r # <<>>
        /\ \A a \in DOMAIN q : r[a] = q[a]
        /\ r[Len(q) + 1] = frame
        /\ Head(r) = r[1]
    <3> DEFINE S == Nat
    <3> HIDE DEF q
    <3>1. q \in Seq(S) /\ frame \in S
      BY <1>0, <1>1, <2>1, DockerLogAssumption
    <3> HIDE DEF S
    <3>2. /\ r \in Seq(S) /\ r # <<>> /\ Len(r) = Len(q) + 1
          /\ \A a \in 1..Len(q) : r[a] = q[a]
          /\ r[Len(q) + 1] = frame
      BY <3>1, AppendProperties
    <3>3. Len(q) \in Nat /\ DOMAIN q = 1..Len(q)
      BY <3>1
    <3> HIDE DEF r
    <3>4. Head(r) = r[1] /\ DOMAIN r = 1..Len(r)
      BY <3>2, HeadOfASeq, Zenon
    <3>5. DOMAIN r = 1..(Len(q) + 1) /\ \A a \in DOMAIN q : r[a] = q[a]
      BY <3>2, <3>3, <3>4
    <3> QED
      BY <3>2, <3>3, <3>4, <3>5
  <2>6. \A a \in DOMAIN q : IsLine(file, t, q[a]) /\ q[a] < cursor /\ file[q[a]].at >= since
                            /\ q[a] < frame
    BY <2>1, <2>3 DEF PipeOf
  <2>7. /\ \A a, b \in DOMAIN q : a < b => q[a] < q[b]
        /\ \A i \in DOMAIN file :
             IsLine(file, t, i) /\ At(t) <= i /\ i < cursor /\ file[i].at >= since =>
               (\E a \in DOMAIN q : q[a] = i) \/ i = frame
    BY <1>0, <1>1, <2>1 DEF PipeOf
  <2>8. At(t) = IF q # <<>> THEN Head(q) ELSE frame
    BY <2>3 DEF At
  <2> HIDE DEF q, r
  <2>9. At(t)' = At(t)
    <3>1. At(t)' = r[1]
      <4>1. ahead'[t] # <<>>
        BY <2>4, <2>5
      <4>2. At(t)' = Head(ahead'[t])
        BY <4>1 DEF At
      <4> QED
        BY <2>4, <2>5, <4>2
    <3>2. CASE q = <<>>
      <4>1. Len(q) = 0
        BY <3>2
      <4> QED
        BY <2>5, <2>8, <3>1, <3>2, <4>1
    <3>3. CASE q # <<>>
      <4>1. Head(q) = q[1] /\ 1 \in DOMAIN q
        BY <2>1, <3>3, HeadFacts
      <4> QED
        BY <2>5, <2>8, <3>1, <3>3, <4>1
    <3> QED
      BY <3>2, <3>3
  <2>10. PipeOf(t)'
    <3>1. \A a \in DOMAIN r : a \in DOMAIN q \/ a = Len(q) + 1
      BY <2>5
    <3>2. \A a \in DOMAIN r : IsLine(file, t, r[a]) /\ r[a] < cursor /\ file[r[a]].at >= since
      BY <1>0, <1>1, <2>5, <2>6, <3>1 DEF IsLine
    <3>3. \A a, b \in DOMAIN r : a < b => r[a] < r[b]
      <4> SUFFICES ASSUME NEW a \in DOMAIN r, NEW b \in DOMAIN r, a < b PROVE r[a] < r[b]
        OBVIOUS
      <4>1. a \in DOMAIN q
        BY <2>5
      <4> QED
        BY <2>5, <2>6, <2>7, <3>1, <4>1
    <3>4. \A i \in DOMAIN file :
            IsLine(file, t, i) /\ At(t) <= i /\ i < cursor /\ file[i].at >= since =>
              \E a \in DOMAIN r : r[a] = i
      <4> SUFFICES ASSUME NEW i \in DOMAIN file, IsLine(file, t, i), At(t) <= i, i < cursor,
                          file[i].at >= since
                   PROVE  \E a \in DOMAIN r : r[a] = i
        OBVIOUS
      <4>1. CASE i = frame
        <5>1. Len(q) + 1 \in DOMAIN r
          BY <2>5
        <5> QED
          BY <2>5, <4>1, <5>1
      <4>2. CASE \E a \in DOMAIN q : q[a] = i
        <5>1. PICK a \in DOMAIN q : q[a] = i
          BY <4>2
        <5>2. a \in DOMAIN r /\ r[a] = i
          BY <2>5, <5>1
        <5> QED
          BY <5>2
      <4> QED
        BY <2>7, <4>1, <4>2
    <3>5. reader'[t] # "done" /\ cursor' = cursor /\ since' = since /\ file' = file
      BY <1>0, <1>1, <1>2
    <3> QED
      BY <2>3, <2>4, <2>9, <3>2, <3>3, <3>4, <3>5 DEF PipeOf
  <2>11. ReadOf(t)'
    <3>1. At(t) \in Nat
      BY <1>0, <1>1, <2>1, AtFacts
    <3>2. \A j \in DOMAIN file :
            IsLine(file, t, j) /\ At(t) <= j /\ j < At(t)' => file[j].at < since
      BY <1>0, <1>1, <2>9, <3>1, LineFacts
    <3>3. /\ reader'[t] = reader[t] /\ prev'[t] = prev[t] /\ skip'[t] = skip[t]
          /\ mark'[t] = mark[t] /\ got'[t] = got[t]
          /\ At(t)' \in Nat /\ At(t) <= At(t)'
      BY <1>2, <2>9, <3>1
    <3> QED
      BY <1>0, <1>1, <1>2, <3>2, <3>3, MovesOn
  <2> QED
    BY <2>2, <2>10, <2>11 DEF StreamOK
<1>6. \A s \in Streams : StreamOK(s)'
  BY <1>4, <1>5
<1> QED
  BY <1>3, <1>6

\* The instant asked for is no later than any mark.
LEMMA SinceFacts ==
  ASSUME NEW m \in [Streams -> Mark]
  PROVE  /\ SinceOf(m) \in 0..MaxStamp /\ SinceOf(m) \in Nat
         /\ \A s \in Streams : m[s].at # 0 => SinceOf(m) # 0 /\ SinceOf(m) <= m[s].at
<1> DEFINE set == {m[s].at : s \in Streams} \ {0}
<1>1. \A s \in Streams : m[s].at \in 0..MaxStamp /\ m[s].at \in Nat
  BY DockerLogAssumption DEF Mark
<1>2. set \in SUBSET Nat /\ \A x \in set : x # 0 /\ x \in 0..MaxStamp
  BY <1>1
<1>3. \A s \in Streams : m[s].at # 0 => m[s].at \in set
  OBVIOUS
<1>4. SinceOf(m) = IF set = {} THEN 0 ELSE Min(set)
  BY DEF SinceOf
<1> HIDE DEF set
<1>5. CASE set = {}
  BY <1>3, <1>4, <1>5, DockerLogAssumption
<1>6. CASE set # {}
  <2>1. Min(set) \in set /\ \A j \in set : Min(set) <= j
    BY <1>2, <1>6, LeastOf
  <2> QED
    BY <1>2, <1>3, <1>4, <1>6, <2>1
<1> QED
  BY <1>5, <1>6

\* A new follower begins at every stream's mark.
LEMMA OpensKeeps ==
  ASSUME Inv, Opens
  PROVE  TypeOK' /\ LogOK' /\ \A s \in Streams : StreamOK(s)'
<1>1. /\ TypeOK /\ LogOK /\ file \in Seq(Line) /\ Len(file) \in Nat /\ mark \in [Streams -> Mark]
      /\ MaxLog \in Nat /\ TailLines \in Nat
  BY DockerLogAssumption DEF Inv, TypeOK
<1>2. /\ file' = file /\ frame' = frame /\ ahead' = ahead /\ mark' = mark /\ got' = got
      /\ up' = up /\ cut' = cut
      /\ follower' = "running" /\ demux' = "read" /\ since' = SinceOf(mark)
      /\ cursor' = IF SinceOf(mark) # 0 \/ Len(file) <= TailLines
                   THEN 1 ELSE Len(file) - TailLines + 1
      /\ end' = IF up THEN Live ELSE Len(file)
      /\ reader' = [s \in Streams |-> "read"] /\ prev' = mark
      /\ skip' = [s \in Streams |-> mark[s].n]
      /\ followers' \in 0..MaxFollowers /\ cancelled' = FALSE
  BY DockerLogAssumption DEF Opens, outVars, logVars, TypeOK, Inv
<1>3. /\ since' \in 0..MaxStamp /\ since' \in Nat
      /\ \A s \in Streams : mark[s].at # 0 => since' # 0 /\ since' <= mark[s].at
  BY <1>1, <1>2, SinceFacts
<1>4. cursor' \in 1..(Len(file) + 1) /\ (since' # 0 => cursor' = 1)
  BY <1>1, <1>2
<1>5. TypeOK'
  <2>1. cursor' \in 1..(MaxLog + 1) /\ end' \in 0..Live
    BY <1>1, <1>2, <1>4 DEF TypeOK, Live
  <2>2. skip' \in [Streams -> 0..MaxLog]
    BY <1>1, <1>2 DEF Mark
  <2> QED
    BY <1>1, <1>2, <1>3, <2>1, <2>2 DEF TypeOK
<1>6. LogOK'
  <2>1. InOrder(file)' /\ cursor' <= Len(file') + 1
    BY <1>1, <1>2, <1>4 DEF LogOK
  <2>2. end' # Live => end' <= Len(file')
    BY <1>1, <1>2
  <2> QED
    BY <1>2, <2>1, <2>2 DEF LogOK
<1>7. ASSUME NEW s \in Streams PROVE StreamOK(s)'
  <2>1. PipeOf(s) /\ GotOf(s) /\ OnceOf(s) /\ ahead[s] = <<>>
    BY <1>1 DEF Inv, StreamOK, PipeOf, LogOK, Opens
  <2>2. mark'[s] = mark[s] /\ got'[s] = got[s] /\ ahead'[s] = <<>> /\ reader'[s] = "read"
        /\ prev'[s] = mark[s] /\ skip'[s] = mark[s].n
    BY <1>2, <2>1
  <2>3. GotOf(s)' /\ OnceOf(s)'
    BY <1>2, <2>1, <2>2, SameGot
  <2>4. ~ Writing(s)' /\ At(s)' = cursor' /\ cursor' \in Nat
    BY <1>1, <1>2, <1>4, <2>2 DEF Writing, At
  <2>5. PipeOf(s)'
    <3>1. \A i \in DOMAIN file : ~ (cursor' <= i /\ i < cursor')
      BY <1>1, <2>4, LineFacts
    <3>2. DOMAIN ahead'[s] = {}
      BY <2>2
    <3> QED
      BY <1>2, <2>2, <2>4, <3>1, <3>2 DEF PipeOf
  <2>6. ReadOf(s)'
    <3>1. CASE got[s] = <<>>
      <4>1. mark[s] = NoMark
        BY <2>1, <3>1 DEF GotOf
      <4> QED
        BY <2>2, <3>1, <4>1 DEF ReadOf, NoMark
    <3>2. CASE got[s] # <<>>
      <4>1. /\ Last(got[s]) \in DOMAIN file /\ Last(got[s]) \in Nat
            /\ mark[s].at = file[Last(got[s])].at /\ mark[s].at > 0
            /\ mark[s].at \in Nat /\ mark[s].n \in Nat /\ Last(got[s]) >= 1
        BY <1>1, <2>1, <3>2, LastFacts, LineFacts
      <4>2. cursor' = 1 /\ since' <= mark[s].at
        BY <1>3, <1>4, <4>1
      <4>3. NoneIn(file, s, Last(got[s]), 1)
        BY <1>1, <4>1, LineFacts DEF NoneIn
      <4>4. Before(file, s, mark[s].at, 1) = {}
        BY <1>1, LineFacts DEF Before
      <4>5. mark[s].n + Cardinality(Before(file, s, mark[s].at, 1)) = mark[s].n
        BY <4>1, <4>4, FS_EmptySet
      <4>6. ResumesOf(s)'
        BY <1>2, <2>2, <2>4, <4>2, <4>5 DEF ResumesOf
      <4> QED
        BY <1>2, <2>2, <2>4, <4>1, <4>2, <4>3, <4>6 DEF ReadOf
    <3> QED
      BY <3>1, <3>2
  <2> QED
    BY <2>3, <2>5, <2>6 DEF StreamOK
<1> QED
  BY <1>5, <1>6, <1>7

\* A line is stamped no earlier than any other of its stream.
LEMMA LastStampFacts ==
  ASSUME TypeOK, LogOK, NEW s \in Streams
  PROVE  /\ LastStamp(s) \in Nat /\ LastStamp(s) > 0
         /\ \A i \in DOMAIN file : IsLine(file, s, i) => file[i].at <= LastStamp(s)
<1>1. file \in Seq(Line) /\ Len(file) \in Nat
  BY DEF TypeOK
<1>2. CASE LinesOf(s) = {}
  BY <1>2 DEF LastStamp, LinesOf, IsLine
<1>3. CASE LinesOf(s) # {}
  <2> DEFINE m == Max(LinesOf(s))
  <2>1. LinesOf(s) \in SUBSET Nat /\ \A j \in LinesOf(s) : j <= Len(file)
    BY <1>1, LineFacts DEF LinesOf
  <2>2. m \in LinesOf(s) /\ \A j \in LinesOf(s) : j <= m
    BY <1>1, <1>3, <2>1, GreatestOf
  <2>3. LastStamp(s) = file[m].at
    BY <1>3 DEF LastStamp
  <2> HIDE DEF m
  <2>4. m \in DOMAIN file /\ IsLine(file, s, m) /\ m \in Nat
        /\ file[m].at \in Nat /\ file[m].at > 0
    BY <1>1, <2>2, LineFacts DEF LinesOf, IsLine
  <2>5. ASSUME NEW i \in DOMAIN file, IsLine(file, s, i) PROVE file[i].at <= file[m].at
    <3>1. i \in Nat /\ i <= m /\ file[i].at \in Nat
      BY <1>1, <2>2, <2>5, LineFacts DEF LinesOf, IsLine
    <3>2. i = m \/ i < m
      BY <2>4, <3>1
    <3> QED
      BY <2>4, <2>5, <3>1, <3>2 DEF LogOK, InOrder
  <2> QED
    BY <2>3, <2>4, <2>5
<1> QED
  BY <1>2, <1>3

\* A longer log, as far as the shorter one went.
Extends(f, g, n) ==
  /\ f \in Seq(Line) /\ g \in Seq(Line) /\ n = Len(f)
  /\ Len(g) = n + 1 /\ \A i \in DOMAIN f : g[i] = f[i]

\* What was counted is counted as before.
LEMMA LongerLog ==
  ASSUME NEW f, NEW g, NEW n, Extends(f, g, n), NEW s
  PROVE  /\ n \in Nat /\ DOMAIN f = 1..n /\ DOMAIN g = 1..(n + 1)
         /\ \A i \in DOMAIN f : i \in DOMAIN g /\ g[i] = f[i] /\ i \in Nat /\ i <= n
                                /\ (IsLine(g, s, i) <=> IsLine(f, s, i))
         /\ \A i \in DOMAIN g : i \in Nat /\ (i \in DOMAIN f \/ i = n + 1)
         /\ \A t, k : k \in Nat /\ k <= n => Upto(g, s, t, k) = Upto(f, s, t, k)
         /\ \A a, b : b \in Nat /\ b <= n + 1 => (NoneIn(g, s, a, b) <=> NoneIn(f, s, a, b))
<1>1. n \in Nat /\ DOMAIN f = 1..n /\ DOMAIN g = 1..(n + 1)
  BY DEF Extends
<1>2. \A i \in DOMAIN f : i \in DOMAIN g /\ g[i] = f[i] /\ i \in Nat /\ i <= n
                          /\ (IsLine(g, s, i) <=> IsLine(f, s, i))
  BY <1>1 DEF Extends, IsLine
<1>3. \A i \in DOMAIN g : i \in Nat /\ (i \in DOMAIN f \/ i = n + 1)
  BY <1>1
<1>4. ASSUME NEW t, NEW k \in Nat, k <= n PROVE Upto(g, s, t, k) = Upto(f, s, t, k)
  <2>1. \A i \in DOMAIN g : i <= k => i \in DOMAIN f
    BY <1>1, <1>4
  <2> QED
    BY <1>2, <2>1 DEF Upto
<1>5. ASSUME NEW a, NEW b \in Nat, b <= n + 1
      PROVE  NoneIn(g, s, a, b) <=> NoneIn(f, s, a, b)
  <2>1. \A i \in DOMAIN g : i < b => i \in DOMAIN f
    BY <1>1, <1>5
  <2> QED
    BY <1>2, <2>1 DEF NoneIn
<1> QED
  BY <1>1, <1>2, <1>3, <1>4, <1>5

\* The daemon writes a line: no follower has looked that far.
LEMMA WritesKeeps ==
  ASSUME Inv, NEW s0 \in Streams, Writes(s0)
  PROVE  TypeOK' /\ LogOK' /\ \A s \in Streams : StreamOK(s)'
<1> DEFINE n == Len(file)
<1>1. PICK t \in LastStamp(s0)..MaxStamp : file' = Append(file, [s |-> s0, at |-> t])
  BY DEF Writes
<1>2. /\ TypeOK /\ LogOK /\ file \in Seq(Line) /\ n \in Nat /\ cursor \in Nat /\ n < MaxLog
      /\ MaxLog \in Nat /\ frame \in Nat /\ end \in Nat /\ cursor <= n + 1
  <2>1. TypeOK /\ LogOK /\ n < MaxLog
    BY DEF Inv, Writes
  <2> QED
    BY <2>1, DockerLogAssumption DEF TypeOK, LogOK, Live
<1>3. /\ LastStamp(s0) \in Nat /\ LastStamp(s0) > 0
      /\ \A i \in DOMAIN file : IsLine(file, s0, i) => file[i].at <= LastStamp(s0)
  BY <1>2, LastStampFacts
<1>4. /\ cursor' = cursor /\ end' = end /\ demux' = demux /\ frame' = frame /\ reader' = reader
      /\ ahead' = ahead /\ skip' = skip /\ mark' = mark /\ got' = got /\ follower' = follower
      /\ followers' = followers /\ since' = since /\ up' = up
      /\ cancelled' = cancelled /\ prev' = prev /\ cut' = cut
  BY DEF Writes, reqVars, netVars, pipeVars, readVars, outVars
<1> DEFINE l == [s |-> s0, at |-> t]
<1>5. l \in Line /\ t \in Nat /\ LastStamp(s0) <= t
  BY <1>1, <1>3, DockerLogAssumption DEF Line
<1>6. /\ Extends(file, file', n) /\ file'[n + 1] = l
  <2>1. /\ Append(file, l) \in Seq(Line) /\ Len(Append(file, l)) = n + 1
        /\ Append(file, l)[n + 1] = l
        /\ \A i \in DOMAIN file : Append(file, l)[i] = file[i]
    <3> HIDE DEF l
    <3> QED
      BY <1>2, <1>5, AppendProperties
  <2> QED
    BY <1>1, <1>2, <2>1 DEF Extends
<1>7. /\ DOMAIN file = 1..n /\ DOMAIN file' = 1..(n + 1)
      /\ \A i \in DOMAIN file : i \in DOMAIN file' /\ file'[i] = file[i] /\ i \in Nat /\ i <= n
      /\ \A i \in DOMAIN file' : i \in Nat /\ (i \in DOMAIN file \/ i = n + 1)
  BY <1>6, LongerLog
<1>8. /\ file'[n + 1].at = t /\ file'[n + 1].s = s0 /\ Len(file') = n + 1 /\ file' \in Seq(Line)
  BY <1>6 DEF Extends
<1> HIDE DEF n, l
<1>9. TypeOK'
  <2>1. Len(file') <= MaxLog
    BY <1>2, <1>8
  <2> QED
    BY <1>2, <1>4, <1>8, <2>1 DEF TypeOK
<1>10. LogOK'
  <2>1. InOrder(file')
    <3> SUFFICES ASSUME NEW s \in Streams, NEW i \in DOMAIN file', NEW j \in DOMAIN file',
                        IsLine(file', s, i), IsLine(file', s, j), i < j
                 PROVE  file'[i].at <= file'[j].at
      BY DEF InOrder
    <3>1. i \in DOMAIN file /\ file'[i] = file[i] /\ file[i].s = s
      BY <1>2, <1>7 DEF IsLine
    <3>2. CASE j \in DOMAIN file
      BY <1>2, <1>7, <3>1, <3>2 DEF LogOK, InOrder, IsLine
    <3>3. CASE j = n + 1
      <4>1. s = s0
        BY <1>8, <3>3 DEF IsLine
      <4>2. file[i].at <= LastStamp(s0) /\ file[i].at \in Nat
        BY <1>2, <1>3, <3>1, <4>1, LineFacts DEF IsLine
      <4> QED
        BY <1>3, <1>5, <1>8, <3>1, <3>3, <4>2
    <3> QED
      BY <1>7, <3>2, <3>3
  <2>2. cursor' <= Len(file') + 1 /\ (end' # Live => end' <= Len(file'))
    BY <1>2, <1>4, <1>8 DEF LogOK, n
  <2>3. demux' = "write" => /\ frame' \in DOMAIN file' /\ frame' < cursor'
                            /\ file'[frame'].at >= since'
    BY <1>2, <1>4, <1>7 DEF LogOK
  <2>4. follower' = "none" => demux' = "done" /\ \A s \in Streams : reader'[s] = "done"
    BY <1>2, <1>4 DEF LogOK
  <2> QED
    BY <2>1, <2>2, <2>3, <2>4 DEF LogOK
<1>11. ASSUME NEW s \in Streams PROVE StreamOK(s)'
  <2>1. PipeOf(s) /\ GotOf(s) /\ ReadOf(s) /\ OnceOf(s)
    BY DEF Inv, StreamOK
  <2>2. /\ \A i \in DOMAIN file : IsLine(file', s, i) <=> IsLine(file, s, i)
        /\ \A u, k : k \in Nat /\ k <= n => Upto(file', s, u, k) = Upto(file, s, u, k)
        /\ \A u, k : k \in Nat /\ k <= n + 1 => Before(file', s, u, k) = Before(file, s, u, k)
        /\ \A a, b : b \in Nat /\ b <= n + 1 => (NoneIn(file', s, a, b) <=> NoneIn(file, s, a, b))
    <3>1. \A i \in DOMAIN file : IsLine(file', s, i) <=> IsLine(file, s, i)
      BY <1>6, LongerLog
    <3>2. \A u, k : k \in Nat /\ k <= n => Upto(file', s, u, k) = Upto(file, s, u, k)
      BY <1>6, LongerLog
    <3>3. ASSUME NEW u, NEW k \in Nat, k <= n + 1
          PROVE  Before(file', s, u, k) = Before(file, s, u, k)
      <4>1. \A i \in DOMAIN file' : i < k => i \in DOMAIN file
        BY <1>2, <1>7, <3>3
      <4> QED
        BY <1>7, <4>1 DEF Before
    <3>4. ASSUME NEW a, NEW b \in Nat, b <= n + 1
          PROVE  NoneIn(file', s, a, b) <=> NoneIn(file, s, a, b)
      BY <1>6, <3>4, LongerLog
    <3> QED
      BY <3>1, <3>2, <3>3, <3>4
  <2>3. Writing(s)' <=> Writing(s)
    BY <1>2, <1>4, <1>7 DEF Writing, LogOK
  <2>4. At(s)' = At(s) /\ At(s) \in Nat /\ At(s) <= n + 1
    <3>1. At(s)' = At(s)
      BY <1>4, <2>3 DEF At
    <3> QED
      BY <1>2, <2>1, <3>1, AtFacts
  <2>5. PipeOf(s)'
    <3>1. \A a \in DOMAIN ahead[s] : IsLine(file', s, ahead[s][a]) /\ file'[ahead[s][a]].at >= since
      BY <1>7, <2>1, <2>2 DEF PipeOf, IsLine
    <3>2. \A i \in DOMAIN file' : IsLine(file', s, i) /\ i < cursor /\ file'[i].at >= since =>
            i \in DOMAIN file /\ IsLine(file, s, i) /\ file[i].at >= since
      BY <1>2, <1>7, <2>2
    <3> QED
      BY <1>4, <2>1, <2>3, <2>4, <3>1, <3>2 DEF PipeOf
  <2>6. /\ \A a \in DOMAIN got[s] : IsLine(file', s, got[s][a]) /\ got[s][a] \in DOMAIN file
                                    /\ got[s][a] \in Nat /\ got[s][a] <= n
        /\ got'[s] = got[s] /\ mark'[s] = mark[s]
    BY <1>4, <1>7, <2>1, <2>2 DEF GotOf, IsLine
  <2>7. got[s] \in Seq(1..MaxLog)
    BY <1>2 DEF TypeOK
  <2>8. TailSplitsAStamp(s)' <=> TailSplitsAStamp(s)
    <3>1. CASE got[s] # <<>>
      <4>1. 1 \in DOMAIN got[s]
        BY <2>7, <3>1, HeadFacts
      <4>2. got[s][1] \in DOMAIN file /\ file'[got[s][1]] = file[got[s][1]] /\ got[s][1] \in Nat
            /\ got[s][1] <= n
        BY <1>7, <2>6, <4>1
      <4>3. \A i : i \in LinesOf(s)' /\ i < got[s][1] <=> i \in LinesOf(s) /\ i < got[s][1]
        <5>1. \A i \in DOMAIN file' : i < got[s][1] => i \in DOMAIN file
          BY <1>2, <1>7, <4>2
        <5> QED
          BY <1>7, <5>1 DEF LinesOf
      <4> QED
        BY <1>7, <2>6, <3>1, <4>2, <4>3 DEF TailSplitsAStamp, LinesOf
    <3> QED
      BY <2>6, <3>1 DEF TailSplitsAStamp
  <2>9. got[s] # <<>> => /\ Last(got[s]) \in DOMAIN file /\ file'[Last(got[s])] = file[Last(got[s])]
                         /\ Last(got[s]) \in Nat /\ Last(got[s]) <= n
    BY <1>2, <1>7, <2>1, LastFacts
  <2>10. GotOf(s)'
    BY <2>1, <2>2, <2>6, <2>8, <2>9 DEF GotOf
  <2>11. ReadOf(s)'
    <3>1. got[s] # <<>> =>
            /\ ResumesOf(s)' <=> ResumesOf(s)
            /\ NoneIn(file', s, Last(got[s]), At(s)) <=> NoneIn(file, s, Last(got[s]), At(s))
      BY <1>4, <2>2, <2>4 DEF ResumesOf
    <3> QED
      BY <1>4, <2>1, <2>4, <2>9, <3>1 DEF ReadOf
  <2>12. OnceOf(s)'
    <3>1. Len(got[s]) \in Nat /\ DOMAIN got[s] = 1..Len(got[s])
      BY <2>7
    <3>2. \A i \in 1..(Len(got[s]) - 1) : i + 1 \in DOMAIN got[s]
      BY <3>1
    <3>3. \A i \in 1..(Len(got[s]) - 1) : got[s][i + 1] \in Nat /\ got[s][i + 1] <= n + 1
      BY <1>2, <2>6, <3>2
    <3> QED
      BY <2>1, <2>2, <2>6, <2>8, <3>3 DEF OnceOf
  <2> QED
    BY <2>5, <2>10, <2>11, <2>12 DEF StreamOK
<1> QED
  BY <1>9, <1>10, <1>11

-----------------------------------------------------------------------------
(* The invariant, action by action.                                        *)

Kept == TypeOK' /\ LogOK' /\ \A s \in Streams : StreamOK(s)'

\* A reader skips a line or sends it.
LEMMA ReaderTakesKeeps ==
  ASSUME Inv, NEW s \in Streams, Skips(s) \/ Sends(s)
  PROVE  Kept
<1>1. TypeOK /\ LogOK /\ Takes(s) /\ ahead[s] \in Seq(1..MaxLog) /\ ahead[s] # <<>>
  BY DEF Inv, TypeOK, Skips, Sends, Takes, outVars, logVars, reqVars, netVars, pipeVars
<1>2. /\ up' = up /\ file' = file /\ follower' = follower /\ followers' = followers
      /\ cancelled' = cancelled /\ since' = since /\ cursor' = cursor /\ end' = end
      /\ demux' = demux /\ frame' = frame /\ reader' = reader /\ prev' = prev /\ cut' = cut
      /\ ahead' = [ahead EXCEPT ![s] = Tail(ahead[s])]
      /\ (skip' = skip /\ mark' = [mark EXCEPT ![s] = mark'[s]]
           /\ got' = [got EXCEPT ![s] = got'[s]])
         \/ (mark' = mark /\ got' = got /\ skip' = [skip EXCEPT ![s] = skip'[s]])
  <2>1. CASE Skips(s)
    BY <1>1, <2>1 DEF Skips, TypeOK, outVars, logVars, reqVars, netVars, pipeVars
  <2>2. CASE Sends(s)
    BY <1>1, <2>2 DEF Sends, TypeOK, outVars, logVars, reqVars, netVars, pipeVars
  <2> QED
    BY <2>1, <2>2
<1>3. ahead' \in [Streams -> Seq(1..MaxLog)]
  <2>1. Tail(ahead[s]) \in Seq(1..MaxLog)
    BY <1>1, HeadFacts
  <2> QED
    BY <1>1, <1>2, <2>1 DEF TypeOK
<1>4. TypeOK' /\ StreamOK(s)'
  <2>1. CASE Skips(s)
    <3>1. StreamOK(s)' /\ skip' \in [Streams -> 0..MaxLog] /\ mark' = mark /\ got' = got
      BY <2>1, SkipsKeeps DEF Skips, outVars
    <3> QED
      BY <1>1, <1>2, <1>3, <3>1 DEF TypeOK
  <2>2. CASE Sends(s)
    <3>1. /\ StreamOK(s)' /\ mark'[s] \in Mark /\ got' \in [Streams -> Seq(1..MaxLog)]
          /\ skip' = skip
      BY <2>2, SendsKeeps DEF Sends
    <3>2. mark' \in [Streams -> Mark]
      BY <1>1, <2>2, <3>1 DEF Sends, TypeOK
    <3> QED
      BY <1>1, <1>2, <1>3, <3>1, <3>2 DEF TypeOK
  <2> QED
    BY <2>1, <2>2
<1>5. LogOK'
  BY <1>1, <1>2 DEF LogOK
<1>6. ASSUME NEW r \in Streams, r # s PROVE StreamOK(r)'
  <2>1. ahead'[r] = ahead[r] /\ mark'[r] = mark[r] /\ got'[r] = got[r] /\ skip'[r] = skip[r]
    BY <1>1, <1>2, <1>6 DEF TypeOK
  <2>2. Writing(r)' <=> Writing(r)
    BY <1>2 DEF Writing
  <2>3. SameView(r)
    BY <1>2, <2>1, <2>2 DEF SameView
  <2> QED
    BY <2>3, SameStream DEF Inv
<1>7. \A r \in Streams : StreamOK(r)'
  BY <1>4, <1>6
<1> QED
  BY <1>4, <1>5, <1>7 DEF Kept

\* A reader is cut off at a send, or meets the end of its pipe.
LEMMA ReaderStopsKeeps ==
  ASSUME Inv, NEW s \in Streams, ReaderCut(s) \/ ReaderEnds(s)
  PROVE  Kept
<1>1. TypeOK /\ LogOK /\ ahead[s] \in Seq(1..MaxLog) /\ reader[s] = "read"
  BY DEF Inv, TypeOK, ReaderCut, ReaderEnds
<1>2. /\ up' = up /\ file' = file /\ follower' = follower /\ followers' = followers
      /\ cancelled' = cancelled /\ since' = since /\ cursor' = cursor /\ end' = end
      /\ demux' = demux /\ frame' = frame /\ prev' = prev
      /\ skip' = skip /\ mark' = mark /\ got' = got
      /\ ahead' = [ahead EXCEPT ![s] = <<>>]
      /\ reader' = [reader EXCEPT ![s] = "done"]
      /\ cut' \subseteq 1..MaxLog
  <2>1. CASE ReaderCut(s)
    <3>1. ToSet(ahead[s]) \subseteq 1..MaxLog
      <4> DEFINE S == 1..MaxLog
      <4>1. ahead[s] \in Seq(S)
        BY <1>1
      <4> HIDE DEF S
      <4>2. ToSet(ahead[s]) \subseteq S
        BY <4>1 DEF ToSet
      <4> QED
        BY <4>2 DEF S
    <3>2. cut' \subseteq 1..MaxLog
      BY <1>1, <2>1, <3>1 DEF ReaderCut, TypeOK
    <3> QED
      BY <2>1, <3>2 DEF ReaderCut, MarkOnCut, logVars, reqVars, netVars, pipeVars
  <2>2. CASE ReaderEnds(s)
    BY <1>1, <2>2 DEF ReaderEnds, TypeOK, outVars, logVars, reqVars, netVars, pipeVars
  <2> QED
    BY <2>1, <2>2
<1>3. TypeOK'
  <2>1. <<>> \in Seq(1..MaxLog)
    OBVIOUS
  <2>2. ahead' \in [Streams -> Seq(1..MaxLog)] /\ reader' \in [Streams -> {"read", "done"}]
    BY <1>1, <1>2, <2>1 DEF TypeOK
  <2> QED
    BY <1>1, <1>2, <2>2 DEF TypeOK
<1>4. LogOK'
  <2>1. \A r \in Streams : reader[r] = "done" => reader'[r] = "done"
    BY <1>1, <1>2 DEF TypeOK
  <2> QED
    BY <1>1, <1>2, <2>1 DEF LogOK
<1>5. StreamOK(s)'
  <2>1. got'[s] = got[s] /\ mark'[s] = mark[s] /\ reader'[s] = "done" /\ ahead'[s] = <<>>
    BY <1>1, <1>2 DEF TypeOK
  <2> QED
    BY <1>2, <2>1, StoppedStream DEF Inv
<1>6. ASSUME NEW r \in Streams, r # s PROVE StreamOK(r)'
  <2>1. ahead'[r] = ahead[r] /\ reader'[r] = reader[r]
    BY <1>1, <1>2, <1>6 DEF TypeOK
  <2>2. Writing(r)' <=> Writing(r)
    BY <1>2 DEF Writing
  <2>3. SameView(r)
    BY <1>2, <2>1, <2>2 DEF SameView
  <2> QED
    BY <2>3, SameStream DEF Inv
<1>7. \A r \in Streams : StreamOK(r)'
  BY <1>5, <1>6
<1> QED
  BY <1>3, <1>4, <1>7 DEF Kept

\* What changes neither the log nor what is on its way to a reader.
LEMMA OutsideKeeps ==
  ASSUME Inv, Dies \/ Starts \/ Cancel \/ FollowerLeaves
  PROVE  Kept
<1>1. TypeOK /\ LogOK /\ Len(file) \in Nat
  BY DEF Inv, TypeOK
<1>2. /\ file' = file /\ followers' = followers /\ since' = since /\ cursor' = cursor
      /\ demux' = demux /\ frame' = frame /\ reader' = reader /\ ahead' = ahead
      /\ prev' = prev /\ skip' = skip /\ mark' = mark /\ got' = got /\ cut' = cut
  BY DEF Dies, Starts, Cancel, FollowerLeaves, logVars, reqVars, netVars, pipeVars, readVars,
         outVars
<1>3. /\ up' \in BOOLEAN /\ cancelled' \in BOOLEAN
      /\ end' = end \/ end' = Len(file)
      /\ follower' = follower
         \/ (follower' = "none" /\ demux = "done" /\ \A s \in Streams : reader[s] = "done")
  BY <1>1 DEF Dies, Starts, Cancel, FollowerLeaves, TypeOK, logVars, netVars
<1>4. TypeOK'
  <2>1. end' \in 0..Live
    BY <1>1, <1>3, DockerLogAssumption DEF TypeOK, Live
  <2> QED
    BY <1>1, <1>2, <1>3, <2>1 DEF TypeOK
<1>5. LogOK'
  BY <1>1, <1>2, <1>3 DEF LogOK
<1>6. ASSUME NEW s \in Streams PROVE StreamOK(s)'
  <2>1. SameView(s)
    BY <1>2 DEF SameView, Writing
  <2> QED
    BY <2>1, SameStream DEF Inv
<1> QED
  BY <1>4, <1>5, <1>6 DEF Kept

\* The demuxer meets the end of the log, or its context's.
LEMMA DemuxEndsKeeps ==
  ASSUME Inv, DemuxEnds
  PROVE  Kept
<1>1. /\ TypeOK /\ LogOK /\ demux = "read" /\ demux' = "done"
      /\ up' = up /\ file' = file /\ follower' = follower /\ followers' = followers
      /\ cancelled' = cancelled /\ since' = since /\ cursor' = cursor /\ end' = end
      /\ frame' = frame /\ reader' = reader /\ ahead' = ahead /\ prev' = prev /\ cut' = cut
      /\ skip' = skip /\ mark' = mark /\ got' = got
  BY DEF Inv, DemuxEnds, logVars, reqVars, netVars, readVars, outVars
<1>2. TypeOK' /\ LogOK'
  BY <1>1 DEF TypeOK, LogOK
<1>3. ASSUME NEW s \in Streams PROVE StreamOK(s)'
  <2>1. SameView(s)
    BY <1>1 DEF SameView, Writing
  <2> QED
    BY <2>1, SameStream DEF Inv
<1> QED
  BY <1>2, <1>3 DEF Kept

\* The frame is lost, of a stream nobody reads any more.
LEMMA PipeFailsKeeps ==
  ASSUME Inv, PipeFails
  PROVE  Kept
<1>1. /\ TypeOK /\ LogOK /\ demux = "write" /\ demux' = "done"
      /\ reader[file[frame].s] = "done"
      /\ up' = up /\ file' = file /\ follower' = follower /\ followers' = followers
      /\ cancelled' = cancelled /\ since' = since /\ cursor' = cursor /\ end' = end
      /\ frame' = frame /\ reader' = reader /\ ahead' = ahead /\ prev' = prev /\ cut' = cut
      /\ skip' = skip /\ mark' = mark /\ got' = got
  BY DEF Inv, PipeFails, ReadEndClosed, logVars, reqVars, netVars, readVars, outVars
<1>2. TypeOK' /\ LogOK'
  BY <1>1 DEF TypeOK, LogOK
<1>3. ASSUME NEW s \in Streams PROVE StreamOK(s)'
  <2>1. CASE reader[s] = "done"
    <3>1. ahead[s] = <<>>
      BY <2>1 DEF Inv, StreamOK, PipeOf
    <3> QED
      BY <1>1, <2>1, <3>1, StoppedStream DEF Inv
  <2>2. CASE reader[s] # "done"
    <3>1. SameView(s)
      BY <1>1, <2>2 DEF SameView, Writing
    <3> QED
      BY <3>1, SameStream DEF Inv
  <2> QED
    BY <2>1, <2>2
<1> QED
  BY <1>2, <1>3 DEF Kept

\* The demuxer's two other steps.
LEMMA DemuxerReadsAndWrites ==
  ASSUME Inv, DemuxReads \/ PipeTakes
  PROVE  Kept
<1>1. TypeOK /\ LogOK /\ file \in Seq(Line) /\ Len(file) \in Nat /\ Len(file) <= MaxLog
      /\ MaxLog \in Nat
  BY DockerLogAssumption DEF Inv, TypeOK
<1>2. TypeOK'
  <2>1. CASE DemuxReads
    <3>1. /\ frame' \in 1..Len(file) /\ cursor' = frame' + 1 /\ demux' = "write"
          /\ up' = up /\ file' = file /\ follower' = follower /\ followers' = followers
          /\ cancelled' = cancelled /\ since' = since /\ end' = end
          /\ reader' = reader /\ ahead' = ahead /\ prev' = prev /\ cut' = cut
          /\ skip' = skip /\ mark' = mark /\ got' = got
      BY <1>1, <2>1, NextFrame DEF DemuxReads, logVars, reqVars, readVars, outVars
    <3>2. frame' \in 0..MaxLog /\ cursor' \in 1..(MaxLog + 1)
      <4>1. \A i \in 1..Len(file) : i \in 0..MaxLog /\ i + 1 \in 1..(MaxLog + 1)
        BY <1>1
      <4> QED
        BY <3>1, <4>1
    <3> QED
      BY <1>1, <3>1, <3>2 DEF TypeOK
  <2>2. CASE PipeTakes
    <3> PICK t : t = file[frame].s
      OBVIOUS
    <3>1. /\ demux = "write" /\ demux' = "read" /\ ahead' = [ahead EXCEPT ![t] = Append(@, frame)]
          /\ up' = up /\ file' = file /\ follower' = follower /\ followers' = followers
          /\ cancelled' = cancelled /\ since' = since /\ end' = end /\ cursor' = cursor
          /\ frame' = frame /\ reader' = reader /\ prev' = prev /\ cut' = cut
          /\ skip' = skip /\ mark' = mark /\ got' = got
      BY <2>2 DEF PipeTakes, logVars, reqVars, netVars, outVars
    <3>2. t \in Streams /\ frame \in 1..MaxLog
      BY <1>1, <3>1, LineFacts DEF LogOK
    <3>3. Append(ahead[t], frame) \in Seq(1..MaxLog)
      <4> DEFINE S == 1..MaxLog
      <4>1. ahead[t] \in Seq(S) /\ frame \in S
        BY <1>1, <3>2 DEF TypeOK
      <4> HIDE DEF S
      <4>2. Append(ahead[t], frame) \in Seq(S)
        BY <4>1, AppendProperties
      <4> QED
        BY <4>2 DEF S
    <3>4. ahead' \in [Streams -> Seq(1..MaxLog)]
      BY <1>1, <3>1, <3>2, <3>3 DEF TypeOK
    <3> QED
      BY <1>1, <3>1, <3>4 DEF TypeOK
  <2> QED
    BY <2>1, <2>2
<1> QED
  BY <1>2, DemuxReadsKeeps, PipeTakesKeeps DEF Kept

\* Every step keeps the invariant but for what it says of the end.
LEMMA NextKeeps ==
  ASSUME Inv, [Next]_vars
  PROVE  Kept
<1>1. CASE Opens
  BY <1>1, OpensKeeps DEF Kept
<1>2. ASSUME NEW s \in Streams, Writes(s) PROVE Kept
  BY <1>2, WritesKeeps DEF Kept
<1>3. CASE UNCHANGED vars
  <2>1. /\ up' = up /\ file' = file /\ follower' = follower /\ followers' = followers
        /\ cancelled' = cancelled /\ since' = since /\ cursor' = cursor /\ end' = end
        /\ demux' = demux /\ frame' = frame /\ reader' = reader /\ ahead' = ahead
        /\ prev' = prev /\ cut' = cut /\ skip' = skip /\ mark' = mark /\ got' = got
    BY <1>3 DEF vars, logVars, reqVars, netVars, pipeVars, readVars, outVars
  <2>2. TypeOK' /\ LogOK'
    BY <2>1 DEF Inv, TypeOK, LogOK
  <2>3. \A s \in Streams : SameView(s)
    BY <2>1 DEF SameView, Writing
  <2> QED
    BY <2>2, <2>3, SameStream DEF Inv, Kept
<1> QED
  BY <1>1, <1>2, <1>3, ReaderTakesKeeps, ReaderStopsKeeps, OutsideKeeps, DemuxEndsKeeps,
     PipeFailsKeeps, DemuxerReadsAndWrites
     DEF Next, Environment, Demuxer, Reader

\* The reader met the end of its pipe: what it passed by was not asked for, and nothing of
\* what was asked for is left.
LEMMA ReaderEndsAtTheEnd ==
  ASSUME Inv, NEW s \in Streams, ReaderEnds(s), end # Live, ToSend = {}, got[s] # <<>>
  PROVE  NoneIn(file, s, Last(got[s]), end + 1)
<1>1. /\ TypeOK /\ LogOK /\ GotOf(s) /\ ReadOf(s) /\ reader[s] = "read" /\ ahead[s] = <<>>
      /\ demux = "done"
  BY DEF Inv, StreamOK, ReaderEnds
<1>2. file \in Seq(Line) /\ cursor \in Nat /\ end \in Nat /\ since \in Nat
  BY <1>1, DockerLogAssumption DEF TypeOK, Live
<1>3. At(s) = cursor
  BY <1>1 DEF At, Writing
<1>4. /\ Last(got[s]) \in DOMAIN file /\ IsLine(file, s, Last(got[s]))
      /\ file[Last(got[s])].at >= since /\ NoneIn(file, s, Last(got[s]), cursor)
  BY <1>1, <1>3, LastFacts DEF ReadOf
<1> SUFFICES ASSUME NEW j \in DOMAIN file, IsLine(file, s, j), Last(got[s]) < j, j < end + 1
             PROVE  FALSE
  BY DEF NoneIn
<1>5. /\ j \in Nat /\ Last(got[s]) \in Nat /\ file[j].at \in Nat
      /\ file[Last(got[s])].at \in Nat
  BY <1>2, <1>4, LineFacts
<1>6. j >= cursor
  BY <1>2, <1>4, <1>5 DEF NoneIn
<1>7. file[Last(got[s])].at <= file[j].at
  BY <1>1, <1>4, <1>5 DEF LogOK, InOrder
<1>8. j <= end /\ file[j].at >= since
  BY <1>2, <1>4, <1>5, <1>7
<1> QED
  BY <1>6, <1>8 DEF ToSend

\* The end changes only for a demuxer that has not met it.
LEMMA EndKeeps ==
  ASSUME Inv, [Next]_vars
  PROVE  EndOK'
<1>1. TypeOK /\ LogOK /\ EndOK
  BY DEF Inv
<1> SUFFICES ASSUME ~ cancelled', followers' > 0
             PROVE  /\ demux' = "done" => end' # Live /\ ToSend' = {}
                    /\ \A s \in Streams : reader'[s] = "done" =>
                         /\ demux' = "done"
                         /\ got'[s] # <<>> => NoneIn(file', s, Last(got'[s]), end' + 1)
  BY DEF EndOK
<1> DEFINE
     Same == /\ file' = file /\ cursor' = cursor /\ since' = since /\ demux' = demux
             /\ cancelled' = cancelled /\ followers' = followers /\ end' = end
<1>2. ASSUME ~ cancelled, followers > 0
      PROVE  /\ demux = "done" => end # Live /\ ToSend = {}
             /\ \A s \in Streams : reader[s] = "done" =>
                  /\ demux = "done"
                  /\ got[s] # <<>> => NoneIn(file, s, Last(got[s]), end + 1)
  BY <1>1, <1>2 DEF EndOK
<1>3. Same => ToSend' = ToSend
  BY DEF ToSend
<1>4. CASE Opens
  BY <1>4 DEF Opens
<1>5. CASE Cancel
  BY <1>5 DEF Cancel
<1>6. ASSUME NEW r \in Streams, Writes(r)
      PROVE  /\ demux' = "done" => end' # Live /\ ToSend' = {}
             /\ \A s \in Streams : reader'[s] = "done" =>
                  /\ demux' = "done"
                  /\ got'[s] # <<>> => NoneIn(file', s, Last(got'[s]), end' + 1)
  <2> DEFINE n == Len(file)
  <2>1. /\ Extends(file, file', n) /\ end \in Nat /\ n \in Nat
        /\ cancelled' = cancelled /\ followers' = followers /\ demux' = demux /\ end' = end
        /\ reader' = reader /\ got' = got /\ cursor' = cursor /\ since' = since
    <3>1. PICK t \in LastStamp(r)..MaxStamp : file' = Append(file, [s |-> r, at |-> t])
      BY <1>6 DEF Writes
    <3>2. LastStamp(r) \in Nat /\ LastStamp(r) > 0
      BY <1>1, LastStampFacts
    <3> DEFINE l == [s |-> r, at |-> t]
    <3>3. l \in Line /\ file \in Seq(Line)
      BY <1>1, <3>1, <3>2, DockerLogAssumption DEF Line, TypeOK
    <3> HIDE DEF l
    <3>4. /\ Append(file, l) \in Seq(Line) /\ Len(Append(file, l)) = n + 1
          /\ \A i \in DOMAIN file : Append(file, l)[i] = file[i]
      BY <3>3, AppendProperties
    <3>5. Extends(file, file', n)
      BY <3>1, <3>3, <3>4 DEF Extends, l
    <3>6. end \in Nat /\ n \in Nat
      BY <1>1, DockerLogAssumption DEF TypeOK, Live
    <3> QED
      BY <1>6, <3>5, <3>6 DEF Writes, reqVars, netVars, pipeVars, readVars, outVars
  <2>2. demux = "done" => end # Live /\ ToSend = {} /\ end <= n
    BY <1>1, <1>2, <2>1 DEF LogOK
  <2> HIDE DEF n
  <2>3. demux = "done" => ToSend' = {}
    <3>1. \A i \in DOMAIN file' : i \in Nat /\ (i \in DOMAIN file \/ i = n + 1)
      BY <2>1, LongerLog
    <3>2. \A i \in DOMAIN file : file'[i] = file[i]
      BY <2>1 DEF Extends
    <3>3. demux = "done" => \A i \in DOMAIN file' : i <= end => i \in DOMAIN file
      BY <2>1, <2>2, <3>1
    <3> QED
      BY <2>1, <2>2, <3>2, <3>3 DEF ToSend
  <2>4. ASSUME NEW s \in Streams, reader[s] = "done", got[s] # <<>>
        PROVE  NoneIn(file', s, Last(got[s]), end + 1)
    <3>1. demux = "done" /\ NoneIn(file, s, Last(got[s]), end + 1)
      BY <1>2, <2>1, <2>4
    <3>2. end + 1 \in Nat /\ end + 1 <= n + 1
      BY <2>1, <2>2, <3>1
    <3> QED
      BY <2>1, <3>1, <3>2, LongerLog
  <2> QED
    BY <1>2, <2>1, <2>2, <2>3, <2>4
<1>7. CASE Dies
  BY <1>2, <1>3, <1>7 DEF Dies, ToSend, reqVars, pipeVars, readVars, outVars
<1>8. CASE Starts \/ FollowerLeaves \/ UNCHANGED vars
  <2>1. Same /\ reader' = reader /\ got' = got
    BY <1>8 DEF Starts, FollowerLeaves, vars, logVars, reqVars, netVars, pipeVars, readVars,
                outVars
  <2> QED
    BY <1>2, <1>3, <2>1
<1>9. CASE DemuxReads \/ PipeTakes
  BY <1>2, <1>9 DEF DemuxReads, PipeTakes, reqVars, readVars
<1>10. CASE DemuxEnds
  <2>1. /\ file' = file /\ cursor' = cursor /\ since' = since /\ end' = end
        /\ cancelled' = cancelled /\ followers' = followers /\ demux = "read" /\ reader' = reader
    BY <1>10 DEF DemuxEnds, logVars, reqVars, netVars, readVars
  <2>2. end # Live /\ ToSend = {}
    BY <1>10, <2>1 DEF DemuxEnds
  <2> QED
    BY <1>2, <2>1, <2>2 DEF ToSend
<1>11. CASE PipeFails
  <2>1. /\ cancelled' = cancelled /\ followers' = followers /\ demux = "write"
        /\ reader[file[frame].s] = "done"
    BY <1>11 DEF PipeFails, ReadEndClosed, reqVars
  <2>2. file[frame].s \in Streams
    BY <1>1, <2>1, LineFacts DEF LogOK, TypeOK
  <2> QED
    BY <1>2, <2>1, <2>2
<1>12. ASSUME NEW r \in Streams, Reader(r)
       PROVE  /\ demux' = "done" => end' # Live /\ ToSend' = {}
              /\ \A s \in Streams : reader'[s] = "done" =>
                   /\ demux' = "done"
                   /\ got'[s] # <<>> => NoneIn(file', s, Last(got'[s]), end' + 1)
  <2>1. Same
    BY <1>12 DEF Reader, Skips, Sends, ReaderCut, ReaderEnds, logVars, reqVars, netVars, pipeVars
  <2>2. CASE Skips(r)
    <3>1. reader' = reader /\ got' = got
      BY <2>2 DEF Skips, outVars
    <3> QED
      BY <1>2, <1>3, <2>1, <3>1
  <2>3. CASE Sends(r)
    <3>1. /\ reader' = reader /\ reader[r] = "read"
          /\ \A s \in Streams : s # r => got'[s] = got[s]
      BY <1>1, <2>3 DEF Sends, TypeOK
    <3> QED
      BY <1>2, <1>3, <2>1, <3>1
  <2>4. CASE ReaderCut(r)
    BY <2>1, <2>4 DEF ReaderCut
  <2>5. CASE ReaderEnds(r)
    <3>1. /\ got' = got /\ demux = "done"
          /\ \A s \in Streams : s # r => reader'[s] = reader[s]
      BY <1>1, <2>5 DEF ReaderEnds, TypeOK, outVars
    <3>2. end # Live /\ ToSend = {}
      BY <1>2, <2>1, <3>1
    <3>3. got[r] # <<>> => NoneIn(file, r, Last(got[r]), end + 1)
      BY <2>5, <3>2, ReaderEndsAtTheEnd
    <3> QED
      BY <1>2, <1>3, <2>1, <3>1, <3>2, <3>3
  <2> QED
    BY <1>12, <2>2, <2>3, <2>4, <2>5 DEF Reader
<1> QED
  BY <1>4, <1>5, <1>6, <1>7, <1>8, <1>9, <1>10, <1>11, <1>12 DEF Next, Environment, Demuxer

-----------------------------------------------------------------------------
\* Before the first follower.
LEMMA InitInv == Init => Inv
<1> SUFFICES ASSUME Init PROVE Inv
  OBVIOUS
<1>1. TypeOK
  <2>1. /\ <<>> \in Seq(1..MaxLog) /\ <<>> \in Seq(Line) /\ Len(<<>>) = 0
        /\ NoMark \in Mark /\ 0 \in 0..MaxLog /\ 0 \in 0..MaxStamp /\ 0 \in 0..MaxFollowers
        /\ 1 \in 1..(MaxLog + 1) /\ 0 \in 0..Live
    BY DockerLogAssumption DEF Mark, NoMark, Live
  <2>2. /\ mark \in [Streams -> Mark] /\ prev \in [Streams -> Mark]
        /\ skip \in [Streams -> 0..MaxLog] /\ reader \in [Streams -> {"read", "done"}]
    BY <2>1 DEF Init
  <2>3. ahead \in [Streams -> Seq(1..MaxLog)] /\ got \in [Streams -> Seq(1..MaxLog)]
    BY <2>1 DEF Init
  <2>4. /\ file \in Seq(Line) /\ Len(file) <= MaxLog /\ up \in BOOLEAN
        /\ cut \subseteq 1..MaxLog
    BY <2>1, DockerLogAssumption DEF Init
  <2>5. /\ followers \in 0..MaxFollowers /\ since \in 0..MaxStamp /\ cursor \in 1..(MaxLog + 1)
        /\ end \in 0..Live /\ frame \in 0..MaxLog
    BY <2>1 DEF Init
  <2>6. /\ follower \in {"none", "running"} /\ cancelled \in BOOLEAN
        /\ demux \in {"read", "write", "done"}
    BY DEF Init
  <2> QED
    BY <2>2, <2>3, <2>4, <2>5, <2>6 DEF TypeOK
<1>2. LogOK /\ EndOK
  BY DEF Init, LogOK, EndOK, InOrder, Live
<1>3. \A s \in Streams : StreamOK(s)
  BY DEF Init, StreamOK, PipeOf, GotOf, ReadOf, OnceOf
<1> QED
  BY <1>1, <1>2, <1>3 DEF Inv

\* What holds between the daemon, the demuxer, the readers and the marks, at every step of
\* every follower.
THEOREM InvAlways == Spec => []Inv
<1>1. Inv /\ [Next]_vars => Inv'
  <2> SUFFICES ASSUME Inv, [Next]_vars PROVE Inv'
    OBVIOUS
  <2>1. TypeOK' /\ LogOK' /\ \A s \in Streams : StreamOK(s)'
    BY NextKeeps DEF Kept
  <2>2. EndOK'
    BY EndKeeps
  <2> QED
    BY <2>1, <2>2 DEF Inv
<1> QED
  BY InitInv, <1>1, PTL DEF Spec

\* followContainer's, streamLogs' and readDockerStream's state: a mark counts no more lines
\* than the log has, and no reader skips more than its mark counts.
THEOREM TypesAlwaysHold == Spec => []TypeOK
<1>1. Inv => TypeOK
  BY DEF Inv
<1> QED
  BY InvAlways, <1>1, PTL

\* readDockerStream's skipping and streamMark.advance, across any number of followers cut
\* off anywhere: no line of a stream is delivered twice, out of order or left out, as long
\* as the first tail does not begin between two lines of one stamp.
THEOREM StreamsAreAlwaysReadOnce == Spec => []StreamIsReadOnce
<1>1. Inv => StreamIsReadOnce
  <2> SUFFICES ASSUME Inv, NEW s \in Streams, ~ TailSplitsAStamp(s),
                      NEW i \in 1..(Len(got[s]) - 1)
               PROVE  /\ got[s][i] < got[s][i + 1]
                      /\ LinesOf(s) \cap (got[s][i] + 1 .. got[s][i + 1] - 1) = {}
    BY DEF StreamIsReadOnce
  <2>1. /\ got[s][i] < got[s][i + 1] /\ NoneIn(file, s, got[s][i], got[s][i + 1])
        /\ file \in Seq(Line) /\ got[s] \in Seq(1..MaxLog)
        /\ \A a \in DOMAIN got[s] : IsLine(file, s, got[s][a])
    BY DEF Inv, StreamOK, OnceOf, GotOf, TypeOK
  <2>2. i \in DOMAIN got[s] /\ i + 1 \in DOMAIN got[s]
    BY <2>1
  <2>3. got[s][i] \in Nat /\ got[s][i + 1] \in Nat
    BY <2>1, <2>2, LineFacts DEF IsLine
  <2>4. ASSUME NEW j \in LinesOf(s), got[s][i] + 1 <= j, j <= got[s][i + 1] - 1
        PROVE  FALSE
    <3>1. j \in DOMAIN file /\ IsLine(file, s, j) /\ j \in Nat
      BY <2>1, LineFacts DEF LinesOf, IsLine
    <3> QED
      BY <2>1, <2>3, <2>4, <3>1 DEF NoneIn
  <2> QED
    BY <2>1, <2>4
<1> QED
  BY InvAlways, <1>1, PTL

\* streamLogs: a follower that nobody cancelled has read to the end of the log every stream
\* that ever delivered a line.
THEOREM ACleanEndIsAlwaysComplete == Spec => []CleanEndIsComplete
<1>1. Inv => CleanEndIsComplete
  <2> SUFFICES ASSUME Inv, CleanEnd, NEW s \in Streams, got[s] # <<>>
               PROVE  LinesOf(s) \cap (Last(got[s]) + 1 .. end) = {}
    BY DEF CleanEndIsComplete
  <2>1. TypeOK /\ LogOK /\ EndOK /\ GotOf(s) /\ file \in Seq(Line) /\ end \in Nat
    BY DockerLogAssumption DEF Inv, StreamOK, TypeOK, Live
  <2>2. NoneIn(file, s, Last(got[s]), end + 1)
    BY <2>1 DEF CleanEnd, LogOK, EndOK
  <2>3. Last(got[s]) \in Nat
    BY <2>1, LastFacts, LineFacts
  <2>4. ASSUME NEW j \in LinesOf(s), Last(got[s]) + 1 <= j, j <= end
        PROVE  FALSE
    <3>1. j \in DOMAIN file /\ IsLine(file, s, j) /\ j \in Nat
      BY <2>1, LineFacts DEF LinesOf, IsLine
    <3> QED
      BY <2>1, <2>2, <2>3, <2>4, <3>1 DEF NoneIn
  <2> QED
    BY <2>4
<1> QED
  BY InvAlways, <1>1, PTL

-----------------------------------------------------------------------------
(***************************************************************************)
(* How a follower leaves: what CancelledFollowerLeaves rests on besides    *)
(* fairness.                                                               *)
(***************************************************************************)
\* The demuxer has its frame on the pipe, and the reader takes it or is gone.
FrameMoves ==
  LET s == file[frame].s IN
  /\ demux = "write"
  /\ (reader[s] = "read" /\ Len(ahead[s]) < ReadAhead) \/ ReadEndClosed(s)

\* The reader has something to send, which it is let off, or has met the end of its pipe.
ReaderStops(s) ==
  /\ reader[s] = "read"
  /\ (ahead[s] # <<>> /\ cancelled) \/ (ahead[s] = <<>> /\ demux = "done")

\* Of a cancelled follower somebody can move, though nobody reads what it sends: the demuxer's
\* read fails, its frame moves, a reader stops, or all three are done.
CancelledNeverSticks ==
  follower = "running" /\ cancelled =>
    \/ demux = "read"
    \/ FrameMoves
    \/ \E s \in Streams : ReaderStops(s)
    \/ (demux = "done" /\ \A s \in Streams : reader[s] = "done")

FollowerSteps == Demuxer \/ FollowerLeaves \/ \E s \in Streams : Reader(s)

One(b) == IF b THEN 1 ELSE 0

\* The lines of the log it may still read, those on their way, and who has yet to return.
ToRead == 3 * (MaxLog + 1 - cursor)
InPipe(s) == IF reader[s] = "read" THEN Len(ahead[s]) + 1 ELSE 0
Pumping == (IF demux = "write" THEN 3 ELSE One(demux = "read")) + One(follower = "running")
WorkLeft == ToRead + InPipe("stdout") + InPipe("stderr") + Pumping

\* Each step of a follower leaves it less to do, and no step of the container, of a cancel
\* or of the daemon gives it more or takes its cancel back.
FollowerAdvances ==
  [][follower = "running" =>
       /\ FollowerSteps => WorkLeft' \in Nat /\ WorkLeft' < WorkLeft
       /\ ~ FollowerSteps =>
            WorkLeft' = WorkLeft /\ follower' = follower /\ (cancelled => cancelled')]_vars

\* streamLogs and readDockerStream: a follower that was cancelled can always go on leaving,
\* with lines in hand, a frame half written to a pipe and nobody reading Lines' output; the
\* demuxer is not left writing to a reader that has returned, nor a reader waiting for it.
THEOREM ACancelledFollowerNeverSticks == Spec => []CancelledNeverSticks
<1>1. ASSUME Inv, follower = "running", cancelled, demux = "write"
      PROVE  FrameMoves \/ \E s \in Streams : ReaderStops(s)
  <2> PICK s : s = file[frame].s
    OBVIOUS
  <2>1. TypeOK /\ frame \in DOMAIN file /\ file \in Seq(Line)
    BY <1>1 DEF Inv, LogOK, TypeOK
  <2>2. s \in Streams
    BY <2>1, LineFacts
  <2>3. reader[s] \in {"read", "done"}
    BY <2>1, <2>2 DEF TypeOK
  <2>4. CASE reader[s] = "done"
    BY <1>1, <2>4 DEF FrameMoves, ReadEndClosed
  <2>5. CASE reader[s] = "read" /\ ahead[s] = <<>>
    BY <1>1, <2>5, DockerLogAssumption DEF FrameMoves
  <2>6. CASE reader[s] = "read" /\ ahead[s] # <<>>
    BY <1>1, <2>2, <2>6 DEF ReaderStops
  <2> QED
    BY <2>3, <2>4, <2>5, <2>6
<1>2. ASSUME Inv, follower = "running", cancelled, demux = "done",
             NEW s \in Streams, reader[s] # "done"
      PROVE  ReaderStops(s)
  BY <1>2 DEF Inv, TypeOK, ReaderStops
<1>3. Inv => CancelledNeverSticks
  <2> SUFFICES ASSUME Inv, follower = "running", cancelled, demux # "read"
               PROVE  \/ FrameMoves
                      \/ \E s \in Streams : ReaderStops(s)
                      \/ (demux = "done" /\ \A s \in Streams : reader[s] = "done")
    BY DEF CancelledNeverSticks
  <2>1. demux = "write" \/ demux = "done"
    BY DEF Inv, TypeOK
  <2> QED
    BY <1>1, <1>2, <2>1
<1> QED
  BY InvAlways, <1>3, PTL

\* The parts of WorkLeft are naturals.
WorkTyped ==
  ToRead \in Nat /\ Pumping \in Nat /\ WorkLeft \in Nat /\ \A s \in Streams : InPipe(s) \in Nat

LEMMA WorkTypes == TypeOK => WorkTyped
<1> SUFFICES ASSUME TypeOK PROVE WorkTyped
  OBVIOUS
<1>1. ToRead \in Nat
  BY DockerLogAssumption DEF TypeOK, ToRead
<1>2. \A s \in Streams : InPipe(s) \in Nat
  <2> TAKE s \in Streams
  <2>1. ahead[s] \in Seq(1..MaxLog)
    BY DEF TypeOK
  <2> QED
    BY <2>1 DEF InPipe
<1>3. Pumping \in Nat
  BY DEF Pumping, One
<1>4. InPipe("stdout") \in Nat /\ InPipe("stderr") \in Nat
  BY <1>2 DEF Streams
<1> QED
  BY <1>1, <1>2, <1>3, <1>4 DEF WorkTyped, WorkLeft

\* A sum of naturals falls with one of its parts, when the others do not grow.
LEMMA SumFalls ==
  ASSUME NEW a \in Nat, NEW b \in Nat, NEW c \in Nat, NEW d \in Nat,
         NEW a1 \in Nat, NEW b1 \in Nat, NEW c1 \in Nat, NEW d1 \in Nat,
         a1 <= a, b1 <= b, c1 + d1 <= c + d, c1 + d1 < c + d \/ a1 < a \/ b1 < b
  PROVE  c1 + a1 + b1 + d1 < c + a + b + d
OBVIOUS

\* The same of three lines for each that is left to read.
LEMMA ReadFalls ==
  ASSUME NEW n \in Nat, NEW k \in Nat, NEW k1 \in Nat, k + 1 <= k1
  PROVE  3 * (n + 1 - k1) + 3 <= 3 * (n + 1 - k)
OBVIOUS

\* Three less and two more, or the same and less.
LEMMA PairFalls ==
  ASSUME NEW c \in Nat, NEW d \in Nat, NEW c1 \in Nat, NEW d1 \in Nat,
         (c1 + 3 <= c /\ d1 = d + 2) \/ (c1 = c /\ d1 < d)
  PROVE  c1 + d1 < c + d /\ c1 + d1 <= c + d
OBVIOUS

\* Two less and at most one more.
LEMMA HandsOn ==
  ASSUME NEW a \in Nat, NEW b \in Nat, NEW c \in Nat, NEW d \in Nat,
         NEW a1 \in Nat, NEW b1 \in Nat, NEW d1 \in Nat,
         d1 + 2 = d, a1 + b1 <= a + b + 1
  PROVE  c + a1 + b1 + d1 < c + a + b + d
OBVIOUS

\* What one of the parts loses, the others do not gain.
LEMMA LessWork ==
  ASSUME WorkTyped, WorkTyped', ToRead' + Pumping' <= ToRead + Pumping,
         \A s \in Streams : InPipe(s)' <= InPipe(s),
         \/ ToRead' + Pumping' < ToRead + Pumping
         \/ \E s \in Streams : InPipe(s)' < InPipe(s)
  PROVE  WorkLeft' < WorkLeft
<1>2. /\ InPipe("stdout") \in Nat /\ InPipe("stderr") \in Nat /\ ToRead \in Nat
      /\ Pumping \in Nat /\ InPipe("stdout")' \in Nat /\ InPipe("stderr")' \in Nat
      /\ ToRead' \in Nat /\ Pumping' \in Nat
  BY DEF WorkTyped, Streams
<1> PICK a \in Nat, b \in Nat, c \in Nat, d \in Nat,
         a1 \in Nat, b1 \in Nat, c1 \in Nat, d1 \in Nat :
      /\ a = InPipe("stdout") /\ b = InPipe("stderr") /\ c = ToRead /\ d = Pumping
      /\ a1 = InPipe("stdout")' /\ b1 = InPipe("stderr")' /\ c1 = ToRead' /\ d1 = Pumping'
  BY <1>2
<1>3. a1 <= a /\ b1 <= b
  BY DEF Streams
<1>4. c1 + d1 <= c + d
  OBVIOUS
<1>5. c1 + d1 < c + d \/ a1 < a \/ b1 < b
  BY DEF Streams
<1>6. c1 + a1 + b1 + d1 < c + a + b + d
  BY <1>3, <1>4, <1>5, SumFalls
<1>7. WorkLeft = c + a + b + d /\ WorkLeft' = c1 + a1 + b1 + d1
  BY DEF WorkLeft
<1> QED
  BY <1>6, <1>7

\* The demuxer takes a line behind its place in the log, hands one on, or returns.
LEMMA DemuxerAdvances ==
  ASSUME Inv, WorkTyped, WorkTyped', Demuxer
  PROVE  WorkLeft' < WorkLeft
<1>0. TypeOK /\ LogOK /\ MaxLog \in Nat /\ cursor \in Nat
  BY DockerLogAssumption DEF Inv, TypeOK
<1>1. CASE DemuxReads
  <2>1. /\ demux = "read" /\ demux' = "write" /\ cursor' = Min(ToSend) + 1
        /\ reader' = reader /\ ahead' = ahead /\ follower' = follower
    BY <1>1 DEF DemuxReads, readVars
  <2>2. cursor' \in Nat /\ cursor + 1 <= cursor'
    BY <1>0, <1>1, <2>1, NextFrame DEF DemuxReads
  <2>3. ToRead' + 3 <= ToRead
    BY <1>0, <2>2, ReadFalls DEF ToRead
  <2>4. Pumping' = Pumping + 2
    BY <2>1 DEF Pumping, One
  <2>5. \A s \in Streams : InPipe(s)' = InPipe(s)
    BY <2>1 DEF InPipe
  <2>6. \A s \in Streams : InPipe(s)' <= InPipe(s)
    BY <2>5 DEF WorkTyped
  <2>7. ToRead' + Pumping' < ToRead + Pumping /\ ToRead' + Pumping' <= ToRead + Pumping
    BY <2>3, <2>4, PairFalls DEF WorkTyped
  <2> QED
    BY <2>6, <2>7, LessWork
<1>2. CASE DemuxEnds \/ PipeFails
  <2>1. /\ demux \in {"read", "write"} /\ demux' = "done" /\ cursor' = cursor
        /\ reader' = reader /\ ahead' = ahead /\ follower' = follower
    BY <1>2 DEF DemuxEnds, PipeFails, readVars, netVars
  <2>2. Pumping' < Pumping
    BY <2>1 DEF Pumping, One
  <2>3. ToRead' = ToRead /\ \A s \in Streams : InPipe(s)' = InPipe(s)
    BY <2>1 DEF ToRead, InPipe
  <2>4. \A s \in Streams : InPipe(s)' <= InPipe(s)
    BY <2>3 DEF WorkTyped
  <2>5. ToRead' + Pumping' < ToRead + Pumping /\ ToRead' + Pumping' <= ToRead + Pumping
    BY <2>2, <2>3, PairFalls DEF WorkTyped
  <2> QED
    BY <2>4, <2>5, LessWork
<1>3. CASE PipeTakes
  <2> PICK t : t = file[frame].s
    OBVIOUS
  <2>1. /\ demux = "write" /\ demux' = "read" /\ ahead' = [ahead EXCEPT ![t] = Append(@, frame)]
        /\ reader' = reader /\ cursor' = cursor /\ follower' = follower /\ reader[t] = "read"
    BY <1>3 DEF PipeTakes, netVars
  <2>2. ahead \in [Streams -> Seq(1..MaxLog)]
    BY <1>0 DEF TypeOK
  <2>3. Pumping' + 2 = Pumping
    BY <2>1 DEF Pumping, One
  <2>4. ToRead' = ToRead
    BY <2>1 DEF ToRead
  <2>5. \A s \in Streams : s # t => InPipe(s)' = InPipe(s)
    BY <2>1, <2>2 DEF InPipe
  <2>6. \A s \in Streams : s = t => InPipe(s)' = InPipe(s) + 1
    <3> SUFFICES ASSUME t \in Streams PROVE InPipe(t)' = InPipe(t) + 1
      OBVIOUS
    <3>1. /\ ahead'[t] = Append(ahead[t], frame) /\ reader'[t] = reader[t]
          /\ ahead[t] \in Seq(1..MaxLog)
      BY <2>1, <2>2
    <3>2. PICK n \in Nat : n = Len(ahead[t]) /\ Len(ahead'[t]) = n + 1
      BY <3>1
    <3>3. InPipe(t) = n + 1 /\ InPipe(t)' = (n + 1) + 1
      BY <2>1, <3>1, <3>2 DEF InPipe
    <3> QED
      BY <3>3
  <2>7. /\ ToRead \in Nat /\ Pumping \in Nat /\ Pumping' \in Nat
        /\ InPipe("stdout") \in Nat /\ InPipe("stderr") \in Nat
        /\ InPipe("stdout")' \in Nat /\ InPipe("stderr")' \in Nat
    BY DEF WorkTyped, Streams
  <2> PICK a \in Nat, b \in Nat, a1 \in Nat, b1 \in Nat :
        /\ a = InPipe("stdout") /\ b = InPipe("stderr")
        /\ a1 = InPipe("stdout")' /\ b1 = InPipe("stderr")'
    BY <2>7
  <2>8. (a1 = a \/ b1 = b) /\ (a1 = a \/ a1 = a + 1) /\ (b1 = b \/ b1 = b + 1)
    BY <2>5, <2>6 DEF Streams
  <2>9. a1 + b1 <= a + b + 1
    BY <2>8
  <2>10. ToRead + a1 + b1 + Pumping' < ToRead + a + b + Pumping
    BY <2>3, <2>7, <2>9, HandsOn
  <2> QED
    BY <2>4, <2>10 DEF WorkLeft
<1> QED
  BY <1>1, <1>2, <1>3 DEF Demuxer

\* A reader has one line less in hand, or returns with none.
LEMMA ReaderAdvances ==
  ASSUME Inv, WorkTyped, WorkTyped', NEW s \in Streams, Reader(s)
  PROVE  WorkLeft' < WorkLeft
<1>1. ahead \in [Streams -> Seq(1..MaxLog)] /\ reader \in [Streams -> {"read", "done"}]
  BY DEF Inv, TypeOK
<1>2. cursor' = cursor /\ demux' = demux /\ follower' = follower
  BY DEF Reader, Skips, Sends, ReaderCut, ReaderEnds, netVars, pipeVars
<1>3. ToRead' = ToRead /\ Pumping' = Pumping
  BY <1>2 DEF ToRead, Pumping
<1>4. ASSUME NEW r \in Streams, r # s PROVE InPipe(r)' = InPipe(r)
  <2>1. ahead'[r] = ahead[r] /\ reader'[r] = reader[r]
    BY <1>1, <1>4 DEF Reader, Skips, Sends, ReaderCut, ReaderEnds
  <2> QED
    BY <2>1 DEF InPipe
<1>5. InPipe(s)' < InPipe(s)
  <2>1. CASE Skips(s) \/ Sends(s)
    <3>1. /\ ahead[s] # <<>> /\ ahead'[s] = Tail(ahead[s])
          /\ reader[s] = "read" /\ reader'[s] = "read"
      BY <1>1, <2>1 DEF Skips, Sends
    <3>2. /\ Len(ahead[s]) \in Nat /\ Len(ahead[s]) > 0
          /\ Len(Tail(ahead[s])) = Len(ahead[s]) - 1
      <4> DEFINE S == 1..MaxLog
      <4>1. ahead[s] \in Seq(S)
        BY <1>1
      <4> HIDE DEF S
      <4> QED
        BY <3>1, <4>1, HeadOfASeq
    <3>3. PICK n \in Nat : n = Len(ahead[s])
      BY <3>2
    <3>4. n > 0 /\ Len(ahead'[s]) = n - 1
      BY <3>1, <3>2, <3>3
    <3>5. InPipe(s) = n + 1 /\ InPipe(s)' = (n - 1) + 1
      BY <3>1, <3>3, <3>4 DEF InPipe
    <3>6. (n - 1) + 1 < n + 1
      BY <3>3
    <3> QED
      BY <3>5, <3>6
  <2>2. CASE ReaderCut(s) \/ ReaderEnds(s)
    <3>1. ahead'[s] = <<>> /\ reader[s] = "read" /\ reader'[s] = "done"
          /\ ahead[s] \in Seq(1..MaxLog)
      BY <1>1, <2>2 DEF ReaderCut, ReaderEnds
    <3>2. PICK n \in Nat : n = Len(ahead[s])
      BY <3>1
    <3>3. InPipe(s) = n + 1 /\ InPipe(s)' = 0
      BY <3>1, <3>2 DEF InPipe
    <3> QED
      BY <3>3
  <2> QED
    BY <2>1, <2>2 DEF Reader
<1>6. \A r \in Streams : InPipe(r)' <= InPipe(r)
  BY <1>4, <1>5 DEF WorkTyped
<1>7. ToRead' + Pumping' <= ToRead + Pumping
  BY <1>3 DEF WorkTyped
<1> QED
  BY <1>5, <1>6, <1>7, LessWork

\* followContainer, streamLogs: everything a follower does brings its end nearer, so one
\* that is cancelled leaves in a bounded number of its own steps.
THEOREM FollowersAlwaysAdvance == Spec => FollowerAdvances
<1>1. ASSUME Inv, WorkTyped, WorkTyped', [Next]_vars, follower = "running"
      PROVE  /\ FollowerSteps => WorkLeft' \in Nat /\ WorkLeft' < WorkLeft
             /\ ~ FollowerSteps =>
                  WorkLeft' = WorkLeft /\ follower' = follower /\ (cancelled => cancelled')
  <2>1. CASE FollowerLeaves
    <3>1. /\ follower = "running" /\ follower' = "none" /\ cursor' = cursor /\ demux' = demux
          /\ ahead' = ahead /\ reader' = reader
      BY <2>1 DEF FollowerLeaves, netVars, pipeVars, readVars
    <3>2. Pumping' < Pumping
      BY <3>1 DEF Pumping, One
    <3>3. ToRead' = ToRead /\ \A s \in Streams : InPipe(s)' = InPipe(s)
      BY <3>1 DEF ToRead, InPipe
    <3>4. \A s \in Streams : InPipe(s)' <= InPipe(s)
      BY <1>1, <3>3 DEF WorkTyped
    <3>5. ToRead' + Pumping' < ToRead + Pumping /\ ToRead' + Pumping' <= ToRead + Pumping
      BY <1>1, <3>2, <3>3, PairFalls DEF WorkTyped
    <3>6. WorkLeft' < WorkLeft
      BY <1>1, <3>4, <3>5, LessWork
    <3> QED
      BY <1>1, <2>1, <3>6 DEF FollowerSteps, WorkTyped
  <2>2. CASE ~ FollowerSteps
    <3>1. Dies \/ Starts \/ Opens \/ Cancel \/ (\E s \in Streams : Writes(s)) \/ UNCHANGED vars
      BY <1>1, <2>2 DEF Next, Environment, FollowerSteps
    <3>2. /\ cursor' = cursor /\ demux' = demux /\ ahead' = ahead /\ reader' = reader
          /\ follower' = follower /\ (cancelled => cancelled')
      BY <1>1, <3>1 DEF Dies, Starts, Opens, Cancel, Writes, netVars, pipeVars, readVars, vars
    <3>3. WorkLeft' = WorkLeft
      BY <3>2 DEF WorkLeft, ToRead, InPipe, Pumping
    <3> QED
      BY <2>2, <3>2, <3>3
  <2>3. CASE Demuxer \/ \E s \in Streams : Reader(s)
    <3>1. WorkLeft' < WorkLeft
      BY <1>1, <2>3, DemuxerAdvances, ReaderAdvances
    <3> QED
      BY <1>1, <2>3, <3>1 DEF FollowerSteps, WorkTyped
  <2> QED
    BY <2>1, <2>2, <2>3 DEF FollowerSteps
<1>2. Spec => [](Inv /\ WorkTyped)
  <2>1. Inv => TypeOK
    BY DEF Inv
  <2> QED
    BY <2>1, InvAlways, WorkTypes, PTL
<1>3. Inv /\ WorkTyped /\ WorkTyped' /\ [Next]_vars =>
        [follower = "running" =>
           /\ FollowerSteps => WorkLeft' \in Nat /\ WorkLeft' < WorkLeft
           /\ ~ FollowerSteps =>
                WorkLeft' = WorkLeft /\ follower' = follower /\ (cancelled => cancelled')]_vars
  BY <1>1
<1> QED
  BY <1>2, <1>3, PTL DEF Spec, FollowerAdvances

=============================================================================
