--------------------------- MODULE Display_proofs ---------------------------
(***************************************************************************)
(* What the user is shown, in either mode: the notices a --plain run       *)
(* prints (BackgroundNotices) and the snapshots the TUI draws              *)
(* (SnapshotFeed).                                                         *)
(*                                                                         *)
(* First SendsNeverWait, EverythingIsPrinted and the types for any number  *)
(* of sources and any room for notices (Inv); then the stream tail, the    *)
(* cards and the order of the snapshots for any ring, context and number   *)
(* of cards (FeedInv).                                                     *)
(***************************************************************************)
EXTENDS BackgroundNotices, SnapshotFeed, FiniteSetTheorems, SequenceTheorems, TLAPS

Notice == OneShots \cup {Said("post")}

\* The one-shots a run can send.
Shots == {Error(s) : s \in sources} \cup {Said("journald")} \cup {Said("cut")} \cup {Said("replay")}

StateOK ==
  /\ sources \subseteq Sources /\ errs \in Seq(Notice) /\ sent \subseteq Shots
  /\ spc \in [Sources -> {"running", "posting", "reporting", "done"}]
  /\ rpc \in [Sources -> {"reading", "record", "notify", "gone"}]
  /\ gpc \in {"start", "run", "replay", "stopNotices", "stopCuts", "closeErrs", "closeLines",
              "done"}
  /\ ppc \in {"running", "posting", "closed"}
  /\ announced \in BOOLEAN /\ noticesDone \in BOOLEAN /\ errsOpen \in BOOLEAN

\* What has been waited for by the time the channel closes.
Ordered ==
  /\ \A s \in Sources \ sources : spc[s] = "running" /\ rpc[s] = "reading"
  /\ gpc = "start" => \A s \in Sources : spc[s] = "running"
  /\ gpc \notin {"start", "run"} => \A s \in sources : spc[s] = "done"
  /\ gpc \in {"stopCuts", "closeErrs", "closeLines", "done"} => noticesDone /\ ~ NoticesLocked
  /\ gpc \in {"closeErrs", "closeLines", "done"} => announced /\ ~ CutsLocked
  /\ errsOpen <=> gpc \notin {"closeLines", "done"}

\* One poster and one announcer at a time.
Locked ==
  /\ \A s, t \in Sources : spc[s] = "posting" /\ spc[t] = "posting" => s = t
  /\ \A s \in Sources : spc[s] = "posting" => ppc # "posting"
  /\ \A s, t \in Sources : rpc[s] = "notify" /\ rpc[t] = "notify" => s = t

\* A one-shot is sent once: who could send it again has moved on.
SentOnce ==
  /\ \A s \in Sources : Error(s) \in sent => spc[s] = "done"
  /\ Said("journald") \in sent => gpc # "start"
  /\ CutsLocked \/ Said("cut") \in sent => announced
  /\ Said("cut") \in sent => ~ CutsLocked
  /\ Said("replay") \in sent => gpc \notin {"start", "run", "replay"}

\* A poster that has found room still has it, whatever one-shots were sent meanwhile.
Pending == IF NoticesLocked THEN 1 ELSE 0
RoomLeft == Len(errs) + Pending <= Room + Cardinality(sent)

Inv == StateOK /\ Ordered /\ Locked /\ SentOnce /\ RoomLeft

-----------------------------------------------------------------------------
\* There are three one-shots besides the sources' errors.
LEMMA ShotsBound ==
  ASSUME sources \subseteq Sources
  PROVE  /\ IsFiniteSet(Shots) /\ Cardinality(Shots) \in Nat
         /\ Cardinality(sources) \in Nat /\ Cardinality(Shots) <= Cardinality(sources) + 3
<1> DEFINE Errors == {Error(s) : s \in sources}
           f == [s \in sources |-> Error(s)]
           J == Errors \cup {Said("journald")}
           C == J \cup {Said("cut")}
           R == C \cup {Said("replay")}
<1>1. IsFiniteSet(sources) /\ Cardinality(sources) \in Nat
  BY SourcesAssumption, FS_Subset, FS_CardinalityType
<1>2. f \in Surjection(sources, Errors)
  BY DEF Surjection
<1> HIDE DEF f
<1>3. IsFiniteSet(Errors) /\ Cardinality(Errors) <= Cardinality(sources)
  <2> HIDE DEF Errors
  <2> QED BY <1>1, <1>2, FS_Surjection
<1>4. Cardinality(Errors) \in Nat
  BY <1>3, FS_CardinalityType
<1> HIDE DEF Errors
<1>5. IsFiniteSet(J) /\ Cardinality(J) \in Nat /\ Cardinality(J) <= Cardinality(Errors) + 1
  <2>1. /\ IsFiniteSet(Errors \cup {Said("journald")})
        /\ Cardinality(Errors \cup {Said("journald")}) =
             IF Said("journald") \in Errors THEN Cardinality(Errors) ELSE Cardinality(Errors) + 1
    BY <1>3, <1>4, FS_AddElement
  <2> QED BY <2>1, <1>3, <1>4
<1> HIDE DEF J
<1>6. IsFiniteSet(C) /\ Cardinality(C) \in Nat /\ Cardinality(C) <= Cardinality(J) + 1
  <2>1. /\ IsFiniteSet(J \cup {Said("cut")})
        /\ Cardinality(J \cup {Said("cut")}) =
             IF Said("cut") \in J THEN Cardinality(J) ELSE Cardinality(J) + 1
    BY <1>5, FS_AddElement
  <2> QED BY <2>1, <1>5
<1> HIDE DEF C
<1>7. IsFiniteSet(R) /\ Cardinality(R) \in Nat /\ Cardinality(R) <= Cardinality(C) + 1
  <2>1. /\ IsFiniteSet(C \cup {Said("replay")})
        /\ Cardinality(C \cup {Said("replay")}) =
             IF Said("replay") \in C THEN Cardinality(C) ELSE Cardinality(C) + 1
    BY <1>6, FS_AddElement
  <2> QED BY <2>1, <1>6
<1>8. Shots = R
  BY DEF Shots, R, C, J, Errors
<1> HIDE DEF R
<1> QED
  BY <1>1, <1>3, <1>4, <1>5, <1>6, <1>7, <1>8

\* A one-shot not yet sent has room.
LEMMA OneShotHasRoom ==
  ASSUME StateOK, RoomLeft, NEW m \in Shots, m \notin sent
  PROVE  /\ HasRoom
         /\ IsFiniteSet(sent) /\ Cardinality(sent) \in Nat
         /\ Cardinality(sent \cup {m}) = Cardinality(sent) + 1
<1>1. sent \subseteq Shots /\ sources \subseteq Sources /\ Len(errs) \in Nat
  BY DEF StateOK
<1>2. /\ IsFiniteSet(Shots) /\ Cardinality(Shots) \in Nat
      /\ Cardinality(sources) \in Nat /\ Cardinality(Shots) <= Cardinality(sources) + 3
  BY <1>1, ShotsBound
<1>3. IsFiniteSet(sent) /\ Cardinality(sent) \in Nat
  BY <1>1, <1>2, FS_Subset, FS_CardinalityType
<1>4. Cardinality(sent \cup {m}) = Cardinality(sent) + 1
  BY <1>3, FS_AddElement
<1>5. Cardinality(sent \cup {m}) <= Cardinality(Shots)
  <2>1. sent \cup {m} \in SUBSET Shots
    BY <1>1
  <2> QED BY <2>1, <1>2, FS_Subset
<1>6. Pending \in 0..1
  BY DEF Pending
<1> QED
  BY <1>1, <1>2, <1>3, <1>4, <1>5, <1>6, BoundAssumption DEF HasRoom, Capacity, RoomLeft

\* So has a notice that was found room.
LEMMA PostHasRoom ==
  ASSUME StateOK, RoomLeft, NoticesLocked
  PROVE  HasRoom
<1>1. sent \subseteq Shots /\ sources \subseteq Sources /\ Len(errs) \in Nat
  BY DEF StateOK
<1>2. /\ IsFiniteSet(Shots) /\ Cardinality(Shots) \in Nat
      /\ Cardinality(sources) \in Nat /\ Cardinality(Shots) <= Cardinality(sources) + 3
  BY <1>1, ShotsBound
<1>3. Cardinality(sent) \in Nat /\ Cardinality(sent) <= Cardinality(Shots)
  BY <1>1, <1>2, FS_Subset, FS_CardinalityType
<1>4. Pending = 1
  BY DEF Pending
<1> QED
  BY <1>1, <1>2, <1>3, <1>4, BoundAssumption DEF HasRoom, Capacity, RoomLeft
-----------------------------------------------------------------------------
LEMMA InitInv == Init => Inv
<1> SUFFICES ASSUME Init PROVE Inv
  OBVIOUS
<1>1. Cardinality(sent) = 0 /\ Len(errs) = 0 /\ Pending = 0
  BY FS_EmptySet DEF Init, Pending, NoticesLocked
<1>2. StateOK
  <2>1. errs \in Seq(Notice) /\ sent \subseteq Shots
    BY DEF Init
  <2>2. /\ spc \in [Sources -> {"running", "posting", "reporting", "done"}]
        /\ rpc \in [Sources -> {"reading", "record", "notify", "gone"}]
    BY DEF Init
  <2>3. sources \subseteq Sources
    BY DEF Init
  <2> QED BY <2>1, <2>2, <2>3 DEF Init, StateOK
<1>3. RoomLeft
  BY <1>1, BoundAssumption DEF RoomLeft
<1> QED
  BY <1>2, <1>3 DEF Inv, Init, Ordered, Locked, SentOnce, NoticesLocked, CutsLocked

\* Every step keeps what the variables are.
LEMMA StateStep ==
  ASSUME StateOK, [Next]_vars
  PROVE  StateOK'
<1> USE SourcesAssumption DEF configVars, chanVars, sourceVars, cutVars, noticeVars, printerVars,
       pipelineVars, StateOK, Shots, Notice, OneShots
<1>1. CASE Launch
  BY <1>1 DEF Launch, Send
<1>2. ASSUME NEW s \in sources, LinesReturn(s) PROVE StateOK'
  BY <1>2 DEF LinesReturn
<1>3. ASSUME NEW s \in sources, CutLine(s) PROVE StateOK'
  BY <1>3 DEF CutLine
<1>4. ASSUME NEW s \in sources, Report(s) PROVE StateOK'
  BY <1>4 DEF Report, Send
<1>5. ASSUME NEW s \in sources, SourcePosts(s) PROVE StateOK'
  BY <1>5 DEF SourcePosts, Checked, Posted, Dropping, NoticesLocked
<1>6. ASSUME NEW s \in sources, Record(s) PROVE StateOK'
  BY <1>6 DEF Record, CutsLocked
<1>7. ASSUME NEW s \in sources, Announce(s) PROVE StateOK'
  BY <1>7 DEF Announce, Send, CutsLocked
<1>8. ASSUME NEW s \in sources, ReaderLeaves(s) PROVE StateOK'
  BY <1>8 DEF ReaderLeaves
<1>9. CASE PipelinePosts
  BY <1>9 DEF PipelinePosts, Checked, Posted, Dropping, NoticesLocked
<1>10. CASE PipelineEnds
  BY <1>10 DEF PipelineEnds
<1>11. CASE SourcesReturned
  BY <1>11 DEF SourcesReturned
<1>12. CASE ReplayNotice
  BY <1>12 DEF ReplayNotice, Send
<1>13. CASE StopNotices
  BY <1>13 DEF StopNotices, After, NoticesLocked
<1>14. CASE StopCuts
  BY <1>14 DEF StopCuts, After, CutsLocked
<1>15. CASE Close
  BY <1>15 DEF Close, After
<1>16. CASE PrintError
  BY <1>16 DEF PrintError, TakeNotice
<1>17. CASE EventsEnd
  BY <1>17 DEF EventsEnd
<1>18. CASE PrintPending
  BY <1>18 DEF PrintPending, TakeNotice
<1>19. CASE AnswersEnd
  BY <1>19 DEF AnswersEnd
<1>20. CASE PrinterReturns
  BY <1>20 DEF PrinterReturns
<1>21. CASE Cancel
  BY <1>21 DEF Cancel
<1>22. CASE UNCHANGED vars
  BY <1>22 DEF vars
<1> QED
  BY <1>1, <1>2, <1>3, <1>4, <1>5, <1>6, <1>7, <1>8, <1>9, <1>10, <1>11,
     <1>12, <1>13, <1>14, <1>15, <1>16, <1>17, <1>18, <1>19, <1>20, <1>21, <1>22
     DEF Next, Source, Reader, Ingest, Printer

\* The closes come in their order, after what they wait for.
LEMMA OrderedStep ==
  ASSUME StateOK, Ordered, Locked, [Next]_vars
  PROVE  Ordered'
<1> USE DEF configVars, chanVars, sourceVars, cutVars, noticeVars, printerVars, pipelineVars,
       StateOK, NoticesLocked, CutsLocked, Ordered
<1>1. CASE Launch
  BY <1>1 DEF Launch, Send
<1>2. ASSUME NEW s \in sources, LinesReturn(s) PROVE Ordered'
  BY <1>2 DEF LinesReturn
<1>3. ASSUME NEW s \in sources, CutLine(s) PROVE Ordered'
  BY <1>3 DEF CutLine
<1>4. ASSUME NEW s \in sources, Report(s) PROVE Ordered'
  BY <1>4 DEF Report, Send
<1>5. ASSUME NEW s \in sources, SourcePosts(s) PROVE Ordered'
  BY <1>5 DEF SourcePosts, Checked, Posted, Dropping
<1>6. ASSUME NEW s \in sources, Record(s) PROVE Ordered'
  BY <1>6 DEF Record
<1>7. ASSUME NEW s \in sources, Announce(s) PROVE Ordered'
  BY <1>7 DEF Announce, Send
<1>8. ASSUME NEW s \in sources, ReaderLeaves(s) PROVE Ordered'
  BY <1>8 DEF ReaderLeaves
<1>9. CASE PipelinePosts
  BY <1>9 DEF PipelinePosts, Checked, Posted, Dropping
<1>10. CASE PipelineEnds
  BY <1>10 DEF PipelineEnds
<1>11. CASE SourcesReturned
  BY <1>11 DEF SourcesReturned
<1>12. CASE ReplayNotice
  BY <1>12 DEF ReplayNotice, Send
<1>13. CASE StopNotices
  BY <1>13 DEF StopNotices, After
<1>14. CASE StopCuts
  BY <1>14 DEF StopCuts, After
<1>15. CASE Close
  BY <1>15 DEF Close, After
<1>16. CASE PrintError
  BY <1>16 DEF PrintError, TakeNotice
<1>17. CASE EventsEnd
  BY <1>17 DEF EventsEnd
<1>18. CASE PrintPending
  BY <1>18 DEF PrintPending, TakeNotice
<1>19. CASE AnswersEnd
  BY <1>19 DEF AnswersEnd
<1>20. CASE PrinterReturns
  BY <1>20 DEF PrinterReturns
<1>21. CASE Cancel
  BY <1>21 DEF Cancel
<1>22. CASE UNCHANGED vars
  BY <1>22 DEF vars
<1> QED
  BY <1>1, <1>2, <1>3, <1>4, <1>5, <1>6, <1>7, <1>8, <1>9, <1>10, <1>11,
     <1>12, <1>13, <1>14, <1>15, <1>16, <1>17, <1>18, <1>19, <1>20, <1>21, <1>22
     DEF Next, Source, Reader, Ingest, Printer

\* The two locks exclude.
LEMMA LockedStep ==
  ASSUME StateOK, Ordered, Locked, [Next]_vars
  PROVE  Locked'
<1> USE DEF configVars, chanVars, sourceVars, cutVars, noticeVars, printerVars, pipelineVars,
       StateOK, Locked, CutsLocked, NoticesLocked
<1>1. CASE Launch
  BY <1>1 DEF Launch, Send
<1>2. ASSUME NEW s \in sources, LinesReturn(s) PROVE Locked'
  BY <1>2 DEF LinesReturn
<1>3. ASSUME NEW s \in sources, CutLine(s) PROVE Locked'
  BY <1>3 DEF CutLine
<1>4. ASSUME NEW s \in sources, Report(s) PROVE Locked'
  BY <1>4 DEF Report, Send
<1>5. ASSUME NEW s \in sources, SourcePosts(s) PROVE Locked'
  BY <1>5 DEF SourcePosts, Checked, Posted, Dropping
<1>6. ASSUME NEW s \in sources, Record(s) PROVE Locked'
  BY <1>6 DEF Record
<1>7. ASSUME NEW s \in sources, Announce(s) PROVE Locked'
  BY <1>7 DEF Announce, Send
<1>8. ASSUME NEW s \in sources, ReaderLeaves(s) PROVE Locked'
  BY <1>8 DEF ReaderLeaves
<1>9. CASE PipelinePosts
  BY <1>9 DEF PipelinePosts, Checked, Posted, Dropping
<1>10. CASE PipelineEnds
  BY <1>10 DEF PipelineEnds
<1>11. CASE SourcesReturned
  BY <1>11 DEF SourcesReturned
<1>12. CASE ReplayNotice
  BY <1>12 DEF ReplayNotice, Send
<1>13. CASE StopNotices
  BY <1>13 DEF StopNotices, After
<1>14. CASE StopCuts
  BY <1>14 DEF StopCuts, After
<1>15. CASE Close
  BY <1>15 DEF Close, After
<1>16. CASE PrintError
  BY <1>16 DEF PrintError, TakeNotice
<1>17. CASE EventsEnd
  BY <1>17 DEF EventsEnd
<1>18. CASE PrintPending
  BY <1>18 DEF PrintPending, TakeNotice
<1>19. CASE AnswersEnd
  BY <1>19 DEF AnswersEnd
<1>20. CASE PrinterReturns
  BY <1>20 DEF PrinterReturns
<1>21. CASE Cancel
  BY <1>21 DEF Cancel
<1>22. CASE UNCHANGED vars
  BY <1>22 DEF vars
<1> QED
  BY <1>1, <1>2, <1>3, <1>4, <1>5, <1>6, <1>7, <1>8, <1>9, <1>10, <1>11,
     <1>12, <1>13, <1>14, <1>15, <1>16, <1>17, <1>18, <1>19, <1>20, <1>21, <1>22
     DEF Next, Source, Reader, Ingest, Printer

\* No one-shot is sent again.
LEMMA SentOnceStep ==
  ASSUME StateOK, Ordered, Locked, SentOnce, [Next]_vars
  PROVE  SentOnce'
<1> USE SourcesAssumption
    DEF configVars, chanVars, sourceVars, cutVars, noticeVars, printerVars, pipelineVars,
       StateOK, CutsLocked, Error, Said, SentOnce, Ordered, Locked
<1>1. CASE Launch
  BY <1>1 DEF Launch, Send
<1>2. ASSUME NEW s \in sources, LinesReturn(s) PROVE SentOnce'
  BY <1>2 DEF LinesReturn
<1>3. ASSUME NEW s \in sources, CutLine(s) PROVE SentOnce'
  BY <1>3 DEF CutLine
<1>4. ASSUME NEW s \in sources, Report(s) PROVE SentOnce'
  BY <1>4 DEF Report, Send
<1>5. ASSUME NEW s \in sources, SourcePosts(s) PROVE SentOnce'
  BY <1>5 DEF SourcePosts, Checked, Posted, Dropping, NoticesLocked
<1>6. ASSUME NEW s \in sources, Record(s) PROVE SentOnce'
  BY <1>6 DEF Record, CutsLocked
<1>7. ASSUME NEW s \in sources, Announce(s) PROVE SentOnce'
  BY <1>7 DEF Announce, Send, CutsLocked
<1>8. ASSUME NEW s \in sources, ReaderLeaves(s) PROVE SentOnce'
  BY <1>8 DEF ReaderLeaves
<1>9. CASE PipelinePosts
  BY <1>9 DEF PipelinePosts, Checked, Posted, Dropping, NoticesLocked
<1>10. CASE PipelineEnds
  BY <1>10 DEF PipelineEnds
<1>11. CASE SourcesReturned
  BY <1>11 DEF SourcesReturned
<1>12. CASE ReplayNotice
  BY <1>12 DEF ReplayNotice, Send
<1>13. CASE StopNotices
  BY <1>13 DEF StopNotices, After, NoticesLocked
<1>14. CASE StopCuts
  BY <1>14 DEF StopCuts, After, CutsLocked
<1>15. CASE Close
  BY <1>15 DEF Close, After
<1>16. CASE PrintError
  BY <1>16 DEF PrintError, TakeNotice
<1>17. CASE EventsEnd
  BY <1>17 DEF EventsEnd
<1>18. CASE PrintPending
  BY <1>18 DEF PrintPending, TakeNotice
<1>19. CASE AnswersEnd
  BY <1>19 DEF AnswersEnd
<1>20. CASE PrinterReturns
  BY <1>20 DEF PrinterReturns
<1>21. CASE Cancel
  BY <1>21 DEF Cancel
<1>22. CASE UNCHANGED vars
  BY <1>22 DEF vars
<1> QED
  BY <1>1, <1>2, <1>3, <1>4, <1>5, <1>6, <1>7, <1>8, <1>9, <1>10, <1>11,
     <1>12, <1>13, <1>14, <1>15, <1>16, <1>17, <1>18, <1>19, <1>20, <1>21, <1>22
     DEF Next, Source, Reader, Ingest, Printer

-----------------------------------------------------------------------------
\* How a step can change the channel's room.
LEMMA RoomAfterOneShot ==
  ASSUME StateOK, RoomLeft, NEW m \in Shots, m \notin sent, Send(m), Pending' = Pending
  PROVE  RoomLeft'
<1>1. Cardinality(sent') = Cardinality(sent) + 1 /\ Cardinality(sent) \in Nat
  BY OneShotHasRoom DEF Send
<1>2. errs \in Seq(Notice) /\ m \in Notice
  BY SourcesAssumption DEF StateOK, Shots, Notice, OneShots
<1>3. Len(errs') = Len(errs) + 1 /\ Len(errs) \in Nat
  BY <1>2 DEF Send
<1>4. Pending \in 0..1
  BY DEF Pending
<1> QED
  BY <1>1, <1>3, <1>4, BoundAssumption DEF RoomLeft

LEMMA RoomAfterTake ==
  ASSUME StateOK, RoomLeft, TakeNotice, sent' = sent, Pending' = Pending
  PROVE  RoomLeft'
<1>1. errs \in Seq(Notice) /\ errs # <<>> /\ errs' = Tail(errs)
  BY DEF StateOK, TakeNotice
<1>2. Len(errs') = Len(errs) - 1 /\ Len(errs) \in Nat
  BY <1>1
<1>3. sent \subseteq Shots /\ sources \subseteq Sources
  BY DEF StateOK
<1>4. Cardinality(sent) \in Nat
  BY <1>3, ShotsBound, FS_Subset, FS_CardinalityType
<1>5. Pending \in 0..1
  BY DEF Pending
<1> QED
  BY <1>2, <1>4, <1>5, BoundAssumption DEF RoomLeft

LEMMA RoomAfterCheck ==
  ASSUME StateOK, ~ Dropping, UNCHANGED <<errs, sent>>
  PROVE  RoomLeft'
<1>1. errs \in Seq(Notice) /\ Len(errs) \in Nat /\ Len(errs) + 1 <= Room
  BY BoundAssumption DEF StateOK, Dropping
<1>2. sent \subseteq Shots /\ sources \subseteq Sources
  BY DEF StateOK
<1>3. Cardinality(sent) \in Nat
  BY <1>2, ShotsBound, FS_Subset, FS_CardinalityType
<1>4. Pending' \in 0..1
  BY DEF Pending
<1> QED
  BY <1>1, <1>3, <1>4, BoundAssumption DEF RoomLeft

LEMMA RoomAfterPost ==
  ASSUME StateOK, RoomLeft, NoticesLocked, ~ NoticesLocked', Posted
  PROVE  RoomLeft'
<1>1. errs \in Seq(Notice) /\ Len(errs) \in Nat
  BY DEF StateOK
<1>2. Len(errs') \in Nat /\ Len(errs') <= Len(errs) + 1
  <2>1. Said("post") \in Notice
    BY DEF Notice
  <2> QED BY <1>1, <2>1 DEF Posted
<1>3. sent \subseteq Shots /\ sources \subseteq Sources
  BY DEF StateOK
<1>4. Cardinality(sent) \in Nat
  BY <1>3, ShotsBound, FS_Subset, FS_CardinalityType
<1>5. Pending = 1 /\ Pending' = 0
  BY DEF Pending
<1>6. sent' = sent
  BY DEF Posted
<1> QED
  BY <1>1, <1>2, <1>4, <1>5, <1>6, BoundAssumption DEF RoomLeft

\* The channel keeps room for every one-shot to come.
LEMMA RoomStep ==
  ASSUME StateOK, Ordered, Locked, SentOnce, RoomLeft, [Next]_vars
  PROVE  RoomLeft'
<1> DEFINE Still == UNCHANGED <<errs, sent>> /\ (NoticesLocked' <=> NoticesLocked)
<1>1. ASSUME Still PROVE RoomLeft'
  BY <1>1 DEF RoomLeft, Pending
<1>2. CASE Launch
  <2>1. Pending' = Pending
    BY <1>2 DEF Launch, sourceVars, pipelineVars, Pending, NoticesLocked
  <2>2. Said("journald") \in Shots /\ Said("journald") \notin sent
    BY <1>2 DEF Launch, Shots, SentOnce
  <2>3. CASE Send(Said("journald"))
    BY <2>1, <2>2, <2>3, RoomAfterOneShot
  <2>4. CASE UNCHANGED <<errs, sent>>
    BY <2>1, <2>4 DEF RoomLeft
  <2> QED BY <1>2, <2>3, <2>4 DEF Launch
<1>3. ASSUME NEW s \in sources, Report(s) PROVE RoomLeft'
  <2>1. Pending' = Pending
    BY <1>3 DEF Report, pipelineVars, Pending, NoticesLocked, StateOK
  <2>2. Error(s) \in Shots /\ Error(s) \notin sent
    BY <1>3 DEF Report, Shots, SentOnce, StateOK
  <2> QED BY <1>3, <2>1, <2>2, RoomAfterOneShot DEF Report
<1>4. ASSUME NEW s \in sources, Announce(s) PROVE RoomLeft'
  <2>1. Pending' = Pending
    BY <1>4 DEF Announce, sourceVars, pipelineVars, Pending, NoticesLocked
  <2>2. Said("cut") \in Shots /\ Said("cut") \notin sent
    BY <1>4 DEF Announce, Shots, SentOnce, CutsLocked, StateOK
  <2> QED BY <1>4, <2>1, <2>2, RoomAfterOneShot DEF Announce
<1>5. CASE ReplayNotice
  <2>1. Pending' = Pending
    BY <1>5 DEF ReplayNotice, sourceVars, pipelineVars, Pending, NoticesLocked
  <2>2. Said("replay") \in Shots /\ Said("replay") \notin sent
    BY <1>5 DEF ReplayNotice, Shots, SentOnce
  <2>3. CASE Send(Said("replay"))
    BY <2>1, <2>2, <2>3, RoomAfterOneShot
  <2>4. CASE UNCHANGED <<errs, sent>>
    BY <2>1, <2>4 DEF RoomLeft
  <2> QED BY <1>5, <2>3, <2>4 DEF ReplayNotice
<1>6. ASSUME NEW s \in sources, SourcePosts(s) PROVE RoomLeft'
  <2>1. ASSUME spc[s] = "running", UNCHANGED <<errs, sent>>,
               Checked(TRUE), spc' = [spc EXCEPT ![s] = "posting"]
        PROVE  RoomLeft'
    BY <2>1, RoomAfterCheck DEF Checked
  <2>2. ASSUME UNCHANGED <<errs, sent>>, spc' = [spc EXCEPT ![s] = @]
        PROVE  RoomLeft'
    <3>1. spc' = spc
      BY <2>2 DEF StateOK
    <3> QED BY <1>6, <2>2, <3>1, <1>1 DEF SourcePosts, NoticesLocked, pipelineVars
  <2>3. ASSUME spc[s] = "posting", Posted, spc' = [spc EXCEPT ![s] = "running"]
        PROVE  RoomLeft'
    <3>1. NoticesLocked /\ ~ NoticesLocked'
      BY <1>6, <2>3 DEF SourcePosts, NoticesLocked, Locked, StateOK, pipelineVars
    <3> QED BY <2>3, <3>1, RoomAfterPost
  <2> QED BY <1>6, <2>1, <2>2, <2>3 DEF SourcePosts
<1>7. CASE PipelinePosts
  <2>1. ASSUME UNCHANGED <<errs, sent>>, Checked(TRUE)
        PROVE  RoomLeft'
    BY <2>1, RoomAfterCheck DEF Checked
  <2>2. ASSUME UNCHANGED <<errs, sent>>, ppc' = ppc
        PROVE  RoomLeft'
    BY <1>7, <2>2, <1>1 DEF PipelinePosts, NoticesLocked, sourceVars
  <2>3. ASSUME ppc = "posting", Posted, ppc' = "running"
        PROVE  RoomLeft'
    <3>1. NoticesLocked /\ ~ NoticesLocked'
      BY <1>7, <2>3 DEF PipelinePosts, NoticesLocked, Locked, sourceVars
    <3> QED BY <2>3, <3>1, RoomAfterPost
  <2> QED BY <1>7, <2>1, <2>2, <2>3 DEF PipelinePosts
<1>8. CASE PrintError
  <2>1. Pending' = Pending
    BY <1>8 DEF PrintError, sourceVars, pipelineVars, Pending, NoticesLocked
  <2>2. CASE TakeNotice
    BY <1>8, <2>1, <2>2, RoomAfterTake DEF PrintError
  <2>3. CASE UNCHANGED errs
    BY <1>8, <2>1, <2>3 DEF PrintError, RoomLeft
  <2> QED BY <1>8, <2>2, <2>3 DEF PrintError
<1>9. CASE PrintPending
  <2>1. Pending' = Pending
    BY <1>9 DEF PrintPending, sourceVars, pipelineVars, Pending, NoticesLocked
  <2>2. CASE TakeNotice
    BY <1>9, <2>1, <2>2, RoomAfterTake DEF PrintPending
  <2>3. CASE UNCHANGED errs
    BY <1>9, <2>1, <2>3 DEF PrintPending, RoomLeft
  <2> QED BY <1>9, <2>2, <2>3 DEF PrintPending
<1>10. ASSUME NEW s \in sources, LinesReturn(s) PROVE RoomLeft'
  <2>1. Still
    BY <1>10 DEF LinesReturn, chanVars, pipelineVars, NoticesLocked, StateOK
  <2> QED BY <2>1, <1>1
<1>11. ASSUME NEW s \in sources, CutLine(s) \/ Record(s) \/ ReaderLeaves(s) PROVE RoomLeft'
  <2>1. Still
    BY <1>11 DEF CutLine, Record, ReaderLeaves, chanVars, sourceVars, pipelineVars, NoticesLocked
  <2> QED BY <2>1, <1>1
<1>12. CASE PipelineEnds
  <2>1. Still
    BY <1>12 DEF PipelineEnds, chanVars, sourceVars, NoticesLocked
  <2> QED BY <2>1, <1>1
<1>13. CASE SourcesReturned \/ StopNotices \/ StopCuts \/ Close \/ EventsEnd \/ AnswersEnd
              \/ PrinterReturns \/ Cancel \/ UNCHANGED vars
  <2>1. Still
    BY <1>13 DEF SourcesReturned, StopNotices, StopCuts, Close, EventsEnd, AnswersEnd,
         PrinterReturns, Cancel, vars, chanVars, sourceVars, pipelineVars, NoticesLocked
  <2> QED BY <2>1, <1>1
<1> QED
  BY <1>2, <1>3, <1>4, <1>5, <1>6, <1>7, <1>8, <1>9, <1>10, <1>11, <1>12, <1>13
     DEF Next, Source, Reader, Ingest, Printer

-----------------------------------------------------------------------------
\* Whoever is at a send finds room, and an open channel.
LEMMA InvImpliesSendsNeverWait ==
  ASSUME Inv
  PROVE  SendsNeverWait
<1> SUFFICES ASSUME Sending PROVE HasRoom /\ errsOpen
  BY DEF SendsNeverWait
<1> USE DEF Inv
<1>1. errsOpen
  <2> SUFFICES ASSUME gpc \in {"closeLines", "done"} PROVE FALSE
    BY DEF Ordered
  <2> QED BY DEF Sending, Ordered, NoticesLocked, CutsLocked
<1>2. ASSUME NoticesLocked PROVE HasRoom
  BY <1>2, PostHasRoom
<1>3. ASSUME NEW m \in Shots, m \notin sent PROVE HasRoom
  BY <1>3, OneShotHasRoom
<1>4. CASE gpc = "start"
  <2>1. Said("journald") \in Shots /\ Said("journald") \notin sent
    BY <1>4 DEF SentOnce, Shots
  <2> QED BY <1>1, <1>3, <2>1
<1>5. CASE gpc = "replay"
  <2>1. Said("replay") \in Shots /\ Said("replay") \notin sent
    BY <1>5 DEF SentOnce, Shots
  <2> QED BY <1>1, <1>3, <2>1
<1>6. CASE CutsLocked
  <2>1. Said("cut") \in Shots /\ Said("cut") \notin sent
    BY <1>6 DEF SentOnce, Shots
  <2> QED BY <1>1, <1>3, <2>1
<1>7. ASSUME NEW s \in Sources, spc[s] = "reporting" PROVE HasRoom
  <2>1. s \in sources
    BY <1>7 DEF Ordered
  <2>2. Error(s) \in Shots /\ Error(s) \notin sent
    BY <1>7, <2>1 DEF SentOnce, Shots
  <2> QED BY <1>3, <2>2
<1> QED
  BY <1>1, <1>2, <1>4, <1>5, <1>6, <1>7 DEF Sending, NoticesLocked, CutsLocked

\* Whatever the number of sources, the room for notices, and the reader's pace, no send on
\* errs ever waits or meets a closed channel: the size backgroundNotices gives the channel,
\* and the Stops run waits for, are enough.
THEOREM SendsNeverWaitAlways == Spec => []SendsNeverWait
<1>1. Inv /\ [Next]_vars => Inv'
  BY StateStep, OrderedStep, LockedStep, SentOnceStep, RoomStep DEF Inv
<1>2. Inv => SendsNeverWait
  BY InvImpliesSendsNeverWait
<1> QED
  BY InitInv, <1>1, <1>2, PTL DEF Spec

-----------------------------------------------------------------------------
\* What the printing loop knows of the channel: a one-shot is printed or waits in it, a
\* loop that has stopped reading left it closed and empty, and so did one that saw the
\* end of events, for lines is closed last.
PrintInv ==
  /\ \A m \in sent : m \in printed \/ \E i \in DOMAIN errs : errs[i] = m
  /\ ~ linesOpen => gpc = "done"
  /\ ppc = "closed" => ~ linesOpen \/ cancelled
  /\ eventsNil => ppc = "closed"
  /\ printer \in {"pending", "returned"} => eventsNil
  /\ errsNil => ~ errsOpen /\ errs = <<>>
  /\ eventsNil /\ printer \in {"loop", "returned"} /\ ~ cancelled => errs = <<>>

\* How a step can change what was sent, waits, and was printed.
Sends(m) ==
  errsOpen /\ errs' = Append(errs, m) /\ sent' \subseteq sent \cup {m} /\ printed' = printed

LEMMA StepsOfTheChannel ==
  ASSUME Inv, [Next]_vars
  PROVE  \/ UNCHANGED <<errs, sent, printed>>
         \/ \E m \in Notice : Sends(m)
         \/ /\ TakeNotice /\ sent' = sent /\ ~ errsNil
            /\ printer \in {"loop", "pending"} /\ printer' = printer
<1> DEFINE Changed == \/ UNCHANGED <<errs, sent, printed>>
                      \/ \E m \in Notice : Sends(m)
                      \/ /\ TakeNotice /\ sent' = sent /\ ~ errsNil
                         /\ printer \in {"loop", "pending"} /\ printer' = printer
<1> USE DEF chanVars, printerVars
<1>1. Sending => errsOpen
  BY InvImpliesSendsNeverWait DEF SendsNeverWait
<1>2. /\ \A s \in Sources : Error(s) \in Notice
      /\ \A k \in {"journald", "cut", "replay", "post"} : Said(k) \in Notice
      /\ sources \subseteq Sources
  BY DEF Notice, OneShots, Inv, StateOK
<1>3. ASSUME NEW m \in Notice, Send(m), Sending, UNCHANGED printerVars  PROVE Changed
  BY <1>1, <1>3 DEF Send, Sends
<1>4. ASSUME Posted, Sending, UNCHANGED printerVars  PROVE Changed
  BY <1>1, <1>2, <1>4 DEF Posted, Sends
<1>5. CASE Launch
  BY <1>2, <1>3, <1>5 DEF Launch, Sending
<1>6. ASSUME NEW s \in sources, Report(s)  PROVE Changed
  BY <1>2, <1>3, <1>6 DEF Report, Sending
<1>7. ASSUME NEW s \in sources, Announce(s)  PROVE Changed
  BY <1>2, <1>3, <1>7 DEF Announce, Sending
<1>8. CASE ReplayNotice
  BY <1>2, <1>3, <1>8 DEF ReplayNotice, Sending
<1>9. ASSUME NEW s \in sources, SourcePosts(s)  PROVE Changed
  <2>1. CASE spc[s] = "posting" /\ Posted
    BY <1>2, <1>4, <1>9, <2>1 DEF SourcePosts, Sending
  <2>2. CASE UNCHANGED <<errs, sent>>
    BY <1>9, <2>2 DEF SourcePosts
  <2> QED
    BY <1>9, <2>1, <2>2 DEF SourcePosts
<1>10. CASE PipelinePosts
  <2>1. CASE ppc = "posting" /\ Posted
    BY <1>4, <1>10, <2>1 DEF PipelinePosts, Sending
  <2>2. CASE UNCHANGED <<errs, sent>>
    BY <1>10, <2>2 DEF PipelinePosts
  <2> QED
    BY <1>10, <2>1, <2>2 DEF PipelinePosts
<1>11. CASE PrintError
  BY <1>11 DEF PrintError
<1>12. CASE PrintPending
  BY <1>12 DEF PrintPending
<1>13. ASSUME NEW s \in sources, LinesReturn(s) \/ CutLine(s) \/ Record(s) \/ ReaderLeaves(s)
       PROVE  Changed
  BY <1>13 DEF LinesReturn, CutLine, Record, ReaderLeaves
<1>14. CASE SourcesReturned \/ StopNotices \/ StopCuts \/ Close \/ PipelineEnds
  BY <1>14 DEF SourcesReturned, StopNotices, StopCuts, Close, PipelineEnds
<1>15. CASE EventsEnd \/ AnswersEnd \/ PrinterReturns \/ Cancel \/ UNCHANGED vars
  BY <1>15 DEF EventsEnd, AnswersEnd, PrinterReturns, Cancel, vars
<1> QED
  BY <1>5, <1>6, <1>7, <1>8, <1>9, <1>10, <1>11, <1>12, <1>13, <1>14, <1>15
     DEF Next, Source, Reader, Ingest, Printer

\* How a step can change the control of the goroutines involved.
LEMMA StepsOfTheEnd ==
  ASSUME Inv, PrintInv, [Next]_vars
  PROVE  /\ ~ linesOpen' => gpc' = "done"
         /\ ppc' = "closed" => ~ linesOpen' \/ cancelled'
         /\ eventsNil' => ppc' = "closed"
         /\ printer' \in {"pending", "returned"} => eventsNil'
         /\ ~ errsOpen => ~ errsOpen'
         /\ cancelled => cancelled'
         /\ errsNil' => \/ errsNil
                        \/ errs = <<>> /\ ~ errsOpen /\ errs' = errs
         /\ eventsNil' /\ printer' \in {"loop", "returned"} =>
              \/ eventsNil /\ printer \in {"loop", "returned"}
              \/ errs = <<>> /\ errs' = errs
<1> DEFINE Kept ==
         /\ ~ linesOpen' => gpc' = "done"
         /\ ppc' = "closed" => ~ linesOpen' \/ cancelled'
         /\ eventsNil' => ppc' = "closed"
         /\ printer' \in {"pending", "returned"} => eventsNil'
         /\ ~ errsOpen => ~ errsOpen'
         /\ cancelled => cancelled'
         /\ errsNil' => \/ errsNil
                        \/ errs = <<>> /\ ~ errsOpen /\ errs' = errs
         /\ eventsNil' /\ printer' \in {"loop", "returned"} =>
              \/ eventsNil /\ printer \in {"loop", "returned"}
              \/ errs = <<>> /\ errs' = errs
<1> SUFFICES Kept
  OBVIOUS
<1> USE DEF configVars, chanVars, sourceVars, cutVars, noticeVars, printerVars, pipelineVars,
            PrintInv, After
<1>1. CASE Launch
  BY <1>1 DEF Launch
<1>2. ASSUME NEW s \in sources,
             LinesReturn(s) \/ CutLine(s) \/ Report(s) \/ SourcePosts(s) \/ Record(s)
               \/ Announce(s) \/ ReaderLeaves(s)
      PROVE  Kept
  <2>1. /\ UNCHANGED <<linesOpen, errsOpen, gpc, ppc, cancelled>>
        /\ UNCHANGED <<printer, eventsNil, errsNil>>
    BY <1>2 DEF LinesReturn, CutLine, Report, SourcePosts, Record, Announce, ReaderLeaves
  <2> QED
    BY <2>1
<1>3. CASE PipelinePosts
  BY <1>3 DEF PipelinePosts
<1>4. CASE PipelineEnds
  BY <1>4 DEF PipelineEnds
<1>5. CASE SourcesReturned \/ ReplayNotice \/ StopNotices \/ StopCuts
  BY <1>5 DEF SourcesReturned, ReplayNotice, StopNotices, StopCuts
<1>6. CASE Close
  BY <1>6 DEF Close
<1>7. CASE PrintError
  BY <1>7 DEF PrintError
<1>8. CASE EventsEnd
  BY <1>8 DEF EventsEnd
<1>9. CASE PrintPending
  <2>1. /\ UNCHANGED <<linesOpen, errsOpen, gpc, ppc, cancelled, eventsNil>>
        /\ printer = "pending"
    BY <1>9 DEF PrintPending
  <2>2. CASE UNCHANGED <<printer, errsNil>>
    BY <2>1, <2>2
  <2>3. CASE (errsNil \/ errs = <<>>) /\ errsNil' = (errsNil \/ ~ errsOpen) /\ UNCHANGED errs
    <3>1. errs = <<>> /\ errs' = errs
      BY <2>3
    <3>2. errsNil' => errsNil \/ ~ errsOpen
      BY <2>3, Zenon
    <3> QED
      BY <2>1, <3>1, <3>2
  <2> QED
    BY <1>9, <2>2, <2>3 DEF PrintPending
<1>10. CASE AnswersEnd \/ PrinterReturns
  BY <1>10 DEF AnswersEnd, PrinterReturns
<1>11. CASE Cancel \/ UNCHANGED vars
  BY <1>11 DEF Cancel, vars
<1> HIDE DEF Kept, configVars, chanVars, sourceVars, cutVars, noticeVars, printerVars,
             pipelineVars, PrintInv, After
<1> QED
  BY <1>1, <1>2, <1>3, <1>4, <1>5, <1>6, <1>7, <1>8, <1>9, <1>10, <1>11
     DEF Next, Source, Reader, Ingest, Printer

LEMMA PrintStep ==
  ASSUME Inv, PrintInv, [Next]_vars
  PROVE  PrintInv'
<1>1. errs \in Seq(Notice)
  BY DEF Inv, StateOK
\* A loop that saw the end of events in a run that was not cancelled: nobody sends any more.
<1>2. eventsNil /\ ~ cancelled => ~ errsOpen
  BY DEF PrintInv, Inv, Ordered
<1>3. \A m \in sent' : m \in printed' \/ \E i \in DOMAIN errs' : errs'[i] = m
  <2>1. CASE UNCHANGED <<errs, sent, printed>>
    BY <2>1 DEF PrintInv
  <2>2. ASSUME NEW n \in Notice, Sends(n)
        PROVE  \A m \in sent' : m \in printed' \/ \E i \in DOMAIN errs' : errs'[i] = m
    <3>1. /\ Len(errs) + 1 \in DOMAIN errs' /\ errs'[Len(errs) + 1] = n
          /\ \A i \in DOMAIN errs : i \in DOMAIN errs' /\ errs'[i] = errs[i]
      BY <1>1, <2>2 DEF Sends
    <3> QED
      BY <2>2, <3>1 DEF Sends, PrintInv
  <2>3. CASE TakeNotice /\ sent' = sent
    <3>1. errs # <<>> /\ printed' = printed \cup {Head(errs)} /\ errs' = Tail(errs)
      BY <2>3 DEF TakeNotice
    <3>2. \A i \in DOMAIN errs : i = 1 \/ (i - 1 \in DOMAIN errs' /\ errs'[i - 1] = errs[i])
      BY <1>1, <3>1
    <3>3. Head(errs) = errs[1]
      BY <1>1, <3>1
    <3> QED
      BY <2>3, <3>1, <3>2, <3>3 DEF PrintInv
  <2> QED
    BY <2>1, <2>2, <2>3, StepsOfTheChannel
<1>4. errsNil' => ~ errsOpen' /\ errs' = <<>>
  <2> SUFFICES ASSUME errsNil'  PROVE ~ errsOpen' /\ errs' = <<>>
    OBVIOUS
  <2>1. CASE errs = <<>> /\ ~ errsOpen /\ errs' = errs
    BY <2>1, StepsOfTheEnd
  <2>2. CASE errsNil
    <3>1. ~ errsOpen /\ errs = <<>>
      BY <2>2 DEF PrintInv
    <3>2. errs' = errs
      BY <2>2, <3>1, StepsOfTheChannel DEF Sends
    <3> QED
      BY <3>1, <3>2, StepsOfTheEnd
  <2> QED
    BY <2>1, <2>2, StepsOfTheEnd
<1>5. eventsNil' /\ printer' \in {"loop", "returned"} /\ ~ cancelled' => errs' = <<>>
  <2> SUFFICES ASSUME eventsNil', printer' \in {"loop", "returned"}, ~ cancelled'
               PROVE  errs' = <<>>
    OBVIOUS
  <2>1. CASE errs = <<>> /\ errs' = errs
    BY <2>1
  <2>2. CASE eventsNil /\ printer \in {"loop", "returned"}
    <3>1. ~ cancelled
      BY StepsOfTheEnd
    <3>2. errs = <<>> /\ ~ errsOpen
      BY <1>2, <2>2, <3>1 DEF PrintInv
    <3> QED
      BY <3>2, StepsOfTheChannel DEF Sends, TakeNotice
  <2> QED
    BY <2>1, <2>2, StepsOfTheEnd
<1> QED
  BY <1>3, <1>4, <1>5, StepsOfTheEnd DEF PrintInv

\* A --plain run that ends by itself has printed every source's error and notice, and left
\* none in the channel, for any number of sources and any order of its select's choices:
\* the end of events is seen only when errs is closed, and printPending empties it (#97).
THEOREM EverythingIsAlwaysPrinted == Spec => []EverythingIsPrinted
<1>1. Init => Inv /\ PrintInv
  BY InitInv DEF Init, PrintInv
<1>2. Inv /\ PrintInv /\ [Next]_vars => Inv' /\ PrintInv'
  BY StateStep, OrderedStep, LockedStep, SentOnceStep, RoomStep, PrintStep DEF Inv
<1>3. PrintInv => EverythingIsPrinted
  <2> SUFFICES ASSUME PrintInv, printer = "returned", ~ cancelled
               PROVE  sent \subseteq printed /\ errs = <<>>
    BY DEF EverythingIsPrinted
  <2>1. errs = <<>>
    BY DEF PrintInv
  <2> QED
    BY <2>1 DEF PrintInv
<1> QED
  BY <1>1, <1>2, <1>3, PTL DEF Spec
-----------------------------------------------------------------------------
\* What StateOK leaves out.  A notice counted as dropped was posted, and one on its way has
\* been neither dropped nor sent yet.
RestOK ==
  /\ docker \in Sources \cup {None} /\ replay \in BOOLEAN /\ cancelled \in BOOLEAN
  /\ linesOpen \in BOOLEAN /\ failed \subseteq Sources /\ cuts \in 0..MaxCuts
  /\ posts \in 0..MaxPosts /\ dropped \in Nat /\ dropped + Pending <= posts
  /\ evicting \in BOOLEAN /\ printer \in {"loop", "pending", "returned", "left"}
  /\ eventsNil \in BOOLEAN /\ errsNil \in BOOLEAN /\ answersNil \in BOOLEAN
  /\ printed \subseteq Notice

\* A notice that goes on counts before it is sent.
LEMMA OneMorePosted ==
  ASSUME NEW d \in Nat, NEW n \in 0..MaxPosts, NEW e \in {0, 1}, d <= n, n < MaxPosts
  PROVE  d + e <= n + 1 /\ n + 1 \in 0..MaxPosts
BY BoundAssumption

LEMMA RestStep ==
  ASSUME Inv, RestOK, [Next]_vars
  PROVE  RestOK'
<1> USE BoundAssumption DEF configVars, chanVars, sourceVars, cutVars, noticeVars, printerVars,
       pipelineVars, RestOK
<1>0. StateOK /\ Locked /\ sources \subseteq Sources /\ errs \in Seq(Notice)
  BY DEF Inv, StateOK
<1>a. spc' = spc /\ ppc' = ppc => Pending' = Pending
  BY DEF Pending, NoticesLocked
<1>b. \/ NoticesLocked /\ Pending = 1
      \/ ~ NoticesLocked /\ Pending = 0
  BY DEF Pending
<1>c. \/ NoticesLocked' /\ Pending' = 1
      \/ ~ NoticesLocked' /\ Pending' = 0
  BY DEF Pending
<1>d. ASSUME TakeNotice  PROVE printed' \subseteq Notice
  <2>1. Head(errs) \in Notice
    BY <1>0, <1>d DEF TakeNotice
  <2> QED
    BY <1>d, <2>1 DEF TakeNotice
<1>1. CASE Launch
  BY <1>1, <1>a DEF Launch
<1>2. ASSUME NEW s \in sources, LinesReturn(s) PROVE RestOK'
  <2>1. NoticesLocked' => NoticesLocked
    BY <1>0, <1>2 DEF LinesReturn, NoticesLocked, StateOK
  <2>2. failed' \subseteq Sources
    BY <1>0, <1>2 DEF LinesReturn
  <2> QED
    BY <1>2, <2>1, <2>2, <1>b, <1>c DEF LinesReturn
<1>3. ASSUME NEW s \in sources, CutLine(s) PROVE RestOK'
  BY <1>3, <1>a DEF CutLine
<1>4. ASSUME NEW s \in sources, Report(s) PROVE RestOK'
  <2>1. NoticesLocked' => NoticesLocked
    BY <1>0, <1>4 DEF Report, NoticesLocked, StateOK
  <2> QED
    BY <1>4, <2>1, <1>b, <1>c DEF Report
<1>5. ASSUME NEW s \in sources, SourcePosts(s) PROVE RestOK'
  <2>1. CASE spc[s] = "running" /\ \E goes \in BOOLEAN :
               Checked(goes) /\ spc' = [spc EXCEPT ![s] = IF goes THEN "posting" ELSE @]
    <3> PICK goes \in BOOLEAN :
               Checked(goes) /\ spc' = [spc EXCEPT ![s] = IF goes THEN "posting" ELSE @]
      BY <2>1
    <3>1. ~ goes => spc' = spc
      BY <1>0, <2>1 DEF StateOK
    <3>2. ~ goes => Pending' = Pending
      BY <3>1, <1>5, <1>a DEF SourcePosts
    <3>3. Pending = 0 /\ Pending' \in {0, 1}
      BY <1>b, <1>c DEF Checked
    <3>4. dropped' \in Nat /\ posts' \in 0..MaxPosts /\ dropped' + Pending' <= posts'
      <4>1. CASE noticesDone
        <5>1. ~ goes /\ posts' = posts /\ dropped' = dropped
          BY <4>1 DEF Checked
        <5> QED
          BY <5>1, <3>2
      <4>2. CASE ~ noticesDone /\ Dropping
        <5>1. ~ goes /\ posts' = posts + 1 /\ dropped' = dropped + 1 /\ posts < MaxPosts
          BY <4>2 DEF Checked
        <5>2. posts \in Nat /\ dropped \in Nat /\ dropped <= posts /\ Pending = 0 /\ Pending' = 0
          BY <5>1, <3>2, <3>3
        <5> QED
          BY <5>1, <5>2
      <4>3. CASE ~ noticesDone /\ ~ Dropping
        <5>1. posts' = posts + 1 /\ dropped' = dropped /\ posts < MaxPosts
          BY <4>3 DEF Checked
        <5>2. posts \in 0..MaxPosts /\ dropped \in Nat /\ dropped <= posts
          BY <3>3
        <5>3. dropped + Pending' <= posts + 1 /\ posts + 1 \in 0..MaxPosts
          BY <5>1, <5>2, <3>3, OneMorePosted
        <5>4. dropped' \in Nat
          BY <5>1, <5>2
        <5>5. posts' \in 0..MaxPosts /\ dropped' + Pending' <= posts'
          BY <5>1, <5>3
        <5> QED
          BY <5>4, <5>5
      <4> QED
        BY <4>1, <4>2, <4>3
    <3> QED
      BY <1>5, <3>4 DEF SourcePosts
  <2>2. CASE spc[s] = "posting" /\ Posted /\ spc' = [spc EXCEPT ![s] = "running"]
    <3>1. NoticesLocked /\ ~ NoticesLocked'
      BY <1>0, <1>5, <2>2 DEF SourcePosts, NoticesLocked, Locked, StateOK
    <3> QED
      BY <1>5, <2>2, <3>1, <1>b, <1>c DEF SourcePosts, Posted
  <2> QED
    BY <1>5, <2>1, <2>2 DEF SourcePosts
<1>6. ASSUME NEW s \in sources, Record(s) PROVE RestOK'
  BY <1>6, <1>a DEF Record
<1>7. ASSUME NEW s \in sources, Announce(s) PROVE RestOK'
  BY <1>7, <1>a DEF Announce
<1>8. ASSUME NEW s \in sources, ReaderLeaves(s) PROVE RestOK'
  BY <1>8, <1>a DEF ReaderLeaves
<1>9. CASE PipelinePosts
  <2>1. CASE \E goes \in BOOLEAN : Checked(goes) /\ ppc' = IF goes THEN "posting" ELSE ppc
    <3> PICK goes \in BOOLEAN : Checked(goes) /\ ppc' = IF goes THEN "posting" ELSE ppc
      BY <2>1
    <3>1. ~ goes => Pending' = Pending
      BY <1>9, <1>a DEF PipelinePosts
    <3>2. Pending = 0 /\ Pending' \in {0, 1}
      BY <1>b, <1>c DEF Checked
    <3>3. dropped' \in Nat /\ posts' \in 0..MaxPosts /\ dropped' + Pending' <= posts'
      <4>1. CASE noticesDone
        <5>1. ~ goes /\ posts' = posts /\ dropped' = dropped
          BY <4>1 DEF Checked
        <5> QED
          BY <5>1, <3>1
      <4>2. CASE ~ noticesDone /\ Dropping
        <5>1. ~ goes /\ posts' = posts + 1 /\ dropped' = dropped + 1 /\ posts < MaxPosts
          BY <4>2 DEF Checked
        <5>2. posts \in Nat /\ dropped \in Nat /\ dropped <= posts /\ Pending = 0 /\ Pending' = 0
          BY <5>1, <3>1, <3>2
        <5> QED
          BY <5>1, <5>2
      <4>3. CASE ~ noticesDone /\ ~ Dropping
        <5>1. posts' = posts + 1 /\ dropped' = dropped /\ posts < MaxPosts
          BY <4>3 DEF Checked
        <5>2. posts \in 0..MaxPosts /\ dropped \in Nat /\ dropped <= posts
          BY <3>2
        <5>3. dropped + Pending' <= posts + 1 /\ posts + 1 \in 0..MaxPosts
          BY <5>1, <5>2, <3>2, OneMorePosted
        <5>4. dropped' \in Nat
          BY <5>1, <5>2
        <5>5. posts' \in 0..MaxPosts /\ dropped' + Pending' <= posts'
          BY <5>1, <5>3
        <5> QED
          BY <5>4, <5>5
      <4> QED
        BY <4>1, <4>2, <4>3
    <3> QED
      BY <1>9, <3>3 DEF PipelinePosts
  <2>2. CASE ppc = "posting" /\ Posted /\ ppc' = "running" /\ UNCHANGED evicting
    <3>1. NoticesLocked /\ ~ NoticesLocked'
      BY <1>0, <1>9, <2>2 DEF PipelinePosts, NoticesLocked, Locked, StateOK
    <3> QED
      BY <1>9, <2>2, <3>1, <1>b, <1>c DEF PipelinePosts, Posted
  <2> QED
    BY <1>9, <2>1, <2>2 DEF PipelinePosts
<1>10. CASE PipelineEnds
  <2>1. NoticesLocked' => NoticesLocked
    BY <1>10 DEF PipelineEnds, NoticesLocked
  <2> QED
    BY <1>10, <2>1, <1>b, <1>c DEF PipelineEnds
<1>11. CASE SourcesReturned \/ ReplayNotice \/ StopNotices \/ StopCuts
  BY <1>11, <1>a DEF SourcesReturned, ReplayNotice, StopNotices, StopCuts
<1>12. CASE Close
  BY <1>12, <1>a DEF Close
<1>13. CASE PrintError
  BY <1>13, <1>a, <1>d DEF PrintError
<1>14. CASE EventsEnd
  BY <1>14, <1>a DEF EventsEnd
<1>15. CASE PrintPending
  BY <1>15, <1>a, <1>d DEF PrintPending
<1>16. CASE AnswersEnd
  BY <1>16, <1>a DEF AnswersEnd
<1>17. CASE PrinterReturns
  BY <1>17, <1>a DEF PrinterReturns
<1>18. CASE Cancel
  BY <1>18, <1>a DEF Cancel
<1>19. CASE UNCHANGED vars
  BY <1>19, <1>a DEF vars
<1> QED
  BY <1>1, <1>2, <1>3, <1>4, <1>5, <1>6, <1>7, <1>8, <1>9, <1>10, <1>11, <1>12, <1>13,
     <1>14, <1>15, <1>16, <1>17, <1>18, <1>19 DEF Next, Source, Reader, Ingest, Printer

\* The variables keep their types, for any number of sources and any room; no more notices
\* are counted as dropped than were posted (Notices.Post).
THEOREM TypesAlwaysHold == Spec => []TypeOK
<1>1. Init => Inv /\ RestOK
  <2> SUFFICES ASSUME Init  PROVE RestOK
    BY InitInv
  <2>1. ~ NoticesLocked /\ sources \subseteq Sources
    BY DEF Init, NoticesLocked
  <2>2. docker \in Sources \cup {None}
    BY <2>1 DEF Init
  <2>3. /\ replay \in BOOLEAN /\ answersNil \in BOOLEAN /\ cancelled = FALSE /\ linesOpen = TRUE
        /\ failed = {} /\ cuts = 0 /\ posts = 0 /\ dropped = 0 /\ evicting = FALSE
        /\ printer = "loop" /\ eventsNil = FALSE /\ errsNil = FALSE /\ printed = {}
    BY DEF Init
  <2>4. Pending = 0
    BY <2>1 DEF Pending
  <2>5. cuts \in 0..MaxCuts /\ posts \in 0..MaxPosts /\ dropped \in Nat /\ dropped + Pending <= posts
    BY <2>3, <2>4, BoundAssumption
  <2> QED
    BY <2>2, <2>3, <2>5 DEF RestOK
<1>2. Inv /\ RestOK /\ [Next]_vars => Inv' /\ RestOK'
  BY StateStep, OrderedStep, LockedStep, SentOnceStep, RoomStep, RestStep DEF Inv
<1>3. Inv /\ RestOK => TypeOK
  <2> SUFFICES ASSUME Inv, RestOK  PROVE TypeOK
    OBVIOUS
  <2>1. StateOK /\ Shots \subseteq OneShots
    BY DEF Inv, StateOK, Shots, OneShots
  <2>2. dropped \in 0..MaxPosts /\ dropped <= posts
    <3>1. Pending \in {0, 1} /\ posts \in 0..MaxPosts /\ dropped \in Nat
          /\ dropped + Pending <= posts
      BY DEF RestOK, Pending
    <3> QED
      BY <3>1, BoundAssumption
  <2> QED
    BY <2>1, <2>2 DEF StateOK, RestOK, TypeOK, Notice
<1> QED
  BY <1>1, <1>2, <1>3, PTL DEF Spec

-----------------------------------------------------------------------------
(***************************************************************************)
(* The snapshot feed.                                                      *)
(***************************************************************************)
\* What an array of RingSize slots holds once t lines were written: the newest of them
\* before next, the oldest from next on when it has wrapped.
RingHolds(r, next, wrapped, t) ==
  /\ r \in [0..RingSize - 1 -> 0..MaxLines] /\ next \in 0..RingSize - 1
  /\ wrapped \in BOOLEAN /\ t \in 0..MaxLines
  /\ wrapped => RingSize <= t
  /\ ~wrapped => next = t
  /\ \A i \in 0..RingSize - 1 : i < next => r[i] = t - next + i + 1
  /\ \A i \in 0..RingSize - 1 : i >= next /\ wrapped => r[i] = t - next - RingSize + i + 1

RingOK == RingHolds(ring, head, filled, total)

Card == [hash : Hashes, at : 1..MaxLines, context : Seq(0..MaxLines)]

\* The lines before line at that its card quotes.
ContextOf(at) ==
  LET n == Min({CardContext, RingSize - 1, at - 1})
  IN  [j \in 1..n |-> at - 1 - n + j]

HasCard(h) == \E i \in DOMAIN escalated : escalated[i].hash = h

\* The cards are of the newest escalations, oldest first; a template that escalated and has
\* no card escalated before all that have one, and there is then no room for another.
CardsOK ==
  /\ escalated \in Seq(Card) /\ Len(escalated) <= CardsKept
  /\ latest \in [Hashes -> 0..MaxLines]
  /\ \A h \in Hashes : latest[h] <= total
  /\ \A g, h \in Hashes : latest[g] = latest[h] /\ latest[g] > 0 => g = h
  /\ \A i \in DOMAIN escalated :
       /\ escalated[i].at = latest[escalated[i].hash]
       /\ escalated[i].context = ContextOf(escalated[i].at)
  /\ \A i, j \in DOMAIN escalated : i < j => escalated[i].at < escalated[j].at
  /\ \A h \in Hashes : latest[h] > 0 /\ ~HasCard(h) =>
       /\ Len(escalated) = CardsKept
       /\ \A i \in DOMAIN escalated : latest[h] < escalated[i].at

\* A channel of one, and what the reader holds.
Slot(s) == s = <<>> \/ \E v \in View : s = <<v>>

AtMost(u, v) == u.lines <= v.lines /\ u.answers <= v.answers

\* Snapshots reach the screen in the order they were built.
InOrder ==
  /\ AtMost(shown, got) /\ AtMost(got, Snapshot)
  /\ reader # <<>> => AtMost(got, reader[1]) /\ AtMost(reader[1], Snapshot)
  /\ snaps # <<>> => AtMost(got, snaps[1]) /\ AtMost(snaps[1], Snapshot)
  /\ reader # <<>> /\ snaps # <<>> => AtMost(reader[1], snaps[1])

\* The snapshot that was built last among those not dropped.
Newest == IF snaps # <<>> THEN snaps[1] ELSE IF reader # <<>> THEN reader[1] ELSE got

SnapsOK ==
  /\ answers \in 0..MaxAnswers
  /\ dirty \in BOOLEAN /\ quit \in BOOLEAN /\ snapsOpen \in BOOLEAN
  /\ paused \in BOOLEAN /\ ended \in BOOLEAN
  /\ run \in {"loop", "final", "done"}
  /\ Slot(snaps) /\ Slot(reader) /\ got \in View /\ shown \in View
  /\ InOrder
  /\ snapsOpen <=> run # "done"
  /\ run = "done" /\ ~quit => Newest = Snapshot
  /\ ended => run = "done" /\ snaps = <<>> /\ reader = <<>>

FeedInv == RingOK /\ CardsOK /\ SnapsOK

\* The TUI that has seen the stream end has been handed the final counts and the last
\* answer, unless the user quit.
EndHasTheFinalState == ended /\ ~quit => got = Snapshot

\* What the screen shows never goes back to an older snapshot.
ScreenNeverGoesBack == [][AtMost(got, got') /\ AtMost(shown, shown')]_feedVars

-----------------------------------------------------------------------------
(***************************************************************************)
(* The ring: both readers quote the stream.                                *)
(***************************************************************************)
LEMMA FeedTypes ==
  /\ RingSize \in Nat /\ RingSize >= 1 /\ CardContext \in Nat
  /\ CardsKept \in Nat /\ CardsKept >= 1 /\ MaxLines \in Nat /\ MaxAnswers \in Nat
BY FeedAssumption

\* One more line leaves the array the ring of one more line.
LEMMA RingWritten ==
  ASSUME NEW r, NEW next, NEW wrapped, NEW t, RingHolds(r, next, wrapped, t), t < MaxLines
  PROVE  LET n == IF Wraps(next + 1) THEN 0 ELSE next + 1
         IN  RingHolds([r EXCEPT ![next] = t + 1], n, wrapped \/ Wraps(next + 1), t + 1)
<1> DEFINE n == IF Wraps(next + 1) THEN 0 ELSE next + 1
           w == wrapped \/ Wraps(next + 1)
           q == [r EXCEPT ![next] = t + 1]
<1>1. /\ RingSize \in Nat /\ RingSize >= 1 /\ MaxLines \in Nat
      /\ next \in Nat /\ next <= RingSize - 1 /\ t \in Nat /\ t + 1 \in 0..MaxLines
      /\ r \in [0..RingSize - 1 -> 0..MaxLines] /\ next \in 0..RingSize - 1
      /\ wrapped \in BOOLEAN
      /\ wrapped => RingSize <= t
      /\ ~wrapped => next = t
  BY FeedTypes DEF RingHolds
<1>2. /\ \A i \in 0..RingSize - 1 : i < next => r[i] = t - next + i + 1
      /\ \A i \in 0..RingSize - 1 : i >= next /\ wrapped => r[i] = t - next - RingSize + i + 1
  BY DEF RingHolds
<1>3. /\ q \in [0..RingSize - 1 -> 0..MaxLines]
      /\ \A i \in 0..RingSize - 1 : q[i] = IF i = next THEN t + 1 ELSE r[i]
  BY <1>1
<1>4. Wraps(next + 1) <=> next = RingSize - 1
  BY <1>1 DEF Wraps
<1> HIDE DEF q
<1>5. CASE next = RingSize - 1
  <2>1. n = 0 /\ w = TRUE
    BY <1>4, <1>5
  <2>2. RingSize <= t + 1
    BY <1>1, <1>5
  <2>3. ASSUME NEW i \in 0..RingSize - 1  PROVE q[i] = (t + 1) - 0 - RingSize + i + 1
    BY <1>1, <1>2, <1>3, <1>5
  <2>4. RingHolds(q, 0, TRUE, t + 1)
    BY <1>1, <1>3, <2>2, <2>3 DEF RingHolds
  <2> QED
    BY <2>1, <2>4 DEF q
<1>6. CASE next # RingSize - 1
  <2>1. n = next + 1 /\ w = wrapped
    BY <1>1, <1>4, <1>6
  <2>2. next + 1 \in 0..RingSize - 1 /\ (wrapped => RingSize <= t + 1) /\ (~wrapped => next + 1 = t + 1)
    BY <1>1, <1>6
  <2>3. ASSUME NEW i \in 0..RingSize - 1, i < next + 1  PROVE q[i] = (t + 1) - (next + 1) + i + 1
    BY <1>1, <1>2, <1>3, <2>3
  <2>4. ASSUME NEW i \in 0..RingSize - 1, i >= next + 1, wrapped
        PROVE  q[i] = (t + 1) - (next + 1) - RingSize + i + 1
    BY <1>1, <1>2, <1>3, <2>4
  <2>5. RingHolds(q, next + 1, wrapped, t + 1)
    BY <1>1, <1>3, <2>2, <2>3, <2>4 DEF RingHolds
  <2> QED
    BY <2>1, <2>5 DEF q
<1> QED
  BY <1>5, <1>6

LEMMA MinOfThree ==
  ASSUME NEW a \in Int, NEW b \in Int, NEW c \in Int
  PROVE  LET m == Min({a, b, c})
         IN  m \in {a, b, c} /\ m <= a /\ m <= b /\ m <= c
<1>1. \E x \in {a, b, c} : \A y \in {a, b, c} : x <= y
  OBVIOUS
<1> QED
  BY <1>1 DEF Min

\* A card's context, walked back through the ring, is the lines before its own.
LEMMA PrecedingIs ==
  ASSUME NEW r, NEW next, NEW wrapped, NEW t, RingHolds(r, next, wrapped, t), t >= 1
  PROVE  Preceding(r, next, wrapped) = ContextOf(t)
<1> DEFINE m == Min({CardContext, RingSize - 1, t - 1})
           n == Reach(next, wrapped)
<1>1. /\ RingSize \in Nat /\ RingSize >= 1 /\ CardContext \in Nat
      /\ next \in Nat /\ next <= RingSize - 1 /\ t \in Nat /\ wrapped \in BOOLEAN
      /\ wrapped => RingSize <= t
      /\ ~wrapped => next = t
  BY FeedTypes DEF RingHolds
<1>2. /\ \A i \in 0..RingSize - 1 : i < next => r[i] = t - next + i + 1
      /\ \A i \in 0..RingSize - 1 : i >= next /\ wrapped => r[i] = t - next - RingSize + i + 1
  BY DEF RingHolds
<1>3. m \in {CardContext, RingSize - 1, t - 1} /\ m <= CardContext /\ m <= RingSize - 1 /\ m <= t - 1
  <2>1. CardContext \in Int /\ RingSize - 1 \in Int /\ t - 1 \in Int
    BY <1>1
  <2> QED
    BY <2>1, MinOfThree, Zenon
<1> HIDE DEF m
<1>4. n = m
  BY <1>1, <1>3 DEF Reach, Back
<1>5. n \in Nat /\ n <= RingSize - 1 /\ n <= t - 1 /\ (~wrapped => n <= next - 1)
  BY <1>1, <1>3, <1>4
<1> HIDE DEF n
<1>6. ASSUME NEW i \in 1..n  PROVE r[SlotBefore(next, i)] = t - i
  <2>1. CASE next - 1 - i < 0
    <3>1. /\ wrapped /\ next - 1 - i + RingSize \in 0..RingSize - 1
          /\ next - 1 - i + RingSize >= next
      BY <1>1, <1>5, <2>1
    <3>2. r[next - 1 - i + RingSize] = t - next - RingSize + (next - 1 - i + RingSize) + 1
      BY <1>2, <3>1
    <3> QED
      BY <1>1, <2>1, <3>2 DEF SlotBefore
  <2>2. CASE ~(next - 1 - i < 0)
    <3>1. next - 1 - i \in 0..RingSize - 1 /\ next - 1 - i < next
      BY <1>1, <1>5, <2>2
    <3>2. r[next - 1 - i] = t - next + (next - 1 - i) + 1
      BY <1>2, <3>1
    <3> QED
      BY <1>1, <2>2, <3>2 DEF SlotBefore
  <2> QED
    BY <2>1, <2>2
<1>7. ASSUME NEW j \in 1..n  PROVE r[SlotBefore(next, n + 1 - j)] = t - 1 - n + j
  <2>1. n + 1 - j \in 1..n /\ t - (n + 1 - j) = t - 1 - n + j
    BY <1>1, <1>5
  <2> QED
    BY <1>6, <2>1
<1>8. Preceding(r, next, wrapped) = [j \in 1..n |-> r[SlotBefore(next, n + 1 - j)]]
  BY DEF Preceding, n
<1>9. ContextOf(t) = [j \in 1..n |-> t - 1 - n + j]
  BY <1>4 DEF ContextOf, m
<1> QED
  BY <1>7, <1>8, <1>9

LEMMA ContextType ==
  ASSUME NEW at \in 1..MaxLines
  PROVE  ContextOf(at) \in Seq(0..MaxLines)
<1> DEFINE m == Min({CardContext, RingSize - 1, at - 1})
<1>1. m \in Nat /\ m <= at - 1
  <2>1. CardContext \in Int /\ RingSize - 1 \in Int /\ at - 1 \in Int
    BY FeedTypes
  <2>2. m \in {CardContext, RingSize - 1, at - 1} /\ m <= at - 1
    BY <2>1, MinOfThree, Zenon
  <2> HIDE DEF m
  <2> QED
    BY <2>2, FeedTypes
<1> HIDE DEF m
<1>2. \A j \in 1..m : at - 1 - m + j \in 0..MaxLines
  BY <1>1, FeedTypes
<1>3. [j \in 1..m |-> at - 1 - m + j] \in Seq(0..MaxLines)
  BY <1>1, <1>2, IsASeq
<1> QED
  BY <1>3 DEF ContextOf, m

\* The stream pane's lines are the last of the stream.
LEMMA TailIs == RingOK => TailIsTheLastLines
<1> SUFFICES ASSUME RingOK PROVE TailIsTheLastLines
  OBVIOUS
<1>1. /\ RingSize \in Nat /\ RingSize >= 1 /\ MaxLines \in Nat
      /\ head \in Nat /\ head <= RingSize - 1 /\ total \in Nat
      /\ ring \in [0..RingSize - 1 -> 0..MaxLines] /\ filled \in BOOLEAN
      /\ filled => RingSize <= total
      /\ ~filled => head = total
  BY FeedTypes DEF RingOK, RingHolds
<1>2. /\ \A i \in 0..RingSize - 1 : i < head => ring[i] = total - head + i + 1
      /\ \A i \in 0..RingSize - 1 : i >= head /\ filled => ring[i] = total - head - RingSize + i + 1
  BY DEF RingOK, RingHolds
<1>3. \A k \in 1..head : ring[0 + k - 1] = total - head + k
  <2> SUFFICES ASSUME NEW k \in 1..head  PROVE ring[0 + k - 1] = total - head + k
    OBVIOUS
  <2>1. 0 + k - 1 \in 0..RingSize - 1 /\ 0 + k - 1 < head /\ k \in Nat
    BY <1>1
  <2>2. ring[0 + k - 1] = total - head + (0 + k - 1) + 1
    BY <1>2, <2>1
  <2> QED
    BY <1>1, <2>1, <2>2
<1>4. CASE ~filled
  <2>1. StreamTail = [k \in 1..head - 0 |-> ring[0 + k - 1]]
    BY <1>4 DEF StreamTail, Slots
  <2>2. head - 0 = total /\ total < RingSize /\ head = total
    BY <1>1, <1>4
  <2>3. \A k \in 1..total : ring[0 + k - 1] = total - total + k
    BY <1>3, <2>2
  <2> QED
    BY <2>1, <2>2, <2>3 DEF TailIsTheLastLines
<1>5. CASE filled
  <2> DEFINE a == [k \in 1..RingSize - head |-> ring[head + k - 1]]
             b == [k \in 1..head - 0 |-> ring[0 + k - 1]]
  <2>1. StreamTail = a \o b
    BY <1>5 DEF StreamTail, Slots
  <2>2. /\ a \in Seq(0..MaxLines) /\ Len(a) = RingSize - head
        /\ \A k \in 1..RingSize - head : a[k] = total - RingSize + k
    <3>1. ASSUME NEW k \in 1..RingSize - head
          PROVE  ring[head + k - 1] \in 0..MaxLines /\ ring[head + k - 1] = total - RingSize + k
      <4>1. head + k - 1 \in 0..RingSize - 1 /\ head + k - 1 >= head /\ k \in Nat
        BY <1>1
      <4>2. ring[head + k - 1] = total - head - RingSize + (head + k - 1) + 1
        BY <1>2, <1>5, <4>1
      <4> QED
        BY <1>1, <4>1, <4>2
    <3>2. RingSize - head \in Nat
      BY <1>1
    <3>3. a \in Seq(0..MaxLines)
      <4>1. PICK n \in Nat : n = RingSize - head
        BY <3>2
      <4>2. \A k \in 1..n : ring[head + k - 1] \in 0..MaxLines
        BY <3>1, <4>1
      <4>3. [k \in 1..n |-> ring[head + k - 1]] \in Seq(0..MaxLines)
        BY <4>2, IsASeq
      <4> QED
        BY <4>1, <4>3
    <3> QED
      BY <3>1, <3>2, <3>3
  <2>3. /\ b \in Seq(0..MaxLines) /\ Len(b) = head
        /\ \A k \in 1..head : b[k] = total - head + k
    <3>1. head - 0 = head
      BY <1>1
    <3>2. \A k \in 1..head : ring[0 + k - 1] \in 0..MaxLines
      <4> SUFFICES ASSUME NEW k \in 1..head  PROVE ring[0 + k - 1] \in 0..MaxLines
        OBVIOUS
      <4>1. 0 + k - 1 \in 0..RingSize - 1
        BY <1>1
      <4> QED
        BY <1>1, <4>1
    <3>3. [k \in 1..head |-> ring[0 + k - 1]] \in Seq(0..MaxLines)
      BY <1>1, <3>2, IsASeq
    <3>4. b = [k \in 1..head |-> ring[0 + k - 1]]
      BY <3>1
    <3> HIDE DEF b
    <3> QED
      BY <1>1, <1>3, <3>3, <3>4
  <2> HIDE DEF a, b
  <2>4. /\ a \o b \in Seq(0..MaxLines) /\ Len(a \o b) = Len(a) + Len(b)
        /\ \A k \in 1..Len(a) + Len(b) : (a \o b)[k] = IF k <= Len(a) THEN a[k] ELSE b[k - Len(a)]
    BY <2>2, <2>3, ConcatProperties
  <2>5. Len(a \o b) = RingSize /\ Len(a) + Len(b) = RingSize
    BY <1>1, <2>2, <2>3, <2>4
  <2>6. ASSUME NEW k \in 1..RingSize  PROVE (a \o b)[k] = total - RingSize + k
    <3>1. CASE k <= RingSize - head
      <4>1. k \in 1..RingSize - head
        BY <1>1, <3>1
      <4>2. (a \o b)[k] = a[k]
        BY <2>2, <2>4, <2>5, <3>1
      <4> QED
        BY <2>2, <4>1, <4>2
    <3>2. CASE ~(k <= RingSize - head)
      <4>1. k - (RingSize - head) \in 1..head
        BY <1>1, <3>2
      <4>2. (a \o b)[k] = b[k - (RingSize - head)]
        BY <2>2, <2>4, <2>5, <3>2
      <4>3. b[k - (RingSize - head)] = total - head + (k - (RingSize - head))
        BY <2>3, <4>1
      <4> QED
        BY <1>1, <4>2, <4>3
    <3> QED
      BY <3>1, <3>2
  <2>7. a \o b \in [1..RingSize -> 0..MaxLines]
    BY <2>4, <2>5, LenProperties
  <2> DEFINE s == a \o b
  <2>8. s = [k \in 1..RingSize |-> total - RingSize + k]
    <3>1. s \in [1..RingSize -> 0..MaxLines] /\ \A k \in 1..RingSize : s[k] = total - RingSize + k
      BY <2>6, <2>7
    <3> HIDE DEF s
    <3> QED
      BY <3>1
  <2>9. ~(total < RingSize)
    BY <1>1, <1>5
  <2> QED
    BY <2>1, <2>8, <2>9 DEF TailIsTheLastLines
<1> QED
  BY <1>1, <1>4, <1>5

-----------------------------------------------------------------------------
(***************************************************************************)
(* The cards: what retain leaves of those there were.                      *)
(***************************************************************************)
LEMMA CutOut ==
  ASSUME NEW S, NEW s \in Seq(S), NEW i \in 1..Len(s)
  PROVE  LET t == SubSeq(s, 1, i - 1) \o SubSeq(s, i + 1, Len(s))
         IN  /\ t \in Seq(S) /\ Len(t) = Len(s) - 1
             /\ \A j \in 1..(Len(s) - 1) : t[j] = IF j < i THEN s[j] ELSE s[j + 1]
<1> DEFINE a == SubSeq(s, 1, i - 1)
           b == SubSeq(s, i + 1, Len(s))
<1>0. Len(s) \in Nat /\ i \in Nat /\ \A j \in 1..Len(s) : s[j] \in S
  BY LenProperties, ElementOfSeq
<1>1. /\ a \in Seq(S) /\ Len(a) = i - 1
      /\ \A j \in 1..(i - 1) : a[j] = s[j]
  <2>1. \A j \in 1..(i - 1) : s[j] \in S
    BY <1>0
  <2>2. /\ a \in Seq(S) /\ Len(a) = IF 1 <= i - 1 THEN (i - 1) - 1 + 1 ELSE 0
        /\ \A j \in 1..((i - 1) - 1 + 1) : a[j] = s[1 + j - 1]
    BY <1>0, <2>1, SubSeqProperties
  <2> HIDE DEF a
  <2>3. ASSUME NEW j \in 1..(i - 1)  PROVE a[j] = s[j]
    <3>1. j \in 1..((i - 1) - 1 + 1) /\ 1 + j - 1 = j
      BY <1>0
    <3> QED
      BY <2>2, <3>1
  <2> QED
    BY <1>0, <2>2, <2>3
<1>2. /\ b \in Seq(S) /\ Len(b) = Len(s) - i
      /\ \A j \in 1..(Len(s) - i) : b[j] = s[i + j]
  <2>1. \A j \in (i + 1)..Len(s) : s[j] \in S
    BY <1>0
  <2>2. /\ b \in Seq(S) /\ Len(b) = IF i + 1 <= Len(s) THEN Len(s) - (i + 1) + 1 ELSE 0
        /\ \A j \in 1..(Len(s) - (i + 1) + 1) : b[j] = s[(i + 1) + j - 1]
    BY <1>0, <2>1, SubSeqProperties
  <2> HIDE DEF b
  <2>3. ASSUME NEW j \in 1..(Len(s) - i)  PROVE b[j] = s[i + j]
    <3>1. j \in 1..(Len(s) - (i + 1) + 1) /\ (i + 1) + j - 1 = i + j
      BY <1>0
    <3> QED
      BY <2>2, <3>1
  <2> QED
    BY <1>0, <2>2, <2>3
<1> HIDE DEF a, b
<1>3. /\ a \o b \in Seq(S) /\ Len(a \o b) = Len(a) + Len(b)
      /\ \A j \in 1..(Len(a) + Len(b)) : (a \o b)[j] = IF j <= Len(a) THEN a[j] ELSE b[j - Len(a)]
  BY <1>1, <1>2, ConcatProperties
<1>4. ASSUME NEW j \in 1..(Len(s) - 1)
      PROVE  (a \o b)[j] = IF j < i THEN s[j] ELSE s[j + 1]
  <2>1. CASE j < i
    BY <1>0, <1>1, <1>2, <1>3, <2>1
  <2>2. CASE ~(j < i)
    <3>1. j - (i - 1) \in 1..(Len(s) - i) /\ i + (j - (i - 1)) = j + 1 /\ ~(j <= i - 1)
      BY <1>0, <2>2
    <3>2. b[j - (i - 1)] = s[j + 1]
      BY <1>2, <3>1
    <3>3. j \in 1..(Len(a) + Len(b))
      BY <1>0, <1>1, <1>2
    <3> QED
      BY <1>1, <1>3, <2>2, <3>1, <3>2, <3>3
  <2> QED
    BY <2>1, <2>2
<1>5. Len(a \o b) = Len(s) - 1
  BY <1>0, <1>1, <1>2, <1>3
<1> QED
  BY <1>3, <1>4, <1>5 DEF a, b

\* The cards as a list without repetition.
Listed ==
  /\ escalated \in Seq(Card) /\ Len(escalated) <= CardsKept
  /\ \A i, j \in DOMAIN escalated : escalated[i].hash = escalated[j].hash => i = j

\* w is taken from the cards in their order, entry j from f[j].
Drawn(w, f) ==
  /\ w \in Seq(Card) /\ f \in [1..Len(w) -> 1..Len(escalated)]
  /\ \A j \in 1..Len(w) : w[j] = escalated[f[j]]
  /\ \A i, j \in 1..Len(w) : i < j => f[i] < f[j]

\* Only the template's own card is cut out.
LEMMA WithoutIs ==
  ASSUME Listed, NEW h \in Hashes
  PROVE  \E f :
           /\ Drawn(Without(h), f)
           /\ \A j \in 1..Len(Without(h)) : Without(h)[j].hash # h
           /\ \A i \in 1..Len(escalated) :
                escalated[i].hash = h \/ \E j \in 1..Len(Without(h)) : f[j] = i
           /\ \/ Len(Without(h)) = Len(escalated) /\ \A j \in 1..Len(escalated) : f[j] = j
              \/ Len(Without(h)) = Len(escalated) - 1
<1>1. /\ escalated \in Seq(Card) /\ Len(escalated) \in Nat
      /\ DOMAIN escalated = 1..Len(escalated)
      /\ \A i, j \in 1..Len(escalated) : escalated[i].hash = escalated[j].hash => i = j
  BY LenProperties DEF Listed
<1>2. CASE ~ \E i \in DOMAIN escalated : escalated[i].hash = h
  <2>1. Without(h) = escalated
    BY <1>2 DEF Without
  <2> DEFINE f == [j \in 1..Len(escalated) |-> j]
  <2>2. Drawn(escalated, f) /\ \A j \in 1..Len(escalated) : f[j] = j
    BY <1>1 DEF Drawn
  <2> HIDE DEF f
  <2>3. /\ \A j \in 1..Len(escalated) : escalated[j].hash # h
        /\ \A i \in 1..Len(escalated) : \E j \in 1..Len(escalated) : f[j] = i
    BY <1>1, <1>2, <2>2
  <2> QED
    BY <2>1, <2>2, <2>3
<1>3. CASE \E i \in DOMAIN escalated : escalated[i].hash = h
  <2> DEFINE k == CHOOSE i \in DOMAIN escalated : escalated[i].hash = h
             w == SubSeq(escalated, 1, k - 1) \o SubSeq(escalated, k + 1, Len(escalated))
             f == [j \in 1..Len(escalated) - 1 |-> IF j < k THEN j ELSE j + 1]
  <2>1. k \in DOMAIN escalated /\ escalated[k].hash = h
    BY <1>3
  <2>2. Without(h) = w
    BY <1>3 DEF Without
  <2>3. /\ w \in Seq(Card) /\ Len(w) = Len(escalated) - 1
        /\ \A j \in 1..(Len(escalated) - 1) : w[j] = IF j < k THEN escalated[j] ELSE escalated[j + 1]
    <3>1. k \in 1..Len(escalated)
      BY <1>1, <2>1
    <3> HIDE DEF k
    <3> QED
      BY <1>1, <3>1, CutOut
  <2> HIDE DEF k, w
  <2>4. k \in 1..Len(escalated) /\ k \in Nat
    BY <1>1, <2>1
  <2>5. /\ f \in [1..Len(w) -> 1..Len(escalated)]
        /\ \A j \in 1..Len(w) : f[j] = (IF j < k THEN j ELSE j + 1) /\ f[j] # k
    BY <1>1, <2>3, <2>4
  <2> HIDE DEF f
  <2>6. \A j \in 1..Len(w) : w[j] = escalated[f[j]]
    BY <2>3, <2>5
  <2>7. \A i, j \in 1..Len(w) : i < j => f[i] < f[j]
    BY <1>1, <2>3, <2>4, <2>5
  <2>8. Drawn(w, f)
    BY <2>3, <2>5, <2>6, <2>7 DEF Drawn
  <2>9. \A j \in 1..Len(w) : w[j].hash # h
    BY <1>1, <2>1, <2>4, <2>5, <2>6
  <2>10. ASSUME NEW i \in 1..Len(escalated), escalated[i].hash # h
         PROVE  \E j \in 1..Len(w) : f[j] = i
    <3>1. i # k
      BY <2>1, <2>10
    <3>2. CASE i < k
      <4>1. i \in 1..Len(w) /\ f[i] = i
        BY <1>1, <2>3, <2>4, <2>5, <3>2
      <4> QED
        BY <4>1
    <3>3. CASE ~(i < k)
      <4>1. i - 1 \in 1..Len(w) /\ ~(i - 1 < k) /\ (i - 1) + 1 = i
        BY <1>1, <2>3, <2>4, <3>1, <3>3
      <4>2. f[i - 1] = i
        BY <2>5, <4>1
      <4> QED
        BY <4>1, <4>2
    <3> QED
      BY <3>2, <3>3
  <2>11. /\ \A i \in 1..Len(escalated) :
              escalated[i].hash = h \/ \E j \in 1..Len(w) : f[j] = i
    BY <2>10
  <2> QED
    BY <2>2, <2>3, <2>8, <2>9, <2>11
<1> QED
  BY <1>2, <1>3

\* e is the cards with c for the template h: c is last, the others keep their order, and
\* only that template's earlier one, or the oldest when there is no room, is gone.
Retains(e, f, h, c) ==
  /\ e \in Seq(Card) /\ Len(e) \in 1..CardsKept /\ e[Len(e)] = c
  /\ f \in [1..Len(e) - 1 -> 1..Len(escalated)]
  /\ \A j \in 1..Len(e) - 1 : e[j] = escalated[f[j]] /\ e[j].hash # h
  /\ \A i, j \in 1..Len(e) - 1 : i < j => f[i] < f[j]
  /\ \A i \in 1..Len(escalated) :
       \/ escalated[i].hash = h
       \/ \E j \in 1..Len(e) - 1 : f[j] = i
       \/ i = 1 /\ Len(e) = CardsKept
  /\ Len(escalated) = CardsKept => Len(e) = CardsKept

\* retain: the new card is last, the template's earlier one is gone, and so is the oldest
\* when there is no room.
LEMMA RetainIs ==
  ASSUME Listed, NEW h \in Hashes, NEW c \in Card
  PROVE  \E f : Retains(LastN(Append(Without(h), c), CardsKept), f, h, c)
<1>1. PICK g :
        /\ Drawn(Without(h), g)
        /\ \A j \in 1..Len(Without(h)) : Without(h)[j].hash # h
        /\ \A i \in 1..Len(escalated) :
             escalated[i].hash = h \/ \E j \in 1..Len(Without(h)) : g[j] = i
        /\ \/ Len(Without(h)) = Len(escalated) /\ \A j \in 1..Len(escalated) : g[j] = j
           \/ Len(Without(h)) = Len(escalated) - 1
  BY WithoutIs
<1> DEFINE w == Without(h)
           all == Append(w, c)
           e == LastN(all, CardsKept)
<1> SUFFICES \E f : Retains(e, f, h, c)
  OBVIOUS
<1>2. /\ Len(escalated) \in Nat /\ Len(escalated) <= CardsKept
      /\ CardsKept \in Nat /\ CardsKept >= 1
  BY LenProperties, FeedTypes DEF Listed
<1>3. /\ w \in Seq(Card) /\ g \in [1..Len(w) -> 1..Len(escalated)]
      /\ \A j \in 1..Len(w) : w[j] = escalated[g[j]] /\ w[j].hash # h
      /\ \A i, j \in 1..Len(w) : i < j => g[i] < g[j]
      /\ \A i \in 1..Len(escalated) : escalated[i].hash = h \/ \E j \in 1..Len(w) : g[j] = i
      /\ \/ Len(w) = Len(escalated) /\ \A j \in 1..Len(escalated) : g[j] = j
         \/ Len(w) = Len(escalated) - 1
  BY <1>1 DEF Drawn
<1> HIDE DEF w
<1>4. /\ Len(w) \in Nat /\ all \in Seq(Card) /\ Len(all) = Len(w) + 1
      /\ \A j \in 1..Len(w) : all[j] = w[j]
      /\ all[Len(w) + 1] = c
  BY <1>3, AppendProperties, LenProperties
<1> HIDE DEF all
<1>5. CASE Len(all) > CardsKept
  <2> DEFINE f == [j \in 1..CardsKept - 1 |-> j + 1]
  <2>1. /\ Len(w) = CardsKept /\ Len(escalated) = CardsKept
        /\ \A j \in 1..CardsKept : g[j] = j
    BY <1>2, <1>3, <1>4, <1>5
  <2>2. e = SubSeq(all, 2, CardsKept + 1)
    <3>1. Len(all) = CardsKept + 1 /\ Len(all) - CardsKept + 1 = 2
      BY <1>2, <1>4, <2>1
    <3> QED
      BY <1>5, <3>1 DEF LastN
  <2>3. /\ e \in Seq(Card) /\ Len(e) = CardsKept
        /\ \A j \in 1..CardsKept : e[j] = all[j + 1]
    <3>1. CardsKept + 1 \in Int /\ 2 \in Int /\ 2 <= CardsKept + 1
      BY <1>2
    <3>2. \A j \in 2..CardsKept + 1 : all[j] \in Card
      <4>1. \A j \in 1..Len(all) : all[j] \in Card
        BY <1>4, ElementOfSeq
      <4> QED
        BY <1>2, <1>4, <2>1, <4>1
    <3>3. /\ e \in Seq(Card)
          /\ Len(e) = IF 2 <= CardsKept + 1 THEN (CardsKept + 1) - 2 + 1 ELSE 0
          /\ \A j \in 1..(CardsKept + 1) - 2 + 1 : e[j] = all[2 + j - 1]
      BY <2>2, <3>1, <3>2, SubSeqProperties
    <3> HIDE DEF e
    <3>4. (CardsKept + 1) - 2 + 1 = CardsKept
      BY <1>2
    <3>5. ASSUME NEW j \in 1..CardsKept  PROVE e[j] = all[j + 1]
      <4>1. 2 + j - 1 = j + 1
        BY <1>2
      <4> QED
        BY <3>3, <3>4, <4>1
    <3> QED
      BY <3>1, <3>3, <3>4, <3>5
  <2> HIDE DEF e
  <2>4. e[CardsKept] = c
    BY <1>2, <1>4, <2>1, <2>3
  <2>5. /\ f \in [1..Len(e) - 1 -> 1..Len(escalated)]
        /\ \A j \in 1..Len(e) - 1 : f[j] = j + 1
    BY <1>2, <2>1, <2>3
  <2> HIDE DEF f
  <2>6. ASSUME NEW j \in 1..Len(e) - 1  PROVE e[j] = escalated[f[j]] /\ e[j].hash # h
    <3>1. j + 1 \in 1..Len(w) /\ g[j + 1] = j + 1 /\ j \in 1..CardsKept
      BY <1>2, <2>1, <2>3
    <3>2. e[j] = w[j + 1]
      BY <1>4, <2>3, <3>1
    <3> QED
      BY <1>3, <2>5, <3>1, <3>2
  <2>7. \A i, j \in 1..Len(e) - 1 : i < j => f[i] < f[j]
    BY <1>2, <2>3, <2>5
  <2>8. ASSUME NEW i \in 1..Len(escalated), i # 1  PROVE \E j \in 1..Len(e) - 1 : f[j] = i
    <3>1. i - 1 \in 1..Len(e) - 1 /\ (i - 1) + 1 = i
      BY <1>2, <2>1, <2>3, <2>8
    <3> QED
      BY <2>5, <3>1
  <2>9. /\ \A i \in 1..Len(escalated) :
             \/ escalated[i].hash = h
             \/ \E j \in 1..Len(e) - 1 : f[j] = i
             \/ i = 1 /\ Len(e) = CardsKept
    BY <2>3, <2>8
  <2>10. Len(e) \in 1..CardsKept
    BY <1>2, <2>3
  <2> QED
    BY <2>1, <2>3, <2>4, <2>5, <2>6, <2>7, <2>9, <2>10 DEF Retains
<1>6. CASE ~(Len(all) > CardsKept)
  <2>1. e = all
    BY <1>6 DEF LastN
  <2> HIDE DEF e
  <2>2. Len(e) = Len(w) + 1 /\ Len(e) - 1 = Len(w) /\ Len(e) \in 1..CardsKept /\ e \in Seq(Card)
    BY <1>2, <1>4, <1>6, <2>1
  <2>3. e[Len(e)] = c /\ \A j \in 1..Len(e) - 1 : e[j] = w[j]
    BY <1>4, <2>1, <2>2
  <2>4. Len(escalated) = CardsKept => Len(e) = CardsKept
    <3>1. Len(w) = Len(escalated) \/ Len(w) = Len(escalated) - 1
      BY <1>3
    <3>2. /\ Len(w) \in Nat /\ Len(e) = Len(w) + 1
          /\ Len(w) + 1 <= CardsKept /\ Len(escalated) <= CardsKept
          /\ CardsKept \in Nat /\ Len(escalated) \in Nat
      BY <1>2, <1>4, <1>6, <2>2
    <3>3. ASSUME Len(escalated) = CardsKept  PROVE Len(w) = CardsKept - 1
      BY <3>1, <3>2, <3>3
    <3> QED
      BY <3>2, <3>3
  <2>5. /\ g \in [1..Len(e) - 1 -> 1..Len(escalated)]
        /\ \A j \in 1..Len(e) - 1 : e[j] = escalated[g[j]] /\ e[j].hash # h
        /\ \A i, j \in 1..Len(e) - 1 : i < j => g[i] < g[j]
        /\ \A i \in 1..Len(escalated) :
             escalated[i].hash = h \/ \E j \in 1..Len(e) - 1 : g[j] = i
    BY <1>3, <2>2, <2>3
  <2> QED
    BY <2>2, <2>3, <2>4, <2>5 DEF Retains
<1> QED
  BY <1>5, <1>6

\* What the invariant says of the cards, entry by entry.
LEMMA CardsAre ==
  ASSUME CardsOK, RingOK
  PROVE  /\ Listed /\ Len(escalated) \in Nat /\ DOMAIN escalated = 1..Len(escalated)
         /\ total \in Nat /\ total <= MaxLines /\ latest \in [Hashes -> 0..MaxLines]
         /\ \A h \in Hashes : latest[h] \in Nat /\ latest[h] <= total
         /\ \A i \in 1..Len(escalated) :
              /\ escalated[i] \in Card /\ escalated[i].hash \in Hashes
              /\ escalated[i].at \in Nat /\ escalated[i].at > 0
              /\ escalated[i].at = latest[escalated[i].hash]
              /\ escalated[i].context = ContextOf(escalated[i].at)
         /\ \A i, j \in 1..Len(escalated) : i < j => escalated[i].at < escalated[j].at
<1>1. /\ escalated \in Seq(Card) /\ Len(escalated) <= CardsKept
      /\ Len(escalated) \in Nat /\ DOMAIN escalated = 1..Len(escalated)
  BY LenProperties DEF CardsOK
<1>2. total \in Nat /\ total <= MaxLines /\ latest \in [Hashes -> 0..MaxLines]
  BY FeedTypes DEF CardsOK, RingOK, RingHolds
<1>3. \A h \in Hashes : latest[h] \in Nat /\ latest[h] <= total
  BY <1>2, FeedTypes DEF CardsOK
<1>4. ASSUME NEW i \in 1..Len(escalated)
      PROVE  /\ escalated[i] \in Card /\ escalated[i].hash \in Hashes
             /\ escalated[i].at \in Nat /\ escalated[i].at > 0
             /\ escalated[i].at = latest[escalated[i].hash]
             /\ escalated[i].context = ContextOf(escalated[i].at)
  <2>1. escalated[i] \in Card
    BY <1>1, ElementOfSeq
  <2>2. escalated[i].hash \in Hashes /\ escalated[i].at \in 1..MaxLines
    BY <2>1 DEF Card
  <2>3. escalated[i].at \in Nat /\ escalated[i].at > 0
    BY <2>2, FeedTypes
  <2>4. escalated[i].at = latest[escalated[i].hash] /\ escalated[i].context = ContextOf(escalated[i].at)
    BY <1>1 DEF CardsOK
  <2> QED
    BY <2>1, <2>2, <2>3, <2>4
<1>5. \A i, j \in 1..Len(escalated) : i < j => escalated[i].at < escalated[j].at
  BY <1>1 DEF CardsOK
<1>6. ASSUME NEW i \in 1..Len(escalated), NEW j \in 1..Len(escalated),
             escalated[i].hash = escalated[j].hash
      PROVE  i = j
  <2>1. escalated[i].at = escalated[j].at /\ escalated[i].at \in Nat
    BY <1>4, <1>6
  <2>2. ~(i < j) /\ ~(j < i)
    <3>1. i < j => escalated[i].at < escalated[j].at
      BY <1>5
    <3>2. j < i => escalated[j].at < escalated[i].at
      BY <1>5
    <3> QED
      BY <2>1, <3>1, <3>2
  <2> QED
    BY <1>1, <2>2
<1> QED
  BY <1>1, <1>2, <1>3, <1>4, <1>5, <1>6 DEF Listed

\* A line that escalates.
LEMMA CardsEscalate ==
  ASSUME CardsOK, RingOK, NEW h \in Hashes, Observe(h, TRUE)
  PROVE  CardsOK'
<1> DEFINE t == total + 1
           c == [hash |-> h, at |-> t, context |-> Preceding(ring', head', filled')]
<1>1. /\ total < MaxLines /\ total' = t
      /\ ring' = [ring EXCEPT ![head] = t]
      /\ head' = (IF Wraps(head + 1) THEN 0 ELSE head + 1)
      /\ filled' = (filled \/ Wraps(head + 1))
      /\ latest' = [latest EXCEPT ![h] = t]
      /\ escalated' = LastN(Append(Without(h), c), CardsKept)
  BY DEF Observe
<1>2. RingHolds(ring', head', filled', t)
  <2>1. RingHolds(ring, head, filled, total)
    BY DEF RingOK
  <2> QED
    BY <1>1, <2>1, RingWritten
<1>3. /\ Listed /\ Len(escalated) \in Nat /\ DOMAIN escalated = 1..Len(escalated)
      /\ total \in Nat /\ total <= MaxLines /\ latest \in [Hashes -> 0..MaxLines]
      /\ \A g \in Hashes : latest[g] \in Nat /\ latest[g] <= total
      /\ \A i \in 1..Len(escalated) :
           /\ escalated[i] \in Card /\ escalated[i].hash \in Hashes
           /\ escalated[i].at \in Nat /\ escalated[i].at > 0
           /\ escalated[i].at = latest[escalated[i].hash]
           /\ escalated[i].context = ContextOf(escalated[i].at)
      /\ \A i, j \in 1..Len(escalated) : i < j => escalated[i].at < escalated[j].at
  BY CardsAre
<1>4. t \in 1..MaxLines /\ t \in Nat /\ t > total /\ t >= 1
  BY <1>1, <1>3, FeedTypes
<1>5. c.hash = h /\ c.at = t /\ c.context = ContextOf(t) /\ c \in Card
  <2>1. Preceding(ring', head', filled') = ContextOf(t)
    BY <1>2, <1>4, PrecedingIs
  <2>2. ContextOf(t) \in Seq(0..MaxLines)
    BY <1>4, ContextType
  <2> QED
    BY <1>4, <2>1, <2>2 DEF Card
<1> HIDE DEF c
<1>6. PICK e, f : e = escalated' /\ Retains(e, f, h, c)
  BY <1>1, <1>3, <1>5, RetainIs
<1>7. /\ e \in Seq(Card) /\ Len(e) \in Nat /\ Len(e) >= 1 /\ Len(e) <= CardsKept /\ e[Len(e)] = c
      /\ DOMAIN e = 1..Len(e)
      /\ \A j \in 1..Len(e) - 1 :
           f[j] \in 1..Len(escalated) /\ e[j] = escalated[f[j]] /\ e[j].hash # h
      /\ \A i, j \in 1..Len(e) - 1 : i < j => f[i] < f[j]
      /\ \A i \in 1..Len(escalated) :
           \/ escalated[i].hash = h
           \/ \E j \in 1..Len(e) - 1 : f[j] = i
           \/ i = 1 /\ Len(e) = CardsKept
      /\ Len(escalated) = CardsKept => Len(e) = CardsKept
  <2>1. e \in Seq(Card) /\ Len(e) \in Nat /\ DOMAIN e = 1..Len(e) /\ Len(e) \in 1..CardsKept
    BY <1>6, LenProperties DEF Retains
  <2>2. Len(e) >= 1 /\ Len(e) <= CardsKept
    BY <2>1, FeedTypes
  <2> QED
    BY <1>6, <2>1, <2>2 DEF Retains
<1>7a. Len(e) \in Nat /\ Len(e) >= 1 /\ Len(e) \in 1..Len(e)
  BY <1>7
<1>7b. \A j \in 1..Len(e) : j # Len(e) => j \in 1..Len(e) - 1
  BY <1>7a
<1>7c. e[Len(e)].at = t /\ e[Len(e)].hash = h /\ e[Len(e)].context = ContextOf(t)
  BY <1>5, <1>7
<1>8. PICK l : l = latest'
  OBVIOUS
<1>9. /\ l \in [Hashes -> 0..MaxLines] /\ l[h] = t
      /\ \A g \in Hashes \ {h} : l[g] = latest[g]
  BY <1>1, <1>3, <1>4, <1>8, FeedTypes
<1> HIDE DEF t
<1>10. \A g \in Hashes : l[g] <= t
  BY <1>3, <1>4, <1>9
<1>11. ASSUME NEW g \in Hashes, NEW k \in Hashes, l[g] = l[k], l[g] > 0  PROVE g = k
  <2>1. CASE g # h /\ k # h
    BY <1>9, <1>11, <2>1 DEF CardsOK
  <2>2. CASE g = h \/ k = h
    BY <1>3, <1>4, <1>9, <1>11, <2>2
  <2> QED
    BY <2>1, <2>2
<1>12. ASSUME NEW i \in 1..Len(e)
       PROVE  /\ e[i].at = l[e[i].hash] /\ e[i].context = ContextOf(e[i].at)
              /\ e[i].at \in Nat
  <2>1. CASE i = Len(e)
    BY <1>4, <1>7c, <1>9, <2>1
  <2>2. CASE i # Len(e)
    <3>1. i \in 1..Len(e) - 1
      BY <1>7b, <2>2
    <3>2. PICK k \in 1..Len(escalated) : e[i] = escalated[k] /\ e[i].hash # h
      BY <1>7, <3>1
    <3>3. /\ escalated[k].hash \in Hashes /\ escalated[k].at \in Nat
          /\ escalated[k].at = latest[escalated[k].hash]
          /\ escalated[k].context = ContextOf(escalated[k].at)
      BY <1>3
    <3> QED
      BY <1>9, <3>2, <3>3
  <2> QED
    BY <2>1, <2>2
<1>13. ASSUME NEW i \in 1..Len(e), i # Len(e)  PROVE e[i].at <= total /\ e[i].at < t
  <2>1. i \in 1..Len(e) - 1
    BY <1>7b, <1>13
  <2>2. PICK k \in 1..Len(escalated) : e[i] = escalated[k]
    BY <1>7, <2>1
  <2>3. escalated[k].at \in Nat /\ escalated[k].at <= total
    BY <1>3
  <2> QED
    BY <1>3, <1>4, <2>2, <2>3
<1>14. ASSUME NEW i \in 1..Len(e), NEW j \in 1..Len(e), i < j  PROVE e[i].at < e[j].at
  <2>1. CASE j = Len(e)
    <3>1. e[j].at = t /\ i # Len(e)
      BY <1>7a, <1>7c, <1>14, <2>1
    <3> QED
      BY <1>13, <3>1
  <2>2. CASE j # Len(e)
    <3>1. i \in 1..Len(e) - 1 /\ j \in 1..Len(e) - 1
      BY <1>7a, <1>14, <2>2
    <3>2. /\ f[i] \in 1..Len(escalated) /\ f[j] \in 1..Len(escalated) /\ f[i] < f[j]
          /\ e[i] = escalated[f[i]] /\ e[j] = escalated[f[j]]
      BY <1>7, <1>14, <3>1
    <3> QED
      BY <1>3, <3>2
  <2> QED
    BY <2>1, <2>2
<1>15. ASSUME NEW g \in Hashes, l[g] > 0, \A i \in 1..Len(e) : e[i].hash # g
       PROVE  Len(e) = CardsKept /\ \A i \in 1..Len(e) : l[g] < e[i].at
  <2>1. g # h
    <3>1. e[Len(e)].hash = h /\ Len(e) \in 1..Len(e)
      BY <1>5, <1>7
    <3> QED
      BY <1>15, <3>1
  <2>2. l[g] = latest[g] /\ latest[g] > 0 /\ latest[g] \in Nat /\ latest[g] < t
    BY <1>3, <1>4, <1>9, <1>15, <2>1
  <2>3. e[Len(e)].at = t
    BY <1>7c
  <2>4. CASE \E i \in 1..Len(escalated) : escalated[i].hash = g
    <3>1. PICK i \in 1..Len(escalated) : escalated[i].hash = g
      BY <2>4
    <3>2. ~ \E j \in 1..Len(e) - 1 : f[j] = i
      <4> SUFFICES ASSUME NEW j \in 1..Len(e) - 1, f[j] = i  PROVE FALSE
        OBVIOUS
      <4>1. e[j].hash = g /\ j \in 1..Len(e)
        BY <1>7, <3>1
      <4> QED
        BY <1>15, <4>1
    <3>3. i = 1 /\ Len(e) = CardsKept
      BY <1>7, <2>1, <3>1, <3>2
    <3>4. latest[g] = escalated[1].at
      BY <1>3, <3>1, <3>3
    <3>5. ASSUME NEW j \in 1..Len(e)  PROVE l[g] < e[j].at
      <4>1. CASE j = Len(e)
        BY <1>4, <2>2, <2>3, <4>1
      <4>2. CASE j # Len(e)
        <5>1. j \in 1..Len(e) - 1
          BY <1>7b, <4>2
        <5>2. f[j] \in 1..Len(escalated) /\ f[j] # 1 /\ e[j] = escalated[f[j]]
          BY <1>7, <3>2, <3>3, <5>1
        <5>3. 1 \in 1..Len(escalated) /\ 1 < f[j]
          BY <3>3, <5>2
        <5>4. escalated[1].at < escalated[f[j]].at
          BY <1>3, <5>2, <5>3
        <5> QED
          BY <2>2, <3>4, <5>2, <5>4
      <4> QED
        BY <4>1, <4>2
    <3> QED
      BY <3>3, <3>5
  <2>5. CASE ~ \E i \in 1..Len(escalated) : escalated[i].hash = g
    <3>1. ~HasCard(g)
      BY <1>3, <2>5 DEF HasCard
    <3>2. Len(escalated) = CardsKept /\ \A i \in 1..Len(escalated) : latest[g] < escalated[i].at
      BY <1>3, <2>2, <3>1 DEF CardsOK
    <3>3. ASSUME NEW j \in 1..Len(e)  PROVE l[g] < e[j].at
      <4>1. CASE j = Len(e)
        BY <1>4, <2>2, <2>3, <4>1
      <4>2. CASE j # Len(e)
        <5>1. j \in 1..Len(e) - 1
          BY <1>7b, <4>2
        <5> QED
          BY <1>7, <2>2, <3>2, <5>1
      <4> QED
        BY <4>1, <4>2
    <3> QED
      BY <1>7, <3>2, <3>3
  <2> QED
    BY <2>4, <2>5
<1>16. /\ e \in Seq(Card) /\ Len(e) <= CardsKept
       /\ l \in [Hashes -> 0..MaxLines]
       /\ \A g \in Hashes : l[g] <= t
       /\ \A g, k \in Hashes : l[g] = l[k] /\ l[g] > 0 => g = k
       /\ \A i \in DOMAIN e : e[i].at = l[e[i].hash] /\ e[i].context = ContextOf(e[i].at)
       /\ \A i, j \in DOMAIN e : i < j => e[i].at < e[j].at
       /\ \A g \in Hashes : l[g] > 0 /\ ~(\E i \in DOMAIN e : e[i].hash = g) =>
            /\ Len(e) = CardsKept
            /\ \A i \in DOMAIN e : l[g] < e[i].at
  BY <1>7, <1>9, <1>10, <1>11, <1>12, <1>14, <1>15
<1> QED
  BY <1>1, <1>6, <1>8, <1>16 DEF CardsOK, HasCard, t

-----------------------------------------------------------------------------
(***************************************************************************)
(* Which templates have a card: those with fewer than CardsKept newer.     *)
(***************************************************************************)
Newer(h) == {g \in Hashes : latest[g] > 0 /\ latest[g] > latest[h]}

LEMMA FlaggedIsFinite ==
  ASSUME CardsOK, RingOK
  PROVE  IsFiniteSet({h \in Hashes : latest[h] > 0})
<1> DEFINE F == {h \in Hashes : latest[h] > 0}
           f == [h \in F |-> latest[h]]
<1>1. /\ total \in Nat /\ \A h \in Hashes : latest[h] \in Nat /\ latest[h] <= total
      /\ \A g, h \in Hashes : latest[g] = latest[h] /\ latest[g] > 0 => g = h
  BY CardsAre DEF CardsOK
<1>2. f \in Injection(F, 1..total)
  <2>1. f \in [F -> 1..total] /\ \A g, h \in F : f[g] = f[h] => g = h
    BY <1>1
  <2> HIDE DEF f, F
  <2> QED
    BY <2>1 DEF Injection, IsInjective
<1>3. IsFiniteSet(1..total)
  BY <1>1, FS_Interval
<1> HIDE DEF f
<1> QED
  BY <1>2, <1>3, FS_Injection

\* The cards above a card are all the newer templates.
LEMMA CardIsNew ==
  ASSUME CardsOK, RingOK, NEW i \in 1..Len(escalated)
  PROVE  Cardinality(Newer(escalated[i].hash)) < CardsKept
<1> DEFINE n == Len(escalated)
           N == Newer(escalated[i].hash)
           f == [j \in i + 1..n |-> escalated[j].hash]
<1>1. /\ Listed /\ n \in Nat /\ DOMAIN escalated = 1..n
      /\ \A h \in Hashes : latest[h] \in Nat
      /\ \A j \in 1..n : /\ escalated[j].hash \in Hashes
                         /\ escalated[j].at \in Nat /\ escalated[j].at > 0
                         /\ escalated[j].at = latest[escalated[j].hash]
      /\ \A j, k \in 1..n : j < k => escalated[j].at < escalated[k].at
      /\ n <= CardsKept
  BY CardsAre DEF Listed
<1>2. \A j \in i + 1..n : j \in 1..n /\ escalated[j].hash \in N
  <2> SUFFICES ASSUME NEW j \in i + 1..n  PROVE j \in 1..n /\ escalated[j].hash \in N
    OBVIOUS
  <2>1. j \in 1..n /\ i < j /\ i \in 1..n
    BY <1>1
  <2>2. escalated[i].at < escalated[j].at
    BY <1>1, <2>1
  <2> QED
    BY <1>1, <2>1, <2>2 DEF Newer
<1>3. \A g \in N : \E j \in i + 1..n : escalated[j].hash = g
  <2> SUFFICES ASSUME NEW g \in N  PROVE \E j \in i + 1..n : escalated[j].hash = g
    OBVIOUS
  <2>1. g \in Hashes /\ latest[g] > 0 /\ latest[g] > escalated[i].at
    BY <1>1 DEF Newer
  <2>2. HasCard(g)
    <3> SUFFICES ASSUME ~HasCard(g) PROVE FALSE
      OBVIOUS
    <3>1. latest[g] < escalated[i].at
      BY <1>1, <2>1 DEF CardsOK
    <3> QED
      BY <1>1, <2>1, <3>1
  <2>3. PICK j \in 1..n : escalated[j].hash = g
    BY <1>1, <2>2 DEF HasCard
  <2>4. escalated[i].at < escalated[j].at
    BY <1>1, <2>1, <2>3
  <2>5. ~(j <= i)
    <3>1. j < i => escalated[j].at < escalated[i].at
      BY <1>1
    <3> QED
      BY <1>1, <2>4, <3>1
  <2>6. j \in i + 1..n
    BY <1>1, <2>5
  <2> QED
    BY <2>3, <2>6
<1> HIDE DEF N
<1>4. f \in Surjection(i + 1..n, N)
  <2>1. f \in [i + 1..n -> N] /\ \A g \in N : \E j \in i + 1..n : f[j] = g
    BY <1>2, <1>3
  <2> HIDE DEF f
  <2> QED
    BY <2>1 DEF Surjection
<1> HIDE DEF f
<1>5. IsFiniteSet(i + 1..n) /\ Cardinality(i + 1..n) = n - i
  BY <1>1, FS_Interval
<1>6. IsFiniteSet(N) /\ Cardinality(N) <= n - i
  <2>1. IsFiniteSet(N) /\ Cardinality(N) <= Cardinality(i + 1..n)
    BY <1>4, <1>5, FS_Surjection
  <2> QED
    BY <1>5, <2>1
<1>7. Cardinality(N) \in Nat
  BY <1>6, FS_CardinalityType
<1> QED
  BY <1>1, <1>6, <1>7, FeedTypes DEF N

\* A template that escalated and has no card has CardsKept newer ones.
LEMMA NoCardIsOld ==
  ASSUME CardsOK, RingOK, NEW h \in Hashes, latest[h] > 0, ~HasCard(h)
  PROVE  ~(Cardinality(Newer(h)) < CardsKept)
<1> DEFINE n == Len(escalated)
           N == Newer(h)
           f == [j \in 1..n |-> escalated[j].hash]
<1>1. /\ Listed /\ n \in Nat /\ DOMAIN escalated = 1..n
      /\ \A g \in Hashes : latest[g] \in Nat
      /\ \A j \in 1..n : /\ escalated[j].hash \in Hashes
                         /\ escalated[j].at \in Nat /\ escalated[j].at > 0
                         /\ escalated[j].at = latest[escalated[j].hash]
      /\ \A j, k \in 1..n : escalated[j].hash = escalated[k].hash => j = k
  <2>1. Listed /\ DOMAIN escalated = 1..n
    BY CardsAre
  <2> QED
    BY <2>1, CardsAre DEF Listed
<1>2. n = CardsKept /\ \A j \in 1..n : latest[h] < escalated[j].at
  BY <1>1 DEF CardsOK
<1>3. \A j \in 1..n : escalated[j].hash \in N
  BY <1>1, <1>2 DEF Newer
<1>4. IsFiniteSet(N)
  <2>1. N \in SUBSET {g \in Hashes : latest[g] > 0}
    BY DEF Newer
  <2> HIDE DEF N
  <2> QED
    BY <2>1, FlaggedIsFinite, FS_Subset
<1> HIDE DEF N
<1>5. f \in Injection(1..n, N)
  <2>1. f \in [1..n -> N] /\ \A j, k \in 1..n : f[j] = f[k] => j = k
    BY <1>1, <1>3
  <2> HIDE DEF f
  <2> QED
    BY <2>1 DEF Injection, IsInjective
<1> HIDE DEF f
<1>6. Cardinality(1..n) <= Cardinality(N)
  BY <1>4, <1>5, FS_Injection
<1>7. Cardinality(1..n) = n
  <2>1. n \in Nat
    BY <1>1
  <2> HIDE DEF n
  <2>2. Cardinality(1..n) = IF 1 > n THEN 0 ELSE n - 1 + 1
    BY <2>1, FS_Interval
  <2> QED
    BY <2>1, <2>2
<1>8. Cardinality(N) \in Nat
  BY <1>4, FS_CardinalityType
<1> QED
  BY <1>1, <1>2, <1>6, <1>7, <1>8 DEF N

LEMMA CardsAreNewest == CardsOK /\ RingOK => CardsAreTheNewest
<1> SUFFICES ASSUME CardsOK, RingOK PROVE CardsAreTheNewest
  OBVIOUS
<1> DEFINE n == Len(escalated)
           flagged == {h \in Hashes : latest[h] > 0}
           newest == {h \in flagged : Cardinality({g \in flagged : latest[g] > latest[h]}) < CardsKept}
           f == [j \in 1..n |-> escalated[j].hash]
<1>1. /\ escalated \in Seq(Card) /\ n \in Nat /\ DOMAIN escalated = 1..n
      /\ \A h \in Hashes : latest[h] \in Nat
      /\ \A j \in 1..n : /\ escalated[j].hash \in Hashes
                         /\ escalated[j].at \in Nat /\ escalated[j].at > 0
                         /\ escalated[j].at = latest[escalated[j].hash]
      /\ \A j, k \in 1..n : escalated[j].hash = escalated[k].hash => j = k
      /\ \A j, k \in 1..n : j < k => escalated[j].at < escalated[k].at
  <2>1. Listed /\ DOMAIN escalated = 1..n
    BY CardsAre
  <2> QED
    BY <2>1, CardsAre DEF Listed
<1>2. \A h \in Hashes : {g \in flagged : latest[g] > latest[h]} = Newer(h)
  BY DEF Newer
<1>3. \A h \in Hashes : h \in newest <=> latest[h] > 0 /\ Cardinality(Newer(h)) < CardsKept
  BY <1>2
<1>4. \A h \in newest : h \in Hashes
  OBVIOUS
<1> HIDE DEF newest
<1>5. \A j \in 1..n : escalated[j].hash \in newest
  BY <1>1, <1>3, CardIsNew
<1>6. \A h \in newest : \E j \in 1..n : escalated[j].hash = h
  <2> SUFFICES ASSUME NEW h \in newest  PROVE \E j \in 1..n : escalated[j].hash = h
    OBVIOUS
  <2>1. h \in Hashes /\ latest[h] > 0 /\ Cardinality(Newer(h)) < CardsKept
    BY <1>3, <1>4
  <2>2. HasCard(h)
    BY <2>1, NoCardIsOld
  <2> QED
    BY <1>1, <2>2 DEF HasCard
<1>7. n = Cardinality(newest)
  <2>1. f \in [1..n -> newest] /\ \A h \in newest : \E j \in 1..n : f[j] = h
    BY <1>5, <1>6
  <2>2. \A j, k \in 1..n : f[j] = f[k] => j = k
    BY <1>1
  <2> HIDE DEF f
  <2>3. f \in Surjection(1..n, newest) /\ f \in Injection(1..n, newest)
    BY <2>1, <2>2 DEF Surjection, Injection, IsInjective
  <2>4. IsFiniteSet(1..n) /\ Cardinality(1..n) = n
    BY <1>1, FS_Interval
  <2>5. Cardinality(newest) = Cardinality(1..n)
    BY <2>3, <2>4, FS_Surjection
  <2> QED
    BY <2>4, <2>5
<1>8. {[hash |-> e.hash, at |-> e.at] : e \in ToSet(escalated)}
        = {[hash |-> h, at |-> latest[h]] : h \in newest}
  <2>1. ToSet(escalated) = {escalated[j] : j \in 1..n}
    BY <1>1 DEF ToSet
  <2> DEFINE C == {[hash |-> escalated[j].hash, at |-> escalated[j].at] : j \in 1..n}
  <2>2. {[hash |-> e.hash, at |-> e.at] : e \in ToSet(escalated)} = C
    BY <2>1, Zenon
  <2>3. ASSUME NEW x \in C  PROVE \E h \in newest : x = [hash |-> h, at |-> latest[h]]
    <3>1. PICK j \in 1..n : x = [hash |-> escalated[j].hash, at |-> escalated[j].at]
      OBVIOUS
    <3> QED
      BY <1>1, <1>5, <3>1
  <2>4. ASSUME NEW h \in newest  PROVE [hash |-> h, at |-> latest[h]] \in C
    <3>1. PICK j \in 1..n : escalated[j].hash = h
      BY <1>6
    <3>2. [hash |-> h, at |-> latest[h]] = [hash |-> escalated[j].hash, at |-> escalated[j].at]
      BY <1>1, <3>1
    <3> QED
      BY <3>2
  <2> HIDE DEF C
  <2> QED
    BY <2>2, <2>3, <2>4
<1>9. \A j, k \in DOMAIN escalated : j < k => escalated[j].at < escalated[k].at
  BY <1>1
<1> QED
  BY <1>7, <1>8, <1>9 DEF CardsAreTheNewest, newest

-----------------------------------------------------------------------------
(***************************************************************************)
(* The snapshots: in order, and the last one delivered.                    *)
(***************************************************************************)
LEMMA ViewTypes ==
  ASSUME NEW v \in View
  PROVE  v.lines \in Nat /\ v.answers \in Nat /\ AtMost(v, v)
BY FeedTypes DEF View, AtMost

LEMMA AtMostTrans ==
  ASSUME NEW u \in View, NEW v \in View, NEW w \in View, AtMost(u, v), AtMost(v, w)
  PROVE  AtMost(u, w)
<1>1. /\ u.lines \in Nat /\ u.answers \in Nat /\ v.lines \in Nat /\ v.answers \in Nat
      /\ w.lines \in Nat /\ w.answers \in Nat
  BY ViewTypes
<1> QED
  BY <1>1 DEF AtMost

LEMMA SlotHead ==
  ASSUME NEW s, Slot(s)
  PROVE  /\ s # <<>> => s[1] \in View
         /\ Len(s) \in Nat /\ Len(s) <= 1 /\ ToSet(s) \subseteq View
<1>1. CASE s = <<>>
  <2>1. Len(s) = 0 /\ \A i \in DOMAIN s : FALSE
    BY <1>1
  <2> QED
    BY <1>1, <2>1 DEF ToSet
<1>2. CASE \E v \in View : s = <<v>>
  <2>1. PICK v \in View : s = <<v>>
    BY <1>2
  <2>2. Len(s) = 1 /\ s[1] = v /\ DOMAIN s = {1}
    BY <2>1
  <2>3. ToSet(s) = {v}
    BY <2>2 DEF ToSet
  <2> QED
    BY <2>2, <2>3
<1> QED
  BY <1>1, <1>2 DEF Slot

\* Everything that has been built is older than what would be built now.
LEMMA SnapsTypes ==
  ASSUME SnapsOK, RingOK
  PROVE  /\ Snapshot \in View /\ got \in View /\ shown \in View
         /\ snaps # <<>> => snaps[1] \in View
         /\ reader # <<>> => reader[1] \in View
         /\ total \in Nat /\ answers \in Nat
<1>1. total \in 0..MaxLines /\ answers \in 0..MaxAnswers
  BY DEF RingOK, RingHolds, SnapsOK
<1>2. Snapshot \in View
  BY <1>1 DEF Snapshot, View
<1> QED
  BY <1>1, <1>2, SlotHead, FeedTypes DEF SnapsOK

\* A line or an answer: what there is to tell grows, and what was told stays.
LEMMA SnapsGrow ==
  ASSUME SnapsOK, RingOK, run = "loop",
         total' \in 0..MaxLines, answers' \in 0..MaxAnswers, total' >= total, answers' >= answers,
         dirty' = TRUE,
         UNCHANGED <<run, quit, snaps, snapsOpen, tuiVars>>
  PROVE  SnapsOK'
<1>1. Snapshot' \in View /\ AtMost(Snapshot, Snapshot')
  BY SnapsTypes DEF Snapshot, View, AtMost
<1>2. \A v \in View : AtMost(v, Snapshot) => AtMost(v, Snapshot')
  BY <1>1, SnapsTypes, AtMostTrans
<1>3. InOrder'
  BY <1>2, SnapsTypes DEF SnapsOK, InOrder, tuiVars
<1> QED
  BY <1>3 DEF SnapsOK, tuiVars

LEMMA SnapsTick ==
  ASSUME SnapsOK, RingOK, Tick
  PROVE  SnapsOK'
<1>1. /\ run = "loop" /\ Snapshot' = Snapshot /\ dirty' = FALSE
      /\ snaps' = IF snaps = <<>> THEN <<Snapshot>> ELSE snaps
      /\ UNCHANGED <<answers, run, quit, snapsOpen, reader, got, shown, paused, ended>>
  BY DEF Tick, TrySend, Snapshot, ringVars, tuiVars
<1>2. Snapshot \in View /\ AtMost(Snapshot, Snapshot)
  BY SnapsTypes, ViewTypes
<1>3. CASE snaps = <<>>
  <2>1. snaps' = <<Snapshot>> /\ snaps'[1] = Snapshot /\ snaps' # <<>>
    BY <1>1, <1>3
  <2>2. InOrder'
    BY <1>1, <1>2, <2>1 DEF SnapsOK, InOrder
  <2> QED
    BY <1>1, <1>2, <2>1, <2>2 DEF SnapsOK, Slot
<1>4. CASE snaps # <<>>
  <2>1. snaps' = snaps
    BY <1>1, <1>4
  <2>2. InOrder'
    BY <1>1, <2>1 DEF SnapsOK, InOrder
  <2> QED
    BY <1>1, <2>1, <2>2 DEF SnapsOK
<1> QED
  BY <1>3, <1>4

LEMMA SnapsFinal ==
  ASSUME SnapsOK, RingOK, FinalSend
  PROVE  SnapsOK'
<1>1. /\ run = "final" /\ run' = "done" /\ Snapshot' = Snapshot /\ dirty' = FALSE
      /\ snaps = <<>> /\ snaps' = <<Snapshot>> /\ snapsOpen' = FALSE
      /\ UNCHANGED <<answers, quit, reader, got, shown, paused, ended>>
  BY DEF FinalSend, Deliver, StillOpen, Snapshot, ringVars, tuiVars
<1>2. Snapshot \in View /\ AtMost(Snapshot, Snapshot)
  BY SnapsTypes, ViewTypes
<1>3. snaps'[1] = Snapshot /\ snaps' # <<>>
  BY <1>1
<1>4. InOrder'
  BY <1>1, <1>2, <1>3 DEF SnapsOK, InOrder
<1>5. Newest' = Snapshot' /\ ~ended'
  BY <1>1, <1>3 DEF SnapsOK, Newest
<1> QED
  BY <1>1, <1>2, <1>4, <1>5 DEF SnapsOK, Slot

LEMMA SnapsReceive ==
  ASSUME SnapsOK, RingOK, Receive
  PROVE  SnapsOK'
<1>1. /\ reader = <<>> /\ snaps # <<>> /\ reader' = snaps /\ snaps' = <<>>
      /\ Snapshot' = Snapshot
      /\ UNCHANGED <<answers, dirty, run, quit, snapsOpen, got, shown, paused, ended>>
  BY DEF Receive, Snapshot, ringVars
<1>2. InOrder'
  BY <1>1 DEF SnapsOK, InOrder
<1>3. Newest' = Newest
  BY <1>1 DEF Newest
<1> QED
  BY <1>1, <1>2, <1>3 DEF SnapsOK, Slot

LEMMA SnapsApply ==
  ASSUME SnapsOK, RingOK, Apply
  PROVE  SnapsOK' /\ AtMost(got, got') /\ AtMost(shown, shown')
<1>1. /\ reader # <<>> /\ reader' = <<>> /\ got' = reader[1]
      /\ shown' = (IF paused THEN shown ELSE reader[1])
      /\ Snapshot' = Snapshot
      /\ UNCHANGED <<answers, dirty, run, quit, snaps, snapsOpen, paused, ended>>
  BY DEF Apply, Snapshot, ringVars
<1>2. /\ got \in View /\ shown \in View /\ reader[1] \in View /\ Snapshot \in View
      /\ snaps # <<>> => snaps[1] \in View
  BY <1>1, SnapsTypes
<1>3. AtMost(shown, got) /\ AtMost(got, reader[1])
  BY <1>1 DEF SnapsOK, InOrder
<1>4. AtMost(shown, reader[1]) /\ AtMost(shown, shown) /\ AtMost(reader[1], reader[1])
  BY <1>2, <1>3, AtMostTrans, ViewTypes
<1>5. AtMost(got, got') /\ AtMost(shown, shown') /\ AtMost(shown', got') /\ shown' \in View
  BY <1>1, <1>2, <1>3, <1>4
<1>6. InOrder'
  BY <1>1, <1>2, <1>5 DEF SnapsOK, InOrder
<1>7. Newest' = Newest
  BY <1>1 DEF Newest
<1> QED
  BY <1>1, <1>2, <1>5, <1>6, <1>7 DEF SnapsOK, Slot

LEMMA SnapsStep == FeedInv /\ [FeedNext]_feedVars => SnapsOK'
<1> SUFFICES ASSUME FeedInv, [FeedNext]_feedVars  PROVE SnapsOK'
  OBVIOUS
<1>0. SnapsOK /\ RingOK
  BY DEF FeedInv
<1>1. ASSUME NEW h \in Hashes, NEW e \in BOOLEAN, Observe(h, e)  PROVE SnapsOK'
  <2>1. /\ run = "loop" /\ total < MaxLines /\ total' = total + 1 /\ answers' = answers /\ dirty' = TRUE
        /\ UNCHANGED <<run, quit, snaps, snapsOpen, tuiVars>>
    BY <1>1 DEF Observe
  <2>2. total \in Nat /\ answers \in Nat /\ answers \in 0..MaxAnswers
    BY <1>0, SnapsTypes DEF SnapsOK
  <2>3. total' \in 0..MaxLines /\ total' >= total /\ answers' \in 0..MaxAnswers /\ answers' >= answers
    BY <2>1, <2>2, FeedTypes
  <2> QED
    BY <1>0, <2>1, <2>3, SnapsGrow
<1>2. CASE AttachAnswer
  <2>1. /\ run = "loop" /\ answers < MaxAnswers /\ answers' = answers + 1 /\ total' = total /\ dirty' = TRUE
        /\ UNCHANGED <<run, quit, snaps, snapsOpen, tuiVars>>
    BY <1>2 DEF AttachAnswer, ringVars
  <2>2. total \in Nat /\ answers \in Nat /\ total \in 0..MaxLines
    BY <1>0, SnapsTypes DEF RingOK, RingHolds
  <2>3. total' \in 0..MaxLines /\ total' >= total /\ answers' \in 0..MaxAnswers /\ answers' >= answers
    BY <2>1, <2>2, FeedTypes
  <2> QED
    BY <1>0, <2>1, <2>3, SnapsGrow
<1>3. CASE Tick
  BY <1>0, <1>3, SnapsTick
<1>4. CASE InputsEnd
  <2>1. /\ run = "loop" /\ run' = "final" /\ Snapshot' = Snapshot
        /\ UNCHANGED <<answers, dirty, quit, snaps, snapsOpen, reader, got, shown, paused, ended>>
    BY <1>4 DEF InputsEnd, Snapshot, ringVars, tuiVars
  <2>2. InOrder'
    BY <1>0, <2>1 DEF SnapsOK, InOrder
  <2> QED
    BY <1>0, <2>1, <2>2 DEF SnapsOK
<1>5. CASE FinalSend
  BY <1>0, <1>5, SnapsFinal
<1>6. CASE Quit
  <2>1. /\ quit' = TRUE /\ Snapshot' = Snapshot
        /\ UNCHANGED <<answers, dirty, run, snaps, snapsOpen, reader, got, shown, paused, ended>>
    BY <1>6 DEF Quit, Snapshot, ringVars, tuiVars
  <2>2. InOrder'
    BY <1>0, <2>1 DEF SnapsOK, InOrder
  <2> QED
    BY <1>0, <2>1, <2>2 DEF SnapsOK
<1>7. CASE Return
  <2>1. /\ run # "done" /\ quit /\ run' = "done" /\ snapsOpen' = FALSE /\ Snapshot' = Snapshot
        /\ UNCHANGED <<answers, dirty, quit, snaps, reader, got, shown, paused, ended>>
    BY <1>7 DEF Return, Snapshot, ringVars, tuiVars
  <2>2. InOrder'
    BY <1>0, <2>1 DEF SnapsOK, InOrder
  <2> QED
    BY <1>0, <2>1, <2>2 DEF SnapsOK
<1>8. CASE Receive
  BY <1>0, <1>8, SnapsReceive
<1>9. CASE Apply
  BY <1>0, <1>9, SnapsApply
<1>10. CASE SeeEnd
  <2>1. /\ reader = <<>> /\ snaps = <<>> /\ ~snapsOpen /\ ended' = TRUE
        /\ Snapshot' = Snapshot /\ Newest' = Newest
        /\ UNCHANGED <<answers, dirty, run, quit, snaps, snapsOpen, reader, got, shown, paused>>
    BY <1>10 DEF SeeEnd, Snapshot, Newest, ringVars
  <2>2. InOrder'
    BY <1>0, <2>1 DEF SnapsOK, InOrder
  <2> QED
    BY <1>0, <2>1, <2>2 DEF SnapsOK
<1>11. CASE TogglePause
  <2>1. /\ paused' = ~paused /\ Snapshot' = Snapshot /\ Newest' = Newest
        /\ UNCHANGED <<answers, dirty, run, quit, snaps, snapsOpen, reader, got, shown, ended>>
    BY <1>11 DEF TogglePause, Snapshot, Newest, ringVars
  <2>2. InOrder'
    BY <1>0, <2>1 DEF SnapsOK, InOrder
  <2> QED
    BY <1>0, <2>1, <2>2 DEF SnapsOK
<1>12. CASE UNCHANGED feedVars
  BY <1>0, <1>12
     DEF SnapsOK, InOrder, Newest, Snapshot, feedVars, ringVars, tuiVars
<1> QED
  BY <1>1, <1>2, <1>3, <1>4, <1>5, <1>6, <1>7, <1>8, <1>9, <1>10, <1>11, <1>12 DEF FeedNext

-----------------------------------------------------------------------------
\* Only a line moves the ring and the cards.
LEMMA RingStep ==
  ASSUME [FeedNext]_feedVars
  PROVE  \/ \E h \in Hashes, e \in BOOLEAN : Observe(h, e)
         \/ UNCHANGED ringVars
BY DEF FeedNext, feedVars, AttachAnswer, Tick, InputsEnd, FinalSend, Quit, Return, Receive,
       Apply, SeeEnd, TogglePause

LEMMA RingOKStep == FeedInv /\ [FeedNext]_feedVars => RingOK'
<1> SUFFICES ASSUME FeedInv, [FeedNext]_feedVars  PROVE RingOK'
  OBVIOUS
<1>1. RingHolds(ring, head, filled, total)
  BY DEF FeedInv, RingOK
<1>2. ASSUME NEW h \in Hashes, NEW e \in BOOLEAN, Observe(h, e)  PROVE RingOK'
  <2>1. /\ total < MaxLines /\ total' = total + 1
        /\ ring' = [ring EXCEPT ![head] = total + 1]
        /\ head' = (IF Wraps(head + 1) THEN 0 ELSE head + 1)
        /\ filled' = (filled \/ Wraps(head + 1))
    BY <1>2 DEF Observe
  <2>2. RingHolds(ring', head', filled', total')
    BY <1>1, <2>1, RingWritten
  <2> QED
    BY <2>2 DEF RingOK
<1>3. CASE UNCHANGED ringVars
  BY <1>1, <1>3 DEF RingOK, RingHolds, ringVars
<1> QED
  BY <1>2, <1>3, RingStep

LEMMA CardsOKStep == FeedInv /\ [FeedNext]_feedVars => CardsOK'
<1> SUFFICES ASSUME FeedInv, [FeedNext]_feedVars  PROVE CardsOK'
  OBVIOUS
<1>1. CardsOK /\ RingOK
  BY DEF FeedInv
<1>2. ASSUME NEW h \in Hashes, NEW e \in BOOLEAN, Observe(h, e)  PROVE CardsOK'
  <2>1. CASE e = TRUE
    BY <1>1, <1>2, <2>1, CardsEscalate
  <2>2. CASE e = FALSE
    <3>1. escalated' = escalated /\ latest' = latest /\ total' = total + 1
      BY <1>2, <2>2 DEF Observe
    <3>2. \A g \in Hashes : latest'[g] <= total'
      BY <1>1, <3>1, CardsAre
    <3> QED
      BY <1>1, <3>1, <3>2 DEF CardsOK, HasCard
  <2> QED
    BY <2>1, <2>2
<1>3. CASE UNCHANGED ringVars
  BY <1>1, <1>3 DEF CardsOK, HasCard, ringVars
<1> QED
  BY <1>2, <1>3, RingStep

LEMMA FeedInitInv == FeedInit => FeedInv
<1> SUFFICES ASSUME FeedInit PROVE FeedInv
  OBVIOUS
<1>1. RingOK
  <2>1. /\ 0 \in 0..RingSize - 1 /\ 0 \in 0..MaxLines
        /\ \A i \in 0..RingSize - 1 : ~(i < 0)
    BY FeedTypes
  <2>2. /\ ring \in [0..RingSize - 1 -> 0..MaxLines] /\ head = 0 /\ filled = FALSE /\ total = 0
    BY <2>1 DEF FeedInit
  <2> QED
    BY <2>1, <2>2 DEF RingOK, RingHolds
<1>2. CardsOK
  BY FeedTypes, EmptySeq DEF FeedInit, CardsOK
<1>3. NoLines \in View /\ Snapshot = NoLines
  BY FeedTypes DEF FeedInit, NoLines, View, Snapshot
<1>4. SnapsOK
  <2>1. AtMost(NoLines, NoLines) /\ 0 \in 0..MaxAnswers
    BY <1>3, ViewTypes, FeedTypes
  <2>2. /\ answers = 0 /\ dirty = FALSE /\ run = "loop" /\ quit = FALSE
        /\ snaps = <<>> /\ snapsOpen = TRUE /\ reader = <<>>
        /\ got = NoLines /\ shown = NoLines /\ paused = FALSE /\ ended = FALSE
    BY DEF FeedInit
  <2>3. InOrder
    BY <1>3, <2>1, <2>2 DEF InOrder
  <2>4. run # "done" /\ ~ended
    BY <2>2
  <2> QED
    BY <1>3, <2>1, <2>2, <2>3, <2>4 DEF SnapsOK, Slot
<1> QED
  BY <1>1, <1>2, <1>4 DEF FeedInv

\* The feed's invariant, in every reachable state.
LEMMA FeedInvAlways == FeedSpec => []FeedInv
<1>1. FeedInv /\ [FeedNext]_feedVars => FeedInv'
  BY RingOKStep, CardsOKStep, SnapsStep DEF FeedInv
<1> QED
  BY <1>1, FeedInitInv, PTL DEF FeedSpec

-----------------------------------------------------------------------------
\* Types of the feed: the head stays in the ring, no more cards than the pane holds, and the
\* snapshot channel never holds more than one (collector, trySend).
THEOREM FeedTypesAlwaysHold == FeedSpec => []FeedTypeOK
<1>1. FeedInv => FeedTypeOK
  <2> SUFFICES ASSUME FeedInv PROVE FeedTypeOK
    OBVIOUS
  <2>1. /\ ring \in [0..RingSize - 1 -> 0..MaxLines] /\ head \in 0..RingSize - 1
        /\ filled \in BOOLEAN /\ total \in 0..MaxLines /\ answers \in 0..MaxAnswers
    BY DEF FeedInv, RingOK, RingHolds, SnapsOK
  <2>2. /\ Len(escalated) <= CardsKept
        /\ \A i \in DOMAIN escalated : escalated[i] \in Card
        /\ latest \in [Hashes -> 0..MaxLines]
    BY CardsAre DEF FeedInv, CardsOK
  <2>3. /\ dirty \in BOOLEAN /\ quit \in BOOLEAN /\ snapsOpen \in BOOLEAN
        /\ paused \in BOOLEAN /\ ended \in BOOLEAN
        /\ run \in {"loop", "final", "done"}
    BY DEF FeedInv, SnapsOK
  <2>4. /\ Len(snaps) <= 1 /\ Len(reader) <= 1
        /\ ToSet(snaps) \subseteq View /\ ToSet(reader) \subseteq View
        /\ got \in View /\ shown \in View
    BY SlotHead DEF FeedInv, SnapsOK
  <2>5. ToSet(snaps) \cup ToSet(reader) \cup {got, shown} \subseteq View
    BY <2>4
  <2>6. {dirty, quit, snapsOpen, paused, ended} \subseteq BOOLEAN
    BY <2>3
  <2> QED
    BY <2>1, <2>2, <2>3, <2>4, <2>5, <2>6 DEF FeedTypeOK, Card
<1> QED
  BY <1>1, FeedInvAlways, PTL

\* The stream pane shows exactly the last lines, in order, and a card quotes the lines just
\* before its own, for any size of the ring and any context (lines, preceding).
THEOREM RingAlwaysQuotesTheStream == FeedSpec => []RingQuotesTheStream
<1>1. FeedInv => RingQuotesTheStream
  BY TailIs DEF FeedInv, CardsOK, ContextOf, RingQuotesTheStream, ContextPrecedesTheTrigger
<1> QED
  BY <1>1, FeedInvAlways, PTL

\* The pane holds one card per template, of the templates that escalated last, each of its
\* newest escalation, for any number of cards and of templates (retain, #34).
THEOREM CardsAreAlwaysTheNewest == FeedSpec => []CardsAreTheNewest
<1>1. FeedInv => CardsAreTheNewest
  BY CardsAreNewest DEF FeedInv
<1> QED
  BY <1>1, FeedInvAlways, PTL

\* The safety half of EndReachesTheTui: a TUI that has seen the end has the final state,
\* whatever snapshots were dropped on the way (Run's last send).
THEOREM TheEndIsTheFinalState == FeedSpec => []EndHasTheFinalState
<1>1. FeedInv => EndHasTheFinalState
  BY DEF FeedInv, SnapsOK, Newest, EndHasTheFinalState
<1> QED
  BY <1>1, FeedInvAlways, PTL

\* Neither what Update was handed nor what it shows ever goes back, although snapshots are
\* dropped and the screen is paused at any moment (trySend, waitForSnapshot, Update).
THEOREM TheScreenNeverGoesBack == FeedSpec => ScreenNeverGoesBack
<1>1. FeedInv /\ [FeedNext]_feedVars => [AtMost(got, got') /\ AtMost(shown, shown')]_feedVars
  <2> SUFFICES ASSUME FeedInv, [FeedNext]_feedVars
               PROVE  AtMost(got, got') /\ AtMost(shown, shown')
    OBVIOUS
  <2>0. SnapsOK /\ RingOK
    BY DEF FeedInv
  <2>1. CASE Apply
    BY <2>0, <2>1, SnapsApply
  <2>2. CASE UNCHANGED <<got, shown>>
    BY <2>0, <2>2, SnapsTypes, ViewTypes
  <2>3. Apply \/ UNCHANGED <<got, shown>>
    BY DEF FeedNext, feedVars, Observe, AttachAnswer, Tick, InputsEnd, FinalSend, Quit, Return,
           Receive, SeeEnd, TogglePause, tuiVars
  <2> QED
    BY <2>1, <2>2, <2>3
<1> QED
  BY <1>1, FeedInvAlways, PTL DEF FeedSpec, ScreenNeverGoesBack
=============================================================================
