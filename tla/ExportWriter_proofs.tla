------------------------- MODULE ExportWriter_proofs -------------------------
(***************************************************************************)
(* The export writer, for every set of keys, queue capacity, number of     *)
(* sends and either mode: what the file looks like and how it grows, the   *)
(* one fate of every record, what is counted, what a clean close has done, *)
(* and that all of it implements ExportLedger.                             *)
(***************************************************************************)
EXTENDS ExportWriter, FiniteSetTheorems, SequenceTheorems, TLAPS

(***************************************************************************)
(* Which part of the state each thread of the program can change.          *)
(***************************************************************************)
Senders == Call \/ Enqueue \/ Account

LEMMA SendFrame == [Next]_vars => Senders \/ UNCHANGED sendVars
  BY DEF Next, Senders, Writer, Receive, SeeQuit, Drained, Handle, HandleForget, HandleWait,
     HandleJoin, HandleGivenUp, Joins, Trailer, ReadDropped, TrailerGate, TrailerDone, Disk,
     WriteNothing, WriteSome, WriteDone, WriteFailed, AfterWrite, CloseFile, Close, Await,
     AwaitDrained, AwaitTrailer, TickMoved, GivesUp, TrailerTimeout, TickStalled, GiveUp,
     AwaitFinished, CloseReturns, vars

LEMMA WriterFrame ==
  [Next]_vars => Writer \/ Disk \/ UNCHANGED <<writeVars, doneVars>>
  BY DEF Next, Call, SendToLostRecord, SendSecond, SendFirst, Enqueue, FirstQueued,
     SecondAccepted, EnqueueRefused, Account, FirstRefused, SecondQueued, SecondRefused,
     Abandon, Close, Await, AwaitDrained, AwaitTrailer, TickMoved, GivesUp, TrailerTimeout,
     TickStalled, GiveUp, AwaitFinished, CloseReturns, vars

LEMMA FileFrame == [Next]_vars => Disk \/ UNCHANGED fileVars
  BY DEF Next, Call, SendToLostRecord, SendSecond, SendFirst, Enqueue, FirstQueued,
     SecondAccepted, EnqueueRefused, Account, FirstRefused, SecondQueued, SecondRefused,
     Abandon, Close, Await, AwaitDrained, AwaitTrailer, TickMoved, GivesUp, TrailerTimeout,
     TickStalled, GiveUp, AwaitFinished, CloseReturns, Writer, Receive, SeeQuit, Drained,
     Handle, HandleForget, HandleWait, HandleJoin, HandleGivenUp, Trailer, ReadDropped,
     TrailerGate, TrailerDone, vars

(***************************************************************************)
(* Type correctness, one part of the state at a time.                      *)
(***************************************************************************)
LEMMA InitTypeOK == Init => TypeOK /\ FileShape
<1> SUFFICES ASSUME Init PROVE TypeOK /\ FileShape
  OBVIOUS
<1> USE ExportAssumption DEF Init
<1>1. SendOK
  BY DEF SendOK, Msg, NoMsg, Pair, NoPair, Sides
<1>2. CountOK
  BY DEF CountOK
<1>5. QueueOK
  BY DEF QueueOK
<1>6. FileOK
  <2>1. file \in Seq(Lines \cup {PartialLine}) /\ offset \in Nat
    OBVIOUS
  <2> QED
    BY <2>1 DEF FileOK
<1>7. CloseOK
  BY DEF CloseOK
<1>3. WriterOK
  BY DEF WriterOK, NoMsg, NoLine
<1>4. FileShape
  BY DEF FileShape
<1> QED
  BY <1>1, <1>2, <1>3, <1>4, <1>5, <1>6, <1>7 DEF TypeOK

LEMMA SendStep == SendOK /\ QueueOK /\ WriterOK /\ [Next]_vars => SendOK'
<1> SUFFICES ASSUME SendOK, QueueOK, WriterOK, [Next]_vars PROVE SendOK'
  OBVIOUS
<1> USE DEF SendOK, sendVars, Msg, Pair, NoPair, Sides
<1>1. ASSUME NEW k \in Keys, NEW s \in Sides,
             SendToLostRecord(k, s) \/ SendSecond(k, s) \/ SendFirst(k, s)
      PROVE  SendOK'
  <2>0. sends' = [sends EXCEPT ![k][s] = @ + 1]
    BY ONLY <1>1, Zenon DEF SendToLostRecord, SendSecond, SendFirst
  <2>1. sends' \in [Keys -> [Sides -> Nat]]
    BY <2>0
  <2>2. CASE SendToLostRecord(k, s)
    BY <2>1, <2>2 DEF SendToLostRecord
  <2>3. CASE SendSecond(k, s)
    BY <2>1, <2>3 DEF SendSecond
  <2>4. CASE SendFirst(k, s)
    BY <2>1, <2>4 DEF SendFirst
  <2> QED
    BY <1>1, <2>2, <2>3, <2>4
<1>2. CASE FirstQueued
  BY <1>2 DEF FirstQueued, OpenPair
<1>3. CASE SecondAccepted \/ EnqueueRefused \/ SecondQueued \/ SecondRefused
  BY <1>3 DEF SecondAccepted, EnqueueRefused, SecondQueued, SecondRefused
<1>4. CASE FirstRefused
  BY <1>4 DEF FirstRefused, OpenPair
<1>5. CASE Abandon
  BY <1>5 DEF Abandon, News
<1>6. CASE Writer
  <2>1. UNCHANGED sendVars
    BY <1>6 DEF Writer, Receive, SeeQuit, Drained, Handle, HandleForget, HandleWait,
       HandleJoin, HandleGivenUp, Trailer, ReadDropped, TrailerGate, TrailerDone
  <2>2. CASE Handle
    <3>1. abandoned' \in [Keys -> Nat]
      BY <2>2 DEF Handle, HandleForget, HandleWait, HandleJoin, HandleGivenUp, Joins,
         ClearForsaken
    <3> QED
      BY <2>1, <3>1
  <2>3. CASE ~Handle
    BY <1>6, <2>1, <2>3 DEF Writer, Receive, SeeQuit, Drained, Trailer, ReadDropped,
       TrailerGate, TrailerDone
  <2> QED
    BY <2>2, <2>3
<1>7. CASE Disk \/ Close \/ Await \/ UNCHANGED vars
  BY <1>7 DEF Disk, WriteNothing, WriteSome, WriteDone, WriteFailed, AfterWrite, CloseFile,
     Close, Await, AwaitDrained, AwaitTrailer, TickMoved, GivesUp, TrailerTimeout,
     TickStalled, GiveUp, AwaitFinished, CloseReturns, vars
<1> QED
  BY <1>1, <1>2, <1>3, <1>4, <1>5, <1>6, <1>7 DEF Next, Call, Enqueue, Account

LEMMA CountStep == SendOK /\ CountOK /\ WriterOK /\ [Next]_vars => CountOK'
<1> SUFFICES ASSUME SendOK, CountOK, WriterOK, [Next]_vars PROVE CountOK'
  OBVIOUS
<1> USE DEF CountOK, countVars
<1>1. CASE Call \/ Enqueue \/ Close \/ UNCHANGED vars
  BY <1>1 DEF Call, SendToLostRecord, SendSecond, SendFirst, Enqueue, FirstQueued,
     SecondAccepted, EnqueueRefused, Close, vars
<1>2. CASE FirstRefused \/ SecondRefused
  <2>1. half.seq \in Nat /\ CountDropped
    BY <1>2 DEF FirstRefused, SecondRefused, SendOK, Msg
  <2>2. lost' = lost \cup {half.seq} /\ dropped' = dropped + 1
    BY <2>1 DEF CountDropped
  <2>3. UNCHANGED <<queued, started, gaveUp, begun, counted>>
    BY <2>1 DEF CountDropped
  <2>4. lost' \subseteq Nat
    BY <2>1, <2>2
  <2>5. dropped' \in Nat
    BY <2>2
  <2> QED
    BY <2>3, <2>4, <2>5
<1>6. CASE SecondQueued
  <2>1. half.seq \in Nat
    BY <1>6 DEF SecondQueued, SendOK, Msg
  <2>2. counted' = counted \cup {half.seq} /\ queued' = queued + 1
    BY <1>6 DEF SecondQueued
  <2>3. counted' \subseteq Nat
    BY <2>1, <2>2
  <2>5. queued' \in Nat
    BY <2>2
  <2>4. UNCHANGED <<dropped, started, gaveUp, lost, begun>>
    BY <1>6 DEF SecondQueued
  <2> QED
    BY <2>3, <2>4, <2>5
<1>7. CASE Abandon
  BY <1>7 DEF Abandon
<1>3. CASE Writer
  <2>1. CASE HandleJoin
    <3>1. hand.seq \in Nat
      BY <2>1 DEF HandleJoin, Joins, WriterOK, Msg
    <3>2. begun' = begun \cup {hand.seq} /\ started' = started + 1
      BY <2>1 DEF HandleJoin
    <3>3. begun' \subseteq Nat
      BY <3>1, <3>2
    <3>5. started' \in Nat
      BY <3>2
    <3>4. UNCHANGED <<dropped, queued, gaveUp, lost, counted>>
      BY <2>1 DEF HandleJoin
    <3> QED
      BY <3>3, <3>4, <3>5
  <2>2. CASE ~HandleJoin
    BY <1>3, <2>2 DEF Writer, Receive, SeeQuit, Drained, Handle, HandleForget, HandleWait,
       HandleGivenUp, Trailer, ReadDropped, TrailerGate, TrailerDone
  <2> QED
    BY <2>1, <2>2
<1>4. CASE Disk
  BY <1>4 DEF Disk, WriteNothing, WriteSome, WriteDone, WriteFailed, AfterWrite, CloseFile
<1>5. CASE GivesUp
  <2>1. StillQueued \in Nat
    BY DEF StillQueued
  <2>2. PICK why : GiveUp(why)
    BY <1>5 DEF GivesUp, TrailerTimeout, TickStalled
  <2> QED
    BY <2>1, <2>2 DEF GiveUp
<1>8. CASE Await /\ ~GivesUp
  BY <1>8 DEF Await, AwaitDrained, AwaitTrailer, TickMoved, AwaitFinished, CloseReturns
<1> QED
  BY <1>1, <1>2, <1>3, <1>4, <1>5, <1>6, <1>7, <1>8 DEF Next, Account

LEMMA QueueStep == SendOK /\ QueueOK /\ [Next]_vars => QueueOK'
<1> SUFFICES ASSUME SendOK, QueueOK, [Next]_vars PROVE QueueOK'
  OBVIOUS
<1> USE ExportAssumption DEF SendOK, QueueOK
<1>1. CASE FirstQueued \/ SecondAccepted
  <2>1. in' = Append(in, half) /\ half \in Msg /\ Len(in) < QueueCap
    BY <1>1 DEF FirstQueued, SecondAccepted, HasRoom
  <2> QED
    BY <2>1
<1>2. CASE Receive
  <2>1. in # <<>> /\ in' = Tail(in)
    BY <1>2 DEF Receive
  <2>2. Tail(in) \in Seq(Msg) /\ Len(Tail(in)) = Len(in) - 1 /\ Len(in) \in Nat
    BY <2>1, HeadTailProperties
  <2> QED
    BY <2>1, <2>2
<1>3. CASE UNCHANGED in
  BY <1>3
<1>4. FirstQueued \/ SecondAccepted \/ Receive \/ UNCHANGED in
  BY DEF Next, Call, SendToLostRecord, SendSecond, SendFirst, Enqueue, EnqueueRefused, Account,
     FirstRefused, SecondQueued, SecondRefused, Abandon, Close, Await, AwaitDrained,
     AwaitTrailer, TickMoved, GivesUp, TrailerTimeout, TickStalled, GiveUp, AwaitFinished,
     CloseReturns, Writer, SeeQuit, Drained, Handle, HandleForget, HandleWait, HandleJoin,
     HandleGivenUp, Trailer, ReadDropped, TrailerGate, TrailerDone, Disk, WriteNothing,
     WriteSome, WriteDone, WriteFailed, AfterWrite, CloseFile, vars
<1> QED
  BY <1>1, <1>2, <1>3, <1>4

LEMMA WriterStep == QueueOK /\ CountOK /\ WriterOK /\ FileOK /\ SendOK /\ [Next]_vars => WriterOK'
<1> SUFFICES ASSUME QueueOK, CountOK, WriterOK, SendOK, [Next]_vars PROVE WriterOK'
  OBVIOUS
<1> USE DEF WriterOK, writeVars, doneVars
<1>1. CASE Receive
  <2>1. Head(in) \in Msg
    BY <1>1, HeadTailProperties DEF Receive, QueueOK
  <2> QED
    BY <1>1, <2>1 DEF Receive
<1>2. CASE SeeQuit \/ Drained
  BY <1>2 DEF SeeQuit, Drained
<1>3. Forget \in [Sides -> [Keys -> Nat]]
  BY DEF Forget
<1>4. CASE HandleForget
  BY <1>3, <1>4 DEF HandleForget
<1>5. CASE HandleWait
  BY <1>3, <1>5 DEF HandleWait, Msg, Sides, Other
<1>6. CASE HandleJoin
  <2>1. hand \in Msg /\ Partner(hand) \in Nat
    BY <1>3, <1>6 DEF HandleJoin, Joins, Partner, Msg, Sides, Other
  <2>2. JoinedLine \in Lines
    BY <2>1 DEF JoinedLine, RecordLine, Lines, Msg
  <2> QED
    BY <1>3, <1>6, <2>1, <2>2 DEF HandleJoin, Joins, Msg, Sides, Other
<1>7. CASE HandleGivenUp
  BY <1>3, <1>7 DEF HandleGivenUp, Joins, Msg, Sides, Other
<1>8. CASE Trailer
  <2>1. IncompleteLine(dropped) \in Lines
    BY DEF Lines, IncompleteLine, CountOK
  <2> QED
    BY <1>8, <2>1 DEF Trailer, ReadDropped, TrailerGate, TrailerDone
<1>9. CASE Disk
  BY <1>9 DEF Disk, WriteNothing, WriteSome, WriteDone, WriteFailed, AfterWrite, CloseFile
<1> QED
  BY <1>1, <1>2, <1>4, <1>5, <1>6, <1>7, <1>8, <1>9, WriterFrame DEF Writer, Handle

LEMMA FileStep == WriterOK /\ FileOK /\ FileShape /\ [Next]_vars => FileOK' /\ FileShape'
<1> SUFFICES ASSUME WriterOK, FileOK, FileShape, [Next]_vars PROVE FileOK' /\ FileShape'
  OBVIOUS
<1> DEFINE Chunks == Lines \cup {PartialLine}
<1> USE DEF fileVars
<1>1. file \in Seq(Chunks) /\ Len(file) \in Nat /\ offset \in Nat
  BY LenProperties DEF FileOK
<1>2. PartialLine \notin Lines
  BY DEF PartialLine, Lines
<1>3. CASE WriteNothing
  BY <1>3 DEF WriteNothing, AfterWrite, FileOK, FileShape
<1>4. CASE WriteSome
  <2>1. /\ file' \in Seq(Chunks) /\ Len(file') = Len(file) + 1
        /\ \A i \in 1..Len(file) : file'[i] = file[i]
        /\ file'[Len(file) + 1] = PartialLine
    BY <1>1, <1>4, AppendProperties DEF WriteSome
  <2> QED
    BY <1>1, <1>4, <2>1 DEF WriteSome, FileOK, FileShape
<1>5. CASE WriteDone
  <2>1. line \in Lines /\ ~broken /\ offset' = offset + 1 /\ broken' = broken
    BY <1>5 DEF WriteDone, WriterOK, EndOfRecord
  <2>2. /\ file' \in Seq(Chunks) /\ Len(file') = offset + 1
        /\ \A i \in 1..offset : file'[i] = file[i]
        /\ file'[offset + 1] = line
    <3>1. CASE short
      BY <1>1, <1>5, <2>1, <3>1, ExceptSeq DEF WriteDone, FileShape
    <3>2. CASE ~short
      BY <1>1, <1>5, <2>1, <3>2, AppendProperties DEF WriteDone, FileShape, WriterOK
    <3> QED
      BY <3>1, <3>2
  <2>3. short' = FALSE /\ err' \in BOOLEAN
    BY <1>5 DEF WriteDone, AfterWrite, FileOK
  <2>4. FileOK'
    BY <1>1, <2>1, <2>2, <2>3 DEF FileOK
  <2>5. \A i \in 1..offset' : file'[i] \in Lines
    BY <1>1, <2>1, <2>2 DEF FileShape
  <2> QED
    BY <1>1, <2>1, <2>2, <2>3, <2>4, <2>5 DEF FileShape
<1>6. CASE WriteFailed
  <2>1. short' = FALSE /\ err' = TRUE /\ offset' = offset /\ ~broken
    BY <1>6 DEF WriteFailed, AfterWrite
  <2>2. CASE file' = SubSeq(file, 1, offset) /\ UNCHANGED broken
    <3>1. \A i \in 1..offset : file[i] \in Chunks
      BY DEF FileShape
    <3>2. /\ file' \in Seq(Chunks) /\ Len(file') = offset
          /\ \A i \in 1..offset : file'[i] = file[i]
      <4>1. offset - 1 + 1 = offset /\ \A i \in 1..offset - 1 + 1 : 1 + i - 1 = i
        BY <1>1
      <4>2. /\ SubSeq(file, 1, offset) \in Seq(Chunks)
            /\ Len(SubSeq(file, 1, offset)) = IF 1 <= offset THEN offset - 1 + 1 ELSE 0
            /\ \A i \in 1..offset - 1 + 1 : SubSeq(file, 1, offset)[i] = file[1 + i - 1]
        BY <1>1, <3>1, SubSeqProperties
      <4> QED
        BY <1>1, <2>2, <4>1, <4>2
    <3> QED
      BY <1>1, <2>1, <2>2, <3>2 DEF FileOK, FileShape
  <2>3. CASE broken' = StopsForGood /\ UNCHANGED file
    <3>1. broken' = TRUE /\ Len(file) <= offset + 1
      BY <1>1, <2>1, <2>3 DEF StopsForGood, FileShape
    <3> QED
      BY <1>1, <2>1, <2>3, <3>1 DEF FileOK, FileShape
  <2> QED
    BY <1>6, <2>2, <2>3 DEF WriteFailed
<1>7. CASE CloseFile
  BY <1>7 DEF CloseFile, FileOK, FileShape
<1>8. CASE Writer
  BY <1>8 DEF Writer, Receive, SeeQuit, Drained, Handle, HandleForget, HandleWait, HandleJoin,
     HandleGivenUp, Joins, Trailer, ReadDropped, TrailerGate, TrailerDone, FileOK, FileShape
<1>9. CASE UNCHANGED <<fileVars, writeVars>>
  BY <1>9 DEF writeVars, FileOK, FileShape
<1> QED
  BY <1>3, <1>4, <1>5, <1>6, <1>7, <1>8, <1>9, FileFrame, WriterFrame DEF Disk

LEMMA CloseStep == CountOK /\ FileOK /\ CloseOK /\ [Next]_vars => CloseOK'
<1> SUFFICES ASSUME CountOK, FileOK, CloseOK, [Next]_vars PROVE CloseOK'
  OBVIOUS
<1> USE DEF CloseOK, closeVars
<1>1. CASE Close
  BY <1>1 DEF Close, CountOK, countVars
<1>2. CASE AwaitDrained \/ AwaitTrailer \/ TickMoved \/ AwaitFinished \/ CloseReturns
  BY <1>2 DEF AwaitDrained, AwaitTrailer, TickMoved, AwaitFinished, CloseReturns, countVars
<1>3. CASE GivesUp
  BY <1>3 DEF GivesUp, TrailerTimeout, TickStalled, GiveUp
<1>4. CASE Senders
  <2>1. counted \subseteq counted' /\ UNCHANGED <<closeVars, moved, blocking>>
    BY <1>4 DEF Senders, Call, SendToLostRecord, SendSecond, SendFirst, Enqueue, FirstQueued,
       SecondAccepted, EnqueueRefused, Account, FirstRefused, SecondQueued, SecondRefused,
       Abandon, CountDropped, countVars
  <2> QED
    BY <2>1
<1>5. CASE Writer
  <2>1. UNCHANGED <<closeVars, counted, blocking>> /\ (moved' = moved \/ moved' = TRUE)
    BY <1>5 DEF Writer, Receive, SeeQuit, Drained, Handle, HandleForget, HandleWait, HandleJoin,
       HandleGivenUp, Joins, Trailer, ReadDropped, TrailerGate, TrailerDone, countVars
  <2> QED
    BY <2>1
<1>6. CASE Disk
  <2>1. UNCHANGED <<closeVars, counted, blocking>> /\ moved' \in BOOLEAN
    BY <1>6 DEF Disk, WriteNothing, WriteSome, WriteDone, WriteFailed, AfterWrite, CloseFile,
       countVars
  <2> QED
    BY <2>1
<1>7. CASE UNCHANGED vars
  BY <1>7 DEF vars, countVars
<1> QED
  BY <1>1, <1>2, <1>3, <1>4, <1>5, <1>6, <1>7 DEF Next, Senders, Await

\* Every variable keeps its type, and the file its shape, on every step (all of export.go).
THEOREM TypeCorrect == Spec => [](TypeOK /\ FileShape)
<1>1. TypeOK /\ FileShape /\ [Next]_vars => (TypeOK /\ FileShape)'
  BY SendStep, CountStep, QueueStep, WriterStep, FileStep, CloseStep DEF TypeOK
<1> QED
  BY InitTypeOK, <1>1, PTL DEF Spec

\* A partial line is only ever the last thing in the file (rollback, broken).
THEOREM FileEndsOnARecordAlways == Spec => []FileEndsOnARecord
<1>1. TypeOK /\ FileShape => FileEndsOnARecord
  <2> SUFFICES ASSUME TypeOK, FileShape,
                      NEW i \in DOMAIN file, file[i] = PartialLine
               PROVE  i = Len(file) /\ (short \/ broken)
    BY DEF FileEndsOnARecord
  <2>1. i \in 1..Len(file) /\ Len(file) \in Nat /\ offset \in Nat
    BY LenProperties DEF TypeOK, FileOK
  <2>2. PartialLine \notin Lines
    BY DEF PartialLine, Lines
  <2>3. i > offset
    BY <2>1, <2>2 DEF FileShape
  <2> QED
    BY <2>1, <2>3 DEF FileShape
<1> QED
  BY TypeCorrect, <1>1, PTL

(***************************************************************************)
(* No record is both counted lost and written.  GateInv is inductive: the  *)
(* writer holds both halves only of a record whose second half was         *)
(* accepted, a record is lost only while it is not, and from the moment    *)
(* Close gives up no further record is begun.                              *)
(***************************************************************************)

\* A message reaches the writer's side only through the channel.
LEMMA PresentGrowth ==
  ASSUME TypeOK, [Next]_vars, NEW r \in Nat, NEW s \in Sides, Present(r, s)'
  PROVE  Present(r, s) \/ ((FirstQueued \/ SecondAccepted) /\ r = half.seq /\ s = half.side)
<1> USE DEF TypeOK, QueueOK, WriterOK
<1>0. in \in Seq(Msg) /\ DOMAIN in = 1..Len(in) /\ Len(in) \in Nat
  BY LenProperties
<1>1. CASE FirstQueued \/ SecondAccepted
  <2>1. half \in Msg /\ in' = Append(in, half) /\ UNCHANGED <<writeVars>>
    BY <1>1 DEF FirstQueued, SecondAccepted, SendOK
  <2>2. /\ DOMAIN in' = 1..Len(in) + 1 /\ in'[Len(in) + 1] = half
        /\ \A i \in 1..Len(in) : in'[i] = in[i]
    BY <1>0, <2>1, AppendProperties
  <2> QED
    BY <1>0, <1>1, <2>1, <2>2 DEF Present, writeVars
<1>2. CASE Receive
  <2>1. in # <<>> /\ in' = Tail(in) /\ hand' = Head(in) /\ waiting' = waiting
    BY <1>2 DEF Receive
  <2>2. /\ Len(in) >= 1 /\ hand' = in[1] /\ DOMAIN in' = 1..Len(in) - 1
        /\ \A i \in 1..Len(in) - 1 : in'[i] = in[i + 1]
    BY <1>0, <2>1, HeadTailProperties, LenProperties
  <2> QED
    BY <1>0, <2>1, <2>2 DEF Present
<1>3. CASE Handle
  <2>1. in' = in /\ wpc = "handle" /\ wpc' # "handle" /\ hand \in Msg
    BY <1>3 DEF Handle, HandleForget, HandleWait, HandleJoin, HandleGivenUp, Joins
  <2>2. /\ Forget \in [Sides -> [Keys -> Nat]]
        /\ \A q \in Sides, k \in Keys : Forget[q][k] \in {0, waiting[q][k]}
    BY DEF Forget
  <2>3. \A q \in Sides, k \in Keys :
          waiting'[q][k] \in {0, waiting[q][k]}
          \/ (q = hand.side /\ waiting'[q][k] = hand.seq)
    <3>1. CASE HandleForget
      BY <2>2, <3>1 DEF HandleForget
    <3>2. CASE HandleWait
      BY <2>1, <2>2, <3>2 DEF HandleWait, Msg, Sides, Other
    <3>3. CASE Joins
      BY <2>1, <2>2, <3>3 DEF Joins, Msg, Sides, Other
    <3> QED
      BY <1>3, <3>1, <3>2, <3>3 DEF Handle, HandleJoin, HandleGivenUp
  <2> QED
    BY <2>1, <2>3 DEF Present
<1>4. CASE ~(FirstQueued \/ SecondAccepted \/ Receive \/ Handle)
  <2>1. CASE Writer
    BY <1>4, <2>1 DEF Writer, SeeQuit, Drained, Trailer, ReadDropped, TrailerGate,
       TrailerDone, Present
  <2>2. CASE Disk
    <3>1. UNCHANGED <<in, hand, waiting>> /\ wpc' # "handle"
      BY <2>2 DEF Disk, WriteNothing, WriteSome, WriteDone, WriteFailed, AfterWrite, CloseFile
    <3> QED
      BY <3>1 DEF Present
  <2>3. CASE Senders \/ Close \/ Await \/ UNCHANGED vars
    <3>1. UNCHANGED <<in, writeVars>>
      BY <1>4, <2>3 DEF Senders, Call, SendToLostRecord, SendSecond, SendFirst, Enqueue,
         EnqueueRefused, Account, FirstRefused, SecondQueued, SecondRefused, Abandon, Close,
         Await, AwaitDrained, AwaitTrailer, TickMoved, GivesUp, TrailerTimeout, TickStalled,
         GiveUp, AwaitFinished, CloseReturns, vars
    <3> QED
      BY <3>1 DEF Present, writeVars
  <2> QED
    BY <2>1, <2>2, <2>3 DEF Next, Senders
<1> QED
  BY <1>1, <1>2, <1>3, <1>4

\* What a step does to send's side, in terms of the half in flight.
LEMMA SendEffect ==
  ASSUME TypeOK, SeqsGivenOut, [Next]_vars
  PROVE  /\ seq' \in Nat /\ seq' >= seq
         /\ mu' # "free" => half'.seq \in 1..seq'
         /\ \A k \in Keys : pairs'[k].seq \in 0..seq'
<1> USE DEF TypeOK, SendOK, SeqsGivenOut
<1>1. ASSUME NEW k \in Keys, NEW s \in Sides, SendToLostRecord(k, s)
      PROVE  /\ seq' = seq /\ mu' = "free"
             /\ \A l \in Keys : pairs'[l].seq \in 0..seq
  BY <1>1 DEF SendToLostRecord, NoPair
<1>2. ASSUME NEW k \in Keys, NEW s \in Sides, SendSecond(k, s)
      PROVE  /\ seq' = seq /\ half'.seq \in 1..seq
             /\ \A l \in Keys : pairs'[l].seq \in 0..seq
  BY <1>2 DEF SendSecond, IsSecond, NoPair
<1>3. ASSUME NEW k \in Keys, NEW s \in Sides, SendFirst(k, s)
      PROVE  seq' = seq + 1 /\ half'.seq = seq + 1 /\ pairs' = pairs
  BY <1>3 DEF SendFirst
<1>4. CASE FirstQueued \/ FirstRefused
  <2>1. seq' = seq /\ mu' = "free" /\ half.seq \in 1..seq
    BY <1>4 DEF FirstQueued, FirstRefused
  <2>2. PICK b \in BOOLEAN : OpenPair(b)
    BY <1>4 DEF FirstQueued, FirstRefused
  <2> QED
    BY <2>1, <2>2 DEF OpenPair
<1>5. CASE SecondAccepted \/ EnqueueRefused \/ SecondQueued \/ SecondRefused \/ Abandon
  BY <1>5 DEF SecondAccepted, EnqueueRefused, SecondQueued, SecondRefused, Abandon
<1>6. CASE UNCHANGED sendVars
  BY <1>6 DEF sendVars
<1> QED
  BY <1>1, <1>2, <1>3, <1>4, <1>5, <1>6, SendFrame DEF Senders, Call, Enqueue, Account

\* lost, counted, begun and gaveUp move only here.
LEMMA CountEffect ==
  ASSUME [Next]_vars
  PROVE  \/ /\ FirstRefused \/ SecondRefused
            /\ lost' = lost \cup {half.seq} /\ UNCHANGED <<counted, begun, gaveUp>>
         \/ SecondQueued /\ counted' = counted \cup {half.seq} /\ UNCHANGED <<lost, begun, gaveUp>>
         \/ HandleJoin /\ begun' = begun \cup {hand.seq} /\ UNCHANGED <<lost, counted, gaveUp>>
         \/ /\ GivesUp /\ gaveUp' = TRUE
            /\ lost' = lost \cup (counted \ begun) /\ UNCHANGED <<counted, begun>>
         \/ UNCHANGED <<lost, counted, begun, gaveUp>>
<1> USE DEF countVars
<1>1. CASE Call \/ Enqueue \/ Close \/ UNCHANGED vars
  <2>1. CASE Call
    <3>1. PICK k \in Keys, s \in Sides :
            SendToLostRecord(k, s) \/ SendSecond(k, s) \/ SendFirst(k, s)
      BY <2>1 DEF Call
    <3> QED
      BY <3>1 DEF SendToLostRecord, SendSecond, SendFirst
  <2>2. CASE Enqueue
    BY <2>2 DEF Enqueue, FirstQueued, SecondAccepted, EnqueueRefused
  <2>3. CASE Close \/ UNCHANGED vars
    BY <2>3 DEF Close, vars
  <2> QED
    BY <1>1, <2>1, <2>2, <2>3
<1>2. CASE Account
  BY <1>2 DEF Account, FirstRefused, SecondQueued, SecondRefused, Abandon, CountDropped
<1>3. CASE Writer
  BY <1>3 DEF Writer, Receive, SeeQuit, Drained, Handle, HandleForget, HandleWait, HandleJoin,
     HandleGivenUp, Trailer, ReadDropped, TrailerGate, TrailerDone
<1>4. CASE Disk
  BY <1>4 DEF Disk, WriteNothing, WriteSome, WriteDone, WriteFailed, AfterWrite, CloseFile
<1>5. CASE Await
  BY <1>5 DEF Await, AwaitDrained, AwaitTrailer, TickMoved, GivesUp, TrailerTimeout,
     TickStalled, GiveUp, AwaitFinished, CloseReturns
<1> QED
  BY <1>1, <1>2, <1>3, <1>4, <1>5 DEF Next

LEMMA SeqsStep == TypeOK /\ SeqsGivenOut /\ [Next]_vars => SeqsGivenOut'
<1> SUFFICES ASSUME TypeOK, SeqsGivenOut, [Next]_vars PROVE SeqsGivenOut'
  OBVIOUS
<1>1. /\ seq \in Nat /\ seq' \in Nat /\ seq' >= seq
      /\ mu' # "free" => half'.seq \in 1..seq'
      /\ \A k \in Keys : pairs'[k].seq \in 0..seq'
  BY SendEffect DEF TypeOK, SendOK
<1>2. lost' \subseteq 1..seq' /\ counted' \subseteq 1..seq'
  <2>1. lost \subseteq 1..seq' /\ counted \subseteq 1..seq'
    BY <1>1 DEF SeqsGivenOut
  <2>2. (FirstRefused \/ SecondRefused \/ SecondQueued) => half.seq \in 1..seq'
    BY <1>1 DEF FirstRefused, SecondRefused, SecondQueued, SeqsGivenOut
  <2> QED
    BY <2>1, <2>2, CountEffect
<1>3. ASSUME NEW r \in Nat, NEW s \in Sides, Present(r, s)' PROVE r \in 1..seq'
  <2>1. Present(r, s) \/ ((FirstQueued \/ SecondAccepted) /\ r = half.seq)
    BY <1>3, PresentGrowth
  <2>2. ASSUME Present(r, s) PROVE r \in 1..seq
    BY <1>1, <2>2 DEF Present, SeqsGivenOut, TypeOK, WriterOK
  <2>3. ASSUME FirstQueued \/ SecondAccepted, r = half.seq PROVE r \in 1..seq
    <3>1. mu # "free"
      BY <2>3 DEF FirstQueued, SecondAccepted
    <3> QED
      BY <2>3, <3>1 DEF SeqsGivenOut
  <2> QED
    BY <1>1, <2>1, <2>2, <2>3
<1>4. QueueOK' /\ WriterOK'
  BY QueueStep, WriterStep DEF TypeOK
<1>5. \A i \in DOMAIN in' : in'[i].seq \in 1..seq'
  <2> TAKE i \in DOMAIN in'
  <2>1. in'[i] \in Msg
    BY <1>4, LenProperties DEF QueueOK
  <2>2. PICK r \in Nat, s \in Sides : r = in'[i].seq /\ s = in'[i].side
    BY <2>1 DEF Msg
  <2>3. Present(r, s)'
    BY <2>2 DEF Present
  <2> QED
    BY <1>3, <2>2, <2>3
<1>6. wpc' = "handle" => hand'.seq \in 1..seq'
  <2> SUFFICES ASSUME wpc' = "handle" PROVE hand'.seq \in 1..seq'
    OBVIOUS
  <2>1. PICK r \in Nat, s \in Sides : r = hand'.seq /\ s = hand'.side
    BY <1>4 DEF WriterOK, Msg
  <2>2. Present(r, s)'
    BY <2>1 DEF Present
  <2> QED
    BY <1>3, <2>1, <2>2
<1>7. \A s \in Sides, k \in Keys : waiting'[s][k] \in 0..seq'
  <2> TAKE s \in Sides, k \in Keys
  <2>1. PICK r \in Nat : r = waiting'[s][k]
    BY <1>4 DEF WriterOK
  <2>2. r # 0 => Present(r, s)'
    BY <2>1 DEF Present
  <2> QED
    BY <1>1, <1>3, <2>1, <2>2
<1> QED
  BY <1>1, <1>2, <1>5, <1>6, <1>7 DEF SeqsGivenOut

LEMMA PresentBound ==
  ASSUME TypeOK, SeqsGivenOut, NEW r \in Nat, NEW s \in Sides, Present(r, s)
  PROVE  r \in 1..seq
BY DEF Present, SeqsGivenOut, TypeOK, WriterOK, SendOK

\* How a step moves a record into and out of Complete.
LEMMA CompleteEffect ==
  ASSUME TypeOK, [Next]_vars, NEW r \in Nat
  PROVE  /\ Complete(r) => Complete(r)'
         /\ Complete(r)' => Complete(r) \/ (SecondAccepted /\ r = half.seq)
<1>1. CASE Call
  BY <1>1 DEF Complete, Call, SendToLostRecord, SendSecond, SendFirst, countVars
<1>2. CASE FirstQueued \/ SecondAccepted \/ EnqueueRefused
  BY <1>2 DEF Complete, FirstQueued, SecondAccepted, EnqueueRefused, countVars
<1>3. CASE SecondQueued
  BY <1>3 DEF Complete, SecondQueued
<1>4. CASE FirstRefused \/ SecondRefused \/ Abandon
  BY <1>4 DEF Complete, FirstRefused, SecondRefused, Abandon, CountDropped, countVars
<1>5. CASE UNCHANGED sendVars
  <2>1. ~SecondQueued \/ UNCHANGED vars
    BY <1>5 DEF SecondQueued, sendVars
  <2>2. counted' = counted
    BY <1>5, <2>1, CountEffect DEF SecondQueued, sendVars
  <2> QED
    BY <1>5, <2>2 DEF Complete, sendVars
<1> QED
  BY <1>1, <1>2, <1>3, <1>4, <1>5, SendFrame DEF Senders, Enqueue, Account

LEMMA BothStep == TypeOK /\ GateInv /\ [Next]_vars => BothHalves'
<1> SUFFICES ASSUME TypeOK, GateInv, [Next]_vars,
                    NEW r \in Nat, r \in 1..seq',
                    Present(r, "flag")', Present(r, "res")'
             PROVE  Complete(r)'
  BY SendEffect DEF BothHalves, GateInv
<1>1. CASE Present(r, "flag") /\ Present(r, "res")
  <2>1. r \in 1..seq
    BY <1>1, PresentBound DEF GateInv, Sides
  <2> QED
    BY <1>1, <2>1, CompleteEffect DEF BothHalves, GateInv
<1>2. CASE ~(Present(r, "flag") /\ Present(r, "res"))
  <2>1. PICK s \in Sides : ~Present(r, s) /\ Present(r, s)' /\ Present(r, Other(s))'
    BY <1>2 DEF Sides, Other
  <2>2. (FirstQueued \/ SecondAccepted) /\ r = half.seq /\ s = half.side
    BY <2>1, PresentGrowth
  <2>3. Present(r, Other(s))
    BY <2>1, <2>2, PresentGrowth DEF Sides, Other
  <2>4. ~FirstQueued
    BY <2>2, <2>3 DEF GateInv, HalfInSend, Undecided, FirstQueued
  <2> QED
    BY <2>2, <2>4 DEF SecondAccepted, Complete
<1> QED
  BY <1>1, <1>2

LEMMA HalfStep == TypeOK /\ GateInv /\ [Next]_vars => HalfInSend'
<1> SUFFICES ASSUME TypeOK, GateInv, [Next]_vars, Undecided' PROVE HalfInSend'
  BY DEF HalfInSend
<1>1. ~FirstQueued /\ ~SecondAccepted /\ ~FirstRefused /\ ~SecondRefused /\ ~SecondQueued
  BY DEF Undecided, FirstQueued, SecondAccepted, FirstRefused, SecondRefused, SecondQueued
<1>2. ASSUME NEW r \in Nat, NEW s \in Sides, Present(r, s)' PROVE Present(r, s)
  BY <1>1, <1>2, PresentGrowth
<1>3. counted' = counted /\ (lost' = lost \/ lost' = lost \cup (counted \ begun))
  BY <1>1, CountEffect
<1>4. ASSUME NEW k \in Keys, NEW s \in Sides, SendFirst(k, s)
      PROVE  HalfInSend'
  <2>1. half' = [key |-> k, side |-> s, seq |-> seq + 1]
    BY <1>4 DEF SendFirst
  <2>2. seq \in Nat /\ lost' \subseteq 1..seq /\ counted' \subseteq 1..seq
    BY <1>3 DEF GateInv, SeqsGivenOut, TypeOK, SendOK
  <2>3. PICK r \in Nat : r = seq + 1
    BY <2>2
  <2>4. \A q \in Sides : ~Present(r, q)'
    BY <1>2, <2>2, <2>3, PresentBound DEF GateInv
  <2> QED
    BY <2>1, <2>2, <2>3, <2>4 DEF HalfInSend, Sides, Other
<1>5. ASSUME NEW k \in Keys, NEW s \in Sides, SendSecond(k, s)
      PROVE  HalfInSend'
  <2>1. /\ half' = [key |-> k, side |-> s, seq |-> pairs[k].seq] /\ mu' = "second"
        /\ pairs[k].seq # 0 /\ ~pairs[k].lost /\ pairs[k].side # s
    BY <1>5 DEF SendSecond, IsSecond
  <2>2. PICK r \in Nat : r = pairs[k].seq
    BY DEF TypeOK, SendOK, Pair
  <2>3. s = Other(pairs[k].side)
    BY <2>1 DEF TypeOK, SendOK, Pair, Sides, Other
  <2>4. r \notin counted /\ r \notin lost /\ ~Present(r, s)
    BY <2>1, <2>2, <2>3 DEF GateInv, OpenPairs
  <2>5. ~Present(r, s)'
    BY <1>2, <2>4
  <2> QED
    BY <1>3, <2>1, <2>2, <2>4, <2>5 DEF HalfInSend
<1>6. CASE Undecided /\ half' = half /\ (mu' \in {"first", "firstRefused"} => mu \in {"first", "firstRefused"})
  <2>1. half \in Msg
    BY <1>6 DEF Undecided, TypeOK, SendOK
  <2>2. PICK r \in Nat, s \in Sides : r = half.seq /\ s = half.side
    BY <2>1 DEF Msg
  <2>3. r \notin counted \cup lost /\ ~Present(r, s)
    BY <1>6, <2>2 DEF GateInv, HalfInSend
  <2>4. mu' \in {"first", "firstRefused"} => ~Present(r, Other(s))
    BY <1>6, <2>2 DEF GateInv, HalfInSend
  <2>5. Other(s) \in Sides
    BY DEF Other, Sides
  <2> QED
    BY <1>2, <1>3, <1>6, <2>2, <2>3, <2>4, <2>5 DEF HalfInSend
<1>7. CASE EnqueueRefused
  BY <1>6, <1>7 DEF EnqueueRefused, Undecided
<1>8. CASE UNCHANGED sendVars
  BY <1>6, <1>8 DEF sendVars, Undecided
<1>9. ~Abandon /\ \A k \in Keys, s \in Sides : ~SendToLostRecord(k, s)
  BY DEF Abandon, SendToLostRecord, Undecided
<1> QED
  BY <1>1, <1>4, <1>5, <1>7, <1>8, <1>9, SendFrame DEF Senders, Call, Enqueue, Account

\* One open pair, away from the half in flight.
OpenPair1(k) ==
  pairs[k].seq # 0 =>
    /\ pairs[k].seq \notin counted
    /\ ~pairs[k].lost => pairs[k].seq \notin lost
    /\ ~Present(pairs[k].seq, Other(pairs[k].side))

LEMMA PairsStep == TypeOK /\ GateInv /\ [Next]_vars => OpenPairs'
<1> SUFFICES ASSUME TypeOK, GateInv, [Next]_vars PROVE OpenPairs'
  OBVIOUS
<1>0. /\ \A k \in Keys : pairs[k].seq \in 0..seq /\ pairs[k].side \in Sides
      /\ seq \in Nat
  BY DEF GateInv, SeqsGivenOut, TypeOK, SendOK, Pair
<1>1. ASSUME NEW k \in Keys, pairs[k].seq # 0, pairs'[k] = pairs[k],
             mu = "free" \/ half.seq # pairs[k].seq
      PROVE  OpenPair1(k)'
  <2>1. PICK r \in Nat, s \in Sides : r = pairs[k].seq /\ s = Other(pairs[k].side)
    BY <1>0 DEF Other, Sides
  <2>2. r \notin counted /\ (~pairs[k].lost => r \notin lost) /\ ~Present(r, s)
    BY <1>1, <2>1 DEF GateInv, OpenPairs
  <2>3. mu = "free" \/ half.seq # r
    BY <1>1, <2>1
  <2>4. r \notin counted' /\ (~pairs[k].lost => r \notin lost')
    BY <2>2, <2>3, CountEffect DEF FirstRefused, SecondRefused, SecondQueued
  <2>5. ~Present(r, s)'
    BY <2>2, <2>3, PresentGrowth DEF FirstQueued, SecondAccepted
  <2> QED
    BY <1>1, <2>1, <2>4, <2>5 DEF OpenPair1
<1>2. CASE FirstQueued \/ FirstRefused
  <2>1. mu' = "free" /\ half \in Msg /\ Undecided /\ mu \in {"first", "firstRefused"}
    BY <1>2 DEF FirstQueued, FirstRefused, TypeOK, SendOK, Undecided
  <2>2. PICK j \in Keys, r \in Nat, s \in Sides :
          j = half.key /\ r = half.seq /\ s = half.side
    BY <2>1 DEF Msg
  <2>3. PICK b \in BOOLEAN :
          /\ pairs' = [pairs EXCEPT ![j] = [seq |-> r, side |-> s, lost |-> b]]
          /\ FirstQueued => ~b
          /\ FirstRefused => b
    BY <1>2, <2>2 DEF FirstQueued, FirstRefused, OpenPair
  <2>4. \A k \in Keys \ {j} : pairs'[k] = pairs[k]
    BY <2>3
  <2>5. pairs'[j] = [seq |-> r, side |-> s, lost |-> b]
    BY <2>3 DEF TypeOK, SendOK
  <2>6. /\ r \notin counted \cup lost /\ ~Present(r, Other(s)) /\ Other(s) # s
        /\ Other(s) \in Sides
    BY <2>1, <2>2 DEF GateInv, HalfInSend, Other, Sides
  <2>7. ~Present(r, Other(s))'
    BY <2>2, <2>6, PresentGrowth
  <2>8. counted' = counted /\ (FirstQueued => lost' = lost)
    BY <1>2, <2>1, CountEffect DEF FirstQueued, FirstRefused, SecondQueued, SecondRefused,
       GivesUp, TrailerTimeout, TickStalled, GiveUp, countVars, sendVars
  <2>9. OpenPair1(j)'
    BY <1>2, <2>3, <2>5, <2>6, <2>7, <2>8 DEF OpenPair1
  <2>10. \A k \in Keys : pairs[k].seq # 0 => pairs[k].seq # r
    BY <2>1, <2>2 DEF GateInv, OpenPairs
  <2>11. \A k \in Keys \ {j} : pairs[k].seq # 0 => OpenPair1(k)'
    BY <1>1, <2>2, <2>4, <2>10
  <2>12. \A k \in Keys : pairs'[k].seq # 0 => OpenPair1(k)'
    BY <2>4, <2>9, <2>11
  <2>13. \A k \in Keys : pairs'[k].seq # 0 => \A l \in Keys \ {k} : pairs'[l].seq # pairs'[k].seq
    BY <2>4, <2>5, <2>10 DEF GateInv, OpenPairs
  <2> QED
    BY <2>1, <2>12, <2>13 DEF OpenPair1, OpenPairs
<1>3. ASSUME \A k \in Keys : pairs'[k] = pairs[k] \/ pairs'[k].seq = 0,
             \A k \in Keys : pairs'[k].seq # 0 =>
               /\ mu = "free" \/ half.seq # pairs[k].seq
               /\ mu' # "free" => half'.seq # pairs[k].seq
      PROVE  OpenPairs'
  <2>1. \A k \in Keys : pairs'[k].seq # 0 => OpenPair1(k)'
    BY <1>1, <1>3
  <2>2. \A k \in Keys : pairs'[k].seq # 0 => \A l \in Keys \ {k} : pairs'[l].seq # pairs'[k].seq
    BY <1>3 DEF GateInv, OpenPairs
  <2>3. \A k \in Keys : pairs'[k].seq # 0 /\ mu' # "free" => half'.seq # pairs'[k].seq
    BY <1>3
  <2> QED
    BY <2>1, <2>2, <2>3 DEF OpenPair1, OpenPairs
<1>4. ASSUME pairs' = pairs, mu' # "free" => mu # "free" /\ half' = half
      PROVE  OpenPairs'
  BY <1>3, <1>4 DEF GateInv, OpenPairs
<1>5. ASSUME NEW j \in Keys, NEW s \in Sides, SendToLostRecord(j, s)
      PROVE  OpenPairs'
  <2>1. mu = "free" /\ mu' = "free" /\ pairs' = [pairs EXCEPT ![j] = NoPair]
    BY <1>5 DEF SendToLostRecord
  <2> QED
    BY <1>3, <2>1 DEF NoPair, TypeOK, SendOK
<1>6. ASSUME NEW j \in Keys, NEW s \in Sides, SendSecond(j, s)
      PROVE  OpenPairs'
  <2>1. /\ mu = "free" /\ pairs' = [pairs EXCEPT ![j] = NoPair]
        /\ half'.seq = pairs[j].seq /\ pairs[j].seq # 0
    BY <1>6 DEF SendSecond, IsSecond
  <2>2. pairs'[j].seq = 0 /\ \A k \in Keys \ {j} : pairs'[k] = pairs[k]
    BY <2>1 DEF NoPair, TypeOK, SendOK
  <2>3. \A k \in Keys \ {j} : pairs[k].seq # half'.seq
    BY <2>1 DEF GateInv, OpenPairs
  <2> QED
    BY <1>3, <2>1, <2>2, <2>3
<1>7. ASSUME NEW j \in Keys, NEW s \in Sides, SendFirst(j, s)
      PROVE  OpenPairs'
  <2>1. mu = "free" /\ pairs' = pairs /\ half'.seq = seq + 1
    BY <1>7 DEF SendFirst
  <2>2. \A k \in Keys : half'.seq # pairs[k].seq
    BY <1>0, <2>1
  <2> QED
    BY <1>3, <2>1, <2>2
<1>8. CASE SecondAccepted \/ EnqueueRefused \/ SecondQueued \/ SecondRefused \/ Abandon
  BY <1>4, <1>8 DEF SecondAccepted, EnqueueRefused, SecondQueued, SecondRefused, Abandon
<1>9. CASE UNCHANGED sendVars
  BY <1>4, <1>9 DEF sendVars
<1> QED
  BY <1>2, <1>5, <1>6, <1>7, <1>8, <1>9, SendFrame DEF Senders, Call, Enqueue, Account

LEMMA FateStep == TypeOK /\ FileShape /\ GateInv /\ [Next]_vars => FateDecided'
<1> SUFFICES ASSUME TypeOK, FileShape, GateInv, [Next]_vars PROVE FateDecided'
  OBVIOUS
<1>0. lost \subseteq Nat /\ counted \subseteq Nat /\ begun \subseteq Nat /\ seq \in Nat
  BY DEF TypeOK, CountOK, SendOK
<1>1. Undecided => /\ half.seq \in Nat /\ half.seq \notin lost
                   /\ half.seq \notin begun /\ ~Complete(half.seq)
  <2> SUFFICES ASSUME Undecided
               PROVE  /\ half.seq \in Nat /\ half.seq \notin lost
                      /\ half.seq \notin begun /\ ~Complete(half.seq)
    OBVIOUS
  <2>1. half.seq \in Nat
    BY DEF Undecided, TypeOK, SendOK, Msg
  <2>2. half.seq \notin counted \cup lost /\ mu # "secondQueued"
    BY DEF GateInv, HalfInSend, Undecided
  <2>3. ~Complete(half.seq)
    BY <2>2 DEF Complete
  <2> QED
    BY <2>1, <2>2, <2>3 DEF GateInv, FateDecided
<1>2. HandleJoin => /\ hand.seq \in Nat /\ Complete(hand.seq) /\ hand.seq \notin lost
                    /\ line' = JoinedLine /\ JoinedLine.flag = hand.seq
  <2> SUFFICES ASSUME HandleJoin
               PROVE  /\ hand.seq \in Nat /\ Complete(hand.seq) /\ hand.seq \notin lost
                      /\ line' = JoinedLine /\ JoinedLine.flag = hand.seq
    OBVIOUS
  <2>1. /\ wpc = "handle" /\ hand \in Msg /\ ~gaveUp /\ Partner(hand) = hand.seq
        /\ hand.seq \in 1..seq /\ line' = JoinedLine
    BY DEF HandleJoin, Joins, SameRecord, MayStart, TypeOK, WriterOK, GateInv, SeqsGivenOut
  <2>2. PICK r \in Nat, s \in Sides, k \in Keys :
          r = hand.seq /\ s = hand.side /\ k = hand.key
    BY <2>1 DEF Msg
  <2>3. Other(s) \in Sides /\ waiting[Other(s)][k] = r
    BY <1>0, <2>1, <2>2 DEF Partner, Forget, Other, Sides
  <2>4. Present(r, s) /\ Present(r, Other(s))
    BY <1>0, <2>1, <2>2, <2>3 DEF Present
  <2>5. Present(r, "flag") /\ Present(r, "res")
    BY <2>4 DEF Other, Sides
  <2>6. Complete(r) /\ r \notin lost
    BY <2>1, <2>2, <2>5 DEF GateInv, BothHalves, FateDecided
  <2>7. JoinedLine.flag = hand.seq
    BY <2>1 DEF JoinedLine, RecordLine
  <2> QED
    BY <2>1, <2>2, <2>6, <2>7
<1>3. ASSUME NEW r \in begun' PROVE Complete(r)' /\ r \notin lost'
  <2>1. r \in Nat /\ (r \in begun \/ (HandleJoin /\ r = hand.seq))
    BY <1>0, <1>2, <1>3, CountEffect
  <2>2. Complete(r) /\ r \notin lost
    BY <1>2, <2>1 DEF GateInv, FateDecided
  <2>3. r \notin lost'
    <3>1. CASE FirstRefused \/ SecondRefused
      <4>1. Undecided
        BY <3>1 DEF FirstRefused, SecondRefused, Undecided
      <4>2. wpc' = wpc
        BY <3>1 DEF FirstRefused, SecondRefused, writeVars
      <4>3. ~HandleJoin
        BY <4>2 DEF HandleJoin, Joins
      <4>4. lost' = lost \cup {half.seq}
        BY <3>1 DEF FirstRefused, SecondRefused, CountDropped
      <4>5. r \in begun /\ r # half.seq
        BY <1>1, <2>1, <4>1, <4>3
      <4> QED
        BY <2>2, <4>4, <4>5
    <3>2. CASE GivesUp
      <4>1. wpc' = wpc /\ lost' = lost \cup (counted \ begun)
        BY <3>2 DEF GivesUp, TrailerTimeout, TickStalled, GiveUp, writeVars
      <4>2. ~HandleJoin
        BY <4>1 DEF HandleJoin, Joins
      <4>3. r \in begun
        BY <2>1, <4>2
      <4> QED
        BY <2>2, <4>1, <4>3
    <3>3. CASE lost' = lost
      BY <2>2, <3>3
    <3> QED
      BY <3>1, <3>2, <3>3, CountEffect
  <2> QED
    BY <2>1, <2>2, <2>3, CompleteEffect
<1>4. ASSUME ~gaveUp', NEW r \in lost' PROVE ~Complete(r)'
  <2>1. /\ ~gaveUp
        /\ r \in lost \/ ((FirstRefused \/ SecondRefused) /\ r = half.seq)
    BY <1>4, CountEffect DEF TypeOK, CountOK
  <2>2. (FirstRefused \/ SecondRefused) => Undecided /\ ~SecondAccepted
    BY DEF FirstRefused, SecondRefused, Undecided, SecondAccepted
  <2>3. r \in Nat /\ ~Complete(r)
    BY <1>0, <1>1, <2>1, <2>2 DEF GateInv, FateDecided
  <2>4. ~(SecondAccepted /\ r = half.seq)
    BY <1>1, <2>1, <2>2 DEF SecondAccepted, Undecided
  <2> QED
    BY <2>3, <2>4, CompleteEffect
<1>5. begun \subseteq begun'
  BY CountEffect
<1>6. IsRecord(line') => line'.flag \in begun'
  <2>1. CASE HandleJoin
    BY <1>2, <2>1 DEF HandleJoin
  <2>2. CASE ~HandleJoin
    <3>1. line' = line \/ line' = NoLine \/ line' = IncompleteLine(dropped)
      BY <2>2, WriterFrame DEF Writer, Receive, SeeQuit, Drained, Handle, HandleForget,
         HandleWait, HandleGivenUp, Trailer, ReadDropped, TrailerGate, TrailerDone, Disk,
         WriteNothing, WriteSome, WriteDone, WriteFailed, AfterWrite, CloseFile, writeVars
    <3> QED
      BY <1>5, <3>1 DEF IsRecord, NoLine, IncompleteLine, GateInv, FateDecided
  <2> QED
    BY <2>1, <2>2
<1>7. \A i \in DOMAIN file' : IsRecord(file'[i]) => file'[i].flag \in begun'
  <2> DEFINE Chunks == Lines \cup {PartialLine}
  <2>0. file \in Seq(Chunks) /\ Len(file) \in Nat /\ DOMAIN file = 1..Len(file) /\ offset \in Nat
    BY LenProperties DEF TypeOK, FileOK
  <2>1. ASSUME NEW i \in DOMAIN file, IsRecord(file[i]) PROVE file[i].flag \in begun'
    BY <1>5, <2>1 DEF GateInv, FateDecided
  <2>2. CASE WriteSome
    <3>1. /\ DOMAIN file' = 1..Len(file) + 1 /\ file'[Len(file) + 1] = PartialLine
          /\ \A i \in 1..Len(file) : file'[i] = file[i]
      BY <2>0, <2>2, AppendProperties DEF WriteSome
    <3> QED
      BY <2>0, <2>1, <3>1 DEF IsRecord, PartialLine
  <2>3. CASE WriteDone
    <3>1. line \in Lines /\ (IsRecord(line) => line.flag \in begun')
      BY <1>5, <2>3 DEF WriteDone, GateInv, FateDecided, TypeOK, WriterOK
    <3>2. CASE short
      <4>1. /\ DOMAIN file' = 1..Len(file)
            /\ \A i \in 1..Len(file) : file'[i] = IF i = Len(file) THEN line ELSE file[i]
        BY <2>0, <2>3, <3>1, <3>2, ExceptSeq DEF WriteDone, FileShape
      <4> QED
        BY <2>0, <2>1, <3>1, <4>1
    <3>3. CASE ~short
      <4>1. /\ DOMAIN file' = 1..Len(file) + 1 /\ file'[Len(file) + 1] = line
            /\ \A i \in 1..Len(file) : file'[i] = file[i]
        BY <2>0, <2>3, <3>1, <3>3, AppendProperties DEF WriteDone
      <4> QED
        BY <2>0, <2>1, <3>1, <4>1
    <3> QED
      BY <3>2, <3>3
  <2>4. CASE file' = SubSeq(file, 1, offset)
    <3>1. offset <= Len(file) /\ \A i \in 1..offset : file[i] \in Chunks
      BY DEF FileShape
    <3>2. /\ file' \in Seq(Chunks)
          /\ Len(file') = IF 1 <= offset THEN offset - 1 + 1 ELSE 0
          /\ \A i \in 1..offset - 1 + 1 : file'[i] = file[1 + i - 1]
      BY <2>0, <2>4, <3>1, SubSeqProperties
    <3>3. DOMAIN file' = 1..offset
      BY <2>0, <3>2, LenProperties
    <3>4. \A i \in 1..offset : file'[i] = file[i] /\ i \in DOMAIN file
      BY <2>0, <3>1, <3>2
    <3> QED
      BY <2>1, <3>3, <3>4
  <2>5. CASE file' = file
    BY <2>1, <2>5
  <2> QED
    BY <2>2, <2>3, <2>4, <2>5, FileFrame DEF Disk, WriteNothing, WriteFailed, CloseFile, fileVars
<1> QED
  BY <1>3, <1>4, <1>6, <1>7 DEF FateDecided

LEMMA InitGate == Init => GateInv
<1> SUFFICES ASSUME Init PROVE GateInv
  OBVIOUS
<1>1. SeqsGivenOut
  BY DEF Init, SeqsGivenOut, NoPair
<1>2. \A r \in Nat, s \in Sides : ~Present(r, s)
  BY DEF Init, Present
<1>3. BothHalves
  BY <1>2 DEF Init, BothHalves, Sides
<1>4. HalfInSend /\ OpenPairs
  BY DEF Init, HalfInSend, OpenPairs, Undecided, NoPair
<1>5. FateDecided
  BY DEF Init, FateDecided, IsRecord, NoLine
<1> QED
  BY <1>1, <1>3, <1>4, <1>5 DEF GateInv

\* A record is never both counted lost and begun or in the file: the gate decides,
\* for any number of flags, any queue, live or replay (giveUp, writeRecord, send).
THEOREM LostNeverWrittenAlways == Spec => []LostNeverWritten
<1>1. TypeOK /\ FileShape /\ GateInv /\ [Next]_vars => GateInv'
  BY SeqsStep, BothStep, HalfStep, PairsStep, FateStep DEF GateInv
<1>2. GateInv => LostNeverWritten
  BY DEF GateInv, FateDecided, LostNeverWritten, InFile
<1> QED
  BY InitGate, TypeCorrect, <1>1, <1>2, PTL DEF Spec


-----------------------------------------------------------------------------
(***************************************************************************)
(* The order of the halves.  A half goes from send through the channel and *)
(* the writer's hand to its maps; OrderInv says that halves of one key     *)
(* never overtake one another there, so that the second half of a record   *)
(* always meets the first.                                                 *)
(***************************************************************************)
Half(k, s, r) == [key |-> k, side |-> s, seq |-> r]
Twin(m)       == Half(m.key, Other(m.side), m.seq)

InChannel(m) == \E i \in DOMAIN in : in[i] = m
InHand(m)    == wpc = "handle" /\ hand = m
Waits(m)     == m.seq # 0 /\ waiting[m.side][m.key] = m.seq
Held(m)      == InChannel(m) \/ InHand(m) \/ Waits(m)
Sending(m)   == mu \notin {"free", "secondQueued"} /\ half = m

Ahead(m, n) ==
  \/ \E i, j \in DOMAIN in : i < j /\ in[i] = m /\ in[j] = n
  \/ InHand(m) /\ InChannel(n)
  \/ Waits(m) /\ (InHand(n) \/ InChannel(n))
  \/ Held(m) /\ Sending(n)

Precedes(m, n) ==
  /\ m.key = n.key => m.seq <= n.seq
  /\ m.seq = n.seq => m.key = n.key /\ m.side # n.side

InOrder  == \A m, n \in Msg : Ahead(m, n) => Precedes(m, n)
OneWaits == \A m, n \in Msg :
              Waits(m) /\ Waits(n) /\ (m.seq = n.seq \/ m.key = n.key) => m = n

\* The open record of a key is the newest of that key the writer can know.
PairsLast ==
  \A k \in Keys, m \in Msg : pairs[k].seq # 0 /\ Held(m) =>
    /\ m.key = k => m.seq <= pairs[k].seq
    /\ m.seq = pairs[k].seq => m.key = k /\ m.side = pairs[k].side

\* The first half of an open record is with the writer until the second is decided.
FirstHeld ==
  /\ \A k \in Keys : pairs[k].seq # 0 /\ ~pairs[k].lost =>
       Held(Half(k, pairs[k].side, pairs[k].seq))
  /\ mu = "second" => Held(Twin(half)) /\ pairs[half.key].seq = 0
  /\ mu \in {"first", "firstRefused"} => pairs[half.key].seq < half.seq

OrderInv == InOrder /\ OneWaits /\ PairsLast /\ FirstHeld

\* What a half is made of.
LEMMA HalfParts ==
  ASSUME NEW m \in Msg
  PROVE  /\ m.key \in Keys /\ m.side \in Sides /\ m.seq \in Nat
         /\ m = Half(m.key, m.side, m.seq)
         /\ Other(m.side) \in Sides /\ Other(m.side) # m.side /\ Other(Other(m.side)) = m.side
         /\ \A s \in Sides : s = m.side \/ s = Other(m.side)
         /\ Twin(m) \in Msg /\ Twin(Twin(m)) = m
BY DEF Msg, Half, Twin, Sides, Other

\* Equal parts, equal halves.
LEMMA HalfEqual ==
  ASSUME NEW m \in Msg, NEW n \in Msg, m.key = n.key, m.side = n.side, m.seq = n.seq
  PROVE  m = n
BY HalfParts

\* The halves the state holds are halves, of records given out.
LEMMA HeldParts ==
  ASSUME TypeOK, SeqsGivenOut
  PROVE  /\ DOMAIN in = 1..Len(in) /\ Len(in) \in Nat /\ in \in Seq(Msg)
         /\ \A i \in 1..Len(in) : in[i] \in Msg
         /\ wpc = "handle" => hand \in Msg
         /\ mu # "free" => half \in Msg
         /\ \A m \in Msg : Held(m) => m.seq \in 1..seq /\ Present(m.seq, m.side)
<1>1. DOMAIN in = 1..Len(in) /\ Len(in) \in Nat /\ in \in Seq(Msg)
  BY LenProperties DEF TypeOK, QueueOK
<1>2. \A i \in 1..Len(in) : in[i] \in Msg
  BY <1>1, ElementOfSeq
<1>3. (wpc = "handle" => hand \in Msg) /\ (mu # "free" => half \in Msg)
  BY DEF TypeOK, WriterOK, SendOK
<1>4. ASSUME NEW m \in Msg, Held(m) PROVE m.seq \in 1..seq /\ Present(m.seq, m.side)
  <2>1. m.key \in Keys /\ m.side \in Sides /\ m.seq \in Nat
    BY HalfParts
  <2>2. Present(m.seq, m.side)
    BY <1>4, <2>1 DEF Held, InChannel, InHand, Waits, Present
  <2> QED
    BY <2>1, <2>2, PresentBound
<1> QED
  BY <1>1, <1>2, <1>3, <1>4

\* What handling a message does to the maps.
LEMMA HandleEffect ==
  ASSUME TypeOK, Handle
  PROVE  /\ wpc = "handle" /\ wpc' # "handle" /\ in' = in /\ hand' = hand /\ hand \in Msg
         /\ UNCHANGED sendVars
         /\ \A m \in Msg : Waits(m)' =>
              \/ Waits(m) /\ abandoned[m.key] # m.seq /\ (m.key = hand.key => HandleForget \/ (Joins /\ m.side = hand.side))
              \/ HandleWait /\ m = hand
         /\ \A m \in Msg : Waits(m) /\ ~Waits(m)' =>
              \/ abandoned[m.key] = m.seq
              \/ HandleWait /\ m.key = hand.key /\ (m.side = hand.side \/ m.seq # hand.seq)
              \/ Joins /\ m = Twin(hand)
<1>1. /\ wpc = "handle" /\ wpc' # "handle" /\ in' = in /\ hand' = hand /\ hand \in Msg
      /\ UNCHANGED sendVars
  BY DEF Handle, HandleForget, HandleWait, HandleJoin, HandleGivenUp, Joins, TypeOK, WriterOK
<1>2. /\ hand.key \in Keys /\ hand.side \in Sides /\ hand.seq \in Nat
      /\ Other(hand.side) \in Sides /\ Other(hand.side) # hand.side
      /\ \A s \in Sides : s = hand.side \/ s = Other(hand.side)
  BY <1>1, HalfParts
<1>3. /\ waiting \in [Sides -> [Keys -> Nat]] /\ Forget \in [Sides -> [Keys -> Nat]]
      /\ \A s \in Sides, k \in Keys :
           Forget[s][k] = IF abandoned[k] # 0 /\ waiting[s][k] = abandoned[k]
                          THEN 0 ELSE waiting[s][k]
  BY DEF Forget, TypeOK, WriterOK
<1>4. \A m \in Msg : m.key \in Keys /\ m.side \in Sides /\ m.seq \in Nat
  BY HalfParts
<1>5. Twin(hand) = Half(hand.key, Other(hand.side), hand.seq) /\ Twin(hand) \in Msg
  BY <1>1, HalfParts DEF Twin
<1>6. CASE HandleForget
  <2>1. waiting' = Forget
    BY <1>6 DEF HandleForget
  <2> QED
    BY <1>1, <1>3, <1>4, <1>6, <2>1 DEF Waits
<1>7. CASE HandleWait
  <2>1. /\ Partner(hand) # hand.seq /\ Partner(hand) = Forget[Other(hand.side)][hand.key]
        /\ waiting' = [Forget EXCEPT ![Other(hand.side)][hand.key] = 0,
                                     ![hand.side][hand.key] = hand.seq]
    BY <1>7 DEF HandleWait, SameRecord, Partner
  <2>2. \A s \in Sides, k \in Keys :
          waiting'[s][k] = IF k = hand.key THEN (IF s = hand.side THEN hand.seq ELSE 0)
                           ELSE Forget[s][k]
    BY <1>2, <1>3, <2>1
  <2>4. ASSUME NEW m \in Msg, Waits(m)'
        PROVE  \/ Waits(m) /\ abandoned[m.key] # m.seq /\ m.key # hand.key
               \/ m = hand
    <3>1. CASE m.key = hand.key
      <4>1. m.side = hand.side /\ m.seq = hand.seq
        BY <1>4, <2>2, <2>4, <3>1 DEF Waits
      <4> QED
        BY <1>1, <3>1, <4>1, HalfEqual
    <3>2. CASE m.key # hand.key
      BY <1>3, <1>4, <2>2, <2>4, <3>2 DEF Waits
    <3> QED
      BY <3>1, <3>2
  <2>5. ASSUME NEW m \in Msg, Waits(m), ~Waits(m)', abandoned[m.key] # m.seq
        PROVE  m.key = hand.key /\ (m.side = hand.side \/ m.seq # hand.seq)
    <3>1. Forget[m.side][m.key] = m.seq
      BY <1>3, <1>4, <2>5 DEF Waits
    <3>2. m.key = hand.key
      BY <1>4, <2>2, <2>5, <3>1 DEF Waits
    <3> QED
      BY <1>2, <1>4, <2>1, <3>1, <3>2
  <2> QED
    BY <1>1, <1>7, <2>4, <2>5
<1>8. CASE Joins
  <2>1. /\ Partner(hand) = hand.seq /\ Partner(hand) = Forget[Other(hand.side)][hand.key]
        /\ waiting' = [Forget EXCEPT ![Other(hand.side)][hand.key] = 0]
    BY <1>8 DEF Joins, SameRecord, Partner
  <2>2. \A s \in Sides, k \in Keys :
          waiting'[s][k] = IF k = hand.key /\ s = Other(hand.side) THEN 0 ELSE Forget[s][k]
    BY <1>2, <1>3, <2>1
  <2>4. ASSUME NEW m \in Msg, Waits(m)'
        PROVE  Waits(m) /\ abandoned[m.key] # m.seq /\ (m.key = hand.key => m.side = hand.side)
    BY <1>2, <1>3, <1>4, <2>2, <2>4 DEF Waits
  <2>5. ASSUME NEW m \in Msg, Waits(m), ~Waits(m)', abandoned[m.key] # m.seq
        PROVE  m = Twin(hand)
    <3>1. Forget[m.side][m.key] = m.seq
      BY <1>3, <1>4, <2>5 DEF Waits
    <3>2. m.key = hand.key /\ m.side = Other(hand.side)
      BY <1>4, <2>2, <2>5, <3>1 DEF Waits
    <3>3. m.seq = hand.seq
      BY <2>1, <3>1, <3>2
    <3> QED
      BY <1>5, <3>2, <3>3, HalfParts DEF Half
  <2> QED
    BY <1>1, <1>8, <2>4, <2>5
<1> QED
  BY <1>6, <1>7, <1>8 DEF Handle, HandleJoin, HandleGivenUp

\* What a step does to the channel, the writer's hand and its maps.
LEMMA ChannelEffect ==
  ASSUME TypeOK, SeqsGivenOut, [Next]_vars
  PROVE  \/ /\ FirstQueued \/ SecondAccepted
            /\ half \in Msg /\ DOMAIN in' = 1..Len(in) + 1 /\ in'[Len(in) + 1] = half
            /\ \A i \in 1..Len(in) : in'[i] = in[i]
            /\ UNCHANGED <<waiting, wpc, hand>>
         \/ /\ Receive
            /\ Len(in) >= 1 /\ hand' = in[1] /\ DOMAIN in' = 1..Len(in) - 1
            /\ \A i \in 1..Len(in) - 1 : in'[i] = in[i + 1]
            /\ wpc # "handle" /\ wpc' = "handle" /\ UNCHANGED waiting
         \/ Handle
         \/ /\ ~Handle /\ ~Receive /\ ~FirstQueued /\ ~SecondAccepted
            /\ UNCHANGED <<in, waiting>>
            /\ wpc' = "handle" <=> wpc = "handle"
            /\ wpc = "handle" => hand' = hand
<1>0. in \in Seq(Msg) /\ DOMAIN in = 1..Len(in) /\ Len(in) \in Nat
  BY HeldParts
<1>1. CASE FirstQueued \/ SecondAccepted
  <2>1. half \in Msg /\ in' = Append(in, half) /\ UNCHANGED writeVars
    BY <1>1 DEF FirstQueued, SecondAccepted, TypeOK, SendOK
  <2>2. /\ DOMAIN in' = 1..Len(in) + 1 /\ in'[Len(in) + 1] = half
        /\ \A i \in 1..Len(in) : in'[i] = in[i]
    BY <1>0, <2>1, AppendProperties
  <2> QED
    BY <1>1, <2>1, <2>2 DEF writeVars
<1>2. CASE Receive
  <2>1. /\ in # <<>> /\ in' = Tail(in) /\ hand' = Head(in) /\ UNCHANGED waiting
        /\ wpc # "handle" /\ wpc' = "handle"
    BY <1>2 DEF Receive
  <2>2. /\ Len(in) >= 1 /\ hand' = in[1] /\ DOMAIN in' = 1..Len(in) - 1
        /\ \A i \in 1..Len(in) - 1 : in'[i] = in[i + 1]
    BY <1>0, <2>1, HeadTailProperties, LenProperties
  <2> QED
    BY <1>2, <2>1, <2>2
<1>3. CASE ~(FirstQueued \/ SecondAccepted \/ Receive \/ Handle)
  <2>1. CASE Writer
    BY <1>3, <2>1 DEF Writer, SeeQuit, Drained, Trailer, ReadDropped, TrailerGate, TrailerDone
  <2>2. CASE Disk
    BY <1>3, <2>2 DEF Disk, WriteNothing, WriteSome, WriteDone, WriteFailed, AfterWrite,
       CloseFile
  <2>3. CASE Senders \/ Close \/ Await \/ UNCHANGED vars
    <3>1. UNCHANGED <<in, writeVars>>
      BY <1>3, <2>3 DEF Senders, Call, SendToLostRecord, SendSecond, SendFirst, Enqueue,
         EnqueueRefused, Account, FirstRefused, SecondQueued, SecondRefused, Abandon, Close,
         Await, AwaitDrained, AwaitTrailer, TickMoved, GivesUp, TrailerTimeout, TickStalled,
         GiveUp, AwaitFinished, CloseReturns, vars
    <3> QED
      BY <1>3, <3>1 DEF writeVars
  <2> QED
    BY <2>1, <2>2, <2>3 DEF Next, Senders
<1> QED
  BY <1>1, <1>2, <1>3

Starts(k, s) == SendFirst(k, s) \/ SendSecond(k, s)

\* What a step does to the half in send.
LEMMA SendingEffect ==
  ASSUME [Next]_vars
  PROVE  \/ \E k \in Keys, s \in Sides : SendToLostRecord(k, s) \/ Starts(k, s)
         \/ /\ FirstQueued \/ SecondAccepted \/ FirstRefused \/ Abandon \/ SecondQueued
            /\ mu' \in {"free", "secondQueued"} /\ half' = half
         \/ EnqueueRefused /\ half' = half
         \/ SecondRefused /\ mu' = "abandon" /\ half' = half
         \/ UNCHANGED sendVars
<1>1. CASE Senders
  BY <1>1 DEF Senders, Call, Starts, Enqueue, FirstQueued, SecondAccepted, EnqueueRefused,
     Account, FirstRefused, SecondQueued, SecondRefused, Abandon
<1> QED
  BY <1>1, SendFrame

LEMMA SendingGrowth ==
  ASSUME [Next]_vars, NEW n, Sending(n)'
  PROVE  \/ Sending(n)
         \/ \E k \in Keys, s \in Sides : Starts(k, s) /\ half' = n
<1>1. ASSUME NEW k \in Keys, NEW s \in Sides, SendToLostRecord(k, s)
      PROVE  FALSE
  BY <1>1 DEF SendToLostRecord, Sending
<1>2. half' = n
  BY DEF Sending
<1> QED
  BY <1>1, <1>2, SendingEffect DEF Sending, EnqueueRefused, SecondRefused, sendVars

\* A half comes to the writer from send, and leaves it only in the hand or in forget.
LEMMA HeldGrowth ==
  ASSUME TypeOK, SeqsGivenOut, [Next]_vars, NEW m \in Msg, Held(m)'
  PROVE  Held(m) \/ ((FirstQueued \/ SecondAccepted) /\ m = half)
<1>0. /\ DOMAIN in = 1..Len(in) /\ Len(in) \in Nat
  BY HeldParts
<1>1. CASE Handle
  BY <1>1, HandleEffect DEF Held, InHand, InChannel
<1> QED
  BY <1>0, <1>1, ChannelEffect DEF Held, InHand, InChannel, Waits

LEMMA HeldLoss ==
  ASSUME TypeOK, SeqsGivenOut, [Next]_vars, NEW m \in Msg, Held(m), ~Held(m)'
  PROVE  /\ Handle
         /\ \/ m = hand /\ (HandleForget \/ Joins)
            \/ Waits(m) /\ abandoned[m.key] = m.seq
            \/ /\ HandleWait /\ Waits(m) /\ m.key = hand.key
               /\ m.side = hand.side \/ m.seq # hand.seq
            \/ Joins /\ Waits(m) /\ m = Twin(hand)
<1>0. /\ DOMAIN in = 1..Len(in) /\ Len(in) \in Nat
  BY HeldParts
<1>1. CASE Handle
  <2>1. InHand(m) \/ (Waits(m) /\ ~Waits(m)')
    BY <1>1, HandleEffect DEF Held, InChannel
  <2>2. CASE Waits(m) /\ ~Waits(m)'
    BY <1>1, <2>2, HandleEffect
  <2>3. CASE InHand(m)
    <3>1. CASE HandleWait
      <4>1. hand \in Msg /\ hand.seq \in 1..seq
        BY <3>1 DEF HandleWait, TypeOK, WriterOK, SeqsGivenOut
      <4>2. waiting'[hand.side][hand.key] = hand.seq
        <5>1. Forget \in [Sides -> [Keys -> Nat]]
          BY DEF Forget, TypeOK, WriterOK
        <5>2. hand.key \in Keys /\ hand.side \in Sides
          BY <4>1, HalfParts
        <5> QED
          BY <3>1, <5>1, <5>2 DEF HandleWait
      <4>3. seq \in Nat
        BY DEF TypeOK, SendOK
      <4>4. Waits(m)'
        BY <2>3, <4>1, <4>2, <4>3 DEF Waits, InHand
      <4> QED
        BY <4>4 DEF Held
    <3> QED
      BY <1>1, <2>3, <3>1 DEF Handle, HandleJoin, HandleGivenUp, InHand
  <2> QED
    BY <2>1, <2>2, <2>3
<1>2. CASE ~Handle
  <2>1. CASE Receive
    <3>1. /\ Len(in) >= 1 /\ hand' = in[1] /\ DOMAIN in' = 1..Len(in) - 1
          /\ \A i \in 1..Len(in) - 1 : in'[i] = in[i + 1]
          /\ wpc # "handle" /\ wpc' = "handle" /\ UNCHANGED waiting
      BY <2>1, ChannelEffect DEF Receive, FirstQueued, SecondAccepted, Handle, HandleForget,
         HandleWait, HandleJoin, HandleGivenUp, Joins, writeVars
    <3>2. CASE InChannel(m)
      <4>1. PICK i \in 1..Len(in) : in[i] = m
        BY <1>0, <3>2 DEF InChannel
      <4>2. CASE i = 1
        BY <3>1, <4>1, <4>2 DEF Held, InHand
      <4>3. CASE i > 1
        <5>1. i - 1 \in DOMAIN in' /\ in'[i - 1] = m
          BY <1>0, <3>1, <4>1, <4>3
        <5> QED
          BY <5>1 DEF Held, InChannel
      <4> QED
        BY <1>0, <4>1, <4>2, <4>3
    <3> QED
      BY <3>1, <3>2 DEF Held, InHand, Waits
  <2>2. CASE ~Receive
    BY <1>0, <1>2, <2>2, ChannelEffect DEF Held, InHand, InChannel, Waits
  <2> QED
    BY <2>1, <2>2
<1> QED
  BY <1>1, <1>2

\* Who is ahead of whom changes only when a half enters send.
LEMMA AheadGrowth ==
  ASSUME TypeOK, SeqsGivenOut, [Next]_vars, NEW m \in Msg, NEW n \in Msg, Ahead(m, n)'
  PROVE  \/ Ahead(m, n)
         \/ Held(m) /\ \E k \in Keys, s \in Sides : Starts(k, s) /\ half' = n
<1>0. /\ DOMAIN in = 1..Len(in) /\ Len(in) \in Nat
  BY HeldParts
<1>1. CASE FirstQueued \/ SecondAccepted
  <2>1. /\ DOMAIN in' = 1..Len(in) + 1 /\ in'[Len(in) + 1] = half
        /\ \A i \in 1..Len(in) : in'[i] = in[i]
        /\ UNCHANGED <<waiting, wpc, hand>>
    <3>1. wpc' = wpc
      BY <1>1 DEF FirstQueued, SecondAccepted, writeVars
    <3>2. ~Receive /\ ~Handle
      BY <3>1 DEF Receive, Handle, HandleForget, HandleWait, HandleJoin, HandleGivenUp, Joins
    <3> QED
      BY <1>1, <3>2, ChannelEffect
  <2>2. Sending(half) /\ ~Sending(n)'
    BY <1>1 DEF Sending, FirstQueued, SecondAccepted
  <2>3. \A q : InChannel(q)' => InChannel(q) \/ q = half
    BY <1>0, <2>1 DEF InChannel
  <2>4. CASE \E i, j \in DOMAIN in' : i < j /\ in'[i] = m /\ in'[j] = n
    <3>1. PICK i \in DOMAIN in', j \in DOMAIN in' : i < j /\ in'[i] = m /\ in'[j] = n
      BY <2>4
    <3>2. i \in DOMAIN in /\ in[i] = m
      BY <1>0, <2>1, <3>1
    <3>3. CASE j = Len(in) + 1
      BY <2>1, <2>2, <3>1, <3>2, <3>3 DEF Ahead, Held, InChannel
    <3>4. CASE j # Len(in) + 1
      BY <1>0, <2>1, <3>1, <3>2, <3>4 DEF Ahead
    <3> QED
      BY <3>3, <3>4
  <2>5. CASE (InHand(m) \/ Waits(m))' /\ (InHand(n) \/ InChannel(n))'
    BY <2>1, <2>2, <2>3, <2>5, <2>4 DEF Ahead, Held, InHand, Waits
  <2> QED
    BY <2>2, <2>4, <2>5 DEF Ahead
<1>2. CASE Receive
  <2>1. /\ Len(in) >= 1 /\ hand' = in[1] /\ DOMAIN in' = 1..Len(in) - 1
        /\ \A i \in 1..Len(in) - 1 : in'[i] = in[i + 1]
        /\ wpc # "handle" /\ wpc' = "handle" /\ UNCHANGED waiting
    BY <1>2, ChannelEffect DEF Receive, FirstQueued, SecondAccepted, Handle, HandleForget,
       HandleWait, HandleJoin, HandleGivenUp, Joins, writeVars
  <2>2. \A q : Sending(q)' <=> Sending(q)
    BY <1>2 DEF Receive, Sending, sendVars
  <2>3. \A q : InHand(q)' => in[1] = q
    BY <2>1 DEF InHand
  <2>4. \A i \in DOMAIN in' : i + 1 \in DOMAIN in /\ i + 1 > 1 /\ in'[i] = in[i + 1]
    BY <1>0, <2>1
  <2>5. \A q : (InHand(q) \/ InChannel(q))' => InChannel(q)
    BY <1>0, <2>1, <2>3, <2>4 DEF InChannel
  <2>6. 1 \in DOMAIN in
    BY <1>0, <2>1
  <2>7. CASE \E i, j \in DOMAIN in' : i < j /\ in'[i] = m /\ in'[j] = n
    <3>1. PICK i \in DOMAIN in', j \in DOMAIN in' : i < j /\ in'[i] = m /\ in'[j] = n
      BY <2>7
    <3>2. i + 1 < j + 1
      BY <1>0, <2>1, <3>1
    <3> QED
      BY <2>4, <3>1, <3>2 DEF Ahead
  <2>8. CASE InHand(m)' /\ InChannel(n)'
    BY <2>3, <2>4, <2>6, <2>8 DEF Ahead, InChannel
  <2>9. CASE Waits(m)' /\ (InHand(n) \/ InChannel(n))'
    BY <2>1, <2>5, <2>9 DEF Ahead, Waits
  <2>10. CASE Held(m)' /\ Sending(n)'
    BY <2>1, <2>2, <2>5, <2>10 DEF Ahead, Held, Waits
  <2> QED
    BY <2>7, <2>8, <2>9, <2>10 DEF Ahead
<1>3. CASE Handle
  <2>1. in' = in /\ wpc' # "handle" /\ UNCHANGED sendVars
    BY <1>3, HandleEffect
  <2>2. Waits(m)' => Waits(m) \/ InHand(m)
    BY <1>3, HandleEffect DEF InHand
  <2>3. \A q : /\ (InChannel(q)' <=> InChannel(q)) /\ ~InHand(q)'
              /\ (Sending(q)' <=> Sending(q))
    BY <2>1 DEF InHand, InChannel, Sending, sendVars
  <2> QED
    BY <2>1, <2>2, <2>3 DEF Ahead, Held
<1>4. CASE /\ ~Handle /\ ~Receive /\ ~FirstQueued /\ ~SecondAccepted
           /\ UNCHANGED <<in, waiting>>
           /\ wpc' = "handle" <=> wpc = "handle"
           /\ wpc = "handle" => hand' = hand
  <2>1. \A q : (InHand(q)' <=> InHand(q)) /\ (Waits(q)' <=> Waits(q))
               /\ (InChannel(q)' <=> InChannel(q))
    BY <1>4 DEF InHand, Waits, InChannel
  <2>2. CASE Sending(n)' /\ ~Sending(n)
    BY <1>4, <2>1, <2>2, SendingGrowth DEF Ahead, Held
  <2>3. CASE ~(Sending(n)' /\ ~Sending(n))
    BY <1>4, <2>1, <2>3 DEF Ahead, Held
  <2> QED
    BY <2>2, <2>3
<1> QED
  BY <1>1, <1>2, <1>3, <1>4, ChannelEffect

\* A record abandoned was counted lost.
AbandonedLost ==
  /\ \A k \in Keys : abandoned[k] # 0 => abandoned[k] \in lost
  /\ mu = "abandon" => half.seq \in lost

LEMMA AbandonedStep == TypeOK /\ SeqsGivenOut /\ AbandonedLost /\ [Next]_vars => AbandonedLost'
<1> SUFFICES ASSUME TypeOK, SeqsGivenOut, AbandonedLost, [Next]_vars PROVE AbandonedLost'
  OBVIOUS
<1>1. lost \subseteq lost'
  BY CountEffect
<1>2. \A k \in Keys : abandoned'[k] # 0 =>
        \/ abandoned'[k] = abandoned[k]
        \/ Abandon /\ abandoned'[k] = half.seq
  <2>1. CASE Abandon
    BY <2>1 DEF Abandon, News, TypeOK, SendOK
  <2>2. CASE Handle
    BY <2>2 DEF Handle, HandleForget, HandleWait, HandleJoin, HandleGivenUp, Joins, ClearForsaken
  <2>3. CASE ~Abandon /\ ~Handle
    <3>1. abandoned' = abandoned
      BY <2>3 DEF Next, Call, SendToLostRecord, SendSecond, SendFirst, Enqueue, FirstQueued,
         SecondAccepted, EnqueueRefused, Account, FirstRefused, SecondQueued, SecondRefused,
         Close, Await, AwaitDrained, AwaitTrailer, TickMoved, GivesUp, TrailerTimeout,
         TickStalled, GiveUp, AwaitFinished, CloseReturns, Writer, Receive, SeeQuit, Drained,
         Trailer, ReadDropped, TrailerGate, TrailerDone, Disk, WriteNothing, WriteSome,
         WriteDone, WriteFailed, AfterWrite, CloseFile, vars
    <3> QED
      BY <3>1
  <2> QED
    BY <2>1, <2>2, <2>3
<1>3. mu' = "abandon" => half'.seq \in lost'
  <2>1. CASE SecondRefused
    BY <2>1 DEF SecondRefused, CountDropped
  <2>2. CASE ~SecondRefused
    BY <1>1, <2>2, SendingEffect DEF AbandonedLost, SendToLostRecord, Starts, SendFirst,
       SendSecond, EnqueueRefused, sendVars
  <2> QED
    BY <2>1, <2>2
<1>4. Abandon => half.seq \in lost
  BY DEF AbandonedLost, Abandon
<1> QED
  BY <1>1, <1>2, <1>3, <1>4 DEF AbandonedLost

\* Handling a message that joins means its twin waits.
LEMMA JoinsTwin ==
  ASSUME TypeOK, SeqsGivenOut, Joins
  PROVE  /\ hand \in Msg /\ InHand(hand) /\ Waits(Twin(hand))
         /\ abandoned[hand.key] # hand.seq
<1>1. hand \in Msg /\ wpc = "handle" /\ hand.seq \in 1..seq /\ seq \in Nat
  BY DEF Joins, TypeOK, WriterOK, SendOK, SeqsGivenOut
<1>2. /\ hand.key \in Keys /\ hand.side \in Sides /\ hand.seq \in Nat /\ hand.seq # 0
      /\ Other(hand.side) \in Sides
  BY <1>1, HalfParts
<1>3. Forget[Other(hand.side)][hand.key] = hand.seq
  BY DEF Joins, SameRecord, Partner
<1>4. waiting[Other(hand.side)][hand.key] = hand.seq /\ abandoned[hand.key] # hand.seq
  BY <1>2, <1>3 DEF Forget
<1> QED
  BY <1>1, <1>2, <1>4 DEF InHand, Waits, Twin, Half

\* The first half of a record still open stays with the writer: no half of its key
\* behind it can push it out.
LEMMA FirstStays ==
  ASSUME TypeOK, SeqsGivenOut, InOrder, AbandonedLost, [Next]_vars,
         NEW h \in Msg, Held(h), h.seq \notin lost, ~Present(h.seq, Other(h.side)),
         \A m \in Msg : Held(m) /\ m.key = h.key =>
           m.seq <= h.seq /\ (m.seq = h.seq => m.side = h.side)
  PROVE  Held(h)'
<1> SUFFICES ASSUME ~Held(h)' PROVE FALSE
  OBVIOUS
<1>1. /\ Handle /\ hand \in Msg /\ InHand(hand) /\ h.seq # 0
      /\ h.key \in Keys /\ h.side \in Sides /\ h.seq \in Nat
  <2>1. Handle
    BY HeldLoss
  <2>2. h.seq \in 1..seq
    BY HeldParts
  <2> QED
    BY <2>1, <2>2, HandleEffect, HalfParts DEF InHand
<1>2. Held(hand)
  BY <1>1 DEF Held
<1>3. abandoned[h.key] # h.seq
  BY <1>1 DEF AbandonedLost
<1>4. ~(h = hand /\ HandleForget)
  BY <1>3 DEF HandleForget, IsForsaken
<1>5. ~(h = hand /\ Joins)
  <2> SUFFICES ASSUME h = hand, Joins PROVE FALSE
    OBVIOUS
  <2>1. Waits(Twin(hand)) /\ Twin(hand) \in Msg
    BY <1>1, JoinsTwin, HalfParts
  <2>2. Present(Twin(hand).seq, Twin(hand).side)
    BY <2>1, HeldParts DEF Held
  <2> QED
    BY <2>2 DEF Twin, Half
<1>6. ~(Joins /\ h = Twin(hand))
  <2> SUFFICES ASSUME Joins, h = Twin(hand) PROVE FALSE
    OBVIOUS
  <2>1. hand.seq = h.seq /\ hand.side = Other(h.side)
    BY <1>1, HalfParts DEF Twin, Half
  <2> QED
    BY <1>1, <1>2, <2>1, HeldParts
<1>7. ~(Waits(h) /\ h.key = hand.key /\ (h.side = hand.side \/ h.seq # hand.seq))
  <2> SUFFICES ASSUME Waits(h), h.key = hand.key, h.side = hand.side \/ h.seq # hand.seq
               PROVE FALSE
    OBVIOUS
  <2>1. Precedes(h, hand)
    BY <1>1 DEF Ahead, InOrder
  <2>2. h.seq <= hand.seq /\ hand.seq <= h.seq /\ hand.seq \in Nat
    BY <1>1, <1>2, <2>1, HalfParts DEF Precedes
  <2>3. h.seq = hand.seq
    BY <1>1, <2>2
  <2> QED
    BY <1>1, <1>2, <2>1, <2>3 DEF Precedes
<1> QED
  BY <1>3, <1>4, <1>5, <1>6, <1>7, HeldLoss

LEMMA OrderStep ==
  TypeOK /\ GateInv /\ OrderInv /\ [Next]_vars => InOrder'
<1> SUFFICES ASSUME TypeOK, GateInv, OrderInv, [Next]_vars,
                    NEW m \in Msg, NEW n \in Msg, Ahead(m, n)'
             PROVE  Precedes(m, n)
  BY DEF InOrder, Precedes
<1>0. SeqsGivenOut
  BY DEF GateInv
<1>1. CASE Ahead(m, n)
  BY <1>1 DEF OrderInv, InOrder
<1>2. ASSUME Held(m), NEW k \in Keys, NEW s \in Sides, Starts(k, s), half' = n
      PROVE  Precedes(m, n)
  <2>1. m.seq \in 1..seq /\ seq \in Nat /\ m.side \in Sides
    BY <1>0, <1>2, HeldParts, HalfParts DEF TypeOK, SendOK
  <2>2. CASE SendFirst(k, s)
    <3>1. n.seq = seq + 1
      BY <1>2, <2>2 DEF SendFirst
    <3> QED
      BY <2>1, <3>1 DEF Precedes
  <2>3. CASE SendSecond(k, s)
    <3>1. /\ n.key = k /\ n.side = s /\ n.seq = pairs[k].seq
          /\ pairs[k].seq # 0 /\ pairs[k].side # s
      BY <1>2, <2>3 DEF SendSecond, IsSecond
    <3>2. /\ m.key = k => m.seq <= pairs[k].seq
          /\ m.seq = pairs[k].seq => m.key = k /\ m.side = pairs[k].side
      BY <1>2, <3>1 DEF OrderInv, PairsLast
    <3> QED
      BY <3>1, <3>2 DEF Precedes
  <2> QED
    BY <1>2, <2>2, <2>3 DEF Starts
<1> QED
  BY <1>0, <1>1, <1>2, AheadGrowth

LEMMA OneWaitsStep ==
  TypeOK /\ GateInv /\ OrderInv /\ [Next]_vars => OneWaits'
<1> SUFFICES ASSUME TypeOK, GateInv, OrderInv, [Next]_vars,
                    NEW m \in Msg, NEW n \in Msg, Waits(m)', Waits(n)',
                    m.seq = n.seq \/ m.key = n.key
             PROVE  m = n
  BY DEF OneWaits
<1>0. SeqsGivenOut
  BY DEF GateInv
<1>1. CASE Handle
  <2>1. ~(HandleWait /\ (HandleForget \/ Joins))
    BY DEF HandleWait, HandleForget, Joins
  <2>2. /\ wpc = "handle" /\ hand \in Msg
        /\ \A q \in Msg : Waits(q)' =>
             \/ Waits(q) /\ (q.key = hand.key => ~HandleWait)
             \/ HandleWait /\ q = hand
    BY <1>1, <2>1, HandleEffect
  <2>3. ASSUME NEW q \in Msg, Waits(q), q.key # hand.key PROVE q.seq # hand.seq
    <3>1. Precedes(q, hand)
      BY <2>2, <2>3 DEF Ahead, InHand, OrderInv, InOrder
    <3> QED
      BY <2>3, <3>1 DEF Precedes
  <2>4. CASE Waits(m) /\ Waits(n)
    BY <2>4 DEF OrderInv, OneWaits
  <2>5. CASE HandleWait /\ m = hand /\ Waits(n) /\ n.key # hand.key
    BY <2>3, <2>5
  <2>6. CASE HandleWait /\ n = hand /\ Waits(m) /\ m.key # hand.key
    BY <2>3, <2>6
  <2> QED
    BY <2>2, <2>4, <2>5, <2>6
<1>2. CASE waiting' = waiting
  BY <1>2 DEF Waits, OrderInv, OneWaits
<1> QED
  BY <1>0, <1>1, <1>2, ChannelEffect

\* What a step does to the open records.
LEMMA PairsEffect ==
  ASSUME TypeOK, [Next]_vars, NEW k \in Keys
  PROVE  \/ pairs'[k].seq = 0
         \/ pairs'[k] = pairs[k]
         \/ FirstQueued /\ k = half.key /\ pairs'[k] = [seq |-> half.seq, side |-> half.side, lost |-> FALSE]
         \/ FirstRefused /\ k = half.key /\ pairs'[k] = [seq |-> half.seq, side |-> half.side, lost |-> TRUE]
<1> USE DEF TypeOK, SendOK
<1>1. ASSUME NEW l \in Keys, NEW s \in Sides, SendToLostRecord(l, s) \/ Starts(l, s)
      PROVE  pairs'[k].seq = 0 \/ pairs'[k] = pairs[k]
  BY <1>1 DEF SendToLostRecord, Starts, SendFirst, SendSecond, NoPair
<1>2. CASE FirstQueued \/ FirstRefused
  BY <1>2 DEF FirstQueued, FirstRefused, OpenPair
<1>3. CASE pairs' = pairs
  BY <1>3
<1> QED
  BY <1>1, <1>2, <1>3, SendFrame DEF Senders, Call, Starts, Enqueue, SecondAccepted,
     EnqueueRefused, Account, SecondQueued, SecondRefused, Abandon, sendVars

LEMMA PairsLastStep ==
  TypeOK /\ GateInv /\ OrderInv /\ [Next]_vars => PairsLast'
<1> SUFFICES ASSUME TypeOK, GateInv, OrderInv, [Next]_vars,
                    NEW k \in Keys, NEW m \in Msg, pairs'[k].seq # 0, Held(m)'
             PROVE  /\ m.key = k => m.seq <= pairs'[k].seq
                    /\ m.seq = pairs'[k].seq => m.key = k /\ m.side = pairs'[k].side
  BY DEF PairsLast
<1>0. SeqsGivenOut /\ m.seq \in Nat /\ m.side \in Sides
  BY HalfParts DEF GateInv
<1>1. CASE pairs'[k] = pairs[k]
  <2>1. CASE Held(m)
    BY <1>1, <2>1 DEF OrderInv, PairsLast
  <2>2. CASE (FirstQueued \/ SecondAccepted) /\ m = half
    <3>1. m.seq # pairs[k].seq
      BY <1>1, <2>2 DEF FirstQueued, SecondAccepted, GateInv, OpenPairs
    <3>2. CASE m.key # k
      BY <1>1, <3>1, <3>2
    <3>3. CASE m.key = k /\ SecondAccepted
      BY <1>1, <2>2, <3>3 DEF SecondAccepted, OrderInv, FirstHeld
    <3>4. CASE m.key = k /\ FirstQueued
      <4>1. pairs'[k].seq = half.seq
        BY <2>2, <3>4 DEF FirstQueued, OpenPair, TypeOK, SendOK
      <4> QED
        BY <1>1, <2>2, <3>1, <4>1
    <3> QED
      BY <2>2, <3>2, <3>3, <3>4
  <2> QED
    BY <1>0, <2>1, <2>2, HeldGrowth
<1>2. CASE /\ FirstQueued \/ FirstRefused
           /\ k = half.key /\ pairs'[k].seq = half.seq /\ pairs'[k].side = half.side
  <2>1. CASE m = half
    BY <1>0, <1>2, <2>1
  <2>2. CASE Held(m)
    <3>1. mu \in {"first", "firstRefused"} /\ half \in Msg /\ Sending(half) /\ Undecided
      BY <1>2 DEF FirstQueued, FirstRefused, TypeOK, SendOK, Sending, Undecided
    <3>2. Precedes(m, half)
      BY <2>2, <3>1 DEF Ahead, OrderInv, InOrder
    <3>3. m.seq # half.seq
      <4> SUFFICES ASSUME m.seq = half.seq PROVE FALSE
        OBVIOUS
      <4>1. m.side = Other(half.side)
        BY <1>0, <3>1, <3>2, HalfParts DEF Precedes
      <4>2. Present(half.seq, Other(half.side))
        BY <1>0, <2>2, <4>1, HeldParts
      <4> QED
        BY <3>1, <4>2 DEF GateInv, HalfInSend
    <3> QED
      BY <1>2, <3>2, <3>3 DEF Precedes
  <2> QED
    BY <1>0, <1>2, <2>1, <2>2, HeldGrowth DEF FirstRefused, FirstQueued, SecondAccepted
<1> QED
  BY <1>1, <1>2, PairsEffect

LEMMA FirstHeldStep ==
  TypeOK /\ GateInv /\ AbandonedLost /\ OrderInv /\ [Next]_vars => FirstHeld'
<1> SUFFICES ASSUME TypeOK, GateInv, AbandonedLost, OrderInv, [Next]_vars PROVE FirstHeld'
  OBVIOUS
<1>0. /\ SeqsGivenOut /\ InOrder /\ seq \in Nat
      /\ \A k \in Keys : pairs[k].seq \in Nat /\ pairs[k].side \in Sides
  BY DEF GateInv, OrderInv, TypeOK, SendOK, Pair
<1>1. ASSUME NEW k \in Keys, NEW h \in Msg, h = Half(k, pairs[k].side, pairs[k].seq),
             pairs[k].seq # 0, ~pairs[k].lost
      PROVE  Held(h)'
  <2>1. h.key = k /\ h.side = pairs[k].side /\ h.seq = pairs[k].seq
    BY <1>1 DEF Half
  <2>2. Held(h)
    BY <1>1 DEF OrderInv, FirstHeld
  <2>3. h.seq \notin lost /\ ~Present(h.seq, Other(h.side))
    BY <1>1, <2>1 DEF GateInv, OpenPairs
  <2>4. \A m \in Msg : Held(m) /\ m.key = h.key =>
          m.seq <= h.seq /\ (m.seq = h.seq => m.side = h.side)
    BY <1>1, <2>1 DEF OrderInv, PairsLast
  <2> QED
    BY <1>0, <2>2, <2>3, <2>4, FirstStays
<1>2. ASSUME NEW k \in Keys, pairs'[k].seq # 0, ~pairs'[k].lost
      PROVE  Held(Half(k, pairs[k].side, pairs[k].seq))'
  <2>1. PICK h \in Msg : h = Half(k, pairs'[k].side, pairs'[k].seq)
    <3>1. pairs'[k].side \in Sides /\ pairs'[k].seq \in Nat
      BY SendStep DEF TypeOK, SendOK, Pair
    <3> QED
      BY <3>1 DEF Half, Msg
  <2>2. Held(h)'
    <3>1. CASE pairs'[k] = pairs[k]
      BY <1>1, <1>2, <2>1, <3>1
    <3>2. CASE FirstQueued /\ k = half.key /\ pairs'[k] = [seq |-> half.seq, side |-> half.side, lost |-> FALSE]
      <4>1. half \in Msg
        BY <3>2 DEF FirstQueued, TypeOK, SendOK
      <4>2. h = half
        BY <2>1, <3>2, <4>1, HalfParts
      <4>3. DOMAIN in' = 1..Len(in) + 1 /\ in'[Len(in) + 1] = half /\ Len(in) \in Nat
        <5>1. in' = Append(in, half) /\ in \in Seq(Msg)
          BY <3>2 DEF FirstQueued, TypeOK, QueueOK
        <5> QED
          BY <4>1, <5>1, AppendProperties, LenProperties
      <4> QED
        BY <4>2, <4>3 DEF Held, InChannel
    <3>3. ~(pairs'[k] = [seq |-> half.seq, side |-> half.side, lost |-> TRUE])
      BY <1>2
    <3> QED
      BY <1>2, <3>1, <3>2, <3>3, PairsEffect
  <2> QED
    BY <2>1, <2>2 DEF Half
<1>3. ASSUME NEW h \in Msg, mu = "second", h = Twin(half)
      PROVE  Held(h)'
  <2>1. half \in Msg /\ Sending(half) /\ Undecided
    BY <1>3 DEF TypeOK, SendOK, Sending, Undecided
  <2>2. h.key = half.key /\ h.seq = half.seq /\ Other(h.side) = half.side
    BY <1>3, <2>1, HalfParts DEF Twin, Half
  <2>3. Held(h)
    BY <1>3 DEF OrderInv, FirstHeld
  <2>4. h.seq \notin lost /\ ~Present(h.seq, Other(h.side))
    BY <2>1, <2>2 DEF GateInv, HalfInSend
  <2>5. ASSUME NEW m \in Msg, Held(m), m.key = h.key
        PROVE  m.seq <= h.seq /\ (m.seq = h.seq => m.side = h.side)
    <3>1. Precedes(m, half)
      BY <1>0, <2>1, <2>5 DEF Ahead, InOrder
    <3>2. m.seq <= half.seq /\ (m.seq = half.seq => m.side # half.side)
      BY <2>2, <2>5, <3>1 DEF Precedes
    <3> QED
      BY <2>1, <2>2, <3>2, HalfParts
  <2> QED
    BY <1>0, <2>3, <2>4, <2>5, FirstStays
<1>4. mu' = "second" => Held(Twin(half))' /\ pairs'[half'.key].seq = 0
  <2> SUFFICES ASSUME mu' = "second" PROVE Held(Twin(half))' /\ pairs'[half'.key].seq = 0
    OBVIOUS
  <2>1. PICK h \in Msg : h = Twin(half')
    <3>1. half' \in Msg
      BY SendStep DEF TypeOK, SendOK
    <3> QED
      BY <3>1, HalfParts
  <2>2. ASSUME NEW k \in Keys, NEW s \in Sides, SendSecond(k, s)
        PROVE  Held(h)' /\ pairs'[half'.key].seq = 0
    <3>1. /\ half' = Half(k, s, pairs[k].seq) /\ pairs'[k] = NoPair
          /\ pairs[k].seq # 0 /\ pairs[k].side # s /\ ~pairs[k].lost
      BY <2>2 DEF SendSecond, IsSecond, Half, TypeOK, SendOK
    <3>2. h = Half(k, pairs[k].side, pairs[k].seq)
      BY <1>0, <2>1, <3>1 DEF Twin, Half, Sides, Other
    <3>3. half'.key = k
      BY <3>1 DEF Half
    <3> QED
      BY <1>1, <3>1, <3>2, <3>3 DEF NoPair
  <2>3. ASSUME mu = "second", half' = half, pairs' = pairs
        PROVE  Held(h)' /\ pairs'[half'.key].seq = 0
    BY <1>3, <2>1, <2>3 DEF OrderInv, FirstHeld
  <2>4. \/ mu = "second" /\ half' = half /\ pairs' = pairs
        \/ \E k \in Keys, s \in Sides : SendSecond(k, s)
    BY SendingEffect DEF SendToLostRecord, Starts, SendFirst, EnqueueRefused, sendVars
  <2>5. Held(h)' /\ pairs'[half'.key].seq = 0
    BY <2>2, <2>3, <2>4
  <2> QED
    BY <2>1, <2>5 DEF Twin, Half
<1>5. mu' \in {"first", "firstRefused"} => pairs'[half'.key].seq < half'.seq
  <2> SUFFICES ASSUME mu' \in {"first", "firstRefused"} PROVE pairs'[half'.key].seq < half'.seq
    OBVIOUS
  <2>1. ASSUME NEW k \in Keys, NEW s \in Sides, SendFirst(k, s)
        PROVE  pairs'[half'.key].seq < half'.seq
    <3>1. half'.key = k /\ half'.seq = seq + 1 /\ pairs' = pairs
      BY <2>1 DEF SendFirst
    <3>2. pairs[k].seq \in 0..seq
      BY DEF GateInv, SeqsGivenOut
    <3> QED
      BY <1>0, <3>1, <3>2
  <2>2. CASE mu \in {"first", "firstRefused"} /\ UNCHANGED <<half, pairs>>
    BY <2>2 DEF OrderInv, FirstHeld
  <2> QED
    BY <2>1, <2>2, SendingEffect DEF SendToLostRecord, Starts, SendSecond, EnqueueRefused, sendVars
<1> QED
  BY <1>2, <1>4, <1>5 DEF FirstHeld

(***************************************************************************)
(* The counters.  queued and started move on two goroutines and giveUp     *)
(* takes their difference; CountInv says why that is the number of records *)
(* it gives up.                                                            *)
(***************************************************************************)
BegunGone == \A m \in Msg : m.seq \in begun => ~Held(m)

\* Until Close gives up, a complete record not begun is with the writer, both halves.
BothHeld ==
  ~gaveUp => \A r \in Nat : Complete(r) /\ r \notin begun =>
               \E m \in Msg : m.seq = r /\ Held(m) /\ Held(Twin(m))

\* The half just accepted is the last in the channel, so when its record has begun,
\* every record counted before it has.
LastSent ==
  mu = "secondQueued" =>
    /\ half.seq \notin counted
    /\ Len(in) > 0 => in[Len(in)] = half
    /\ half.seq \in begun /\ ~gaveUp => counted \subseteq begun

Counters ==
  /\ IsFiniteSet(lost) /\ IsFiniteSet(begun) /\ IsFiniteSet(counted)
  /\ dropped = Cardinality(lost) /\ started = Cardinality(begun)
  /\ queued = Cardinality(counted)
  /\ gaveUp => cpc = "returned"

CountInv == BegunGone /\ BothHeld /\ LastSent /\ Counters

\* No half is ahead of itself, and only its twin has its seq.
LEMMA OnlyTwins ==
  ASSUME InOrder, OneWaits, NEW m \in Msg, NEW n \in Msg, Ahead(m, n), m.seq = n.seq
  PROVE  m # n /\ n = Twin(m)
<1>1. m.key = n.key /\ m.side # n.side
  BY DEF InOrder, Precedes
<1>2. n.side = Other(m.side)
  BY <1>1, HalfParts
<1> QED
  BY <1>1, <1>2, HalfParts DEF Twin

LEMMA BegunGoneStep ==
  TypeOK /\ GateInv /\ OrderInv /\ CountInv /\ [Next]_vars => BegunGone'
<1> SUFFICES ASSUME TypeOK, GateInv, OrderInv, CountInv, [Next]_vars,
                    NEW m \in Msg, m.seq \in begun', Held(m)'
             PROVE  FALSE
  BY DEF BegunGone
<1>0. SeqsGivenOut /\ InOrder /\ OneWaits
  BY DEF GateInv, OrderInv
<1>1. CASE m.seq \in begun
  <2>1. (FirstQueued \/ SecondAccepted) /\ m = half
    BY <1>0, <1>1, HeldGrowth DEF CountInv, BegunGone
  <2>2. Undecided /\ mu # "secondQueued"
    BY <2>1 DEF FirstQueued, SecondAccepted, Undecided
  <2>3. half.seq \notin counted
    BY <2>2 DEF GateInv, HalfInSend
  <2> QED
    BY <1>1, <2>1, <2>2, <2>3 DEF GateInv, FateDecided, Complete
<1>2. CASE HandleJoin /\ m.seq = hand.seq
  <2>1. /\ Handle /\ Joins /\ InHand(hand) /\ hand \in Msg /\ Twin(hand) \in Msg
        /\ Waits(Twin(hand)) /\ Twin(hand).seq = hand.seq
    BY <1>0, <1>2, JoinsTwin, HalfParts DEF HandleJoin, Handle, Twin, Half
  <2>2. \A q \in Msg : q = hand \/ q = Twin(hand) => ~InChannel(q)
    BY <1>0, <2>1, OnlyTwins, HalfParts DEF Ahead
  <2>3. ~Waits(hand)
    BY <1>0, <2>1, OnlyTwins DEF Ahead
  <2>4. in' = in /\ wpc' # "handle"
    BY <2>1, HandleEffect
  <2>5. CASE InChannel(m)
    BY <1>0, <1>2, <2>1, <2>2, <2>5, OnlyTwins DEF Ahead
  <2>6. CASE Waits(m)'
    <3>1. Waits(m) /\ (m.key = hand.key => m.side = hand.side)
      BY <1>2, <2>1, <2>6, HandleEffect DEF HandleJoin, HandleWait, HandleForget, Joins
    <3>2. m.key = hand.key /\ m.side # hand.side
      BY <1>0, <1>2, <2>1, <3>1 DEF Ahead, InOrder, Precedes
    <3> QED
      BY <3>1, <3>2
  <2> QED
    BY <2>4, <2>5, <2>6 DEF Held, InChannel, InHand
<1> QED
  BY <1>1, <1>2, CountEffect

LEMMA BothHeldStep ==
  TypeOK /\ GateInv /\ AbandonedLost /\ OrderInv /\ CountInv /\ [Next]_vars => BothHeld'
<1> SUFFICES ASSUME TypeOK, GateInv, AbandonedLost, OrderInv, CountInv, [Next]_vars,
                    ~gaveUp', NEW r \in Nat, Complete(r)', r \notin begun'
             PROVE  \E m \in Msg : m.seq = r /\ Held(m)' /\ Held(Twin(m))'
  BY DEF BothHeld, Twin, Half
<1>0. SeqsGivenOut /\ InOrder /\ OneWaits
  BY DEF GateInv, OrderInv
<1>1. ~gaveUp /\ r \notin begun
  BY CountEffect DEF TypeOK, CountOK
<1>2. CASE Complete(r)
  <2>1. PICK m \in Msg : m.seq = r /\ Held(m) /\ Held(Twin(m))
    BY <1>1, <1>2 DEF CountInv, BothHeld
  <2>2. ASSUME NEW q \in Msg, q.seq = r, Held(q), Held(Twin(q)), ~Held(q)'
        PROVE  FALSE
    <3>1. r \notin lost
      BY <1>1, <1>2 DEF GateInv, FateDecided
    <3>2. /\ Handle /\ InHand(hand) /\ hand \in Msg /\ r # 0 /\ seq \in Nat
          /\ q.key \in Keys /\ Twin(q) \in Msg
          /\ Twin(q).seq = r /\ Twin(q).key = q.key /\ Twin(q).side = Other(q.side)
      <4>1. Handle
        BY <1>0, <2>2, HeldLoss
      <4>2. q.seq \in 1..seq
        BY <1>0, <2>2, HeldParts
      <4> QED
        BY <2>2, <4>1, <4>2, HandleEffect, HalfParts DEF InHand, Twin, Half, TypeOK, SendOK
    <3>3. abandoned[q.key] # q.seq
      BY <2>2, <3>1, <3>2 DEF AbandonedLost
    <3>4. ~(q = hand /\ HandleForget)
      BY <3>3 DEF HandleForget, IsForsaken
    <3>5. ~(Joins /\ hand.seq = r)
      <4> SUFFICES ASSUME Joins, hand.seq = r PROVE FALSE
        OBVIOUS
      <4>1. HandleJoin
        BY <1>1, <3>2 DEF Handle, HandleForget, HandleWait, HandleGivenUp, Joins, MayStart
      <4>2. r \in begun'
        BY <4>1 DEF HandleJoin
      <4> QED
        BY <4>2
    <3>6. Joins /\ q = Twin(hand) => hand.seq = r
      BY <2>2 DEF Twin, Half
    <3>7. ~(HandleWait /\ Waits(q) /\ q.key = hand.key /\ (q.side = hand.side \/ q.seq # hand.seq))
      <4> SUFFICES ASSUME Waits(q), q.key = hand.key, q.side = hand.side \/ q.seq # hand.seq
                   PROVE  FALSE
        OBVIOUS
      <4>1. Precedes(q, hand)
        BY <1>0, <3>2 DEF Ahead, InOrder
      <4>2. q.seq # hand.seq /\ q.seq <= hand.seq
        BY <4>1 DEF Precedes
      <4>3. Twin(q) # q /\ Twin(q) # hand
        BY <2>2, <3>2, <4>2, HalfParts
      <4>4. ~Waits(Twin(q))
        BY <1>0, <2>2, <3>2, <4>3 DEF OneWaits
      <4>5. InChannel(Twin(q))
        BY <2>2, <4>3, <4>4 DEF Held, InHand
      <4>6. hand.seq <= Twin(q).seq
        BY <1>0, <3>2, <4>5 DEF Ahead, InOrder, Precedes
      <4>7. hand.seq \in Nat /\ q.seq \in Nat
        BY <3>2, HalfParts
      <4> QED
        BY <2>2, <3>2, <4>2, <4>6, <4>7
    <3> QED
      BY <1>0, <2>2, <3>3, <3>4, <3>5, <3>6, <3>7, HeldLoss
  <2>3. PICK n \in Msg : n = Twin(m)
    BY HalfParts
  <2>4. n.seq = r /\ Twin(n) = m /\ Held(n)
    BY <2>1, <2>3, HalfParts DEF Twin, Half
  <2>5. Held(m)' /\ Held(n)'
    BY <2>1, <2>2, <2>3, <2>4
  <2> QED
    BY <2>1, <2>3, <2>5 DEF Twin, Half
<1>3. CASE SecondAccepted /\ r = half.seq
  <2>1. half \in Msg /\ wpc' = wpc /\ in' = Append(in, half) /\ mu = "second" /\ half' = half
    BY <1>3 DEF SecondAccepted, TypeOK, SendOK, writeVars
  <2>2. PICK m \in Msg : m = half
    BY <2>1
  <2>3. PICK n \in Msg : n = Twin(m)
    BY HalfParts
  <2>4. Held(n)
    BY <2>1, <2>2, <2>3 DEF OrderInv, FirstHeld
  <2>5. ~Handle
    BY <2>1, HandleEffect
  <2>6. Held(n)'
    BY <1>0, <2>4, <2>5, HeldLoss
  <2>7. Held(m)'
    <3>1. Len(in) + 1 \in DOMAIN in' /\ in'[Len(in) + 1] = half
      BY <2>1, AppendProperties, LenProperties DEF TypeOK, QueueOK
    <3> QED
      BY <2>2, <3>1 DEF Held, InChannel
  <2> QED
    BY <1>3, <2>2, <2>3, <2>6, <2>7 DEF Twin, Half
<1> QED
  BY <1>2, <1>3, CompleteEffect

LEMMA LastSentStep ==
  TypeOK /\ GateInv /\ OrderInv /\ CountInv /\ [Next]_vars => LastSent'
<1> SUFFICES ASSUME TypeOK, GateInv, OrderInv, CountInv, [Next]_vars, mu' = "secondQueued"
             PROVE  /\ half'.seq \notin counted'
                    /\ Len(in') > 0 => in'[Len(in')] = half'
                    /\ half'.seq \in begun' /\ ~gaveUp' => counted' \subseteq begun'
  BY DEF LastSent
<1>0. /\ SeqsGivenOut /\ InOrder /\ OneWaits
      /\ in \in Seq(Msg) /\ DOMAIN in = 1..Len(in) /\ Len(in) \in Nat
  BY HeldParts DEF GateInv, OrderInv
<1>1. CASE SecondAccepted
  <2>1. /\ half \in Msg /\ in' = Append(in, half) /\ half' = half /\ Undecided /\ wpc' = wpc
        /\ UNCHANGED <<counted, begun>> /\ mu # "secondQueued"
    BY <1>1 DEF SecondAccepted, TypeOK, SendOK, Undecided, countVars, writeVars
  <2>2. Len(in') = Len(in) + 1 /\ in'[Len(in) + 1] = half
    BY <1>0, <2>1, AppendProperties
  <2>3. half.seq \notin counted
    BY <2>1 DEF GateInv, HalfInSend
  <2>4. half.seq \notin begun
    BY <2>1, <2>3 DEF GateInv, FateDecided, Complete
  <2> QED
    BY <2>1, <2>2, <2>3, <2>4
<1>2. CASE mu = "secondQueued" /\ half' = half /\ ~SecondQueued
  <2>1. half \in Msg /\ half.seq \notin counted /\ (Len(in) > 0 => in[Len(in)] = half)
    BY <1>2 DEF CountInv, LastSent, TypeOK, SendOK
  <2>2. counted' = counted
    BY <1>2, CountEffect
  <2>3. ~FirstQueued /\ ~SecondAccepted
    BY <1>2 DEF FirstQueued, SecondAccepted
  <2>4. Len(in') > 0 => in'[Len(in')] = half
    <3>1. CASE Receive
      <4>1. in # <<>> /\ in' = Tail(in)
        BY <3>1 DEF Receive
      <4>2. Len(in') = Len(in) - 1 /\ Len(in) > 0
        BY <1>0, <4>1, HeadTailProperties, LenProperties
      <4>3. \A i \in 1..Len(in) - 1 : in'[i] = in[i + 1]
        BY <1>0, <4>1, HeadTailProperties
      <4> QED
        BY <1>0, <2>1, <4>2, <4>3
    <3>2. CASE in' = in
      BY <2>1, <3>2
    <3> QED
      BY <1>0, <2>3, <3>1, <3>2, ChannelEffect, HandleEffect
  <2>5. ASSUME half.seq \in begun', ~gaveUp' PROVE counted \subseteq begun'
    <3>1. CASE half.seq \in begun
      BY <1>2, <2>5, <3>1, CountEffect DEF CountInv, LastSent, TypeOK, CountOK
    <3>2. CASE HandleJoin /\ half.seq = hand.seq
      <4>1. /\ Joins /\ ~gaveUp /\ begun' = begun \cup {hand.seq} /\ hand \in Msg /\ InHand(hand)
            /\ Waits(Twin(hand)) /\ Twin(hand) \in Msg
        BY <1>0, <3>2, JoinsTwin, HalfParts DEF HandleJoin, MayStart
      <4>2. ASSUME NEW r \in counted, r \notin begun, r # hand.seq PROVE FALSE
        <5>1. PICK m \in Msg : m.seq = r /\ Held(m) /\ Held(Twin(m))
          <6>1. r \in Nat /\ Complete(r)
            BY <4>2 DEF TypeOK, CountOK, Complete
          <6> QED
            BY <4>1, <4>2, <6>1 DEF CountInv, BothHeld
        <5>2. Twin(m) \in Msg /\ Twin(m).seq = r /\ Twin(m) # m
          BY <5>1, HalfParts DEF Twin, Half
        <5>3. ~InHand(m) /\ ~InHand(Twin(m))
          BY <4>2, <5>1, <5>2 DEF InHand
        <5>4. ~(Waits(m) /\ Waits(Twin(m)))
          BY <1>0, <5>1, <5>2 DEF OneWaits
        <5>5. Len(in) > 0
          BY <1>0, <5>1, <5>3, <5>4 DEF Held, InChannel
        <5>6. InChannel(half)
          BY <1>0, <2>1, <5>5 DEF InChannel
        <5>7. half = Twin(hand)
          BY <1>0, <2>1, <3>2, <4>1, <5>6, OnlyTwins DEF Ahead
        <5>8. Ahead(half, half)
          BY <4>1, <5>6, <5>7 DEF Ahead
        <5> QED
          BY <1>0, <2>1, <5>8, OnlyTwins
      <4> QED
        BY <4>1, <4>2
    <3> QED
      BY <2>5, <3>1, <3>2, CountEffect
  <2> QED
    BY <1>2, <2>1, <2>2, <2>4, <2>5
<1> QED
  BY <1>1, <1>2, SendingEffect DEF SendToLostRecord, Starts, SendFirst, SendSecond, FirstQueued,
     FirstRefused, Abandon, SecondQueued, EnqueueRefused, sendVars

\* What giveUp computes is the number of records it gives up.
LEMMA StillQueuedIsExact ==
  ASSUME GateInv, LastSent, Counters, ~gaveUp
  PROVE  /\ StillQueued = Cardinality(counted \ begun)
         /\ IsFiniteSet(counted \ begun)
<1> DEFINE Rest == counted \ begun
<1>1. IsFiniteSet(Rest) /\ Cardinality(Rest) \in Nat
  BY FS_Subset, FS_CardinalityType DEF Counters
<1>2. started = Cardinality(begun) /\ queued = Cardinality(counted) /\ started \in Nat /\ queued \in Nat
  BY FS_CardinalityType DEF Counters
<1>3. CASE begun \subseteq counted
  <2>1. Rest \cup begun = counted /\ Rest \cap begun = {}
    BY <1>3
  <2> HIDE DEF Rest
  <2>2. queued = Cardinality(Rest) + started - 0
    BY <1>1, <1>2, <2>1, FS_Union, FS_EmptySet DEF Counters
  <2> QED
    BY <1>1, <1>2, <2>2 DEF StillQueued, Rest
<1>4. CASE ~(begun \subseteq counted)
  <2>1. mu = "secondQueued" /\ half.seq \in begun
    BY <1>4 DEF GateInv, FateDecided, Complete
  <2>2. counted \subseteq begun
    BY <2>1 DEF LastSent
  <2>3. Rest = {} /\ Cardinality({}) = 0
    BY <2>2, FS_EmptySet
  <2>4. queued <= started
    BY <1>2, <2>2, FS_Subset DEF Counters
  <2> QED
    BY <1>1, <2>3, <2>4 DEF StillQueued
<1> QED
  BY <1>3, <1>4

LEMMA CountersStep ==
  TypeOK /\ GateInv /\ OrderInv /\ CountInv /\ [Next]_vars => Counters'
<1> SUFFICES ASSUME TypeOK, GateInv, OrderInv, CountInv, [Next]_vars PROVE Counters'
  OBVIOUS
<1> USE DEF countVars
<1>0. /\ SeqsGivenOut /\ Counters /\ LastSent
      /\ IsFiniteSet(lost) /\ IsFiniteSet(begun) /\ IsFiniteSet(counted)
      /\ dropped = Cardinality(lost) /\ started = Cardinality(begun)
      /\ queued = Cardinality(counted)
      /\ gaveUp => cpc = "returned"
  BY DEF GateInv, CountInv, Counters
<1>1. CASE FirstRefused \/ SecondRefused
  <2>1. /\ Undecided /\ dropped' = dropped + 1 /\ lost' = lost \cup {half.seq} /\ cpc' = cpc
        /\ UNCHANGED <<queued, started, gaveUp, begun, counted>>
    BY <1>1 DEF FirstRefused, SecondRefused, CountDropped, Undecided, closeVars
  <2>2. half.seq \notin lost
    BY <2>1 DEF GateInv, HalfInSend
  <2>3. IsFiniteSet(lost') /\ Cardinality(lost') = Cardinality(lost) + 1
    BY <1>0, <2>1, <2>2, FS_AddElement
  <2> QED
    BY <1>0, <2>1, <2>3 DEF Counters
<1>2. CASE SecondQueued
  <2>1. /\ queued' = queued + 1 /\ counted' = counted \cup {half.seq} /\ cpc' = cpc
        /\ half.seq \notin counted
        /\ UNCHANGED <<dropped, started, gaveUp, begun, lost>>
    BY <1>0, <1>2 DEF SecondQueued, LastSent, closeVars
  <2>2. IsFiniteSet(counted') /\ Cardinality(counted') = Cardinality(counted) + 1
    BY <1>0, <2>1, FS_AddElement
  <2> QED
    BY <1>0, <2>1, <2>2 DEF Counters
<1>3. CASE HandleJoin
  <2>1. /\ started' = started + 1 /\ begun' = begun \cup {hand.seq} /\ cpc' = cpc
        /\ UNCHANGED <<dropped, queued, gaveUp, counted, lost>> /\ Joins
    BY <1>3 DEF HandleJoin, closeVars
  <2>2. hand.seq \notin begun
    BY <1>0, <2>1, JoinsTwin DEF CountInv, BegunGone, Held
  <2>3. IsFiniteSet(begun') /\ Cardinality(begun') = Cardinality(begun) + 1
    BY <1>0, <2>1, <2>2, FS_AddElement
  <2> QED
    BY <1>0, <2>1, <2>3 DEF Counters
<1>4. CASE GivesUp
  <2>1. /\ cpc = "await" /\ cpc' = "returned" /\ gaveUp' = TRUE
        /\ dropped' = dropped + StillQueued /\ lost' = lost \cup (counted \ begun)
        /\ UNCHANGED <<queued, started, counted, begun>>
    BY <1>4 DEF GivesUp, TrailerTimeout, TickStalled, GiveUp
  <2>2. ~gaveUp
    BY <1>0, <2>1
  <2>3. lost \cap (counted \ begun) = {}
    BY <2>2 DEF GateInv, FateDecided, Complete
  <2>4. StillQueued = Cardinality(counted \ begun) /\ IsFiniteSet(counted \ begun)
    BY <1>0, <2>2, StillQueuedIsExact
  <2>5. Cardinality(counted \ begun) \in Nat /\ Cardinality(lost) \in Nat
    BY <1>0, <2>4, FS_CardinalityType
  <2>6. IsFiniteSet(lost') /\ Cardinality(lost') = Cardinality(lost) + Cardinality(counted \ begun) - 0
    <3> DEFINE Rest == counted \ begun
    <3>1. IsFiniteSet(Rest) /\ lost \cap Rest = {} /\ lost' = lost \cup Rest
      BY <2>1, <2>3, <2>4
    <3> HIDE DEF Rest
    <3>2. IsFiniteSet(lost \cup Rest)
      BY <1>0, <3>1, FS_Union
    <3>3. Cardinality(lost \cup Rest) = Cardinality(lost) + Cardinality(Rest) - Cardinality({})
      BY <1>0, <3>1, FS_Union
    <3> QED
      BY <3>1, <3>2, <3>3, FS_EmptySet DEF Rest
  <2> QED
    BY <1>0, <2>1, <2>4, <2>5, <2>6 DEF Counters
<1>5. CASE ~(FirstRefused \/ SecondRefused \/ SecondQueued \/ HandleJoin \/ GivesUp)
  <2>1. UNCHANGED countVars /\ (cpc = "returned" => cpc' = "returned")
    <3>1. CASE Writer
      BY <1>5, <3>1 DEF Writer, Receive, SeeQuit, Drained, Handle, HandleForget, HandleWait,
         HandleGivenUp, Trailer, ReadDropped, TrailerGate, TrailerDone, closeVars
    <3>2. CASE Disk
      BY <3>2 DEF Disk, WriteNothing, WriteSome, WriteDone, WriteFailed, AfterWrite,
         CloseFile, closeVars
    <3>3. CASE Senders
      BY <1>5, <3>3 DEF Senders, Call, SendToLostRecord, SendSecond, SendFirst, Enqueue,
         FirstQueued, SecondAccepted, EnqueueRefused, Account, Abandon, closeVars
    <3>4. CASE Close \/ Await
      BY <1>5, <3>4 DEF Close, Await, AwaitDrained, AwaitTrailer, TickMoved, AwaitFinished,
         CloseReturns, closeVars
    <3> QED
      BY <3>1, <3>2, <3>3, <3>4 DEF Next, Senders, vars, closeVars
  <2> QED
    BY <1>0, <2>1 DEF Counters
<1> QED
  BY <1>1, <1>2, <1>3, <1>4, <1>5

WholeInv == TypeOK /\ FileShape /\ GateInv /\ AbandonedLost /\ OrderInv /\ CountInv

LEMMA InitWhole == Init => WholeInv
<1> SUFFICES ASSUME Init PROVE WholeInv
  OBVIOUS
<1>1. \A m \in Msg : ~Held(m) /\ ~Sending(m)
  <2> TAKE m \in Msg
  <2>1. DOMAIN in = {}
    BY DEF Init
  <2>2. m.key \in Keys /\ m.side \in Sides
    BY HalfParts
  <2> QED
    BY <2>1, <2>2 DEF Init, Held, InChannel, InHand, Waits, Sending
<1>2. OrderInv
  <2>1. InOrder
    BY <1>1 DEF Init, InOrder, Ahead, Held
  <2>2. OneWaits /\ PairsLast
    BY <1>1 DEF OneWaits, PairsLast, Held
  <2>3. FirstHeld
    BY DEF Init, FirstHeld, NoPair
  <2> QED
    BY <2>1, <2>2, <2>3 DEF OrderInv
<1>3. CountInv
  <2>1. BegunGone /\ LastSent
    BY DEF Init, BegunGone, LastSent
  <2>2. BothHeld
    BY DEF Init, BothHeld, Complete
  <2>3. Counters
    BY FS_EmptySet DEF Init, Counters
  <2> QED
    BY <2>1, <2>2, <2>3 DEF CountInv
<1>4. AbandonedLost
  BY DEF Init, AbandonedLost
<1> QED
  BY <1>2, <1>3, <1>4, InitTypeOK, InitGate DEF WholeInv

LEMMA WholeStep == WholeInv /\ [Next]_vars => WholeInv'
<1>1. TypeOK /\ FileShape /\ GateInv /\ [Next]_vars => (TypeOK /\ FileShape /\ GateInv)'
  BY SendStep, CountStep, QueueStep, WriterStep, FileStep, CloseStep,
     SeqsStep, BothStep, HalfStep, PairsStep, FateStep DEF TypeOK, GateInv
<1>2. GateInv => SeqsGivenOut
  BY DEF GateInv
<1> QED
  BY <1>1, <1>2, AbandonedStep, OrderStep, OneWaitsStep, PairsLastStep, FirstHeldStep,
     BegunGoneStep, BothHeldStep, LastSentStep, CountersStep
  DEF WholeInv, OrderInv, CountInv

\* Dropped() is the number of records lost, each counted once, although giveUp takes its
\* share as a difference of two counters that move on other goroutines (send, giveUp).
THEOREM LossIsAlwaysExact == Spec => []LossIsExact
<1>1. WholeInv => LossIsExact
  BY DEF WholeInv, CountInv, Counters, LossIsExact
<1> QED
  BY InitWhole, WholeStep, <1>1, PTL DEF Spec

-----------------------------------------------------------------------------
(***************************************************************************)
(* Delivery: where the writer and Close are, and what is in the file then. *)
(***************************************************************************)
Trailing == {"trailer", "trailerGate", "trailerDone", "closeFile", "done"}
Ended    == {"trailerDone", "closeFile", "done"}
IsNotice(l) == l.kind = "export_incomplete"

WriterPhases ==
  /\ drained => draining
  /\ drained <=> wpc \in Trailing \/ (wpc = "write" /\ ~IsRecord(line))
  /\ draining => quit
  /\ finished => wpc = "done"
  /\ wpc \notin {"write", "trailerGate"} => line = NoLine
  /\ wpc = "trailerGate" => ~IsRecord(line)
  /\ broken => err

ClosePhases ==
  /\ quit <=> cpc # "open"
  /\ cpc # "returned" => verdict = "none"
  /\ gaveUp => verdict \in {"stalled", "trailerTimeout"}
  /\ verdict = "nil" => finished /\ ~err
  /\ ~quit => due = {} /\ lossAtClose = 0
  /\ lossAtClose <= dropped

\* A replay drops only what Close overtakes.
ReplayWaits ==
  blocking => /\ ~gaveUp /\ cpc # "await"
              /\ dropped > 0 \/ mu \in {"firstRefused", "secondRefused"} => quit

\* A sender leaves alone what the writer and Close keep to themselves.
LEMMA SendersFrame ==
  Senders => UNCHANGED <<writeVars, doneVars, fileVars, closeVars, started, gaveUp, begun, blocking>>
<1>1. ASSUME NEW k \in Keys, NEW s \in Sides,
             SendToLostRecord(k, s) \/ SendSecond(k, s) \/ SendFirst(k, s)
      PROVE  UNCHANGED <<writeVars, doneVars, fileVars, closeVars, started, gaveUp, begun, blocking>>
  BY <1>1 DEF SendToLostRecord, SendSecond, SendFirst, countVars
<1>2. CASE Enqueue
  BY <1>2 DEF Enqueue, FirstQueued, SecondAccepted, EnqueueRefused, countVars
<1>3. CASE Account
  BY <1>3 DEF Account, FirstRefused, SecondQueued, SecondRefused, Abandon, CountDropped, countVars
<1> QED
  BY <1>1, <1>2, <1>3 DEF Senders, Call

\* Nor does Close touch the writer, the file or the records.
LEMMA CloseFrame ==
  Close \/ Await => UNCHANGED <<writeVars, doneVars, fileVars, sendVars, in, started, begun,
                                counted, blocking>>
<1>1. CASE Close
  BY <1>1 DEF Close, countVars
<1>2. CASE GivesUp
  BY <1>2 DEF GivesUp, TrailerTimeout, TickStalled, GiveUp
<1>3. CASE AwaitDrained \/ AwaitTrailer \/ TickMoved
  BY <1>3 DEF AwaitDrained, AwaitTrailer, TickMoved, countVars
<1>4. CASE AwaitFinished \/ CloseReturns
  BY <1>4 DEF AwaitFinished, CloseReturns, countVars
<1> QED
  BY <1>1, <1>2, <1>3, <1>4 DEF Await

\* Close's door opens once.
LEMMA QuitStays == TypeOK /\ [Next]_vars /\ quit => quit'
<1> SUFFICES ASSUME TypeOK, [Next]_vars, quit PROVE quit'
  OBVIOUS
<1>1. CASE Senders
  BY <1>1, SendersFrame DEF closeVars
<1>2. CASE Close \/ Await
  BY <1>2 DEF Close, Await, AwaitDrained, AwaitTrailer, TickMoved, GivesUp, TrailerTimeout,
     TickStalled, GiveUp, AwaitFinished, CloseReturns, closeVars
<1>3. CASE Writer \/ Disk \/ UNCHANGED vars
  <2>1. UNCHANGED closeVars
    BY <1>3 DEF Writer, Receive, SeeQuit, Drained, Handle, HandleForget, HandleWait, HandleJoin,
       HandleGivenUp, Trailer, ReadDropped, TrailerGate, TrailerDone, Disk, WriteNothing,
       WriteSome, WriteDone, WriteFailed, AfterWrite, CloseFile, vars
  <2> QED
    BY <2>1 DEF closeVars
<1> QED
  BY <1>1, <1>2, <1>3 DEF Next, Senders

LEMMA WriterPhasesStep ==
  TypeOK /\ WriterPhases /\ [Next]_vars => WriterPhases'
<1> SUFFICES ASSUME TypeOK, WriterPhases, [Next]_vars PROVE WriterPhases'
  OBVIOUS
<1> USE DEF WriterPhases, writeVars, doneVars, fileVars, Trailing
<1>0. WriterOK /\ FileOK /\ CloseOK /\ line \in Lines \cup {NoLine}
  BY DEF TypeOK, WriterOK
<1>1. CASE Receive \/ SeeQuit \/ Drained
  BY <1>0, <1>1 DEF Receive, SeeQuit, Drained, WriterOK, closeVars
<1>2. CASE HandleForget \/ HandleWait \/ HandleGivenUp
  BY <1>0, <1>2 DEF HandleForget, HandleWait, HandleGivenUp, Joins, WriterOK, closeVars
<1>3. CASE HandleJoin
  <2>1. IsRecord(JoinedLine)
    BY DEF IsRecord, JoinedLine, RecordLine
  <2> QED
    BY <1>0, <1>3, <2>1 DEF HandleJoin, Joins, WriterOK, closeVars
<1>4. CASE ReadDropped
  <2>1. ~IsRecord(IncompleteLine(dropped))
    BY DEF IsRecord, IncompleteLine
  <2> QED
    BY <1>0, <1>4, <2>1 DEF ReadDropped, WriterOK, closeVars
<1>5. CASE TrailerGate \/ TrailerDone \/ CloseFile
  <2>1. CASE TrailerGate
    BY <1>0, <2>1 DEF TrailerGate, WriterOK, closeVars
  <2>2. CASE TrailerDone
    BY <1>0, <2>2 DEF TrailerDone, WriterOK, closeVars
  <2>3. CASE CloseFile
    BY <1>0, <2>3 DEF CloseFile, WriterOK, FileOK, closeVars
  <2> QED
    BY <1>5, <2>1, <2>2, <2>3
<1>6. CASE WriteNothing \/ WriteSome \/ WriteDone \/ WriteFailed
  <2>1. CASE WriteSome
    BY <1>0, <2>1 DEF WriteSome, WriterOK, closeVars
  <2>2. CASE ~WriteSome
    <3>1. /\ wpc = "write" /\ line' = NoLine
          /\ wpc' = IF IsRecord(line) THEN "select" ELSE "trailerDone"
          /\ UNCHANGED <<draining, drained, finished, quit>>
      BY <1>6, <2>2 DEF WriteNothing, WriteDone, WriteFailed, AfterWrite, closeVars, IsRecord
    <3>2. broken' => err'
      BY <1>0, <1>6, <2>2 DEF WriteNothing, WriteDone, WriteFailed, FileOK
    <3>3. ~IsRecord(NoLine)
      BY DEF IsRecord, NoLine
    <3> QED
      BY <1>0, <3>1, <3>2, <3>3 DEF WriterOK
  <2> QED
    BY <2>1, <2>2
<1>7. CASE UNCHANGED <<writeVars, doneVars, fileVars>> /\ (quit => quit')
  BY <1>7
<1>8. (UNCHANGED <<writeVars, doneVars, fileVars>> /\ (quit => quit')) \/ Writer \/ Disk
  BY SendersFrame, CloseFrame, QuitStays DEF Next, Senders, vars
<1> QED
  BY <1>1, <1>2, <1>3, <1>4, <1>5, <1>6, <1>7, <1>8 DEF Writer, Disk, Handle, Trailer

LEMMA ClosePhasesStep ==
  TypeOK /\ WriterPhases /\ ClosePhases /\ Counters /\ [Next]_vars => ClosePhases'
<1> SUFFICES ASSUME TypeOK, WriterPhases, ClosePhases, Counters, [Next]_vars PROVE ClosePhases'
  OBVIOUS
<1> USE DEF ClosePhases, closeVars
<1>0. CloseOK /\ dropped \in Nat /\ lossAtClose \in Nat /\ gaveUp \in BOOLEAN /\ err \in BOOLEAN /\ (gaveUp => cpc = "returned")
  BY DEF TypeOK, CloseOK, CountOK, FileOK, Counters
<1>1. CASE Senders
  <2>1. UNCHANGED <<closeVars, gaveUp, finished, err>>
    BY <1>1 DEF Senders, Call, SendToLostRecord, SendSecond, SendFirst, Enqueue, FirstQueued,
       SecondAccepted, EnqueueRefused, Account, FirstRefused, SecondQueued, SecondRefused,
       Abandon, CountDropped, countVars, fileVars, doneVars
  <2>2. dropped' = dropped \/ dropped' = dropped + 1
    BY <1>1 DEF Senders, Call, SendToLostRecord, SendSecond, SendFirst, Enqueue, FirstQueued,
       SecondAccepted, EnqueueRefused, Account, FirstRefused, SecondQueued, SecondRefused,
       Abandon, CountDropped, countVars
  <2> QED
    BY <1>0, <2>1, <2>2
<1>2. CASE Writer
  <2>1. UNCHANGED <<closeVars, gaveUp, dropped, finished, err>>
    BY <1>2 DEF Writer, Receive, SeeQuit, Drained, Handle, HandleForget, HandleWait, HandleJoin,
       HandleGivenUp, Trailer, ReadDropped, TrailerGate, TrailerDone, countVars, fileVars, doneVars
  <2> QED
    BY <1>0, <2>1
<1>3. CASE Disk
  <2>1. UNCHANGED <<closeVars, gaveUp, dropped>> /\ ~finished
    BY <1>3 DEF Disk, WriteNothing, WriteSome, WriteDone, WriteFailed, AfterWrite, CloseFile,
       countVars, WriterPhases
  <2> QED
    BY <1>0, <2>1
<1>4. CASE Close
  BY <1>0, <1>4 DEF Close, CloseOK, countVars, fileVars, doneVars
<1>5. CASE GivesUp
  <2>1. StillQueued \in Nat
    BY DEF StillQueued, TypeOK, CountOK
  <2>2. PICK why \in {"stalled", "trailerTimeout"} : GiveUp(why) /\ cpc = "await"
    BY <1>5 DEF GivesUp, TrailerTimeout, TickStalled
  <2> QED
    BY <1>0, <2>1, <2>2 DEF GiveUp, CloseOK
<1>6. CASE AwaitDrained \/ AwaitTrailer \/ TickMoved \/ AwaitFinished \/ CloseReturns
  BY <1>0, <1>6 DEF AwaitDrained, AwaitTrailer, TickMoved, AwaitFinished, CloseReturns, CloseOK,
     countVars, fileVars, doneVars
<1>7. CASE UNCHANGED vars
  BY <1>0, <1>7 DEF vars, countVars, fileVars, doneVars
<1> QED
  BY <1>1, <1>2, <1>3, <1>4, <1>5, <1>6, <1>7 DEF Next, Senders, Await

LEMMA ReplayWaitsStep ==
  TypeOK /\ ClosePhases /\ ReplayWaits /\ [Next]_vars => ReplayWaits'
<1> SUFFICES ASSUME TypeOK, ClosePhases, ReplayWaits, [Next]_vars PROVE ReplayWaits'
  OBVIOUS
<1> USE DEF ReplayWaits, closeVars
<1>0. CloseOK /\ dropped \in Nat /\ gaveUp \in BOOLEAN
  BY DEF TypeOK, CloseOK, CountOK
<1>1. CASE Call
  <2>1. /\ UNCHANGED <<quit, cpc, gaveUp, dropped, blocking>>
        /\ mu' \in {"first", "second"} \/ mu' = mu
    BY <1>1 DEF Call, SendToLostRecord, SendSecond, SendFirst, countVars
  <2> QED
    BY <1>0, <2>1
<1>7. CASE FirstQueued \/ SecondAccepted \/ SecondQueued \/ Abandon
  BY <1>0, <1>7 DEF FirstQueued, SecondAccepted, SecondQueued, Abandon, countVars
<1>2. CASE EnqueueRefused
  BY <1>0, <1>2 DEF EnqueueRefused, Refuses, countVars
<1>3. CASE FirstRefused \/ SecondRefused
  BY <1>0, <1>3 DEF FirstRefused, SecondRefused, CountDropped
<1>4. CASE Writer \/ Disk
  <2>1. UNCHANGED <<quit, cpc, mu, gaveUp, dropped, blocking>>
    <3>1. CASE Writer
      BY <3>1 DEF Writer, Receive, SeeQuit, Drained, Handle, HandleForget, HandleWait, HandleJoin,
         HandleGivenUp, Trailer, ReadDropped, TrailerGate, TrailerDone, countVars, sendVars
    <3>2. CASE Disk
      BY <3>2 DEF Disk, WriteNothing, WriteSome, WriteDone, WriteFailed, AfterWrite, CloseFile,
         countVars, sendVars
    <3> QED
      BY <1>4, <3>1, <3>2
  <2> QED
    BY <2>1
<1>5. CASE Close \/ Await
  <2>1. CASE Close
    BY <1>0, <2>1 DEF Close, countVars, sendVars
  <2>2. CASE GivesUp
    <3>1. ~blocking /\ blocking' = blocking
      BY <2>2 DEF GivesUp, TrailerTimeout, TickStalled, GiveUp
    <3> QED
      BY <3>1
  <2>3. CASE AwaitDrained \/ AwaitTrailer \/ TickMoved \/ AwaitFinished \/ CloseReturns
    BY <1>0, <2>3 DEF AwaitDrained, AwaitTrailer, TickMoved, AwaitFinished, CloseReturns,
       countVars, sendVars
  <2> QED
    BY <1>5, <2>1, <2>2, <2>3 DEF Await
<1>6. CASE UNCHANGED vars
  BY <1>6 DEF vars, countVars, sendVars
<1> QED
  BY <1>1, <1>2, <1>3, <1>4, <1>5, <1>6, <1>7 DEF Next, Enqueue, Account

(***************************************************************************)
(* The file.  Behind the complete lines there is at most a partial one.    *)
(***************************************************************************)
TailPartial == \A i \in DOMAIN file : i > offset => file[i] = PartialLine

\* What a step does to the complete lines: nothing, or one more.
LEMMA LinesEffect ==
  ASSUME TypeOK, FileShape, TailPartial, [Next]_vars
  PROVE  /\ TailPartial'
         /\ DOMAIN file = 1..Len(file) /\ DOMAIN file' = 1..Len(file') /\ offset <= Len(file)
         /\ \A i \in 1..offset : file'[i] = file[i]
         /\ \/ offset' = offset
            \/ WriteDone /\ offset' = offset + 1 /\ file'[offset + 1] = line
         /\ WriteDone => offset' = offset + 1 /\ file'[offset + 1] = line
<1> DEFINE Chunks == Lines \cup {PartialLine}
<1> USE DEF fileVars
<1>0. /\ file \in Seq(Chunks) /\ Len(file) \in Nat /\ offset \in Nat /\ offset <= Len(file)
      /\ DOMAIN file = 1..Len(file) /\ broken \in BOOLEAN /\ short \in BOOLEAN
  BY LenProperties DEF TypeOK, FileOK, FileShape, WriterOK
<1>1. FileOK' /\ FileShape'
  BY FileStep DEF TypeOK
<1>7. WriteDone => offset' = offset + 1
  BY DEF WriteDone, EndOfRecord
<1>2. file' \in Seq(Chunks) /\ Len(file') \in Nat /\ DOMAIN file' = 1..Len(file')
  BY <1>1, LenProperties DEF FileOK
<1>3. CASE WriteSome
  <2>1. /\ Len(file') = Len(file) + 1 /\ file'[Len(file) + 1] = PartialLine
        /\ \A i \in 1..Len(file) : file'[i] = file[i]
    BY <1>0, <1>3, AppendProperties DEF WriteSome
  <2>2. offset' = offset /\ ~WriteDone /\ Len(file) = offset
    BY <1>0, <1>3, <1>7 DEF WriteSome, FileShape
  <2> QED
    BY <1>0, <1>2, <2>1, <2>2 DEF TailPartial
<1>4. CASE WriteDone
  <2>1. line \in Lines /\ offset' = offset + 1 /\ ~broken
    BY <1>4 DEF WriteDone, EndOfRecord, TypeOK, WriterOK
  <2>2. /\ Len(file') = offset + 1 /\ file'[offset + 1] = line
        /\ \A i \in 1..offset : file'[i] = file[i]
    <3>1. CASE short
      BY <1>0, <1>4, <2>1, <3>1, ExceptSeq DEF WriteDone, FileShape
    <3>2. CASE ~short
      BY <1>0, <1>4, <2>1, <3>2, AppendProperties DEF WriteDone, FileShape
    <3> QED
      BY <1>0, <3>1, <3>2
  <2> QED
    BY <1>0, <1>2, <1>4, <2>1, <2>2 DEF TailPartial
<1>5. CASE WriteFailed
  <2>1. offset' = offset /\ ~WriteDone
    BY <1>0, <1>5, <1>7 DEF WriteFailed
  <2>2. CASE file' = SubSeq(file, 1, offset)
    <3>1. \A i \in 1..offset : file[i] \in Chunks
      BY DEF FileShape
    <3>2. offset - 1 + 1 = offset /\ \A i \in 1..offset - 1 + 1 : 1 + i - 1 = i
      BY <1>0
    <3>3. /\ Len(SubSeq(file, 1, offset)) = IF 1 <= offset THEN offset - 1 + 1 ELSE 0
          /\ \A i \in 1..offset - 1 + 1 : SubSeq(file, 1, offset)[i] = file[1 + i - 1]
      BY <1>0, <3>1, SubSeqProperties
    <3>4. Len(file') = offset
      BY <1>0, <2>2, <3>2, <3>3
    <3>5. \A i \in 1..offset : file'[i] = file[i]
      BY <1>0, <2>2, <3>2, <3>3
    <3> QED
      BY <1>0, <1>2, <2>1, <3>4, <3>5 DEF TailPartial
  <2>3. CASE file' = file
    BY <1>0, <2>1, <2>3 DEF TailPartial
  <2> QED
    BY <1>5, <2>2, <2>3 DEF WriteFailed
<1>6. CASE file' = file /\ offset' = offset
  <2>1. ~WriteDone
    BY <1>0, <1>6, <1>7
  <2> QED
    BY <1>0, <1>6, <2>1 DEF TailPartial
<1> QED
  BY <1>3, <1>4, <1>5, <1>6, FileFrame DEF Disk, WriteNothing, CloseFile

\* A record line is among the complete lines.
LEMMA RecordsComplete ==
  ASSUME TypeOK, FileShape, TailPartial
  PROVE  /\ \A i \in DOMAIN file : i \in 1..Len(file) /\ (IsRecord(file[i]) => i \in 1..offset)
         /\ \A i \in 1..offset : i \in DOMAIN file
<1>1. /\ Len(file) \in Nat /\ offset \in Nat /\ offset <= Len(file)
      /\ DOMAIN file = 1..Len(file)
  BY LenProperties DEF TypeOK, FileOK, FileShape
<1> QED
  BY <1>1 DEF TailPartial, IsRecord, PartialLine

\* How a record gets into the file: by the line being written, once and for good.
LEMMA InFileEffect ==
  ASSUME TypeOK, FileShape, TailPartial, [Next]_vars, NEW r
  PROVE  /\ InFile(r) => InFile(r)'
         /\ InFile(r)' => InFile(r) \/ (WriteDone /\ IsRecord(line) /\ line.flag = r)
         /\ WriteDone /\ IsRecord(line) /\ line.flag = r => InFile(r)'
<1>1. offset \in Nat /\ TypeOK' /\ FileShape' /\ TailPartial'
  BY SendStep, CountStep, QueueStep, WriterStep, FileStep, CloseStep, LinesEffect
  DEF TypeOK, FileOK
<1>2. ASSUME InFile(r) PROVE InFile(r)'
  <2>1. PICK i \in DOMAIN file : IsRecord(file[i]) /\ file[i].flag = r
    BY <1>2 DEF InFile
  <2>2. i \in 1..offset
    BY <2>1, RecordsComplete
  <2>3. file'[i] = file[i]
    BY <2>2, LinesEffect
  <2>4. i \in DOMAIN file'
    <3>1. offset' \in Nat /\ offset' <= Len(file') /\ Len(file') \in Nat
      BY <1>1, LenProperties DEF TypeOK, FileOK, FileShape
    <3>2. DOMAIN file' = 1..Len(file') /\ (offset' = offset \/ offset' = offset + 1)
      BY LinesEffect
    <3> QED
      BY <1>1, <2>2, <3>1, <3>2
  <2> QED
    BY <2>1, <2>3, <2>4 DEF InFile
<1>3. ASSUME InFile(r)' PROVE InFile(r) \/ (WriteDone /\ IsRecord(line) /\ line.flag = r)
  <2>1. PICK i \in DOMAIN file' : IsRecord(file'[i]) /\ file'[i].flag = r
    BY <1>3 DEF InFile
  <2>2. i \in 1..offset'
    <3>1. \A j \in DOMAIN file' : j \in 1..Len(file') /\ (IsRecord(file'[j]) => j \in 1..offset')
      <4>1. /\ Len(file') \in Nat /\ offset' \in Nat /\ DOMAIN file' = 1..Len(file')
        BY <1>1, LenProperties DEF TypeOK, FileOK
      <4> QED
        BY <1>1, <4>1 DEF TailPartial, IsRecord, PartialLine
    <3> QED
      BY <2>1, <3>1
  <2> QED
    BY <1>1, <2>1, <2>2, RecordsComplete, LinesEffect DEF InFile
<1>4. ASSUME WriteDone, IsRecord(line), line.flag = r PROVE InFile(r)'
  <2>1. offset + 1 \in DOMAIN file' /\ file'[offset + 1] = line
    <3>1. offset' <= Len(file') /\ Len(file') \in Nat
      BY <1>1, LenProperties DEF TypeOK, FileOK, FileShape
    <3> QED
      BY <1>1, <1>4, <3>1, LinesEffect
  <2> QED
    BY <1>4, <2>1 DEF InFile
<1> QED
  BY <1>2, <1>3, <1>4

\* A complete line is never removed or changed (write, rollback).
THEOREM LinesStayAlways == Spec => LinesStay
<1>1. TypeOK /\ FileShape /\ TailPartial /\ [Next]_vars =>
        \A i \in DOMAIN file : file[i] # PartialLine => i \in DOMAIN file' /\ file'[i] = file[i]
  <2> SUFFICES ASSUME TypeOK, FileShape, TailPartial, [Next]_vars,
                      NEW i \in DOMAIN file, file[i] # PartialLine
               PROVE  i \in DOMAIN file' /\ file'[i] = file[i]
    OBVIOUS
  <2>1. Len(file) \in Nat /\ offset \in Nat /\ offset <= Len(file) /\ DOMAIN file = 1..Len(file)
    BY LenProperties DEF TypeOK, FileOK, FileShape
  <2>2. i \in 1..offset
    BY <2>1 DEF TailPartial
  <2>3. offset' <= Len(file') /\ Len(file') \in Nat
    <3>1. FileOK' /\ FileShape'
      BY FileStep DEF TypeOK
    <3> QED
      BY <3>1, LenProperties DEF FileOK, FileShape
  <2> QED
    BY <2>1, <2>2, <2>3, LinesEffect
<1>2. Init => TailPartial
  BY DEF Init, TailPartial
<1>3. TypeOK /\ FileShape /\ TailPartial /\ [Next]_vars => TailPartial'
  BY LinesEffect
<1> QED
  BY <1>1, <1>2, <1>3, TypeCorrect, PTL DEF Spec, LinesStay

(***************************************************************************)
(* What a record that has begun leaves in the file.                        *)
(***************************************************************************)

\* The line being written joins one record, which is not in the file yet.
NotTwice == OneLinePerRecord /\ (IsRecord(line) => line.flag = line.res /\ ~InFile(line.flag))

\* While no write has failed, a record begun is in the file or being written.
Landed == ~err => \A r \in begun : InFile(r) \/ (IsRecord(line) /\ line.flag = r)

\* At the end of the drain every record counted before Close has begun.
DrainComplete == drained /\ ~gaveUp => due \subseteq begun

\* A trailing line says no less than was lost when Close began, no more than Dropped does.
InRange(n)  == n \in Nat /\ lossAtClose <= n /\ n <= dropped
NoticeGood  == IsNotice(line) => InRange(line.records_lost)
NoticeThere ==
  wpc \in Ended /\ ~gaveUp /\ ~err /\ lossAtClose > 0 =>
    offset > 0 /\ IsNotice(file[offset]) /\ InRange(file[offset].records_lost)

DeliveryInv ==
  /\ TailPartial /\ WriterPhases /\ ClosePhases
  /\ NotTwice /\ Landed /\ DrainComplete /\ NoticeGood /\ NoticeThere

\* How a line comes to be written, and how a record begins.
LEMMA LineEffect ==
  ASSUME TypeOK, WriterPhases, [Next]_vars
  PROVE  \/ HandleJoin /\ line = NoLine /\ line' = JoinedLine /\ begun' = begun \cup {hand.seq}
         \/ ReadDropped /\ line' \in {line, IncompleteLine(dropped)} /\ begun' = begun
         \/ line' = NoLine /\ begun' = begun /\ (WriteDone \/ ~IsRecord(line) \/ err')
         \/ line' = line /\ begun' = begun /\ ~WriteDone
<1>1. CASE Writer
  <2>1. CASE HandleJoin
    BY <2>1 DEF HandleJoin, Joins, WriterPhases
  <2>2. CASE ReadDropped
    BY <2>2 DEF ReadDropped, countVars
  <2>3. CASE TrailerGate
    <3>1. wpc = "trailerGate" /\ begun' = begun /\ (line' = line \/ line' = NoLine)
      BY <2>3 DEF TrailerGate, countVars
    <3> QED
      BY <3>1 DEF WriterPhases, WriteDone
  <2>4. CASE Receive \/ SeeQuit \/ Drained \/ TrailerDone
    BY <2>4 DEF Receive, SeeQuit, Drained, TrailerDone, WriteDone, countVars
  <2>5. CASE HandleForget \/ HandleWait \/ HandleGivenUp
    BY <2>5 DEF HandleForget, HandleWait, HandleGivenUp, Joins, WriteDone, countVars
  <2> QED
    BY <1>1, <2>1, <2>2, <2>3, <2>4, <2>5 DEF Writer, Handle, Trailer
<1>2. CASE Disk
  <2>1. CASE WriteDone
    BY <2>1 DEF WriteDone, AfterWrite, countVars
  <2>2. CASE WriteNothing \/ WriteFailed
    <3>1. line' = NoLine /\ begun' = begun /\ err'
      BY <2>2 DEF WriteNothing, WriteFailed, AfterWrite, countVars, WriterPhases
    <3> QED
      BY <3>1
  <2>3. CASE WriteSome \/ CloseFile
    <3>1. line' = line /\ begun' = begun /\ offset' = offset
      BY <2>3 DEF WriteSome, CloseFile, countVars
    <3>2. WriteDone => offset' = offset + 1
      BY DEF WriteDone, EndOfRecord
    <3>3. offset \in Nat
      BY DEF TypeOK, FileOK
    <3> QED
      BY <3>1, <3>2, <3>3
  <2> QED
    BY <1>2, <2>1, <2>2, <2>3 DEF Disk
<1>3. CASE Senders \/ Close \/ Await \/ UNCHANGED vars
  <2>1. line' = line /\ begun' = begun /\ offset' = offset
    BY <1>3, SendersFrame, CloseFrame DEF vars, writeVars, fileVars, countVars
  <2>2. WriteDone => offset' = offset + 1
    BY DEF WriteDone, EndOfRecord
  <2>3. offset \in Nat
    BY DEF TypeOK, FileOK
  <2> QED
    BY <2>1, <2>2, <2>3
<1> QED
  BY <1>1, <1>2, <1>3 DEF Next, Senders

LEMMA KindsOfLine ==
  /\ ~IsRecord(NoLine) /\ ~IsNotice(NoLine)
  /\ \A n : ~IsRecord(IncompleteLine(n)) /\ IsNotice(IncompleteLine(n))
             /\ IncompleteLine(n).records_lost = n
  /\ \A l \in Lines : (IsRecord(l) /\ ~IsNotice(l)) \/ (IsNotice(l) /\ ~IsRecord(l))
  /\ ~IsRecord(PartialLine) /\ ~IsNotice(PartialLine)
BY DEF IsRecord, IsNotice, NoLine, IncompleteLine, Lines, PartialLine

LEMMA JoinedParts ==
  ASSUME TypeOK, HandleJoin
  PROVE  /\ IsRecord(JoinedLine) /\ ~IsNotice(JoinedLine) /\ JoinedLine.flag = hand.seq
         /\ JoinedLine.res = hand.seq
BY DEF HandleJoin, Joins, SameRecord, JoinedLine, RecordLine, IsRecord, IsNotice

LEMMA NotTwiceStep ==
  WholeInv /\ WriterPhases /\ TailPartial /\ NotTwice /\ [Next]_vars => NotTwice'
<1> SUFFICES ASSUME WholeInv, WriterPhases, TailPartial, NotTwice, [Next]_vars PROVE NotTwice'
  OBVIOUS
<1>0. TypeOK /\ FileShape /\ GateInv /\ BegunGone
  BY DEF WholeInv, CountInv
<1>1. (IsRecord(line) => line.flag = line.res /\ ~InFile(line.flag))'
  <2>1. CASE HandleJoin /\ line' = JoinedLine
    <3>1. PICK q : q = hand.seq
      OBVIOUS
    <3>2. ~InFile(q)
      <4>1. InHand(hand) /\ hand \in Msg
        BY <1>0, <2>1 DEF HandleJoin, Joins, InHand, TypeOK, WriterOK
      <4>2. q \notin begun
        BY <1>0, <3>1, <4>1 DEF BegunGone, Held
      <4> QED
        BY <1>0, <4>2 DEF GateInv, FateDecided, InFile
    <3>3. ~WriteDone
      BY <2>1 DEF HandleJoin, Joins, WriteDone
    <3>4. ~InFile(q)'
      BY <1>0, <3>2, <3>3, InFileEffect
    <3>5. line'.flag = q /\ line'.res = q
      BY <1>0, <2>1, <3>1, JoinedParts
    <3> QED
      BY <3>4, <3>5 DEF InFile
  <2>2. CASE line' = line /\ ~WriteDone
    <3>1. PICK q : q = line.flag
      OBVIOUS
    <3>2. InFile(q)' => InFile(q)
      BY <1>0, <2>2, InFileEffect
    <3>3. IsRecord(line) => line.flag = line.res /\ ~InFile(q)
      BY <3>1 DEF NotTwice
    <3> QED
      BY <2>2, <3>1, <3>2, <3>3 DEF InFile
  <2>3. CASE ~IsRecord(line')
    BY <2>3
  <2>4. ReadDropped => ~WriteDone
    BY DEF ReadDropped, WriteDone
  <2> QED
    BY <1>0, <2>1, <2>2, <2>3, <2>4, KindsOfLine, LineEffect
<1>2. OneLinePerRecord'
  <2>0. offset \in Nat /\ offset <= Len(file) /\ TailPartial' /\ TypeOK' /\ FileShape'
    BY <1>0, WholeStep, LinesEffect DEF TypeOK, FileOK, FileShape, WholeInv
  <2>1. \A i \in DOMAIN file' : IsRecord(file'[i]) => i \in 1..offset'
    <3>1. /\ Len(file') \in Nat /\ offset' \in Nat /\ DOMAIN file' = 1..Len(file')
      BY <2>0, LenProperties DEF TypeOK, FileOK
    <3> QED
      BY <2>0, <3>1, KindsOfLine DEF TailPartial
  <2>2. \A i \in 1..offset : i \in DOMAIN file /\ file'[i] = file[i]
    BY <1>0, LinesEffect, RecordsComplete
  <2>3. \A i, j \in 1..offset : IsRecord(file'[i]) =>
          /\ file'[i].flag = file'[i].res
          /\ IsRecord(file'[j]) /\ file'[j].flag = file'[i].flag => i = j
    BY <2>2 DEF NotTwice, OneLinePerRecord
  <2>4. CASE offset' = offset
    BY <2>1, <2>3, <2>4 DEF OneLinePerRecord
  <2>5. CASE WriteDone /\ offset' = offset + 1 /\ file'[offset + 1] = line
    <3>1. IsRecord(line) => line.flag = line.res /\ ~InFile(line.flag)
      BY DEF NotTwice
    <3>2. \A i \in 1..offset : IsRecord(file'[i]) /\ IsRecord(line) => file'[i].flag # line.flag
      BY <2>2, <3>1 DEF InFile
    <3>3. \A i \in 1..offset' : i \in 1..offset \/ (i = offset + 1 /\ file'[i] = line)
      BY <2>0, <2>5
    <3> QED
      BY <2>1, <2>3, <3>1, <3>2, <3>3 DEF OneLinePerRecord
  <2> QED
    BY <1>0, <2>4, <2>5, LinesEffect
<1> QED
  BY <1>1, <1>2 DEF NotTwice

LEMMA LandedStep ==
  TypeOK /\ FileShape /\ TailPartial /\ WriterPhases /\ Landed /\ [Next]_vars => Landed'
<1> SUFFICES ASSUME TypeOK, FileShape, TailPartial, WriterPhases, Landed, [Next]_vars,
                    ~err', NEW r \in begun'
             PROVE  InFile(r)' \/ (IsRecord(line') /\ line'.flag = r)
  BY DEF Landed
<1>1. ~err
  <2>1. err => err'
    <3>1. CASE Disk
      BY <3>1 DEF Disk, WriteNothing, WriteSome, WriteDone, WriteFailed, CloseFile
    <3> QED
      BY <3>1, FileFrame DEF fileVars
  <2> QED
    BY <2>1
<1>2. CASE r \in begun
  <2>1. CASE InFile(r)
    BY <2>1, InFileEffect
  <2>2. CASE IsRecord(line) /\ line.flag = r
    <3>1. WriteDone => InFile(r)'
      BY <2>2, InFileEffect
    <3>2. ReadDropped => wpc = "trailer"
      BY DEF ReadDropped
    <3>3. wpc # "trailer"
      BY <2>2, KindsOfLine DEF WriterPhases
    <3> QED
      BY <2>2, <3>1, <3>2, <3>3, KindsOfLine, LineEffect
  <2> QED
    BY <1>1, <1>2, <2>1, <2>2 DEF Landed
<1>3. CASE r \notin begun
  BY <1>3, LineEffect, JoinedParts
<1> QED
  BY <1>2, <1>3

LEMMA DrainCompleteStep ==
  WholeInv /\ WriterPhases /\ ClosePhases /\ DrainComplete /\ [Next]_vars => DrainComplete'
<1> SUFFICES ASSUME WholeInv, WriterPhases, ClosePhases, DrainComplete, [Next]_vars,
                    drained', ~gaveUp'
             PROVE  due' \subseteq begun'
  BY DEF DrainComplete
<1>0. TypeOK /\ GateInv /\ OrderInv /\ BothHeld
  BY DEF WholeInv, CountInv
<1>1. CASE Drained
  <2>1. ~gaveUp /\ due' = due /\ begun' = begun
    BY <1>1 DEF Drained, countVars, closeVars
  <2>2. wpc = "select" /\ in = <<>>
    BY <1>1 DEF Drained, DrainEnds
  <2>3. SUFFICES ASSUME NEW r \in due, r \notin begun PROVE FALSE
    BY <2>1
  <2>4. r \in Nat /\ Complete(r)
    BY <1>0 DEF TypeOK, CloseOK, CountOK, Complete
  <2>5. PICK m \in Msg : m.seq = r /\ Held(m) /\ Held(Twin(m))
    BY <1>0, <2>1, <2>3, <2>4 DEF BothHeld
  <2>6. \A n \in Msg : Held(n) => Waits(n)
    BY <2>2 DEF Held, InChannel, InHand
  <2>7. Twin(m) \in Msg /\ Twin(m).seq = m.seq /\ Twin(m) # m
    BY <2>5, HalfParts DEF Twin, Half
  <2> QED
    BY <1>0, <2>5, <2>6, <2>7 DEF OrderInv, OneWaits
<1>2. CASE ~Drained
  <2>1. drained /\ ~gaveUp /\ due' = due /\ begun \subseteq begun'
    <3>1. begun \subseteq begun'
      BY <1>0, LineEffect
    <3>2. CASE Senders
      <4>1. UNCHANGED <<drained, gaveUp, due>>
        BY <3>2, SendersFrame DEF doneVars, closeVars
      <4> QED
        BY <3>1, <4>1
    <3>8. CASE UNCHANGED vars
      BY <3>1, <3>8 DEF vars, doneVars, closeVars, countVars
    <3>3. CASE Close
      <4>1. drained' = drained /\ ~quit
        BY <3>3 DEF Close, doneVars, ClosePhases
      <4> QED
        BY <4>1 DEF WriterPhases
    <3>4. CASE GivesUp
      BY <3>4 DEF GivesUp, TrailerTimeout, TickStalled, GiveUp
    <3>5. CASE Await /\ ~GivesUp
      <4>1. UNCHANGED <<drained, gaveUp, due>>
        BY <3>5 DEF Await, AwaitDrained, AwaitTrailer, TickMoved, AwaitFinished, CloseReturns,
           doneVars, countVars, closeVars
      <4> QED
        BY <3>1, <4>1
    <3>6. CASE Writer
      <4>1. UNCHANGED <<drained, gaveUp, due>>
        BY <1>2, <3>6 DEF Writer, Receive, SeeQuit, Handle, HandleForget, HandleWait, HandleJoin,
           HandleGivenUp, Trailer, ReadDropped, TrailerGate, TrailerDone, doneVars, countVars,
           closeVars
      <4> QED
        BY <3>1, <4>1
    <3>7. CASE Disk
      <4>1. UNCHANGED <<drained, gaveUp, due>>
        BY <3>7 DEF Disk, WriteNothing, WriteSome, WriteDone, WriteFailed, AfterWrite, CloseFile,
           doneVars, countVars, closeVars
      <4> QED
        BY <3>1, <4>1
    <3> QED
      BY <3>2, <3>3, <3>4, <3>5, <3>6, <3>7, <3>8 DEF Next, Senders
  <2> QED
    BY <2>1 DEF DrainComplete
<1> QED
  BY <1>1, <1>2

\* What a step does to the count of the lost, and to what Close noted of it.
LEMMA DroppedGrows ==
  ASSUME TypeOK, ClosePhases, [Next]_vars
  PROVE  /\ dropped \in Nat /\ dropped' \in Nat /\ dropped <= dropped'
         /\ quit => lossAtClose' = lossAtClose /\ (gaveUp => gaveUp')
<1>0. dropped \in Nat /\ dropped' \in Nat
  BY CountStep DEF TypeOK, CountOK
<1>1. CASE Senders
  <2>1. dropped' = dropped \/ dropped' = dropped + 1
    <3>1. CASE Call
      BY <3>1 DEF Call, SendToLostRecord, SendSecond, SendFirst, countVars
    <3>2. CASE Enqueue
      BY <3>2 DEF Enqueue, FirstQueued, SecondAccepted, EnqueueRefused, countVars
    <3>3. CASE Account
      BY <3>3 DEF Account, FirstRefused, SecondQueued, SecondRefused, Abandon, CountDropped,
         countVars
    <3> QED
      BY <1>1, <3>1, <3>2, <3>3 DEF Senders
  <2>2. UNCHANGED <<lossAtClose, gaveUp>>
    BY <1>1, SendersFrame DEF closeVars
  <2> QED
    BY <1>0, <2>1, <2>2
<1>2. CASE Close
  <2>1. ~quit /\ dropped' = dropped
    BY <1>2 DEF Close, ClosePhases, countVars
  <2> QED
    BY <1>0, <2>1
<1>3. CASE GivesUp
  <2>1. dropped' = dropped + StillQueued /\ lossAtClose' = lossAtClose /\ gaveUp'
    BY <1>3 DEF GivesUp, TrailerTimeout, TickStalled, GiveUp
  <2>2. StillQueued \in Nat
    BY DEF StillQueued, TypeOK, CountOK
  <2> QED
    BY <1>0, <2>1, <2>2
<1>4. CASE ~Senders /\ ~Close /\ ~GivesUp
  <2>1. CASE Writer
    <3>1. UNCHANGED <<dropped, lossAtClose, gaveUp>>
      BY <2>1 DEF Writer, Receive, SeeQuit, Drained, Handle, HandleForget, HandleWait,
         HandleJoin, HandleGivenUp, Trailer, ReadDropped, TrailerGate, TrailerDone, countVars,
         closeVars
    <3> QED
      BY <1>0, <3>1
  <2>2. CASE Disk
    <3>1. UNCHANGED <<dropped, lossAtClose, gaveUp>>
      BY <2>2 DEF Disk, WriteNothing, WriteSome, WriteDone, WriteFailed, AfterWrite,
         CloseFile, countVars, closeVars
    <3> QED
      BY <1>0, <3>1
  <2>3. CASE Await
    <3>1. UNCHANGED <<dropped, lossAtClose, gaveUp>>
      BY <1>4, <2>3 DEF Await, AwaitDrained, AwaitTrailer, TickMoved, AwaitFinished,
         CloseReturns, countVars, closeVars
    <3> QED
      BY <1>0, <3>1
  <2>4. CASE UNCHANGED vars
    BY <1>0, <2>4 DEF vars, countVars, closeVars
  <2> QED
    BY <1>4, <2>1, <2>2, <2>3, <2>4 DEF Next, Senders
<1> QED
  BY <1>1, <1>2, <1>3, <1>4

\* A number in range stays in range: dropped only grows, and Close has noted its part.
LEMMA RangeStays ==
  ASSUME TypeOK, ClosePhases, [Next]_vars, quit, NEW n, InRange(n)
  PROVE  InRange(n)'
<1>1. lossAtClose \in Nat
  BY DEF TypeOK, CloseOK
<1> QED
  BY <1>1, DroppedGrows DEF InRange

LEMMA NoticeStep ==
  ASSUME TypeOK, FileShape, TailPartial, WriterPhases, ClosePhases, NoticeGood, NoticeThere,
         [Next]_vars
  PROVE  NoticeGood' /\ NoticeThere'
<1>0. /\ offset \in Nat /\ lossAtClose \in Nat /\ dropped \in Nat
      /\ line \in Lines \cup {NoLine} /\ (wpc = "write" => line \in Lines)
  BY DEF TypeOK, FileOK, CloseOK, CountOK, WriterOK
<1>1. NoticeGood'
  <2> SUFFICES ASSUME IsNotice(line)' PROVE InRange(line.records_lost)'
    BY DEF NoticeGood
  <2>1. PICK n : n = line'.records_lost
    OBVIOUS
  <2>2. quit
    <3>1. CASE ReadDropped
      BY <3>1 DEF ReadDropped, WriterPhases, Trailing
    <3>2. CASE line' = line
      <4>1. line # NoLine /\ ~IsRecord(line)
        BY <1>0, <3>2, KindsOfLine
      <4> QED
        BY <4>1 DEF WriterPhases, Trailing
    <3> QED
      BY <3>1, <3>2, KindsOfLine, LineEffect, JoinedParts
  <2>3. InRange(n)
    <3>1. CASE ReadDropped /\ line' = IncompleteLine(dropped)
      BY <1>0, <2>1, <3>1, KindsOfLine DEF InRange, ClosePhases
    <3>2. CASE line' = line
      BY <2>1, <3>2 DEF NoticeGood
    <3> QED
      BY <3>1, <3>2, KindsOfLine, LineEffect, JoinedParts
  <2>4. InRange(n)'
    BY <2>2, <2>3, RangeStays
  <2> QED
    BY <2>1, <2>4 DEF InRange
<1>2. NoticeThere'
  <2> SUFFICES ASSUME wpc' \in Ended, ~gaveUp', ~err', lossAtClose' > 0
               PROVE  (offset > 0 /\ IsNotice(file[offset]) /\ InRange(file[offset].records_lost))'
    BY DEF NoticeThere
  <2>1. CASE wpc \in Ended
    <3>1. quit
      BY <2>1 DEF WriterPhases, Ended, Trailing
    <3>2. ~gaveUp /\ lossAtClose' = lossAtClose
      BY <3>1, DroppedGrows
    <3>3. ~err
      BY FileFrame DEF Disk, WriteNothing, WriteSome, WriteDone, WriteFailed, CloseFile, fileVars
    <3>4. offset > 0 /\ IsNotice(file[offset]) /\ InRange(file[offset].records_lost)
      BY <2>1, <3>2, <3>3 DEF NoticeThere
    <3>5. ~WriteDone
      BY <2>1 DEF WriteDone, Ended
    <3>6. offset' = offset /\ file'[offset] = file[offset]
      BY <1>0, <3>4, <3>5, LinesEffect
    <3>7. PICK n : n = file[offset].records_lost
      OBVIOUS
    <3>8. InRange(n)'
      BY <3>1, <3>4, <3>7, RangeStays
    <3> QED
      BY <3>4, <3>6, <3>7, <3>8 DEF InRange
  <2>2. CASE WriteDone
    <3>1. ~IsRecord(line) /\ line \in Lines
      BY <1>0, <2>2 DEF WriteDone, AfterWrite, Ended, IsRecord
    <3>2. IsNotice(line) /\ InRange(line.records_lost)
      BY <3>1, KindsOfLine DEF NoticeGood
    <3>3. quit
      BY <2>2, <3>1 DEF WriteDone, WriterPhases, Trailing
    <3>4. PICK n : n = line.records_lost
      OBVIOUS
    <3>5. InRange(n)'
      BY <3>2, <3>3, <3>4, RangeStays
    <3>6. offset' = offset + 1 /\ file'[offset + 1] = line
      BY <2>2, LinesEffect
    <3> QED
      BY <1>0, <3>2, <3>4, <3>5, <3>6 DEF InRange
  <2>3. CASE ReadDropped
    <3>1. dropped = 0 /\ lossAtClose' = lossAtClose
      BY <2>3 DEF ReadDropped, Ended, closeVars
    <3> QED
      BY <1>0, <3>1 DEF ClosePhases
  <2>4. CASE TrailerGate
    BY <2>4 DEF TrailerGate, Ended, countVars
  <2>5. wpc \in Ended \/ WriteDone \/ ReadDropped \/ TrailerGate
    <3>1. CASE Writer
      BY <3>1 DEF Writer, Receive, SeeQuit, Drained, Handle, HandleForget, HandleWait, HandleJoin,
         HandleGivenUp, Trailer, TrailerDone, Ended
    <3>2. CASE Disk
      BY <3>2 DEF Disk, WriteNothing, WriteSome, WriteFailed, CloseFile, Ended, WriterPhases
    <3>3. CASE Senders \/ Close \/ Await \/ UNCHANGED vars
      <4>1. wpc' = wpc
        BY <3>3, SendersFrame, CloseFrame DEF writeVars, vars
      <4> QED
        BY <4>1
    <3> QED
      BY <3>1, <3>2, <3>3 DEF Next, Senders
  <2> QED
    BY <2>1, <2>2, <2>3, <2>4, <2>5
<1> QED
  BY <1>1, <1>2

LEMMA InitDelivery == Init => DeliveryInv /\ ReplayWaits
<1> SUFFICES ASSUME Init PROVE DeliveryInv /\ ReplayWaits
  OBVIOUS
<1>1. TailPartial /\ Landed /\ DrainComplete /\ NoticeThere
  BY DEF Init, TailPartial, Landed, DrainComplete, NoticeThere, Ended
<1>2. WriterPhases
  BY DEF Init, WriterPhases, Trailing
<1>3. ClosePhases /\ ReplayWaits
  BY DEF Init, ClosePhases, ReplayWaits
<1>4. NotTwice /\ NoticeGood
  BY KindsOfLine DEF Init, NotTwice, NoticeGood, OneLinePerRecord
<1> QED
  BY <1>1, <1>2, <1>3, <1>4 DEF DeliveryInv

LEMMA DeliveryStep == WholeInv /\ DeliveryInv /\ [Next]_vars => DeliveryInv'
<1> SUFFICES ASSUME WholeInv, DeliveryInv, [Next]_vars PROVE DeliveryInv'
  OBVIOUS
<1>1. TypeOK /\ FileShape /\ Counters
  BY DEF WholeInv, CountInv
<1>2. /\ TailPartial /\ WriterPhases /\ ClosePhases
      /\ NotTwice /\ Landed /\ DrainComplete /\ NoticeGood /\ NoticeThere
  BY DEF DeliveryInv
<1>3. TailPartial' /\ WriterPhases' /\ ClosePhases'
  BY <1>1, <1>2, LinesEffect, WriterPhasesStep, ClosePhasesStep
<1>4. NotTwice' /\ Landed' /\ DrainComplete'
  BY <1>1, <1>2, NotTwiceStep, LandedStep, DrainCompleteStep
<1>5. NoticeGood' /\ NoticeThere'
  BY <1>1, <1>2, NoticeStep
<1> QED
  BY <1>3, <1>4, <1>5 DEF DeliveryInv

\* The writer, the file and Close, all the time.
LEMMA DeliveryAlways == Spec => [](WholeInv /\ DeliveryInv /\ ReplayWaits)
<1>1. WholeInv /\ DeliveryInv /\ ReplayWaits /\ [Next]_vars => ReplayWaits'
  BY ReplayWaitsStep DEF WholeInv, DeliveryInv
<1> QED
  BY InitWhole, InitDelivery, WholeStep, DeliveryStep, <1>1, PTL DEF Spec

\* A line of the file joins the two halves of one record, and no record has two lines,
\* whatever halves are dropped on the way and however often a flag is sent (handle, #121).
THEOREM OneLinePerRecordAlways == Spec => []OneLinePerRecord
<1>1. DeliveryInv => OneLinePerRecord
  BY DEF DeliveryInv, NotTwice
<1> QED
  BY DeliveryAlways, <1>1, PTL

\* When Close returns no error every record counted before it is in the file, and a loss
\* it knew of is told by the last line (Close, run's drain, writeTrailer).
THEOREM CleanCloseIsAlwaysComplete == Spec => []CleanCloseIsComplete
<1>1. WholeInv /\ DeliveryInv => CleanCloseIsComplete
  <2> SUFFICES ASSUME WholeInv, DeliveryInv, verdict = "nil"
               PROVE  /\ \A r \in due : InFile(r)
                      /\ lossAtClose > 0 =>
                           /\ file # <<>> /\ LastLine.kind = "export_incomplete"
                           /\ LastLine.records_lost \in lossAtClose..dropped
    BY DEF CleanCloseIsComplete
  <2>1. TypeOK /\ FileShape /\ WriterPhases /\ ClosePhases
    BY DEF WholeInv, DeliveryInv
  <2>2. finished /\ ~err /\ ~gaveUp /\ wpc = "done" /\ drained /\ line = NoLine /\ ~broken
    BY <2>1 DEF WriterPhases, ClosePhases, Trailing
  <2>3. \A r \in due : InFile(r)
    BY <2>2, KindsOfLine DEF DeliveryInv, DrainComplete, Landed
  <2>4. ASSUME lossAtClose > 0
        PROVE  /\ file # <<>> /\ LastLine.kind = "export_incomplete"
               /\ LastLine.records_lost \in lossAtClose..dropped
    <3>1. offset > 0 /\ IsNotice(file[offset]) /\ InRange(file[offset].records_lost)
      BY <2>2, <2>4 DEF DeliveryInv, NoticeThere, Ended
    <3>2. Len(file) = offset /\ offset \in Nat
      BY <2>1, <2>2 DEF FileShape, TypeOK, FileOK, WriterOK
    <3>3. file # <<>>
      BY <3>1, <3>2
    <3>4. lossAtClose \in Nat /\ dropped \in Nat
      BY <2>1 DEF TypeOK, CloseOK, CountOK
    <3> QED
      BY <3>1, <3>2, <3>3, <3>4 DEF IsNotice, InRange, LastLine
  <2> QED
    BY <2>3, <2>4
<1> QED
  BY DeliveryAlways, <1>1, PTL

\* A replay loses a record only to Close, and its Close never gives up (OpenBlocking, #35).
THEOREM ReplayAlwaysLosesNothing == Spec => []ReplayLosesNothing
<1>1. ReplayWaits => ReplayLosesNothing
  BY DEF ReplayWaits, ReplayLosesNothing
<1> QED
  BY DeliveryAlways, <1>1, PTL

-----------------------------------------------------------------------------
(***************************************************************************)
(* Callers that send each half once.  A key is then in one of four states: *)
(* nothing sent, its first half in send, its record open in pairs, or both *)
(* halves sent; and a half the writer holds has its partner accounted for. *)
(***************************************************************************)
FirstIn  == mu \in {"first", "firstRefused"}
SecondIn == mu \in {"second", "secondQueued", "secondRefused", "abandon"}
BothSent(k) == \A s \in Sides : sends[k][s] = 1

CallsOnce ==
  /\ \A k \in Keys, s \in Sides : sends[k][s] \in {0, 1}
  /\ \A k \in Keys : pairs[k].seq # 0 =>
       /\ sends[k][pairs[k].side] = 1 /\ sends[k][Other(pairs[k].side)] = 0
       /\ mu # "free" => half.key # k
  /\ FirstIn => sends[half.key][half.side] = 1 /\ sends[half.key][Other(half.side)] = 0
  /\ SecondIn => BothSent(half.key)
  /\ \A k \in Keys, s \in Sides : sends[k][s] = 1 /\ sends[k][Other(s)] = 0 =>
       pairs[k].seq # 0 \/ (FirstIn /\ half.key = k)
  /\ \A k \in Keys : abandoned[k] # 0 => BothSent(k) /\ (mu # "free" => half.key # k)

HeldOnce ==
  /\ \A m \in Msg : Held(m) => sends[m.key][m.side] = 1
  /\ \A m, n \in Msg : Held(m) /\ Held(n) /\ m.key = n.key /\ m.side = n.side => m = n
  /\ \A m, n \in Msg : Held(m) /\ Sending(n) => ~(m.key = n.key /\ m.side = n.side)

\* A record whose second half was refused never becomes complete.
RefusedForGood ==
  /\ \A k \in Keys : abandoned[k] # 0 => ~Complete(abandoned[k])
  /\ mu \in {"secondRefused", "abandon"} => ~Complete(half.seq)

Open(m) == pairs[m.key] = [seq |-> m.seq, side |-> m.side, lost |-> FALSE]

\* The partner of a half the writer holds is to come, on its way, or known to be refused.
Partnered ==
  \A m \in Msg : Held(m) =>
    \/ sends[m.key][Other(m.side)] = 0 /\ Open(m)
    \/ Held(Twin(m)) \/ Sending(Twin(m))
    \/ abandoned[m.key] = m.seq

HalvesInv == CallsOnce /\ HeldOnce /\ RefusedForGood /\ Partnered

\* A half is in one place.
LEMMA OnePlace ==
  ASSUME InOrder, NEW m \in Msg
  PROVE  /\ Waits(m) => ~InHand(m) /\ ~InChannel(m)
         /\ InHand(m) => ~InChannel(m)
         /\ Held(m) => ~Sending(m)
<1>1. ~Precedes(m, m)
  BY DEF Precedes
<1>2. ~Ahead(m, m)
  BY <1>1 DEF InOrder
<1> QED
  BY <1>2 DEF Ahead

\* The record of two halves the writer holds is complete.
LEMMA BothComplete ==
  ASSUME TypeOK, GateInv, NEW m \in Msg, Held(m), Held(Twin(m))
  PROVE  Complete(m.seq)
<1>1. Twin(m) \in Msg /\ Twin(m).seq = m.seq /\ Twin(m).side = Other(m.side)
  BY HalfParts DEF Twin, Half
<1>2. m.seq \in 1..seq /\ Present(m.seq, m.side) /\ Present(m.seq, Other(m.side))
  BY <1>1, HeldParts DEF GateInv
<1>3. Present(m.seq, "flag") /\ Present(m.seq, "res")
  BY <1>2, HalfParts DEF Sides, Other
<1> QED
  BY <1>2, <1>3 DEF GateInv, BothHalves

\* What a call of send does before it enqueues.
LEMMA CallEffect ==
  ASSUME TypeOK, NEW k \in Keys, NEW s \in Sides, SendToLostRecord(k, s) \/ Starts(k, s)
  PROVE  /\ mu = "free" /\ sends[k][s] < MaxSends
         /\ \A l \in Keys, t \in Sides :
              sends'[l][t] = IF l = k /\ t = s THEN sends[l][t] + 1 ELSE sends[l][t]
         /\ UNCHANGED <<in, waiting, wpc, hand, abandoned, counted>>
<1>1. /\ mu = "free" /\ sends[k][s] < MaxSends /\ sends' = [sends EXCEPT ![k][s] = @ + 1]
      /\ UNCHANGED <<in, waiting, wpc, hand, abandoned, counted>>
  BY DEF SendToLostRecord, Starts, SendFirst, SendSecond, writeVars, countVars
<1>2. sends \in [Keys -> [Sides -> Nat]]
  BY DEF TypeOK, SendOK
<1> QED
  BY <1>1, <1>2

\* The account of a key in send's own steps after the call.
LEMMA AfterCall ==
  ASSUME [Next]_vars
  PROVE  \/ \E k \in Keys, s \in Sides : SendToLostRecord(k, s) \/ Starts(k, s)
         \/ sends' = sends
BY SendingEffect DEF FirstQueued, SecondAccepted, FirstRefused, Abandon, SecondQueued,
   EnqueueRefused, SecondRefused, sendVars

\* How the news of a refused half comes and goes.
LEMMA NewsEffect ==
  ASSUME [Next]_vars
  PROVE  \/ Abandon /\ abandoned' = [abandoned EXCEPT ![half.key] = half.seq]
         \/ /\ Handle
            /\ \A k \in Keys :
                 \/ abandoned'[k] = abandoned[k]
                 \/ abandoned'[k] = 0 /\ (Forsaken(k) \/ (HandleForget /\ k = hand.key))
         \/ abandoned' = abandoned
<1>1. CASE Senders
  BY <1>1 DEF Senders, Call, SendToLostRecord, SendSecond, SendFirst, Enqueue, FirstQueued,
     SecondAccepted, EnqueueRefused, Account, FirstRefused, SecondQueued, SecondRefused,
     Abandon, News
<1>2. CASE Handle
  BY <1>2 DEF Handle, HandleForget, HandleWait, HandleJoin, HandleGivenUp, Joins, ClearForsaken
<1>3. CASE ~Senders /\ ~Handle
  <2>1. CASE Writer
    BY <1>3, <2>1 DEF Writer, Receive, SeeQuit, Drained, Trailer, ReadDropped, TrailerGate,
       TrailerDone
  <2>2. CASE Disk
    BY <2>2 DEF Disk, WriteNothing, WriteSome, WriteDone, WriteFailed, AfterWrite, CloseFile
  <2>3. CASE Close \/ Await
    BY <2>3 DEF Close, Await, AwaitDrained, AwaitTrailer, TickMoved, GivesUp, TrailerTimeout,
       TickStalled, GiveUp, AwaitFinished, CloseReturns
  <2> QED
    BY <1>3, <2>1, <2>2, <2>3 DEF Next, Senders, vars
<1> QED
  BY <1>1, <1>2, <1>3

LEMMA CallsOnceStep ==
  ASSUME MaxSends <= 1, TypeOK, SeqsGivenOut, CallsOnce, [Next]_vars
  PROVE  CallsOnce'
<1>0. /\ MaxSends \in Nat /\ pairs \in [Keys -> Pair] /\ abandoned \in [Keys -> Nat]
      /\ sends \in [Keys -> [Sides -> Nat]] /\ (mu # "free" => half \in Msg)
      /\ mu \in {"free", "first", "second", "secondQueued", "firstRefused", "secondRefused", "abandon"}
  BY ExportAssumption DEF TypeOK, SendOK
<1>1. /\ \A s \in Sides : Other(s) \in Sides /\ Other(s) # s /\ Other(Other(s)) = s
      /\ \A s, t \in Sides : t = s \/ t = Other(s)
      /\ \A k \in Keys : pairs[k].side \in Sides /\ pairs[k].seq \in Nat
  BY <1>0 DEF Sides, Other, Pair
<1>2. ASSUME NEW k \in Keys, NEW s \in Sides, SendToLostRecord(k, s) \/ Starts(k, s)
      PROVE  CallsOnce'
  <2>1. /\ mu = "free" /\ sends[k][s] = 0 /\ abandoned' = abandoned
        /\ \A l \in Keys, t \in Sides :
             sends'[l][t] = IF l = k /\ t = s THEN 1 ELSE sends[l][t]
    BY <1>0, <1>2, CallEffect DEF CallsOnce
  <2>2. sends[k][Other(s)] = 1 <=> pairs[k].seq # 0
    BY <1>1, <2>1 DEF CallsOnce, FirstIn
  <2>3. pairs[k].seq # 0 => pairs[k].side = Other(s)
    BY <1>1, <2>1 DEF CallsOnce
  <2>4. abandoned[k] = 0
    BY <2>1 DEF CallsOnce, BothSent
  <2>5. CASE SendFirst(k, s)
    <3>1. mu' = "first" /\ half'.key = k /\ half'.side = s /\ pairs' = pairs /\ pairs[k].seq = 0
      BY <1>1, <2>3, <2>5 DEF SendFirst, IsSecond
    <3>2. sends[k][Other(s)] = 0
      BY <1>1, <2>2, <3>1 DEF CallsOnce
    <3> QED
      BY <1>1, <2>1, <2>4, <3>1, <3>2 DEF CallsOnce, FirstIn, SecondIn, BothSent
  <2>6. CASE SendSecond(k, s)
    <3>1. /\ mu' = "second" /\ half'.key = k /\ half'.side = s /\ pairs[k].seq # 0
          /\ \A l \in Keys : pairs'[l] = IF l = k THEN NoPair ELSE pairs[l]
      BY <1>0, <2>6 DEF SendSecond, IsSecond
    <3> QED
      BY <1>1, <2>1, <2>2, <2>4, <3>1 DEF CallsOnce, FirstIn, SecondIn, BothSent, NoPair
  <2>7. CASE SendToLostRecord(k, s)
    <3>1. /\ mu' = mu /\ pairs[k].seq # 0
          /\ \A l \in Keys : pairs'[l] = IF l = k THEN NoPair ELSE pairs[l]
      BY <1>0, <2>7 DEF SendToLostRecord, IsSecond
    <3> QED
      BY <1>1, <2>1, <2>2, <2>4, <3>1 DEF CallsOnce, FirstIn, SecondIn, BothSent, NoPair
  <2> QED
    BY <1>2, <2>5, <2>6, <2>7 DEF Starts
<1>3. ASSUME FirstQueued \/ FirstRefused
      PROVE  CallsOnce'
  <2>1. /\ FirstIn /\ mu' = "free" /\ half \in Msg /\ UNCHANGED <<sends, half, abandoned>>
        /\ mu # "free"
    BY <1>0, <1>3 DEF FirstQueued, FirstRefused, FirstIn
  <2>2. half.key \in Keys /\ half.side \in Sides
    BY <2>1, HalfParts
  <2>3. \A k \in Keys : k # half.key => pairs'[k] = pairs[k]
    BY <1>0, <1>3 DEF FirstQueued, FirstRefused, OpenPair
  <2>4. pairs'[half.key].seq = half.seq /\ pairs'[half.key].side = half.side
    BY <1>0, <1>3, <2>2 DEF FirstQueued, FirstRefused, OpenPair
  <2>5. half.seq # 0
    BY <2>1, <1>0 DEF SeqsGivenOut, TypeOK, SendOK
  <2> QED
    BY <1>1, <2>1, <2>2, <2>3, <2>4, <2>5 DEF CallsOnce, FirstIn, SecondIn, BothSent
<1>4. CASE SecondAccepted \/ SecondQueued \/ EnqueueRefused \/ SecondRefused
  <2>1. /\ UNCHANGED <<sends, half, abandoned, pairs>>
        /\ (FirstIn /\ FirstIn' /\ mu' # "free") \/ (SecondIn /\ (SecondIn' \/ mu' = "free") /\ ~FirstIn')
        /\ FirstIn => ~SecondIn'
    BY <1>4 DEF SecondAccepted, SecondQueued, EnqueueRefused, SecondRefused, FirstIn, SecondIn
  <2>2. mu # "free" /\ (SecondIn => ~FirstIn) /\ (SecondIn' => SecondIn)
    BY <2>1 DEF FirstIn, SecondIn
  <2> QED
    BY <1>1, <2>1, <2>2 DEF CallsOnce, BothSent
<1>5. CASE Abandon
  <2>1. /\ SecondIn /\ mu' = "free" /\ UNCHANGED <<sends, half, pairs>> /\ mu # "free"
        /\ ~FirstIn
        /\ \A k \in Keys : abandoned'[k] = IF k = half.key THEN half.seq ELSE abandoned[k]
    BY <1>0, <1>5 DEF Abandon, SecondIn, News, FirstIn
  <2> QED
    BY <1>1, <2>1 DEF CallsOnce, FirstIn, SecondIn, BothSent
<1>6. CASE Handle
  <2>1. UNCHANGED sendVars
    BY <1>6 DEF Handle, HandleForget, HandleWait, HandleJoin, HandleGivenUp, Joins
  <2>2. \A k \in Keys : abandoned'[k] = abandoned[k] \/ abandoned'[k] = 0
    BY <1>6, <2>1, NewsEffect DEF Abandon, sendVars
  <2> QED
    BY <2>1, <2>2 DEF CallsOnce, FirstIn, SecondIn, BothSent, sendVars
<1>7. CASE UNCHANGED <<sendVars, abandoned>>
  BY <1>7 DEF CallsOnce, FirstIn, SecondIn, BothSent, sendVars
<1> QED
  BY <1>2, <1>3, <1>4, <1>5, <1>6, <1>7, SendingEffect, NewsEffect DEF Abandon

LEMMA HeldOnceStep ==
  ASSUME MaxSends <= 1, TypeOK, SeqsGivenOut, InOrder, CallsOnce, HeldOnce, [Next]_vars
  PROVE  HeldOnce'
<1>0. /\ \A m \in Msg : m.key \in Keys /\ m.side \in Sides
      /\ \A k \in Keys, s \in Sides : sends[k][s] \in {0, 1}
      /\ MaxSends \in Nat
  BY HalfParts, ExportAssumption DEF CallsOnce
<1>1. \A m \in Msg : Held(m)' => Held(m) \/ ((FirstQueued \/ SecondAccepted) /\ m = half)
  BY HeldGrowth
<1>2. FirstQueued \/ SecondAccepted =>
        /\ Sending(half) /\ half \in Msg /\ sends[half.key][half.side] = 1
        /\ mu' \in {"free", "secondQueued"} /\ sends' = sends
  <2>1. ASSUME FirstQueued \/ SecondAccepted
        PROVE  /\ Sending(half) /\ half \in Msg /\ (FirstIn \/ SecondIn)
               /\ mu' \in {"free", "secondQueued"} /\ sends' = sends
    <3>1. CASE FirstQueued
      BY <3>1 DEF FirstQueued, Sending, TypeOK, SendOK, FirstIn
    <3>2. CASE SecondAccepted
      BY <3>2 DEF SecondAccepted, Sending, TypeOK, SendOK, SecondIn
    <3> QED
      BY <2>1, <3>1, <3>2
  <2> QED
    BY <1>0, <2>1 DEF CallsOnce, BothSent
<1>3. \A m \in Msg : Held(m)' => sends[m.key][m.side] = 1
  BY <1>1, <1>2 DEF HeldOnce
<1>4. \A k \in Keys, s \in Sides : sends[k][s] = 1 => sends'[k][s] = 1
  <2>1. ASSUME NEW k \in Keys, NEW s \in Sides, SendToLostRecord(k, s) \/ Starts(k, s),
               NEW l \in Keys, NEW t \in Sides, sends[l][t] = 1
        PROVE  sends'[l][t] = 1
    BY <1>0, <2>1, CallEffect
  <2> QED
    BY <2>1, AfterCall
<1>5. \A m \in Msg : (Held(m) => sends[m.key][m.side] = 1)'
  BY <1>0, <1>3, <1>4
<1>6. \A m, n \in Msg : (Held(m) /\ Held(n) /\ m.key = n.key /\ m.side = n.side => m = n)'
  BY <1>1, <1>2 DEF HeldOnce
<1>7. ASSUME NEW m \in Msg, NEW n \in Msg, Held(m)', Sending(n)', m.key = n.key, m.side = n.side
      PROVE  FALSE
  <2>1. CASE Sending(n)
    <3>1. ~Held(m)
      BY <1>7, <2>1 DEF HeldOnce
    <3>2. FirstQueued \/ SecondAccepted
      BY <1>1, <1>7, <3>1
    <3> QED
      BY <1>2, <1>7, <3>2 DEF Sending
  <2>2. ASSUME NEW k \in Keys, NEW s \in Sides, Starts(k, s), half' = n
        PROVE  FALSE
    <3>1. n.key = k /\ n.side = s
      BY <2>2 DEF Starts, SendFirst, SendSecond
    <3>2. sends[k][s] = 0
      BY <1>0, <2>2, CallEffect
    <3>3. sends[k][s] = 1
      BY <1>3, <1>7, <3>1
    <3> QED
      BY <3>2, <3>3
  <2> QED
    BY <1>7, <2>1, <2>2, SendingGrowth
<1> QED
  BY <1>5, <1>6, <1>7 DEF HeldOnce

LEMMA RefusedStep ==
  ASSUME TypeOK, GateInv, AbandonedLost, RefusedForGood, [Next]_vars
  PROVE  RefusedForGood'
<1>0. /\ abandoned \in [Keys -> Nat] /\ \A k \in Keys : abandoned[k] \in Nat
      /\ mu # "free" => half \in Msg /\ half.seq \in Nat
  BY HalfParts DEF TypeOK, SendOK
<1>1. ASSUME NEW r \in Nat, r \in lost \/ mu = "secondRefused" \/ mu = "abandon", ~Complete(r)
      PROVE  ~Complete(r)'
  <2>1. SecondAccepted => half.seq \notin lost /\ mu = "second"
    BY DEF SecondAccepted, GateInv, HalfInSend, Undecided
  <2> QED
    BY <1>1, <2>1, CompleteEffect
<1>2. ASSUME NEW k \in Keys, NEW r, r = abandoned'[k], r # 0
      PROVE  ~Complete(r)'
  <2>1. CASE r = abandoned[k]
    <3>1. r \in lost /\ ~Complete(r) /\ r \in Nat
      BY <1>0, <1>2, <2>1 DEF AbandonedLost, RefusedForGood
    <3> QED
      BY <1>1, <3>1
  <2>2. CASE Abandon /\ r = half.seq
    <3>1. mu = "abandon" /\ ~Complete(r) /\ r \in Nat
      BY <1>0, <2>2 DEF Abandon, RefusedForGood
    <3> QED
      BY <1>1, <3>1
  <2> QED
    BY <1>0, <1>2, <2>1, <2>2, NewsEffect
<1>3. ASSUME NEW r, r = half'.seq, mu' \in {"secondRefused", "abandon"}
      PROVE  ~Complete(r)'
  <2>1. half' = half /\ (mu = "second" \/ mu = "secondRefused" \/ mu = "abandon")
    BY <1>3, SendingEffect DEF SendToLostRecord, Starts, SendFirst, SendSecond, EnqueueRefused,
       SecondRefused, sendVars
  <2>2. CASE mu = "second"
    <3>1. r \in Nat /\ r \notin counted
      BY <1>0, <1>3, <2>1, <2>2 DEF GateInv, HalfInSend, Undecided
    <3>2. ~Complete(r)
      BY <2>2, <3>1 DEF Complete
    <3>3. ~SecondAccepted
      BY <1>3 DEF SecondAccepted
    <3> QED
      BY <3>1, <3>2, <3>3, CompleteEffect
  <2>3. CASE mu = "secondRefused" \/ mu = "abandon"
    <3>1. r \in Nat /\ ~Complete(r)
      BY <1>0, <1>3, <2>1, <2>3 DEF RefusedForGood
    <3> QED
      BY <1>1, <2>3, <3>1
  <2> QED
    BY <2>1, <2>2, <2>3
<1> QED
  BY <1>2, <1>3 DEF RefusedForGood, Complete

\* A join takes both halves from the writer, written or not.
LEMMA JoinTakesBoth ==
  ASSUME TypeOK, GateInv, OrderInv, Handle, Joins, NEW m \in Msg, m = hand \/ m = Twin(hand)
  PROVE  ~Held(m)'
<1>0. SeqsGivenOut /\ InOrder /\ OneWaits
  BY DEF GateInv, OrderInv
<1>1. /\ InHand(hand) /\ hand \in Msg /\ Twin(hand) \in Msg /\ Waits(Twin(hand))
      /\ Twin(hand).key = hand.key /\ Twin(hand).side = Other(hand.side)
      /\ Twin(hand).seq = hand.seq /\ Other(hand.side) # hand.side
  BY <1>0, JoinsTwin, HalfParts DEF Twin, Half
<1>2. in' = in /\ wpc' # "handle"
  BY HandleEffect
<1>3. ~InChannel(m)
  BY <1>0, <1>1, OnePlace
<1>4. ~Waits(m)'
  <2>1. CASE m = hand
    <3>1. ~Waits(m)
      BY <1>0, <1>1, <2>1, OnePlace
    <3> QED
      BY <2>1, <3>1, HandleEffect DEF Joins, HandleWait
  <2>2. CASE m = Twin(hand)
    BY <1>1, <2>2, HandleEffect DEF Joins, HandleWait, HandleForget
  <2> QED
    BY <2>1, <2>2
<1> QED
  BY <1>2, <1>3, <1>4 DEF Held, InChannel, InHand

\* The news that a half's partner was refused is dropped only with that half.
LEMMA NewsTakesHalf ==
  ASSUME TypeOK, GateInv, OrderInv, CallsOnce, RefusedForGood, [Next]_vars,
         NEW m \in Msg, Held(m), abandoned[m.key] = m.seq, abandoned'[m.key] # m.seq
  PROVE  ~Held(m)'
<1>0. SeqsGivenOut /\ InOrder /\ OneWaits
  BY DEF GateInv, OrderInv
<1>1. /\ m.key \in Keys /\ m.side \in Sides /\ m.seq \in 1..seq /\ m.seq # 0 /\ seq \in Nat
      /\ abandoned \in [Keys -> Nat]
  BY <1>0, HalfParts, HeldParts DEF TypeOK, SendOK
<1>2. ~Held(Twin(m))
  BY <1>1, BothComplete DEF RefusedForGood
<1>3. ~Abandon
  <2>1. Abandon => mu # "free" /\ abandoned' = [abandoned EXCEPT ![half.key] = half.seq]
    BY DEF Abandon, News
  <2>2. Abandon => half.key # m.key
    BY <1>1, <2>1 DEF CallsOnce
  <2> QED
    BY <1>1, <2>1, <2>2
<1>4. Handle /\ (Forsaken(m.key) \/ (HandleForget /\ m.key = hand.key))
  BY <1>1, <1>3, NewsEffect
<1>5. CASE Forsaken(m.key)
  <2>1. PICK t \in Sides : waiting[t][m.key] = m.seq
    BY <1>5 DEF Forsaken
  <2>2. t = m.side
    <3>1. Half(m.key, t, m.seq) \in Msg
      BY <1>1 DEF Half, Msg
    <3>2. Held(Half(m.key, t, m.seq))
      BY <1>1, <2>1 DEF Held, Waits, Half
    <3>3. t = m.side \/ t = Other(m.side)
      BY HalfParts
    <3> QED
      BY <1>2, <3>2, <3>3 DEF Twin
  <2>3. Waits(m) /\ ~InHand(m) /\ ~InChannel(m)
    BY <1>0, <1>1, <2>1, <2>2, OnePlace DEF Waits
  <2>4. ~Waits(m)'
    BY <1>4, <2>3, HandleEffect DEF HandleWait, InHand
  <2> QED
    BY <1>4, <2>3, <2>4, HandleEffect DEF Held, InChannel, InHand
<1>6. CASE HandleForget /\ m.key = hand.key /\ ~Forsaken(m.key)
  <2>1. hand \in Msg /\ wpc = "handle" /\ hand.seq = m.seq
    BY <1>6 DEF HandleForget, IsForsaken, TypeOK, WriterOK
  <2>2. hand = m
    <3>1. hand = m \/ hand = Twin(m)
      BY <1>6, <2>1, HalfParts DEF Twin, Half
    <3> QED
      BY <1>2, <2>1, <3>1 DEF Held, InHand
  <2>3. ~Waits(m) /\ ~InChannel(m)
    BY <1>0, <2>1, <2>2, OnePlace DEF InHand
  <2>4. ~Waits(m)'
    BY <1>4, <1>6, <2>3, HandleEffect DEF HandleWait, HandleForget
  <2> QED
    BY <1>4, <2>3, <2>4, HandleEffect DEF Held, InChannel, InHand
<1> QED
  BY <1>4, <1>5, <1>6

LEMMA PartneredStep ==
  ASSUME MaxSends <= 1, TypeOK, GateInv, OrderInv, HalvesInv, [Next]_vars
  PROVE  Partnered'
<1> SUFFICES ASSUME NEW m \in Msg, Held(m)'
             PROVE  \/ sends'[m.key][Other(m.side)] = 0 /\ Open(m)'
                    \/ Held(Twin(m))' \/ Sending(Twin(m))'
                    \/ abandoned'[m.key] = m.seq
  BY DEF Partnered
<1>0. /\ SeqsGivenOut /\ InOrder /\ OneWaits /\ FirstHeld
      /\ CallsOnce /\ HeldOnce /\ RefusedForGood /\ Partnered
      /\ pairs \in [Keys -> Pair] /\ abandoned \in [Keys -> Nat] /\ MaxSends \in Nat
  BY ExportAssumption DEF GateInv, OrderInv, HalvesInv, TypeOK, SendOK
<1>t. /\ m.key \in Keys /\ m.side \in Sides /\ Other(m.side) \in Sides /\ m.seq \in Nat
      /\ Other(m.side) # m.side /\ Other(Other(m.side)) = m.side
      /\ Twin(m) \in Msg /\ Twin(m).key = m.key /\ Twin(m).side = Other(m.side)
      /\ Twin(m).seq = m.seq /\ Twin(Twin(m)) = m
  BY HalfParts DEF Twin, Half
<1>1. PICK w \in Msg : w = Twin(m)
  BY <1>t
<1>2. CASE ~Held(m)
  <2>1. (FirstQueued \/ SecondAccepted) /\ m = half
    BY <1>0, <1>2, HeldGrowth
  <2>2. CASE FirstQueued
    <3>1. sends' = sends /\ FirstIn
      BY <2>2 DEF FirstQueued, FirstIn
    <3>2. sends'[m.key][Other(m.side)] = 0
      BY <1>0, <2>1, <3>1 DEF CallsOnce
    <3>3. Open(m)'
      BY <1>0, <1>t, <2>1, <2>2 DEF FirstQueued, OpenPair, Open
    <3> QED
      BY <3>2, <3>3
  <2>3. CASE SecondAccepted
    <3>1. Held(w)
      BY <1>0, <1>1, <2>1, <2>3 DEF SecondAccepted, FirstHeld
    <3>2. ~Handle
      BY <2>3, HandleEffect DEF SecondAccepted, sendVars
    <3>3. Held(w)'
      BY <1>0, <3>1, <3>2, HeldLoss
    <3> QED
      BY <1>1, <3>3 DEF Twin, Half
  <2> QED
    BY <2>1, <2>2, <2>3
<1>3. CASE Held(m) /\ sends[m.key][Other(m.side)] = 0 /\ Open(m)
  <2>0. sends[m.key][m.side] = 1 /\ pairs[m.key].seq = m.seq /\ m.seq # 0
    BY <1>0, <1>3, <1>t, HeldParts DEF HeldOnce, Open, TypeOK, SendOK
  <2>1. ASSUME NEW k \in Keys, NEW s \in Sides, SendToLostRecord(k, s) \/ Starts(k, s)
        PROVE  \/ sends'[m.key][Other(m.side)] = 0 /\ Open(m)'
               \/ Sending(w)'
    <3>1. CASE k # m.key
      <4>1. sends'[m.key][Other(m.side)] = 0
        BY <1>3, <1>t, <2>1, <3>1, CallEffect
      <4>2. pairs'[m.key] = pairs[m.key]
        BY <1>0, <1>t, <2>1, <3>1 DEF SendToLostRecord, Starts, SendFirst, SendSecond
      <4> QED
        BY <1>3, <4>1, <4>2 DEF Open
    <3>2. CASE k = m.key
      <4>1. s = Other(m.side)
        <5>1. sends[k][s] < MaxSends
          BY <2>1, CallEffect
        <5>2. s = m.side \/ s = Other(m.side)
          BY HalfParts
        <5> QED
          BY <1>0, <2>0, <3>2, <5>1, <5>2
      <4>2. SendSecond(k, s)
        BY <1>3, <1>t, <2>0, <2>1, <3>2, <4>1
        DEF Starts, SendFirst, SendToLostRecord, IsSecond, Open
      <4>3. half' = Half(k, s, m.seq) /\ mu' = "second"
        BY <2>0, <3>2, <4>2 DEF SendSecond, Half
      <4> QED
        BY <1>1, <3>2, <4>1, <4>3 DEF Sending, Twin
    <3> QED
      BY <3>1, <3>2
  <2>2. CASE sends' = sends
    <3>1. pairs'[m.key] = pairs[m.key]
      <4>1. mu # "free" => half.key # m.key
        BY <1>0, <1>t, <2>0 DEF CallsOnce
      <4>2. CASE FirstQueued \/ FirstRefused
        BY <1>0, <1>t, <4>1, <4>2 DEF FirstQueued, FirstRefused, OpenPair
      <4>3. CASE pairs' = pairs
        BY <4>3
      <4>4. ASSUME NEW k \in Keys, NEW s \in Sides, SendToLostRecord(k, s) \/ Starts(k, s)
            PROVE  FALSE
        <5>1. sends'[k][s] = sends[k][s] + 1 /\ sends[k][s] \in {0, 1}
          BY <1>0, <4>4, CallEffect DEF CallsOnce
        <5> QED
          BY <2>2, <5>1
      <4> QED
        BY <4>2, <4>3, <4>4, SendingEffect
        DEF SecondAccepted, Abandon, SecondQueued, EnqueueRefused, SecondRefused, sendVars
    <3> QED
      BY <1>3, <2>2, <3>1 DEF Open
  <2>3. Sending(w)' => Sending(Twin(m))'
    BY <1>1 DEF Twin, Half
  <2> QED
    BY <2>1, <2>2, <2>3, AfterCall
<1>4. CASE Held(m) /\ Held(w)
  <2> SUFFICES ASSUME ~Held(w)' PROVE FALSE
    BY <1>1 DEF Twin, Half
  <2>0. Complete(m.seq) /\ m.seq # 0
    BY <1>0, <1>1, <1>4, <1>t, BothComplete, HeldParts DEF TypeOK, SendOK
  <2>1. abandoned[m.key] # m.seq
    BY <1>0, <1>t, <2>0 DEF RefusedForGood
  <2>2. /\ Handle
        /\ \/ w = hand /\ (HandleForget \/ Joins)
           \/ Waits(w) /\ abandoned[w.key] = w.seq
           \/ /\ HandleWait /\ Waits(w) /\ w.key = hand.key
              /\ w.side = hand.side \/ w.seq # hand.seq
           \/ Joins /\ Waits(w) /\ w = Twin(hand)
    BY <1>0, <1>4, HeldLoss
  <2>3. hand \in Msg /\ InHand(hand)
    BY <2>2, HandleEffect DEF InHand
  <2>4. CASE w = hand /\ HandleForget
    BY <1>1, <1>t, <2>1, <2>4 DEF HandleForget, IsForsaken
  <2>5. CASE Joins /\ w = hand
    BY <1>1, <1>t, <2>2, <2>5, JoinTakesBoth
  <2>6. CASE Joins /\ w = Twin(hand)
    <3>1. m = hand
      BY <1>1, <1>t, <2>3, <2>6, HalfParts
    <3> QED
      BY <2>2, <2>6, <3>1, JoinTakesBoth
  <2>7. CASE HandleWait /\ Waits(w) /\ w.key = hand.key /\ w.side = hand.side
    <3>1. w = hand
      BY <1>0, <1>4, <2>3, <2>7 DEF HeldOnce, Held
    <3> QED
      BY <1>0, <2>3, <2>7, <3>1, OnePlace
  <2>8. CASE HandleWait /\ Waits(w) /\ w.key = hand.key /\ w.side # hand.side /\ w.seq # hand.seq
    <3>1. m.key = hand.key /\ m.side = hand.side
      BY <1>1, <1>t, <2>3, <2>8, HalfParts
    <3>2. m = hand
      BY <1>0, <1>4, <2>3, <3>1 DEF HeldOnce, Held
    <3> QED
      BY <1>1, <1>t, <2>8, <3>2
  <2> QED
    BY <1>1, <1>t, <2>1, <2>2, <2>4, <2>5, <2>6, <2>7, <2>8
<1>5. CASE Held(m) /\ Sending(w)
  <2>0. mu # "free" /\ half = w /\ half.seq = m.seq
    BY <1>1, <1>5, <1>t DEF Sending
  <2>1. ASSUME NEW k \in Keys, NEW s \in Sides, SendToLostRecord(k, s) \/ Starts(k, s)
        PROVE  FALSE
    BY <2>0, <2>1, CallEffect
  <2>2. CASE FirstQueued \/ SecondAccepted
    <3>1. in' = Append(in, w) /\ in \in Seq(Msg)
      BY <2>0, <2>2 DEF FirstQueued, SecondAccepted, TypeOK, QueueOK
    <3>2. DOMAIN in' = 1..Len(in) + 1 /\ in'[Len(in) + 1] = w /\ Len(in) \in Nat
      BY <3>1, AppendProperties, LenProperties
    <3>3. Held(w)'
      BY <3>2 DEF Held, InChannel
    <3> QED
      BY <1>1, <3>3 DEF Twin, Half
  <2>3. CASE FirstRefused
    <3>1. ~Present(half.seq, Other(half.side))
      BY <2>3 DEF FirstRefused, GateInv, HalfInSend, Undecided
    <3>2. Present(m.seq, m.side)
      BY <1>0, <1>5, HeldParts
    <3> QED
      BY <1>1, <1>t, <2>0, <3>1, <3>2
  <2>4. CASE Abandon
    BY <1>0, <1>1, <1>t, <2>0, <2>4 DEF Abandon, News
  <2>5. CASE SecondQueued
    BY <1>5, <2>5 DEF SecondQueued, Sending
  <2>6. CASE EnqueueRefused \/ SecondRefused \/ UNCHANGED sendVars
    <3>1. Sending(w)'
      BY <1>5, <2>6 DEF EnqueueRefused, SecondRefused, sendVars, Sending
    <3> QED
      BY <1>1, <3>1 DEF Twin, Half
  <2> QED
    BY <2>1, <2>2, <2>3, <2>4, <2>5, <2>6, SendingEffect
<1>6. CASE Held(m) /\ abandoned[m.key] = m.seq
  BY <1>0, <1>6, NewsTakesHalf
<1> QED
  BY <1>0, <1>1, <1>2, <1>3, <1>4, <1>5, <1>6 DEF Partnered

LEMMA HalvesStep ==
  ASSUME MaxSends <= 1, WholeInv, HalvesInv, [Next]_vars
  PROVE  HalvesInv'
<1>1. TypeOK /\ GateInv /\ OrderInv /\ AbandonedLost /\ SeqsGivenOut /\ InOrder
  BY DEF WholeInv, GateInv, OrderInv
<1>2. CallsOnce /\ HeldOnce /\ RefusedForGood
  BY DEF HalvesInv
<1> QED
  BY <1>1, <1>2, CallsOnceStep, HeldOnceStep, RefusedStep, PartneredStep DEF HalvesInv

LEMMA InitHalves == Init => HalvesInv
<1> SUFFICES ASSUME Init PROVE HalvesInv
  OBVIOUS
<1>1. \A m \in Msg : ~Held(m) /\ ~Sending(m)
  <2> TAKE m \in Msg
  <2>1. DOMAIN in = {}
    BY DEF Init
  <2>2. m.key \in Keys /\ m.side \in Sides
    BY HalfParts
  <2> QED
    BY <2>1, <2>2 DEF Init, Held, InChannel, InHand, Waits, Sending
<1>2. CallsOnce
  BY DEF Init, CallsOnce, FirstIn, SecondIn, NoPair
<1>3. HeldOnce /\ Partnered
  BY <1>1 DEF HeldOnce, Partnered
<1>4. RefusedForGood
  BY DEF Init, RefusedForGood
<1> QED
  BY <1>2, <1>3, <1>4 DEF HalvesInv

\* For callers that send each half once, as the program does, a half waits in the writer
\* only for a partner that can still come or whose refusal is on its way, so no Pattern is
\* held for the rest of the run (handle, abandon, forget, #126).
THEOREM NoHalfIsLeftBehind ==
  ASSUME MaxSends <= 1
  PROVE  Spec => []NoHalfLeftBehind
<1>1. WholeInv /\ HalvesInv => NoHalfLeftBehind
  <2> SUFFICES ASSUME WholeInv, HalvesInv, NEW s \in Sides, NEW k \in Keys, waiting[s][k] # 0
               PROVE  \/ sends[k][Other(s)] = 0
                      \/ OnItsWay(waiting[s][k], Other(s))
                      \/ abandoned[k] = waiting[s][k]
                      \/ mu \in {"secondRefused", "abandon"} /\ half.seq = waiting[s][k]
    BY DEF NoHalfLeftBehind
  <2>0. TypeOK /\ SeqsGivenOut /\ InOrder /\ OneWaits
    BY DEF WholeInv, GateInv, OrderInv
  <2>1. PICK m \in Msg : m = Half(k, s, waiting[s][k])
    <3>1. waiting[s][k] \in Nat
      BY <2>0 DEF TypeOK, WriterOK
    <3> QED
      BY <3>1 DEF Half, Msg
  <2>2. m.key = k /\ m.side = s /\ m.seq = waiting[s][k] /\ Waits(m) /\ Held(m)
    BY <2>1 DEF Half, Waits, Held
  <2>3. /\ Twin(m) \in Msg /\ Twin(m).key = k /\ Twin(m).side = Other(s)
        /\ Twin(m).seq = m.seq /\ Twin(m) # m
    BY <2>2, HalfParts DEF Twin, Half
  <2>4. ~Waits(Twin(m))
    BY <2>0, <2>2, <2>3 DEF OneWaits
  <2>5. CASE Held(Twin(m))
    BY <2>2, <2>3, <2>4, <2>5 DEF Held, InChannel, InHand, OnItsWay
  <2>6. CASE Sending(Twin(m))
    <3>1. half = Twin(m) /\ half.seq = waiting[s][k] /\ half.side = Other(s)
      BY <2>2, <2>3, <2>6 DEF Sending
    <3>2. mu # "firstRefused"
      <4>1. Present(m.seq, m.side)
        BY <2>0, <2>2, HeldParts
      <4>2. Other(half.side) = m.side
        BY <2>2, <3>1 DEF Sides, Other
      <4> QED
        BY <2>2, <3>1, <4>1, <4>2 DEF WholeInv, GateInv, HalfInSend, Undecided
    <3>3. mu \in {"first", "second", "secondRefused", "abandon"}
      BY <2>0, <2>6, <3>2 DEF Sending, TypeOK, SendOK
    <3> QED
      BY <3>1, <3>3 DEF OnItsWay
  <2> QED
    BY <2>2, <2>5, <2>6 DEF HalvesInv, Partnered
<1>2. WholeInv /\ HalvesInv /\ [Next]_vars => HalvesInv'
  BY HalvesStep
<1> QED
  BY InitWhole, InitHalves, WholeStep, <1>1, <1>2, PTL DEF Spec

-----------------------------------------------------------------------------
(***************************************************************************)
(* The news of a refused half, for callers that may send a half again: the *)
(* writer has the other half, so the news is taken off again.              *)
(***************************************************************************)
NewsTold ==
  /\ \A k \in Keys : abandoned[k] # 0 => \E s \in Sides : Held(Half(k, s, abandoned[k]))
  /\ mu \in {"secondRefused", "abandon"} => Held(Twin(half)) /\ abandoned[half.key] # half.seq

\* While send has yet to tell of the half it was refused, the writer keeps the other.
LEMMA RefusedKeepsTwin ==
  ASSUME TypeOK, GateInv, OrderInv, RefusedForGood, NewsTold, [Next]_vars,
         mu \in {"secondRefused", "abandon"}, NEW h \in Msg, h = Twin(half)
  PROVE  Held(h)'
<1> SUFFICES ASSUME ~Held(h)' PROVE FALSE
  OBVIOUS
<1>0. /\ SeqsGivenOut /\ InOrder
      /\ half \in Msg /\ Sending(half) /\ Held(h) /\ ~Complete(half.seq)
      /\ abandoned[half.key] # half.seq
  BY DEF GateInv, OrderInv, NewsTold, RefusedForGood, TypeOK, SendOK, Sending
<1>1. /\ h.key = half.key /\ h.side = Other(half.side) /\ h.seq = half.seq
      /\ Twin(h) = half /\ h.seq \in Nat /\ h.side \in Sides
  BY <1>0, HalfParts DEF Twin, Half
<1>2. Handle /\ hand \in Msg /\ InHand(hand) /\ Held(hand)
  <2>1. Handle
    BY <1>0, HeldLoss
  <2> QED
    BY <2>1, HandleEffect DEF InHand, Held
<1>3. ~(h = hand /\ HandleForget)
  BY <1>0, <1>1 DEF HandleForget, IsForsaken
<1>4. ~(h = hand /\ Joins)
  <2> SUFFICES ASSUME h = hand, Joins PROVE FALSE
    OBVIOUS
  <2>1. Held(Twin(h))
    BY <1>0, JoinsTwin DEF Held
  <2> QED
    BY <1>0, <1>1, <2>1, BothComplete
<1>5. ~(Waits(h) /\ h.key = hand.key /\ (h.side = hand.side \/ h.seq # hand.seq))
  <2> SUFFICES ASSUME Waits(h), h.key = hand.key, h.side = hand.side \/ h.seq # hand.seq
               PROVE FALSE
    OBVIOUS
  <2>1. Precedes(h, hand) /\ Precedes(hand, half)
    BY <1>0, <1>2 DEF Ahead, InOrder
  <2>2. h.seq <= hand.seq /\ hand.seq <= h.seq /\ hand.seq \in Nat
    BY <1>1, <1>2, <2>1, HalfParts DEF Precedes
  <2>3. h.seq = hand.seq
    BY <1>1, <2>2
  <2> QED
    BY <2>1, <2>3 DEF Precedes
<1>6. ~(Joins /\ h = Twin(hand))
  <2> SUFFICES ASSUME Joins, h = Twin(hand) PROVE FALSE
    OBVIOUS
  <2>1. hand = half
    BY <1>0, <1>1, <1>2, HalfParts
  <2> QED
    BY <1>0, <1>2, <2>1, OnePlace
<1> QED
  BY <1>0, <1>1, <1>3, <1>4, <1>5, <1>6, HeldLoss

LEMMA NewsStep ==
  ASSUME WholeInv, RefusedForGood, NewsTold, [Next]_vars
  PROVE  NewsTold'
<1>0. /\ TypeOK /\ GateInv /\ OrderInv /\ AbandonedLost /\ SeqsGivenOut /\ InOrder
      /\ abandoned \in [Keys -> Nat] /\ seq \in Nat
      /\ mu # "free" => half \in Msg /\ half.seq \in 1..seq
  BY DEF WholeInv, GateInv, OrderInv, SeqsGivenOut, TypeOK, SendOK
<1>1. ASSUME NEW k \in Keys, abandoned'[k] # 0
      PROVE  \E s \in Sides : Held(Half(k, s, abandoned[k]))'
  <2>1. CASE abandoned'[k] = abandoned[k]
    <3>1. PICK s \in Sides : Held(Half(k, s, abandoned[k]))
      BY <1>1, <2>1 DEF NewsTold
    <3>2. PICK h \in Msg : h = Half(k, s, abandoned[k])
      BY <1>0 DEF Half, Msg
    <3>3. h.key = k /\ h.side = s /\ h.seq = abandoned[k] /\ Held(h)
      BY <3>1, <3>2 DEF Half
    <3>4. ASSUME ~Held(h)' PROVE FALSE
      <4>1. Handle
        BY <1>0, <3>3, <3>4, HeldLoss
      <4>2. ~Forsaken(k)
        BY <1>1, <2>1, <4>1 DEF Handle, HandleForget, HandleWait, HandleJoin, HandleGivenUp,
           Joins, ClearForsaken
      <4>3. ~Waits(h)
        BY <1>1, <2>1, <3>3, <4>2 DEF Waits, Forsaken
      <4>4. h = hand /\ (HandleForget \/ Joins)
        BY <1>0, <3>3, <3>4, <4>3, HeldLoss
      <4>5. CASE HandleForget
        BY <1>1, <3>3, <4>4, <4>5 DEF HandleForget
      <4>6. CASE Joins
        BY <1>0, <3>3, <4>4, <4>6, JoinsTwin
      <4> QED
        BY <4>4, <4>5, <4>6
    <3>5. Half(k, s, abandoned'[k]) = h
      BY <2>1, <3>2
    <3> QED
      BY <3>4, <3>5
  <2>2. CASE Abandon /\ abandoned'[k] = half.seq /\ k = half.key
    <3>1. mu = "abandon" /\ half \in Msg
      BY <1>0, <2>2 DEF Abandon
    <3>2. PICK h \in Msg : h = Twin(half)
      BY <3>1, HalfParts
    <3>3. Held(h)'
      BY <1>0, <3>1, <3>2, RefusedKeepsTwin
    <3>4. h = Half(k, Other(half.side), abandoned'[k]) /\ Other(half.side) \in Sides
      BY <2>2, <3>1, <3>2, HalfParts DEF Twin
    <3> QED
      BY <3>3, <3>4
  <2> QED
    BY <1>0, <1>1, <2>1, <2>2, NewsEffect
<1>2. ASSUME mu' \in {"secondRefused", "abandon"}
      PROVE  Held(Twin(half))' /\ abandoned'[half'.key] # half'.seq
  <2>1. /\ half' = half /\ half \in Msg /\ half.seq # 0 /\ half.key \in Keys
        /\ mu = "second" \/ mu = "secondRefused" \/ mu = "abandon"
    BY <1>0, <1>2, SendingEffect, HalfParts
    DEF SendToLostRecord, Starts, SendFirst, SendSecond, EnqueueRefused, SecondRefused, sendVars
  <2>2. PICK h \in Msg : h = Twin(half)
    BY <2>1, HalfParts
  <2>3. Held(h)'
    <3>1. CASE mu = "second"
      <4>1. Held(h) /\ EnqueueRefused
        BY <1>0, <1>2, <2>2, <3>1, SendingEffect
        DEF OrderInv, FirstHeld, SecondRefused, SendToLostRecord, Starts, SendFirst, SendSecond,
            sendVars
      <4>2. ~Handle
        BY <1>2, <3>1, HandleEffect, <1>0 DEF sendVars
      <4> QED
        BY <1>0, <4>1, <4>2, HeldLoss
    <3>2. CASE mu = "secondRefused" \/ mu = "abandon"
      BY <1>0, <2>2, <3>2, RefusedKeepsTwin
    <3> QED
      BY <2>1, <3>1, <3>2
  <2>4. abandoned[half.key] # half.seq
    <3>1. CASE mu = "second"
      BY <1>0, <2>1, <3>1 DEF GateInv, HalfInSend, Undecided, AbandonedLost
    <3>2. CASE mu = "secondRefused" \/ mu = "abandon"
      BY <3>2 DEF NewsTold
    <3> QED
      BY <2>1, <3>1, <3>2
  <2>5. ~Abandon
    BY <1>2 DEF Abandon
  <2>6. abandoned'[half.key] # half.seq
    BY <2>1, <2>4, <2>5, NewsEffect
  <2>7. Twin(half') = h
    BY <2>1, <2>2
  <2> QED
    BY <2>1, <2>3, <2>6, <2>7
<1> QED
  BY <1>1, <1>2 DEF NewsTold

\* The news that the second half of a record was refused is held only until the first turns
\* up, and the first does turn up: it is in the channel, in the writer's hand or waiting,
\* however often its callers send a half (abandon, forget).
THEOREM NewsAlwaysFindsItsHalf == Spec => []NewsFindsItsHalf
<1>1. WholeInv /\ NewsTold => NewsFindsItsHalf
  <2> SUFFICES ASSUME NewsTold, NEW k \in Keys, abandoned[k] # 0
               PROVE  \E s \in Sides : waiting[s][k] = abandoned[k] \/ OnItsWay(abandoned[k], s)
    BY DEF NewsFindsItsHalf
  <2>1. PICK s \in Sides : Held(Half(k, s, abandoned[k]))
    BY DEF NewsTold
  <2> QED
    BY <2>1 DEF Held, InChannel, InHand, Waits, Half, OnItsWay
<1>2. Init => RefusedForGood /\ NewsTold
  BY DEF Init, RefusedForGood, NewsTold
<1>3. WholeInv /\ RefusedForGood /\ NewsTold /\ [Next]_vars => RefusedForGood' /\ NewsTold'
  BY NewsStep, RefusedStep DEF WholeInv
<1> QED
  BY InitWhole, WholeStep, <1>1, <1>2, <1>3, PTL DEF Spec

-----------------------------------------------------------------------------
(***************************************************************************)
(* The refinement of ExportLedger.                                         *)
(***************************************************************************)
Entry(l) == IF IsRecord(l) THEN [kind |-> "record", of |-> l.flag]
                           ELSE [kind |-> "notice", of |-> l.records_lost]

\* The notice claims a loss, and nothing is written after it.
NoticeLast ==
  /\ IsNotice(line) => line.records_lost # 0
  /\ \A i \in 1..offset : IsNotice(file[i]) => wpc \in Ended

LedgerInv == WholeInv /\ DeliveryInv /\ NoticeLast

LEMMA NoticeLastStep ==
  ASSUME TypeOK, FileShape, TailPartial, WriterPhases, NoticeLast, [Next]_vars
  PROVE  NoticeLast'
<1>0. offset \in Nat /\ dropped \in Nat
  BY DEF TypeOK, FileOK, CountOK
<1>1. (IsNotice(line) => line.records_lost # 0)'
  <2>1. CASE ReadDropped /\ line' = IncompleteLine(dropped) /\ line' # line
    <3>1. dropped # 0
      BY <2>1 DEF ReadDropped
    <3> QED
      BY <2>1, <3>1, KindsOfLine
  <2>2. CASE line' = line
    BY <2>2 DEF NoticeLast
  <2>3. CASE ~IsNotice(line')
    BY <2>3
  <2> QED
    BY <2>1, <2>2, <2>3, KindsOfLine, LineEffect, JoinedParts
<1>2. wpc \in Ended => wpc' \in Ended
  <2>1. CASE Writer
    BY <2>1 DEF Writer, Receive, SeeQuit, Drained, Handle, HandleForget, HandleWait, HandleJoin,
       HandleGivenUp, Joins, Trailer, ReadDropped, TrailerGate, TrailerDone, Ended
  <2>2. CASE Disk
    BY <2>2 DEF Disk, WriteNothing, WriteSome, WriteDone, WriteFailed, CloseFile, Ended
  <2>3. CASE Senders \/ Close \/ Await \/ UNCHANGED vars
    <3>1. wpc' = wpc
      BY <2>3, SendersFrame, CloseFrame DEF writeVars, vars
    <3> QED
      BY <3>1
  <2> QED
    BY <2>1, <2>2, <2>3 DEF Next, Senders
<1>3. ASSUME NEW i \in 1..offset', IsNotice(file'[i])
      PROVE  wpc' \in Ended
  <2>1. CASE i \in 1..offset
    BY <1>2, <1>3, <2>1, LinesEffect DEF NoticeLast
  <2>2. CASE WriteDone /\ file'[i] = line
    BY <1>3, <2>2, KindsOfLine DEF WriteDone, AfterWrite, Ended, IsNotice
  <2> QED
    BY <1>0, <1>3, <2>1, <2>2, LinesEffect
<1> QED
  BY <1>1, <1>3 DEF NoticeLast

LEMMA LedgerInvStep == LedgerInv /\ [Next]_vars => LedgerInv'
<1>1. LedgerInv => TypeOK /\ FileShape /\ TailPartial /\ WriterPhases /\ NoticeLast
  BY DEF LedgerInv, WholeInv, DeliveryInv
<1> QED
  BY <1>1, WholeStep, DeliveryStep, NoticeLastStep DEF LedgerInv

LEMMA InitLedgerInv == Init => LedgerInv
<1>1. Init => NoticeLast
  BY KindsOfLine DEF Init, NoticeLast
<1> QED
  BY <1>1, InitWhole, InitDelivery DEF LedgerInv

\* What a reader parses is the sequence of the complete lines.
LEMMA WholeLinesAre ==
  ASSUME TypeOK, FileShape, TailPartial
  PROVE  /\ WholeLines = [i \in 1..offset |-> Entry(file[i])]
         /\ \A T : (\A i \in 1..offset : Entry(file[i]) \in T) => WholeLines \in Seq(T)
         /\ DOMAIN WholeLines = 1..offset /\ Len(WholeLines) = offset
<1>1. /\ offset \in Nat /\ Len(file) \in Nat /\ offset <= Len(file) /\ DOMAIN file = 1..Len(file)
  BY LenProperties DEF TypeOK, FileOK, FileShape
<1>2. {j \in DOMAIN file : file[j] # PartialLine} = 1..offset
  BY <1>1 DEF TailPartial, FileShape, Lines, PartialLine
<1>3. WholeLines = [i \in 1..offset |-> Entry(file[i])]
  BY <1>2 DEF WholeLines, Entry
<1>4. ASSUME NEW T, \A i \in 1..offset : Entry(file[i]) \in T
      PROVE  WholeLines \in Seq(T) /\ Len(WholeLines) = offset
  BY <1>1, <1>3, <1>4
<1>5. Len(WholeLines) = offset
  <2> DEFINE T == {Entry(file[i]) : i \in 1..offset}
  <2>1. \A i \in 1..offset : Entry(file[i]) \in T
    OBVIOUS
  <2> QED
    BY <1>4, <2>1
<1> QED
  BY <1>3, <1>4, <1>5

\* A step leaves the reader's lines alone or appends the one being written.
LEMMA WholeLinesEffect ==
  ASSUME LedgerInv, [Next]_vars
  PROVE  \/ ~WriteDone /\ WholeLines' = WholeLines
         \/ WriteDone /\ WholeLines' = Append(WholeLines, Entry(line))
<1>0. /\ TypeOK /\ FileShape /\ TailPartial /\ offset \in Nat
      /\ TypeOK' /\ FileShape' /\ TailPartial'
  BY LedgerInvStep DEF LedgerInv, WholeInv, DeliveryInv, TypeOK, FileOK
<1>1. WholeLines = [i \in 1..offset |-> Entry(file[i])]
  BY <1>0, WholeLinesAre
<1>2. WholeLines' = [i \in 1..offset' |-> Entry(file'[i])]
  <2>1. /\ offset' \in Nat /\ Len(file') \in Nat /\ offset' <= Len(file')
        /\ DOMAIN file' = 1..Len(file')
    BY <1>0, LenProperties DEF TypeOK, FileOK, FileShape
  <2>2. {j \in DOMAIN file' : file'[j] # PartialLine} = 1..offset'
    BY <1>0, <2>1 DEF TailPartial, FileShape, Lines, PartialLine
  <2> QED
    BY <2>2 DEF WholeLines, Entry
<1>3. CASE offset' = offset /\ ~WriteDone
  <2>1. \A i \in 1..offset : file'[i] = file[i]
    BY <1>0, LinesEffect
  <2> QED
    BY <1>1, <1>2, <1>3, <2>1
<1>4. CASE WriteDone
  <2>1. /\ offset' = offset + 1 /\ file'[offset + 1] = line
        /\ \A i \in 1..offset : file'[i] = file[i]
    BY <1>0, <1>4, LinesEffect
  <2> DEFINE T == {Entry(file[i]) : i \in 1..offset} \cup {Entry(line)}
             W == WholeLines
  <2>2. W \in Seq(T) /\ Len(W) = offset /\ \A i \in 1..offset : W[i] = Entry(file[i])
    <3>1. \A i \in 1..offset : Entry(file[i]) \in T
      OBVIOUS
    <3> QED
      BY <1>0, <1>1, <3>1, WholeLinesAre
  <2>3. Entry(line) \in T
    OBVIOUS
  <2> HIDE DEF T, W
  <2>4. /\ DOMAIN Append(W, Entry(line)) = 1..offset + 1
        /\ \A i \in 1..offset : Append(W, Entry(line))[i] = W[i]
        /\ Append(W, Entry(line))[offset + 1] = Entry(line)
        /\ Append(W, Entry(line)) \in [1..offset + 1 -> T]
    <3>1. /\ Append(W, Entry(line)) \in Seq(T) /\ Len(Append(W, Entry(line))) = offset + 1
          /\ \A i \in 1..offset : Append(W, Entry(line))[i] = W[i]
          /\ Append(W, Entry(line))[offset + 1] = Entry(line)
      BY <2>2, <2>3, AppendProperties
    <3>2. Append(W, Entry(line)) \in [1..offset + 1 -> T]
      BY <3>1, LenProperties
    <3> QED
      BY <3>1, <3>2
  <2>5. Append(W, Entry(line)) = [i \in 1..offset + 1 |-> Append(W, Entry(line))[i]]
    <3>1. \A A : A \in [1..offset + 1 -> T] => A = [i \in 1..offset + 1 |-> A[i]]
      OBVIOUS
    <3> QED
      BY <2>4, <3>1
  <2>6. \A i \in 1..offset + 1 : Entry(file'[i]) = Append(W, Entry(line))[i]
    BY <1>0, <2>1, <2>2, <2>4
  <2>7. [i \in 1..offset + 1 |-> Entry(file'[i])] = Append(W, Entry(line))
    BY <2>5, <2>6
  <2> QED
    BY <1>2, <1>4, <2>1, <2>7 DEF W
<1> QED
  BY <1>0, <1>3, <1>4, LinesEffect

LEMMA SameCount == \A S : Ledger!Cardinality(S) = Cardinality(S)
  BY DEF Cardinality, Ledger!Cardinality

LEMMA EntryIs ==
  /\ \A l : IsRecord(l) => Entry(l) = Ledger!Line(l.flag)
  /\ \A l : ~IsRecord(l) => Entry(l) = Ledger!Notice(l.records_lost)
BY DEF Entry, Ledger!Line, Ledger!Notice

\* Until the notice is written the reader has not seen one.
LEMMA NotClosed ==
  ASSUME LedgerInv, wpc \notin Ended
  PROVE  ~Ledger!Closed
<1>1. TypeOK /\ FileShape /\ TailPartial /\ offset \in Nat
  BY DEF LedgerInv, WholeInv, DeliveryInv, TypeOK, FileOK
<1>2. WholeLines = [i \in 1..offset |-> Entry(file[i])] /\ Len(WholeLines) = offset
  BY <1>1, WholeLinesAre
<1>3. \A i \in 1..offset : IsRecord(file[i])
  <2>1. \A i \in 1..offset : file[i] \in Lines /\ ~IsNotice(file[i])
    BY <1>1 DEF FileShape, LedgerInv, NoticeLast
  <2> QED
    BY <2>1, KindsOfLine
<1>4. CASE offset = 0
  <2>1. WholeLines = <<>>
    BY <1>2, <1>4
  <2> QED
    BY <2>1 DEF Ledger!Closed
<1>5. CASE offset # 0
  <2>1. WholeLines[offset] = Entry(file[offset]) /\ IsRecord(file[offset])
    BY <1>1, <1>2, <1>3, <1>5
  <2>2. WholeLines[Len(WholeLines)].kind = "record"
    <3>1. Entry(file[offset]) = [kind |-> "record", of |-> file[offset].flag]
      BY <2>1 DEF Entry
    <3>2. WholeLines[Len(WholeLines)] = Entry(file[offset])
      BY <1>2, <2>1, Zenon
    <3> QED
      BY <3>1, <3>2
  <2> QED
    BY <2>2 DEF Ledger!Closed
<1> QED
  BY <1>4, <1>5

\* A record the reader has seen is in the file.
LEMMA LandedInFile ==
  ASSUME LedgerInv, NEW r, Ledger!Landed(r)
  PROVE  InFile(r)
<1>1. TypeOK /\ FileShape /\ TailPartial
  BY DEF LedgerInv, WholeInv, DeliveryInv
<1>2. WholeLines = [i \in 1..offset |-> Entry(file[i])]
  BY <1>1, WholeLinesAre
<1>3. PICK i \in 1..offset : Entry(file[i]) = [kind |-> "record", of |-> r]
  BY <1>2 DEF Ledger!Landed, Ledger!Line
<1>4. IsRecord(file[i]) /\ file[i].flag = r
  BY <1>3 DEF Entry
<1> QED
  BY <1>1, <1>4, RecordsComplete DEF InFile

LEMMA InitLedger == Init => Ledger!Init
<1> SUFFICES ASSUME Init PROVE Ledger!Init
  OBVIOUS
<1>1. WholeLines = <<>>
  BY DEF Init, WholeLines
<1> QED
  BY <1>1 DEF Init, Ledger!Init

LEMMA LedgerStep == LedgerInv /\ [Next]_vars => [Ledger!Next]_Ledger!ledger
<1> SUFFICES ASSUME LedgerInv, [Next]_vars PROVE [Ledger!Next]_Ledger!ledger
  OBVIOUS
<1> DEFINE Same == UNCHANGED <<seq, begun, lost, dropped>> /\ WholeLines' = WholeLines
<1>0. /\ WholeInv /\ DeliveryInv /\ TypeOK /\ GateInv /\ OrderInv /\ CountInv
      /\ seq \in Nat /\ dropped \in Nat /\ lost \subseteq 1..seq /\ counted \subseteq 1..seq
      /\ mu # "free" => half.seq \in 1..seq
      /\ wpc = "handle" => hand.seq \in 1..seq
      /\ \A r \in begun : r \in 1..seq
  BY DEF LedgerInv, WholeInv, GateInv, SeqsGivenOut, TypeOK, SendOK, CountOK, FateDecided, Complete
<1>1. Same => [Ledger!Next]_Ledger!ledger
  BY DEF Ledger!ledger
<1>2. ~WriteDone => WholeLines' = WholeLines
  BY WholeLinesEffect
<1>3. CASE Senders
  <2>0. WholeLines' = WholeLines /\ begun' = begun
    <3>1. offset' = offset /\ begun' = begun
      BY <1>3, SendersFrame DEF fileVars
    <3>2. WriteDone => offset' = offset + 1
      BY DEF WriteDone, EndOfRecord
    <3>3. offset \in Nat
      BY <1>0 DEF TypeOK, FileOK
    <3> QED
      BY <1>2, <3>1, <3>2, <3>3
  <2>1. ASSUME NEW k \in Keys, NEW s \in Sides, SendFirst(k, s)
        PROVE  Ledger!Open
    BY <2>0, <2>1 DEF SendFirst, countVars, Ledger!Open
  <2>2. ASSUME NEW k \in Keys, NEW s \in Sides, SendToLostRecord(k, s) \/ SendSecond(k, s)
        PROVE  Same
    BY <2>0, <2>2 DEF SendToLostRecord, SendSecond, countVars
  <2>3. CASE Enqueue \/ SecondQueued \/ Abandon
    BY <1>1, <2>0, <2>3 DEF Enqueue, FirstQueued, SecondAccepted, EnqueueRefused, SecondQueued, Abandon,
       countVars
  <2>4. CASE FirstRefused \/ SecondRefused
    <3>1. /\ lost' = lost \cup {half.seq} /\ dropped' = dropped + 1 /\ seq' = seq
          /\ Undecided /\ mu # "free" /\ mu # "secondQueued"
      BY <2>4 DEF FirstRefused, SecondRefused, CountDropped, Undecided
    <3>2. half.seq \notin begun \cup lost /\ half.seq \in 1..seq
      BY <1>0, <3>1 DEF GateInv, HalfInSend, FateDecided, Complete
    <3>3. Cardinality({half.seq}) = 1
      BY FS_Singleton
    <3>4. Ledger!Lose({half.seq})
      BY <2>0, <3>1, <3>2, <3>3, SameCount DEF Ledger!Lose
    <3> QED
      BY <3>2, <3>4 DEF Ledger!Next
  <2> QED
    BY <1>1, <1>3, <2>1, <2>2, <2>3, <2>4 DEF Senders, Call, Account, Ledger!Next
<1>4. CASE HandleJoin
  <2>1. /\ begun' = begun \cup {hand.seq} /\ UNCHANGED <<seq, lost, dropped>>
        /\ wpc = "handle" /\ ~WriteDone
    BY <1>4 DEF HandleJoin, Joins, sendVars, WriteDone
  <2>2. hand.seq \notin begun
    <3>1. InHand(hand) /\ hand \in Msg
      BY <1>0, <2>1 DEF InHand, TypeOK, WriterOK
    <3> QED
      BY <1>0, <3>1 DEF CountInv, BegunGone, Held
  <2>3. hand.seq \notin lost
    <3>1. WholeInv'
      BY <1>0, WholeStep
    <3>2. \A r \in begun' : r \notin lost'
      BY <3>1 DEF WholeInv, GateInv, FateDecided
    <3> QED
      BY <2>1, <3>2
  <2>4. ~Ledger!Closed
    BY <2>1, NotClosed DEF Ended
  <2>5. Ledger!Begin(hand.seq)
    BY <1>2, <2>1, <2>2, <2>3, <2>4 DEF Ledger!Begin
  <2> QED
    BY <1>0, <2>1, <2>5 DEF Ledger!Next
<1>5. CASE Writer /\ ~HandleJoin
  BY <1>1, <1>2, <1>5 DEF Writer, Receive, SeeQuit, Drained, Handle, HandleForget, HandleWait,
     HandleGivenUp, Joins, Trailer, ReadDropped, TrailerGate, TrailerDone, sendVars, countVars,
     WriteDone
<1>6. CASE WriteDone
  <2>1. /\ UNCHANGED <<seq, begun, lost, dropped>> /\ wpc = "write" /\ line \in Lines
    BY <1>0, <1>6 DEF WriteDone, AfterWrite, sendVars, countVars, TypeOK, WriterOK
  <2>2. WholeLines' = Append(WholeLines, Entry(line)) /\ ~Ledger!Closed
    BY <1>6, <2>1, WholeLinesEffect, NotClosed DEF Ended
  <2>3. CASE IsRecord(line)
    <3>1. line.flag \in begun /\ ~InFile(line.flag)
      BY <1>0, <2>3 DEF GateInv, FateDecided, DeliveryInv, NotTwice
    <3>2. Ledger!Land(line.flag)
      BY <2>1, <2>2, <2>3, <3>1, LandedInFile, EntryIs DEF Ledger!Land
    <3> QED
      BY <1>0, <3>1, <3>2 DEF Ledger!Next
  <2>4. CASE ~IsRecord(line)
    <3>1. /\ IsNotice(line) /\ line.records_lost # 0 /\ line.records_lost \in Nat
          /\ line.records_lost <= dropped
      BY <1>0, <2>1, <2>4, KindsOfLine DEF LedgerInv, NoticeLast, DeliveryInv, NoticeGood, InRange
    <3>2. line.records_lost \in 1..dropped
      BY <1>0, <3>1
    <3>3. Ledger!Notify(line.records_lost)
      BY <2>1, <2>2, <2>4, <3>2, EntryIs DEF Ledger!Notify
    <3> QED
      BY <3>2, <3>3 DEF Ledger!Next
  <2> QED
    BY <2>3, <2>4
<1>7. CASE Disk /\ ~WriteDone
  BY <1>1, <1>2, <1>7 DEF Disk, WriteNothing, WriteSome, WriteFailed, AfterWrite, CloseFile,
     sendVars, countVars
<1>8. CASE GivesUp
  <2>1. /\ lost' = lost \cup (counted \ begun) /\ dropped' = dropped + StillQueued
        /\ UNCHANGED <<seq, begun, offset>> /\ cpc = "await" /\ offset \in Nat
    BY <1>0, <1>8 DEF GivesUp, TrailerTimeout, TickStalled, GiveUp, sendVars, fileVars, TypeOK,
       FileOK
  <2>2. ~gaveUp
    BY <1>0, <2>1 DEF CountInv, Counters
  <2>3. StillQueued = Cardinality(counted \ begun)
    BY <1>0, <2>2, StillQueuedIsExact DEF CountInv
  <2>4. WholeLines' = WholeLines
    <3>1. WriteDone => offset' = offset + 1
      BY DEF WriteDone, EndOfRecord
    <3> QED
      BY <1>2, <2>1, <3>1
  <2>5. CASE counted \ begun = {}
    <3>1. StillQueued = 0
      BY <2>3, <2>5, FS_EmptySet
    <3> QED
      BY <1>0, <1>1, <2>1, <2>4, <2>5, <3>1
  <2>6. CASE counted \ begun # {}
    <3>1. (counted \ begun) \cap (begun \cup lost) = {}
      BY <1>0, <2>2 DEF GateInv, FateDecided, Complete
    <3>2. Ledger!Lose(counted \ begun)
      BY <2>1, <2>3, <2>4, <2>6, <3>1, SameCount DEF Ledger!Lose
    <3>3. counted \ begun \in SUBSET (1..seq)
      BY <1>0
    <3> QED
      BY <3>2, <3>3 DEF Ledger!Next
  <2> QED
    BY <2>5, <2>6
<1>9. CASE (Close \/ Await \/ UNCHANGED vars) /\ ~GivesUp
  <2>1. UNCHANGED <<seq, begun, lost, dropped, offset>>
    BY <1>9 DEF Close, Await, AwaitDrained, AwaitTrailer, TickMoved, AwaitFinished, CloseReturns,
       vars, sendVars, countVars, fileVars
  <2>2. WriteDone => offset' = offset + 1
    BY DEF WriteDone, EndOfRecord
  <2>3. offset \in Nat
    BY <1>0 DEF TypeOK, FileOK
  <2> QED
    BY <1>1, <1>2, <2>1, <2>2, <2>3
<1> QED
  BY <1>3, <1>4, <1>5, <1>6, <1>7, <1>8, <1>9 DEF Next, Senders

\* The writer implements the ledger: each of its steps is one step of ExportLedger or none,
\* so a record has one fate, a record begun has one line, lines are only appended, and the
\* notice is last and claims no more than was lost (send, handle, write, giveUp, writeTrailer).
THEOREM ImplementsTheLedger == Spec => ImplementsLedger
<1> QED
  BY InitLedgerInv, LedgerInvStep, InitLedger, LedgerStep, PTL
  DEF Spec, ImplementsLedger, Ledger!Spec
=============================================================================
