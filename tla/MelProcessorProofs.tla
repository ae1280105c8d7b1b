------------------------- MODULE MelProcessorProofs -------------------------
(* The ring of MelProcessor implements ReportQueue, for every size of the ring  *)
(* and of a run, whatever levels are computed and whatever its clients call.    *)
EXTENDS MelProcessor, TLAPS, SequenceTheorems

\* kRingBufferSize and kMaxMelValues are positive; setOutputRs2UpperBound() takes
\* no bound below 80 dBA (MelProcessor.cpp:48, 180, MelProcessor.h:41, 174).
MelAssumption ==
  /\ RingSize \in Nat \ {0} /\ MaxMelValues \in Nat \ {0}
  /\ Levels \subseteq Int /\ Rs1 \in Int /\ Rs2 \in Nat
  /\ \A mel : \A run : NoReport # [mel |-> mel, mels |-> run]

Report ==
  {report \in [mel : Int, mels : Seq(Int)] :
     Len(report.mels) =< MaxMelValues /\ (report.mel # 0 => report.mels = <<>>)}

Slots == [mMel : Int, mMels : [1 .. MaxMelValues -> Int], mMelsSize : 0 .. MaxMelValues]

RingType ==
  /\ mRbReadPtr \in 0 .. RingSize - 1 /\ mRbWritePtr \in 0 .. RingSize - 1
  /\ ring \in [0 .. RingSize - 1 -> Slots]
  /\ mMelValues \in [1 .. MaxMelValues -> Int] /\ mCurrentIndex \in 0 .. MaxMelValues - 1
  /\ todo \in Seq(Report)
  /\ producer \in {"idle", "test", "fill", "publish", "notify"}
  /\ todo # <<>> <=> producer \in {"test", "fill", "publish"}

\* The writer has room once it has tested, for the reader only gives slots back;
\* the reader is in a slot that has been published.
RingInv ==
  /\ RingType
  /\ producer \in {"fill", "publish"} => ~ ringBufferIsFull
  /\ producer = "publish" => ReportIn(ring[mRbWritePtr]) = Head(todo)
  /\ melWorker = "callback" => ~ ringBufferIsEmpty

-----------------------------------------------------------------------------
(* Indices *)

LEMMA DivMod ==
  ASSUME NEW m \in Nat \ {0}, NEW n \in Int
  PROVE  n = m * (n \div m) + (n % m) /\ n \div m \in Int /\ n % m \in 0 .. m - 1
OBVIOUS

\* Within one turn of the ring, the remainder is a conditional subtraction.
LEMMA ModInTurn ==
  ASSUME NEW m \in Nat \ {0}, NEW n \in Int, - m =< n, n < 2 * m
  PROVE  n % m = IF n < 0 THEN n + m ELSE IF n < m THEN n ELSE n - m
<1> DEFINE q == n \div m
           t == n % m
<1>1. n = m * q + t /\ q \in Int /\ t \in 0 .. m - 1
  BY DivMod
<1> HIDE DEF q, t
<1>2. q = -1 \/ q = 0 \/ q = 1
  <2>1. CASE q > 1
    <3>1. m * q >= m * 2
      BY <1>1, <2>1
    <3> QED BY <1>1, <3>1
  <2>2. CASE q < -1
    <3>1. m * q =< m * (-2)
      BY <1>1, <2>2
    <3> QED BY <1>1, <3>1
  <2> QED BY <1>1, <2>1, <2>2
<1>3. t = IF n < 0 THEN n + m ELSE IF n < m THEN n ELSE n - m
  <2>1. CASE q = -1
    BY <1>1, <2>1
  <2>2. CASE q = 0
    BY <1>1, <2>2
  <2>3. CASE q = 1
    BY <1>1, <2>3
  <2> QED BY <1>2, <2>1, <2>2, <2>3
<1> QED BY <1>3 DEF t

\* The slot of the i-th report of the queue.
SlotOf(i) == (mRbReadPtr + i - 1) % RingSize

LEMMA Turn ==
  ASSUME MelAssumption, NEW r \in 0 .. RingSize - 1, NEW w \in 0 .. RingSize - 1
  PROVE  /\ (w - r) % RingSize \in 0 .. RingSize - 1
         /\ (w - r) % RingSize = IF r =< w THEN w - r ELSE w - r + RingSize
         /\ \A i \in 1 .. RingSize :
              /\ (r + i - 1) % RingSize \in 0 .. RingSize - 1
              /\ (r + i - 1) % RingSize = IF r + i - 1 < RingSize THEN r + i - 1
                                          ELSE r + i - 1 - RingSize
<1> USE DEF MelAssumption
<1>1. (w - r) % RingSize = IF r =< w THEN w - r ELSE w - r + RingSize
  <2> DEFINE n == w - r
  <2>1. n \in Int /\ - RingSize =< n /\ n < 2 * RingSize /\ n < RingSize
    OBVIOUS
  <2>2. n % RingSize = IF n < 0 THEN n + RingSize ELSE IF n < RingSize THEN n ELSE n - RingSize
    <3> HIDE DEF n
    <3> QED BY <2>1, ModInTurn
  <2> QED BY <2>1, <2>2
<1>2. ASSUME NEW i \in 1 .. RingSize
      PROVE  (r + i - 1) % RingSize = IF r + i - 1 < RingSize THEN r + i - 1
                                      ELSE r + i - 1 - RingSize
  <2> DEFINE n == r + i - 1
  <2>1. n \in Int /\ - RingSize =< n /\ n < 2 * RingSize /\ ~ (n < 0)
    OBVIOUS
  <2>2. n % RingSize = IF n < 0 THEN n + RingSize ELSE IF n < RingSize THEN n ELSE n - RingSize
    <3> HIDE DEF n
    <3> QED BY <2>1, ModInTurn
  <2> QED BY <2>1, <2>2
<1> QED BY <1>1, <1>2

LEMMA Occupied ==
  ASSUME MelAssumption, RingType
  PROVE  /\ Used \in 0 .. RingSize - 1
         /\ Used = IF mRbReadPtr =< mRbWritePtr THEN mRbWritePtr - mRbReadPtr
                   ELSE mRbWritePtr - mRbReadPtr + RingSize
         /\ \A i \in 1 .. RingSize :
              /\ SlotOf(i) \in 0 .. RingSize - 1
              /\ SlotOf(i) = IF mRbReadPtr + i - 1 < RingSize THEN mRbReadPtr + i - 1
                             ELSE mRbReadPtr + i - 1 - RingSize
<1> mRbReadPtr \in 0 .. RingSize - 1 /\ mRbWritePtr \in 0 .. RingSize - 1
  BY DEF RingType
<1> QED BY Turn DEF Used, SlotOf

\* The same after a step.
LEMMA OccupiedNext ==
  ASSUME MelAssumption, RingType'
  PROVE  /\ Used' = IF mRbReadPtr' =< mRbWritePtr' THEN mRbWritePtr' - mRbReadPtr'
                    ELSE mRbWritePtr' - mRbReadPtr' + RingSize
         /\ \A i \in 1 .. RingSize :
              SlotOf(i)' = IF mRbReadPtr' + i - 1 < RingSize THEN mRbReadPtr' + i - 1
                           ELSE mRbReadPtr' + i - 1 - RingSize
<1> mRbReadPtr' \in 0 .. RingSize - 1 /\ mRbWritePtr' \in 0 .. RingSize - 1
  BY DEF RingType
<1> QED BY Turn DEF Used, SlotOf

\* No report of the queue is in the slot that the writer fills.
LEMMA WriterSlotFree ==
  ASSUME MelAssumption, RingType, NEW i \in 1 .. Used
  PROVE  i \in 1 .. RingSize /\ SlotOf(i) # mRbWritePtr
<1>1. i \in 1 .. RingSize
  BY Occupied DEF MelAssumption
<1>2. /\ mRbReadPtr \in 0 .. RingSize - 1 /\ mRbWritePtr \in 0 .. RingSize - 1
      /\ RingSize \in Nat \ {0}
  BY DEF MelAssumption, RingType
<1>3. /\ i =< IF mRbReadPtr =< mRbWritePtr THEN mRbWritePtr - mRbReadPtr
              ELSE mRbWritePtr - mRbReadPtr + RingSize
      /\ SlotOf(i) = IF mRbReadPtr + i - 1 < RingSize THEN mRbReadPtr + i - 1
                     ELSE mRbReadPtr + i - 1 - RingSize
  BY <1>1, Occupied
<1> QED BY <1>1, <1>2, <1>3

-----------------------------------------------------------------------------
(* Reports *)

LEMMA RunIs ==
  ASSUME MelAssumption, RingType, NEW mel \in Levels
  PROVE  /\ RunToReport(mel) \in Seq(Int) /\ Len(RunToReport(mel)) =< MaxMelValues
         /\ (RunToReport(mel) = <<>> /\ mel >= Rs1) => mCurrentIndex + 1 < MaxMelValues
<1> USE DEF MelAssumption, RingType
<1> DEFINE stored == [mMelValues EXCEPT ![mCurrentIndex + 1] = mel]
           ends   == mel < Rs1 /\ mCurrentIndex > 0
           size   == IF mel >= Rs1 THEN mCurrentIndex + 1 ELSE mCurrentIndex
<1>1. stored \in [1 .. MaxMelValues -> Int]
  OBVIOUS
<1>2. size \in 0 .. MaxMelValues /\ (ends => size > 0) /\ (mel >= Rs1 => size = mCurrentIndex + 1)
  OBVIOUS
<1>3. RunToReport(mel) = IF ends \/ size > MaxMelValues - 1 THEN SubSeq(stored, 1, size) ELSE <<>>
  BY DEF RunToReport
<1> HIDE DEF stored, ends, size
<1>4. /\ SubSeq(stored, 1, size) \in Seq(Int)
      /\ Len(SubSeq(stored, 1, size)) = IF 1 =< size THEN size - 1 + 1 ELSE 0
  <2>1. 1 \in Int /\ size \in Int /\ 1 .. size \subseteq 1 .. MaxMelValues
    BY <1>2
  <2>2. \A i \in 1 .. size : stored[i] \in Int
    BY <1>1, <2>1
  <2> QED BY <2>1, <2>2, SubSeqProperties
<1>5. /\ SubSeq(stored, 1, size) \in Seq(Int) /\ Len(SubSeq(stored, 1, size)) = size
  BY <1>2, <1>4
<1>6. RunToReport(mel) \in Seq(Int) /\ Len(RunToReport(mel)) =< MaxMelValues
  <2>1. CASE ends \/ size > MaxMelValues - 1
    BY <1>2, <1>3, <1>5, <2>1
  <2>2. CASE ~ (ends \/ size > MaxMelValues - 1)
    BY <1>3, <2>2
  <2> QED BY <2>1, <2>2
<1>7. ASSUME RunToReport(mel) = <<>>, mel >= Rs1
      PROVE  mCurrentIndex + 1 < MaxMelValues
  <2>1. ~ (size > MaxMelValues - 1)
    <3>1. CASE size > MaxMelValues - 1
      <4>1. SubSeq(stored, 1, size) = <<>>
        BY <1>3, <1>7, <3>1
      <4>2. size = 0
        BY <1>5, <4>1
      <4> QED BY <1>2, <1>7, <4>2
    <3> QED BY <3>1
  <2> QED BY <1>2, <1>7, <2>1
<1> QED BY <1>6, <1>7

LEMMA ReportsAre ==
  ASSUME MelAssumption, NEW mel \in Levels, NEW run \in Seq(Int), Len(run) =< MaxMelValues
  PROVE  Momentary(mel) \in Report /\ Values(run) \in Report
<1>1. <<>> \in Seq(Int) /\ Len(<<>>) = 0 /\ 0 =< MaxMelValues
  BY EmptySeq DEF MelAssumption
<1>2. Values(run) \in Report
  <2>1. [mel |-> 0, mels |-> run] \in [mel : Int, mels : Seq(Int)]
    OBVIOUS
  <2> QED BY <2>1 DEF Values, Report
<1>3. Momentary(mel) \in Report
  <2>1. mel \in Int
    BY DEF MelAssumption
  <2>2. [mel |-> mel, mels |-> <<>>] \in [mel : Int, mels : Seq(Int)]
    BY <1>1, <2>1
  <2> QED BY <1>1, <2>2 DEF Momentary, Report
<1> QED BY <1>2, <1>3

LEMMA MomentaryHolds ==
  ASSUME MelAssumption, NEW slot \in Slots, NEW mel \in Int, mel # 0
  PROVE  /\ Filled(slot, Momentary(mel)) \in Slots
         /\ ReportIn(Filled(slot, Momentary(mel))) = Momentary(mel)
<1> DEFINE f == [slot EXCEPT !.mMel = mel, !.mMelsSize = 0]
<1>1. f \in Slots /\ f.mMel = mel
  <2>1. 0 \in 0 .. MaxMelValues
    BY DEF MelAssumption
  <2> QED BY <2>1 DEF Slots
<1>2. Filled(slot, Momentary(mel)) = f
  BY DEF Filled, Momentary
<1> HIDE DEF f
<1> QED BY <1>1, <1>2 DEF ReportIn

LEMMA ValuesHold ==
  ASSUME MelAssumption, NEW slot \in Slots, NEW run \in Seq(Int), Len(run) =< MaxMelValues
  PROVE  /\ Filled(slot, Values(run)) \in Slots
         /\ ReportIn(Filled(slot, Values(run))) = Values(run)
<1> DEFINE n == Len(run)
           m == [k \in 1 .. MaxMelValues |-> IF k =< n THEN run[k] ELSE slot.mMels[k]]
           f == [mMel |-> 0, mMels |-> m, mMelsSize |-> n]
<1>1. n \in 0 .. MaxMelValues /\ n \in Nat /\ \A i \in 1 .. n : run[i] \in Int
  BY DEF MelAssumption
<1>2. m \in [1 .. MaxMelValues -> Int] /\ \A k \in 1 .. n : m[k] = run[k]
  BY <1>1 DEF Slots, MelAssumption
<1>3. Filled(slot, Values(run)) = f
  BY DEF Filled, Values
<1> HIDE DEF m
<1>4. f \in Slots /\ f.mMel = 0 /\ f.mMels = m /\ f.mMelsSize = n
  <2> HIDE DEF n
  <2> QED BY <1>1, <1>2 DEF Slots
<1>5. SubSeq(m, 1, n) = run
  <2>1. /\ SubSeq(m, 1, n) \in Seq(Int)
        /\ Len(SubSeq(m, 1, n)) = n
        /\ \A i \in 1 .. n : SubSeq(m, 1, n)[i] = m[i]
    <3>1. \A i \in 1 .. n : m[i] \in Int
      BY <1>1, <1>2
    <3> HIDE DEF n
    <3>2. /\ SubSeq(m, 1, n) \in Seq(Int)
          /\ Len(SubSeq(m, 1, n)) = IF 1 =< n THEN n - 1 + 1 ELSE 0
          /\ \A i \in 1 .. n - 1 + 1 : SubSeq(m, 1, n)[i] = m[1 + i - 1]
      BY <1>1, <3>1, SubSeqProperties
    <3> QED BY <1>1, <3>2
  <2> QED BY <1>1, <1>2, <2>1, SeqEqual
<1> HIDE DEF f
<1> QED BY <1>3, <1>4, <1>5 DEF ReportIn

\* What is read from a slot is what was put there, whatever the slot held before
\* (MelProcessor.cpp:417-424, 458-460, 477-480).
LEMMA FilledHolds ==
  ASSUME MelAssumption, NEW slot \in Slots, NEW report \in Report
  PROVE  Filled(slot, report) \in Slots /\ ReportIn(Filled(slot, report)) = report
<1>1. /\ report = [mel |-> report.mel, mels |-> report.mels]
      /\ report.mel \in Int /\ report.mels \in Seq(Int) /\ Len(report.mels) =< MaxMelValues
      /\ report.mel # 0 => report.mels = <<>>
  <2>1. report \in [mel : Int, mels : Seq(Int)]
    BY DEF Report
  <2>2. Len(report.mels) =< MaxMelValues /\ (report.mel # 0 => report.mels = <<>>)
    BY DEF Report
  <2> QED BY <2>1, <2>2
<1>2. CASE report.mel # 0
  <2>1. report = Momentary(report.mel)
    BY <1>1, <1>2 DEF Momentary
  <2> QED BY <1>1, <1>2, <2>1, MomentaryHolds
<1>3. CASE report.mel = 0
  <2>1. report = Values(report.mels)
    BY <1>1, <1>3 DEF Values
  <2> QED BY <1>1, <2>1, ValuesHold
<1> QED BY <1>2, <1>3

-----------------------------------------------------------------------------
(* The invariant *)

LEMMA AfterIs ==
  ASSUME MelAssumption, NEW i \in 0 .. RingSize - 1
  PROVE  /\ NextSlot(i) \in 0 .. RingSize - 1
         /\ NextSlot(i) = IF i = RingSize - 1 THEN 0 ELSE i + 1
         /\ \A j \in 0 .. RingSize - 1 : NextSlot(i) = NextSlot(j) => i = j
BY DEF MelAssumption, NextSlot

LEMMA NextReportKeeps ==
  ASSUME RingType, producer \in {"test", "publish"}, NextReport
  PROVE  /\ todo' \in Seq(Report) /\ producer' \in {"test", "notify"}
         /\ todo' # <<>> <=> producer' = "test"
<1>1. todo \in Seq(Report) /\ todo # <<>>
  BY DEF RingType
<1>2. Tail(todo) \in Seq(Report) /\ Len(Tail(todo)) = Len(todo) - 1 /\ Len(todo) \in Nat \ {0}
  BY <1>1, HeadTailProperties, EmptySeq
<1>3. todo' = Tail(todo) /\ producer' = IF Len(todo) > 1 THEN "test" ELSE "notify"
  BY DEF NextReport
<1>4. Tail(todo) # <<>> <=> Len(todo) > 1
  <2> DEFINE t == Tail(todo)
  <2>1. t \in Seq(Report) /\ Len(t) = Len(todo) - 1 /\ Len(todo) \in Nat \ {0}
    BY <1>2
  <2> HIDE DEF t
  <2>2. t # <<>> <=> Len(t) # 0
    BY <2>1, EmptySeq
  <2>3. t # <<>> <=> Len(todo) > 1
    BY <2>1, <2>2
  <2> QED BY <2>3 DEF t
<1> QED BY <1>2, <1>3, <1>4

LEMMA AddStep ==
  ASSUME MelAssumption, RingInv, NEW mel \in Levels, AddMelValue(mel)
  PROVE  RingInv'
<1> DEFINE run == RunToReport(mel)
<1>1. /\ run \in Seq(Int) /\ Len(run) =< MaxMelValues
      /\ (run = <<>> /\ mel >= Rs1) => mCurrentIndex + 1 < MaxMelValues
  BY RunIs DEF RingInv
<1> HIDE DEF run
<1>2. Momentary(mel) \in Report /\ Values(run) \in Report
  BY <1>1, ReportsAre
<1>3. /\ mMelValues' = [mMelValues EXCEPT ![mCurrentIndex + 1] = mel]
      /\ mCurrentIndex' = IF run # <<>> THEN 0
                          ELSE IF mel >= Rs1 THEN mCurrentIndex + 1 ELSE mCurrentIndex
      /\ todo' = (IF mel > Rs2 THEN <<Momentary(mel)>> ELSE <<>>)
                 \o (IF run # <<>> THEN <<Values(run)>> ELSE <<>>)
      /\ producer' = IF todo' # <<>> THEN "test" ELSE "idle"
      /\ UNCHANGED <<ring, mRbReadPtr, mRbWritePtr, melWorker>>
  BY Zenon DEF AddMelValue, run, buffer
<1>4. todo' \in Seq(Report)
  <2>1. <<Momentary(mel)>> \in Seq(Report) /\ <<Values(run)>> \in Seq(Report) /\ <<>> \in Seq(Report)
    BY <1>2
  <2> QED BY <1>3, <2>1, ConcatProperties
<1>5. mMelValues' \in [1 .. MaxMelValues -> Int] /\ mCurrentIndex' \in 0 .. MaxMelValues - 1
  BY <1>1, <1>3 DEF RingInv, RingType, MelAssumption
<1> QED BY <1>3, <1>4, <1>5 DEF RingInv, RingType, ringBufferIsFull, ringBufferIsEmpty

LEMMA WriterStep ==
  ASSUME MelAssumption, RingInv, TestFull \/ FillSlot \/ Publish \/ Notify
  PROVE  RingInv'
<1> USE DEF RingInv, RingType
<1>1. CASE TestFull
  <2>1. CASE ringBufferIsFull
    BY <1>1, <2>1, NextReportKeeps DEF TestFull, computing, buffer, ringBufferIsFull, ringBufferIsEmpty
  <2>2. CASE ~ ringBufferIsFull
    BY <1>1, <2>2 DEF TestFull, computing, buffer, ringBufferIsFull, ringBufferIsEmpty
  <2> QED BY <2>1, <2>2
<1>2. CASE FillSlot
  <2>1. /\ producer = "fill" /\ producer' = "publish"
        /\ ring' = [ring EXCEPT ![mRbWritePtr] = Filled(ring[mRbWritePtr], Head(todo))]
        /\ UNCHANGED <<computing, todo, mRbReadPtr, mRbWritePtr, melWorker>>
    BY <1>2 DEF FillSlot
  <2>2. Head(todo) \in Report
    BY <2>1, HeadTailProperties
  <2>3. ring[mRbWritePtr] \in Slots
    OBVIOUS
  <2>4. /\ Filled(ring[mRbWritePtr], Head(todo)) \in Slots
        /\ ReportIn(Filled(ring[mRbWritePtr], Head(todo))) = Head(todo)
    BY <2>2, <2>3, FilledHolds
  <2>5. /\ ring' \in [0 .. RingSize - 1 -> Slots]
        /\ ring'[mRbWritePtr'] = Filled(ring[mRbWritePtr], Head(todo))
    BY <2>1, <2>4
  <2>6. ReportIn(ring[mRbWritePtr])' = Head(todo)'
    BY <2>1, <2>4, <2>5 DEF ReportIn
  <2> QED BY <2>1, <2>5, <2>6 DEF computing, ringBufferIsFull, ringBufferIsEmpty
<1>3. CASE Publish
  <2>1. producer = "publish" /\ mRbWritePtr' = NextSlot(mRbWritePtr) /\ NextReport
        /\ UNCHANGED <<computing, ring, mRbReadPtr, melWorker>>
    BY <1>3 DEF Publish
  <2>2. /\ todo' \in Seq(Report) /\ producer' \in {"test", "notify"}
        /\ todo' # <<>> <=> producer' = "test"
    BY <2>1, NextReportKeeps
  <2>3. mRbWritePtr' \in 0 .. RingSize - 1
    BY <2>1, AfterIs
  <2>4. mRbReadPtr' # mRbWritePtr'
    BY <2>1 DEF ringBufferIsFull
  <2> QED BY <2>1, <2>2, <2>3, <2>4 DEF computing, ringBufferIsEmpty
<1>4. CASE Notify
  BY <1>4 DEF Notify, Woken, computing, buffer, ringBufferIsFull, ringBufferIsEmpty
<1> QED BY <1>1, <1>2, <1>3, <1>4

LEMMA ReaderStep ==
  ASSUME MelAssumption, RingInv, MelWorkerReturn
  PROVE  RingInv'
<1> USE DEF RingInv, RingType
<1>1. /\ melWorker = "callback" /\ melWorker' = "loop" /\ mRbReadPtr' = NextSlot(mRbReadPtr)
      /\ UNCHANGED <<computing, todo, producer, ring, mRbWritePtr>>
  BY DEF MelWorkerReturn
<1>2. mRbReadPtr' \in 0 .. RingSize - 1
  BY <1>1, AfterIs
<1>3. NextSlot(mRbWritePtr) # mRbReadPtr'
  BY <1>1, AfterIs DEF ringBufferIsEmpty
<1>4. (producer = "publish" => ReportIn(ring[mRbWritePtr]) = Head(todo))'
  BY <1>1 DEF ReportIn
<1> QED BY <1>1, <1>2, <1>3, <1>4 DEF computing, ringBufferIsFull

\* Every other step leaves the ring and the writer alone.
Elsewhere ==
  /\ UNCHANGED <<todo, producer, ring, mRbReadPtr, mRbWritePtr, mMelValues, mCurrentIndex>>
  /\ melWorker' = "callback" => melWorker = "callback" \/ ~ ringBufferIsEmpty

LEMMA NextIs ==
  ASSUME [MelNext]_melVars
  PROVE  \/ \E mel \in Levels : AddMelValue(mel)
         \/ TestFull \/ FillSlot \/ Publish \/ Notify \/ MelWorkerReturn
         \/ Elsewhere
<1> USE DEF Elsewhere, computing, buffer, clients
<1>1. CASE \E paused \in BOOLEAN : Pause(paused)
  BY <1>1 DEF Pause
<1>2. CASE MelWorkerStart \/ MelWorkerWait \/ MelWorkerWake \/ MelWorkerLoop \/ MelWorkerSpurious
  BY <1>2 DEF MelWorkerStart, MelWorkerWait, MelWorkerWake, MelWorkerLoop, MelWorkerSpurious, Still, ToWait, LoopStep, ringBufferIsEmpty
<1>3. CASE Drain \/ DrainAndWait \/ StopRequest \/ StopNotify \/ StopJoin
  BY <1>3 DEF Drain, DrainAndWait, StopRequest, StopNotify, StopJoin, Woken
<1>4. CASE DrainPoll
  BY <1>4 DEF DrainPoll, Poll, Woken
<1>5. CASE UNCHANGED melVars
  BY <1>5 DEF melVars
<1> QED BY <1>1, <1>2, <1>3, <1>4, <1>5 DEF MelNext, Producer, MelWorker, Client

LEMMA RingStep ==
  ASSUME MelAssumption, RingInv, [MelNext]_melVars
  PROVE  RingInv'
<1>1. CASE Elsewhere
  BY <1>1 DEF Elsewhere, RingInv, RingType, ReportIn, ringBufferIsFull, ringBufferIsEmpty
<1> QED BY <1>1, NextIs, AddStep, WriterStep, ReaderStep

LEMMA RingInit ==
  ASSUME MelAssumption, MelInit
  PROVE  RingInv
<1>1. ring \in [0 .. RingSize - 1 -> Slots]
  BY DEF MelInit, Slots, MelAssumption
<1>2. todo \in Seq(Report) /\ todo = <<>>
  BY EmptySeq DEF MelInit
<1> QED BY <1>1, <1>2 DEF MelInit, RingInv, RingType, MelAssumption

-----------------------------------------------------------------------------
(* The refinement *)

Offered == IF todo = <<>> THEN NoReport ELSE Head(todo)
Queued  == [i \in 1 .. Used |-> ReportIn(ring[SlotOf(i)])]

AnyReport == [mel : Int, mels : Seq(Int)]

LEMMA ReportType ==
  ASSUME MelAssumption, NEW slot \in Slots
  PROVE  ReportIn(slot) \in AnyReport
<1>1. slot.mMel \in Int /\ slot.mMels \in [1 .. MaxMelValues -> Int] /\ slot.mMelsSize \in 0 .. MaxMelValues
  BY DEF Slots
<1>2. SubSeq(slot.mMels, 1, slot.mMelsSize) \in Seq(Int)
  <2>1. \A i \in 1 .. slot.mMelsSize : slot.mMels[i] \in Int
    BY <1>1 DEF MelAssumption
  <2>2. 1 \in Int /\ slot.mMelsSize \in Int
    BY <1>1
  <2> QED BY <2>1, <2>2, SubSeqProperties
<1>3. <<>> \in Seq(Int)
  BY EmptySeq
<1> QED BY <1>1, <1>2, <1>3 DEF ReportIn, Momentary, Values, AnyReport

LEMMA QueuedType ==
  ASSUME MelAssumption, RingType
  PROVE  /\ Queued \in Seq(AnyReport) /\ Len(Queued) = Used /\ Used \in Nat
         /\ \A i \in 1 .. Used : Queued[i] = ReportIn(ring[SlotOf(i)])
<1>1. Used \in 0 .. RingSize - 1 /\ RingSize \in Nat \ {0}
  BY Occupied DEF MelAssumption
<1>2. ASSUME NEW i \in 1 .. Used
      PROVE  ReportIn(ring[SlotOf(i)]) \in AnyReport
  <2>1. SlotOf(i) \in 0 .. RingSize - 1
    <3>1. i \in 1 .. RingSize
      BY <1>1
    <3> QED BY <3>1, Occupied
  <2> QED BY <2>1, ReportType DEF RingType
<1> QED BY <1>1, <1>2 DEF Queued

\* Steps that leave the indices alone, and all slots but the writer's.
LEMMA QueueKept ==
  ASSUME MelAssumption, RingType, UNCHANGED <<mRbReadPtr, mRbWritePtr>>,
         \A i \in 0 .. RingSize - 1 : i # mRbWritePtr => ring'[i] = ring[i]
  PROVE  Queued' = Queued
<1>1. Used' = Used /\ \A i : SlotOf(i)' = SlotOf(i)
  BY DEF Used, SlotOf
<1>2. ASSUME NEW i \in 1 .. Used
      PROVE  ReportIn(ring[SlotOf(i)])' = ReportIn(ring[SlotOf(i)])
  <2>1. SlotOf(i) \in 0 .. RingSize - 1 /\ SlotOf(i) # mRbWritePtr
    BY WriterSlotFree, Occupied
  <2>2. ring'[SlotOf(i)] = ring[SlotOf(i)]
    BY <2>1
  <2> QED BY <1>1, <2>2 DEF ReportIn
<1> QED BY <1>1, <1>2 DEF Queued

LEMMA PublishAppends ==
  ASSUME MelAssumption, RingInv, RingType', Publish
  PROVE  Queued' = Append(Queued, Head(todo))
<1> DEFINE n == Used
<1>1. /\ ~ ringBufferIsFull /\ ReportIn(ring[mRbWritePtr]) = Head(todo)
      /\ mRbWritePtr' = NextSlot(mRbWritePtr) /\ UNCHANGED <<ring, mRbReadPtr>> /\ RingType
      /\ mRbReadPtr \in 0 .. RingSize - 1 /\ mRbWritePtr \in 0 .. RingSize - 1
      /\ RingSize \in Nat \ {0}
  BY DEF Publish, RingInv, RingType, MelAssumption
<1>2. /\ n \in 0 .. RingSize - 1
      /\ n = IF mRbReadPtr =< mRbWritePtr THEN mRbWritePtr - mRbReadPtr
             ELSE mRbWritePtr - mRbReadPtr + RingSize
      /\ \A i \in 1 .. RingSize :
           /\ SlotOf(i) \in 0 .. RingSize - 1
           /\ SlotOf(i) = IF mRbReadPtr + i - 1 < RingSize THEN mRbReadPtr + i - 1
                          ELSE mRbReadPtr + i - 1 - RingSize
  BY <1>1, Occupied
<1>3. Used' = IF mRbReadPtr =< mRbWritePtr' THEN mRbWritePtr' - mRbReadPtr
              ELSE mRbWritePtr' - mRbReadPtr + RingSize
  BY <1>1, OccupiedNext
<1> HIDE DEF n
<1>4. Used' = n + 1 /\ SlotOf(n + 1) = mRbWritePtr /\ n + 1 \in 1 .. RingSize
  <2>1. n + 1 \in 1 .. RingSize
    BY <1>1, <1>2
  <2>2. SlotOf(n + 1) = mRbWritePtr
    BY <1>1, <1>2, <2>1
  <2>3. Used' = n + 1
    <3>1. /\ mRbWritePtr' = IF mRbWritePtr = RingSize - 1 THEN 0 ELSE mRbWritePtr + 1
          /\ mRbWritePtr' # mRbReadPtr
      BY <1>1, AfterIs DEF ringBufferIsFull
    <3>2. CASE mRbWritePtr = RingSize - 1
      BY <1>1, <1>2, <1>3, <3>1, <3>2
    <3>3. CASE mRbWritePtr # RingSize - 1
      BY <1>1, <1>2, <1>3, <3>1, <3>3
    <3> QED BY <3>2, <3>3
  <2> QED BY <2>1, <2>2, <2>3
<1>5. \A i : SlotOf(i)' = SlotOf(i)
  BY <1>1 DEF SlotOf
<1>6. Queued' = [i \in 1 .. n + 1 |-> ReportIn(ring[SlotOf(i)])]
  BY <1>1, <1>4, <1>5 DEF Queued, ReportIn
<1>7. Queued \in Seq(AnyReport) /\ Len(Queued) = n /\ n \in Nat
      /\ \A i \in 1 .. n : Queued[i] = ReportIn(ring[SlotOf(i)])
  BY <1>1, QueuedType DEF n
<1>8. Head(todo) \in AnyReport
  BY <1>1, ReportType DEF RingType
<1>9. /\ Append(Queued, Head(todo)) \in Seq(AnyReport) /\ Len(Append(Queued, Head(todo))) = n + 1
      /\ \A i \in 1 .. n : Append(Queued, Head(todo))[i] = Queued[i]
      /\ Append(Queued, Head(todo))[n + 1] = Head(todo)
  BY <1>7, <1>8, AppendProperties
<1>10. ASSUME NEW i \in 1 .. n + 1
       PROVE  Append(Queued, Head(todo))[i] = ReportIn(ring[SlotOf(i)])
  BY <1>1, <1>4, <1>7, <1>9
<1>11. Append(Queued, Head(todo)) = [i \in 1 .. n + 1 |-> Append(Queued, Head(todo))[i]]
  BY <1>9, LenProperties
<1> QED BY <1>6, <1>10, <1>11

LEMMA ReturnDrops ==
  ASSUME MelAssumption, RingInv, RingType', MelWorkerReturn
  PROVE  Queued # <<>> /\ Queued' = Tail(Queued)
<1> DEFINE n == Used
<1>1. /\ ~ ringBufferIsEmpty /\ mRbReadPtr' = NextSlot(mRbReadPtr)
      /\ UNCHANGED <<ring, mRbWritePtr>> /\ RingType
      /\ mRbReadPtr \in 0 .. RingSize - 1 /\ mRbWritePtr \in 0 .. RingSize - 1
      /\ RingSize \in Nat \ {0}
  BY DEF MelWorkerReturn, RingInv, RingType, MelAssumption
<1>2. /\ n \in 0 .. RingSize - 1
      /\ n = IF mRbReadPtr =< mRbWritePtr THEN mRbWritePtr - mRbReadPtr
             ELSE mRbWritePtr - mRbReadPtr + RingSize
      /\ \A i \in 1 .. RingSize :
           /\ SlotOf(i) \in 0 .. RingSize - 1
           /\ SlotOf(i) = IF mRbReadPtr + i - 1 < RingSize THEN mRbReadPtr + i - 1
                          ELSE mRbReadPtr + i - 1 - RingSize
  BY <1>1, Occupied
<1>3. /\ Used' = IF mRbReadPtr' =< mRbWritePtr THEN mRbWritePtr - mRbReadPtr'
                 ELSE mRbWritePtr - mRbReadPtr' + RingSize
      /\ \A i \in 1 .. RingSize :
           SlotOf(i)' = IF mRbReadPtr' + i - 1 < RingSize THEN mRbReadPtr' + i - 1
                        ELSE mRbReadPtr' + i - 1 - RingSize
  BY <1>1, OccupiedNext
<1> HIDE DEF n
<1>4. n > 0 /\ Used' = n - 1
  BY <1>1, <1>2, <1>3, AfterIs DEF ringBufferIsEmpty
<1>5. ASSUME NEW i \in 1 .. n - 1
      PROVE  SlotOf(i)' = SlotOf(i + 1) /\ i + 1 \in 1 .. n
  <2>1. i \in 1 .. RingSize /\ i + 1 \in 1 .. RingSize /\ i + 1 \in 1 .. n
    BY <1>1, <1>2
  <2>2. /\ SlotOf(i)' = IF mRbReadPtr' + i - 1 < RingSize THEN mRbReadPtr' + i - 1
                         ELSE mRbReadPtr' + i - 1 - RingSize
        /\ SlotOf(i + 1) = IF mRbReadPtr + (i + 1) - 1 < RingSize THEN mRbReadPtr + (i + 1) - 1
                           ELSE mRbReadPtr + (i + 1) - 1 - RingSize
    BY <1>2, <1>3, <2>1
  <2>3. mRbReadPtr' = IF mRbReadPtr + 1 < RingSize THEN mRbReadPtr + 1 ELSE 0
    BY <1>1, AfterIs
  <2>4. i \in Int /\ i >= 1 /\ i + 1 =< RingSize - 1 /\ RingSize \in Nat
    BY <1>1, <1>2, <2>1
  <2>5. PICK r, s : r = mRbReadPtr /\ s = mRbReadPtr'
    OBVIOUS
  <2>6. r \in 0 .. RingSize - 1 /\ s = (IF r + 1 < RingSize THEN r + 1 ELSE 0)
    BY <1>1, <2>3, <2>5
  <2>7. (IF s + i - 1 < RingSize THEN s + i - 1 ELSE s + i - 1 - RingSize)
          = IF r + (i + 1) - 1 < RingSize THEN r + (i + 1) - 1 ELSE r + (i + 1) - 1 - RingSize
    BY <1>1, <2>4, <2>6
  <2>8. SlotOf(i)' = SlotOf(i + 1)
    BY <2>2, <2>5, <2>7
  <2> QED BY <2>1, <2>8
<1>6. /\ Queued \in Seq(AnyReport) /\ Len(Queued) = n /\ n \in Nat
      /\ \A i \in 1 .. n : Queued[i] = ReportIn(ring[SlotOf(i)])
  BY <1>1, QueuedType DEF n
<1>7. Queued # <<>>
  BY <1>4, <1>6
<1>8. /\ Tail(Queued) \in Seq(AnyReport) /\ Len(Tail(Queued)) = n - 1
      /\ \A i \in 1 .. n - 1 : Tail(Queued)[i] = Queued[i + 1]
  BY <1>6, <1>7, HeadTailProperties
<1>9. ASSUME NEW i \in 1 .. n - 1
      PROVE  ReportIn(ring[SlotOf(i)])' = Tail(Queued)[i]
  <2>1. ring'[SlotOf(i)'] = ring[SlotOf(i + 1)]
    BY <1>1, <1>5
  <2> QED BY <1>5, <1>6, <1>8, <2>1 DEF ReportIn
<1>10. Queued' = [i \in 1 .. n - 1 |-> Tail(Queued)[i]]
  BY <1>4, <1>9 DEF Queued
<1>11. Tail(Queued) = [i \in 1 .. n - 1 |-> Tail(Queued)[i]]
  BY <1>8, LenProperties
<1> QED BY <1>7, <1>10, <1>11

LEMMA RefusedWhenFull ==
  ASSUME MelAssumption, RingType, ringBufferIsFull
  PROVE  Len(Queued) = RingSize - 1
<1>1. /\ mRbReadPtr \in 0 .. RingSize - 1 /\ mRbWritePtr \in 0 .. RingSize - 1
      /\ mRbReadPtr = IF mRbWritePtr = RingSize - 1 THEN 0 ELSE mRbWritePtr + 1
      /\ RingSize \in Nat \ {0}
  BY AfterIs DEF RingType, ringBufferIsFull, MelAssumption
<1>2. Used = RingSize - 1
  BY <1>1, Occupied
<1> QED BY <1>2, QueuedType

\* The steps of ReportQueue, in these words.
LEMMA AbstractSteps ==
  /\ (Offered = NoReport /\ Queued' = Queued) => Queue!Next
  /\ (Offered # NoReport /\ Queued' = Append(Queued, Offered)) => Queue!Next
  /\ (Offered # NoReport /\ Len(Queued) = RingSize - 1 /\ Queued' = Queued) => Queue!Next
  /\ (Queued # <<>> /\ Queued' = Tail(Queued) /\ Offered' = Offered) => Queue!Next
BY DEF Queue!Next, Queue!Offer, Queue!Accept, Queue!Refuse, Queue!Report, Offered, Queued, SlotOf

LEMMA QueueStep ==
  ASSUME MelAssumption, RingInv, RingInv', [MelNext]_melVars
  PROVE  [Queue!Next]_<<Offered, Queued>>
<1>1. RingType /\ RingType'
  BY DEF RingInv
<1>2. todo # <<>> => Offered = Head(todo) /\ Offered # NoReport
  <2>1. todo # <<>> => Head(todo) \in Report
    BY HeadTailProperties DEF RingInv, RingType
  <2>2. NoReport \notin Report
    <3>1. \A report \in Report : report = [mel |-> report.mel, mels |-> report.mels]
      BY DEF Report
    <3> QED BY <3>1 DEF MelAssumption
  <2> QED BY <2>1, <2>2 DEF Offered
<1>3. CASE \E mel \in Levels : AddMelValue(mel)
  <2>1. producer = "idle" /\ UNCHANGED <<ring, mRbReadPtr, mRbWritePtr>>
    BY <1>3 DEF AddMelValue, buffer
  <2>2. Offered = NoReport
    BY <2>1 DEF RingInv, RingType, Offered
  <2>3. Queued' = Queued
    BY <1>1, <2>1, QueueKept
  <2> QED BY <2>2, <2>3, AbstractSteps
<1>4. CASE TestFull
  <2>1. producer = "test" /\ UNCHANGED <<ring, mRbReadPtr, mRbWritePtr>>
    BY <1>4 DEF TestFull, buffer
  <2>2. Queued' = Queued
    BY <1>1, <2>1, QueueKept
  <2>3. CASE ringBufferIsFull
    <3>1. Offered # NoReport
      BY <1>2, <2>1 DEF RingInv, RingType
    <3>2. Len(Queued) = RingSize - 1
      BY <1>1, <2>3, RefusedWhenFull
    <3> QED BY <2>2, <3>1, <3>2, AbstractSteps
  <2>4. CASE ~ ringBufferIsFull
    <3>1. Offered' = Offered
      BY <1>4, <2>4 DEF TestFull, Offered
    <3> QED BY <2>2, <3>1
  <2> QED BY <2>3, <2>4
<1>5. CASE FillSlot
  <2>1. /\ ring' = [ring EXCEPT ![mRbWritePtr] = Filled(ring[mRbWritePtr], Head(todo))]
        /\ UNCHANGED <<todo, mRbReadPtr, mRbWritePtr>>
    BY <1>5 DEF FillSlot
  <2>2. \A i \in 0 .. RingSize - 1 : i # mRbWritePtr => ring'[i] = ring[i]
    BY <1>1, <2>1 DEF RingType
  <2>3. Queued' = Queued /\ Offered' = Offered
    BY <1>1, <2>1, <2>2, QueueKept DEF Offered
  <2> QED BY <2>3
<1>6. CASE Publish
  <2>1. Queued' = Append(Queued, Head(todo))
    BY <1>1, <1>6, PublishAppends
  <2>2. todo # <<>>
    BY <1>6 DEF Publish, RingInv, RingType
  <2> QED BY <1>2, <2>1, <2>2, AbstractSteps
<1>7. CASE MelWorkerReturn
  <2>1. Queued # <<>> /\ Queued' = Tail(Queued)
    BY <1>1, <1>7, ReturnDrops
  <2>2. Offered' = Offered
    BY <1>7 DEF MelWorkerReturn, Offered
  <2> QED BY <2>1, <2>2, AbstractSteps
<1>8. CASE Notify \/ Elsewhere
  <2>1. UNCHANGED <<todo, ring, mRbReadPtr, mRbWritePtr>>
    BY <1>8 DEF Notify, Elsewhere, buffer
  <2>2. Queued' = Queued /\ Offered' = Offered
    BY <1>1, <2>1, QueueKept DEF Offered
  <2> QED BY <2>2
<1> QED BY <1>3, <1>4, <1>5, <1>6, <1>7, <1>8, NextIs

LEMMA RingInvariant == ASSUME MelAssumption PROVE MelSpec => []RingInv
<1>1. MelInit => RingInv
  BY RingInit
<1>2. RingInv /\ [MelNext]_melVars => RingInv'
  BY RingStep
<1> QED BY <1>1, <1>2, PTL DEF MelSpec

\* The lock-free ring is a bounded queue: no report is lost, changed, overtaken or
\* made twice once it is in, and none is refused while there is room
\* (MelProcessor.cpp:389-431, 447-488).
THEOREM RingIsQueue == ASSUME MelAssumption PROVE MelSpec => MelQueueSpec
<1>1. MelInit => Queue!Init
  <2> SUFFICES ASSUME MelInit PROVE Queue!Init
    OBVIOUS
  <2>1. RingType
    BY RingInit DEF RingInv
  <2>2. Used = 0
    BY <2>1, Occupied DEF MelInit
  <2>3. Queued = <<>>
    BY <2>1, <2>2, QueuedType, EmptySeq
  <2>4. Offered = NoReport
    BY DEF MelInit, Offered
  <2> QED BY <2>3, <2>4 DEF Queue!Init, Queued, Offered, SlotOf
<1>2. RingInv /\ RingInv' /\ [MelNext]_melVars => [Queue!Next]_<<Offered, Queued>>
  BY QueueStep
<1>3. Queue!Spec <=> Queue!Init /\ [][Queue!Next]_<<Offered, Queued>>
  BY DEF Queue!Spec, Queued, Offered, SlotOf
<1> QED BY <1>1, <1>2, <1>3, RingInvariant, PTL DEF MelSpec, MelQueueSpec
=============================================================================
