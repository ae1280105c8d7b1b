--------------------------- MODULE MelProcessor ----------------------------
(* MelProcessor and its MelWorker (audio_utils/MelProcessor.cpp): the thread    *)
(* that computes one exposure level (MEL) after another puts reports into a     *)
(* ring without a lock, and a worker thread calls back.  The one condition      *)
(* variable is waited on without a predicate, and notified without its mutex.   *)
EXTENDS Integers, Sequences, SequencesExt, FiniteSetsExt

CONSTANTS
  RingSize,       \* kRingBufferSize
  MaxMelValues,   \* kMaxMelValues, the size of mMelValues
  Rs1,            \* kRs1OutputdBFS: levels from here on are reported
  Rs2,            \* mRs2UpperBound: levels above it are reported at once
  Levels,         \* what may be computed; bound of the model
  NoReport,
  MaxMels,        \* bound of the model
  MaxPauses       \* bound of the model

VARIABLES
  mMelValues, mCurrentIndex,
  mPaused,
  todo,           \* what addMelValue_l() has still to put into the ring
  producer,       \* where the computing thread is
  ring,           \* mCallbackRingBuffer
  mRbReadPtr, mRbWritePtr,
  melWorker,         \* where the worker thread is
  drainer,        \* a client in drainAndWait()
  stopper,        \* onLastStrongRef()
  mStopRequested,
  mels,           \* all levels computed, in order: for the properties
  breaks          \* how many there were whenever pause() was called: likewise

computing == <<mMelValues, mCurrentIndex, mPaused, mels, breaks>>
buffer    == <<ring, mRbReadPtr, mRbWritePtr>>
clients   == <<drainer, stopper, mStopRequested>>
melVars == <<computing, todo, producer, buffer, melWorker, clients>>

Momentary(mel) == [mel |-> mel, mels |-> <<>>]
Values(run)    == [mel |-> 0, mels |-> run]

\* nextRingBufferIndex()
NextSlot(i) == IF i >= RingSize - 1 THEN 0 ELSE i + 1

MelInit ==
  /\ mMelValues = [i \in 1 .. MaxMelValues |-> 0] /\ mCurrentIndex = 0
  /\ mPaused = FALSE /\ todo = <<>> /\ producer = "idle"
  /\ ring = [i \in 0 .. RingSize - 1 |->
               [mMel |-> 0, mMels |-> [k \in 1 .. MaxMelValues |-> 0], mMelsSize |-> 0]]
  /\ mRbReadPtr = 0 /\ mRbWritePtr = 0
  /\ melWorker = "start" /\ drainer = "idle" /\ stopper = "idle"
  /\ mStopRequested = FALSE /\ mels = <<>> /\ breaks = {}

-----------------------------------------------------------------------------
(* The computing thread.  Only it writes into the ring, under no lock.         *)

\* A client that holds a reference: it has not come to the last one yet.
Referenced == stopper = "idle"

\* Slip: a level below RS1 that ends a run is reported with it.
RunWithItsEnd(mel) ==
  LET stored == [mMelValues EXCEPT ![mCurrentIndex + 1] = mel]
      ends   == mel < Rs1 /\ mCurrentIndex > 0
      size   == IF mel >= Rs1 \/ ends THEN mCurrentIndex + 1 ELSE mCurrentIndex
  IN  IF ends \/ size > MaxMelValues - 1 THEN SubSeq(stored, 1, size) ELSE <<>>

\* The values that addMelValue_l() reports together: a level below RS1 ends
\* a run, and so does the end of mMelValues.
RunToReport(mel) ==
  LET stored == [mMelValues EXCEPT ![mCurrentIndex + 1] = mel]
      ends   == mel < Rs1 /\ mCurrentIndex > 0
      size   == IF mel >= Rs1 THEN mCurrentIndex + 1 ELSE mCurrentIndex
  IN  IF ends \/ size > MaxMelValues - 1 THEN SubSeq(stored, 1, size) ELSE <<>>

\* process() has completed a second of audio: addMelValue_l() up to the ring.
AddMelValue(mel) ==
  LET run == RunToReport(mel)
  IN  /\ producer = "idle" /\ Referenced /\ ~ mPaused /\ Len(mels) < MaxMels
      /\ mMelValues' = [mMelValues EXCEPT ![mCurrentIndex + 1] = mel]
      /\ mCurrentIndex' = IF run # <<>> THEN 0
                          ELSE IF mel >= Rs1 THEN mCurrentIndex + 1 ELSE mCurrentIndex
      /\ todo' = (IF mel > Rs2 THEN <<Momentary(mel)>> ELSE <<>>)
                 \o (IF run # <<>> THEN <<Values(run)>> ELSE <<>>)
      /\ producer' = IF todo' # <<>> THEN "test" ELSE "idle"
      /\ mels' = Append(mels, mel)
      /\ UNCHANGED <<mPaused, breaks, buffer, melWorker, clients>>

NextReport ==
  /\ todo' = Tail(todo)
  /\ producer' = IF Len(todo) > 1 THEN "test" ELSE "notify"

\* Slip: full is not seen where the indices wrap.
FullWithoutWrap == mRbWritePtr + 1 = mRbReadPtr

ringBufferIsFull == NextSlot(mRbWritePtr) = mRbReadPtr

\* A full ring drops the report.
TestFull ==
  /\ producer = "test"
  /\ IF ringBufferIsFull THEN NextReport ELSE producer' = "fill" /\ UNCHANGED todo
  /\ UNCHANGED <<computing, buffer, melWorker, clients>>

\* momentaryExposure() leaves mMels as it is, newMelValues() what follows the run.
Filled(slot, report) ==
  IF report.mel # 0 THEN [slot EXCEPT !.mMel = report.mel, !.mMelsSize = 0]
  ELSE [mMel      |-> 0,
        mMels     |-> [k \in 1 .. MaxMelValues |->
                         IF k =< Len(report.mels) THEN report.mels[k] ELSE slot.mMels[k]],
        mMelsSize |-> Len(report.mels)]

FillSlot ==
  /\ producer = "fill"
  /\ ring' = [ring EXCEPT ![mRbWritePtr] = Filled(ring[mRbWritePtr], Head(todo))]
  /\ producer' = "publish"
  /\ UNCHANGED <<computing, todo, mRbReadPtr, mRbWritePtr, melWorker, clients>>

Publish ==
  /\ producer = "publish"
  /\ mRbWritePtr' = NextSlot(mRbWritePtr)
  /\ NextReport
  /\ UNCHANGED <<computing, ring, mRbReadPtr, melWorker, clients>>

\* notify_one(): lost unless the worker waits.
Woken == IF melWorker = "waiting" THEN "woken" ELSE melWorker

Notify ==
  /\ producer = "notify"
  /\ melWorker' = Woken
  /\ producer' = "idle"
  /\ UNCHANGED <<computing, todo, buffer, clients>>

\* pause() and resume(): the levels of the time between them are missing.
Pause(paused) ==
  /\ Referenced /\ mPaused = ~ paused /\ (paused => Cardinality(breaks) < MaxPauses)
  /\ mPaused' = paused
  /\ breaks' = IF paused THEN breaks \cup {Len(mels)} ELSE breaks
  /\ UNCHANGED <<mMelValues, mCurrentIndex, mels, todo, producer, buffer, melWorker, clients>>

-----------------------------------------------------------------------------
(* The worker thread.  It holds mCondVarMutex in "sleepy" and "loop".          *)

MutexFree == melWorker \notin {"sleepy", "loop"}
Still     == UNCHANGED <<computing, todo, producer, buffer, clients>>

\* The test of mStopRequested before the wait.
ToWait == IF mStopRequested THEN "ended" ELSE "sleepy"

MelWorkerStart == melWorker = "start"   /\ melWorker' = ToWait    /\ Still
MelWorkerWait  == melWorker = "sleepy"  /\ melWorker' = "waiting" /\ Still
MelWorkerWake  == melWorker = "woken"   /\ melWorker' = "loop"    /\ Still
MelWorkerSpurious == melWorker = "waiting" /\ melWorker' = "woken" /\ Still

\* Slip: a stop request does not end the loop over the ring, nor the thread.
StepIgnoringStop == IF mRbReadPtr # mRbWritePtr THEN "callback" ELSE "sleepy"

LoopStep == IF mRbReadPtr # mRbWritePtr /\ ~ mStopRequested THEN "callback" ELSE ToWait

MelWorkerLoop == melWorker = "loop" /\ melWorker' = LoopStep /\ Still

\* The callback returns, and the slot is given back.
MelWorkerReturn ==
  /\ melWorker = "callback"
  /\ melWorker' = "loop"
  /\ mRbReadPtr' = NextSlot(mRbReadPtr)
  /\ UNCHANGED <<computing, todo, producer, ring, mRbWritePtr, clients>>

-----------------------------------------------------------------------------
(* Clients *)

ringBufferIsEmpty == mRbReadPtr = mRbWritePtr

\* drain() takes the mutex for its notification.
Drain ==
  /\ Referenced /\ MutexFree
  /\ melWorker' = Woken
  /\ UNCHANGED <<computing, todo, producer, buffer, clients>>

DrainAndWait ==
  /\ Referenced /\ drainer = "idle"
  /\ drainer' = "poll"
  /\ UNCHANGED <<computing, todo, producer, buffer, melWorker, stopper, mStopRequested>>

\* Slip: it only waits for the ring to get empty.
PollWithoutDrain ==
  IF ringBufferIsEmpty THEN drainer' = "idle" /\ UNCHANGED melWorker
  ELSE UNCHANGED <<drainer, melWorker>>

\* One turn of the loop: sleep_for() is the time until the next one.
Poll ==
  IF ringBufferIsEmpty THEN drainer' = "idle" /\ UNCHANGED melWorker
  ELSE MutexFree /\ melWorker' = Woken /\ UNCHANGED drainer

DrainPoll ==
  /\ drainer = "poll" /\ Poll
  /\ UNCHANGED <<computing, todo, producer, buffer, stopper, mStopRequested>>

\* onLastStrongRef(): no other call is under way.  stop() sets the flag under the
\* mutex, then notifies, then joins.
StopRequest ==
  /\ Referenced /\ producer = "idle" /\ drainer = "idle" /\ MutexFree
  /\ stopper' = "notify" /\ mStopRequested' = TRUE
  /\ UNCHANGED <<computing, todo, producer, buffer, melWorker, drainer>>

StopNotify ==
  /\ stopper = "notify"
  /\ melWorker' = Woken /\ stopper' = "join"
  /\ UNCHANGED <<computing, todo, producer, buffer, drainer, mStopRequested>>

StopJoin ==
  /\ stopper = "join" /\ melWorker = "ended"
  /\ stopper' = "done"
  /\ UNCHANGED <<computing, todo, producer, buffer, melWorker, drainer, mStopRequested>>

Producer == (\E mel \in Levels : AddMelValue(mel)) \/ TestFull \/ FillSlot \/ Publish \/ Notify
MelWorker   == MelWorkerStart \/ MelWorkerWait \/ MelWorkerWake \/ MelWorkerLoop \/ MelWorkerReturn
Client   == Drain \/ DrainAndWait \/ DrainPoll \/ StopRequest \/ StopNotify \/ StopJoin

MelNext == Producer \/ (\E paused \in BOOLEAN : Pause(paused)) \/ MelWorker \/ MelWorkerSpurious \/ Client

MelSpec == MelInit /\ [][MelNext]_melVars

\* The worker is scheduled and its callbacks return; drainAndWait() goes on
\* polling, stop() goes on.  Nothing is assumed of spurious wakeups, or of
\* the clients' calls.
FairMelSpec == MelSpec /\ WF_melVars(MelWorker) /\ WF_melVars(DrainPoll) /\ WF_melVars(StopNotify) /\ WF_melVars(StopJoin)

-----------------------------------------------------------------------------
(* Properties *)

\* The report in a slot, as run() reads it.
ReportIn(slot) ==
  IF slot.mMel # 0 THEN Momentary(slot.mMel) ELSE Values(SubSeq(slot.mMels, 1, slot.mMelsSize))

Used == (mRbWritePtr - mRbReadPtr) % RingSize

\* The lock-free ring is a bounded queue: no report is lost, changed or made twice
\* once it is in, and none is refused while there is room.
Queue == INSTANCE ReportQueue WITH
           Capacity <- RingSize - 1,
           offer <- IF todo = <<>> THEN NoReport ELSE Head(todo),
           queue <- [i \in 1 .. Used |-> ReportIn(ring[(mRbReadPtr + i - 1) % RingSize])]
MelQueueSpec == Queue!Spec

\* How many levels up to the k-th one are from RS1 on, with none below it between.
Loud(m, k) == Max({n \in 0 .. k : \A i \in k - n + 1 .. k : m[i] >= Rs1})

\* The last level that may be in a run to be reported with the latest level.
LastOfRun(m) == IF Last(m) < Rs1 THEN Len(m) - 1 ELSE Len(m)

\* Processing was paused between two of the last n levels up to the k-th one.
Broken(n, k) == breaks \cap k - n + 1 .. k - 1 # {}

\* The run of levels that should be reported once the last one is known.
RunEnding(m) ==
  LET k == Len(m)
      n == Loud(m, k - 1) % MaxMelValues
  IN  IF m[k] < Rs1 THEN SubSeq(m, k - n, k - 1)
      ELSE IF Loud(m, k) % MaxMelValues = 0 THEN SubSeq(m, k - MaxMelValues + 1, k) ELSE <<>>

\* addMelValue_l() reports what is due with the latest level: momentary exposure
\* first, then the run that it ends.  So each level from RS1 on is in one run, in
\* order, with none below RS1 in it.  Of a stretch of such levels in which processing was
\* paused it is not said how it is cut: see RunsAreContinuous.
ReportsWhatIsDue ==
  [][mels' # mels =>
       LET momentary == IF Last(mels') > Rs2 THEN <<Momentary(Last(mels'))>> ELSE <<>>
           run       == IF RunEnding(mels') # <<>> THEN <<Values(RunEnding(mels'))>> ELSE <<>>
           k         == LastOfRun(mels')
       IN  IF Broken(Loud(mels', k), k) THEN IsPrefix(momentary, todo')
           ELSE todo' = momentary \o run]_melVars

\* The callback is "called with a time-continuous vector of computed MEL values"
\* (MelProcessor.h:51, 121): processing was not paused between two levels of a run.
RunsAreContinuous ==
  [][mels' # mels =>
       \A i \in DOMAIN todo' : ~ Broken(Len(todo'[i].mels), LastOfRun(mels'))]_melVars

\* drainAndWait() and the end of the processor do not hang, although a
\* notification may be lost between the worker's look at the ring and its wait.
CallersReturn ==
  /\ (drainer = "poll") ~> (drainer = "idle")
  /\ (stopper = "notify") ~> (stopper = "done")
=============================================================================
