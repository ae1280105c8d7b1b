------------------------------- MODULE Fifo -------------------------------
(* The blocking FIFO of src/audio_utils/fifo.cpp: one writer, any number of *)
(* readers, at most one of which (the throttling reader) holds the writer   *)
(* back.  They share two futex words, the writer's rear and the throttling  *)
(* reader's front; everything else is local to one side.  One action is the *)
(* code between two accesses to shared memory or two system calls.          *)
(* Definitions introduced by "Slip" are wrong on purpose, as in FifoIndex.   *)
EXTENDS FifoIndex, Sequences

CONSTANTS
  Readers,          \* the reader objects that may be constructed
  Throttler,        \* the throttling one, or NoReader
  NoReader,
  Writer,           \* the writer's name as a process
  FlushReaders,     \* readers constructed with flush == true
  SingleProcess,    \* one FIFO object for all, or one in each process
  WriterCalls,      \* <<operation, count, timeout>> the writer's client may use
  ReaderCalls,      \* the same for the readers' clients
  Sizes,            \* arguments of resize()
  WriterLevels,     \* <<armLevel, triggerLevel>> of the writer's setHysteresis()
  ReaderLevels,     \* the same for the throttling reader
  Misuse,           \* whether clients may release more than they obtained
  Signals,          \* whether a signal may interrupt a futex wait
  MaxFrames         \* bound of the model: frames written in one behaviour

ASSUME FifoAssumption ==
  /\ Throttler \in Readers \cup {NoReader}
  /\ NoReader \notin Readers /\ Writer \notin Readers
  /\ FlushReaders \subseteq Readers
  /\ SingleProcess \in BOOLEAN /\ Misuse \in BOOLEAN /\ Signals \in BOOLEAN
  /\ MaxFrames \in Nat
  /\ WriterCalls \subseteq {"obtain", "write"} \X Nat \X {"none", "finite", "forever"}
  /\ ReaderCalls \subseteq
       {"obtain", "read", "available", "flush"} \X Nat \X {"none", "finite", "forever"}
  /\ Sizes \subseteq Nat
  /\ WriterLevels \subseteq Nat \X Nat
  /\ ReaderLevels \subseteq Int \X Nat

VARIABLES
  rear,      \* mWriterRear, a futex word
  front,     \* the throttling reader's front, a futex word
  buf,       \* mBuffer: the number of the frame last stored in each slot
  shut,      \* the processes whose view of mIsShutdown is true
  wr,        \* the writer
  rd         \* the readers

fifoVars == <<rear, front, buf, shut, wr, rd>>

kRetries == 2
Throttled == Throttler # NoReader
Processes == Readers \cup {Writer}

\* The local variables of obtain(), of the wait loop and of release().
\* "seen" is the index that was loaded, "filled" what release() computed.
Call == [op |-> "none", count |-> 0, timeout |-> "none", retries |-> 0,
         err |-> 0, seen |-> 0, filled |-> 0]

MinOf(a, b) == IF a < b THEN a ELSE b

\* diff() as process p runs it, and what it does to mIsShutdown.
DiffBy(p, r, f)    == IF p \in shut THEN EIO ELSE Diff(r, f)
LostBy(p, r, f)    == IF p \in shut THEN 0 ELSE Lost(r, f, p \in FlushReaders)
ShutByDiff(p, r, f) == IF Corrupt(r, f) THEN shut \cup {p} ELSE shut

-----------------------------------------------------------------------------
FifoInit ==
  /\ rear = 0 /\ front = 0
  /\ buf = [s \in 0 .. FrameCount - 1 |-> -1]
  /\ shut = {}
  /\ wr = [pc |-> "idle", localRear |-> 0, armLevel |-> FrameCount,
           triggerLevel |-> 0, isArmed |-> TRUE, effective |-> FrameCount,
           obtained |-> 0, totalReleased |-> 0, ret |-> 0, call |-> Call]
  /\ rd = [r \in Readers |->
            [pc |-> "absent", localFront |-> 0, armLevel |-> -1,
             triggerLevel |-> FrameCount, isArmed |-> TRUE,
             obtained |-> 0, totalReleased |-> 0, totalLost |-> 0,
             totalFlushed |-> 0, start |-> 0, ret |-> 0, call |-> Call]]

\* The number of the next frame to be written, and to be read by r.
Written    == wr.totalReleased
Position(r) == rd[r].start + rd[r].totalReleased

-----------------------------------------------------------------------------
(* The writer *)

\* Entry of obtain() and write().
WObtain ==
  /\ wr.pc = "idle"
  /\ \E c \in WriterCalls :
       /\ Written + c[2] =< MaxFrames
       /\ wr' = [wr EXCEPT !.pc = "load",
                           !.call = [Call EXCEPT !.op = c[1], !.count = c[2],
                                                 !.timeout = c[3], !.retries = kRetries]]
  /\ UNCHANGED <<rear, front, buf, shut, rd>>

\* Slip: the clamp to what is available is forgotten.
WFinishUnclamped(avail, err) ==
  LET n == wr.call.count
  IN  wr' = [wr EXCEPT !.pc = IF wr.call.op = "write" /\ n > 0 THEN "release" ELSE "idle",
                       !.obtained = n, !.ret = n, !.call = Call]

\* The end of obtain(): avail frames are handed out; write() goes on to fill
\* and release all of them.
WFinish(avail, err) ==
  LET n == MinOf(avail, wr.call.count)
  IN  wr' = [wr EXCEPT !.pc = IF wr.call.op = "write" /\ n > 0 THEN "release" ELSE "idle",
                       !.obtained = n,
                       !.ret = IF n > 0 THEN n ELSE err,
                       !.call = Call]

\* Slip: the capacity instead of the effective size.
WLoadFullSize ==
  /\ wr.pc = "load" /\ Throttled
  /\ LET filled == DiffBy(Writer, wr.localRear, front)
     IN  filled >= 0 /\ WFinish(FrameCount - filled, wr.call.err)
  /\ UNCHANGED <<rear, front, buf, shut, rd>>

\* One turn of the loop up to the futex call: load front, compute what is free.
WLoadThrottled ==
  /\ wr.pc = "load" /\ Throttled
  /\ LET filled == DiffBy(Writer, wr.localRear, front)
         avail  == IF wr.effective > filled THEN wr.effective - filled ELSE 0
     IN  \/ /\ filled < 0
            /\ WFinish(0, filled)
         \/ /\ filled >= 0
            /\ wr.call.count = 0 \/ avail > 0 \/ wr.call.timeout = "none"
            /\ WFinish(avail, wr.call.err)
         \/ /\ filled >= 0 /\ avail = 0
            /\ wr.call.count > 0 /\ wr.call.timeout # "none"
            /\ wr' = [wr EXCEPT !.pc = "wait", !.call.seen = front]
  /\ shut' = ShutByDiff(Writer, wr.localRear, front)
  /\ UNCHANGED <<rear, front, buf, rd>>

\* Without a throttling reader the whole effective buffer is always free.
WLoadUnthrottled ==
  /\ wr.pc = "load" /\ ~ Throttled
  /\ IF Writer \in shut THEN WFinish(0, EIO) ELSE WFinish(wr.effective, 0)
  /\ UNCHANGED <<rear, front, buf, shut, rd>>

\* The loop after a wait that did not block: the futex word has changed.  The
\* retries keep the timeout, but an infinite one was replaced by NULL before.
AfterWouldBlock(call) ==
  IF call.retries > 0
  THEN [call EXCEPT !.retries = @ - 1, !.err = SyscallFailed,
                    !.timeout = IF @ = "forever" THEN "none" ELSE @]
  ELSE [call EXCEPT !.err = EWOULDBLOCK, !.timeout = "none"]

\* Slip: err is left as the system call returned it.
AfterWaitRaw(call, err) ==
  [call EXCEPT !.err = IF err < 0 THEN SyscallFailed ELSE 0, !.timeout = "none"]

\* The loop after any other wait: only one more look at the index.
AfterWait(call, err) == [call EXCEPT !.err = err, !.timeout = "none"]

\* FUTEX_WAIT compares the word and sleeps in one step.
WWait ==
  /\ wr.pc = "wait"
  /\ wr' = IF front = wr.call.seen
           THEN [wr EXCEPT !.pc = "sleep"]
           ELSE [wr EXCEPT !.pc = "load", !.call = AfterWouldBlock(@)]
  /\ UNCHANGED <<rear, front, buf, shut, rd>>

WTimeout ==
  /\ wr.pc = "sleep" /\ wr.call.timeout = "finite"
  /\ wr' = [wr EXCEPT !.pc = "load", !.call = AfterWait(@, ETIMEDOUT)]
  /\ UNCHANGED <<rear, front, buf, shut, rd>>

WSignal ==
  /\ wr.pc = "sleep" /\ Signals
  /\ wr' = [wr EXCEPT !.pc = "load", !.call = AfterWait(@, EINTR)]
  /\ UNCHANGED <<rear, front, buf, shut, rd>>

\* Slip: the second fragment is copied from the start of the source again.
FillSlotsFromStart(n) ==
  [s \in DOMAIN buf |->
     IF \E i \in 0 .. n - 1 : Slice(wr.localRear, i) = s
     THEN Written + (IF s < Offset(wr.localRear) THEN s ELSE s - Offset(wr.localRear))
     ELSE buf[s]]

\* The client has filled n slots of the slice, then calls release(n): front is
\* loaded before the local rear moves.
FillSlots(n) ==
  [s \in DOMAIN buf |->
     IF \E i \in 0 .. n - 1 : Slice(wr.localRear, i) = s
     THEN Written + (CHOOSE i \in 0 .. n - 1 : Slice(wr.localRear, i) = s)
     ELSE buf[s]]

WReleaseOf(n) ==
  /\ buf' = FillSlots(n)
  /\ shut' = IF Throttled THEN ShutByDiff(Writer, wr.localRear, front) ELSE shut
  /\ wr' = [wr EXCEPT !.pc = "store", !.call.count = n,
                      !.call.filled = IF Throttled THEN DiffBy(Writer, wr.localRear, front)
                                                   ELSE EIO]
  /\ UNCHANGED <<rear, front, rd>>

WRelease ==
  \/ wr.pc = "idle" /\ \E n \in 1 .. wr.obtained : WReleaseOf(n)
  \/ wr.pc = "release" /\ WReleaseOf(wr.obtained)

WReleaseTooMany ==
  /\ wr.pc = "idle" /\ Misuse
  /\ shut' = shut \cup {Writer}
  /\ UNCHANGED <<rear, front, buf, wr, rd>>

\* Slip: the trigger is compared with the level before the release.
WStoreOldLevel ==
  LET n      == wr.call.count
      filled == wr.call.filled
      armed  == wr.isArmed \/ (filled >= 0 /\ filled < wr.armLevel)
      wake   == armed /\ filled > wr.triggerLevel
  IN  /\ wr.pc = "store"
      /\ rear' = Sum(wr.localRear, n)
      /\ wr' = [wr EXCEPT !.pc = IF wake THEN "wake" ELSE "idle",
                          !.localRear = Sum(@, n),
                          !.isArmed = armed /\ ~ wake,
                          !.obtained = @ - n,
                          !.totalReleased = @ + n,
                          !.call = Call]
      /\ UNCHANGED <<front, buf, shut, rd>>

\* The second half of release(): publish the rear, then decide about waking.
\* Without throttling there is nothing after the store.
WStore ==
  LET n      == wr.call.count
      filled == wr.call.filled
      armed  == wr.isArmed \/ (filled >= 0 /\ filled < wr.armLevel)
      wake   == filled >= 0 /\ armed /\ filled + n > wr.triggerLevel
  IN  /\ wr.pc = "store"
      /\ rear' = Sum(wr.localRear, n)
      /\ wr' = [wr EXCEPT !.pc = IF wake THEN "wake" ELSE "idle",
                          !.localRear = Sum(@, n),
                          !.isArmed = armed /\ ~ wake,
                          !.obtained = @ - n,
                          !.totalReleased = @ + n,
                          !.call = Call]
      /\ UNCHANGED <<front, buf, shut, rd>>

\* FUTEX_WAKE of every reader asleep on the rear.
WWake ==
  /\ wr.pc = "wake"
  /\ wr' = [wr EXCEPT !.pc = "idle"]
  /\ rd' = [r \in Readers |->
             IF rd[r].pc = "sleep"
             THEN [rd[r] EXCEPT !.pc = "load", !.call = AfterWait(@, 0)]
             ELSE rd[r]]
  /\ UNCHANGED <<rear, front, buf, shut>>

WResize ==
  /\ wr.pc = "idle"
  /\ \E s \in Sizes :
       LET size == MinOf(s, FrameCount)
       IN  wr' = [wr EXCEPT !.effective = size,
                            !.armLevel = IF size < wr.effective THEN MinOf(@, size) ELSE @,
                            !.triggerLevel = IF size < wr.effective THEN MinOf(@, size) ELSE @]
  /\ UNCHANGED <<rear, front, buf, shut, rd>>

WSetHysteresis ==
  /\ wr.pc = "idle"
  /\ \E l \in WriterLevels :
       LET arm == MinOf(l[1], wr.effective)
       IN  wr' = [wr EXCEPT !.isArmed = @ \/ arm > wr.armLevel,
                            !.armLevel = arm,
                            !.triggerLevel = MinOf(l[2], wr.effective)]
  /\ UNCHANGED <<rear, front, buf, shut, rd>>

WriterStep ==
  \/ WLoadThrottled \/ WLoadUnthrottled \/ WWait \/ WTimeout \/ WStore \/ WWake
  \/ wr.pc = "release" /\ WRelease

WriterNext ==
  \/ WObtain \/ WLoadThrottled \/ WLoadUnthrottled \/ WWait \/ WTimeout \/ WSignal
  \/ WRelease \/ WReleaseTooMany \/ WStore \/ WWake \/ WResize \/ WSetHysteresis

-----------------------------------------------------------------------------
(* The readers *)

\* Construction: the throttling reader sees all that was ever written, another
\* one only what is written from now on.
RJoin(r) ==
  /\ rd[r].pc = "absent"
  /\ rd' = [rd EXCEPT ![r] =
              [rd[r] EXCEPT !.pc = "idle",
                        !.localFront = IF r = Throttler THEN 0 ELSE rear,
                        !.start = IF r = Throttler THEN 0 ELSE Written]]
  /\ UNCHANGED <<rear, front, buf, shut, wr>>

\* Entry of obtain(), read(), available() and flush().
RObtain(r) ==
  /\ rd[r].pc = "idle"
  /\ \E c \in ReaderCalls :
       rd' = [rd EXCEPT ![r] =
               [rd[r] EXCEPT !.pc = "load",
                         !.call = [Call EXCEPT !.op = c[1], !.count = c[2],
                                               !.timeout = c[3], !.retries = kRetries]]]
  /\ UNCHANGED <<rear, front, buf, shut, wr>>

\* The end of obtain() with the rear that was loaded.  On overflow the reader
\* jumps to the oldest frame that is still there, or over all of them.
RFinish(r) ==
  LET me     == rd[r]
      filled == DiffBy(r, rear, me.localFront)
      lost   == LostBy(r, rear, me.localFront)
      n      == IF filled < 0 THEN 0 ELSE MinOf(filled, me.call.count)
      caught == (rear - (IF r \in FlushReaders THEN 0 ELSE FrameCountP2)) % IndexMod
      again  == me.call.op \in {"read", "flush"} /\ n > 0
  IN  rd' = [rd EXCEPT ![r] =
              [rd[r] EXCEPT !.pc = IF again THEN "release" ELSE "idle",
                        !.localFront = IF filled = EOVERFLOW THEN caught ELSE @,
                        !.obtained = IF me.call.op = "available" THEN @ ELSE n,
                        !.totalLost = @ + lost,
                        !.totalReleased = @ + lost,
                        !.ret = IF n > 0 THEN n
                                ELSE IF filled < 0 THEN filled ELSE me.call.err,
                        !.call = [Call EXCEPT !.op = IF again THEN me.call.op ELSE "none"]]]

RLoad(r) ==
  /\ rd[r].pc = "load"
  /\ \/ /\ rd[r].call.count = 0 \/ rear # rd[r].localFront \/ rd[r].call.timeout = "none"
        /\ RFinish(r)
        /\ shut' = ShutByDiff(r, rear, rd[r].localFront)
     \/ /\ rd[r].call.count > 0 /\ rear = rd[r].localFront /\ rd[r].call.timeout # "none"
        /\ rd' = [rd EXCEPT ![r] = [rd[r] EXCEPT !.pc = "wait", !.call.seen = rear]]
        /\ UNCHANGED shut
  /\ UNCHANGED <<rear, front, buf, wr>>

\* Slip: sleeping without comparing.
RWaitUnchecked(r) ==
  /\ rd[r].pc = "wait"
  /\ rd' = [rd EXCEPT ![r].pc = "sleep"]
  /\ UNCHANGED <<rear, front, buf, shut, wr>>

RWait(r) ==
  /\ rd[r].pc = "wait"
  /\ rd' = IF rear = rd[r].call.seen
           THEN [rd EXCEPT ![r] = [rd[r] EXCEPT !.pc = "sleep"]]
           ELSE [rd EXCEPT ![r] = [rd[r] EXCEPT !.pc = "load", !.call = AfterWouldBlock(@)]]
  /\ UNCHANGED <<rear, front, buf, shut, wr>>

RTimeout(r) ==
  /\ rd[r].pc = "sleep" /\ rd[r].call.timeout = "finite"
  /\ rd' = [rd EXCEPT ![r] = [rd[r] EXCEPT !.pc = "load", !.call = AfterWait(@, ETIMEDOUT)]]
  /\ UNCHANGED <<rear, front, buf, shut, wr>>

RSignal(r) ==
  /\ rd[r].pc = "sleep" /\ Signals
  /\ rd' = [rd EXCEPT ![r] = [rd[r] EXCEPT !.pc = "load", !.call = AfterWait(@, EINTR)]]
  /\ UNCHANGED <<rear, front, buf, shut, wr>>

\* Slip: mObtained is not decreased.
RReleaseAgain(r, n) ==
  /\ rd' = [rd EXCEPT ![r].pc = "idle", ![r].localFront = Sum(@, n),
                      ![r].totalReleased = @ + n, ![r].call = Call]
  /\ UNCHANGED <<rear, front, buf, shut, wr>>

\* release(n): the throttling reader first loads the rear, for the hysteresis;
\* another reader only moves its own front.
RReleaseOf(r, n) ==
  LET flushed == IF rd[r].call.op = "flush" THEN n ELSE 0
  IN  /\ IF r = Throttler
         THEN /\ rd' = [rd EXCEPT ![r] =
                         [rd[r] EXCEPT !.pc = "store", !.call.count = n,
                                   !.call.filled = DiffBy(r, rear, rd[r].localFront)]]
              /\ shut' = ShutByDiff(r, rear, rd[r].localFront)
         ELSE /\ rd' = [rd EXCEPT ![r] =
                         [rd[r] EXCEPT !.pc = "idle",
                                   !.localFront = Sum(@, n),
                                   !.obtained = @ - n,
                                   !.totalReleased = @ + n,
                                   !.totalFlushed = @ + flushed,
                                   !.call = Call]]
              /\ UNCHANGED shut
      /\ UNCHANGED <<rear, front, buf, wr>>

RRelease(r) ==
  \/ rd[r].pc = "idle" /\ \E n \in 1 .. rd[r].obtained : RReleaseOf(r, n)
  \/ rd[r].pc = "release" /\ RReleaseOf(r, rd[r].obtained)

RReleaseTooMany(r) ==
  /\ rd[r].pc = "idle" /\ Misuse
  /\ shut' = shut \cup {r}
  /\ UNCHANGED <<rear, front, buf, wr, rd>>

\* Slips: never armed again after the first wake; all that is filled is
\* released instead of what the client asked for.
RStoreArmedOnce(r) ==
  LET n    == rd[r].call.count
      wake == rd[r].isArmed /\ rd[r].call.filled - n < rd[r].triggerLevel
  IN  /\ rd[r].pc = "store"
      /\ front' = Sum(rd[r].localFront, n)
      /\ rd' = [rd EXCEPT ![r] =
                 [rd[r] EXCEPT !.pc = IF wake THEN "wake" ELSE "idle",
                           !.localFront = Sum(@, n), !.isArmed = @ /\ ~ wake,
                           !.obtained = @ - n, !.totalReleased = @ + n, !.call = Call]]
      /\ UNCHANGED <<rear, buf, shut, wr>>

RStoreAll(r) ==
  LET n == rd[r].call.filled
  IN  /\ rd[r].pc = "store"
      /\ front' = Sum(rd[r].localFront, n)
      /\ rd' = [rd EXCEPT ![r] =
                 [rd[r] EXCEPT !.pc = "wake", !.localFront = Sum(@, n), !.obtained = 0,
                           !.totalReleased = @ + rd[r].call.count, !.call = Call]]
      /\ UNCHANGED <<rear, buf, shut, wr>>

\* The throttling reader publishes its front, then decides about waking.
\* filled - count is unsigned, so a negative difference wakes nobody.
RStore(r) ==
  LET n       == rd[r].call.count
      filled  == rd[r].call.filled
      flushed == IF rd[r].call.op = "flush" THEN n ELSE 0
      armed   == rd[r].isArmed \/ (filled >= 0 /\ filled > rd[r].armLevel)
      wake    == filled >= n /\ armed /\ filled - n < rd[r].triggerLevel
  IN  /\ rd[r].pc = "store"
      /\ front' = Sum(rd[r].localFront, n)
      /\ rd' = [rd EXCEPT ![r] =
                 [rd[r] EXCEPT !.pc = IF wake THEN "wake" ELSE "idle",
                           !.localFront = Sum(@, n),
                           !.isArmed = armed /\ ~ wake,
                           !.obtained = @ - n,
                           !.totalReleased = @ + n,
                           !.totalFlushed = @ + flushed,
                           !.call = Call]]
      /\ UNCHANGED <<rear, buf, shut, wr>>

\* FUTEX_WAKE of the writer, the only process that waits on the front.
RWake(r) ==
  /\ rd[r].pc = "wake"
  /\ rd' = [rd EXCEPT ![r] = [rd[r] EXCEPT !.pc = "idle"]]
  /\ wr' = IF wr.pc = "sleep"
           THEN [wr EXCEPT !.pc = "load", !.call = AfterWait(@, 0)]
           ELSE wr
  /\ UNCHANGED <<rear, front, buf, shut>>

RSetHysteresis(r) ==
  /\ rd[r].pc = "idle"
  /\ \E l \in ReaderLevels :
       LET arm == IF l[1] < 0 THEN -1 ELSE MinOf(l[1], FrameCount)
       IN  rd' = [rd EXCEPT ![r] =
                   [rd[r] EXCEPT !.isArmed = @ \/ arm < rd[r].armLevel,
                             !.armLevel = arm,
                             !.triggerLevel = MinOf(l[2], FrameCount)]]
  /\ UNCHANGED <<rear, front, buf, shut, wr>>

ReaderStep(r) ==
  \/ RLoad(r) \/ RWait(r) \/ RTimeout(r) \/ RStore(r) \/ RWake(r)
  \/ rd[r].pc = "release" /\ RRelease(r)

ReaderNext(r) ==
  \/ RJoin(r) \/ RObtain(r) \/ RLoad(r) \/ RWait(r) \/ RTimeout(r) \/ RSignal(r)
  \/ RRelease(r) \/ RReleaseTooMany(r) \/ RStore(r) \/ RWake(r) \/ RSetHysteresis(r)

-----------------------------------------------------------------------------
\* mIsShutdown is a plain bool: within one process the other threads may see
\* the store late.  Other processes have FIFO objects of their own and never do.
ShutdownSeen ==
  /\ SingleProcess /\ shut # {}
  /\ \E p \in Processes \ shut : shut' = shut \cup {p}
  /\ UNCHANGED <<rear, front, buf, wr, rd>>

FifoNext == WriterNext \/ (\E r \in Readers : ReaderNext(r)) \/ ShutdownSeen

FifoSpec == FifoInit /\ [][FifoNext]_fifoVars

\* Both sides keep running: the kernel schedules every thread, and the clients
\* keep calling read() and write() in a loop, as tests/fifo_tests.cpp and
\* tests/fifo_threads.cpp do.
FairFifoSpec ==
  /\ FifoSpec
  /\ WF_fifoVars(WriterStep) /\ WF_fifoVars(WObtain)
  /\ \A r \in Readers : /\ WF_fifoVars(ReaderStep(r)) /\ WF_fifoVars(RJoin(r))
                        /\ WF_fifoVars(RObtain(r))

-----------------------------------------------------------------------------
(* What the FIFO promises *)

CallState ==
  [op : {"none", "obtain", "write", "read", "available", "flush"}, count : Nat,
   timeout : {"none", "finite", "forever"}, retries : 0 .. kRetries, err : Outcomes \cup {0}, seen : Index, filled : Nat \cup Errors]

WriterState ==
  [pc : {"idle", "load", "wait", "sleep", "release", "store", "wake"},
   localRear : Index, armLevel : 0 .. FrameCount, triggerLevel : 0 .. FrameCount,
   isArmed : BOOLEAN, effective : 0 .. FrameCount, obtained : 0 .. FrameCount,
   totalReleased : Nat, ret : Nat \cup Outcomes, call : CallState]

ReaderState ==
  [pc : {"absent", "idle", "load", "wait", "sleep", "release", "store", "wake"},
   localFront : Index, armLevel : -1 .. FrameCount, triggerLevel : 0 .. FrameCount,
   isArmed : BOOLEAN, obtained : 0 .. FrameCount, totalReleased : Nat,
   totalLost : Nat, totalFlushed : Nat, start : Nat, ret : Nat \cup Outcomes, call : CallState]

FifoTypeOK ==
  /\ rear \in Index /\ front \in Index
  /\ buf \in [0 .. FrameCount - 1 -> Nat \cup {-1}]
  /\ shut \subseteq Processes
  /\ wr \in WriterState
  /\ rd \in [Readers -> ReaderState]

\* The fill level: frames the throttling reader has not released yet.
FillLevel == Written - Position(Throttler)

\* The writer's slice never covers a slot whose frame the throttling reader has
\* still to release, nor does the reader's slice reach past what was written:
\* whatever the interleaving of the two obtain()s and release()s, they own
\* disjoint parts of the buffer (fifo.cpp:212-220, 607-623).
SlicesDisjoint ==
  Throttled =>
    /\ Position(Throttler) + rd[Throttler].obtained =< Written
    /\ Written + wr.obtained =< Position(Throttler) + FrameCount

\* Every frame that the throttling reader has still to release is in its slot,
\* intact and in order (the memcpy of write() and read(), fifo.cpp:180-197).
UnreadFramesIntact ==
  Throttled =>
    \A i \in 0 .. FillLevel - 1 :
      buf[Slice(rd[Throttler].localFront, i)] = Position(Throttler) + i

\* What a release() in progress may count on: it gives back part of the slice.
ReleasesWithinSlice ==
  /\ wr.pc = "store" => wr.call.count =< wr.obtained
  /\ \A r \in Readers :
       rd[r].pc = "store" => r = Throttler /\ rd[r].call.count =< rd[r].obtained

\* The two shared words are the indices of the two positions.
ThrottledIndices ==
  Throttled =>
    /\ wr.localRear = IndexOf(Written) /\ rear = wr.localRear
    /\ rd[Throttler].start = 0
    /\ rd[Throttler].localFront = IndexOf(Position(Throttler))
    /\ rd[Throttler].pc = "absent" => rd[Throttler].localFront = 0
    /\ front = rd[Throttler].localFront

\* Inductive: what SlicesDisjoint needs to be preserved by every step.
IndInv == FifoTypeOK /\ ReleasesWithinSlice /\ ThrottledIndices /\ SlicesDisjoint

\* The 32-bit indices stay in step with the 64-bit totals across wrap, wasted
\* offsets and overflows: the lost frames that diff() reports are exactly those
\* that obtain() jumped over (fifo.cpp:93-117, 607-615).
IndicesMatchTotals ==
  /\ wr.localRear = IndexOf(Written) /\ rear = wr.localRear
  /\ \A r \in Readers : rd[r].pc # "absent" => rd[r].localFront = IndexOf(Position(r))
  /\ Throttled => front = rd[Throttler].localFront

\* No reader runs ahead of the writer, however often it was lapped
\* (fifo.cpp:607-623).  Needs that a flushing reader does not call available()
\* with frames still to be released: the overflow path would move its front but
\* not the slice.
ReadersBehindWriter ==
  \A r \in Readers : Position(r) =< Written

\* A reader asleep has seen all there is, up to the trigger level, unless the
\* writer is about to wake it: the wake of release() is never lost (fifo.h:437
\* "Trigger wakeup when armed and fill level > this value", fifo.cpp:341-353).
NoLostReaderWakeup ==
  (Throttled /\ rd[Throttler].pc = "sleep" /\ wr.pc # "wake" /\ wr.armLevel > 0)
    => FillLevel =< wr.triggerLevel

\* The mirror image: a writer sleeps only while the buffer is full, unless the
\* throttling reader is about to wake it (fifo.cpp:509-521).
NoLostWriterWakeup ==
  (Throttled /\ wr.pc = "sleep" /\ rd[Throttler].pc # "wake")
    => FillLevel >= wr.effective

\* No wake is lost in either direction.
NoLostWakeup == NoLostReaderWakeup /\ NoLostWriterWakeup

\* resize(): a later obtain() is limited so that the fill level stays within
\* the effective size (fifo.h:407, fifo.cpp:220).
ObtainRespectsEffectiveSize ==
  [][wr.pc = "load" /\ wr'.pc \in {"idle", "release"} /\ wr'.obtained > 0 /\ Throttled
       => FillLevel + wr'.obtained =< wr.effective]_fifoVars

\* obtain() tells a failure by an error that its comment lists (fifo.h:271-280), and
\* by one that fits: EOVERFLOW is for readers that do not throttle the writer, EIO for
\* a FIFO that was shut down, through all retries and late answers of the futex call.
\* Only a writer that had lowered its size below what is filled may be told the raw
\* result of a futex call that it has tried again (fifo.cpp:260): such a size may
\* leave it no room after a reader has moved on.
ErrorsAreListed ==
  [][LET Listed(p, ret) ==
           /\ ret \in Errors
           /\ ret = EOVERFLOW => p \notin {Writer, Throttler}
           /\ ret = EIO => shut # {}
         LeftNoRoom == wr.effective < FrameCount /\ FillLevel >= wr.effective
     IN  /\ (wr'.ret # wr.ret /\ wr'.ret < 0) =>
              Listed(Writer, wr'.ret) \/ (wr'.ret = SyscallFailed /\ Throttled /\ LeftNoRoom)
         /\ \A r \in Readers :
              (rd'[r].ret # rd[r].ret /\ rd'[r].ret < 0) => Listed(r, rd'[r].ret)]_fifoVars

\* What obtain() hands out lies among the newest FrameCount frames: a reader that
\* was lapped first jumps to them (fifo.cpp:608-619).
NothingOverwrittenIsHandedOut ==
  [][\A r \in Readers :
       (rd[r].pc = "load" /\ rd'[r].pc \in {"idle", "release"} /\ rd'[r].ret > 0)
          => \E k \in 0 .. Written : /\ IndexOf(k) = rd'[r].localFront
                                   /\ Written - FrameCount =< k
                                   /\ k + rd'[r].ret =< Written]_fifoVars

\* With a client that reads on and the default levels, every frame released by
\* the writer is released by the throttling reader (fifo.h:431, fifo.h:584).  The
\* writer of the model stops after MaxFrames, so no frame stays behind exactly if
\* the reader catches up again and again.
EveryFrameIsRead == []<>(Position(Throttler) = Written)

-----------------------------------------------------------------------------
(* The frames in flight, read from the buffer between the two shared indices *)
Stream == INSTANCE BoundedStream WITH
  Capacity <- FrameCount,
  queue <- [i \in 1 .. FillLevel |-> buf[Slice(front, i - 1)]],
  next <- Written

StreamSpec == Stream!Spec
=============================================================================
