----------------------------- MODULE TimerQueue -----------------------------
(* The timed execution queue of audio_utils/TimerQueue.cpp: events wait in the *)
(* queue of an alarm clock, one timerfd per clock is armed for its earliest    *)
(* event, and a thread that sleeps in epoll collects the due events under      *)
(* mMutex and runs them outside of it.  Critical sections are atomic; between  *)
(* epoll_wait(), read() and the lock the thread can be overtaken.  "Slip"      *)
(* definitions are wrong on purpose, for mutation runs.                        *)
EXTENDS Integers, Sequences, FiniteSets

CONSTANTS
  Alarm,        \* the argument of the constructor
  Created,      \* the clocks whose timerfd could be created
  Requests,     \* [both, soft, hard, priority]: the calls of add()
  MayRemove,    \* whether clients call remove()
  MaySuspend,   \* whether the system is ever suspended
  MaxEvents,    \* bound of the model: events added in one behaviour
  LastTime       \* bound of the model: the clock stops here

\* mAlarmClocks[0], and mAlarmClocks[1] when the queue may wake the system
BootTime  == 0
AlarmTime == 1
Clocks    == IF Alarm THEN {BootTime, AlarmTime} ELSE {BootTime}

ASSUME TimerQueueAssumption ==
  /\ Alarm \in BOOLEAN /\ MayRemove \in BOOLEAN /\ MaySuspend \in BOOLEAN
  /\ Created \subseteq Clocks
  /\ Requests \subseteq [both : BOOLEAN, soft : Int, hard : Int, priority : Int]
  /\ MaxEvents \in Nat /\ LastTime \in Nat \ {0}

VARIABLES
  boottime,   \* CLOCK_BOOTTIME
  awake,      \* FALSE while the system is suspended
  mRunning,
  lastId,     \* the events 1 .. lastId were added: the id is mNextEventId
  request,    \* what was asked for
  events,     \* mEvents of each clock: [id, time]
  index,      \* mTimeIndex of each clock, in the order of the multimap
  timer,      \* the time each timerfd is armed for, 0 when it is not
  thread,     \* where the thread is
  fd,         \* the clock whose timer epoll_wait() returned
  seen,       \* the time the thread read
  batch,      \* the events it has collected and not yet run
  ran,        \* the events run, in order
  asked,      \* those remove() was called for before they ran
  removed     \* those it returned true for

timerVars == <<boottime, awake, mRunning, lastId, request, events, index, timer, thread, fd,
               seen, batch, ran, asked, removed>>

Event == 1 .. MaxEvents
RangeOf(s) == {s[i] : i \in DOMAIN s}
kMagicUnblockTime == 1

TimerInit ==
  /\ boottime = kMagicUnblockTime /\ awake = TRUE /\ mRunning = TRUE
  /\ lastId = 0
  /\ request = [e \in Event |-> [both |-> FALSE, soft |-> 0, hard |-> 0, priority |-> 0]]
  /\ events = [c \in Clocks |-> {}] /\ index = [c \in Clocks |-> <<>>]
  /\ timer = [c \in Clocks |-> 0]
  /\ thread = "wait" /\ fd = BootTime /\ seen = 0 /\ batch = <<>>
  /\ ran = <<>> /\ asked = {} /\ removed = {}

-----------------------------------------------------------------------------
(* AlarmClock and LinuxClock::setTimer *)

\* What armTimerForNextEvent() asks for, given the index and mRunning; a time
\* that is not positive disarms the timer.
NextTime(idx, run) ==
  IF ~ run THEN kMagicUnblockTime
  ELSE IF idx # <<>> /\ Head(idx).time > 0 THEN Head(idx).time ELSE 0

Armed(c, idx, run) == IF c \in Created THEN NextTime(idx, run) ELSE 0

\* The timerfd is readable.
Expired(c) == timer[c] > 0 /\ timer[c] =< boottime

\* Slip: appended instead of inserted.
InsertLast(idx, e) == Append(idx, e)

\* Of a multimap: the entries whose time is not later.
UpperBoundIn(idx, time) ==
  CHOOSE n \in 0 .. Len(idx) : /\ \A i \in 1 .. n : idx[i].time =< time
                              /\ \A i \in n + 1 .. Len(idx) : idx[i].time > time

Insert(idx, e) ==
  LET n == UpperBoundIn(idx, e.time)
  IN  SubSeq(idx, 1, n) \o <<e>> \o SubSeq(idx, n + 1, Len(idx))

\* What erase() leaves of the index.
Without(idx, gone) ==
  LET rest[n \in 0 .. Len(idx)] ==
        IF n = 0 THEN <<>>
        ELSE IF idx[n] \in gone THEN rest[n - 1] ELSE Append(rest[n - 1], idx[n])
  IN  rest[Len(idx)]

\* Slip: the test of the empty index is forgotten.
IsNextOfSome(idx, time) == idx # <<>> /\ time < Head(idx).time

\* needsReschedule
IsNext(idx, time) == idx = <<>> \/ time < Head(idx).time

\* The clocks that add() puts an event on, with its time on each.
Entries(r) ==
  IF r.both
  THEN {<<BootTime, r.soft>>} \cup (IF Alarm THEN {<<AlarmTime, r.hard>>} ELSE {})
  ELSE {<<IF Alarm THEN AlarmTime ELSE BootTime, r.hard>>}

\* A client, or a function that is being run on the thread.
SomeoneCalls == awake /\ (mRunning \/ thread = "run")

AddEvent ==
  /\ SomeoneCalls /\ lastId < MaxEvents
  /\ \E r \in Requests :
       LET id == lastId + 1
           time(c) == CHOOSE t \in {r.soft, r.hard} : <<c, t>> \in Entries(r)
           on == {c \in Clocks : \E t \in {r.soft, r.hard} : <<c, t>> \in Entries(r)}
           new(c) == [id |-> id, time |-> time(c)]
       IN  /\ request' = [request EXCEPT ![id] = r]
           /\ events' = [c \in Clocks |->
                          IF c \in on THEN events[c] \cup {new(c)} ELSE events[c]]
           /\ index' = [c \in Clocks |->
                          IF c \in on THEN Insert(index[c], new(c)) ELSE index[c]]
           /\ timer' = [c \in Clocks |->
                          IF c \in on /\ IsNext(index[c], time(c))
                          THEN Armed(c, index'[c], mRunning) ELSE timer[c]]
  /\ lastId' = lastId + 1
  /\ UNCHANGED <<boottime, awake, mRunning, thread, fd, seen, batch, ran, asked, removed>>

\* Slip: the timer is left armed for the event that was removed.
RemoveKeepsTimer ==
  /\ SomeoneCalls /\ MayRemove
  /\ \E id \in 1 .. lastId :
       /\ events' = [c \in Clocks |-> {e \in events[c] : e.id # id}]
       /\ index' = [c \in Clocks |-> Without(index[c], {e \in events[c] : e.id = id})]
       /\ asked' = IF id \in RangeOf(ran) THEN asked ELSE asked \cup {id}
       /\ removed' = IF events' # events THEN removed \cup {id} ELSE removed
  /\ UNCHANGED <<boottime, awake, mRunning, lastId, request, timer, thread, fd, seen, batch,
                 ran>>

RemoveEvent ==
  /\ SomeoneCalls /\ MayRemove
  /\ \E id \in 1 .. lastId :
       LET of(c)      == {e \in events[c] : e.id = id}
           wasNext(c) == Head(index[c]).id = id
       IN  /\ events' = [c \in Clocks |-> events[c] \ of(c)]
           /\ index' = [c \in Clocks |-> Without(index[c], of(c))]
           /\ timer' = [c \in Clocks |->
                          IF of(c) # {} /\ wasNext(c) THEN Armed(c, index'[c], mRunning)
                                                      ELSE timer[c]]
           /\ asked' = IF id \in RangeOf(ran) THEN asked ELSE asked \cup {id}
           /\ removed' = IF \E c \in Clocks : of(c) # {} THEN removed \cup {id} ELSE removed
  /\ UNCHANGED <<boottime, awake, mRunning, lastId, request, thread, fd, seen, batch, ran>>

\* Slip: the timers are left as they are.
DestroyKeepsTimers ==
  /\ awake /\ mRunning /\ mRunning' = FALSE
  /\ UNCHANGED <<boottime, awake, lastId, request, events, index, timer, thread, fd, seen,
                 batch, ran, asked, removed>>

\* The destructor up to join(); the other clients are gone by then.
Destroy ==
  /\ awake /\ mRunning /\ mRunning' = FALSE
  /\ timer' = [c \in Clocks |-> Armed(c, index[c], FALSE)]
  /\ UNCHANGED <<boottime, awake, lastId, request, events, index, thread, fd, seen, batch,
                 ran, asked, removed>>

-----------------------------------------------------------------------------
(* threadLoop() and LinuxClock::wait() *)

EpollReturns ==
  /\ awake /\ thread = "wait"
  /\ \E c \in Clocks : Expired(c) /\ fd' = c
  /\ thread' = "read"
  /\ UNCHANGED <<boottime, awake, mRunning, lastId, request, events, index, timer, seen,
                 batch, ran, asked, removed>>

\* read() of the timerfd, which blocks until the timer has expired since it was
\* last set; then the time is read.
Read ==
  /\ awake /\ thread = "read" /\ Expired(fd)
  /\ timer' = [timer EXCEPT ![fd] = 0]
  /\ thread' = "lock" /\ seen' = boottime
  /\ UNCHANGED <<boottime, awake, mRunning, lastId, request, events, index, fd, batch, ran,
                 asked, removed>>

IsDue(e) == e.time =< seen

\* The events that collectEvents() takes from the clocks.
Collected ==
  {id \in Event : \E c \in Clocks : /\ \E e \in RangeOf(index[c]) : e.id = id /\ IsDue(e)
                                   /\ \E e \in events[c] : e.id = id}

\* Slip: an event that is due on one clock stays on the other one.
StaysElsewhere(e, ids) == ~ IsDue(e)

\* What collectEvents() and removeEvents() leave on a clock.
Stays(e, ids) == ~ IsDue(e) /\ e.id \notin ids

\* The orders in which std::sort by priorityTime may leave a set of events.
Sorted(ids) ==
  {s \in [1 .. Cardinality(ids) -> ids] :
     \A i, j \in DOMAIN s :
       i < j => s[i] # s[j] /\ request[s[i]].priority =< request[s[j]].priority}

\* The thread has the lock.
Collect ==
  /\ awake /\ thread = "lock"
  /\ IF mRunning
     THEN /\ batch' \in Sorted(Collected)
          /\ index' = [c \in Clocks |-> Without(index[c], {e \in RangeOf(index[c]) :
                                                            ~ Stays(e, Collected)})]
          /\ events' = [c \in Clocks |-> {e \in events[c] : Stays(e, Collected)}]
          /\ timer' = [c \in Clocks |-> Armed(c, index'[c], TRUE)]
          /\ thread' = IF Collected = {} THEN "wait" ELSE "run"
     ELSE /\ thread' = "done"
          /\ UNCHANGED <<batch, events, index, timer>>
  /\ UNCHANGED <<boottime, awake, mRunning, lastId, request, fd, seen, ran, asked, removed>>

\* Slip: the loop is left after the first event.
RunFirstEvent ==
  /\ awake /\ thread = "run"
  /\ ran' = Append(ran, Head(batch)) /\ batch' = Tail(batch)
  /\ thread' = "wait"
  /\ UNCHANGED <<boottime, awake, mRunning, lastId, request, events, index, timer, fd, seen,
                 asked, removed>>

RunEvent ==
  /\ awake /\ thread = "run"
  /\ ran' = Append(ran, Head(batch)) /\ batch' = Tail(batch)
  /\ thread' = IF Len(batch) = 1 THEN "wait" ELSE "run"
  /\ UNCHANGED <<boottime, awake, mRunning, lastId, request, events, index, timer, fd, seen,
                 asked, removed>>

-----------------------------------------------------------------------------
(* The system *)

ClockTick ==
  /\ boottime < LastTime /\ boottime' = boottime + 1
  /\ UNCHANGED <<awake, mRunning, lastId, request, events, index, timer, thread, fd, seen,
                 batch, ran, asked, removed>>

\* EPOLLWAKEUP keeps the system up from the expiry of a timer to the next
\* epoll_wait() of the thread.
Suspend ==
  /\ MaySuspend /\ awake /\ awake' = FALSE
  /\ thread \in {"wait", "done"} /\ \A c \in Clocks : ~ Expired(c)
  /\ UNCHANGED <<boottime, mRunning, lastId, request, events, index, timer, thread, fd,
                 seen, batch, ran, asked, removed>>

Resume ==
  /\ ~ awake /\ awake' = TRUE
  /\ UNCHANGED <<boottime, mRunning, lastId, request, events, index, timer, thread, fd,
                 seen, batch, ran, asked, removed>>

\* A timer on CLOCK_BOOTTIME_ALARM wakes the system.
AlarmResumes == Alarm /\ Expired(AlarmTime) /\ Resume

ThreadNext == EpollReturns \/ Read \/ Collect \/ RunEvent

TimerNext == AddEvent \/ RemoveEvent \/ Destroy \/ ThreadNext \/ ClockTick \/ Suspend \/ Resume

TimerSpec == TimerInit /\ [][TimerNext]_timerVars

\* The thread is scheduled and the functions it runs return, time goes on, and
\* the alarm hardware works.  Nothing is assumed of other reasons to resume.
FairTimerSpec ==
  TimerSpec /\ WF_timerVars(ThreadNext) /\ WF_timerVars(ClockTick) /\ WF_timerVars(AlarmResumes)

-----------------------------------------------------------------------------
TimerTypeOK ==
  /\ boottime \in 1 .. LastTime /\ awake \in BOOLEAN /\ mRunning \in BOOLEAN
  /\ lastId \in 0 .. MaxEvents
  /\ events \in [Clocks -> SUBSET [id : 1 .. lastId, time : Int]]
  /\ index \in [Clocks -> Seq([id : 1 .. lastId, time : Int])]
  /\ timer \in [Clocks -> Nat]
  /\ thread \in {"wait", "read", "lock", "run", "done"} /\ fd \in Clocks
  /\ seen \in 0 .. LastTime
  /\ batch \in Seq(1 .. lastId) /\ (thread = "run" <=> batch # <<>>)
  /\ ran \in Seq(1 .. lastId) /\ removed \subseteq asked /\ asked \subseteq 1 .. lastId

\* mEvents and mTimeIndex of a clock hold the same events, each once, and the
\* index is in the order of the times, whatever add(), remove(), collectEvents()
\* and removeEvents() did (TimerQueue.cpp:391-465).
IndexAgrees ==
  \A c \in Clocks :
    /\ RangeOf(index[c]) = events[c]
    /\ \A i, j \in DOMAIN index[c] : index[c][i].id = index[c][j].id => i = j
    /\ \A i, j \in DOMAIN index[c] : i < j => index[c][i].time =< index[c][j].time

\* An event that waits on two clocks runs once, and an event for which remove()
\* returned true never runs (TimerQueue.cpp:351-355, TimerQueue.h:225).  Of events for
\* which it returned false this says nothing: see RemovedIsNotRun.
RunsOnceOrNever ==
  LET all == ran \o batch
  IN  /\ \A i, j \in DOMAIN all : all[i] = all[j] => i = j
      /\ removed \cap RangeOf(all) = {}
      /\ \A c \in Clocks : \A e \in events[c] : e.id \notin RangeOf(all) \cup removed

\* "If the event corresponding to the handle has not yet been executed, it will be
\* removed and will not be called" (TimerQueue.h:219-221).
RemovedIsNotRun == asked \cap RangeOf(ran) = {}

\* A timer is armed for the earliest event of its clock, unless the thread has
\* just read it and is about to collect: no add() or remove() leaves the timer
\* at a time that is too late (TimerQueue.cpp:393-400, 426-428, 458).
TimerArmedForNext ==
  \A c \in Created :
    \/ timer[c] = NextTime(index[c], mRunning)
    \/ thread = "lock" /\ timer[c] = 0 /\ fd = c
    \/ thread = "done"

\* Every event runs, unless it is removed or the queue is destroyed: an event is
\* "executed at a specific time" (TimerQueue.h:173), between its soft and its
\* hard deadline (TimerQueue.h:188).
EveryEventRuns ==
  \A id \in Event :
    (lastId >= id) ~> (id \in RangeOf(ran) \cup removed \/ ~ mRunning)

\* ... and nothing can keep it from running but a read() that blocks for ever:
\* remove() may disarm the timer between epoll_wait() and read()
\* (TimerQueue.cpp:165-178).
EventsRunUnlessReadBlocks ==
  \A id \in Event :
    (lastId >= id) ~> \/ id \in RangeOf(ran) \cup removed \/ ~ mRunning
                     \/ [](thread = "read" /\ ~ Expired(fd))

\* The destructor's join() ends: the thread is unblocked and leaves its loop
\* (TimerQueue.cpp:229-242, 436-438).
DestructorReturns == (~ mRunning) ~> (thread = "done")
=============================================================================
