--------------------------- MODULE CommandThread ---------------------------
(* The serial executor of audio_utils/CommandThread.h: clients queue commands, *)
(* at once or after a delay, one worker thread runs them one at a time.  All   *)
(* state is guarded by mMutex, which is given up only while a command runs and *)
(* inside a wait, so every critical section is one action.  "Slip" definitions *)
(* are wrong on purpose, for mutation runs.                                    *)
EXTENDS Naturals, Sequences

CONSTANTS
  Waiters,       \* the threads that may call wait_for_all_tasks()
  Delays,        \* delays passed to add(), 0 for the overload without one
  MaxCommands,   \* bound of the model: commands added in one behaviour
  MaxTime        \* bound of the model: the clock stops here

ASSUME CommandThreadAssumption ==
  Delays \subseteq Nat /\ MaxCommands \in Nat /\ MaxTime \in Nat

VARIABLES
  now,        \* steady_clock
  added,      \* commands 1 .. added were accepted, in this order
  delayed,    \* those that were accepted with a delay
  due,        \* their wakeupTime
  commands,   \* mCommands
  scheduled,  \* mScheduledCommands, in the order of the multimap
  quit,       \* mQuit
  running,    \* the command being run, 0 when mTaskRunning is false
  finished,   \* the commands run so far, in order
  worker,     \* where the worker thread is
  wakeAt,     \* the deadline of its wait
  waiter,     \* where each waiter is
  upTo        \* the value of added when it called

vars == <<now, added, delayed, due, commands, scheduled, quit, running, finished,
          worker, wakeAt, waiter, upTo>>
queues == <<now, added, delayed, due, commands, scheduled, quit, running, finished>>

Command == 1 .. MaxCommands
Never   == MaxTime + 1        \* the deadline of a wait without one

ElementsOf(s) == {s[i] : i \in DOMAIN s}

Init ==
  /\ now = 0 /\ added = 0 /\ delayed = {}
  /\ due = [c \in Command |-> 0]
  /\ commands = <<>> /\ scheduled = <<>> /\ finished = <<>>
  /\ quit = FALSE /\ running = 0
  /\ worker = "ready" /\ wakeAt = Never
  /\ waiter = [w \in Waiters |-> "idle"] /\ upTo = [w \in Waiters |-> 0]

Tick == now < MaxTime /\ now' = now + 1
        /\ UNCHANGED <<added, delayed, due, commands, scheduled, quit, running, finished,
                       worker, wakeAt, waiter, upTo>>

-----------------------------------------------------------------------------
\* Slip: the notification also reaches a worker that is running a command.
NotifyWorkerAnywhere(condition) ==
  worker' = IF condition THEN "ready" ELSE worker

\* notify_one() on mConditionVariable, where only the worker waits, and
\* notify_all() on mWaitConditionVariable.
NotifyWorker(condition) ==
  worker' = IF condition /\ worker = "waiting" THEN "ready" ELSE worker

NotifyWaiters ==
  waiter' = [w \in Waiters |-> IF waiter[w] = "waiting" THEN "woken" ELSE waiter[w]]

AddNow ==
  /\ ~ quit /\ added < MaxCommands /\ 0 \in Delays
  /\ added' = added + 1
  /\ commands' = Append(commands, added')
  /\ NotifyWorker(Len(commands') = 1)
  /\ UNCHANGED <<now, delayed, due, scheduled, quit, running, finished, wakeAt, waiter, upTo>>

\* Slip: an equal key goes before those already there.
EmplaceBefore(c, time) ==
  SelectSeq(scheduled, LAMBDA d : due[d] < time) \o <<c>>
    \o SelectSeq(scheduled, LAMBDA d : due[d] >= time)

\* How many scheduled commands come before the first one later than time.
UpperBound(time) ==
  CHOOSE n \in 0 .. Len(scheduled) :
    /\ \A i \in 1 .. n : due[scheduled[i]] =< time
    /\ n < Len(scheduled) => due[scheduled[n + 1]] > time

\* multimap::emplace puts an equal key after those already there.
NotAfter(time) == SubSeq(scheduled, 1, UpperBound(time))
After(time)    == SubSeq(scheduled, UpperBound(time) + 1, Len(scheduled))
Emplace(c, time) == NotAfter(time) \o <<c>> \o After(time)

\* Slip: the worker is only told of the first delayed command.
AddLaterFirstOnly ==
  /\ ~ quit /\ added < MaxCommands
  /\ \E delay \in Delays \ {0} :
       /\ now + delay =< MaxTime
       /\ due' = [due EXCEPT ![added + 1] = now + delay]
       /\ scheduled' = Emplace(added + 1, now + delay)
       /\ NotifyWorker(scheduled = <<>> /\ commands = <<>>)
  /\ added' = added + 1 /\ delayed' = delayed \cup {added + 1}
  /\ UNCHANGED <<now, commands, quit, running, finished, wakeAt, waiter, upTo>>

\* Slip: the worker is never told of a delayed command.
AddLaterSilently ==
  /\ ~ quit /\ added < MaxCommands
  /\ \E delay \in Delays \ {0} :
       /\ now + delay =< MaxTime
       /\ due' = [due EXCEPT ![added + 1] = now + delay]
       /\ scheduled' = Emplace(added + 1, now + delay)
  /\ added' = added + 1 /\ delayed' = delayed \cup {added + 1}
  /\ UNCHANGED <<now, commands, quit, running, finished, worker, wakeAt, waiter, upTo>>

AddLater ==
  /\ ~ quit /\ added < MaxCommands
  /\ \E delay \in Delays \ {0} :
       LET time     == now + delay
           earliest == scheduled = <<>> \/ time < due[Head(scheduled)]
       IN  /\ time =< MaxTime
           /\ due' = [due EXCEPT ![added + 1] = time]
           /\ scheduled' = Emplace(added + 1, time)
           /\ NotifyWorker(earliest /\ commands = <<>>)
  /\ added' = added + 1 /\ delayed' = delayed \cup {added + 1}
  /\ UNCHANGED <<now, commands, quit, running, finished, wakeAt, waiter, upTo>>

\* Slip: quit() wakes only the worker.
QuitForgetsWaiters ==
  /\ ~ quit /\ quit' = TRUE
  /\ commands' = <<>> /\ scheduled' = <<>>
  /\ NotifyWorker(TRUE)
  /\ UNCHANGED <<now, added, delayed, due, running, finished, wakeAt, waiter, upTo>>

\* quit(), also the first half of the destructor
Quit ==
  /\ ~ quit /\ quit' = TRUE
  /\ commands' = <<>> /\ scheduled' = <<>>
  /\ NotifyWorker(TRUE) /\ NotifyWaiters
  /\ UNCHANGED <<now, added, delayed, due, running, finished, wakeAt, upTo>>

-----------------------------------------------------------------------------
(* wait_for_all_tasks() *)

\* Slip: the command that is being run is overlooked.
NoTaskQueued == (commands = <<>> /\ scheduled = <<>>) \/ quit

AllTasksDone == (commands = <<>> /\ scheduled = <<>> /\ running = 0) \/ quit

\* The call, or a waiter that was woken: test the predicate under the lock.
TestOrWait(w) ==
  /\ waiter' = [waiter EXCEPT ![w] = IF AllTasksDone THEN "returned" ELSE "waiting"]
  /\ UNCHANGED <<queues, worker, wakeAt>>

WaitForAllTasks(w) ==
  /\ waiter[w] = "idle"
  /\ upTo' = [upTo EXCEPT ![w] = added]
  /\ TestOrWait(w)

WaiterWakes(w) == waiter[w] = "woken" /\ TestOrWait(w) /\ UNCHANGED upTo

WaiterWakesSpuriously(w) == waiter[w] = "waiting" /\ TestOrWait(w) /\ UNCHANGED upTo

-----------------------------------------------------------------------------
(* threadLoop() *)

\* Slip: a command that is transferred stays in the map.
NotYetDueNoErase == scheduled

\* The scheduled commands whose time has come, and the others.
Due       == NotAfter(now)
NotYetDue == After(now)

\* One turn of the loop, from the test of mQuit to the next point where the
\* lock is given up; told says that the waiters were notified before it.
Iterate(told) ==
  LET queue == commands \o Due
  IN  \/ /\ quit
         /\ worker' = "done" /\ running' = 0
         /\ IF told THEN NotifyWaiters ELSE UNCHANGED waiter
         /\ UNCHANGED <<commands, scheduled, wakeAt>>
      \/ /\ ~ quit /\ queue # <<>>
         /\ worker' = "task" /\ running' = Head(queue)
         /\ commands' = Tail(queue) /\ scheduled' = NotYetDue
         /\ IF told THEN NotifyWaiters ELSE UNCHANGED waiter
         /\ UNCHANGED wakeAt
      \/ /\ ~ quit /\ queue = <<>> /\ NotYetDue # <<>>
         /\ worker' = "waiting" /\ running' = 0
         /\ wakeAt' = due[Head(NotYetDue)]
         /\ IF told THEN NotifyWaiters ELSE UNCHANGED waiter
         /\ UNCHANGED <<commands, scheduled>>
      \/ /\ ~ quit /\ queue = <<>> /\ NotYetDue = <<>>
         /\ worker' = "waiting" /\ running' = 0 /\ wakeAt' = Never
         /\ NotifyWaiters
         /\ UNCHANGED <<commands, scheduled>>

\* The start of the thread, or its return from a wait.
WorkerRuns ==
  /\ worker = "ready" /\ Iterate(FALSE)
  /\ UNCHANGED <<now, added, delayed, due, quit, finished, upTo>>

\* The command returns and the worker takes the lock again.
TaskReturns ==
  /\ worker = "task" /\ Iterate(TRUE)
  /\ finished' = Append(finished, running)
  /\ UNCHANGED <<now, added, delayed, due, quit, upTo>>

WorkerTimesOut ==
  /\ worker = "waiting" /\ wakeAt =< now
  /\ worker' = "ready"
  /\ UNCHANGED <<queues, wakeAt, waiter, upTo>>

WorkerWakesSpuriously ==
  /\ worker = "waiting"
  /\ worker' = "ready"
  /\ UNCHANGED <<queues, wakeAt, waiter, upTo>>

-----------------------------------------------------------------------------
WaiterNext(w) == WaitForAllTasks(w) \/ WaiterWakes(w) \/ WaiterWakesSpuriously(w)

Next ==
  \/ Tick \/ AddNow \/ AddLater \/ Quit
  \/ WorkerRuns \/ TaskReturns \/ WorkerTimesOut \/ WorkerWakesSpuriously
  \/ \E w \in Waiters : WaiterNext(w)

Spec == Init /\ [][Next]_vars

\* The worker and the woken waiters are scheduled, commands return, time goes
\* on.  Nothing is assumed of spurious wakeups, of add() or of quit().
FairSpec ==
  /\ Spec
  /\ WF_vars(WorkerRuns) /\ WF_vars(TaskReturns) /\ WF_vars(WorkerTimesOut) /\ WF_vars(Tick)
  /\ \A w \in Waiters : WF_vars(WaiterWakes(w))

-----------------------------------------------------------------------------
TypeOK ==
  /\ now \in 0 .. MaxTime /\ added \in 0 .. MaxCommands /\ delayed \subseteq 1 .. added
  /\ due \in [Command -> 0 .. MaxTime]
  /\ commands \in Seq(Command) /\ scheduled \in Seq(Command) /\ finished \in Seq(Command)
  /\ quit \in BOOLEAN /\ running \in 0 .. MaxCommands
  /\ worker \in {"ready", "task", "waiting", "done"} /\ (worker = "task" <=> running # 0)
  /\ wakeAt \in 0 .. Never
  /\ waiter \in [Waiters -> {"idle", "waiting", "woken", "returned"}]
  /\ upTo \in [Waiters -> 0 .. MaxCommands]

\* Everything that is to run or has run, in its order.
Line == finished \o (IF running = 0 THEN <<>> ELSE <<running>>) \o commands

\* No command is lost or run twice: an accepted command is in exactly one place,
\* unless quit() dropped it, after which nothing is queued any more
\* (CommandThread.h:126-130, 184-185, 231-251).
EachCommandInOnePlace ==
  LET places == Line \o scheduled
  IN  /\ \A i, j \in DOMAIN places : places[i] = places[j] => i = j
      /\ ElementsOf(places) \subseteq 1 .. added
      /\ IF quit THEN commands = <<>> /\ scheduled = <<>>
                 ELSE ElementsOf(places) = 1 .. added

\* Commands run in the order of add(), delayed ones in the order of their times
\* and of add() when these are equal, and a command that was queued before a
\* delayed one runs before it (CommandThread.h:155, 233-236).
RunsInOrder ==
  \A i, j \in DOMAIN Line :
    LET c == Line[i]
        d == Line[j]
    IN  (i < j /\ d < c) => /\ d \in delayed
                            /\ c \in delayed => due[c] < due[d]

\* The worker sleeps only without work, and not past the time of the earliest
\* delayed command: notify_one() is sent whenever its plan has to change, although
\* add() sends it only for the first command of an empty queue or for a new
\* earliest time (CommandThread.h:129, 153-157, 253-258).
WorkerSleepsOnlyWithoutWork ==
  worker = "waiting" =>
    /\ commands = <<>> /\ ~ quit
    /\ scheduled # <<>> => wakeAt =< due[Head(scheduled)]

\* When wait_for_all_tasks() returns and quit() was not called, every command
\* accepted before the call has returned (CommandThread.h:193-198).
WaitCoversEarlierCommands ==
  [][\A w \in Waiters :
       (waiter[w] # "returned" /\ waiter'[w] = "returned" /\ ~ quit)
          => 1 .. upTo'[w] \subseteq ElementsOf(finished)]_vars

\* Every accepted command is run, unless the thread quits (CommandThread.h:42-43):
\* commands are never taken back, so none waits for ever exactly if again and
\* again none waits, the behaviours of the model adding finitely many.
EveryCommandRuns ==
  []<>(quit \/ \A c \in Command : added >= c => c \in ElementsOf(finished))

\* quit() reaches everybody: wait_for_all_tasks() returns, there and once nothing
\* is added any more, and the worker leaves its loop, so that the join() of the
\* destructor ends (CommandThread.h:110-113, 187).
EverybodyReturns ==
  /\ quit ~> (worker = "done")
  /\ \A w \in Waiters : (waiter[w] = "waiting") ~> (waiter[w] = "returned")
=============================================================================
