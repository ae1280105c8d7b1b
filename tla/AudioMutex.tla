----------------------------- MODULE AudioMutex -----------------------------
(* Mutexes with an order, audio_utils/mutex.h.  Each thread keeps a stack of   *)
(* the mutexes it holds and says what it waits for; nothing guards this but   *)
(* atomicity.  A lock against the order aborts the process, and a watchdog    *)
(* reads the notes of all threads to find a deadlock.  The notes are updated  *)
(* before or after the mutex itself, in steps of their own; one update of a   *)
(* stack, and the reading of one stack, is a single step.  The definitions    *)
(* marked "Slip" are plausible mistakes, kept for mutation runs and used by   *)
(* no action.                                                                  *)
EXTENDS Naturals, Sequences, FiniteSets, SequencesExt

CONSTANTS
  Threads, NoThread,
  Mutexes, NoMutex,
  Order,          \* of each mutex
  Depth,          \* mutex_stack_depth_
  NestedWaits,    \* whether clients hold other mutexes in a condition wait
  Watched         \* the threads that deadlock_detection() is called for

\* To be assumed by the module that instantiates this one.
AudioMutexAssumption ==
  /\ NoThread \notin Threads /\ NoMutex \notin Mutexes
  /\ Order \in [Mutexes -> Nat] /\ Depth \in Nat \ {0}
  /\ NestedWaits \in BOOLEAN /\ Watched \subseteq Threads

VARIABLES
  owner,       \* of each std::mutex
  pc,          \* where each thread is
  mutex,       \* the mutex of the call a thread is in, or NoMutex
  limited,     \* whether that call has a timeout
  held,        \* mutexes_held_ of each thread: its items, and true_top_
  mutex_wait,  \* mutex_wait_ of each thread
  other_wait,  \* other_wait_info_.tid_ of each thread
  dog          \* the watchdog in deadlock_detection()
calls == <<mutex, limited>>
notes == <<held, mutex_wait, other_wait>>
mutexVars  == <<owner, pc, mutex, limited, held, mutex_wait, other_wait, dog>>

Idle == [pc |-> "idle", tid |-> NoThread, m |-> NoMutex, other |-> NoThread,
         unread |-> {}, mutex_to_tid |-> [m \in Mutexes |-> NoThread], visited |-> {},
         has_cycle |-> FALSE, doomed |-> FALSE]

MutexInit ==
  /\ owner = [m \in Mutexes |-> NoThread]
  /\ pc = [t \in Threads |-> "runs"]
  /\ mutex = [t \in Threads |-> NoMutex]
  /\ limited = [t \in Threads |-> FALSE]
  /\ held = [t \in Threads |-> [items |-> <<>>, true_top |-> 0]]
  /\ mutex_wait = [t \in Threads |-> NoMutex]
  /\ other_wait = [t \in Threads |-> NoThread]
  /\ dog = Idle

Owned(t) == {m \in Mutexes : owner[m] = t}

Goes(t, place)     == pc' = [pc EXCEPT ![t] = place]
NotesMutex(t, m)   == mutex_wait' = [mutex_wait EXCEPT ![t] = m]
NotesThread(t, u)  == other_wait' = [other_wait EXCEPT ![t] = u]
Holds(t, stack)    == held' = [held EXCEPT ![t] = stack]
Gives(m, t)        == owner' = [owner EXCEPT ![m] = t]
Calls(t, m, timed) == mutex' = [mutex EXCEPT ![t] = m] /\ limited' = [limited EXCEPT ![t] = timed]
Returns(t)         == Goes(t, "runs") /\ Calls(t, NoMutex, FALSE)

-----------------------------------------------------------------------------
(* The stack of a thread: atomic_stack *)

\* push(): beyond the depth the topmost item is replaced.
Pushed(s, m) ==
  [items    |-> IF Len(s.items) < Depth THEN Append(s.items, m)
                ELSE [s.items EXCEPT ![Depth] = m],
   true_top |-> s.true_top + 1]

\* remove(): the item may be anywhere, or missing when the depth was exceeded.
PlaceOf(s, m) == SelectLastInSubSeq(s.items, 1, Len(s.items), LAMBDA x : x = m)

\* Slip: only the top is looked at.
PoppedTop(s, m) ==
  [items    |-> IF s.items # <<>> /\ Last(s.items) = m THEN Front(s.items) ELSE s.items,
   true_top |-> IF s.true_top > Len(s.items) THEN s.true_top - 1 ELSE Len(s.items)]

Removed(s, m) ==
  LET i == PlaceOf(s, m)
  IN  IF s.true_top = 0 THEN s
      ELSE IF i # 0 THEN [items |-> RemoveAt(s.items, i), true_top |-> s.true_top - 1]
      ELSE IF s.true_top > Len(s.items) THEN [s EXCEPT !.true_top = @ - 1]
      ELSE s

\* ... and whether remove() returns true; pre_unlock() aborts when it does not.
Removable(s, m) ==
  s.true_top > 0 /\ (PlaceOf(s, m) # 0 \/ s.true_top > Len(s.items))

\* Slip: recursion is refused, and the order not looked at.
MayLockOnce(s, m) == m \notin ToSet(s.items)

\* check_held(): from the top down to the first item of a lower order, none is of a
\* higher one or the mutex itself.  pre_lock() aborts otherwise.
MayLock(s, m) ==
  \A i \in DOMAIN s.items :
    (\A j \in i + 1 .. Len(s.items) : Order[s.items[j]] = Order[m] /\ s.items[j] # m)
      => Order[s.items[i]] =< Order[m] /\ s.items[i] # m

Complete(s) == Len(s.items) = s.true_top

-----------------------------------------------------------------------------
(* Locking *)

Locks(t, m, timed) ==
  pc[t] = "runs" /\ MayLock(held[t], m) /\ Calls(t, m, timed) /\ UNCHANGED <<other_wait, dog>>

\* lock() and try_lock() of a mutex that is free
LockFree(t, m) ==
  /\ owner[m] = NoThread /\ Locks(t, m, FALSE)
  /\ Gives(m, t) /\ Goes(t, "locked") /\ UNCHANGED <<held, mutex_wait>>

\* lock() and try_lock(timeout) that have to wait; try_lock() returns false.
LockTaken(t, m, timed) ==
  /\ owner[m] # NoThread /\ Locks(t, m, timed)
  /\ NotesMutex(t, m) /\ Goes(t, "blocked") /\ UNCHANGED <<owner, held>>

Acquire(t) ==
  /\ pc[t] = "blocked" /\ owner[mutex[t]] = NoThread
  /\ Gives(mutex[t], t) /\ Goes(t, "locked") /\ UNCHANGED <<calls, notes, dog>>

\* post_lock(), after the destructor of lock_scoped_stat_enabled
PostLock(t) ==
  /\ pc[t] = "locked" /\ Returns(t)
  /\ Holds(t, Pushed(held[t], mutex[t])) /\ NotesMutex(t, NoMutex)
  /\ UNCHANGED <<owner, other_wait, dog>>

TimedOut(t) ==
  /\ pc[t] = "blocked" /\ limited[t] /\ Returns(t) /\ NotesMutex(t, NoMutex)
  /\ UNCHANGED <<owner, held, other_wait, dog>>

\* unlock(): pre_unlock(), then the mutex
PreUnlock(t, m) ==
  /\ pc[t] = "runs" /\ owner[m] = t /\ Removable(held[t], m)
  /\ Holds(t, Removed(held[t], m)) /\ Calls(t, m, FALSE) /\ Goes(t, "unlocks")
  /\ UNCHANGED <<owner, mutex_wait, other_wait, dog>>

Unlock(t) ==
  /\ pc[t] = "unlocks" /\ Gives(mutex[t], NoThread) /\ Returns(t)
  /\ UNCHANGED <<notes, dog>>

-----------------------------------------------------------------------------
(* Waiting for other threads *)

\* condition_variable::wait(), to be notified by thread "by" or by NoThread known
CvWait(t, m, by, timed) ==
  /\ pc[t] = "runs" /\ owner[m] = t /\ by # t /\ Removable(held[t], m)
  /\ NestedWaits \/ Owned(t) = {m}
  /\ Holds(t, Removed(held[t], m)) /\ NotesThread(t, by)
  /\ Calls(t, m, timed) /\ Goes(t, "waits") /\ UNCHANGED <<owner, mutex_wait, dog>>

CvSleep(t) ==
  /\ pc[t] = "waits" /\ Gives(mutex[t], NoThread) /\ Goes(t, "sleeps")
  /\ UNCHANGED <<calls, notes, dog>>

\* The condition is met, by the thread that was named, or the time is over.
CvWake(t) ==
  /\ pc[t] = "sleeps"
  /\ limited[t] \/ IF other_wait[t] = NoThread THEN \E u \in Threads : pc[u] = "runs"
                                              ELSE pc[other_wait[t]] = "runs"
  /\ Goes(t, "wakes") /\ UNCHANGED <<owner, calls, notes, dog>>

CvLock(t) ==
  /\ pc[t] = "wakes" /\ owner[mutex[t]] = NoThread
  /\ Gives(mutex[t], t) /\ Goes(t, "woken") /\ UNCHANGED <<calls, notes, dog>>

CvReturn(t) ==
  /\ pc[t] = "woken" /\ Returns(t)
  /\ Holds(t, Pushed(held[t], mutex[t])) /\ NotesThread(t, NoThread)
  /\ UNCHANGED <<owner, mutex_wait, dog>>

\* scoped_queue_wait_check: until the other thread gets to its queue; and
\* scoped_join_wait_check: until it has ended.
WaitFor(t, u, kind) ==
  /\ pc[t] = "runs" /\ u # t /\ NotesThread(t, u) /\ Goes(t, kind)
  /\ UNCHANGED <<owner, calls, held, mutex_wait, dog>>

WaitDone(t) ==
  /\ \/ pc[t] = "queues" /\ pc[other_wait[t]] \in {"runs", "ended"}
     \/ pc[t] = "joins"  /\ pc[other_wait[t]] = "ended"
  /\ NotesThread(t, NoThread) /\ Goes(t, "runs")
  /\ UNCHANGED <<owner, calls, held, mutex_wait, dog>>

\* A thread ends, and its thread_mutex_info leaves the registry.
End(t) ==
  /\ pc[t] = "runs" /\ Owned(t) = {} /\ Goes(t, "ended")
  /\ UNCHANGED <<owner, calls, notes, dog>>

-----------------------------------------------------------------------------
(* Deadlock detection *)

Registered == {t \in Threads : pc[t] # "ended"}

\* What thread t really waits for, as long as it takes; NoThread when it moves, or may.
WaitsFor(t) ==
  CASE pc[t] = "blocked" /\ ~ limited[t] -> owner[mutex[t]]
    [] pc[t] = "sleeps"  /\ ~ limited[t] -> other_wait[t]
    [] pc[t] \in {"queues", "joins"}     -> other_wait[t]
    [] OTHER                             -> NoThread

\* Following After(_) from t one comes to no end.
LeadsIntoCycle(t, After(_)) ==
  LET reach[n \in 0 .. Cardinality(Threads)] ==
        IF n = 0 THEN t
        ELSE IF reach[n - 1] = NoThread THEN NoThread ELSE After(reach[n - 1])
  IN  reach[Cardinality(Threads)] # NoThread

DogUnchanged == UNCHANGED <<owner, pc, mutex, limited, held, mutex_wait, other_wait>>

DetectionStarts(t) ==
  /\ dog.pc = "idle" /\ t \in Registered
  /\ mutex_wait[t] # NoMutex \/ other_wait[t] # NoThread
  /\ dog' = [Idle EXCEPT !.pc = "reads", !.tid = t, !.m = mutex_wait[t],
                         !.other = other_wait[t], !.unread = Registered, !.visited = {t},
                         !.doomed = LeadsIntoCycle(t, WaitsFor)
                                    /\ \A u \in Threads : Complete(held[u])]
  /\ DogUnchanged

\* The registry has no order.
DetectionReads(t) ==
  /\ dog.pc = "reads" /\ t \in dog.unread
  /\ dog' = [dog EXCEPT
       !.unread = @ \ {t},
       !.mutex_to_tid = [m \in Mutexes |->
          IF t \in Registered /\ m \in ToSet(held[t].items) THEN t ELSE @[m]],
       !.pc = IF dog.unread = {t} THEN "walks" ELSE @]
  /\ DogUnchanged

\* Slip: a thread that waits for another thread is taken for one that runs.
DetectionNextByMutex == IF dog.m # NoMutex THEN dog.mutex_to_tid[dog.m] ELSE NoThread

\* The next thread of the chain
DetectionNext ==
  IF dog.m # NoMutex /\ dog.mutex_to_tid[dog.m] # NoThread THEN dog.mutex_to_tid[dog.m]
  ELSE dog.other

DetectionWalks ==
  LET next == DetectionNext
  IN  /\ dog.pc = "walks"
      /\ dog' = IF next = NoThread THEN [dog EXCEPT !.pc = "returns"]
                ELSE IF next \in dog.visited
                     THEN [dog EXCEPT !.pc = "returns", !.has_cycle = TRUE]
                ELSE IF next \notin Registered THEN [dog EXCEPT !.pc = "returns"]
                ELSE [dog EXCEPT !.visited = @ \cup {next},
                                 !.m = mutex_wait[next], !.other = other_wait[next]]
      /\ DogUnchanged

DetectionReturns == dog.pc = "returns" /\ dog' = Idle /\ DogUnchanged

MutexNext ==
  \/ \E t \in Threads :
       \/ \E m \in Mutexes :
            \/ LockFree(t, m) \/ PreUnlock(t, m)
            \/ \E timed \in BOOLEAN :
                 \/ LockTaken(t, m, timed)
                 \/ \E by \in Threads \cup {NoThread} : CvWait(t, m, by, timed)
       \/ Acquire(t) \/ PostLock(t) \/ TimedOut(t) \/ Unlock(t)
       \/ CvSleep(t) \/ CvWake(t) \/ CvLock(t) \/ CvReturn(t)
       \/ \E u \in Threads : WaitFor(t, u, "queues") \/ WaitFor(t, u, "joins")
       \/ WaitDone(t) \/ End(t)
  \/ \E t \in Watched : DetectionStarts(t)
  \/ \E t \in Threads : DetectionReads(t)
  \/ DetectionWalks \/ DetectionReturns

MutexSpec == MutexInit /\ [][MutexNext]_mutexVars

-----------------------------------------------------------------------------
\* Outside of a call a thread has noted what it owns, up to the depth of the stack and
\* whatever the order of its unlocks, so that no unlock() aborts (lines 628-680).
NotesAreRight ==
  \A t \in Threads : pc[t] = "runs" =>
    /\ ToSet(held[t].items) \subseteq Owned(t)
    /\ held[t].true_top = Cardinality(Owned(t))
    /\ \A m \in Owned(t) : Removable(held[t], m)

\* The order check alone excludes deadlocks by mutexes, of whatever number of threads,
\* as long as the stacks are complete and mutexes differ in order (lines 828-842; "a
\* proof of deadlock free audio", tests/audio_mutex_tests.cpp:34).
NoMutexCycle ==
  LET byMutex(t) == IF pc[t] \in {"blocked", "wakes"} THEN owner[mutex[t]] ELSE NoThread
  IN  (\A t \in Threads : Complete(held[t])) =>
        \A t \in Threads : ~ LeadsIntoCycle(t, byMutex)

\* A deadlock that was there when deadlock_detection() was called is found, whatever
\* the other threads do meanwhile to the notes it reads (lines 1110-1222).
DeadlockIsFound == dog.pc = "returns" /\ dog.doomed => dog.has_cycle
=============================================================================
