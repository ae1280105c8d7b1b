# Models of system_media

`system_media` is a collection of libraries under the Android media framework:
`audio_utils` (buffers, threads, clocks, signal processing), `audio_route`
(mixer control by XML), `camera` and `radio` (metadata packets), `alsa_utils`,
and headers with the constants of the framework.  There is no program: each part
is used by a server or a HAL in another repository.  So each component is
modelled with the clients its interface allows, and the components meet in those
clients more than in each other.

This directory holds the TLA+ modules of nine components, the configurations that
TLC checks, proofs about eight of them, and this description.  Source
lines are given as in the commit the modules were written from; `PROJECT.json`
names them for every definition.

1. [Inventory](#inventory)
2. [Conventions](#conventions)
3. [The blocking FIFO](#the-blocking-fifo)
4. [CommandThread](#commandthread)
5. [TimerQueue](#timerqueue)
6. [Camera metadata](#camera-metadata)
7. [Audio routes](#audio-routes)
8. [Audio mutexes](#audio-mutexes)
9. [Radio metadata](#radio-metadata)
10. [Sound dose](#sound-dose)
11. [The S/PDIF link](#the-spdif-link)
12. [Runs](#runs)
13. [Proofs](#proofs)
14. [What is not modelled](#what-is-not-modelled)
15. [Plan](#plan)

## Inventory

| component | state | operations | what is hard | what makes it correct |
|---|---|---|---|---|
| **Blocking FIFO** `fifo.cpp`, `fifo_index.cpp` | two futex words, a buffer of frames; per side a private index, the slice obtained, hysteresis | `obtain`, `release`, `read`, `write`, `flush`, `available`, `resize`, `setHysteresis` | two threads or processes without a lock; 32-bit indices that wrap and skip wasted offsets; lost wakeups; overtaken readers; a partner that corrupts the words | disjoint slices; frames intact and in order; lost frames counted; nobody sleeps for ever |
| **CommandThread** `CommandThread.h` | a queue, a multimap by due time, quit flag, two condition variables | `add` at once and delayed, `quit`, `wait_for_all_tasks`, the worker | selective `notify_one`; the lock given up while a command runs; quit at any moment | each command runs once and in order; waiters see the end of earlier commands; all return |
| **TimerQueue** `TimerQueue.cpp` | per clock two containers and a timerfd; a thread in epoll | `add` with one or two deadlines, `remove`, destructor, the thread | an event on two clocks; the time read before the lock; the timer re-armed between epoll and read; suspension | once or never; removed means not run; timers armed for the next event; due events run |
| **Camera metadata** `camera_metadata.c` | a packed buffer: entries and a data area with offsets, a sorted flag | allocate, copy, append, clone, add, sort, find, update, delete, validate | all offsets behind a change have to move; the flag selects another search | valid after any sequence of calls; reads as a list; data area without holes; search exact |
| **Audio routes** `audio_route.c` | paths of settings; per control old, new, reset values and a use count | XML tags; apply, reset, update, force reset | controls shared by paths; nested paths; the order of applications and resets | count exact; shared controls kept, unused ones reset; mixer agrees with what is wanted |
| **Audio mutex** `mutex.h` | per thread a stack of held mutexes, and what it waits for; a registry | lock, try_lock, unlock, condition waits, join and queue waits, `deadlock_detection` | notes written without a lock while a watchdog reads them; unlock out of order; bounded stack | notes agree with ownership; the order excludes cycles; a real deadlock is found |
| **Radio metadata** `radio_metadata.c` | one block, entries growing up and an index of offsets growing down | allocate, add, append, check, get | the block doubles and the index moves; an append fails half way | a list of entries through every growth |
| **Sound dose** `MelProcessor.cpp`, `MelAggregator.cpp` | windows of samples; a lock-free ring to a worker; records of levels and of dose by time | `process`, `updateAudioFormat`, `pause`, `drain`; `aggregateAndAddNewMelRecord`, `reset` | notification without lock; full ring; overlapping intervals, equal keys; change of format within a second | every level reported in order; each second counted once, the dose being the sum of its records |
| **S/PDIF link** `spdif/` | scanner and burst buffer; ring and place in a burst | `write`, `read`, `reset` | buffers of any size at both ends; blocks that complete a burst | bursts complete and of fixed size; the frames arrive |
| Camera tag tables | constants | lookup | none | generated |
| Audio constants, effect parameters | none | pure functions | none | of types, not of steps |
| Signal processing, resampler | filters' history | process | floating point, saturation | numeric |
| Deferred execution, RunRemote | two lists; a child process | `defer`, `dispose`, `process`; `run`, `stop` | calls from within deferred functors; processes | run once, in order, outside of the lock |
| Logs, statistics, TimestampVerifier | rings, moments, last timestamps | `add`, `log`, `dump`, `discontinuity` | precedence of pending discontinuities | numeric, mostly |
| Containers | ring; list and map | the usual ones | none beyond sequences of calls | the usual ones |
| Echo reference | ring under one mutex | `read`, `write` | timestamps; one side stops | delays estimated |
| HAL smoothness | counters | increments, `flush` | overflow leaves half of an update | counters |
| ALSA devices, sound files | device handles | open, configure, transfer | I/O errors | I/O |
| Typed metadata maps, utilities | none of their own | conversions and wrappers | none | |

How they interact.  `CommandThread`, `TimerQueue`, `MelProcessor` and
`echo_reference` own or serve threads, and their clients call them from others;
`mutex.h` is what a server with many mutexes locks with (its comments speak of
AudioFlinger), while `CommandThread`, `TimerQueue` and `MelProcessor` declare a
`std::mutex`.  The FIFO is used between
threads of a process or between processes that map the same memory.  Camera
packets and audio routes are sequential: their clients serialise the calls.
`ErrorLog`, `PowerLog` and `SimpleLog` are leaves.

## Conventions

* Names are those of the code where TLA+ allows it.  A variable whose comment
  names no field of the code is bookkeeping that the properties need.
* One action is one step of the code between two points at which another thread
  can see or change something: an access to shared memory, a system call, a
  critical section.
* Definitions whose comment begins with "Slip" are plausible mistakes in the code
  (a dropped guard, an off-by-one).  No action uses them.  `PROJECT.json` pairs
  each property with one of them: substituted for the definition after it, the
  property has to fail, which shows that the property depends on that piece of
  code.
* `MC*.tla` give the constants values that a .cfg cannot spell.  Components that
  share nothing are checked together, as the sum of their specifications: in
  `MCWorkers`, `MCRecords` and `MCDevices` a variable `part`,
  chosen once, says which component takes the steps of a behaviour, and the
  others stay in an initial state.  A sum extends its parts, whose specifications
  therefore have names of their own (`FifoSpec`, `MelSpec`, `MutexSpec`,
  `RadioSpec`, `TimerSpec`, `RouteSpec`; `Spec` of the other modules), so that a run and
  a theorem speak of the same definition.  So the behaviours of a sum are those of its
  parts, each with its own fairness (`MCWorkers`), and an invariant of a part is
  one of the sum.
* Bounds are constants with the words "bound of the model" in their comments, or a
  `CONSTRAINT` in the .cfg.
* Every model is sequentially consistent.  The FIFO's accesses are acquire and
  release (`fifo_index.cpp:35`, `:46`); the notes of `mutex.h` are only
  "unordered" (`mutex.h:470`).  That nothing is lost by the step from these to
  one order of all accesses is assumed here and not shown.

## The blocking FIFO

`FifoIndex.tla` is the index arithmetic of `audio_utils_fifo_base`: `Sum`,
`Diff` and the number of frames `Lost`, over `uint32_t` indices taken modulo
`IndexMod` (2^32 in the code, 8 or 32 under TLC, any multiple of the rounded
capacity in the proofs).  `IndexOf(n)` is the reference: the index that the n-th
frame ever written ought to have.

`Fifo.tla` is the protocol.  The shared state is what the code shares: the two
futex words (`rear`, `front`) and the sample buffer (`buf`, which remembers the
number of the frame stored in each slot).  `wr` and `rd[r]` are the private
fields of `audio_utils_fifo_writer` and `audio_utils_fifo_reader`, together with
the local variables of the call in progress (`call`) and the place in it (`pc`).
`shut` holds the processes that see `mIsShutdown`: it is a plain `bool`, one per
process, so within one process the other side may see it late
(`ShutdownSeen`), and in another process never.

| action | code |
|---|---|
| `WObtain`, `RObtain` | entry of `obtain()`, `write()`, `read()`, `available()`, `flush()` |
| `WLoadThrottled`, `WLoadUnthrottled`, `RLoad` | one turn of the loop up to the futex call, and the end of `obtain()` |
| `WWait`, `RWait` | `FUTEX_WAIT`: compare the word and sleep, atomically in the kernel |
| `WTimeout`, `WSignal`, `RTimeout`, `RSignal` | the futex call returns `ETIMEDOUT`, `EINTR` |
| `WRelease`, `RRelease` | the client fills or reads its slice, then `release()` up to the load of the partner's index |
| `WStore`, `RStore` | `release()`: publish the own index, update the hysteresis, decide about waking |
| `WWake`, `RWake` | `FUTEX_WAKE` |
| `WReleaseTooMany`, `RReleaseTooMany` | `release()` of more than was obtained: `shutdown()` |
| `WResize`, `WSetHysteresis`, `RSetHysteresis`, `RJoin` | the calls of these names; construction of a reader |

`BoundedStream.tla` is the abstract specification: a stream of numbered frames
of which at most the capacity are in flight.  `StreamSpec` says that the FIFO
with a throttling reader implements it, the queue being read from the buffer
between the two shared indices: the step that publishes an index is the `Put` or
`Get`, everything else stutters.

Bounds.  Capacity 3 in a buffer of 4 indices is the smallest one with a wasted
offset; 8 index values (two generations) make both indices wrap within a
behaviour of 7 frames.  An overtaken reader needs more generations: in
`records` it has 16 index values and 6 frames, two trips round the buffer, and is one
of two readers, with flush or without.  One writer is all the code allows, and
so is one throttling reader.  The clients of a blocking reader, in `devices`, mix
timed, infinite and non-blocking calls with whole and partial releases.  They may set
levels of hysteresis, but then only the first frames are followed (`MCLevelsEarly`): what
that run checks of the FIFO does not depend on the levels.

Fairness (`FairFifoSpec`): the kernel schedules the thread of each side, and the
clients keep calling `write()` and `read()` in a loop as those of
`tests/fifo_tests.cpp` and `tests/fifo_threads.cpp` do.  No fairness is assumed of timeouts
or signals, and none of the client's other calls.  `EveryFrameIsRead` and
`EveryCommandRuns` say that again and again nothing is left over (or the command
thread quits), instead of one `~>` per frame or command.  As a behaviour of the model
has finitely many of them and none is taken back, that is the same claim.

What the model shows besides its properties, or leaves to the reader:

* `fifo_hysteresis` finds a wakeup lost to a stale fill level: `release()`
  computes the level before it publishes its own index.
* Without a throttling reader nobody is woken at all: the writer wakes waiters on
  its own word only when there is a front to compare with, so a reader of that
  kind has to poll or to use a timeout.
* After a retry of the futex call (`EWOULDBLOCK`, line 260) `obtain()` keeps the
  raw -1 of that call (`SyscallFailed`) and may return it, -1 being none of the errors that
  `fifo.h:271-280` documents.  `ErrorsAreListed` says when: only to a writer whose
  size was lowered below what is filled, so that the reader's release changes the
  word and still leaves no room.  In every other case the error is a documented one.
* After `shutdown()` a `release()` of frames obtained earlier still publishes.
* `available()` of a flushing reader that was overtaken moves its front while the
  slice obtained earlier is still to be released.  `ReadersBehindWriter` holds for
  the clients of the runs, whose flushing reader does not call it.
* A reader that lags a whole turn of the 32-bit indices is told too few lost
  frames: `diff()` cannot tell the turns apart.

## CommandThread

`CommandThread.tla` has one action for each critical section of
`CommandThread.h`.  `commands` and `scheduled` are the two containers, `worker`
and `waiter` say where the threads are, and `wakeAt` is the deadline the worker
sleeps with.  `Iterate` is one turn of `threadLoop()` from the test of `mQuit`
to the next point where the lock is given up, with its four outcomes: end, run a
command, sleep with a deadline, sleep without.  Notifications wake a thread only
if it waits; wakeups may also be spurious.  A command is a number, in the order of
`add()`; its being run is one interval in which everything else can happen, calls
from within the command included.

The hard part is that `add()` notifies sparingly: only for the first command of
an empty queue, or for a new earliest time when the queue is empty.
`WorkerSleepsOnlyWithoutWork` and `EveryCommandRuns` say that this is enough, and
`RunsInOrder` and `EachCommandInOnePlace` that moving delayed commands to the
queue neither loses nor reorders any.

Bounds: 4 commands with delays of 0, 1 or 2, a clock of 3 values, one waiter.
Four commands are enough for one running, one queued and two delayed ones of
different or equal time.  Fairness: the worker and woken waiters are scheduled,
commands return, the clock goes on; nothing of spurious wakeups, `add()` or
`quit()`.

Worth knowing: after `quit()`, `wait_for_all_tasks()` returns while a command may
still be running (lines 191-196: its predicate is true once `mQuit` is).
`WaitCoversEarlierCommands` is stated without `quit()` for that reason.

## TimerQueue

`TimerQueue.tla` has per clock the two containers of `AlarmClock` (`events`,
`index`) and the time its timerfd is armed for.  The thread's loop is cut where
others can come in: `EpollReturns`, `Read` (which blocks while the timer has not
expired since it was last set, as a timerfd without `TFD_NONBLOCK` does), the
clock being read after it (`seen`), `Collect` under the lock, then one `RunEvent`
after another outside of it.  `AddEvent`, `RemoveEvent` and `Destroy` are the client's
critical sections; a function that is being run may add and remove, too.  The
system may be suspended between a return to epoll and the next expiry, and the
alarm timer wakes it.  `Created` says which timerfds could be created.

Bounds: 3 events (2 in the violation runs) out of a request with one deadline
and one with two, the one between the other two, and a clock of 4 values.
Three are needed for one event being collected, one behind it and one added
before it.  Fairness: the thread is scheduled and functions return, the clock
goes on, the alarm hardware works.

`timer_read` shows the one way in which an event is not run: between
`epoll_wait()` and `read()` a `remove()` disarms the timer that was returned, and
the thread blocks in `read()`; the other clock is then not served.
`EventsRunUnlessReadBlocks` says that nothing else can go wrong.

Worth knowing, and outside of the runs: a time at or below 0 disarms a timer
instead of expiring at once (line 146); when the alarm timer cannot be created,
`ready()` is still true and events on that clock never run (line 381).  Both are described here only.

`remove()` of an event that is collected, but has not yet run, returns false, and the
event runs after it (line 357), although `TimerQueue.h:219` promises that an event
not yet executed "will be removed and will not be called": `timer_remove`.
`RunsOnceOrNever` is about the events for which `remove()` returned true.

## Camera metadata

`CameraMetadata.tla` is the packet: its entries, each with the tag, count and the
union that is a value or an offset, the data area as an array of 8-byte words,
the counts, capacities, and the sorted flag.  `memory` is the size of the
allocation, which `copy_camera_metadata()` needs.  A value stands for all bytes of
a payload, and word k of it is `<<value, k>>`, so that a payload that is cut,
shifted or overwritten in part no longer reads as a value (`ValueOf`).  All
operations are single steps: the library has no threads.  `Sort` is `qsort()`,
which may leave entries of one tag in any order, and `BinarySearch` follows
`bsearch()` of the C library, which is external.

`TagList.tla` is what a client sees: a list of tagged values per packet.
`ListSpec` says that every operation changes these lists the way its name says,
through all moves of the data area.

Bounds: two packets, one with 3 entries and 24 bytes of data, one with 2 and 4;
an int32 tag and an int64 tag, counts 1 and 3, so that data takes 0, 8, 16 or 24
bytes; two values; at most four entries in all (`MCFewEntries`).  Three entries
in one packet are what it takes to have data before, at and behind a change.

Appending to an empty packet that is marked sorted leaves it marked sorted,
whatever is appended (`camera_append`); the run `records` is about clients that
append only sorted packets there (`SortedIsFilled`).  An update to `data_count` 0
of an entry whose data was out of line leaves the offset in the entry, and
`validate_camera_metadata_structure()` then rejects the packet (line 935 against
601-607): the counts of the runs are positive.

Not in the model: the vendor tag operations and the type table (a tag has a size),
the `user` bytes, buffers from outside that are validated before use, and packets
at an address that is not aligned.

## Audio routes

`AudioRoute.tla` first reads the XML file tag by tag (`TopCtl`, `BeginPath`,
`PathCtl`, `SubPath`, `EndPath`), then `Loaded` is the end of `audio_route_init()`,
and the routing calls follow.  `state[c]` is `struct mixer_state` of a control:
`old`, `new` and `reset` values and `active_count`; `hw` is what the mixer has,
which is external.  Controls are integers (all values are sent), enums (only the
first) or byte controls of variable length.  `held` and `paired` are not in the
code: they count the applications of each path that were not reset, and remember
whether the calls on the paths of a control have paired so far.

The properties speak of controls on which calls pair: every reset undoes an
earlier application, with no plain `audio_route_apply_path()` in between.  All
calls are in the model nevertheless, and a `ForceResetAndUpdate` starts afresh.

Every call goes through the settings of a path one after the other (`ForEach`), and
`Done` is what it does to the control of one setting: in `path_apply()`,
`path_reset()`, or `audio_route_update_path()` with its direction.

Bounds: all files of up to 5 tags with two paths and three controls, then all
sequences of calls with at most 2 open applications per path.

Worth knowing, and outside of the properties:

* For a byte control of variable length only the first `byte_size` bytes of the
  new value are compared (lines 905-911), so a value that is a prefix of the
  last one is not sent, against the comment in line 1074; the byte values of the
  run differ in their first byte.
* `audio_route_reset()` does not clear `active_count` (970-983).
* What is in a `<path>` without a name goes to the path before it (643).
* The results of `mixer_ctl_set_*()` are ignored.
* When two paths set one control differently, the later value stays when the
  later path is reset first: `new` is taken back from `old`.

## Audio mutexes

`AudioMutex.tla` has the mutexes (`owner`), and for each thread the notes that
`mutex.h` keeps: `held` is `atomic_stack`, `mutex_wait` and `other_wait` what the
thread says it waits for.  Locking takes three steps (order check and note,
acquisition, `post_lock()`), unlocking two, a condition wait five, as in the
code, so that another thread or the watchdog may come in between.  Threads also
wait for a queue served by another thread, join one, time out, and end.
`dog` is `deadlock_detection()`: it reads the notes of the thread it was asked
about, then the stacks of all threads one after the other in any order, then
follows the chain.  `doomed` remembers whether there was a deadlock when it
started.

Bounds: 3 threads, 3 mutexes of different order, stacks of depth 2, so that a
thread can hold more than it notes.  The watchdog changes nothing, so its calls
are followed only where there is a deadlock to find; and one thread at a time is in a
call with a timeout, none during a call of the watchdog (`MCDeadlockOnly`).

A lock against the order aborts the process; the model leaves such a call out
(`MayLock`), and so `NoMutexCycle` is about processes that were not aborted.
It does not hold when clients keep an inner mutex over a condition wait on an
outer one (`mutex_nested`): the wait takes its mutex again without a check.

Worth knowing: a waiter that was notified and waits for its mutex is still noted
as waiting for its notifier, so a deadlock through it is missed;
`DeadlockIsFound` speaks of the others.  While the predicate of `wait()` is
evaluated the mutex is not noted as held.  The comment on
`top_` in line 741 says that it ranges from 0 to N - 1; it ranges to N.

Abstractions: one update of a stack, and the reading of one stack, is one step
(the code writes item and size one after the other); spurious wakeups are left
out, as a wait with a predicate goes back to sleep; a condition wait is one that
ends when its condition is met.

## Radio metadata

`RadioMetadata.tla` has the block behind each of the client's pointers, word by
word: the header, the entries from word 4 on, and from the end downwards the
offset of each entry and one more, that of the next free word.  A word says what
was stored in it (`EntryWord`), so that one which is overwritten, or read at a
wrong offset, does not read as an entry.  `Grow` is the doubling of the size until
an entry fits and the move of the index to the new end.  `add_metadata` is the function behind the four functions for integers, texts, raw data and
clocks (`AddEntry`); `AddMetadata` adds the entries of one buffer to another, one after
the other, until one does not fit (`AddAll`).
`realloc()` is external; it may refuse any size from some one on (`Memory`), and
then an append stops in the middle.

`RadioList.tla` is the client's view: a list of entries per buffer.  `RadioListSpec`
says that growing keeps the list, that an addition that fails leaves it as it is, and
that an append which fails leaves a prefix of what it should have added.
`BuiltBuffersPassCheck` says that `radio_metadata_check()` accepts what these
functions built; that is the check a receiver of the block makes, with bounds of
its own.

Bounds: two buffers, a first size of 8 words and a last one of 32, so that a buffer
grows twice and then is full; a key of each type, texts of an allowed and of a
forbidden length, raw values of 0 and of 3 bytes; at most three entries in all.

Worth knowing: a raw value of no bytes is accepted by the add function and may be
rejected by the check, which asks for four words per entry; `BuiltBuffersPassCheck`
leaves such buffers out.  `radio_metadata_add_metadata()` with an empty source and a
destination that exists returns a status that was never set.  Appending a buffer
to itself, whose entries may move during the loop, is left out, as is
`radio_metadata_get_from_key()`, a search over what `EntriesOf` reads.

## Sound dose

The path of a level has three pieces in the code, and three modules.

`MelWindow.tla` is the control of `process()`: how calls of any length are cut into
windows of one second, when the rate or the number of channels changes in between.
`mCurrentSamples` counts samples, and `updateAudioFormat()` keeps it.  `mel_format`
shows that a window is never completed again when the count is no multiple of the
new number of channels: each call then ends early, with a number of samples left
that rounds down to none.  The arithmetic is that of `size_t`; 256 values
stand for its range, and a window is 3 or 5 frames.

`MelProcessor.tla` is what happens to a level: `AddMelValue` collects runs of levels
from RS1 on and puts at most two reports into the ring; `TestFull`, `FillSlot`,
`Publish` and `Notify` are the steps of that, against the worker's
`MelWorkerStart`, `MelWorkerLoop` and `MelWorkerReturn`.  The worker waits without a predicate, and `notify()` does
not take the mutex, so a notification between the worker's look at the ring and
its wait is lost.  The report then stays until the next one is notified;
`drainAndWait()` notifies again with every poll, and stopping waits for a worker that
is notified after the stop flag is set.  `CallersReturn` says that this is enough for
both; that every report is made promptly is not so, and not claimed.
`ReportQueue.tla` is the abstract queue that the ring implements (`MelQueueSpec`).
`ReportsWhatIsDue` says which reports are due, from the history of levels alone,
except for how a stretch of loud levels is cut in which processing was paused: `pause()`
keeps the run collected so far, so that a report may join levels with a pause between
them, which the header calls "time-continuous" (`MelProcessor.h:51`, `:122`).
`mel_pause` shows it (`RunsAreContinuous`; `breaks` remembers the pauses).
Fairness: the worker is scheduled and callbacks return, `drainAndWait()` goes on
polling, the destructor goes on.  Bounds: 3 levels (4 in `mel_pause`) out of three
kinds (below RS1, from RS1 on, above the upper bound), one pause, a ring of 3 places,
runs of 2.

Worth knowing: a stop drops what is still in the ring.  Left out: the
port and device of a report, and a worker whose callback object is gone.

`MelAggregator.tla` is the dose: `aggregateAndAddNewMelRecord()` merges a record of
levels into those stored, which may overlap it (`Aggregated`), converts the oldest
seconds into records of dose (`Convert`), and drops what has left the window
(`Expire`).  A level is the dose that it gives in a second, so that the sum of
levels is an addition; the logarithms are left out.  `LevelsAreSums` compares the
records of levels with `pending`, which adds the levels of all streams up for each second:
whatever the overlaps, a second is in one record, with the sum.  It says nothing of the
doses made of them.  `csd_sum` shows what goes wrong there: of two records with the
same timestamp only one is stored, and the current CSD has both, for ever.
Bounds: a window of 4 seconds, records of one or two seconds that start in 4
places, doses of 1 and 4 with records of at least 6, and 4 calls between two
`reset()`; a new record that is split by a stored one occurs in the run.

Worth knowing: `reset()` with given records empties the records of levels and leaves
`mCurrentMelRecordsCsd` as it was, although that is to be the "Current CSD value in
mMelRecords" (`MelAggregator.h:143`), so that the next record may be converted before it
holds the least dose; the model does as the code does, and no property relies on it.  Left out: `averageMel`, port ids, the returned vectors.

## The S/PDIF link

`SpdifLink.tla` has `SPDIFEncoder` and `SPDIFDecoder` at the two ends of a wire.
`WriteHeader` is the part of `write()` from the scanned frame header to the start
of its payload, with the decision whether the frame begins a burst
(`isFirstInBurst`) and the flush of the last one; `WritePayload` takes any number
of the words pending, so calls of `write()` may be cut anywhere.  `Read` is a call of
`read()`, which `Fill`, `Scan` and `ReadPayload` go through until `Done` returns.
`Fill(n)` is a `readInput()` that has n words, any number up to what was asked for, and
`FillFails` one that has none or fails.
`wire` is what the encoder's `writeOutput()` and the decoder's `readInput()` share in the
model, where the program has a device; it is external.

`LinkDelivers` has three parts.  `PayloadConserved` says that each word of a frame is at
one place, in order, at any moment: taken by a `read()`, in the decoder's ring, on the
wire, or in the burst that is being filled, however bursts are cut into refills of the
ring.  `BurstsComplete` says that a burst of E-AC3 has the frames of six blocks of every
substream (2 here), and one of AC3 a frame.  `CallIntact` says that the client's buffer
begins with what its call has taken, as long as that is of one burst (`OneBurst`).

A call that meets a second burst puts its payload where it does not belong
(`spdif_read`).  With AC3 the ring has room for several bursts.  With E-AC3 it has
room for one, but after an input that ends within a burst it may hold the end of this and
the beginning of the next, and the same happens: the run meets both cases.

Nothing is said of `PayloadConserved` once the decoder was reset with words in its ring
(`stale`): `reset()` keeps them, and `SPDIFDecoder.h:66` says "Discard any data in
the buffer".

Bounds: bursts of 10 words (5 for AC3), frames of one or two words with a header of
one, two substreams, nine frames, which begin a third burst, reads of 7 words that
do not divide a burst, inputs of 7 words, or none.

Worth knowing: lengths are in words of 16 bits; a `read()` of an odd number of bytes counts
its last byte twice.  `read()` returns -1 when `readInput()` fails, and the client
never learns of the payload that the call has taken before.  A frame longer than a burst clears the buffer, and its
rest goes into the next one without a preamble; the frames here fit.  Only
substream 0 is counted.  Left out: DTS, damaged headers and the search for the next
sync word, dependent substreams, and a `writeOutput()` that takes nothing, with which
`write()` would not end.

## Runs

`tlc -config X.cfg M` for each line; state counts are distinct states.

| run | configuration | states | shows |
|---|---|---|---|
| `devices` | `MCDevices` | 1 107 000 | FIFO with a blocking reader: disjoint slices, intact frames, the effective size, documented errors, refinement of `BoundedStream`; S/PDIF: the payload of complete E-AC3 bursts is taken as it was sent, with inputs that end within a burst; dose: each second in one record; mutexes: notes agree, no cycle, deadlocks found |
| `workers` | `MCWorkers` | 270 000 | `CommandThread`: each command once, in order, sparing notifications suffice, all return; `MelProcessor`: the reports due, the ring as a queue, callers return; FIFO: no futex wake is lost at the default levels, every frame is read; `TimerQueue`: containers in step, once or never, timers armed, due events run, the destructor returns |
| `records` | `MCRecords` | 494 000 | camera packets: valid, packed, exact search, refinement of `TagList`; radio buffers: pass their check, refinement of `RadioList`; FIFO with overtaken readers and clients that release too much: lost frames counted, nothing overwritten handed out by `obtain()`; routes: counts exact, shared controls kept, idle ones reset |
| `fifo_hysteresis` | `MCFifo_hysteresis` | | violation: a wakeup lost to a stale level |
| `timer_read` | `MCTimerQueue_read` | | violation: the thread blocks in `read()` |
| `timer_remove` | `MCTimerQueue_remove` | | violation: an event runs after `remove()` of it |
| `camera_append` | `MCCameraMetadata_append` | | violation: search in a packet wrongly marked sorted |
| `mutex_nested` | `MCAudioMutex_nested` | | violation: a condition wait inverts the order |
| `csd_sum` | `MCMelAggregator_sum` | | violation: two records of dose with one timestamp |
| `spdif_read` | `MCSpdifLink_read` | | violation: the second burst of a read is misplaced |
| `mel_format` | `MCMelWindow_format` | | violation: no level after a change of channels |
| `mel_pause` | `MCMelProcessor_pause` | | violation: levels before and after a pause in one report |

What a violation run contradicts is quoted in `PROJECT.json` under "findings".
`mel_format` is under the fairness that `process()` is called again and again.
Deadlock is not checked where the bounds or the program itself make it stop: the
FIFO and the threads run out of frames, commands, levels or events, and the mutex
model is about processes that deadlock.  In `records` it is checked: the packed records
and the routes always have a further call, and the FIFO's clients one that does not block.

Symmetry is used for values, pointers, path names and threads, in runs without
liveness.  In a sum the permutations of one part act on all of them; as the other
parts are constants of the behaviour, that stays sound.

Some definitions are there for readers and for proofs, and not run: `TypeOK` of
`CommandThread` and `CameraMetadata`, `TimerTypeOK`, `RouteTypeOK` (proved), `FifoTypeOK` (proved,
and run as a part of `IndInv`), `NoControlTwice` of `AudioRoute` (proved; a control that is set twice in a path is found by
`IdleControlsAreReset`).

## Proofs

Proved for every value of the constants, bounds included; the lemmas about indices
come first in `FifoProofs.tla`.

| module | theorem | states |
|---|---|---|
| `FifoProofs` | `TypeCorrect` | `FifoSpec => [](FifoTypeOK /\ ReleasesWithinSlice)` |
| | `Invariant` | `FifoSpec => []IndInv` |
| | `Disjoint` | `FifoSpec => []SlicesDisjoint` |
| | `LappedReaders` | `FifoSpec => []IndicesMatchTotals`, if `FlushersDoNotAsk` and `[]LessThanATurnBehind` |
| | `ReadersStayBehind` | `FifoSpec => []ReadersBehindWriter`, under the same conditions |
| | `NewestOnly` | `FifoSpec => NothingOverwrittenIsHandedOut`, under the same conditions |
| | `EffectiveSizeKept` | `FifoSpec => ObtainRespectsEffectiveSize` |
| | `NoWakeIsLost` | `FifoSpec => []NoLostWakeup`, if `DefaultLevels` |
| | `FramesIntact` | `FifoSpec => []UnreadFramesIntact` |
| | `Refinement` | `FifoSpec => StreamSpec`: the FIFO implements `BoundedStream`, if it is `Throttled` |
| `CommandThreadProofs` | `TypeCorrect` | `Spec => []TypeOK` |
| | `InOnePlace` | `Spec => []EachCommandInOnePlace` |
| | `RunInOrder` | `Spec => []RunsInOrder` |
| | `SleepsOnlyWithoutWork` | `Spec => []WorkerSleepsOnlyWithoutWork` |
| | `WaitCovers` | `Spec => []WaitCoversEarlierCommands` |
| `MelProcessorProofs` | `RingIsQueue` | `MelSpec => MelQueueSpec`: the ring implements `ReportQueue` |
| `TimerQueueProofs` | `TypeCorrect` | `TimerSpec => []TimerTypeOK` |
| | `ContainersAgree` | `TimerSpec => []IndexAgrees` |
| | `OnceOrNever` | `TimerSpec => []RunsOnceOrNever` |
| | `ArmedForNext` | `TimerSpec => []TimerArmedForNext` |
| `CameraMetadataProofs` | `TypeCorrect` | `Spec => []TypeOK` |
| | `DataStaysPacked` | `Spec => []DataPacked` |
| | `StructureStaysValid` | `Spec => []StructureValid`, if `0 \notin UpdateCounts` |
| | `FindStaysExact` | `Spec => []FindIsExact`, if `SortedIsFilled` |
| | `PacketsAreLists` | `Spec => ListSpec`: packets implement `TagList` |
| `AudioRouteProofs` | `TypeCorrect` | `RouteSpec => []RouteTypeOK` |
| | `EachControlOnce` | `RouteSpec => []NoControlTwice` |
| | `CountsAreExact` | `RouteSpec => []ActiveCountExact` |
| | `SharedAreKept` | `RouteSpec => SharedControlsAreKept` |
| | `PlainAreSettled` | `RouteSpec => []PlainControlsSettle`: the next two, for each control that is sent whole |
| | `AllAreSettled` | `RouteSpec => []SettledControls`, if all controls are `Plain` |
| | `IdleAreReset` | `RouteSpec => []IdleControlsAreReset`, if all controls are `Plain` |
| `AudioMutexProofs` | `Invariant` | `MutexSpec => []IInv`: every thread is `ThreadOK` |
| | `NotesRight` | `MutexSpec => []NotesAreRight` |
| | `NoCycle` | `MutexSpec => []NoMutexCycle`, if `~ NestedWaits`, orders differ and `Threads` is finite |
| | `DeadlocksFound` | `MutexSpec => []DeadlockIsFound`, if `Threads` is finite |
| `RadioMetadataProofs` | `BuffersPassCheck` | `RadioSpec => []BuiltBuffersPassCheck` |
| | `MetadataIsList` | `RadioSpec => RadioListSpec`: radio metadata implements `RadioList` |

**FIFO, positions.**  The lemmas `SumIndexOf` and `DiffIndexOf` say that `Sum` and
`Diff` compute on indices what addition and subtraction compute on frame numbers;
they rest on `IndexForm`, which splits an index into generation and offset.  The
second one needs that positions differ by at most the capacity, which is what makes
the wrap harmless; but that is the very property to be proved.  So the invariant
`IndInv` joins them: the shared words are the images of the positions
(`ThrottledIndices`), the slices are disjoint (`SlicesDisjoint`), and a release
in progress lies within its slice (`ReleasesWithinSlice`).  None is inductive
without the others.  The proof that a step preserves it has a lemma for what a
side may do to its position (`WriterObtains`, `WriterReleases`, `ReaderObtains`,
`ReaderReleases`), and then a step per action.  The run `devices` checks `IndInv` as
an invariant.

**FIFO, contents.**  `FramesInv` extends what the property says from the frames that
have been released to those of a release in progress, which are in the buffer before
`rear` says so.  Two positions less than the capacity apart are in different
slots, so a copy into the writer's slice meets no frame that can still be read.
With that, a release of the writer appends to the abstract stream, one of the
reader removes from its front, and every other step leaves it alone.

**FIFO, overtaken readers.**  Now positions differ by any number, and the indices say
only how many trips round the buffer lie between them, modulo the `Trips` that a
turn of the indices has.  `LostIndexOf` says that `Lost` is
what the reader missed, and `JumpIndexOf` that the front to which it jumps is the
index of the position with that much added; both rest on `Apart`, the difference of
two indices.  `FollowInv` says that each reader's front is the index of what it has
released or lost, and that its slice ends behind the writer.  Two conditions are
needed.  A reader may not fall a whole turn of the indices behind
(`LessThanATurnBehind`): it would take the old index for the new one and count too
few frames; 2^32 indices are a day of sound at 48 kHz.  And a flushing reader
may not call `available()` (`FlushersDoNotAsk`), which moves its front over frames that it
has still to release.  The constants of the run `records` meet both.

**FIFO, effective size.**  The guard of the last turn of `obtain()` is computed from the
indices; that they tell the fill level is `IndInv`, and nothing more is needed,
whatever the size was when the frames were obtained.

**FIFO, wakes.**  At the levels that the constructors set, each release makes its side
wake the other (`WriterWakes`, `ReaderWakes`): the fill level that `release()` computed is less than
full for the writer, and covers the slice for the reader.  It may be stale, but only
in the direction that does no harm.  Between the load and the futex call the word is
compared with what was seen, and it differs as soon as the other side has published.
At other levels this is false, as `fifo_hysteresis` shows, and a client that has shut
the FIFO down by releasing too much publishes without waking; `DefaultLevels` excludes both, and
sizes below the capacity.

**Commands.**  The queue and the map of delayed commands are taken as one sequence,
`Places`.  `add()` inserts the youngest command into it, the worker takes one from
the front of either part, and `quit()` cuts the rest.  Order is kept because the
map is sorted by time, and within one time by age (`MapSorted`): that is what
`upper_bound()` in `add()` provides.  That the least index which it computes exists
is by well-foundedness of the naturals.  `WorkerSleepsOnlyWithoutWork` is
inductive with the types and the order: `add()` may leave out a notification only where the worker
is awake or has a deadline that is early enough.

**Ring of the dose reports.**  The invariant `RingInv` says that the writer, once it
has seen room, keeps it until it publishes, for the reader only gives slots
back; and that the reader is within a slot that has been published.  So neither
meets the other in a slot, and the slots between the two indices are the queue.

**Timers.**  The three properties of the queue, with its types, are inductive as they
stand (`TimerInv`).  The work is in the index of a clock, a multimap taken as a
sequence: `InsertAgrees` says that what `emplace()` puts at its upper bound leaves
it in order, and `WithoutAgrees` that `erase()` leaves the other entries, each once
and in their order.  `Without` is a recursive function over the prefixes of the
sequence.  That it exists, and what it leaves, is shown by induction over sets of
naturals (`UpTo`), which follows from their well-foundedness.  A timer stays early
enough where `add()` does not arm it because the new event is not the first
(`IsNext`), and where `remove()` does not because the event it takes out was not
the first; what goes from the index behind its head changes no head.

**Camera packets.**  Every operation is first a lemma about one packet (`AddedKeeps`,
`UpdatedKeeps`, `DeletedKeeps`, `PermutedKeeps`, `AppendedKeeps`, `ClonedKeeps`,
`CopiedKeeps`), with two conclusions: the payloads still tile the data, and each
entry that was there reads as before (`SameEntry`).  Neither can be had without
the other.  A payload is moved with its neighbours only if the offsets behind the
gap are those greater than that of the payload that went, which is so because
payloads do not overlap; and it is not overwritten by a new one because that goes
behind `data_count`, where no payload ends.  A tiling is a set of payloads with
their begins and lengths (`Tiles`), and there is a lemma for each change of one:
one taken out and the gap closed, one more at the end, all of another behind,
another order.  `Without` is a packet between two halves of an operation, when the
entry at work has no payload any more.

`CameraInv` adds to it what the two conditional theorems need.  An entry without
a value holds no offset: updates to `data_count` 0 break this, as the section on
camera metadata says, so `StructureStaysValid` excludes them and nothing else does;
packing and reading are proved with them.  And a packet marked sorted is in order:
appending an unsorted packet to an empty one marked sorted breaks this, as the run
`camera_append` shows, and `FindStaysExact` excludes it.  That `bsearch()` then
finds a tag if and only if it is there (`SearchLocates`) is by induction on the
length of the range, its halves being shorter (`Halves`).

The refinement adds that entries that read the same make the same lists, an
operation at a time (`ListsAdded` to `ListsEmpty`), so that each action is the step
of `TagList` its name says, on the list of its packet alone.

**Audio routes.**  A call changes the controls of a path in order, by a recursive
function.  As no control is in a path twice (`SettingsOK`), it changes each of them
once, from the value it had (`ForEachEffect`, `TwoPasses`).  That is shown by
writing the function down directly (`Walk`) and an induction over the settings;
the same fact is what keeps a use from being counted twice.  What remains is about one
control (`ForwardEffect`, `ReverseEffect`, `ReverseResetEffect` and the others): its
invariant says that its count is the number of open applications (`ControlOK`), which
needs the lemmas on sums `TotalUp` and `TotalDown`; that what is remembered of the
mixer is so; and, once loaded, that the old value is the new one, and the reset
value if the count is 0 (`LoadedOK`).  The last two hold only of a control that is
always sent whole (`Plain`): integers, and controls of one value.  Of an enum of
several values the mixer is given the first only, and of a byte control of variable
length a value that is a prefix of the last one is not sent, as the section on
audio routes says; so for those the two theorems are false without further
conditions on the file, and TLC checks them where the byte values differ in their
first byte.  Counts and shared controls need no such condition.

**Audio mutexes.**  `NotesAreRight` is about threads outside of a call.  Within one a
mutex may be owned and not yet noted, or noted and not yet given back, and the wait
for it noted too early or too late.  `ThreadOK` says for each place of a call which
(`NotesOK`, `WaitOK`).  That an unlock out of order finds its mutex is a fact about
the stack (`PushedOK`, `RemovedOK`): it has no mutex twice, only what is owned, and
has counted all of it, those beyond its depth too.  No order is needed for this, so
it holds with nested condition waits.

`NoCycle` adds that what is in a stack ascends, and that a thread waits for a mutex
above all of it (`OrderOK`); a stack that has not overflowed has all that is owned.  In a cycle of threads, each
would wait for a mutex above the one that the thread before it waits for; the
mutex with the highest order has no successor.  The nested waits of `mutex_nested`
are excluded, for there a thread waits for a mutex below one that it holds.

`DeadlocksFound` is about a walk over notes that change while they are read.  Its
invariant, `DogOK`, says that from the call on there is a set of threads, each of which
waits without a timeout for another one of the set (`Closed`) with a stack that
has not overflowed; that no step of any
thread takes one out; that once a thread of the set has been read, what it holds is
in `mutex_to_tid` and stays there; and so the walk does not leave the set.  As
threads are finitely many, it comes to one that it has visited.

**Radio metadata.**  A buffer is in order (`BufferOK`) if the offsets in its index
ascend by the lengths of the entries, the data ends before the index (`Ordered`),
and every entry is all there (`Filled`).  `Keeps` says what no call may disturb: the
offsets, counted from the end, and every word before the next free one.  The
growth of the block keeps them though it moves the index (`GrowKeeps`), and an
addition does, because the new words and the new offset lie in the gap for which `check_size()` has
counted (`RoomMade`, `PutKeeps`).  That the entries which passed fit at four words each
is a sum over them, carried along as `Spread`.  For the refinement, an entry
that is read back and stored again reads the same (`ReadsBack`), and the loop of an
append, a recursive function, adds a prefix of the source (`AppendsPart`), by induction
over the entries done.

Assumed is what the constructors check (`IndexAssumption`, `FifoAssumption`), the
assumptions of `CommandThread` on its constants, and `MelAssumption`: ring and run
have at least one place, a level is an integer, and a bound for momentary exposure
is never negative (`MelProcessor.cpp:48`, `:180`, `MelProcessor.h:41`, `:174`); that requests of
timers have integer times; that the sizes of types are 1, 4 or 8, tags, counts
and capacities are natural numbers, and a payload that is all zero is not among the
values (`CameraAssumption`); and that a control has at least one value, a tag of the
file no more values than its control and for integers all of them, and that there
are finitely many names of paths (`AudioRouteAssumption`); and that mutexes have an
order, stacks a depth of at least one, and the two values for "none" are no thread and
no mutex (`AudioMutexAssumption`); that a radio buffer has room for its header, can
be doubled, and gets to its largest size in at most twelve doublings
(`RadioAssumption`; 64 words and 64 * 2^12 in the code).  Sizes of packets have no upper limit: the products
and sums of `camera_metadata.c` are taken not to overflow.  All
hold of the constants in the runs.  Nothing is assumed about the bounds of a model;
except where the table names a condition, the proofs cover misuse, shutdown, signals, hysteresis, resizing, `quit()` and
spurious wakeups.

Checked by TLC only: all liveness, which levels are due in a dose report, the sums
of levels (`LevelsAreSums`), and the S/PDIF link (`LinkDelivers`).  Liveness under fairness is out of the reach of the prover used.
So are its library's induction theorems, whose parameters are operators; what
`Without`, `BinarySearch`, `WithSubPath`, `ForEach` and `AddAll` compute is proved by an induction over sets instead,
which has to be laid out again for each recursive function.  That has not been
done for the folds of the community modules, over which the sums of
`MelAggregator` and `SpdifLink` are defined.

## What is not modelled

* Of the FIFO: the modes for a single thread and for sleeping without a futex
  (`SYNC_SINGLE_THREADED`, `SYNC_SLEEP`), the deferred index references that
  `fifo_index.cpp` keeps under `#if 0`, and the writer template
  `fifo_writer_T.cpp`.
* Of `CommandThread`: that `wait_until()` is given a reference to a key of
  `mScheduledCommands`, which `quit()` may erase during the wait (line 254).  The
  model takes the deadline by value; the standard library may read it again when
  it wakes, and what it then does is not in the source.
* Of `TimerQueue`: the statistics in `mHandleInfos`, which are written without the
  lock under which they are read, and the log; times at or below 0.
* Of `mutex.h`: statistics, the registry's storage, `fair_mutex`, and the priority
  inheritance that the kernel provides.
* Of the sound dose and the S/PDIF link: what their sections leave out.
* Components that are tables, numeric kernels, device or file access, or thin
  wrappers; `PROJECT.json` names each of them with its files and the reason.  They
  are most of the repository's lines: the camera tag tables and the assertions
  about them, the audio constants, `intrinsic_utils.h` and the other
  kernels, `Metadata.h`.  None of these has a step that another could
  come between, and a transition system would only restate the tables.
* Memory models weaker than sequential consistency, and failures of allocation
  other than that of `realloc()` in the radio metadata.

## Plan

Done, in this order: FIFO with its abstract stream and proofs; `CommandThread`;
`TimerQueue`; camera metadata with its abstract list; audio routes; audio mutexes;
radio metadata with its abstract list; sound dose with its abstract queue; the
S/PDIF link; the sums that check components together.

Modules that may follow, each as a further part of a sum:

1. `FairMutex` of `mutex.h`, and `DeferredExecutor`: calls to `defer()` and
   `process()` from within a deferred functor.
2. `TimestampVerifier`: precedence of pending discontinuities.
3. `linked_hash_map` as a map with an order; the ring of `echo_reference`; the
   buffering of `resampler.c` between provider and client.

Next theorems, in order of weight: `LevelsAreSums` of the sound dose and `LinkDelivers` of
the S/PDIF link, which both need the folds of the community modules.
