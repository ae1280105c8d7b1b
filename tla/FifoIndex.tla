----------------------------- MODULE FifoIndex -----------------------------
(* The index arithmetic of audio_utils_fifo_base (src/audio_utils/fifo.cpp). *)
(*                                                                           *)
(* An index is a uint32_t whose low bits are the offset of a frame in the    *)
(* buffer and whose high bits count the trips round the buffer.  When the    *)
(* capacity is no power of two, the offsets FrameCount .. FrameCountP2 - 1   *)
(* name no frame: they are "wasted" and every sum has to step over them.     *)
(* Definitions introduced by "Slip" are wrong on purpose: TLC is run with    *)
(* one in place of its neighbour to see that a property notices.             *)
(* IndexMod stands for 2^32, so that TLC meets the wrap.                     *)
EXTENDS Integers

CONSTANTS
  FrameCount,     \* mFrameCount, the capacity
  FrameCountP2,   \* mFrameCountP2 = roundup(mFrameCount)
  IndexMod        \* 2^32: indices are added and subtracted modulo this

ASSUME IndexAssumption ==
  /\ FrameCount \in Nat \ {0}
  /\ FrameCountP2 \in Nat
  /\ FrameCount =< FrameCountP2 /\ FrameCountP2 < 2 * FrameCount
  /\ IndexMod \in Nat
  /\ IndexMod % FrameCountP2 = 0 /\ 2 * FrameCountP2 =< IndexMod

Index == 0 .. IndexMod - 1

\* The errors that obtain() is documented to return, as -errno.
EINTR       == -4
EIO         == -5
EWOULDBLOCK == -11
EOVERFLOW   == -75
ETIMEDOUT   == -110
Errors == {EINTR, EIO, EWOULDBLOCK, EOVERFLOW, ETIMEDOUT}

\* What a system call returns when it fails.  obtain() replaces it by -errno, but
\* for a wait that it tries again.
SyscallFailed == -1
Outcomes == Errors \cup {SyscallFailed}

\* mFudgeFactor
Fudge == FrameCountP2 - FrameCount

\* index & mask, and index & ~mask
Offset(index)     == index % FrameCountP2
Generation(index) == index - Offset(index)

\* Slip: the frame after the last one still gets an index.
SumOffByOne(index, increment) ==
  LET skip == IF Offset(index) + increment > FrameCount THEN Fudge ELSE 0
  IN  (index + increment + skip) % IndexMod

\* Slip: the index is kept in a wider type and never wraps.
SumUnwrapped(index, increment) ==
  index + increment + IF Offset(index) + increment >= FrameCount THEN Fudge ELSE 0

\* audio_utils_fifo_base::sum
Sum(index, increment) ==
  LET skip == IF Offset(index) + increment >= FrameCount THEN Fudge ELSE 0
  IN  (index + increment + skip) % IndexMod

GenDiff(rear, front) == (Generation(rear) - Generation(front)) % IndexMod

\* An offset among the wasted indices: diff() shuts the FIFO down.
Corrupt(rear, front) == Offset(rear) >= FrameCount \/ Offset(front) >= FrameCount

\* rear - front without the indices wasted in between, when the writer is at
\* most one generation ahead.
Unread(rear, front) ==
  (rear - front - (IF GenDiff(rear, front) > 0 THEN Fudge ELSE 0)) % IndexMod

TooManyGenerations(rear, front) == Fudge > 0 /\ GenDiff(rear, front) > FrameCountP2

\* Slip: the check after skipping the wasted indices is forgotten.
DiffOneCheck(rear, front) ==
  IF Corrupt(rear, front) THEN EIO
  ELSE IF TooManyGenerations(rear, front) THEN EOVERFLOW
  ELSE Unread(rear, front)

\* audio_utils_fifo_base::diff of a FIFO that is not shut down
Diff(rear, front) ==
  IF Corrupt(rear, front) THEN EIO
  ELSE IF TooManyGenerations(rear, front) \/ Unread(rear, front) > FrameCount
  THEN EOVERFLOW
  ELSE Unread(rear, front)

\* Slips: the wasted indices count as lost frames; the frames flushed do not.
LostWithWasted(rear, front, flush) ==
  IF Diff(rear, front) # EOVERFLOW THEN 0
  ELSE (rear - front - IF flush THEN 0 ELSE FrameCount) % IndexMod

\* What diff() stores in *lost: on overflow the frames that the reader will
\* never get, given that it keeps the newest FrameCount ones unless it flushes.
Lost(rear, front, flush) ==
  LET kept == IF flush THEN 0 ELSE FrameCount
  IN  IF Corrupt(rear, front) THEN 0
      ELSE IF TooManyGenerations(rear, front)
      THEN (rear - front - kept
              - Fudge * (GenDiff(rear, front) \div FrameCountP2)) % IndexMod
      ELSE IF Unread(rear, front) > FrameCount
      THEN (Unread(rear, front) - kept) % IndexMod
      ELSE 0

\* The buffer slot of the i-th frame of the slice that begins at index: the
\* first iovec runs from the offset to the end of the buffer, the second one
\* from slot 0.
Slice(index, i) ==
  LET part1 == FrameCount - Offset(index)
  IN  IF i < part1 THEN Offset(index) + i ELSE i - part1

-----------------------------------------------------------------------------
(* The reference: frames are numbered 0, 1, 2, ... in the order the writer   *)
(* releases them, and frame n has this index.                                *)
IndexOf(n) ==
  (FrameCountP2 * (n \div FrameCount) + (n % FrameCount)) % IndexMod
=============================================================================
