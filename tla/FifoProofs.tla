---------------------------- MODULE FifoProofs ----------------------------
(* Theorems about FifoIndex and Fifo, for every capacity, index width, set   *)
(* of readers and set of calls.                                              *)
EXTENDS Fifo, TLAPS

-----------------------------------------------------------------------------
(* Arithmetic *)

\* Division with remainder.
LEMMA DivMod ==
  ASSUME NEW m \in Nat \ {0}, NEW x \in Int
  PROVE  /\ x \div m \in Int /\ x % m \in 0 .. m - 1
         /\ x = m * (x \div m) + (x % m)
OBVIOUS

\* ... has only one result.
LEMMA ModUnique ==
  ASSUME NEW m \in Nat \ {0}, NEW t \in 0 .. m - 1, NEW k \in Int
  PROVE  (t + m * k) % m = t
<1> DEFINE x == t + m * k
           q == x \div m
<1>0. x \in Int
  OBVIOUS
<1>1. x = m * q + (x % m) /\ q \in Int /\ x % m \in 0 .. m - 1
  BY <1>0, DivMod
<1>2. q = k
  <2>1. CASE q > k
    <3>1. m * q >= m * (k + 1) BY <2>1, <1>1
    <3> QED BY <3>1, <1>1
  <2>2. CASE q < k
    <3>1. m * q =< m * (k - 1) BY <2>2, <1>1
    <3> QED BY <3>1, <1>1
  <2> QED BY <2>1, <2>2, <1>1
<1> QED BY <1>1, <1>2

\* Products, for the cases that are not linear.
LEMMA Products ==
  ASSUME NEW x \in Int, NEW y \in Int, NEW z \in Int
  PROVE  /\ x * y \in Int /\ x * z \in Int
         /\ x * (y - z) = x * y - x * z
         /\ x * (y + z) = x * y + x * z
         /\ (x * y) * z = x * (y * z)
OBVIOUS

\* The constants, without the divisibility that only IndexForm needs.
LEMMA Constants ==
  /\ FrameCount \in Nat \ {0} /\ FrameCountP2 \in Nat \ {0} /\ IndexMod \in Nat \ {0}
  /\ FrameCount =< FrameCountP2 /\ 2 * FrameCountP2 =< IndexMod
BY IndexAssumption

\* The number of a frame and its index, taken apart: trips round the buffer,
\* offset, and the multiples of 2^32 that were cut off.
LEMMA IndexForm ==
  ASSUME NEW n \in Nat
  PROVE  \E a \in Int, b \in 0 .. FrameCount - 1, k \in Int :
            /\ n = FrameCount * a + b
            /\ IndexOf(n) = FrameCountP2 * a + b - IndexMod * k
            /\ IndexOf(n) \in Index
            /\ Offset(IndexOf(n)) = b
<1> USE Constants
<1> DEFINE a == n \div FrameCount
           b == n % FrameCount
           x == FrameCountP2 * a + b
           k == x \div IndexMod
           g == IndexMod \div FrameCountP2
<1>1. a \in Int /\ b \in 0 .. FrameCount - 1 /\ n = FrameCount * a + b
  BY DivMod
<1>2. x \in Int
  BY <1>1
<1>3. k \in Int /\ x % IndexMod \in 0 .. IndexMod - 1 /\ x = IndexMod * k + (x % IndexMod)
  BY <1>2, DivMod
<1>4. IndexOf(n) = x % IndexMod
  BY DEF IndexOf
<1>5. g \in Int /\ IndexMod = FrameCountP2 * g
  BY DivMod, IndexAssumption
<1>6. IndexOf(n) = b + FrameCountP2 * (a - g * k)
  <2>0. a \in Int /\ k \in Int /\ g \in Int /\ g * k \in Int
    BY <1>1, <1>3, <1>5, Products
  <2> HIDE DEF a, k, g
  <2>1. IndexMod * k = FrameCountP2 * (g * k)
    BY <2>0, <1>5, Products
  <2>2. FrameCountP2 * (a - g * k) = FrameCountP2 * a - FrameCountP2 * (g * k)
    BY <2>0, Products
  <2>3. FrameCountP2 * a \in Int /\ FrameCountP2 * (g * k) \in Int
    BY <2>0, Products
  <2> QED BY <2>1, <2>2, <2>3, <1>1, <1>3, <1>4
<1>7. Offset(IndexOf(n)) = b
  <2>1. b \in 0 .. FrameCountP2 - 1 /\ a - g * k \in Int
    BY <1>1, <1>3, <1>5
  <2> HIDE DEF a, b, x, k, g
  <2> QED BY <1>6, <2>1, ModUnique DEF Offset
<1>8. IndexOf(n) = FrameCountP2 * a + b - IndexMod * k /\ IndexOf(n) \in Index
  <2>1. x = FrameCountP2 * a + b
    OBVIOUS
  <2> HIDE DEF a, b, x, k, g
  <2>2. FrameCountP2 * a \in Int /\ IndexMod * k \in Int
    BY <1>1, <1>3, Products
  <2> QED BY <2>1, <2>2, <1>1, <1>3, <1>4 DEF Index
<1> HIDE DEF a, b, x, k, g
<1> QED BY <1>1, <1>3, <1>7, <1>8

\* sum() adds frames: the wasted indices are stepped over (fifo.cpp:52-68).
LEMMA SumIndexOf ==
  ASSUME NEW w \in Nat, NEW n \in 0 .. FrameCount
  PROVE  Sum(IndexOf(w), n) = IndexOf(w + n)
<1> USE Constants
<1>0. w + n \in Nat
  OBVIOUS
<1>1. PICK a \in Int, b \in 0 .. FrameCount - 1, k \in Int :
         /\ w = FrameCount * a + b
         /\ IndexOf(w) = FrameCountP2 * a + b - IndexMod * k
         /\ IndexOf(w) \in Index
         /\ Offset(IndexOf(w)) = b
  BY IndexForm
<1>2. PICK a2 \in Int, b2 \in 0 .. FrameCount - 1, k2 \in Int :
         /\ w + n = FrameCount * a2 + b2
         /\ IndexOf(w + n) = FrameCountP2 * a2 + b2 - IndexMod * k2
         /\ IndexOf(w + n) \in Index
         /\ Offset(IndexOf(w + n)) = b2
  BY <1>0, IndexForm
<1>3. (b + n < FrameCount => a2 = a /\ b2 = b + n)
      /\ (b + n >= FrameCount => a2 = a + 1 /\ b2 = b + n - FrameCount)
  <2>1. FrameCount * (a2 - a) = b + n - b2
    <3>1. FrameCount * (a2 - a) = FrameCount * a2 - FrameCount * a
      OBVIOUS
    <3> QED BY <3>1, <1>1, <1>2
  <2>2. a2 - a < 2
    <3>1. a2 - a >= 2 => FrameCount * (a2 - a) >= FrameCount * 2
      OBVIOUS
    <3> QED BY <3>1, <2>1
  <2>3. a2 - a > -1
    <3>1. a2 - a =< -1 => FrameCount * (a2 - a) =< FrameCount * (-1)
      OBVIOUS
    <3> QED BY <3>1, <2>1
  <2>4. CASE a2 = a
    BY <2>4, <2>1
  <2>5. CASE a2 = a + 1
    BY <2>5, <2>1
  <2> QED BY <2>2, <2>3, <2>4, <2>5
<1>4. Sum(IndexOf(w), n) = (IndexOf(w + n) + IndexMod * (k2 - k)) % IndexMod
  <2> DEFINE skip == IF b + n >= FrameCount THEN Fudge ELSE 0
  <2>1. /\ IndexMod * (k2 - k) = IndexMod * k2 - IndexMod * k
        /\ IndexMod * k2 \in Int /\ IndexMod * k \in Int
    BY Products
  <2>2. /\ FrameCountP2 * (a + 1) = FrameCountP2 * a + FrameCountP2
        /\ FrameCountP2 * a \in Int
    BY Products
  <2>3. IndexOf(w) + n + skip = IndexOf(w + n) + IndexMod * (k2 - k)
    <3>1. CASE b + n < FrameCount
      BY <3>1, <1>1, <1>2, <1>3, <2>1, <2>2
    <3>2. CASE b + n >= FrameCount
      BY <3>2, <1>1, <1>2, <1>3, <2>1, <2>2 DEF Fudge
    <3> QED BY <3>1, <3>2
  <2>4. Sum(IndexOf(w), n) = (IndexOf(w) + n + skip) % IndexMod
    BY <1>1 DEF Sum
  <2> HIDE DEF skip
  <2> QED BY <2>3, <2>4
<1>5. k2 - k \in Int /\ IndexOf(w + n) \in 0 .. IndexMod - 1
  BY <1>2 DEF Index
<1>6. (IndexOf(w + n) + IndexMod * (k2 - k)) % IndexMod = IndexOf(w + n)
  BY <1>5, ModUnique
<1> QED BY <1>4, <1>6

\* diff() returns the number of unread frames when they fit, whatever the
\* generations, the offsets and the wraps of the two indices (fifo.cpp:70-121).
LEMMA DiffIndexOf ==
  ASSUME NEW w \in Nat, NEW f \in Nat, f =< w, w - f =< FrameCount
  PROVE  /\ ~ Corrupt(IndexOf(w), IndexOf(f))
         /\ Diff(IndexOf(w), IndexOf(f)) = w - f
         /\ \A flush : Lost(IndexOf(w), IndexOf(f), flush) = 0
<1> USE Constants
<1>1. PICK a \in Int, b \in 0 .. FrameCount - 1, k \in Int :
         /\ w = FrameCount * a + b
         /\ IndexOf(w) = FrameCountP2 * a + b - IndexMod * k
         /\ IndexOf(w) \in Index
         /\ Offset(IndexOf(w)) = b
  BY IndexForm
<1>2. PICK c \in Int, d \in 0 .. FrameCount - 1, j \in Int :
         /\ f = FrameCount * c + d
         /\ IndexOf(f) = FrameCountP2 * c + d - IndexMod * j
         /\ IndexOf(f) \in Index
         /\ Offset(IndexOf(f)) = d
  BY IndexForm
<1>3. \/ a = c /\ w - f = b - d
      \/ a = c + 1 /\ w - f = FrameCount + b - d
  <2>1. FrameCount * (a - c) = (w - f) - b + d
    <3>1. FrameCount * (a - c) = FrameCount * a - FrameCount * c
      OBVIOUS
    <3> QED BY <3>1, <1>1, <1>2
  <2>2. a - c < 2
    <3>1. a - c >= 2 => FrameCount * (a - c) >= FrameCount * 2
      OBVIOUS
    <3> QED BY <3>1, <2>1
  <2>3. a - c > -1
    <3>1. a - c =< -1 => FrameCount * (a - c) =< FrameCount * (-1)
      OBVIOUS
    <3> QED BY <3>1, <2>1
  <2>4. CASE a = c
    BY <2>4, <2>1
  <2>5. CASE a = c + 1
    BY <2>5, <2>1
  <2> QED BY <2>2, <2>3, <2>4, <2>5
<1>4. ~ Corrupt(IndexOf(w), IndexOf(f))
  BY <1>1, <1>2 DEF Corrupt
<1>5. /\ IndexMod * (j - k) = IndexMod * j - IndexMod * k
      /\ IndexMod * j \in Int /\ IndexMod * k \in Int
      /\ FrameCountP2 * (a - c) = FrameCountP2 * a - FrameCountP2 * c
      /\ FrameCountP2 * a \in Int /\ FrameCountP2 * c \in Int
      /\ FrameCountP2 * (c + 1) = FrameCountP2 * c + FrameCountP2
  BY Products
<1>6. /\ GenDiff(IndexOf(w), IndexOf(f)) = FrameCountP2 * (a - c)
      /\ FrameCountP2 * (a - c) = (IF a = c THEN 0 ELSE FrameCountP2)
  <2> DEFINE t == FrameCountP2 * (a - c)
  <2>1. Generation(IndexOf(w)) - Generation(IndexOf(f)) = t + IndexMod * (j - k)
    BY <1>1, <1>2, <1>5 DEF Generation
  <2>2. t = IF a = c THEN 0 ELSE FrameCountP2
    BY <1>3
  <2>3. t \in 0 .. IndexMod - 1
    BY <2>2
  <2> HIDE DEF t
  <2>4. (t + IndexMod * (j - k)) % IndexMod = t
    BY <2>3, ModUnique
  <2>5. GenDiff(IndexOf(w), IndexOf(f)) = t
    BY <2>1, <2>4 DEF GenDiff
  <2> QED BY <2>2, <2>5 DEF t
<1>7. ~ TooManyGenerations(IndexOf(w), IndexOf(f))
  BY <1>6 DEF TooManyGenerations
<1>8. Unread(IndexOf(w), IndexOf(f)) = w - f
  <2> DEFINE skip == IF GenDiff(IndexOf(w), IndexOf(f)) > 0 THEN Fudge ELSE 0
  <2>1. IndexOf(w) - IndexOf(f) - skip = (w - f) + IndexMod * (j - k)
    <3>1. CASE a = c
      BY <3>1, <1>1, <1>2, <1>3, <1>5, <1>6
    <3>2. CASE a = c + 1
      BY <3>2, <1>1, <1>2, <1>3, <1>5, <1>6 DEF Fudge
    <3> QED BY <3>1, <3>2, <1>3
  <2>2. w - f \in 0 .. IndexMod - 1
    <3>1. w - f \in Nat /\ w - f =< FrameCount
      OBVIOUS
    <3>2. FrameCount < IndexMod /\ IndexMod \in Nat /\ FrameCount \in Nat
      BY Constants
    <3> DEFINE u == w - f
    <3> HIDE DEF u
    <3>3. u \in Nat /\ u =< FrameCount => u \in 0 .. IndexMod - 1
      BY <3>2
    <3> QED BY <3>1, <3>3 DEF u
  <2>3. Unread(IndexOf(w), IndexOf(f)) = (IndexOf(w) - IndexOf(f) - skip) % IndexMod
    BY DEF Unread
  <2>4. j - k \in Int
    OBVIOUS
  <2>5. ((w - f) + IndexMod * (j - k)) % IndexMod = w - f
    <3> DEFINE u == w - f
               z == j - k
    <3>1. u \in 0 .. IndexMod - 1 /\ z \in Int /\ IndexMod \in Nat \ {0}
      BY <2>2, <2>4, Constants
    <3> HIDE DEF u, z
    <3>2. (u + IndexMod * z) % IndexMod = u
      BY <3>1, ModUnique
    <3> QED BY <3>2 DEF u, z
  <2> HIDE DEF skip
  <2> QED BY <2>1, <2>3, <2>5
<1> QED BY <1>4, <1>7, <1>8 DEF Diff, Lost

-----------------------------------------------------------------------------
(* Types *)

\* The results of the index operators.
LEMMA IndexTypes ==
  ASSUME NEW i \in Index, NEW j \in Index, NEW n \in Nat, NEW flush
  PROVE  /\ Sum(i, n) \in Index
         /\ Diff(i, j) \in 0 .. FrameCount \cup {EIO, EOVERFLOW}
         /\ Lost(i, j, flush) \in Nat
<1> USE Constants
<1>1. \A x \in Int : x % IndexMod \in Index
  BY DivMod DEF Index
<1>2. \A x \in Int, m \in Nat \ {0} : x % m \in Int /\ x \div m \in Int
  BY DivMod
<1>3. /\ i \in Int /\ j \in Int /\ Fudge \in Int
      /\ Offset(i) \in Int /\ Offset(j) \in Int
      /\ Generation(i) \in Int /\ Generation(j) \in Int
  BY <1>2 DEF Index, Offset, Generation, Fudge
<1>4. Sum(i, n) \in Index
  <2> DEFINE skip == IF Offset(i) + n >= FrameCount THEN Fudge ELSE 0
             x    == i + n + skip
  <2>1. skip \in Int
    BY <1>3
  <2>2. x \in Int
    <3> HIDE DEF skip
    <3> QED BY <2>1, <1>3
  <2>3. Sum(i, n) = x % IndexMod
    BY DEF Sum
  <2> HIDE DEF x
  <2> QED BY <1>1, <2>2, <2>3
<1>5. GenDiff(i, j) \in Int
  BY <1>2, <1>3 DEF GenDiff
<1>6. Unread(i, j) \in Index
  <2>1. PICK skip \in {0, Fudge} : Unread(i, j) = (i - j - skip) % IndexMod
    BY DEF Unread
  <2>2. i - j - skip \in Int
    BY <1>3, <2>1
  <2> QED BY <1>1, <2>1, <2>2
<1>7. Diff(i, j) \in 0 .. FrameCount \cup {EIO, EOVERFLOW}
  BY <1>6 DEF Diff, Index
<1>8. Lost(i, j, flush) \in Nat
  <2> DEFINE kept == IF flush THEN 0 ELSE FrameCount
             gens == GenDiff(i, j) \div FrameCountP2
  <2>1. kept \in Int /\ gens \in Int
    BY <1>2, <1>5
  <2> HIDE DEF kept, gens
  <2>2. Fudge * gens \in Int
    BY <2>1, <1>3, Products
  <2>3. (i - j - kept - Fudge * gens) % IndexMod \in Index
    <3>1. i - j - kept - Fudge * gens \in Int
      BY <1>3, <2>1, <2>2
    <3> QED BY <1>1, <3>1
  <2>4. (Unread(i, j) - kept) % IndexMod \in Index
    <3>1. Unread(i, j) - kept \in Int
      BY <1>6, <2>1 DEF Index
    <3> QED BY <1>1, <3>1
  <2> QED BY <2>3, <2>4 DEF Lost, Index, kept, gens
<1> QED BY <1>4, <1>7, <1>8

\* diff() and *lost as a process sees them, and the flag it may set.
LEMMA DiffTypes ==
  ASSUME NEW i \in Index, NEW j \in Index, NEW p \in Processes, shut \subseteq Processes
  PROVE  /\ DiffBy(p, i, j) \in 0 .. FrameCount \cup {EIO, EOVERFLOW}
         /\ LostBy(p, i, j) \in Nat
         /\ ShutByDiff(p, i, j) \subseteq Processes
<1>1. DiffBy(p, i, j) \in 0 .. FrameCount \cup {EIO, EOVERFLOW}
  BY IndexTypes DEF DiffBy
<1>2. LostBy(p, i, j) \in Nat
  BY IndexTypes DEF LostBy
<1> QED BY <1>1, <1>2 DEF ShutByDiff

\* The parts of the type invariant: shared memory, the writer, one reader.
SharedOK ==
  /\ rear \in Index /\ front \in Index
  /\ buf \in [0 .. FrameCount - 1 -> Nat \cup {-1}]
  /\ shut \subseteq Processes

WriterOK(w) == w \in WriterState /\ (w.pc = "store" => w.call.count =< w.obtained)

ReaderOK(r, m) ==
  m \in ReaderState /\ (m.pc = "store" => r = Throttler /\ m.call.count =< m.obtained)

TypeInv ==
  /\ SharedOK /\ WriterOK(wr)
  /\ rd \in [Readers -> ReaderState] /\ \A r \in Readers : ReaderOK(r, rd[r])

LEMMA TypeInvParts == TypeInv <=> FifoTypeOK /\ ReleasesWithinSlice
BY DEF TypeInv, SharedOK, WriterOK, ReaderOK, FifoTypeOK, ReleasesWithinSlice

\* A step of one reader leaves the others as they were.
LEMMA OneReader ==
  ASSUME TypeInv, NEW r \in Readers, NEW m, ReaderOK(r, m), rd' = [rd EXCEPT ![r] = m]
  PROVE  /\ rd' \in [Readers -> ReaderState]
         /\ \A q \in Readers : ReaderOK(q, rd'[q])
BY DEF TypeInv, ReaderOK

-----------------------------------------------------------------------------
(* The local variables of a call *)

LEMMA CallType == Call \in CallState
<1>1. 0 \in Index /\ 0 \in 0 .. kRetries
  BY Constants DEF Index, kRetries
<1> QED BY <1>1 DEF Call, CallState

LEMMA NewCallType ==
  ASSUME NEW op \in {"obtain", "write", "read", "available", "flush"}, NEW n \in Nat,
         NEW t \in {"none", "finite", "forever"}
  PROVE  [Call EXCEPT !.op = op, !.count = n, !.timeout = t, !.retries = kRetries]
           \in CallState
<1>1. kRetries \in 0 .. kRetries
  BY DEF kRetries
<1> QED BY <1>1, CallType DEF CallState

LEMMA AfterWaitType ==
  ASSUME NEW c \in CallState, NEW e \in Outcomes \cup {0}
  PROVE  AfterWait(c, e) \in CallState
BY DEF CallState, AfterWait

LEMMA AfterWouldBlockType ==
  ASSUME NEW c \in CallState
  PROVE  AfterWouldBlock(c) \in CallState
<1> DEFINE t == IF c.timeout = "forever" THEN "none" ELSE c.timeout
<1>1. t \in {"none", "finite", "forever"}
  BY DEF CallState
<1>2. SyscallFailed \in Outcomes /\ EWOULDBLOCK \in Outcomes
  BY DEF Outcomes, Errors
<1>3. CASE c.retries > 0
  <2>1. c.retries - 1 \in 0 .. kRetries
    BY <1>3 DEF CallState, kRetries
  <2>2. AfterWouldBlock(c) = [c EXCEPT !.retries = @ - 1, !.err = SyscallFailed, !.timeout = t]
    BY <1>3 DEF AfterWouldBlock
  <2> HIDE DEF t
  <2> QED BY <1>1, <1>2, <2>1, <2>2 DEF CallState
<1>4. CASE ~ (c.retries > 0)
  BY <1>2, <1>4 DEF AfterWouldBlock, CallState
<1> QED BY <1>3, <1>4

LEMMA MinType ==
  ASSUME NEW m \in Nat, NEW a \in 0 .. m, NEW b \in Nat
  PROVE  MinOf(a, b) \in 0 .. m /\ MinOf(a, b) \in 0 .. b /\ MinOf(a, b) =< a
BY DEF MinOf

LEMMA TypeInit == FifoInit => TypeInv
<1> SUFFICES ASSUME FifoInit PROVE TypeInv
  OBVIOUS
<1>0. 0 \in Index
  BY Constants DEF Index
<1>1. SharedOK
  BY <1>0, Constants DEF FifoInit, SharedOK
<1>2. WriterOK(wr)
  BY <1>0, Constants, CallType DEF FifoInit, WriterOK, WriterState
<1>3. rd \in [Readers -> ReaderState] /\ \A r \in Readers : ReaderOK(r, rd[r])
  BY <1>0, Constants, CallType DEF FifoInit, ReaderOK, ReaderState
<1> QED BY <1>1, <1>2, <1>3 DEF TypeInv

-----------------------------------------------------------------------------
(* The writer keeps the types *)

LEMMA WFinishType ==
  ASSUME wr \in WriterState, NEW avail \in 0 .. FrameCount, NEW err \in Outcomes \cup {0},
         WFinish(avail, err)
  PROVE  WriterOK(wr') /\ wr'.obtained =< avail
<1> DEFINE n == MinOf(avail, wr.call.count)
<1>1. n \in 0 .. FrameCount /\ n =< avail
  BY Constants, MinType DEF WriterState, CallState
<1>2. (IF n > 0 THEN n ELSE err) \in Nat \cup Outcomes
  BY <1>1
<1> HIDE DEF n
<1> QED BY <1>1, <1>2, CallType DEF WFinish, WriterOK, WriterState, n

LEMMA WriterTypes ==
  ASSUME TypeInv, WriterNext
  PROVE  TypeInv'
<1> USE DEF TypeInv, SharedOK
<1>0. wr \in WriterState /\ wr.call \in CallState
  BY DEF WriterOK, WriterState
<1>e. {EIO, EINTR, ETIMEDOUT, 0} \subseteq Outcomes \cup {0}
  BY DEF Outcomes, Errors
<1>p. Writer \in Processes
  BY DEF Processes
<1>1. CASE WObtain
  <2>1. PICK c \in WriterCalls :
          wr' = [wr EXCEPT !.pc = "load",
                           !.call = [Call EXCEPT !.op = c[1], !.count = c[2],
                                                 !.timeout = c[3], !.retries = kRetries]]
    BY <1>1 DEF WObtain
  <2>2. c[1] \in {"obtain", "write"} /\ c[2] \in Nat /\ c[3] \in {"none", "finite", "forever"}
    BY FifoAssumption
  <2>3. WriterOK(wr')
    BY <1>0, <2>1, <2>2, NewCallType DEF WriterOK, WriterState
  <2> QED BY <2>3, <1>1 DEF WObtain
<1>2. CASE WLoadThrottled
  <2> DEFINE filled == DiffBy(Writer, wr.localRear, front)
             avail  == IF wr.effective > filled THEN wr.effective - filled ELSE 0
  <2>1. /\ filled \in 0 .. FrameCount \cup {EIO, EOVERFLOW}
        /\ shut' \subseteq Processes
    BY <1>0, <1>2, <1>p, DiffTypes DEF WLoadThrottled, WriterState
  <2>2. WriterOK(wr')
    <3>1. CASE filled < 0 /\ WFinish(0, filled)
      <4>1. filled \in Outcomes \cup {0} /\ 0 \in 0 .. FrameCount
        BY <2>1, <3>1, Constants DEF Outcomes, Errors
      <4> QED BY <1>0, <3>1, <4>1, WFinishType
    <3>2. CASE filled >= 0 /\ WFinish(avail, wr.call.err)
      <4>1. avail \in 0 .. FrameCount /\ wr.call.err \in Outcomes \cup {0}
        BY <1>0, <2>1, <3>2, Constants DEF WriterState, CallState, EIO, EOVERFLOW
      <4> QED BY <1>0, <3>2, <4>1, WFinishType
    <3>3. CASE wr' = [wr EXCEPT !.pc = "wait", !.call.seen = front]
      BY <1>0, <3>3 DEF WriterOK, WriterState, CallState
    <3> QED BY <1>2, <3>1, <3>2, <3>3 DEF WLoadThrottled
  <2> QED BY <1>2, <2>1, <2>2 DEF WLoadThrottled
<1>3. CASE WLoadUnthrottled
  <2>1. WFinish(0, EIO) \/ WFinish(wr.effective, 0)
    BY <1>3 DEF WLoadUnthrottled
  <2>2. wr.effective \in 0 .. FrameCount /\ 0 \in 0 .. FrameCount
    BY <1>0, Constants DEF WriterState
  <2>3. WriterOK(wr')
    BY <1>0, <1>e, <2>1, <2>2, WFinishType
  <2> QED BY <1>3, <2>3 DEF WLoadUnthrottled
<1>4. CASE WWait
  <2>1. WriterOK(wr')
    BY <1>0, <1>4, AfterWouldBlockType DEF WWait, WriterOK, WriterState
  <2> QED BY <1>4, <2>1 DEF WWait
<1>5. CASE WTimeout
  <2>1. WriterOK(wr')
    BY <1>0, <1>5, <1>e, AfterWaitType DEF WTimeout, WriterOK, WriterState
  <2> QED BY <1>5, <2>1 DEF WTimeout
<1>6. CASE WSignal
  <2>1. WriterOK(wr')
    BY <1>0, <1>6, <1>e, AfterWaitType DEF WSignal, WriterOK, WriterState
  <2> QED BY <1>6, <2>1 DEF WSignal
<1>7. CASE WRelease
  <2>1. PICK n \in 0 .. wr.obtained : WReleaseOf(n)
    BY <1>0, <1>7 DEF WRelease, WriterState
  <2>2. n \in Nat /\ n =< wr.obtained
    BY <1>0, <2>1 DEF WriterState
  <2>3. DiffBy(Writer, wr.localRear, front) \in Nat \cup Errors
    BY <1>0, <1>p, DiffTypes DEF WriterState, Outcomes, Errors
  <2>4. EIO \in Nat \cup Errors
    BY DEF Outcomes, Errors
  <2>5. WriterOK(wr')
    BY <1>0, <2>1, <2>2, <2>3, <2>4 DEF WReleaseOf, WriterOK, WriterState, CallState
  <2>6. shut' \subseteq Processes
    BY <1>0, <1>p, <2>1, DiffTypes DEF WReleaseOf, WriterState
  <2>7. buf' \in [0 .. FrameCount - 1 -> Nat \cup {-1}]
    <3>1. \A s : (\E i \in 0 .. n - 1 : Slice(wr.localRear, i) = s)
                 => Written + (CHOOSE i \in 0 .. n - 1 : Slice(wr.localRear, i) = s) \in Nat
      BY <1>0, <2>2 DEF Written, WriterState
    <3> QED BY <2>1, <3>1 DEF WReleaseOf, FillSlots
  <2> QED BY <2>1, <2>5, <2>6, <2>7 DEF WReleaseOf
<1>8. CASE WReleaseTooMany
  BY <1>8, <1>p DEF WReleaseTooMany
<1>9. CASE WStore
  <2>1. wr.call.count \in Nat /\ wr.localRear \in Index /\ wr.obtained \in 0 .. FrameCount
        /\ wr.totalReleased \in Nat /\ wr.call.count =< wr.obtained
    BY <1>0, <1>9 DEF WStore, WriterOK, WriterState, CallState
  <2>2. Sum(wr.localRear, wr.call.count) \in Index
    BY <2>1, IndexTypes
  <2>3. wr.obtained - wr.call.count \in 0 .. FrameCount
        /\ wr.totalReleased + wr.call.count \in Nat
    <3> DEFINE o == wr.obtained
               c == wr.call.count
               t == wr.totalReleased
    <3>1. c \in Nat /\ o \in 0 .. FrameCount /\ t \in Nat /\ c =< o /\ FrameCount \in Nat
      BY <2>1, Constants
    <3> HIDE DEF o, c, t
    <3>2. o - c \in 0 .. FrameCount /\ t + c \in Nat
      BY <3>1
    <3> QED BY <3>2 DEF o, c, t
  <2>4. WriterOK(wr')
    BY <1>0, <1>9, <2>2, <2>3, CallType DEF WStore, WriterOK, WriterState
  <2> QED BY <1>9, <2>2, <2>4 DEF WStore
<1>10. CASE WWake
  <2>1. WriterOK(wr')
    BY <1>0, <1>10 DEF WWake, WriterOK, WriterState
  <2>2. \A r \in Readers : ReaderOK(r, rd'[r])
    <3> SUFFICES ASSUME NEW r \in Readers PROVE ReaderOK(r, rd'[r])
      OBVIOUS
    <3>1. ReaderOK(r, rd[r]) /\ rd[r].call \in CallState
      BY DEF ReaderState
    <3>2. CASE rd[r].pc = "sleep"
      <4>1. rd'[r] = [rd[r] EXCEPT !.pc = "load", !.call = AfterWait(@, 0)]
        BY <1>10, <3>2 DEF WWake
      <4>2. AfterWait(rd[r].call, 0) \in CallState
        BY <1>e, <3>1, AfterWaitType
      <4> DEFINE m == [rd[r] EXCEPT !.pc = "load", !.call = AfterWait(@, 0)]
      <4>3. rd[r] \in ReaderState
        BY <3>1 DEF ReaderOK
      <4>4. m \in ReaderState
        BY <4>2, <4>3 DEF ReaderState
      <4>5. m.pc = "load"
        BY <4>3 DEF ReaderState
      <4>6. ReaderOK(r, m)
        BY <4>4, <4>5 DEF ReaderOK
      <4> QED BY <4>1, <4>6
    <3>3. CASE rd[r].pc # "sleep"
      BY <1>10, <3>1, <3>3 DEF WWake
    <3> QED BY <3>2, <3>3
  <2>3. rd' \in [Readers -> ReaderState]
    BY <1>10, <2>2 DEF WWake, ReaderOK
  <2> QED BY <1>10, <2>1, <2>2, <2>3 DEF WWake
<1>11. CASE WResize
  <2>1. PICK s \in Sizes :
          wr' = [wr EXCEPT
             !.effective = MinOf(s, FrameCount),
             !.armLevel = IF MinOf(s, FrameCount) < wr.effective
                          THEN MinOf(@, MinOf(s, FrameCount)) ELSE @,
             !.triggerLevel = IF MinOf(s, FrameCount) < wr.effective
                              THEN MinOf(@, MinOf(s, FrameCount)) ELSE @]
    BY <1>11 DEF WResize
  <2>2. s \in Nat
    BY FifoAssumption
  <2> DEFINE size  == MinOf(s, FrameCount)
             arm   == IF size < wr.effective THEN MinOf(wr.armLevel, size) ELSE wr.armLevel
             level == IF size < wr.effective THEN MinOf(wr.triggerLevel, size)
                                             ELSE wr.triggerLevel
  <2>3. size \in 0 .. FrameCount
    BY <2>2, Constants DEF MinOf
  <2>4. wr.armLevel \in 0 .. FrameCount /\ wr.triggerLevel \in 0 .. FrameCount
    BY <1>0 DEF WriterState
  <2>5. arm \in 0 .. FrameCount /\ level \in 0 .. FrameCount
    BY <2>3, <2>4, Constants DEF MinOf
  <2>6. wr' = [wr EXCEPT !.effective = size, !.armLevel = arm, !.triggerLevel = level]
    BY <2>1
  <2> HIDE DEF size, arm, level
  <2>7. WriterOK(wr')
    BY <1>0, <1>11, <2>3, <2>5, <2>6 DEF WResize, WriterOK, WriterState
  <2> QED BY <1>11, <2>7 DEF WResize
<1>12. CASE WSetHysteresis
  <2>1. PICK l \in WriterLevels :
          wr' = [wr EXCEPT !.isArmed = @ \/ MinOf(l[1], wr.effective) > wr.armLevel,
                           !.armLevel = MinOf(l[1], wr.effective),
                           !.triggerLevel = MinOf(l[2], wr.effective)]
    BY <1>12 DEF WSetHysteresis
  <2>2. l[1] \in Nat /\ l[2] \in Nat
    BY FifoAssumption
  <2> DEFINE arm   == MinOf(l[1], wr.effective)
             level == MinOf(l[2], wr.effective)
  <2>3. arm \in 0 .. FrameCount /\ level \in 0 .. FrameCount
    <3>1. wr.effective \in 0 .. FrameCount
      BY <1>0 DEF WriterState
    <3> QED BY <3>1, <2>2, Constants DEF MinOf
  <2>4. (wr.isArmed \/ arm > wr.armLevel) \in BOOLEAN
    BY <1>0 DEF WriterState
  <2> HIDE DEF arm, level
  <2>5. WriterOK(wr')
    BY <1>0, <1>12, <2>1, <2>3, <2>4 DEF WSetHysteresis, WriterOK, WriterState, arm, level
  <2> QED BY <1>12, <2>5 DEF WSetHysteresis
<1> QED BY <1>1, <1>2, <1>3, <1>4, <1>5, <1>6, <1>7, <1>8, <1>9, <1>10, <1>11, <1>12
        DEF WriterNext

-----------------------------------------------------------------------------
(* A reader keeps the types *)

LEMMA RFinishType ==
  ASSUME TypeInv, NEW r \in Readers, rd[r].pc = "load", RFinish(r)
  PROVE  \E m : ReaderOK(r, m) /\ rd' = [rd EXCEPT ![r] = m]
<1> DEFINE me     == rd[r]
           filled == DiffBy(r, rear, me.localFront)
           lost   == LostBy(r, rear, me.localFront)
           n      == IF filled < 0 THEN 0 ELSE MinOf(filled, me.call.count)
           caught == (rear - (IF r \in FlushReaders THEN 0 ELSE FrameCountP2)) % IndexMod
           again  == me.call.op \in {"read", "flush"} /\ n > 0
           ret    == IF n > 0 THEN n ELSE IF filled < 0 THEN filled ELSE me.call.err
           moved  == IF filled = EOVERFLOW THEN caught ELSE me.localFront
           held   == IF me.call.op = "available" THEN me.obtained ELSE n
           call   == [Call EXCEPT !.op = IF again THEN me.call.op ELSE "none"]
           next   == [me EXCEPT !.pc = IF again THEN "release" ELSE "idle",
                                !.localFront = moved, !.obtained = held,
                                !.totalLost = @ + lost, !.totalReleased = @ + lost,
                                !.ret = ret, !.call = call]
<1>1. me \in ReaderState /\ me.call \in CallState /\ me.localFront \in Index
      /\ me.obtained \in 0 .. FrameCount /\ me.call.count \in Nat
      /\ me.call.err \in Outcomes \cup {0} /\ me.totalLost \in Nat /\ me.totalReleased \in Nat
  BY DEF TypeInv, ReaderState, CallState
<1>2. r \in Processes /\ rear \in Index /\ shut \subseteq Processes
  BY DEF Processes, TypeInv, SharedOK
<1>3. filled \in 0 .. FrameCount \cup {EIO, EOVERFLOW} /\ lost \in Nat
  BY <1>1, <1>2, DiffTypes
<1>4. n \in 0 .. FrameCount
  BY <1>1, <1>3, Constants DEF MinOf, EIO, EOVERFLOW
<1>5. ret \in Nat \cup Outcomes
  BY <1>1, <1>3, <1>4, Constants DEF Outcomes, Errors
<1>6. moved \in Index
  <2>1. rear - (IF r \in FlushReaders THEN 0 ELSE FrameCountP2) \in Int
    BY <1>2, Constants DEF Index
  <2>2. caught \in Index
    BY <2>1, DivMod, Constants DEF Index
  <2> QED BY <1>1, <2>2
<1>7. held \in 0 .. FrameCount
  BY <1>1, <1>4
<1>8. call \in CallState
  <2>1. again => me.call.op \in {"read", "flush"}
    OBVIOUS
  <2> HIDE DEF again, me
  <2> QED BY <2>1, CallType DEF CallState
<1>9. me.totalLost + lost \in Nat /\ me.totalReleased + lost \in Nat
  BY <1>1, <1>3
<1>10. rd' = [rd EXCEPT ![r] = next]
  BY DEF RFinish
<1> HIDE DEF filled, lost, n, caught, again, ret, moved, held, call
<1>11. ReaderOK(r, next)
  BY <1>1, <1>5, <1>6, <1>7, <1>8, <1>9 DEF ReaderOK, ReaderState
<1> QED BY <1>10, <1>11

LEMMA ReaderTypes ==
  ASSUME TypeInv, NEW r \in Readers, ReaderNext(r)
  PROVE  TypeInv'
<1>0. /\ rd[r] \in ReaderState /\ rd[r].call \in CallState /\ rd[r].localFront \in Index
      /\ rd[r].obtained \in 0 .. FrameCount /\ rd[r].call.count \in Nat
      /\ rd[r].totalReleased \in Nat /\ rd[r].totalFlushed \in Nat
  BY DEF TypeInv, ReaderState, CallState
<1>s. SharedOK /\ WriterOK(wr) /\ ReaderOK(r, rd[r])
  BY DEF TypeInv
<1>e. {EINTR, ETIMEDOUT, 0} \subseteq Outcomes \cup {0}
  BY DEF Outcomes, Errors
<1>p. r \in Processes
  BY DEF Processes
<1>q. ASSUME NEW m, ReaderOK(r, m), rd' = [rd EXCEPT ![r] = m], SharedOK', WriterOK(wr')
      PROVE  TypeInv'
  BY <1>q, OneReader DEF TypeInv
<1>u. UNCHANGED <<rear, front, buf, shut, wr>> => SharedOK' /\ WriterOK(wr')
  BY <1>s DEF SharedOK
<1>1. CASE RJoin(r)
  <2> DEFINE m == [rd[r] EXCEPT !.pc = "idle",
                                !.localFront = IF r = Throttler THEN 0 ELSE rear,
                                !.start = IF r = Throttler THEN 0 ELSE Written]
  <2>1. 0 \in Index /\ rear \in Index /\ Written \in Nat
    BY <1>s, Constants DEF SharedOK, WriterOK, WriterState, Index, Written
  <2>2. ReaderOK(r, m)
    BY <1>0, <2>1 DEF ReaderOK, ReaderState
  <2> QED BY <1>1, <1>q, <1>u, <2>2 DEF RJoin
<1>2. CASE RObtain(r)
  <2>1. PICK c \in ReaderCalls :
          rd' = [rd EXCEPT ![r] =
                  [rd[r] EXCEPT !.pc = "load",
                            !.call = [Call EXCEPT !.op = c[1], !.count = c[2],
                                                  !.timeout = c[3], !.retries = kRetries]]]
    BY <1>2 DEF RObtain
  <2>2. /\ c[1] \in {"obtain", "read", "available", "flush"} /\ c[2] \in Nat
        /\ c[3] \in {"none", "finite", "forever"}
    BY FifoAssumption
  <2> DEFINE call == [Call EXCEPT !.op = c[1], !.count = c[2],
                                  !.timeout = c[3], !.retries = kRetries]
  <2>3. call \in CallState
    BY <2>2, NewCallType
  <2>4. rd' = [rd EXCEPT ![r] = [rd[r] EXCEPT !.pc = "load", !.call = call]]
    BY <2>1
  <2> HIDE DEF call
  <2>5. ReaderOK(r, [rd[r] EXCEPT !.pc = "load", !.call = call])
    BY <1>0, <2>3 DEF ReaderOK, ReaderState
  <2> QED BY <1>2, <1>q, <1>u, <2>4, <2>5 DEF RObtain
<1>3. CASE RLoad(r)
  <2>1. shut' \subseteq Processes
    BY <1>0, <1>3, <1>p, <1>s, DiffTypes DEF RLoad, SharedOK
  <2>2. SharedOK' /\ WriterOK(wr')
    BY <1>3, <1>s, <2>1 DEF RLoad, SharedOK
  <2>3. CASE RFinish(r)
    BY <1>3, <1>q, <2>2, <2>3, RFinishType DEF RLoad
  <2>4. CASE rd' = [rd EXCEPT ![r] = [rd[r] EXCEPT !.pc = "wait", !.call.seen = rear]]
    <3>1. ReaderOK(r, [rd[r] EXCEPT !.pc = "wait", !.call.seen = rear])
      BY <1>0, <1>s DEF ReaderOK, ReaderState, CallState, SharedOK
    <3> QED BY <1>q, <2>2, <2>4, <3>1
  <2> QED BY <1>3, <2>3, <2>4 DEF RLoad
<1>4. CASE RWait(r)
  <2>1. ReaderOK(r, [rd[r] EXCEPT !.pc = "sleep"])
    BY <1>0 DEF ReaderOK, ReaderState
  <2>2. ReaderOK(r, [rd[r] EXCEPT !.pc = "load", !.call = AfterWouldBlock(@)])
    BY <1>0, AfterWouldBlockType DEF ReaderOK, ReaderState
  <2>3. CASE rear = rd[r].call.seen
    BY <1>4, <1>q, <1>u, <2>1, <2>3 DEF RWait
  <2>4. CASE rear # rd[r].call.seen
    BY <1>4, <1>q, <1>u, <2>2, <2>4 DEF RWait
  <2> QED BY <2>3, <2>4
<1>5. CASE RTimeout(r)
  <2>1. ReaderOK(r, [rd[r] EXCEPT !.pc = "load", !.call = AfterWait(@, ETIMEDOUT)])
    BY <1>0, <1>e, AfterWaitType DEF ReaderOK, ReaderState
  <2> QED BY <1>5, <1>q, <1>u, <2>1 DEF RTimeout
<1>6. CASE RSignal(r)
  <2>1. ReaderOK(r, [rd[r] EXCEPT !.pc = "load", !.call = AfterWait(@, EINTR)])
    BY <1>0, <1>e, AfterWaitType DEF ReaderOK, ReaderState
  <2> QED BY <1>6, <1>q, <1>u, <2>1 DEF RSignal
<1>7. CASE RRelease(r)
  <2>1. PICK n \in 0 .. rd[r].obtained : RReleaseOf(r, n)
    BY <1>0, <1>7 DEF RRelease
  <2>2. n \in Nat /\ n =< rd[r].obtained
    BY <1>0, <2>1
  <2>3. shut' \subseteq Processes
    <3>1. ShutByDiff(r, rear, rd[r].localFront) \subseteq Processes
      BY <1>0, <1>p, <1>s, DiffTypes DEF SharedOK
    <3>2. shut' = ShutByDiff(r, rear, rd[r].localFront) \/ shut' = shut
      BY <2>1 DEF RReleaseOf
    <3> QED BY <1>s, <3>1, <3>2 DEF SharedOK
  <2>4. SharedOK' /\ WriterOK(wr')
    BY <1>s, <2>1, <2>3 DEF RReleaseOf, SharedOK
  <2>5. CASE r = Throttler
    <3> DEFINE filled == DiffBy(r, rear, rd[r].localFront)
               m == [rd[r] EXCEPT !.pc = "store", !.call.count = n, !.call.filled = filled]
    <3>1. filled \in Nat \cup Errors
      BY <1>0, <1>p, <1>s, DiffTypes DEF SharedOK, Outcomes, Errors
    <3>2. rd' = [rd EXCEPT ![r] = m]
      BY <2>1, <2>5 DEF RReleaseOf
    <3> HIDE DEF filled
    <3>3. ReaderOK(r, m)
      BY <1>0, <2>2, <2>5, <3>1 DEF ReaderOK, ReaderState, CallState
    <3> QED BY <1>q, <2>4, <3>2, <3>3
  <2>6. CASE r # Throttler
    <3> DEFINE flushed == IF rd[r].call.op = "flush" THEN n ELSE 0
               m == [rd[r] EXCEPT !.pc = "idle", !.localFront = Sum(@, n),
                                  !.obtained = @ - n, !.totalReleased = @ + n,
                                  !.totalFlushed = @ + flushed, !.call = Call]
    <3>1. Sum(rd[r].localFront, n) \in Index
      BY <1>0, <2>2, IndexTypes
    <3>2. /\ rd[r].obtained - n \in 0 .. FrameCount /\ rd[r].totalReleased + n \in Nat
          /\ rd[r].totalFlushed + flushed \in Nat
      BY <1>0, <2>2, Constants
    <3>3. rd' = [rd EXCEPT ![r] = m]
      BY <2>1, <2>6 DEF RReleaseOf
    <3> HIDE DEF flushed
    <3>4. ReaderOK(r, m)
      BY <1>0, <3>1, <3>2, CallType DEF ReaderOK, ReaderState
    <3> QED BY <1>q, <2>4, <3>3, <3>4
  <2> QED BY <2>5, <2>6
<1>8. CASE RReleaseTooMany(r)
  BY <1>8, <1>p DEF RReleaseTooMany, TypeInv, SharedOK
<1>9. CASE RStore(r)
  <2> DEFINE n       == rd[r].call.count
             filled  == rd[r].call.filled
             flushed == IF rd[r].call.op = "flush" THEN n ELSE 0
             armed   == rd[r].isArmed \/ (filled >= 0 /\ filled > rd[r].armLevel)
             wake    == filled >= n /\ armed /\ filled - n < rd[r].triggerLevel
             m == [rd[r] EXCEPT !.pc = IF wake THEN "wake" ELSE "idle",
                                !.localFront = Sum(@, n), !.isArmed = armed /\ ~ wake,
                                !.obtained = @ - n, !.totalReleased = @ + n,
                                !.totalFlushed = @ + flushed, !.call = Call]
  <2>1. n \in Nat /\ n =< rd[r].obtained
    BY <1>0, <1>9, <1>s DEF RStore, ReaderOK
  <2>2. Sum(rd[r].localFront, n) \in Index
    BY <1>0, <2>1, IndexTypes
  <2>3. /\ rd[r].obtained - n \in 0 .. FrameCount /\ rd[r].totalReleased + n \in Nat
        /\ rd[r].totalFlushed + flushed \in Nat
    BY <1>0, <2>1, Constants
  <2>4. (armed /\ ~ wake) \in BOOLEAN
    OBVIOUS
  <2>5. rd' = [rd EXCEPT ![r] = m] /\ front' = Sum(rd[r].localFront, n)
    BY <1>9 DEF RStore
  <2> HIDE DEF n, flushed, armed, wake
  <2>6. ReaderOK(r, m)
    BY <1>0, <2>2, <2>3, <2>4, CallType DEF ReaderOK, ReaderState
  <2>7. SharedOK' /\ WriterOK(wr')
    BY <1>9, <1>s, <2>2, <2>5 DEF RStore, SharedOK
  <2> QED BY <1>q, <2>5, <2>6, <2>7
<1>10. CASE RWake(r)
  <2>1. ReaderOK(r, [rd[r] EXCEPT !.pc = "idle"])
    BY <1>0 DEF ReaderOK, ReaderState
  <2>2. SharedOK'
    BY <1>10, <1>s DEF RWake, SharedOK
  <2>3. WriterOK(wr')
    <3>1. wr \in WriterState /\ wr.call \in CallState
      BY <1>s DEF WriterOK, WriterState
    <3> QED BY <1>10, <1>e, <1>s, <3>1, AfterWaitType DEF RWake, WriterOK, WriterState
  <2> QED BY <1>10, <1>q, <2>1, <2>2, <2>3 DEF RWake
<1>11. CASE RSetHysteresis(r)
  <2>1. PICK l \in ReaderLevels :
          LET arm == IF l[1] < 0 THEN -1 ELSE MinOf(l[1], FrameCount)
          IN  rd' = [rd EXCEPT ![r] =
                      [rd[r] EXCEPT !.isArmed = @ \/ arm < rd[r].armLevel,
                                !.armLevel = arm,
                                !.triggerLevel = MinOf(l[2], FrameCount)]]
    BY <1>11 DEF RSetHysteresis
  <2> DEFINE arm   == IF l[1] < 0 THEN -1 ELSE MinOf(l[1], FrameCount)
             level == MinOf(l[2], FrameCount)
             armed == rd[r].isArmed \/ arm < rd[r].armLevel
             m == [rd[r] EXCEPT !.isArmed = armed, !.armLevel = arm, !.triggerLevel = level]
  <2>2. l[1] \in Int /\ l[2] \in Nat
    BY FifoAssumption
  <2>3. arm \in -1 .. FrameCount /\ level \in 0 .. FrameCount
    BY <2>2, Constants DEF MinOf
  <2>4. armed \in BOOLEAN
    BY <1>0 DEF ReaderState
  <2>5. rd' = [rd EXCEPT ![r] = m]
    BY <2>1
  <2>6. rd[r].pc = "idle"
    BY <1>11 DEF RSetHysteresis
  <2> HIDE DEF arm, level, armed
  <2>7. ReaderOK(r, m)
    BY <1>0, <2>3, <2>4, <2>6 DEF ReaderOK, ReaderState
  <2> QED BY <1>11, <1>q, <1>u, <2>5, <2>7 DEF RSetHysteresis
<1> QED BY <1>1, <1>2, <1>3, <1>4, <1>5, <1>6, <1>7, <1>8, <1>9, <1>10, <1>11
        DEF ReaderNext

LEMMA TypeStep ==
  ASSUME TypeInv, [FifoNext]_fifoVars
  PROVE  TypeInv'
<1>1. CASE WriterNext
  BY <1>1, WriterTypes
<1>2. CASE \E r \in Readers : ReaderNext(r)
  BY <1>2, ReaderTypes
<1>3. CASE ShutdownSeen
  BY <1>3 DEF ShutdownSeen, TypeInv, SharedOK
<1>4. CASE UNCHANGED fifoVars
  BY <1>4 DEF fifoVars, TypeInv, SharedOK
<1> QED BY <1>1, <1>2, <1>3, <1>4 DEF FifoNext

\* The type invariant, with what a release() in progress relies on: it never
\* gives back more than its caller still holds (fifo.cpp:314, 483).
THEOREM TypeCorrect == FifoSpec => [](FifoTypeOK /\ ReleasesWithinSlice)
<1>1. TypeInv /\ [FifoNext]_fifoVars => TypeInv'
  BY TypeStep
<1> QED BY <1>1, TypeInit, TypeInvParts, PTL DEF FifoSpec

-----------------------------------------------------------------------------
(* The slices of the writer and of the throttling reader *)

PosInv == ThrottledIndices /\ SlicesDisjoint

WriterStays ==
  /\ wr'.localRear = wr.localRear /\ wr'.totalReleased = wr.totalReleased
  /\ wr'.obtained = wr.obtained /\ rear' = rear

ReaderStays ==
  /\ rd'[Throttler].localFront = rd[Throttler].localFront
  /\ rd'[Throttler].totalReleased = rd[Throttler].totalReleased
  /\ rd'[Throttler].start = rd[Throttler].start
  /\ rd'[Throttler].obtained = rd[Throttler].obtained
  /\ rd'[Throttler].pc = "absent" => rd[Throttler].pc = "absent"
  /\ front' = front

\* What the invariant says of the two positions.
LEMMA Positions ==
  ASSUME TypeInv, PosInv, Throttled
  PROVE  /\ Throttler \in Readers /\ Throttler \in Processes /\ Writer \in Processes
         /\ Written \in Nat /\ Position(Throttler) \in Nat
         /\ wr.obtained \in 0 .. FrameCount /\ rd[Throttler].obtained \in 0 .. FrameCount
         /\ Position(Throttler) =< Written
         /\ Written - Position(Throttler) =< FrameCount
         /\ Diff(rear, front) = Written - Position(Throttler)
         /\ ~ Corrupt(rear, front)
         /\ \A flush : Lost(rear, front, flush) = 0
         /\ rear = wr.localRear /\ front = rd[Throttler].localFront
         /\ rear \in Index /\ front \in Index
<1>1. Throttler \in Readers
  BY FifoAssumption DEF Throttled
<1>2. rd[Throttler] \in ReaderState /\ wr \in WriterState
  BY <1>1 DEF TypeInv, WriterOK
<1>3. Written \in Nat /\ Position(Throttler) \in Nat
  BY <1>2 DEF Written, Position, WriterState, ReaderState
<1>4. wr.obtained \in 0 .. FrameCount /\ rd[Throttler].obtained \in 0 .. FrameCount
  BY <1>2 DEF WriterState, ReaderState
<1>5. /\ Position(Throttler) =< Written
      /\ Written - Position(Throttler) =< FrameCount
  BY <1>3, <1>4, Constants DEF PosInv, SlicesDisjoint
<1>6. /\ rear = IndexOf(Written) /\ front = IndexOf(Position(Throttler))
      /\ rear = wr.localRear /\ front = rd[Throttler].localFront
  BY DEF PosInv, ThrottledIndices
<1>7. /\ Diff(rear, front) = Written - Position(Throttler)
      /\ ~ Corrupt(rear, front)
      /\ \A flush : Lost(rear, front, flush) = 0
  BY <1>3, <1>5, <1>6, DiffIndexOf
<1>8. rear \in Index /\ front \in Index
  BY DEF TypeInv, SharedOK
<1> QED BY <1>1, <1>3, <1>4, <1>5, <1>6, <1>7, <1>8 DEF Processes

LEMMA NothingMoves ==
  ASSUME PosInv, WriterStays, ReaderStays
  PROVE  PosInv'
BY DEF PosInv, ThrottledIndices, SlicesDisjoint, WriterStays, ReaderStays, Written, Position

\* obtain() by the writer: the room it saw is still there, because nobody else
\* moves the rear and the front only moves away from it.
LEMMA WriterObtains ==
  ASSUME TypeInv, PosInv, Throttled, WLoadThrottled
  PROVE  PosInv'
<1> DEFINE filled == DiffBy(Writer, wr.localRear, front)
           avail  == IF wr.effective > filled THEN wr.effective - filled ELSE 0
           f      == Position(Throttler)
<1>1. /\ Throttler \in Readers /\ Writer \in Processes /\ Written \in Nat /\ f \in Nat
      /\ f =< Written /\ Written - f =< FrameCount
      /\ filled \in {EIO, Written - f}
  BY Positions DEF DiffBy
<1>2. wr \in WriterState /\ wr.effective \in 0 .. FrameCount
      /\ wr.call.err \in Outcomes \cup {0}
  BY DEF TypeInv, WriterOK, WriterState, CallState
<1>3. /\ UNCHANGED <<rear, front, rd>>
      /\ wr'.localRear = wr.localRear /\ wr'.totalReleased = wr.totalReleased
  BY <1>2 DEF WLoadThrottled, WFinish, WriterState
<1>4. wr'.obtained \in Nat /\ Written + wr'.obtained =< f + FrameCount
  <2>1. CASE filled < 0 /\ WFinish(0, filled)
    <3>1. filled \in Outcomes \cup {0} /\ 0 \in 0 .. FrameCount
      BY <1>1, <2>1, Constants DEF Outcomes, Errors
    <3>2. WriterOK(wr') /\ wr'.obtained =< 0
      BY <1>2, <2>1, <3>1, WFinishType
    <3> QED BY <1>1, <3>2, Constants DEF WriterOK, WriterState
  <2>2. CASE filled >= 0 /\ WFinish(avail, wr.call.err)
    <3>1. filled = Written - f
      BY <1>1, <2>2 DEF EIO
    <3>2. avail \in 0 .. FrameCount /\ Written + avail =< f + FrameCount
      BY <1>1, <1>2, <3>1, Constants
    <3>3. WriterOK(wr') /\ wr'.obtained =< avail
      BY <1>2, <2>2, <3>2, WFinishType
    <3> QED BY <1>1, <3>2, <3>3, Constants DEF WriterOK, WriterState
  <2>3. CASE wr' = [wr EXCEPT !.pc = "wait", !.call.seen = front]
    BY <1>1, <1>2, <2>3, Positions DEF WriterState, PosInv, SlicesDisjoint
  <2> QED BY <2>1, <2>2, <2>3 DEF WLoadThrottled
<1> QED BY <1>3, <1>4 DEF PosInv, ThrottledIndices, SlicesDisjoint, Written, Position

\* release() by the writer moves both the index and the total.
LEMMA WriterReleases ==
  ASSUME TypeInv, PosInv, Throttled, WStore
  PROVE  PosInv'
<1> DEFINE n == wr.call.count
<1>1. /\ Throttler \in Readers /\ Written \in Nat /\ Position(Throttler) \in Nat
      /\ wr.obtained \in 0 .. FrameCount /\ rd[Throttler].obtained \in 0 .. FrameCount
  BY Positions
<1>2. wr \in WriterState /\ n \in 0 .. FrameCount /\ n =< wr.obtained
  BY <1>1, Constants DEF WStore, TypeInv, WriterOK, WriterState, CallState
<1>3. /\ wr'.localRear = Sum(wr.localRear, n) /\ rear' = Sum(wr.localRear, n)
      /\ wr'.obtained = wr.obtained - n /\ wr'.totalReleased = wr.totalReleased + n
      /\ UNCHANGED <<front, rd>>
  BY <1>2 DEF WStore, WriterState
<1>4. Sum(wr.localRear, n) = IndexOf(Written + n)
  BY <1>1, <1>2, SumIndexOf DEF PosInv, ThrottledIndices
<1>5. Written' = Written + n /\ Position(Throttler)' = Position(Throttler)
  BY <1>3 DEF Written, Position
<1>6. ThrottledIndices'
  BY <1>3, <1>4, <1>5 DEF PosInv, ThrottledIndices
<1>7. SlicesDisjoint'
  BY <1>1, <1>2, <1>3, <1>5, Constants DEF PosInv, SlicesDisjoint
<1> QED BY <1>6, <1>7 DEF PosInv

LEMMA WriterPositions ==
  ASSUME TypeInv, PosInv, WriterNext
  PROVE  PosInv'
<1>1. CASE ~ Throttled
  BY <1>1 DEF PosInv, ThrottledIndices, SlicesDisjoint
<1>2. CASE Throttled
  <2>1. wr \in WriterState /\ Throttler \in Readers /\ rd \in [Readers -> ReaderState]
    BY <1>2, Positions DEF TypeInv, WriterOK
  <2>2. CASE WObtain \/ WWait \/ WTimeout \/ WSignal \/ WReleaseTooMany
    <3>1. WriterStays /\ ReaderStays
      BY <2>1, <2>2 DEF WObtain, WWait, WTimeout, WSignal, WReleaseTooMany, WriterStays,
                        ReaderStays, WriterState
    <3> QED BY <3>1, NothingMoves
  <2>3. CASE WResize \/ WSetHysteresis
    <3>1. WriterStays /\ ReaderStays
      BY <2>1, <2>3 DEF WResize, WSetHysteresis, WriterStays, ReaderStays, WriterState
    <3> QED BY <3>1, NothingMoves
  <2>4. CASE WLoadThrottled
    BY <1>2, <2>4, WriterObtains
  <2>5. CASE WLoadUnthrottled
    BY <1>2, <2>5 DEF WLoadUnthrottled
  <2>6. CASE WRelease
    <3>1. WriterStays /\ ReaderStays
      BY <2>1, <2>6 DEF WRelease, WReleaseOf, WriterStays, ReaderStays, WriterState
    <3> QED BY <3>1, NothingMoves
  <2>7. CASE WStore
    BY <1>2, <2>7, WriterReleases
  <2>8. CASE WWake
    <3>1. WriterStays /\ ReaderStays
      BY <2>1, <2>8 DEF WWake, WriterStays, ReaderStays, WriterState, ReaderState
    <3> QED BY <3>1, NothingMoves
  <2> QED BY <2>2, <2>3, <2>4, <2>5, <2>6, <2>7, <2>8 DEF WriterNext
<1> QED BY <1>1, <1>2

\* obtain() by the throttling reader: it never overflows, so it never jumps.
LEMMA ReaderObtains ==
  ASSUME TypeInv, PosInv, Throttled, RLoad(Throttler)
  PROVE  PosInv'
<1> DEFINE me     == rd[Throttler]
           filled == DiffBy(Throttler, rear, me.localFront)
           lost   == LostBy(Throttler, rear, me.localFront)
           n      == IF filled < 0 THEN 0 ELSE MinOf(filled, me.call.count)
           f      == Position(Throttler)
<1>1. /\ Throttler \in Readers /\ Written \in Nat /\ f \in Nat /\ f =< Written
      /\ wr.obtained \in 0 .. FrameCount /\ me.obtained \in 0 .. FrameCount
      /\ filled \in {EIO, Written - f} /\ lost = 0
  BY Positions DEF DiffBy, LostBy
<1>2. rd \in [Readers -> ReaderState] /\ me \in ReaderState /\ me.call.count \in Nat
  BY <1>1 DEF TypeInv, ReaderState, CallState
<1>3. CASE rd' = [rd EXCEPT ![Throttler] =
                   [rd[Throttler] EXCEPT !.pc = "wait", !.call.seen = rear]]
  <2>1. WriterStays /\ ReaderStays
    BY <1>1, <1>2, <1>3 DEF RLoad, WriterStays, ReaderStays, ReaderState
  <2> QED BY <2>1, NothingMoves
<1>4. CASE RFinish(Throttler)
  <2>1. filled # EOVERFLOW /\ n \in Nat /\ n =< Written - f
    BY <1>1, <1>2 DEF EIO, EOVERFLOW, MinOf
  <2>2. /\ rd'[Throttler].localFront = me.localFront
        /\ rd'[Throttler].totalReleased = me.totalReleased + lost
        /\ rd'[Throttler].start = me.start
        /\ rd'[Throttler].obtained \in {me.obtained, n}
        /\ rd'[Throttler].pc # "absent"
    BY <1>1, <1>2, <1>4, <2>1 DEF RFinish, ReaderState
  <2>3. UNCHANGED <<rear, front, wr>>
    BY DEF RLoad
  <2>4. Position(Throttler)' = f /\ Written' = Written
    BY <1>1, <1>2, <2>2, <2>3 DEF Position, Written, ReaderState
  <2>5. ThrottledIndices'
    BY <2>2, <2>3, <2>4 DEF PosInv, ThrottledIndices
  <2>6. SlicesDisjoint'
    BY <1>1, <2>1, <2>2, <2>3, <2>4 DEF PosInv, SlicesDisjoint
  <2> QED BY <2>5, <2>6 DEF PosInv
<1> QED BY <1>3, <1>4 DEF RLoad

LEMMA ReaderReleases ==
  ASSUME TypeInv, PosInv, Throttled, RStore(Throttler)
  PROVE  PosInv'
<1> DEFINE me == rd[Throttler]
           n  == me.call.count
<1>1. /\ Throttler \in Readers /\ Written \in Nat /\ Position(Throttler) \in Nat
      /\ wr.obtained \in 0 .. FrameCount /\ me.obtained \in 0 .. FrameCount
  BY Positions
<1>2. /\ rd \in [Readers -> ReaderState] /\ me \in ReaderState
      /\ n \in 0 .. FrameCount /\ n =< me.obtained
  BY <1>1, Constants DEF RStore, TypeInv, ReaderOK, ReaderState, CallState
<1>3. /\ rd'[Throttler].localFront = Sum(me.localFront, n) /\ front' = Sum(me.localFront, n)
      /\ rd'[Throttler].obtained = me.obtained - n
      /\ rd'[Throttler].totalReleased = me.totalReleased + n
      /\ rd'[Throttler].start = me.start /\ rd'[Throttler].pc # "absent"
      /\ UNCHANGED <<rear, wr>>
  BY <1>1, <1>2 DEF RStore, ReaderState
<1>4. Sum(me.localFront, n) = IndexOf(Position(Throttler) + n)
  BY <1>1, <1>2, SumIndexOf DEF PosInv, ThrottledIndices
<1>5. Written' = Written /\ Position(Throttler)' = Position(Throttler) + n
  BY <1>1, <1>2, <1>3 DEF Written, Position, ReaderState
<1>6. ThrottledIndices'
  BY <1>3, <1>4, <1>5 DEF PosInv, ThrottledIndices
<1>7. SlicesDisjoint'
  BY <1>1, <1>2, <1>3, <1>5, Constants DEF PosInv, SlicesDisjoint
<1> QED BY <1>6, <1>7 DEF PosInv

LEMMA ReaderPositions ==
  ASSUME TypeInv, PosInv, NEW r \in Readers, ReaderNext(r)
  PROVE  PosInv'
<1>1. CASE ~ Throttled
  BY <1>1 DEF PosInv, ThrottledIndices, SlicesDisjoint
<1>2. CASE Throttled /\ r # Throttler
  <2>1. wr \in WriterState /\ Throttler \in Readers /\ rd \in [Readers -> ReaderState]
    BY <1>2, Positions DEF TypeInv, WriterOK
  <2>2. ~ RStore(r)
    BY <1>2 DEF RStore, TypeInv, ReaderOK
  <2>3. rear' = rear /\ front' = front /\ (wr' = wr \/ RWake(r))
    BY <1>2, <2>2 DEF ReaderNext, RJoin, RObtain, RLoad, RWait, RTimeout, RSignal, RRelease,
                      RReleaseOf, RReleaseTooMany, RWake, RSetHysteresis
  <2>4. rd'[Throttler] = rd[Throttler]
    BY <1>2, <2>1, <2>2 DEF ReaderNext, RJoin, RObtain, RLoad, RFinish, RWait, RTimeout, RSignal,
                      RRelease, RReleaseOf, RReleaseTooMany, RWake, RSetHysteresis
  <2>5. WriterStays /\ ReaderStays
    BY <2>1, <2>3, <2>4 DEF WriterStays, ReaderStays, RWake, WriterState
  <2> QED BY <2>5, NothingMoves
<1>3. CASE Throttled /\ r = Throttler
  <2>1. /\ wr \in WriterState /\ Throttler \in Readers /\ rd \in [Readers -> ReaderState]
        /\ rd[Throttler] \in ReaderState
    BY <1>3, Positions DEF TypeInv, WriterOK
  <2>2. CASE RJoin(Throttler)
    <3>1. WriterStays /\ ReaderStays
      BY <1>3, <2>1, <2>2 DEF RJoin, WriterStays, ReaderStays, ReaderState, PosInv,
                              ThrottledIndices
    <3> QED BY <3>1, NothingMoves
  <2>3. CASE RObtain(Throttler) \/ RWait(Throttler) \/ RTimeout(Throttler)
             \/ RSignal(Throttler) \/ RReleaseTooMany(Throttler)
    <3> SUFFICES WriterStays /\ ReaderStays
      BY NothingMoves
    <3>1. CASE RObtain(Throttler)
      BY <2>1, <3>1 DEF RObtain, WriterStays, ReaderStays, ReaderState
    <3>2. CASE RWait(Throttler)
      BY <2>1, <3>2 DEF RWait, WriterStays, ReaderStays, ReaderState
    <3>3. CASE RTimeout(Throttler)
      BY <2>1, <3>3 DEF RTimeout, WriterStays, ReaderStays, ReaderState
    <3>4. CASE RSignal(Throttler)
      BY <2>1, <3>4 DEF RSignal, WriterStays, ReaderStays, ReaderState
    <3>5. CASE RReleaseTooMany(Throttler)
      BY <2>1, <3>5 DEF RReleaseTooMany, WriterStays, ReaderStays, ReaderState
    <3> QED BY <2>3, <3>1, <3>2, <3>3, <3>4, <3>5
  <2>4. CASE RLoad(Throttler)
    BY <1>3, <2>4, ReaderObtains
  <2>5. CASE RRelease(Throttler)
    <3>0. PICK n \in Nat : RReleaseOf(Throttler, n) /\ rd[Throttler].pc # "absent"
      BY <1>3, <2>1, <2>5, Constants DEF RRelease, ReaderState
    <3>a. UNCHANGED <<rear, front, wr>>
      BY <3>0 DEF RReleaseOf
    <3>b. rd' = [rd EXCEPT ![Throttler] =
                  [rd[Throttler] EXCEPT !.pc = "store", !.call.count = n,
                     !.call.filled = DiffBy(Throttler, rear, rd[Throttler].localFront)]]
      BY <3>0 DEF RReleaseOf
    <3>c. /\ rd'[Throttler].pc = "store"
          /\ rd'[Throttler].localFront = rd[Throttler].localFront
          /\ rd'[Throttler].obtained = rd[Throttler].obtained
          /\ rd'[Throttler].totalReleased = rd[Throttler].totalReleased
          /\ rd'[Throttler].start = rd[Throttler].start
      BY <2>1, <3>b DEF ReaderState
    <3>1. WriterStays /\ ReaderStays
      BY <3>0, <3>a, <3>c DEF WriterStays, ReaderStays
    <3> QED BY <3>1, NothingMoves
  <2>6. CASE RStore(Throttler)
    BY <1>3, <2>6, ReaderReleases
  <2>7. CASE RWake(Throttler)
    <3>a. ReaderStays
      BY <2>1, <2>7 DEF RWake, ReaderStays, ReaderState
    <3>b. /\ wr'.localRear = wr.localRear /\ wr'.obtained = wr.obtained
          /\ wr'.totalReleased = wr.totalReleased
      BY <2>1, <2>7 DEF RWake, WriterState
    <3>1. WriterStays /\ ReaderStays
      BY <2>7, <3>a, <3>b DEF RWake, WriterStays
    <3> QED BY <3>1, NothingMoves
  <2>8. CASE RSetHysteresis(Throttler)
    <3>1. WriterStays /\ ReaderStays
      BY <2>1, <2>8 DEF RSetHysteresis, WriterStays, ReaderStays, ReaderState
    <3> QED BY <3>1, NothingMoves
  <2> QED BY <1>3, <2>2, <2>3, <2>4, <2>5, <2>6, <2>7, <2>8 DEF ReaderNext
<1> QED BY <1>1, <1>2, <1>3

LEMMA IndexOfZero == IndexOf(0) = 0
BY Constants, ModUnique DEF IndexOf

LEMMA PositionsInit == FifoInit => PosInv
BY IndexOfZero, FifoAssumption, Constants
   DEF FifoInit, PosInv, ThrottledIndices, SlicesDisjoint, Written, Position, Throttled

\* The whole inductive invariant.
THEOREM Invariant == FifoSpec => []IndInv
<1>1. FifoInit => TypeInv /\ PosInv
  BY TypeInit, PositionsInit
<1>2. TypeInv /\ PosInv /\ [FifoNext]_fifoVars => (TypeInv /\ PosInv)'
  <2> SUFFICES ASSUME TypeInv, PosInv, [FifoNext]_fifoVars PROVE TypeInv' /\ PosInv'
    OBVIOUS
  <2>1. TypeInv'
    BY TypeStep
  <2>2. CASE WriterNext
    BY <2>1, <2>2, WriterPositions
  <2>3. CASE \E r \in Readers : ReaderNext(r)
    BY <2>1, <2>3, ReaderPositions
  <2>4. CASE ShutdownSeen \/ UNCHANGED fifoVars
    BY <2>1, <2>4 DEF ShutdownSeen, fifoVars, PosInv, ThrottledIndices, SlicesDisjoint, Written,
                      Position
  <2> QED BY <2>2, <2>3, <2>4, <2>1 DEF FifoNext
<1>3. TypeInv /\ PosInv => IndInv
  BY TypeInvParts DEF IndInv, PosInv
<1> QED BY <1>1, <1>2, <1>3, PTL DEF FifoSpec

\* For every capacity, number of readers, pattern of calls and interleaving, the
\* writer and the throttling reader own disjoint parts of the buffer (fifo.cpp:212-220,
\* 594-602): no frame is overwritten before it is read, none is read before it is
\* written.
THEOREM Disjoint == FifoSpec => []SlicesDisjoint
<1>1. IndInv => SlicesDisjoint
  BY DEF IndInv
<1> QED BY <1>1, Invariant, PTL

-----------------------------------------------------------------------------
(* Readers that the writer overtakes *)

\* As many trips round the buffer as have indices of their own.
Trips == IndexMod \div FrameCountP2

LEMMA TripsOK ==
  /\ Trips \in Nat /\ Trips >= 2 /\ IndexMod = FrameCountP2 * Trips
  /\ FrameCount * (Trips - 1) < IndexMod
<1> USE Constants
<1>1. Trips \in Int /\ IndexMod = FrameCountP2 * Trips
  BY DivMod, IndexAssumption DEF Trips
<1>2. Trips >= 2
  <2>1. Trips =< 1 => FrameCountP2 * Trips =< FrameCountP2 * 1
    BY <1>1
  <2> QED BY <1>1, <2>1
<1>3. FrameCount * (Trips - 1) < FrameCountP2 * Trips
  <2> DEFINE t == Trips - 1
  <2>1. t \in Nat /\ Trips = t + 1
    BY <1>1, <1>2
  <2> HIDE DEF t
  <2>2. FrameCount * t =< FrameCountP2 * t
    BY <2>1
  <2>3. FrameCountP2 * (t + 1) = FrameCountP2 * t + FrameCountP2
    BY <2>1, Products
  <2>4. FrameCount * t \in Int /\ FrameCountP2 * t \in Int
    BY <2>1, Products
  <2> QED BY <2>1, <2>2, <2>3, <2>4 DEF t
<1> QED BY <1>1, <1>2, <1>3

\* The difference of two indices, in trips and offsets, up to a multiple of their range.
LEMMA Apart ==
  ASSUME NEW w \in Nat, NEW f \in Nat, f =< w, w - f > FrameCount,
         w - f =< FrameCount * (Trips - 1)
  PROVE  \E g \in 1 .. Trips - 1, b \in 0 .. FrameCount - 1, d \in 0 .. FrameCount - 1,
            z \in Int :
            /\ w - f = FrameCount * g + b - d
            /\ Offset(IndexOf(w)) = b /\ Offset(IndexOf(f)) = d
            /\ IndexOf(w) \in Index /\ IndexOf(f) \in Index
            /\ IndexOf(w) - IndexOf(f) = FrameCountP2 * g + b - d + IndexMod * z
<1> USE Constants
<1>1. PICK a \in Int, b \in 0 .. FrameCount - 1, k \in Int :
         /\ w = FrameCount * a + b
         /\ IndexOf(w) = FrameCountP2 * a + b - IndexMod * k
         /\ IndexOf(w) \in Index
         /\ Offset(IndexOf(w)) = b
  BY IndexForm
<1>2. PICK c \in Int, d \in 0 .. FrameCount - 1, j \in Int :
         /\ f = FrameCount * c + d
         /\ IndexOf(f) = FrameCountP2 * c + d - IndexMod * j
         /\ IndexOf(f) \in Index
         /\ Offset(IndexOf(f)) = d
  BY IndexForm
<1> DEFINE g == a - c
           z == j - k
<1>3. g \in Int /\ z \in Int
  OBVIOUS
<1>4. /\ FrameCount * g = FrameCount * a - FrameCount * c
      /\ FrameCountP2 * g = FrameCountP2 * a - FrameCountP2 * c
      /\ IndexMod * z = IndexMod * j - IndexMod * k
      /\ FrameCount * a \in Int /\ FrameCount * c \in Int
      /\ FrameCountP2 * a \in Int /\ FrameCountP2 * c \in Int
      /\ IndexMod * j \in Int /\ IndexMod * k \in Int
  BY Products
<1>5. w - f = FrameCount * g + b - d
  BY <1>1, <1>2, <1>4
<1>6. IndexOf(w) - IndexOf(f) = FrameCountP2 * g + b - d + IndexMod * z
  BY <1>1, <1>2, <1>4
<1> HIDE DEF g, z
<1>7. g >= 1
  <2>1. g =< 0 => FrameCount * g =< FrameCount * 0
    BY <1>3
  <2>2. FrameCount * g \in Int /\ FrameCount * 0 = 0
    BY <1>3, Products
  <2> QED BY <1>3, <1>5, <2>1, <2>2
<1>8. g =< Trips - 1
  <2>0. Trips \in Nat
    BY TripsOK
  <2>1. g >= Trips => FrameCount * g >= FrameCount * Trips
    BY <1>3, <2>0
  <2>2. FrameCount * (Trips - 1) = FrameCount * Trips - FrameCount * 1
    BY <2>0, Products
  <2>3. FrameCount * g \in Int /\ FrameCount * Trips \in Int
    BY <1>3, <2>0, Products
  <2> QED BY <1>3, <1>5, <2>0, <2>1, <2>2, <2>3
<1>9. g \in 1 .. Trips - 1
  BY <1>3, <1>7, <1>8, TripsOK
<1> QED BY <1>1, <1>2, <1>3, <1>5, <1>6, <1>9

LEMMA Quotient ==
  ASSUME NEW m \in Nat \ {0}, NEW g \in Int
  PROVE  (m * g) \div m = g
<1>1. PICK x \in Int : x = m * g
  OBVIOUS
<1>2. /\ x \div m \in Int /\ x % m \in 0 .. m - 1
      /\ x = m * (x \div m) + (x % m)
  BY DivMod
<1>3. PICK q \in Int : q = x \div m
  BY <1>2
<1>4. PICK r \in 0 .. m - 1 : r = x % m
  BY <1>2
<1>5. m * (g - q) = r
  <2>1. m * (g - q) = m * g - m * q /\ m * q \in Int
    BY Products
  <2> QED BY <1>1, <1>2, <1>3, <1>4, <2>1
<1>6. g - q < 1
  <2>1. g - q >= 1 => m * (g - q) >= m * 1
    OBVIOUS
  <2> QED BY <1>5, <2>1
<1>7. g - q > -1
  <2>1. g - q =< -1 => m * (g - q) =< m * (-1)
    OBVIOUS
  <2> QED BY <1>5, <2>1
<1>8. g = q
  BY <1>6, <1>7
<1> QED BY <1>1, <1>3, <1>8

\* diff() tells a reader that was overtaken how many frames it lost, the wasted indices
\* in between not counted, while it is less than a turn of the indices behind
\* (fifo.cpp:86-117).
LEMMA LostIndexOf ==
  ASSUME NEW w \in Nat, NEW f \in Nat, f =< w, w - f > FrameCount,
         w - f =< FrameCount * (Trips - 1)
  PROVE  /\ ~ Corrupt(IndexOf(w), IndexOf(f))
         /\ Diff(IndexOf(w), IndexOf(f)) = EOVERFLOW
         /\ \A flush : Lost(IndexOf(w), IndexOf(f), flush)
                         = w - f - (IF flush THEN 0 ELSE FrameCount)
<1> USE Constants
<1>1. PICK g \in 1 .. Trips - 1, b \in 0 .. FrameCount - 1, d \in 0 .. FrameCount - 1,
           z \in Int :
         /\ w - f = FrameCount * g + b - d
         /\ Offset(IndexOf(w)) = b /\ Offset(IndexOf(f)) = d
         /\ IndexOf(w) \in Index /\ IndexOf(f) \in Index
         /\ IndexOf(w) - IndexOf(f) = FrameCountP2 * g + b - d + IndexMod * z
  BY Apart
<1>2. PICK i : i = IndexOf(w)
  OBVIOUS
<1>3. PICK j : j = IndexOf(f)
  OBVIOUS
<1>4. PICK lag \in Nat : lag = w - f
  OBVIOUS
<1>5. /\ i \in Int /\ j \in Int /\ g \in Nat /\ g >= 1
      /\ Fudge \in Nat /\ FrameCountP2 = FrameCount + Fudge
      /\ FrameCount * g \in Int /\ FrameCountP2 * g \in Int /\ Fudge * g \in Int
      /\ IndexMod * z \in Int
  BY <1>1, <1>2, <1>3, TripsOK DEF Index, Fudge
<1>6. lag = FrameCount * g + b - d /\ i - j = FrameCountP2 * g + b - d + IndexMod * z
  BY <1>1, <1>2, <1>3, <1>4
<1>7. lag > FrameCount /\ lag \in 0 .. IndexMod - 1 /\ lag - FrameCount \in 0 .. IndexMod - 1
  BY <1>4, TripsOK
<1>8. Offset(i) = b /\ Offset(j) = d /\ ~ Corrupt(i, j)
  BY <1>1, <1>2, <1>3 DEF Corrupt
<1>9. FrameCountP2 * g = FrameCount * g + Fudge * g
  BY <1>5
<1>10. GenDiff(i, j) = FrameCountP2 * g
  <2>1. FrameCountP2 * g \in 0 .. IndexMod - 1
    <3>1. FrameCountP2 * (g + 1) =< FrameCountP2 * Trips
      BY <1>1, <1>5, TripsOK
    <3>2. FrameCountP2 * (g + 1) = FrameCountP2 * g + FrameCountP2
      BY <1>5, Products
    <3>3. FrameCountP2 * g >= 0
      BY <1>5
    <3> QED BY <1>5, <3>1, <3>2, <3>3, TripsOK
  <2>2. (FrameCountP2 * g + IndexMod * z) % IndexMod = FrameCountP2 * g
    BY <2>1, ModUnique
  <2>3. Generation(i) - Generation(j) = FrameCountP2 * g + IndexMod * z
    BY <1>5, <1>6, <1>8 DEF Generation
  <2> QED BY <2>2, <2>3 DEF GenDiff
<1>11. ASSUME NEW n \in 0 .. IndexMod - 1 PROVE (n + IndexMod * z) % IndexMod = n
  BY ModUnique
<1>12. CASE TooManyGenerations(i, j)
  <2>1. GenDiff(i, j) \div FrameCountP2 = g
    BY <1>5, <1>10, Quotient
  <2>2. Diff(i, j) = EOVERFLOW
    BY <1>8, <1>12 DEF Diff
  <2>3. ASSUME NEW flush
        PROVE  Lost(i, j, flush) = lag - (IF flush THEN 0 ELSE FrameCount)
    <3>1. PICK kept \in {0, FrameCount} : kept = IF flush THEN 0 ELSE FrameCount
      OBVIOUS
    <3>2. i - j - kept - Fudge * g = (lag - kept) + IndexMod * z
      BY <1>5, <1>6, <1>9, <3>1
    <3>3. lag - kept \in 0 .. IndexMod - 1
      BY <1>7, <3>1
    <3>4. Lost(i, j, flush) = (i - j - kept - Fudge * g) % IndexMod
      BY <1>8, <1>12, <2>1, <3>1 DEF Lost
    <3>5. ((lag - kept) + IndexMod * z) % IndexMod = lag - kept
      BY <1>11, <3>3
    <3> QED BY <3>1, <3>2, <3>4, <3>5
  <2> QED BY <1>2, <1>3, <1>4, <1>8, <2>2, <2>3
<1>13. CASE ~ TooManyGenerations(i, j)
  <2>1. Unread(i, j) = lag
    <3>1. Fudge = 0 \/ g = 1
      <4>1. Fudge > 0 => FrameCountP2 * g =< FrameCountP2
        BY <1>5, <1>10, <1>13 DEF TooManyGenerations
      <4>2. g >= 2 => FrameCountP2 * g >= FrameCountP2 * 2
        BY <1>5
      <4> QED BY <1>5, <4>1, <4>2
    <3>2. Fudge * g = Fudge
      BY <1>5, <3>1
    <3>3. GenDiff(i, j) > 0
      <4>1. FrameCountP2 * g >= FrameCountP2 * 1
        BY <1>5
      <4> QED BY <1>5, <1>10, <4>1
    <3>4. Unread(i, j) = (i - j - Fudge) % IndexMod
      BY <3>3 DEF Unread
    <3>5. i - j - Fudge = lag + IndexMod * z
      BY <1>5, <1>6, <1>9, <3>2
    <3>6. (lag + IndexMod * z) % IndexMod = lag
      BY <1>7, <1>11
    <3> QED BY <3>4, <3>5, <3>6
  <2>2. Diff(i, j) = EOVERFLOW
    BY <1>7, <1>8, <2>1 DEF Diff
  <2>3. ASSUME NEW flush
        PROVE  Lost(i, j, flush) = lag - (IF flush THEN 0 ELSE FrameCount)
    <3>1. PICK kept \in {0, FrameCount} : kept = IF flush THEN 0 ELSE FrameCount
      OBVIOUS
    <3>2. Lost(i, j, flush) = (lag - kept) % IndexMod
      BY <1>7, <1>8, <1>13, <2>1, <3>1 DEF Lost
    <3>3. lag - kept \in 0 .. IndexMod - 1
      BY <1>7, <3>1
    <3>4. (lag - kept) % IndexMod = lag - kept
      BY <3>3
    <3> QED BY <3>1, <3>2, <3>4
  <2> QED BY <1>2, <1>3, <1>4, <1>8, <2>2, <2>3
<1> QED BY <1>12, <1>13

\* The jump to the oldest frame that is still there (fifo.cpp:608-619).
LEMMA JumpIndexOf ==
  ASSUME NEW w \in Nat, w >= FrameCount
  PROVE  (IndexOf(w) - FrameCountP2) % IndexMod = IndexOf(w - FrameCount)
<1> USE Constants
<1>0. PICK n \in Nat : n = w - FrameCount
  OBVIOUS
<1>1. PICK a \in Int, b \in 0 .. FrameCount - 1, k \in Int :
         /\ w = FrameCount * a + b
         /\ IndexOf(w) = FrameCountP2 * a + b - IndexMod * k
         /\ IndexOf(w) \in Index
         /\ Offset(IndexOf(w)) = b
  BY IndexForm
<1>2. PICK c \in Int, d \in 0 .. FrameCount - 1, j \in Int :
         /\ n = FrameCount * c + d
         /\ IndexOf(n) = FrameCountP2 * c + d - IndexMod * j
         /\ IndexOf(n) \in Index
         /\ Offset(IndexOf(n)) = d
  BY IndexForm
<1>3. a = c + 1 /\ b = d
  <2>1. FrameCount * (a - c) = FrameCount + d - b
    <3>1. FrameCount * (a - c) = FrameCount * a - FrameCount * c
      OBVIOUS
    <3> QED BY <3>1, <1>0, <1>1, <1>2
  <2>2. a - c < 2
    <3>1. a - c >= 2 => FrameCount * (a - c) >= FrameCount * 2
      OBVIOUS
    <3> QED BY <3>1, <2>1
  <2>3. a - c > 0
    <3>1. a - c =< 0 => FrameCount * (a - c) =< FrameCount * 0
      OBVIOUS
    <3> QED BY <3>1, <2>1
  <2>4. a = c + 1
    BY <2>2, <2>3
  <2> QED BY <2>1, <2>4
<1>4. /\ FrameCountP2 * (c + 1) = FrameCountP2 * c + FrameCountP2
      /\ IndexMod * (j - k) = IndexMod * j - IndexMod * k
      /\ FrameCountP2 * c \in Int /\ IndexMod * j \in Int /\ IndexMod * k \in Int
  BY Products
<1>5. IndexOf(w) - FrameCountP2 = IndexOf(n) + IndexMod * (j - k)
  BY <1>1, <1>2, <1>3, <1>4
<1>6. (IndexOf(n) + IndexMod * (j - k)) % IndexMod = IndexOf(n)
  <2>1. j - k \in Int /\ IndexOf(n) \in 0 .. IndexMod - 1
    BY <1>2 DEF Index
  <2> QED BY <2>1, ModUnique
<1> QED BY <1>0, <1>5, <1>6

\* The index has not turned round since the reader last looked: a process that is slower
\* than that, over 2^32 indices, is told too few lost frames.
LessThanATurnBehind ==
  \A r \in Readers \ {Throttler} :
    rd[r].pc # "absent" => Written - Position(r) =< FrameCount * (Trips - 1)

\* A client of a flushing reader does not call available(), which moves the front over
\* frames that it has still to release.
FlushersDoNotAsk == \A c \in ReaderCalls : c[1] = "available" => FlushReaders = {}

\* Where a reader m is, with w frames written.
Follows(r, m, w) ==
  /\ m.call.op = "available" => r \notin FlushReaders
  /\ m.pc = "absent" => m.start = 0 /\ m.totalReleased = 0 /\ m.obtained = 0
  /\ m.pc # "absent" => m.localFront = IndexOf(m.start + m.totalReleased)
  /\ m.start + m.totalReleased + m.obtained =< w

FollowInv ==
  /\ wr.localRear = IndexOf(Written) /\ rear = wr.localRear
  /\ \A r \in Readers : Follows(r, rd[r], Written)

LEMMA FollowTypes ==
  ASSUME TypeInv, NEW r \in Readers
  PROVE  /\ rd \in [Readers -> ReaderState] /\ rd[r] \in ReaderState /\ wr \in WriterState
         /\ Written \in Nat /\ Position(r) \in Nat /\ Position(r) = rd[r].start + rd[r].totalReleased
         /\ rd[r].start \in Nat /\ rd[r].totalReleased \in Nat
         /\ rd[r].obtained \in 0 .. FrameCount /\ rd[r].localFront \in Index
         /\ rd[r].call \in CallState
BY DEF TypeInv, WriterOK, WriterState, ReaderState, Written, Position

\* A step of one reader leaves the others where they were.
LEMMA OneFollows ==
  ASSUME TypeInv, FollowInv, NEW r \in Readers, NEW m, Follows(r, m, Written),
         rd' = [rd EXCEPT ![r] = m], rear' = rear,
         wr'.localRear = wr.localRear, wr'.totalReleased = wr.totalReleased
  PROVE  FollowInv'
<1>1. Written' = Written
  BY DEF Written
<1>2. \A q \in Readers : rd'[q] = IF q = r THEN m ELSE rd[q]
  BY DEF TypeInv
<1>3. \A q \in Readers : Follows(q, rd'[q], Written)
  BY <1>2 DEF FollowInv
<1> QED BY <1>1, <1>3 DEF FollowInv

LEMMA WriterLeads ==
  ASSUME TypeInv, FollowInv, WriterNext
  PROVE  FollowInv'
<1>1. wr \in WriterState /\ Written \in Nat /\ rd \in [Readers -> ReaderState]
  BY DEF TypeInv, WriterOK, WriterState, Written
<1>2. ASSUME rd' = rd, rear' = rear, wr'.localRear = wr.localRear,
             wr'.totalReleased = wr.totalReleased
      PROVE  FollowInv'
  BY <1>2 DEF FollowInv, Written
<1>3. CASE WObtain \/ WWait \/ WTimeout \/ WSignal \/ WReleaseTooMany
  BY <1>1, <1>2, <1>3 DEF WObtain, WWait, WTimeout, WSignal, WReleaseTooMany, WriterState
<1>4. CASE WResize \/ WSetHysteresis
  BY <1>1, <1>2, <1>4 DEF WResize, WSetHysteresis, WriterState
<1>5. CASE WLoadThrottled \/ WLoadUnthrottled
  <2>1. rd' = rd /\ rear' = rear
    BY <1>5 DEF WLoadThrottled, WLoadUnthrottled
  <2>2. (\E avail, err : WFinish(avail, err))
          \/ wr' = [wr EXCEPT !.pc = "wait", !.call.seen = front]
    BY <1>5 DEF WLoadThrottled, WLoadUnthrottled
  <2>3. wr'.localRear = wr.localRear /\ wr'.totalReleased = wr.totalReleased
    BY <1>1, <2>2 DEF WFinish, WriterState
  <2> QED BY <1>2, <2>1, <2>3
<1>6. CASE WRelease
  BY <1>1, <1>2, <1>6 DEF WRelease, WReleaseOf, WriterState
<1>7. CASE WWake
  <2>1. /\ rear' = rear /\ wr'.localRear = wr.localRear
        /\ wr'.totalReleased = wr.totalReleased
    BY <1>1, <1>7 DEF WWake, WriterState
  <2>2. ASSUME NEW r \in Readers PROVE Follows(r, rd'[r], Written)
    <3>1. rd[r] \in ReaderState /\ rd[r].call \in CallState /\ Follows(r, rd[r], Written)
      BY FollowTypes DEF FollowInv
    <3>2. CASE rd[r].pc = "sleep"
      <4>1. rd'[r] = [rd[r] EXCEPT !.pc = "load", !.call = AfterWait(rd[r].call, 0)]
        BY <1>7, <3>2 DEF WWake
      <4>2. /\ rd'[r].pc = "load" /\ rd'[r].call.op = rd[r].call.op
            /\ rd'[r].localFront = rd[r].localFront /\ rd'[r].start = rd[r].start
            /\ rd'[r].totalReleased = rd[r].totalReleased /\ rd'[r].obtained = rd[r].obtained
        <5>1. AfterWait(rd[r].call, 0).op = rd[r].call.op
          BY <3>1 DEF CallState, AfterWait
        <5>2. PICK call : call = AfterWait(rd[r].call, 0)
          OBVIOUS
        <5> QED BY <3>1, <4>1, <5>1, <5>2 DEF ReaderState
      <4> QED BY <3>1, <3>2, <4>2 DEF Follows
    <3>3. CASE rd[r].pc # "sleep"
      BY <1>7, <3>1, <3>3 DEF WWake
    <3> QED BY <3>2, <3>3
  <2>3. Written' = Written
    BY <2>1 DEF Written
  <2> QED BY <2>1, <2>2, <2>3 DEF FollowInv
<1>8. CASE WStore
  <2> DEFINE n == wr.call.count
  <2>1. n \in 0 .. FrameCount
    BY <1>1, <1>8, Constants DEF WStore, TypeInv, WriterOK, WriterState, CallState
  <2>2. /\ wr'.localRear = Sum(wr.localRear, n) /\ rear' = Sum(wr.localRear, n)
        /\ wr'.totalReleased = wr.totalReleased + n /\ rd' = rd
    BY <1>1, <1>8 DEF WStore, WriterState
  <2>3. Sum(wr.localRear, n) = IndexOf(Written + n)
    BY <1>1, <2>1, SumIndexOf DEF FollowInv
  <2>4. Written' = Written + n
    BY <2>2 DEF Written
  <2> HIDE DEF n
  <2>5. ASSUME NEW r \in Readers PROVE Follows(r, rd[r], Written + n)
    <3>1. Follows(r, rd[r], Written)
      BY DEF FollowInv
    <3>2. PICK p \in Int : p = rd[r].start + rd[r].totalReleased + rd[r].obtained
      BY FollowTypes, Constants
    <3>3. p =< Written => p =< Written + n
      BY <1>1, <2>1, <3>2
    <3> QED BY <3>1, <3>2, <3>3 DEF Follows
  <2> QED BY <2>2, <2>3, <2>4, <2>5 DEF FollowInv
<1> QED BY <1>3, <1>4, <1>5, <1>6, <1>7, <1>8 DEF WriterNext

\* The end of obtain(): a reader that was overtaken is at the oldest frame that is still
\* there, one that was not has what it asked for, from where it was.
LEMMA FinishFollows ==
  ASSUME TypeInv, PosInv, FollowInv, LessThanATurnBehind, NEW r \in Readers,
         rd[r].pc = "load", RFinish(r)
  PROVE  \E m : /\ Follows(r, m, Written) /\ rd' = [rd EXCEPT ![r] = m]
                /\ m.ret > 0 => /\ m.localFront = IndexOf(Position(r))
                                /\ Written - FrameCount =< Position(r)
                                /\ Position(r) + m.ret =< Written
<1> DEFINE me     == rd[r]
           filled == DiffBy(r, rear, me.localFront)
           lost   == LostBy(r, rear, me.localFront)
           n      == IF filled < 0 THEN 0 ELSE MinOf(filled, me.call.count)
           caught == (rear - (IF r \in FlushReaders THEN 0 ELSE FrameCountP2)) % IndexMod
           again  == me.call.op \in {"read", "flush"} /\ n > 0
           ret    == IF n > 0 THEN n ELSE IF filled < 0 THEN filled ELSE me.call.err
           moved  == IF filled = EOVERFLOW THEN caught ELSE me.localFront
           held   == IF me.call.op = "available" THEN me.obtained ELSE n
           call   == [Call EXCEPT !.op = IF again THEN me.call.op ELSE "none"]
           next   == [me EXCEPT !.pc = IF again THEN "release" ELSE "idle",
                                !.localFront = moved, !.obtained = held,
                                !.totalLost = @ + lost, !.totalReleased = @ + lost,
                                !.ret = ret, !.call = call]
           kept   == IF r \in FlushReaders THEN 0 ELSE FrameCount
           lag    == Written - Position(r)
<1>1. /\ me \in ReaderState /\ me.start \in Nat /\ me.totalReleased \in Nat
      /\ me.obtained \in 0 .. FrameCount /\ Position(r) = me.start + me.totalReleased
      /\ Written \in Nat /\ Position(r) \in Nat
      /\ me.call.count \in Nat /\ me.call.err \in Outcomes \cup {0}
  BY FollowTypes DEF CallState
<1>2. /\ rear = IndexOf(Written) /\ me.localFront = IndexOf(Position(r))
      /\ me.call.op = "available" => r \notin FlushReaders
      /\ Position(r) + me.obtained =< Written
  BY <1>1 DEF FollowInv, Follows
<1>3. lag \in Nat /\ kept \in {0, FrameCount}
  BY <1>1, <1>2, Constants
<1>4. rd' = [rd EXCEPT ![r] = next]
  BY DEF RFinish
<1>5. /\ next.pc # "absent" /\ next.localFront = moved /\ next.obtained = held
      /\ next.start = me.start /\ next.totalReleased = me.totalReleased + lost
      /\ next.ret = ret /\ next.call = call
  BY <1>1 DEF ReaderState
<1>6. call.op = "available" => FALSE
  BY DEF Call
<1>7. \/ filled = EIO /\ lost = 0
      \/ filled = lag /\ lost = 0 /\ lag =< FrameCount
      \/ filled = EOVERFLOW /\ lost = lag - kept /\ lag > FrameCount
  <2>1. CASE r \in shut
    BY <2>1 DEF DiffBy, LostBy
  <2>2. CASE r \notin shut /\ lag =< FrameCount
    <3>1. /\ Diff(IndexOf(Written), IndexOf(Position(r))) = lag
          /\ \A flush : Lost(IndexOf(Written), IndexOf(Position(r)), flush) = 0
      BY <1>1, <1>3, <2>2, DiffIndexOf
    <3> QED BY <1>2, <2>2, <3>1 DEF DiffBy, LostBy
  <2>3. CASE r \notin shut /\ lag > FrameCount
    <3>1. r # Throttler
      <4> SUFFICES ASSUME r = Throttler PROVE FALSE
        OBVIOUS
      <4>1. Throttled
        BY FifoAssumption DEF Throttled
      <4>2. Written - Position(Throttler) =< FrameCount
        BY <4>1, Positions
      <4>3. lag =< FrameCount
        BY <4>2
      <4> HIDE DEF lag
      <4> QED BY <1>3, <2>3, <4>3, Constants
    <3>2. lag =< FrameCount * (Trips - 1)
      BY <3>1 DEF LessThanATurnBehind
    <3>3. /\ Diff(IndexOf(Written), IndexOf(Position(r))) = EOVERFLOW
          /\ \A flush : Lost(IndexOf(Written), IndexOf(Position(r)), flush)
                          = lag - (IF flush THEN 0 ELSE FrameCount)
      BY <1>1, <1>3, <2>3, <3>2, LostIndexOf
    <3> QED BY <1>2, <2>3, <3>3 DEF DiffBy, LostBy
  <2> QED BY <1>3, <2>1, <2>2, <2>3, Constants
<1>8. caught = IndexOf(Written - kept) \/ lag =< FrameCount
  <2>1. CASE r \in FlushReaders
    <3>1. rear \in Index
      BY DEF TypeInv, SharedOK
    <3>2. (rear - 0) % IndexMod = rear
      BY <3>1, Constants DEF Index
    <3> QED BY <1>1, <1>2, <2>1, <3>2
  <2>2. CASE r \notin FlushReaders /\ lag > FrameCount
    <3>1. Written >= FrameCount
      BY <1>1, <2>2, Constants
    <3> QED BY <1>1, <1>2, <2>2, <3>1, JumpIndexOf
  <2> QED BY <1>3, <2>1, <2>2, Constants
<1>9. PICK p \in Nat : p = Position(r)
  BY <1>1
<1>10. /\ moved = IndexOf(p + lost) /\ p + lost + held =< Written
       /\ ret > 0 => lost = 0 /\ p + ret =< Written /\ Written - FrameCount =< p
  <2> HIDE DEF me, caught, again, call, next
  <2>1. CASE filled = EIO /\ lost = 0
    <3>1. n = 0 /\ ret = EIO /\ moved = me.localFront
      BY <2>1 DEF EIO, EOVERFLOW
    <3>2. held \in {me.obtained, 0}
      BY <3>1
    <3> HIDE DEF n, ret, moved, held
    <3> QED BY <1>1, <1>2, <1>9, <2>1, <3>1, <3>2, Constants DEF EIO
  <2>2. CASE filled = lag /\ lost = 0 /\ lag =< FrameCount
    <3>1. n \in 0 .. lag /\ moved = me.localFront
      BY <1>1, <1>3, <2>2, MinType DEF EOVERFLOW, MinOf
    <3>2. ret > 0 => ret \in 1 .. lag
      BY <1>1, <1>3, <2>2, <3>1 DEF Outcomes, Errors, SyscallFailed, EINTR, EIO, EWOULDBLOCK, EOVERFLOW, ETIMEDOUT
    <3>3. held \in {me.obtained, n}
      OBVIOUS
    <3> HIDE DEF n, ret, moved, held
    <3> QED BY <1>1, <1>2, <1>9, <2>2, <3>1, <3>2, <3>3, Constants
  <2>3. CASE filled = EOVERFLOW /\ lost = lag - kept /\ lag > FrameCount
    <3>1. n = 0 /\ ret = EOVERFLOW /\ moved = caught
      BY <2>3 DEF EOVERFLOW
    <3>2. held = 0 \/ (held = me.obtained /\ kept = FrameCount)
      <4>1. me.call.op = "available" => kept = FrameCount
        BY <1>2
      <4>2. held = IF me.call.op = "available" THEN me.obtained ELSE 0
        BY <3>1
      <4> HIDE DEF held, kept, n
      <4> QED BY <4>1, <4>2
    <3>3. caught = IndexOf(Written - kept)
      BY <1>3, <1>8, <2>3, Constants
    <3>4. p + lost = Written - kept
      BY <1>1, <1>3, <1>9, <2>3, Constants
    <3> HIDE DEF n, ret, moved, held, lag, lost, kept
    <3> QED BY <1>1, <1>3, <2>3, <3>1, <3>2, <3>3, <3>4, Constants DEF EOVERFLOW
  <2> QED BY <1>7, <2>1, <2>2, <2>3
<1> HIDE DEF me, filled, lost, n, caught, again, ret, moved, held, call, next, kept, lag
<1>11. Follows(r, next, Written)
  <2>1. lost \in Int
    BY <1>1, <1>3, <1>7, Constants
  <2>2. next.start + next.totalReleased = p + lost
    BY <1>1, <1>5, <1>9, <2>1
  <2> QED BY <1>5, <1>6, <1>10, <2>2 DEF Follows
<1>12. next.ret > 0 => /\ next.localFront = IndexOf(p) /\ Written - FrameCount =< p
                       /\ p + next.ret =< Written
  BY <1>5, <1>9, <1>10
<1> QED BY <1>4, <1>9, <1>11, <1>12

LEMMA ReaderFollows ==
  ASSUME TypeInv, PosInv, FollowInv, LessThanATurnBehind, FlushersDoNotAsk,
         NEW r \in Readers, ReaderNext(r)
  PROVE  FollowInv'
<1>1. /\ rd[r] \in ReaderState /\ rd[r].call \in CallState /\ wr \in WriterState
      /\ rd[r].start \in Nat /\ rd[r].totalReleased \in Nat /\ rd[r].obtained \in 0 .. FrameCount
      /\ Position(r) \in Nat /\ Position(r) = rd[r].start + rd[r].totalReleased
      /\ Written \in Nat /\ Follows(r, rd[r], Written)
  BY FollowTypes DEF FollowInv
<1>2. ASSUME NEW m, Follows(r, m, Written), rd' = [rd EXCEPT ![r] = m],
             UNCHANGED <<rear, wr>>
      PROVE  FollowInv'
  BY <1>2, OneFollows
<1>3. ASSUME NEW m, rd' = [rd EXCEPT ![r] = m], rear' = rear,
             wr'.localRear = wr.localRear, wr'.totalReleased = wr.totalReleased,
             m.pc # "absent", rd[r].pc # "absent", m.localFront = rd[r].localFront,
             m.start = rd[r].start, m.totalReleased = rd[r].totalReleased,
             m.obtained = rd[r].obtained,
             m.call.op = rd[r].call.op \/ m.call.op = "none"
      PROVE  FollowInv'
  <2>1. Follows(r, m, Written)
    BY <1>1, <1>3 DEF Follows
  <2> QED BY <1>3, <2>1, OneFollows
\* A release moves the front over frames of the slice.
<1>4. ASSUME NEW m, NEW n \in 0 .. rd[r].obtained, rd' = [rd EXCEPT ![r] = m],
             UNCHANGED <<rear, wr>>, m.pc # "absent", rd[r].pc # "absent",
             m.localFront = Sum(rd[r].localFront, n), m.start = rd[r].start,
             m.totalReleased = rd[r].totalReleased + n, m.obtained = rd[r].obtained - n,
             m.call = Call
      PROVE  FollowInv'
  <2>1. n \in 0 .. FrameCount
    BY <1>1, Constants
  <2>2. Sum(rd[r].localFront, n) = IndexOf(Position(r) + n)
    BY <1>1, <1>4, <2>1, SumIndexOf DEF Follows
  <2>3. m.start + m.totalReleased = Position(r) + n
    BY <1>1, <1>4, <2>1
  <2>4. Position(r) + n + (rd[r].obtained - n) =< Written
    BY <1>1, <2>1, Constants DEF Follows
  <2>5. Follows(r, m, Written)
    BY <1>4, <2>2, <2>3, <2>4 DEF Follows, Call
  <2> QED BY <1>2, <1>4, <2>5
<1>5. CASE RJoin(r)
  <2> DEFINE m == [rd[r] EXCEPT !.pc = "idle",
                                !.localFront = IF r = Throttler THEN 0 ELSE rear,
                                !.start = IF r = Throttler THEN 0 ELSE Written]
  <2>1. rd' = [rd EXCEPT ![r] = m] /\ UNCHANGED <<rear, wr>> /\ rd[r].pc = "absent"
    BY <1>5 DEF RJoin
  <2>2. /\ m.pc = "idle" /\ m.localFront = IF r = Throttler THEN 0 ELSE rear
        /\ m.start = IF r = Throttler THEN 0 ELSE Written
        /\ m.totalReleased = rd[r].totalReleased /\ m.obtained = rd[r].obtained
        /\ m.call = rd[r].call
    BY <1>1 DEF ReaderState
  <2> HIDE DEF m
  <2>3. rd[r].totalReleased = 0 /\ rd[r].obtained = 0
    BY <1>1, <2>1 DEF Follows
  <2>4. rear = IndexOf(Written)
    BY DEF FollowInv
  <2>5. m.localFront = IndexOf(m.start + m.totalReleased)
    BY <1>1, <2>2, <2>3, <2>4, IndexOfZero
  <2>6. m.start + m.totalReleased + m.obtained =< Written
    BY <1>1, <2>2, <2>3
  <2>7. Follows(r, m, Written)
    BY <1>1, <2>2, <2>5, <2>6 DEF Follows
  <2> QED BY <1>2, <2>1, <2>7
<1>6. CASE RObtain(r)
  <2>1. PICK c \in ReaderCalls :
          rd' = [rd EXCEPT ![r] =
                  [rd[r] EXCEPT !.pc = "load",
                            !.call = [Call EXCEPT !.op = c[1], !.count = c[2],
                                                  !.timeout = c[3], !.retries = kRetries]]]
    BY <1>6 DEF RObtain
  <2> DEFINE call == [Call EXCEPT !.op = c[1], !.count = c[2],
                                  !.timeout = c[3], !.retries = kRetries]
             m    == [rd[r] EXCEPT !.pc = "load", !.call = call]
  <2>2. call.op = c[1]
    BY DEF Call
  <2>3. c[1] = "available" => r \notin FlushReaders
    BY DEF FlushersDoNotAsk
  <2>4. rd' = [rd EXCEPT ![r] = m]
    BY <2>1
  <2> HIDE DEF call
  <2>5. /\ m.pc = "load" /\ m.localFront = rd[r].localFront /\ m.start = rd[r].start
        /\ m.totalReleased = rd[r].totalReleased /\ m.obtained = rd[r].obtained
        /\ m.call = call
    BY <1>1 DEF ReaderState
  <2> HIDE DEF m
  <2>6. rd[r].pc # "absent" /\ UNCHANGED <<rear, wr>>
    BY <1>6 DEF RObtain
  <2>7. Follows(r, m, Written)
    BY <1>1, <2>2, <2>3, <2>5, <2>6 DEF Follows
  <2> QED BY <1>2, <2>4, <2>6, <2>7
<1>7. CASE RLoad(r)
  <2>1. rd[r].pc = "load" /\ UNCHANGED <<rear, wr>>
    BY <1>7 DEF RLoad
  <2>2. CASE RFinish(r)
    BY <1>2, <2>1, <2>2, FinishFollows
  <2>3. CASE rd' = [rd EXCEPT ![r] = [rd[r] EXCEPT !.pc = "wait", !.call.seen = rear]]
    <3> DEFINE m == [rd[r] EXCEPT !.pc = "wait", !.call.seen = rear]
    <3>1. /\ m.pc = "wait" /\ m.localFront = rd[r].localFront /\ m.start = rd[r].start
          /\ m.totalReleased = rd[r].totalReleased /\ m.obtained = rd[r].obtained
          /\ m.call.op = rd[r].call.op
      BY <1>1 DEF ReaderState, CallState
    <3> QED BY <1>3, <2>1, <2>3, <3>1
  <2> QED BY <1>7, <2>2, <2>3 DEF RLoad
<1>8. CASE RWait(r) \/ RTimeout(r) \/ RSignal(r)
  <2>1. PICK m \in {[rd[r] EXCEPT !.pc = "sleep"],
                    [rd[r] EXCEPT !.pc = "load", !.call = AfterWouldBlock(@)],
                    [rd[r] EXCEPT !.pc = "load", !.call = AfterWait(@, ETIMEDOUT)],
                    [rd[r] EXCEPT !.pc = "load", !.call = AfterWait(@, EINTR)]} :
          rd' = [rd EXCEPT ![r] = m]
    BY <1>8 DEF RWait, RTimeout, RSignal
  <2>2. rd[r].pc # "absent" /\ UNCHANGED <<rear, wr>>
    BY <1>8 DEF RWait, RTimeout, RSignal
  <2>3. /\ AfterWouldBlock(rd[r].call).op = rd[r].call.op
        /\ \A e : AfterWait(rd[r].call, e).op = rd[r].call.op
    BY <1>1 DEF AfterWouldBlock, AfterWait, CallState
  <2>4. /\ m.pc # "absent" /\ m.localFront = rd[r].localFront /\ m.start = rd[r].start
        /\ m.totalReleased = rd[r].totalReleased /\ m.obtained = rd[r].obtained
        /\ m.call.op = rd[r].call.op
    <3>1. ASSUME NEW call, call.op = rd[r].call.op,
                 m = [rd[r] EXCEPT !.pc = "load", !.call = call]
          PROVE  /\ m.pc = "load" /\ m.localFront = rd[r].localFront /\ m.start = rd[r].start
                 /\ m.totalReleased = rd[r].totalReleased /\ m.obtained = rd[r].obtained
                 /\ m.call.op = rd[r].call.op
      BY <1>1, <3>1 DEF ReaderState
    <3>2. CASE m = [rd[r] EXCEPT !.pc = "sleep"]
      BY <1>1, <3>2 DEF ReaderState
    <3> QED BY <2>1, <2>3, <3>1, <3>2
  <2> QED BY <1>3, <2>1, <2>2, <2>4
<1>9. CASE RReleaseTooMany(r) \/ RSetHysteresis(r)
  <2>1. CASE RReleaseTooMany(r)
    BY <2>1 DEF RReleaseTooMany, FollowInv, Written
  <2>2. CASE RSetHysteresis(r)
    <3>0. PICK l \in ReaderLevels :
            LET arm == IF l[1] < 0 THEN -1 ELSE MinOf(l[1], FrameCount)
            IN  rd' = [rd EXCEPT ![r] =
                        [rd[r] EXCEPT !.isArmed = @ \/ arm < rd[r].armLevel,
                                      !.armLevel = arm,
                                      !.triggerLevel = MinOf(l[2], FrameCount)]]
      BY <2>2 DEF RSetHysteresis
    <3> DEFINE arm     == IF l[1] < 0 THEN -1 ELSE MinOf(l[1], FrameCount)
               level   == MinOf(l[2], FrameCount)
               isArmed == rd[r].isArmed \/ arm < rd[r].armLevel
    <3>1. rd' = [rd EXCEPT ![r] = [rd[r] EXCEPT !.isArmed = isArmed, !.armLevel = arm,
                                                !.triggerLevel = level]]
      BY <3>0
    <3> HIDE DEF arm, level, isArmed
    <3>2. rd[r].pc = "idle" /\ UNCHANGED <<rear, wr>>
      BY <2>2 DEF RSetHysteresis
    <3> DEFINE m == [rd[r] EXCEPT !.isArmed = isArmed, !.armLevel = arm, !.triggerLevel = level]
    <3>3. /\ m.pc = rd[r].pc /\ m.localFront = rd[r].localFront /\ m.start = rd[r].start
          /\ m.totalReleased = rd[r].totalReleased /\ m.obtained = rd[r].obtained
          /\ m.call.op = rd[r].call.op
      BY <1>1 DEF ReaderState
    <3> QED BY <1>3, <3>1, <3>2, <3>3
  <2> QED BY <1>9, <2>1, <2>2
<1>10. CASE RRelease(r)
  <2>1. PICK n \in 0 .. rd[r].obtained : RReleaseOf(r, n)
    BY <1>1, <1>10 DEF RRelease
  <2>2. rd[r].pc # "absent" /\ UNCHANGED <<rear, wr>>
    BY <1>10 DEF RRelease, RReleaseOf
  <2>3. CASE r = Throttler
    <3>1. PICK filled :
            rd' = [rd EXCEPT ![r] = [rd[r] EXCEPT !.pc = "store", !.call.count = n,
                                                  !.call.filled = filled]]
      BY <2>1, <2>3 DEF RReleaseOf
    <3> DEFINE m == [rd[r] EXCEPT !.pc = "store", !.call.count = n, !.call.filled = filled]
    <3>2. /\ m.pc = "store" /\ m.localFront = rd[r].localFront /\ m.start = rd[r].start
          /\ m.totalReleased = rd[r].totalReleased /\ m.obtained = rd[r].obtained
          /\ m.call.op = rd[r].call.op
      BY <1>1 DEF ReaderState, CallState
    <3> QED BY <1>3, <2>2, <3>1, <3>2
  <2>4. CASE r # Throttler
    <3>1. PICK flushed :
            rd' = [rd EXCEPT ![r] = [rd[r] EXCEPT !.pc = "idle",
                                !.localFront = Sum(@, n), !.obtained = @ - n,
                                !.totalReleased = @ + n, !.totalFlushed = flushed,
                                !.call = Call]]
      BY <2>1, <2>4 DEF RReleaseOf
    <3> DEFINE m == [rd[r] EXCEPT !.pc = "idle", !.localFront = Sum(@, n), !.obtained = @ - n,
                                  !.totalReleased = @ + n, !.totalFlushed = flushed,
                                  !.call = Call]
    <3>2. /\ m.pc = "idle" /\ m.localFront = Sum(rd[r].localFront, n)
          /\ m.start = rd[r].start /\ m.totalReleased = rd[r].totalReleased + n
          /\ m.obtained = rd[r].obtained - n /\ m.call = Call
      BY <1>1 DEF ReaderState
    <3> QED BY <1>4, <2>2, <3>1, <3>2
  <2> QED BY <2>3, <2>4
<1>11. CASE RStore(r)
  <2> DEFINE n == rd[r].call.count
  <2>1. n \in 0 .. rd[r].obtained /\ rd[r].pc # "absent" /\ UNCHANGED <<rear, wr>>
    BY <1>1, <1>11, Constants DEF RStore, TypeInv, ReaderOK, CallState
  <2>2. PICK pc, isArmed, flushed :
          /\ pc # "absent"
          /\ rd' = [rd EXCEPT ![r] = [rd[r] EXCEPT !.pc = pc, !.localFront = Sum(@, n),
                                 !.isArmed = isArmed, !.obtained = @ - n,
                                 !.totalReleased = @ + n, !.totalFlushed = flushed,
                                 !.call = Call]]
    BY <1>11 DEF RStore
  <2> HIDE DEF n
  <2> DEFINE m == [rd[r] EXCEPT !.pc = pc, !.localFront = Sum(@, n), !.isArmed = isArmed,
                                !.obtained = @ - n, !.totalReleased = @ + n,
                                !.totalFlushed = flushed, !.call = Call]
  <2>3. /\ m.pc = pc /\ m.localFront = Sum(rd[r].localFront, n)
        /\ m.start = rd[r].start /\ m.totalReleased = rd[r].totalReleased + n
        /\ m.obtained = rd[r].obtained - n /\ m.call = Call
    BY <1>1 DEF ReaderState
  <2> QED BY <1>4, <2>1, <2>2, <2>3
<1>12. CASE RWake(r)
  <2>1. /\ rd' = [rd EXCEPT ![r] = [rd[r] EXCEPT !.pc = "idle"]] /\ rear' = rear
        /\ wr'.localRear = wr.localRear /\ wr'.totalReleased = wr.totalReleased
        /\ rd[r].pc # "absent"
    BY <1>1, <1>12 DEF RWake, WriterState
  <2> DEFINE m == [rd[r] EXCEPT !.pc = "idle"]
  <2>2. /\ m.pc = "idle" /\ m.localFront = rd[r].localFront /\ m.start = rd[r].start
        /\ m.totalReleased = rd[r].totalReleased /\ m.obtained = rd[r].obtained
        /\ m.call.op = rd[r].call.op
    BY <1>1 DEF ReaderState
  <2> QED BY <1>3, <2>1, <2>2
<1> QED BY <1>5, <1>6, <1>7, <1>8, <1>9, <1>10, <1>11, <1>12 DEF ReaderNext

LEMMA FollowInit == FifoInit => FollowInv
BY IndexOfZero, FifoAssumption, Constants DEF FifoInit, FollowInv, Follows, Written, Call

LEMMA FollowStep ==
  ASSUME FlushersDoNotAsk, TypeInv, PosInv, FollowInv, LessThanATurnBehind, [FifoNext]_fifoVars
  PROVE  FollowInv'
<1>1. CASE WriterNext
  BY <1>1, WriterLeads
<1>2. CASE \E r \in Readers : ReaderNext(r)
  BY <1>2, ReaderFollows
<1>3. CASE ShutdownSeen \/ UNCHANGED fifoVars
  BY <1>3 DEF ShutdownSeen, fifoVars, FollowInv, Written
<1> QED BY <1>1, <1>2, <1>3 DEF FifoNext

LEMMA IndParts == IndInv <=> TypeInv /\ PosInv
BY TypeInvParts DEF IndInv, PosInv

\* Readers that the writer overtakes, as often as it does: what they and the clients take
\* for the number of frames read and lost is right (fifo.cpp:86-117, 607-619).  For any
\* number of readers, flushing or not, while none is a whole turn of the indices behind.
THEOREM LappedReaders ==
  ASSUME FlushersDoNotAsk
  PROVE  FifoSpec /\ []LessThanATurnBehind => []IndicesMatchTotals
<1>1. FifoInit => FollowInv
  BY FollowInit
<1>2. IndInv /\ FollowInv /\ LessThanATurnBehind /\ [FifoNext]_fifoVars => FollowInv'
  BY FollowStep, IndParts
<1>3. IndInv /\ FollowInv => IndicesMatchTotals
  BY DEF IndInv, ThrottledIndices, FollowInv, Follows, IndicesMatchTotals, Position
<1> QED BY <1>1, <1>2, <1>3, Invariant, PTL DEF FifoSpec

\* No reader is ever ahead of the writer, under the same conditions: what it is said to
\* have lost, and has jumped over, had been written (fifo.cpp:607-623).
THEOREM ReadersStayBehind ==
  ASSUME FlushersDoNotAsk
  PROVE  FifoSpec /\ []LessThanATurnBehind => []ReadersBehindWriter
<1>1. FifoInit => FollowInv
  BY FollowInit
<1>2. IndInv /\ FollowInv /\ LessThanATurnBehind /\ [FifoNext]_fifoVars => FollowInv'
  BY FollowStep, IndParts
<1>3. IndInv /\ FollowInv => ReadersBehindWriter
  <2> SUFFICES ASSUME IndInv, FollowInv, NEW r \in Readers PROVE Position(r) =< Written
    BY DEF ReadersBehindWriter
  <2> QED BY IndParts, FollowTypes, Constants DEF FollowInv, Follows
<1> QED BY <1>1, <1>2, <1>3, Invariant, PTL DEF FifoSpec

\* A reader in obtain() goes on by itself alone.
LEMMA LoadEnds ==
  ASSUME TypeInv, [FifoNext]_fifoVars, NEW r \in Readers, rd[r].pc = "load",
         rd'[r].pc \in {"idle", "release"}
  PROVE  RFinish(r)
<1>1. rd \in [Readers -> ReaderState]
  BY DEF TypeInv
<1>2. ASSUME rd'[r] = rd[r] PROVE FALSE
  BY <1>2
<1>3. ~ WriterNext
  <2>1. WriterNext => rd' = rd \/ WWake
    BY DEF WriterNext, WObtain, WLoadThrottled, WLoadUnthrottled, WWait, WTimeout, WSignal,
           WRelease, WReleaseOf, WReleaseTooMany, WStore, WResize, WSetHysteresis
  <2>2. WWake => rd'[r] = rd[r]
    BY DEF WWake
  <2> QED BY <1>2, <2>1, <2>2
<1>4. ASSUME NEW q \in Readers, ReaderNext(q), q # r PROVE FALSE
  <2>1. rd'[r] = rd[r]
    BY <1>1, <1>4 DEF ReaderNext, RJoin, RObtain, RLoad, RFinish, RWait, RTimeout, RSignal,
                      RRelease, RReleaseOf, RReleaseTooMany, RStore, RWake, RSetHysteresis
  <2> QED BY <1>2, <2>1
<1>5. ReaderNext(r)
  BY <1>2, <1>3, <1>4 DEF FifoNext, ShutdownSeen, fifoVars
<1>6. RLoad(r)
  BY <1>2, <1>5 DEF ReaderNext, RJoin, RObtain, RWait, RTimeout, RSignal, RRelease,
                    RReleaseTooMany, RStore, RWake, RSetHysteresis
<1>7. rd' # [rd EXCEPT ![r] = [rd[r] EXCEPT !.pc = "wait", !.call.seen = rear]]
  BY <1>1 DEF ReaderState
<1> QED BY <1>6, <1>7 DEF RLoad

\* What obtain() gives to such a reader is among the newest frames, of which none has
\* been overwritten: it has jumped first, if it had to (fifo.cpp:608-619).
THEOREM NewestOnly ==
  ASSUME FlushersDoNotAsk
  PROVE  FifoSpec /\ []LessThanATurnBehind => NothingOverwrittenIsHandedOut
<1> DEFINE Newest ==
      \A r \in Readers :
       (rd[r].pc = "load" /\ rd'[r].pc \in {"idle", "release"} /\ rd'[r].ret > 0)
          => \E k \in 0 .. Written : /\ IndexOf(k) = rd'[r].localFront
                                   /\ Written - FrameCount =< k
                                   /\ k + rd'[r].ret =< Written
<1>1. FifoInit => FollowInv
  BY FollowInit
<1>2. IndInv /\ FollowInv /\ LessThanATurnBehind /\ [FifoNext]_fifoVars => FollowInv'
  BY FollowStep, IndParts
<1>3. IndInv /\ FollowInv /\ LessThanATurnBehind /\ [FifoNext]_fifoVars => [Newest]_fifoVars
  <2> SUFFICES ASSUME IndInv, FollowInv, LessThanATurnBehind, [FifoNext]_fifoVars, NEW r \in Readers,
                      rd[r].pc = "load", rd'[r].pc \in {"idle", "release"}, rd'[r].ret > 0
               PROVE  \E k \in 0 .. Written : /\ IndexOf(k) = rd'[r].localFront
                                              /\ Written - FrameCount =< k
                                              /\ k + rd'[r].ret =< Written
    OBVIOUS
  <2>1. TypeInv /\ PosInv
    BY IndParts
  <2>2. RFinish(r)
    BY <2>1, LoadEnds
  <2>3. PICK m : /\ Follows(r, m, Written) /\ rd' = [rd EXCEPT ![r] = m]
                 /\ m.ret > 0 => /\ m.localFront = IndexOf(Position(r))
                                 /\ Written - FrameCount =< Position(r)
                                 /\ Position(r) + m.ret =< Written
    BY <2>1, <2>2, FinishFollows
  <2>4. rd'[r] = m
    BY <2>1, <2>3 DEF TypeInv
  <2>5. Position(r) \in 0 .. Written
    BY <2>1, FollowTypes, Constants DEF FollowInv, Follows
  <2> QED BY <2>3, <2>4, <2>5
<1> HIDE DEF Newest
<1>4. FifoSpec /\ []LessThanATurnBehind => [][Newest]_fifoVars
  BY <1>1, <1>2, <1>3, Invariant, PTL DEF FifoSpec
<1> QED BY <1>4 DEF Newest, NothingOverwrittenIsHandedOut

-----------------------------------------------------------------------------
(* The effective size *)

LEMMA WriterLoadEnds ==
  ASSUME TypeInv, [FifoNext]_fifoVars, Throttled, wr.pc = "load", wr'.pc \in {"idle", "release"}
  PROVE  WLoadThrottled
<1>1. wr \in WriterState
  BY DEF TypeInv, WriterOK
<1>2. wr' # wr
  OBVIOUS
<1>3. ASSUME NEW r \in Readers, ReaderNext(r) PROVE FALSE
  BY <1>2, <1>3 DEF ReaderNext, RJoin, RObtain, RLoad, RWait, RTimeout, RSignal, RRelease,
                    RReleaseOf, RReleaseTooMany, RStore, RWake, RSetHysteresis
<1>4. WriterNext
  BY <1>2, <1>3 DEF FifoNext, ShutdownSeen, fifoVars
<1> QED BY <1>4 DEF WriterNext, WObtain, WLoadUnthrottled, WWait, WTimeout, WSignal, WRelease,
                    WReleaseOf, WReleaseTooMany, WStore, WWake, WResize, WSetHysteresis

\* obtain() after resize(): what the writer gets does not fill the buffer beyond the
\* effective size, however far it was filled before (fifo.h:407, fifo.cpp:220).
THEOREM EffectiveSizeKept == FifoSpec => ObtainRespectsEffectiveSize
<1> DEFINE Fits == wr.pc = "load" /\ wr'.pc \in {"idle", "release"} /\ wr'.obtained > 0
                     /\ Throttled => FillLevel + wr'.obtained =< wr.effective
           filled == DiffBy(Writer, wr.localRear, front)
           avail  == IF wr.effective > filled THEN wr.effective - filled ELSE 0
<1>1. IndInv /\ [FifoNext]_fifoVars => [Fits]_fifoVars
  <2> SUFFICES ASSUME IndInv, [FifoNext]_fifoVars, wr.pc = "load", wr'.pc \in {"idle", "release"},
                      wr'.obtained > 0, Throttled
               PROVE  FillLevel + wr'.obtained =< wr.effective
    OBVIOUS
  <2>1. TypeInv /\ PosInv /\ WLoadThrottled
    BY IndParts, WriterLoadEnds
  <2>2. /\ wr \in WriterState /\ wr.effective \in 0 .. FrameCount
        /\ wr.call.err \in Outcomes \cup {0}
    BY <2>1 DEF TypeInv, WriterOK, WriterState, CallState
  <2>3. /\ Written \in Nat /\ Position(Throttler) \in Nat /\ Position(Throttler) =< Written
        /\ Written - Position(Throttler) =< FrameCount
        /\ filled = EIO \/ filled = FillLevel
    BY <2>1, Positions DEF DiffBy, FillLevel
  <2>4. PICK level \in 0 .. FrameCount : level = FillLevel
    BY <2>3, Constants DEF FillLevel
  <2>5. CASE filled < 0 /\ WFinish(0, filled)
    <3>1. filled \in Outcomes \cup {0} /\ 0 \in 0 .. FrameCount
      BY <2>3, <2>4, <2>5, Constants DEF Outcomes, Errors
    <3>2. wr'.obtained =< 0
      BY <2>2, <2>5, <3>1, WFinishType
    <3>3. WriterOK(wr')
      BY <2>2, <2>5, <3>1, WFinishType
    <3> QED BY <3>2, <3>3, Constants DEF WriterOK, WriterState
  <2>6. CASE filled >= 0 /\ WFinish(avail, wr.call.err)
    <3>1. filled = level
      BY <2>3, <2>4, <2>6 DEF EIO
    <3>2. avail \in 0 .. FrameCount /\ (avail > 0 => avail = wr.effective - level)
      BY <2>2, <2>4, <3>1, Constants
    <3>3. WriterOK(wr') /\ wr'.obtained =< avail
      BY <2>2, <2>6, <3>2, WFinishType
    <3>4. wr'.obtained \in Nat
      BY <3>3, Constants DEF WriterOK, WriterState
    <3> HIDE DEF avail
    <3> QED BY <2>2, <2>4, <3>2, <3>3, <3>4, Constants
  <2>7. wr' # [wr EXCEPT !.pc = "wait", !.call.seen = front]
    BY <2>2 DEF WriterState
  <2> QED BY <2>1, <2>5, <2>6, <2>7 DEF WLoadThrottled
<1> HIDE DEF Fits
<1>2. FifoSpec => [][Fits]_fifoVars
  BY <1>1, Invariant, PTL DEF FifoSpec
<1> QED BY <1>2 DEF Fits, ObtainRespectsEffectiveSize

-----------------------------------------------------------------------------
(* Wakes of the futexes *)

\* The clients leave the levels as the constructors set them, under which every release
\* wakes, and do not shut the FIFO down by releasing too much.
DefaultLevels ==
  /\ ~ Misuse
  /\ \A l \in WriterLevels : l[1] >= FrameCount /\ l[2] = 0
  /\ \A l \in ReaderLevels : l[1] < 0 /\ l[2] >= FrameCount
  /\ \A s \in Sizes : s >= FrameCount

LevelsOK ==
  /\ wr.armLevel = FrameCount /\ wr.triggerLevel = 0 /\ wr.effective = FrameCount
  /\ rd[Throttler].armLevel = -1 /\ rd[Throttler].triggerLevel = FrameCount

\* No index is among the wasted ones, so diff() shuts nothing down.
IndexesOK == shut = {} /\ \A r \in Readers : Offset(rd[r].localFront) < FrameCount

\* The writer publishes what makes it wake, and sleeps on a full buffer, or else the
\* reader is about to wake it.
WriterWakes ==
  /\ wr.pc = "release" => wr.obtained > 0
  /\ wr.pc = "store" => wr.call.count > 0 /\ wr.call.filled \in 0 .. FrameCount - 1
  /\ wr.pc = "wait" => Written >= FrameCount /\ wr.call.seen = IndexOf(Written - FrameCount)
  /\ wr.pc = "sleep" => FillLevel = FrameCount \/ rd[Throttler].pc = "wake"

ReaderWakes ==
  LET me == rd[Throttler]
  IN  /\ me.pc = "release" => me.obtained > 0
      /\ me.pc = "store" => me.call.count > 0 /\ me.call.filled \in me.call.count .. FrameCount
      /\ me.pc = "wait" => me.call.seen = me.localFront
      /\ me.pc = "sleep" => FillLevel = 0 \/ wr.pc = "wake"

WakeInv == LevelsOK /\ IndexesOK /\ WriterWakes /\ ReaderWakes

\* An index that is none of the wasted ones is that of a frame, of any late enough trip.
LEMMA IndexOfSome ==
  ASSUME NEW i \in Index, Offset(i) < FrameCount
  PROVE  \E w \in Nat : w >= FrameCount /\ i = IndexOf(w)
<1> USE Constants
<1>1. PICK a : a = i \div FrameCountP2
  OBVIOUS
<1>2. PICK b : b = i % FrameCountP2
  OBVIOUS
<1>3. /\ a \in Int /\ b \in 0 .. FrameCount - 1 /\ i = FrameCountP2 * a + b
      /\ i \in 0 .. IndexMod - 1
  <2>1. i \in Int /\ i \in 0 .. IndexMod - 1
    BY DEF Index
  <2>2. /\ i \div FrameCountP2 \in Int /\ i % FrameCountP2 \in 0 .. FrameCountP2 - 1
        /\ i = FrameCountP2 * (i \div FrameCountP2) + (i % FrameCountP2)
    BY <2>1, DivMod
  <2> QED BY <1>1, <1>2, <2>1, <2>2 DEF Offset
<1>4. a >= 0
  <2>1. a =< -1 => FrameCountP2 * a =< FrameCountP2 * (-1)
    BY <1>3
  <2> QED BY <1>3, <2>1
<1>5. PICK c \in Nat : c = a + Trips /\ c >= 1
  BY <1>3, <1>4, TripsOK
<1>6. FrameCount * c >= FrameCount * 1 /\ FrameCount * c \in Nat
  BY <1>5
<1>7. PICK w \in Nat : w = b + FrameCount * c /\ w >= FrameCount
  BY <1>3, <1>6
<1>8. w % FrameCount = b
  <2>1. (b + FrameCount * c) % FrameCount = b
    BY <1>3, <1>5, ModUnique
  <2> QED BY <1>7, <2>1
<1>9. w \div FrameCount = c
  <2>1. /\ w \div FrameCount \in Int
        /\ w = FrameCount * (w \div FrameCount) + (w % FrameCount)
    BY DivMod
  <2>2. PICK q \in Int : q = w \div FrameCount
    BY <2>1
  <2>3. FrameCount * q = FrameCount * c
    <3>1. FrameCount * q \in Int
      BY <2>2
    <3> QED BY <1>3, <1>6, <1>7, <1>8, <2>1, <2>2, <3>1
  <2>4. (FrameCount * q) \div FrameCount = q /\ (FrameCount * c) \div FrameCount = c
    BY <1>5, <2>2, Quotient
  <2> QED BY <2>2, <2>3, <2>4
<1>10. IndexOf(w) = (FrameCountP2 * c + b) % IndexMod
  BY <1>8, <1>9 DEF IndexOf
<1>11. FrameCountP2 * c + b = i + IndexMod * 1
  <2>1. FrameCountP2 * (a + Trips) = FrameCountP2 * a + FrameCountP2 * Trips
    BY <1>3, TripsOK, Products
  <2> QED BY <1>3, <1>5, <2>1, TripsOK
<1>12. (i + IndexMod * 1) % IndexMod = i
  BY <1>3, ModUnique
<1> QED BY <1>7, <1>10, <1>11, <1>12

LEMMA OffsetsKept ==
  ASSUME NEW i \in Index, Offset(i) < FrameCount, NEW n \in 0 .. FrameCount
  PROVE  /\ Offset(Sum(i, n)) < FrameCount
         /\ Offset((i - FrameCountP2) % IndexMod) < FrameCount
<1>1. PICK w \in Nat : w >= FrameCount /\ i = IndexOf(w)
  BY IndexOfSome
<1>2. ASSUME NEW v \in Nat PROVE Offset(IndexOf(v)) < FrameCount
  <2>1. PICK a \in Int, b \in 0 .. FrameCount - 1, k \in Int :
         /\ v = FrameCount * a + b
         /\ IndexOf(v) = FrameCountP2 * a + b - IndexMod * k
         /\ IndexOf(v) \in Index
         /\ Offset(IndexOf(v)) = b
    BY IndexForm
  <2> QED BY <2>1, Constants
<1>3. w + n \in Nat /\ w - FrameCount \in Nat
  BY <1>1, Constants
<1>4. Sum(i, n) = IndexOf(w + n) /\ (i - FrameCountP2) % IndexMod = IndexOf(w - FrameCount)
  BY <1>1, SumIndexOf, JumpIndexOf
<1> QED BY <1>2, <1>3, <1>4

\* The level of a shared word that is as it was when it was read.
LEMMA SameLevel ==
  ASSUME TypeInv, PosInv, Throttled
  PROVE  /\ FillLevel \in 0 .. FrameCount
         /\ rear = front => FillLevel = 0
         /\ Written >= FrameCount /\ front = IndexOf(Written - FrameCount)
              => FillLevel = FrameCount
<1>1. /\ Written \in Nat /\ Position(Throttler) \in Nat /\ Position(Throttler) =< Written
      /\ Written - Position(Throttler) =< FrameCount
      /\ Diff(rear, front) = FillLevel
  BY Positions DEF FillLevel
<1>2. rear = IndexOf(Written)
  BY DEF PosInv, ThrottledIndices
<1>3. FillLevel \in 0 .. FrameCount
  BY <1>1, Constants DEF FillLevel
<1>4. ASSUME rear = front PROVE FillLevel = 0
  <2>1. Diff(IndexOf(Written), IndexOf(Written)) = Written - Written
    BY <1>1, DiffIndexOf, Constants
  <2> QED BY <1>1, <1>2, <1>4, <2>1
<1>5. ASSUME Written >= FrameCount, front = IndexOf(Written - FrameCount)
      PROVE  FillLevel = FrameCount
  <2>1. PICK f \in Nat : f = Written - FrameCount
    BY <1>1, <1>5, Constants
  <2>2. f =< Written /\ Written - f = FrameCount
    BY <1>1, <2>1, Constants
  <2>3. Diff(IndexOf(Written), IndexOf(f)) = Written - f
    BY <1>1, <2>2, DiffIndexOf, Constants
  <2> QED BY <1>1, <1>2, <1>5, <2>1, <2>2, <2>3
<1> QED BY <1>3, <1>4, <1>5

LEMMA WakeTypes ==
  ASSUME TypeInv, Throttled
  PROVE  /\ Throttler \in Readers /\ rd \in [Readers -> ReaderState]
         /\ rd[Throttler] \in ReaderState /\ rd[Throttler].call \in CallState
         /\ wr \in WriterState /\ wr.call \in CallState
         /\ rear \in Index /\ front \in Index
         /\ \A r \in Readers : rd[r].localFront \in Index
<1>1. Throttler \in Readers
  BY FifoAssumption DEF Throttled
<1> QED BY <1>1 DEF TypeInv, SharedOK, WriterOK, WriterState, ReaderState

LEMMA OffsetIsInt ==
  ASSUME NEW i \in Index
  PROVE  Offset(i) \in Int
<1>1. i \in Int
  BY Constants DEF Index
<1>2. i % FrameCountP2 \in 0 .. FrameCountP2 - 1
  BY <1>1, DivMod, Constants
<1> QED BY <1>2, Constants DEF Offset

\* diff() sets no flag.
LEMMA NobodyShuts ==
  ASSUME TypeInv, PosInv, Throttled, IndexesOK
  PROVE  /\ ShutByDiff(Writer, wr.localRear, front) = {}
         /\ \A r \in Readers : ShutByDiff(r, rear, rd[r].localFront) = {}
         /\ DiffBy(Writer, wr.localRear, front) = FillLevel
         /\ DiffBy(Throttler, rear, rd[Throttler].localFront) = FillLevel
         /\ Offset(rear) < FrameCount
<1>1. /\ ~ Corrupt(rear, front) /\ Diff(rear, front) = FillLevel
      /\ rear = wr.localRear /\ front = rd[Throttler].localFront /\ rear \in Index
  BY Positions DEF FillLevel
<1>2. Offset(rear) < FrameCount
  <2>1. Offset(rear) \in Int
    BY <1>1, OffsetIsInt
  <2> QED BY <1>1, <2>1, Constants DEF Corrupt
<1>3. ASSUME NEW r \in Readers PROVE ~ Corrupt(rear, rd[r].localFront)
  <2>1. Offset(rd[r].localFront) < FrameCount /\ Offset(rd[r].localFront) \in Int
    <3>1. PICK i \in Index : i = rd[r].localFront
      BY WakeTypes
    <3>2. Offset(i) \in Int
      BY OffsetIsInt
    <3> QED BY <3>1, <3>2 DEF IndexesOK
  <2>2. Offset(rear) \in Int
    BY <1>1, OffsetIsInt
  <2> QED BY <1>2, <2>1, <2>2, Constants DEF Corrupt
<1> QED BY <1>1, <1>2, <1>3 DEF ShutByDiff, DiffBy, IndexesOK

LEMMA WriterKeepsWakes ==
  ASSUME TypeInv, PosInv, Throttled, DefaultLevels, WakeInv, WriterNext
  PROVE  WakeInv'
<1>1. /\ Throttler \in Readers /\ rd \in [Readers -> ReaderState]
      /\ rd[Throttler] \in ReaderState /\ rd[Throttler].call \in CallState
      /\ wr \in WriterState /\ wr.call \in CallState
  BY WakeTypes
<1>2. /\ FillLevel \in 0 .. FrameCount /\ Written \in Nat
      /\ DiffBy(Writer, wr.localRear, front) = FillLevel
      /\ ShutByDiff(Writer, wr.localRear, front) = {}
      /\ FillLevel = Written - Position(Throttler) /\ Position(Throttler) \in Nat
  BY SameLevel, NobodyShuts, Positions DEF WakeInv, FillLevel
<1>3. LevelsOK /\ IndexesOK /\ WriterWakes /\ ReaderWakes
  BY DEF WakeInv
\* What no step but those of release() and of the wake disturbs.
<1>4. ASSUME rd' = rd, wr'.totalReleased = wr.totalReleased, wr.pc # "wake", shut' = {},
             wr'.armLevel = FrameCount, wr'.triggerLevel = 0, wr'.effective = FrameCount
      PROVE  /\ LevelsOK' /\ IndexesOK' /\ ReaderWakes'
             /\ FillLevel' = FillLevel /\ Written' = Written
  <2>1. FillLevel' = FillLevel /\ Written' = Written
    BY <1>4 DEF FillLevel, Written, Position
  <2>2. ReaderWakes'
    BY <1>3, <1>4, <2>1 DEF ReaderWakes
  <2> QED BY <1>3, <1>4, <2>1, <2>2 DEF LevelsOK, IndexesOK
<1>5. ASSUME wr'.armLevel = wr.armLevel, wr'.triggerLevel = wr.triggerLevel,
             wr'.effective = wr.effective
      PROVE  wr'.armLevel = FrameCount /\ wr'.triggerLevel = 0 /\ wr'.effective = FrameCount
  BY <1>3, <1>5 DEF LevelsOK
<1>6. CASE WObtain \/ WTimeout \/ WSignal
  <2>1. /\ wr'.pc = "load" /\ rd' = rd /\ shut' = shut /\ wr.pc # "wake"
        /\ wr'.totalReleased = wr.totalReleased /\ wr'.armLevel = wr.armLevel
        /\ wr'.triggerLevel = wr.triggerLevel /\ wr'.effective = wr.effective
    BY <1>1, <1>6 DEF WObtain, WTimeout, WSignal, WriterState
  <2>2. WriterWakes'
    BY <2>1 DEF WriterWakes
  <2>3. shut' = {}
    BY <1>3, <2>1 DEF IndexesOK
  <2> QED BY <1>4, <1>5, <2>1, <2>2, <2>3 DEF WakeInv
<1>7. CASE WWait
  <2>1. /\ rd' = rd /\ shut' = shut /\ wr.pc = "wait" /\ front' = front
        /\ wr'.totalReleased = wr.totalReleased /\ wr'.armLevel = wr.armLevel
        /\ wr'.triggerLevel = wr.triggerLevel /\ wr'.effective = wr.effective
        /\ wr'.pc = "load" \/ (wr'.pc = "sleep" /\ front = wr.call.seen)
    BY <1>1, <1>7 DEF WWait, WriterState
  <2>2. FillLevel' = FillLevel
    BY <2>1 DEF FillLevel, Written, Position
  <2>3. wr'.pc = "sleep" => FillLevel = FrameCount
    BY <1>3, <2>1, SameLevel DEF WriterWakes
  <2>4. WriterWakes'
    BY <2>1, <2>2, <2>3 DEF WriterWakes
  <2>5. shut' = {} /\ wr.pc # "wake"
    BY <1>3, <2>1 DEF IndexesOK
  <2> QED BY <1>4, <1>5, <2>1, <2>4, <2>5 DEF WakeInv
<1>8. CASE WLoadThrottled
  <2>1. rd' = rd /\ shut' = {} /\ wr.pc = "load" /\ wr.pc # "wake"
    BY <1>2, <1>8 DEF WLoadThrottled
  <2>2. CASE \E avail, err : WFinish(avail, err)
    <3>1. /\ wr'.totalReleased = wr.totalReleased /\ wr'.armLevel = wr.armLevel
          /\ wr'.triggerLevel = wr.triggerLevel /\ wr'.effective = wr.effective
          /\ wr'.pc = "idle" \/ (wr'.pc = "release" /\ wr'.obtained > 0)
      BY <1>1, <2>2 DEF WFinish, WriterState
    <3>2. WriterWakes'
      BY <3>1 DEF WriterWakes
    <3> QED BY <1>4, <1>5, <2>1, <3>1, <3>2 DEF WakeInv
  <2>3. CASE ~ \E avail, err : WFinish(avail, err)
    <3>1. /\ wr' = [wr EXCEPT !.pc = "wait", !.call.seen = front]
          /\ (IF wr.effective > FillLevel THEN wr.effective - FillLevel ELSE 0) = 0
      BY <1>2, <1>8, <2>3 DEF WLoadThrottled
    <3>2. FillLevel = FrameCount
      BY <1>2, <1>3, <3>1, Constants DEF LevelsOK
    <3>3. /\ wr'.totalReleased = wr.totalReleased /\ wr'.armLevel = wr.armLevel
          /\ wr'.triggerLevel = wr.triggerLevel /\ wr'.effective = wr.effective
          /\ wr'.pc = "wait" /\ wr'.call.seen = front
      BY <1>1, <3>1 DEF WriterState, CallState
    <3>4. Written >= FrameCount /\ Position(Throttler) = Written - FrameCount
      BY <1>2, <3>2, Constants
    <3>5. front = IndexOf(Written - FrameCount)
      BY <3>4 DEF PosInv, ThrottledIndices
    <3>6. Written' = Written
      BY <3>3 DEF Written
    <3>7. WriterWakes'
      BY <3>3, <3>4, <3>5, <3>6 DEF WriterWakes
    <3> QED BY <1>4, <1>5, <2>1, <3>3, <3>7 DEF WakeInv
  <2> QED BY <2>2, <2>3
<1>9. CASE WRelease
  <2>1. PICK n \in 1 .. wr.obtained : WReleaseOf(n)
    BY <1>1, <1>3, <1>9 DEF WRelease, WriterWakes, WriterState
  <2>2. /\ rd' = rd /\ shut' = {} /\ wr.pc # "wake"
        /\ wr' = [wr EXCEPT !.pc = "store", !.call.count = n, !.call.filled = FillLevel]
    BY <1>2, <1>9, <2>1 DEF WRelease, WReleaseOf
  <2>3. /\ wr'.totalReleased = wr.totalReleased /\ wr'.armLevel = wr.armLevel
        /\ wr'.triggerLevel = wr.triggerLevel /\ wr'.effective = wr.effective
        /\ wr'.pc = "store" /\ wr'.call.count = n /\ wr'.call.filled = FillLevel
    BY <1>1, <2>2 DEF WriterState, CallState
  <2>4. FillLevel < FrameCount
    <3>1. wr.obtained \in 0 .. FrameCount /\ n >= 1
      BY <1>1, <2>1, Constants DEF WriterState
    <3>2. Written + wr.obtained =< Position(Throttler) + FrameCount
      BY DEF PosInv, SlicesDisjoint
    <3> QED BY <1>2, <2>1, <3>1, <3>2, Constants
  <2>5. WriterWakes'
    <3>1. n > 0 /\ FillLevel \in 0 .. FrameCount - 1
      BY <1>1, <1>2, <2>1, <2>4, Constants DEF WriterState
    <3> QED BY <2>3, <3>1 DEF WriterWakes
  <2> QED BY <1>4, <1>5, <2>2, <2>3, <2>5 DEF WakeInv
<1>10. CASE WStore
  <2> DEFINE n == wr.call.count
  <2>1. /\ n \in Nat /\ n > 0 /\ wr.call.filled \in 0 .. FrameCount - 1
        /\ wr.armLevel = FrameCount /\ wr.triggerLevel = 0 /\ wr.pc = "store"
    BY <1>1, <1>3, <1>10 DEF WStore, WriterWakes, LevelsOK, CallState
  <2>2. /\ wr.call.filled >= 0 /\ wr.call.filled < wr.armLevel
        /\ wr.call.filled + n > wr.triggerLevel
    BY <2>1, Constants
  <2>3. /\ wr'.pc = "wake" /\ rd' = rd /\ shut' = shut
        /\ wr'.armLevel = wr.armLevel
        /\ wr'.triggerLevel = wr.triggerLevel /\ wr'.effective = wr.effective
    BY <1>1, <1>10, <2>2 DEF WStore, WriterState
  <2>4. WriterWakes'
    BY <2>3 DEF WriterWakes
  <2>5. ReaderWakes'
    BY <1>3, <2>3 DEF ReaderWakes
  <2>6. LevelsOK' /\ IndexesOK'
    BY <1>3, <2>3 DEF LevelsOK, IndexesOK
  <2> QED BY <2>4, <2>5, <2>6 DEF WakeInv
<1>11. CASE WWake
  <2>1. /\ wr'.pc = "idle" /\ shut' = shut /\ wr'.armLevel = wr.armLevel
        /\ wr'.triggerLevel = wr.triggerLevel /\ wr'.effective = wr.effective
    BY <1>1, <1>11 DEF WWake, WriterState
  <2>2. ASSUME NEW r \in Readers
        PROVE  /\ rd'[r].localFront = rd[r].localFront
               /\ rd'[r].armLevel = rd[r].armLevel /\ rd'[r].triggerLevel = rd[r].triggerLevel
               /\ (rd'[r].pc = "load" \/ (rd'[r] = rd[r] /\ rd[r].pc # "sleep"))
    <3>1. rd[r] \in ReaderState
      BY <1>1
    <3>2. rd'[r] = IF rd[r].pc = "sleep"
                   THEN [rd[r] EXCEPT !.pc = "load", !.call = AfterWait(@, 0)] ELSE rd[r]
      BY <1>11 DEF WWake
    <3> QED BY <3>1, <3>2 DEF ReaderState
  <2>3. WriterWakes'
    BY <2>1 DEF WriterWakes
  <2>4. LevelsOK' /\ IndexesOK'
    BY <1>1, <1>3, <2>1, <2>2 DEF LevelsOK, IndexesOK
  <2>5. ReaderWakes'
    BY <1>1, <1>3, <2>2 DEF ReaderWakes
  <2> QED BY <2>3, <2>4, <2>5 DEF WakeInv
<1>12. CASE WResize
  <2>1. PICK s \in Sizes :
          wr' = [wr EXCEPT !.effective = MinOf(s, FrameCount),
                   !.armLevel = IF MinOf(s, FrameCount) < wr.effective
                                THEN MinOf(@, MinOf(s, FrameCount)) ELSE @,
                   !.triggerLevel = IF MinOf(s, FrameCount) < wr.effective
                                    THEN MinOf(@, MinOf(s, FrameCount)) ELSE @]
    BY <1>12 DEF WResize
  <2>2. MinOf(s, FrameCount) = FrameCount /\ ~ (FrameCount < FrameCount)
    BY FifoAssumption, Constants DEF MinOf, DefaultLevels
  <2>3. /\ wr'.pc = "idle" /\ wr.pc = "idle" /\ rd' = rd /\ shut' = shut
        /\ wr'.totalReleased = wr.totalReleased /\ wr'.armLevel = FrameCount
        /\ wr'.triggerLevel = 0 /\ wr'.effective = FrameCount
    BY <1>1, <1>3, <1>12, <2>1, <2>2 DEF WResize, WriterState, LevelsOK
  <2>4. WriterWakes' /\ shut' = {} /\ wr.pc # "wake"
    BY <1>3, <2>3 DEF WriterWakes, IndexesOK
  <2> QED BY <1>4, <2>3, <2>4 DEF WakeInv
<1>13. CASE WSetHysteresis
  <2>1. PICK l \in WriterLevels :
          wr' = [wr EXCEPT !.isArmed = @ \/ MinOf(l[1], wr.effective) > wr.armLevel,
                           !.armLevel = MinOf(l[1], wr.effective),
                           !.triggerLevel = MinOf(l[2], wr.effective)]
    BY <1>13 DEF WSetHysteresis
  <2>2. MinOf(l[1], wr.effective) = FrameCount /\ MinOf(l[2], wr.effective) = 0
    <3>1. l[1] \in Nat /\ l[1] >= FrameCount /\ l[2] = 0 /\ wr.effective = FrameCount
      BY <1>3, FifoAssumption DEF DefaultLevels, LevelsOK
    <3> QED BY <3>1, Constants DEF MinOf
  <2>3. /\ wr'.pc = "idle" /\ wr.pc = "idle" /\ rd' = rd /\ shut' = shut
        /\ wr'.totalReleased = wr.totalReleased /\ wr'.armLevel = FrameCount
        /\ wr'.triggerLevel = 0 /\ wr'.effective = FrameCount
    BY <1>1, <1>3, <1>13, <2>1, <2>2 DEF WSetHysteresis, WriterState, LevelsOK
  <2>4. WriterWakes' /\ shut' = {} /\ wr.pc # "wake"
    BY <1>3, <2>3 DEF WriterWakes, IndexesOK
  <2> QED BY <1>4, <2>3, <2>4 DEF WakeInv
<1>14. ~ WReleaseTooMany /\ ~ WLoadUnthrottled
  BY DEF DefaultLevels, WReleaseTooMany, WLoadUnthrottled
<1> QED BY <1>6, <1>7, <1>8, <1>9, <1>10, <1>11, <1>12, <1>13, <1>14 DEF WriterNext

\* A reader's own index stays among the valid ones.
LEMMA ReaderKeepsIndexes ==
  ASSUME TypeInv, PosInv, Throttled, DefaultLevels, IndexesOK, NEW r \in Readers, ReaderNext(r)
  PROVE  IndexesOK'
<1>1. /\ rd \in [Readers -> ReaderState] /\ rd[r] \in ReaderState
      /\ rd[r].localFront \in Index /\ Offset(rd[r].localFront) < FrameCount
      /\ rear \in Index /\ Offset(rear) < FrameCount
      /\ rd[r].obtained \in 0 .. FrameCount
  BY WakeTypes, NobodyShuts DEF IndexesOK, ReaderState
<1>2. shut' = {}
  BY NobodyShuts DEF ReaderNext, IndexesOK, DefaultLevels, RJoin, RObtain, RLoad, RWait, RTimeout,
                     RSignal, RRelease, RReleaseOf, RReleaseTooMany, RStore, RWake, RSetHysteresis
<1>3. ASSUME Offset(rd'[r].localFront) < FrameCount
      PROVE  IndexesOK'
  <2>1. \A q \in Readers \ {r} : rd'[q] = rd[q] \/ rd'[q].localFront = rd[q].localFront
    BY <1>1 DEF ReaderNext, RJoin, RObtain, RLoad, RFinish, RWait, RTimeout, RSignal, RRelease,
                RReleaseOf, RReleaseTooMany, RStore, RWake, RSetHysteresis
  <2> QED BY <1>1, <1>2, <1>3, <2>1 DEF IndexesOK
<1>4. CASE RJoin(r)
  <2> DEFINE from == IF r = Throttler THEN 0 ELSE rear
  <2>1. PICK m : m = [rd[r] EXCEPT !.pc = "idle", !.localFront = from,
                                   !.start = IF r = Throttler THEN 0 ELSE Written]
    OBVIOUS
  <2>2. m.localFront = from
    BY <1>1, <2>1 DEF ReaderState
  <2>3. Offset(from) < FrameCount
    <3>1. Offset(0) = 0
      BY Constants, ModUnique DEF Offset
    <3> QED BY <1>1, <3>1, Constants
  <2>4. rd'[r] = m
    BY <1>1, <1>4, <2>1 DEF RJoin
  <2> QED BY <1>3, <2>2, <2>3, <2>4
<1>5. CASE RLoad(r) /\ RFinish(r)
  <2> DEFINE filled == DiffBy(r, rear, rd[r].localFront)
             caught == (rear - (IF r \in FlushReaders THEN 0 ELSE FrameCountP2)) % IndexMod
             moved  == IF filled = EOVERFLOW THEN caught ELSE rd[r].localFront
  <2>1. Offset(caught) < FrameCount
    <3>1. (rear - 0) % IndexMod = rear
      BY <1>1, Constants DEF Index
    <3>2. Offset((rear - FrameCountP2) % IndexMod) < FrameCount
      <4>1. 0 \in 0 .. FrameCount
        BY Constants
      <4> QED BY <1>1, <4>1, OffsetsKept
    <3> QED BY <1>1, <3>1, <3>2
  <2>2. Offset(moved) < FrameCount
    BY <1>1, <2>1
  <2>3. rd'[r].localFront = moved
    BY <1>1, <1>5 DEF RFinish, ReaderState
  <2> QED BY <1>3, <2>2, <2>3
<1>6. CASE RRelease(r) \/ RStore(r)
  <2>1. PICK n \in 0 .. FrameCount :
          rd'[r].localFront \in {rd[r].localFront, Sum(rd[r].localFront, n)}
    <3>1. CASE RRelease(r)
      <4>1. PICK n \in 0 .. FrameCount : RReleaseOf(r, n)
        BY <1>1, <3>1, Constants DEF RRelease
      <4>2. CASE r = Throttler
        <5>1. PICK filled :
                rd' = [rd EXCEPT ![r] = [rd[r] EXCEPT !.pc = "store", !.call.count = n,
                                                      !.call.filled = filled]]
          BY <4>1, <4>2 DEF RReleaseOf
        <5> QED BY <1>1, <5>1 DEF ReaderState
      <4>3. CASE r # Throttler
        <5>1. PICK flushed :
                rd' = [rd EXCEPT ![r] = [rd[r] EXCEPT !.pc = "idle",
                                    !.localFront = Sum(@, n), !.obtained = @ - n,
                                    !.totalReleased = @ + n, !.totalFlushed = flushed,
                                    !.call = Call]]
          BY <4>1, <4>3 DEF RReleaseOf
        <5> QED BY <1>1, <5>1 DEF ReaderState
      <4> QED BY <4>2, <4>3
    <3>2. CASE RStore(r)
      <4>1. rd[r].call.count \in 0 .. FrameCount
        BY <1>1, <3>2, Constants DEF RStore, TypeInv, ReaderOK, ReaderState, CallState
      <4> QED BY <1>1, <3>2, <4>1 DEF RStore, ReaderState
    <3> QED BY <1>6, <3>1, <3>2
  <2>2. Offset(Sum(rd[r].localFront, n)) < FrameCount
    BY <1>1, OffsetsKept
  <2> QED BY <1>1, <1>3, <2>1, <2>2
<1>7. CASE ~ RJoin(r) /\ ~ (RLoad(r) /\ RFinish(r)) /\ ~ RRelease(r) /\ ~ RStore(r)
  <2>1. rd'[r].localFront = rd[r].localFront
    <3>1. RObtain(r) => rd'[r].localFront = rd[r].localFront
      BY <1>1 DEF RObtain, ReaderState
    <3>2. ASSUME RLoad(r), ~ RFinish(r)  PROVE  rd'[r].localFront = rd[r].localFront
      <4>1. PICK c : rd' = [rd EXCEPT ![r] = [rd[r] EXCEPT !.pc = "wait", !.call = c]]
        <5> DEFINE c == [rd[r].call EXCEPT !.seen = rear]
        <5>1. rd' = [rd EXCEPT ![r] = [rd[r] EXCEPT !.pc = "wait", !.call = c]]
          BY <3>2 DEF RLoad
        <5> QED BY <5>1
      <4> QED BY <1>1, <4>1 DEF ReaderState
    <3>3. ASSUME RWait(r) \/ RTimeout(r) \/ RSignal(r)
          PROVE  rd'[r].localFront = rd[r].localFront
      <4>1. PICK p, c : \/ rd' = [rd EXCEPT ![r] = [rd[r] EXCEPT !.pc = p]]
                        \/ rd' = [rd EXCEPT ![r] = [rd[r] EXCEPT !.pc = p, !.call = c]]
        <5>1. CASE RWait(r)
          BY <5>1 DEF RWait
        <5>2. CASE RTimeout(r)
          BY <5>2 DEF RTimeout
        <5>3. CASE RSignal(r)
          BY <5>3 DEF RSignal
        <5> QED BY <3>3, <5>1, <5>2, <5>3
      <4>2. (rd' = [rd EXCEPT ![r] = [rd[r] EXCEPT !.pc = p]])
            => rd'[r].localFront = rd[r].localFront
        BY <1>1 DEF ReaderState
      <4>3. (rd' = [rd EXCEPT ![r] = [rd[r] EXCEPT !.pc = p, !.call = c]])
            => rd'[r].localFront = rd[r].localFront
        BY <1>1 DEF ReaderState
      <4> QED BY <4>1, <4>2, <4>3
    <3>4. RReleaseTooMany(r) => rd'[r].localFront = rd[r].localFront
      BY DEF RReleaseTooMany
    <3>5. RWake(r) => rd'[r].localFront = rd[r].localFront
      BY <1>1 DEF RWake, ReaderState
    <3>6. ASSUME RSetHysteresis(r)  PROVE  rd'[r].localFront = rd[r].localFront
      <4>1. PICK a, l, t : rd' = [rd EXCEPT ![r] = [rd[r] EXCEPT !.isArmed = a, !.armLevel = l,
                                                                 !.triggerLevel = t]]
        <5>1. PICK l \in ReaderLevels :
                LET arm == IF l[1] < 0 THEN -1 ELSE MinOf(l[1], FrameCount)
                IN  rd' = [rd EXCEPT ![r] =
                             [rd[r] EXCEPT !.isArmed = @ \/ arm < rd[r].armLevel,
                                           !.armLevel = arm,
                                           !.triggerLevel = MinOf(l[2], FrameCount)]]
          BY <3>6 DEF RSetHysteresis
        <5> DEFINE arm == IF l[1] < 0 THEN -1 ELSE MinOf(l[1], FrameCount)
                   a == rd[r].isArmed \/ arm < rd[r].armLevel
                   t == MinOf(l[2], FrameCount)
        <5>2. rd' = [rd EXCEPT ![r] = [rd[r] EXCEPT !.isArmed = a, !.armLevel = arm,
                                                    !.triggerLevel = t]]
          BY <5>1
        <5> HIDE DEF arm, a, t
        <5> QED BY <5>2
      <4> QED BY <1>1, <4>1 DEF ReaderState
    <3> QED BY <1>1, <1>7, <3>1, <3>2, <3>3, <3>4, <3>5, <3>6 DEF ReaderNext
  <2>2. \A q \in Readers \ {r} : rd'[q] = rd[q]
    BY <1>1, <1>7 DEF ReaderNext, RObtain, RLoad, RWait, RTimeout, RSignal, RReleaseTooMany,
                      RWake, RSetHysteresis
  <2> QED BY <1>1, <1>2, <2>1, <2>2 DEF IndexesOK
<1> QED BY <1>4, <1>5, <1>6, <1>7

\* RWake(r) may wake the writer; no other step of a reader changes it.
LEMMA ReaderLeavesWriter ==
  ASSUME TypeInv, NEW r \in Readers, ReaderNext(r)
  PROVE  /\ rear' = rear /\ wr'.totalReleased = wr.totalReleased
         /\ wr'.armLevel = wr.armLevel /\ wr'.triggerLevel = wr.triggerLevel
         /\ wr'.effective = wr.effective
         /\ wr' = wr \/ (RWake(r) /\ wr.pc = "sleep" /\ wr'.pc = "load")
<1>1. wr \in WriterState
  BY DEF TypeInv, WriterOK
<1>2. rear' = rear /\ (wr' = wr \/ RWake(r))
  BY DEF ReaderNext, RJoin, RObtain, RLoad, RWait, RTimeout, RSignal, RRelease, RReleaseOf,
         RReleaseTooMany, RStore, RWake, RSetHysteresis
<1>3. RWake(r) => wr' = wr \/ (wr.pc = "sleep"
                               /\ wr' = [wr EXCEPT !.pc = "load", !.call = AfterWait(@, 0)])
  BY DEF RWake
<1> QED BY <1>1, <1>2, <1>3 DEF WriterState

LEMMA OtherKeepsWakes ==
  ASSUME TypeInv, PosInv, Throttled, DefaultLevels, WakeInv,
         NEW r \in Readers, r # Throttler, ReaderNext(r)
  PROVE  WakeInv'
<1>1. rd'[Throttler] = rd[Throttler]
  BY WakeTypes DEF ReaderNext, RJoin, RObtain, RLoad, RFinish, RWait, RTimeout, RSignal,
                   RRelease, RReleaseOf, RReleaseTooMany, RStore, RWake, RSetHysteresis
<1>2. /\ wr'.armLevel = wr.armLevel /\ wr'.triggerLevel = wr.triggerLevel
      /\ wr'.effective = wr.effective /\ wr'.totalReleased = wr.totalReleased
      /\ wr' = wr \/ (wr.pc = "sleep" /\ wr'.pc = "load")
  BY ReaderLeavesWriter
<1>3. FillLevel' = FillLevel /\ Written' = Written
  BY <1>1, <1>2 DEF FillLevel, Written, Position
<1>4. LevelsOK'
  BY <1>1, <1>2 DEF WakeInv, LevelsOK
<1>5. IndexesOK'
  BY ReaderKeepsIndexes DEF WakeInv
<1>6. WriterWakes'
  BY <1>1, <1>2, <1>3 DEF WakeInv, WriterWakes
<1>7. ReaderWakes'
  BY <1>1, <1>2, <1>3 DEF WakeInv, ReaderWakes
<1> QED BY <1>4, <1>5, <1>6, <1>7 DEF WakeInv

LEMMA ThrottlerKeepsWakes ==
  ASSUME TypeInv, PosInv, Throttled, DefaultLevels, WakeInv, ReaderNext(Throttler)
  PROVE  WakeInv'
<1>1. /\ Throttler \in Readers /\ rd \in [Readers -> ReaderState]
      /\ rd[Throttler] \in ReaderState /\ rd[Throttler].call \in CallState
      /\ rd[Throttler].obtained \in 0 .. FrameCount /\ rd[Throttler].totalReleased \in Nat
      /\ rd[Throttler].start = 0 /\ rd[Throttler].localFront = front
  BY WakeTypes DEF PosInv, ThrottledIndices, ReaderState
<1>2. /\ FillLevel \in 0 .. FrameCount /\ Written \in Nat /\ Position(Throttler) \in Nat
      /\ DiffBy(Throttler, rear, rd[Throttler].localFront) = FillLevel
      /\ LostBy(Throttler, rear, rd[Throttler].localFront) = 0
      /\ FillLevel = Written - Position(Throttler)
      /\ Position(Throttler) + rd[Throttler].obtained =< Written
  BY <1>1, SameLevel, NobodyShuts, Positions DEF WakeInv, FillLevel, LostBy, PosInv, SlicesDisjoint
<1>3. LevelsOK /\ WriterWakes /\ ReaderWakes /\ IndexesOK'
  BY <1>1, ReaderKeepsIndexes DEF WakeInv
<1>4. /\ wr'.armLevel = wr.armLevel /\ wr'.triggerLevel = wr.triggerLevel
      /\ wr'.effective = wr.effective /\ wr'.totalReleased = wr.totalReleased
      /\ wr' = wr \/ (RWake(Throttler) /\ wr.pc = "sleep" /\ wr'.pc = "load")
  BY <1>1, ReaderLeavesWriter
<1>5. ASSUME rd'[Throttler].armLevel = rd[Throttler].armLevel,
             rd'[Throttler].triggerLevel = rd[Throttler].triggerLevel
      PROVE  LevelsOK'
  BY <1>3, <1>4, <1>5 DEF LevelsOK
<1>6. ASSUME rd'[Throttler].start = 0,
             rd'[Throttler].totalReleased = rd[Throttler].totalReleased
      PROVE  FillLevel' = FillLevel /\ Written' = Written
  BY <1>1, <1>4, <1>6 DEF FillLevel, Written, Position
<1>7. ASSUME rd'[Throttler].start = 0, rd[Throttler].pc # "wake",
             rd'[Throttler].totalReleased = rd[Throttler].totalReleased, wr' = wr
      PROVE  WriterWakes'
  BY <1>3, <1>6, <1>7 DEF WriterWakes
<1>8. CASE RJoin(Throttler) \/ RObtain(Throttler) \/ RTimeout(Throttler) \/ RSignal(Throttler)
  <2>1. /\ wr' = wr /\ rd[Throttler].pc # "wake"
        /\ rd'[Throttler].start = 0
        /\ rd'[Throttler].totalReleased = rd[Throttler].totalReleased
        /\ rd'[Throttler].armLevel = rd[Throttler].armLevel
        /\ rd'[Throttler].triggerLevel = rd[Throttler].triggerLevel
        /\ rd'[Throttler].pc \in {"idle", "load"}
    <3>1. CASE RJoin(Throttler)
      BY <1>1, <3>1 DEF RJoin, ReaderState
    <3>2. CASE RObtain(Throttler)
      BY <1>1, <3>2 DEF RObtain, ReaderState
    <3>3. CASE RTimeout(Throttler)
      BY <1>1, <3>3 DEF RTimeout, ReaderState
    <3>4. CASE RSignal(Throttler)
      BY <1>1, <3>4 DEF RSignal, ReaderState
    <3> QED BY <1>8, <3>1, <3>2, <3>3, <3>4
  <2>2. ReaderWakes'
    BY <2>1 DEF ReaderWakes
  <2> QED BY <1>3, <1>5, <1>7, <2>1, <2>2 DEF WakeInv
<1>9. CASE RSetHysteresis(Throttler)
  <2>1. PICK l \in ReaderLevels :
          LET arm == IF l[1] < 0 THEN -1 ELSE MinOf(l[1], FrameCount)
          IN  rd' = [rd EXCEPT ![Throttler] =
                      [rd[Throttler] EXCEPT !.isArmed = @ \/ arm < rd[Throttler].armLevel,
                                    !.armLevel = arm,
                                    !.triggerLevel = MinOf(l[2], FrameCount)]]
    BY <1>9 DEF RSetHysteresis
  <2>2. l[1] < 0 /\ MinOf(l[2], FrameCount) = FrameCount
    <3>1. l[2] \in Nat /\ l[1] < 0 /\ l[2] >= FrameCount
      BY FifoAssumption DEF DefaultLevels
    <3> QED BY <3>1, Constants DEF MinOf
  <2> DEFINE isArmed == rd[Throttler].isArmed \/ -1 < rd[Throttler].armLevel
  <2>3. rd' = [rd EXCEPT ![Throttler] = [rd[Throttler] EXCEPT !.isArmed = isArmed,
                                    !.armLevel = -1, !.triggerLevel = FrameCount]]
    BY <2>1, <2>2
  <2> HIDE DEF isArmed
  <2>4. /\ wr' = wr /\ rd[Throttler].pc = "idle" /\ rd'[Throttler].pc = "idle"
        /\ rd'[Throttler].start = 0
        /\ rd'[Throttler].totalReleased = rd[Throttler].totalReleased
        /\ rd'[Throttler].armLevel = -1 /\ rd'[Throttler].triggerLevel = FrameCount
    BY <1>1, <1>9, <2>3 DEF RSetHysteresis, ReaderState
  <2>5. LevelsOK' /\ ReaderWakes'
    BY <1>3, <2>4 DEF LevelsOK, ReaderWakes
  <2> QED BY <1>3, <1>7, <2>4, <2>5 DEF WakeInv
<1>10. CASE RLoad(Throttler)
  <2>1. wr' = wr /\ rd[Throttler].pc = "load"
    BY <1>10 DEF RLoad
  <2>2. CASE RFinish(Throttler)
    <3>1. /\ rd'[Throttler].start = 0
          /\ rd'[Throttler].totalReleased = rd[Throttler].totalReleased
          /\ rd'[Throttler].armLevel = rd[Throttler].armLevel
          /\ rd'[Throttler].triggerLevel = rd[Throttler].triggerLevel
          /\ rd'[Throttler].pc = "idle"
               \/ (rd'[Throttler].pc = "release" /\ rd'[Throttler].obtained > 0)
      BY <1>1, <1>2, <2>2 DEF RFinish, ReaderState
    <3>2. ReaderWakes'
      BY <3>1 DEF ReaderWakes
    <3> QED BY <1>3, <1>5, <1>7, <2>1, <3>1, <3>2 DEF WakeInv
  <2>3. CASE /\ rd' = [rd EXCEPT ![Throttler] =
                         [rd[Throttler] EXCEPT !.pc = "wait", !.call.seen = rear]]
             /\ rear = rd[Throttler].localFront
    <3>1. /\ rd'[Throttler].start = 0
          /\ rd'[Throttler].totalReleased = rd[Throttler].totalReleased
          /\ rd'[Throttler].armLevel = rd[Throttler].armLevel
          /\ rd'[Throttler].triggerLevel = rd[Throttler].triggerLevel
          /\ rd'[Throttler].pc = "wait"
          /\ rd'[Throttler].call.seen = rd'[Throttler].localFront
      BY <1>1, <2>3 DEF ReaderState, CallState
    <3>2. ReaderWakes'
      BY <3>1 DEF ReaderWakes
    <3> QED BY <1>3, <1>5, <1>7, <2>1, <3>1, <3>2 DEF WakeInv
  <2> QED BY <1>10, <2>2, <2>3 DEF RLoad
<1>11. CASE RWait(Throttler)
  <2>1. wr' = wr /\ rd[Throttler].pc = "wait"
    BY <1>11 DEF RWait
  <2>2. /\ rd'[Throttler].start = 0
        /\ rd'[Throttler].totalReleased = rd[Throttler].totalReleased
        /\ rd'[Throttler].armLevel = rd[Throttler].armLevel
        /\ rd'[Throttler].triggerLevel = rd[Throttler].triggerLevel
        /\ rd'[Throttler].pc = "load"
             \/ (rd'[Throttler].pc = "sleep" /\ rear = rd[Throttler].call.seen)
    BY <1>1, <1>11 DEF RWait, ReaderState
  <2>3. rear = rd[Throttler].call.seen => FillLevel = 0
    BY <1>1, <1>3, <2>1, SameLevel DEF ReaderWakes
  <2>4. ReaderWakes'
    BY <1>6, <2>2, <2>3 DEF ReaderWakes
  <2> QED BY <1>3, <1>5, <1>7, <2>1, <2>2, <2>4 DEF WakeInv
<1>12. CASE RRelease(Throttler)
  <2>1. PICK n \in 1 .. rd[Throttler].obtained : RReleaseOf(Throttler, n)
    BY <1>1, <1>3, <1>12 DEF RRelease, ReaderWakes
  <2>2. /\ rd' = [rd EXCEPT ![Throttler] = [rd[Throttler] EXCEPT !.pc = "store",
                               !.call.count = n, !.call.filled = FillLevel]]
        /\ wr' = wr /\ rd[Throttler].pc # "wake"
    BY <1>2, <1>12, <2>1 DEF RRelease, RReleaseOf
  <2>3. /\ rd'[Throttler].start = 0
        /\ rd'[Throttler].totalReleased = rd[Throttler].totalReleased
        /\ rd'[Throttler].armLevel = rd[Throttler].armLevel
        /\ rd'[Throttler].triggerLevel = rd[Throttler].triggerLevel
        /\ rd'[Throttler].pc = "store" /\ rd'[Throttler].call.count = n
        /\ rd'[Throttler].call.filled = FillLevel
    BY <1>1, <2>2 DEF ReaderState, CallState
  <2>4. n > 0 /\ FillLevel \in n .. FrameCount
    BY <1>1, <1>2, <2>1, Constants
  <2>5. ReaderWakes'
    BY <2>3, <2>4 DEF ReaderWakes
  <2> QED BY <1>3, <1>5, <1>7, <2>2, <2>3, <2>5 DEF WakeInv
<1>13. CASE RStore(Throttler)
  <2> DEFINE n      == rd[Throttler].call.count
             filled == rd[Throttler].call.filled
  <2>1. /\ n \in Nat /\ n > 0 /\ filled \in n .. FrameCount
        /\ rd[Throttler].armLevel = -1 /\ rd[Throttler].triggerLevel = FrameCount
    BY <1>1, <1>3, <1>13 DEF RStore, ReaderWakes, LevelsOK, CallState
  <2>2. /\ filled >= 0 /\ filled > rd[Throttler].armLevel /\ filled >= n
        /\ filled - n < rd[Throttler].triggerLevel
    BY <2>1, Constants
  <2> HIDE DEF n, filled
  <2>3. /\ rd'[Throttler].pc = "wake" /\ wr' = wr
        /\ rd'[Throttler].armLevel = rd[Throttler].armLevel
        /\ rd'[Throttler].triggerLevel = rd[Throttler].triggerLevel
    BY <1>1, <1>13, <2>2 DEF RStore, ReaderState, n, filled
  <2>4. ReaderWakes'
    BY <2>3 DEF ReaderWakes
  <2>5. Written' = Written
    BY <2>3 DEF Written
  <2>6. WriterWakes'
    BY <1>3, <2>3, <2>5 DEF WriterWakes
  <2> QED BY <1>3, <1>5, <2>3, <2>4, <2>6 DEF WakeInv
<1>14. CASE RWake(Throttler)
  <2>1. /\ rd'[Throttler].pc = "idle" /\ rd'[Throttler].start = 0
        /\ rd'[Throttler].totalReleased = rd[Throttler].totalReleased
        /\ rd'[Throttler].armLevel = rd[Throttler].armLevel
        /\ rd'[Throttler].triggerLevel = rd[Throttler].triggerLevel
    BY <1>1, <1>14 DEF RWake, ReaderState
  <2>2. ReaderWakes'
    BY <2>1 DEF ReaderWakes
  <2>3. wr'.pc = "load" \/ (wr' = wr /\ wr.pc # "sleep")
    BY <1>4, <1>14, WakeTypes DEF RWake, WriterState
  <2>4. WriterWakes'
    BY <1>3, <1>6, <2>1, <2>3 DEF WriterWakes
  <2> QED BY <1>3, <1>5, <2>1, <2>2, <2>4 DEF WakeInv
<1>15. ~ RReleaseTooMany(Throttler)
  BY DEF DefaultLevels, RReleaseTooMany
<1> QED BY <1>8, <1>9, <1>10, <1>11, <1>12, <1>13, <1>14, <1>15 DEF ReaderNext

\* No wake of a futex is lost, whatever the interleaving of the two sides and of the halves
\* of obtain() and release(): the comparison in FUTEX_WAIT and a wake after every release
\* are enough (fifo.cpp:253, 341-353, 509-521).  For every capacity and index width, other
\* readers, timeouts and signals included; with other levels it is false.
THEOREM NoWakeIsLost == ASSUME DefaultLevels PROVE FifoSpec => []NoLostWakeup
<1> DEFINE Inv == Throttled => WakeInv
<1>1. FifoInit => Inv
  <2> SUFFICES ASSUME FifoInit, Throttled PROVE WakeInv
    OBVIOUS
  <2>1. Throttler \in Readers
    BY FifoAssumption DEF Throttled
  <2>2. Offset(0) = 0
    BY Constants, ModUnique DEF Offset
  <2>3. IndexesOK
    BY <2>2, Constants DEF FifoInit, IndexesOK
  <2>4. LevelsOK /\ WriterWakes /\ ReaderWakes
    BY <2>1 DEF FifoInit, LevelsOK, WriterWakes, ReaderWakes
  <2> QED BY <2>3, <2>4 DEF WakeInv
<1>2. IndInv /\ Inv /\ [FifoNext]_fifoVars => Inv'
  <2> SUFFICES ASSUME IndInv, Inv, [FifoNext]_fifoVars, Throttled PROVE WakeInv'
    BY DEF Throttled
  <2>1. TypeInv /\ PosInv /\ WakeInv
    BY IndParts
  <2>2. CASE WriterNext
    BY <2>1, <2>2, WriterKeepsWakes
  <2>3. CASE \E r \in Readers : ReaderNext(r)
    BY <2>1, <2>3, OtherKeepsWakes, ThrottlerKeepsWakes
  <2>4. CASE UNCHANGED fifoVars
    BY <2>1, <2>4 DEF fifoVars, WakeInv, LevelsOK, IndexesOK, WriterWakes, ReaderWakes, FillLevel,
                      Written, Position
  <2>5. ~ ShutdownSeen
    BY <2>1 DEF ShutdownSeen, WakeInv, IndexesOK
  <2> QED BY <2>2, <2>3, <2>4, <2>5 DEF FifoNext
<1>3. IndInv /\ Inv => NoLostWakeup
  <2> SUFFICES ASSUME IndInv, WakeInv, Throttled PROVE NoLostWakeup
    BY DEF NoLostWakeup, NoLostReaderWakeup, NoLostWriterWakeup
  <2>1. FillLevel \in 0 .. FrameCount
    BY IndParts, SameLevel
  <2> QED BY <2>1, Constants DEF WakeInv, LevelsOK, WriterWakes, ReaderWakes, NoLostWakeup,
                      NoLostReaderWakeup, NoLostWriterWakeup
<1> HIDE DEF Inv
<1> QED BY <1>1, <1>2, <1>3, Invariant, PTL DEF FifoSpec

-----------------------------------------------------------------------------
(* What the two clients of a FIFO with a throttling reader rely on: the frames *)
(* stay intact in the buffer, and the FIFO implements BoundedStream.           *)

\* The frames in the buffer: those released, and those of a release() by the
\* writer that has not yet published its rear.
Filled == Written + IF wr.pc = "store" THEN wr.call.count ELSE 0

\* The inductive form of UnreadFramesIntact: by numbers instead of indices, and
\* already for the frames that are about to be published.
FramesInv ==
  Throttled => \A k \in Nat : Position(Throttler) =< k /\ k < Filled => buf[k % FrameCount] = k

-----------------------------------------------------------------------------
(* Slots *)

\* The i-th slot of a slice is that of the i-th frame from its first one.
LEMMA SliceOf ==
  ASSUME NEW n \in Nat, NEW i \in 0 .. FrameCount - 1
  PROVE  /\ Slice(IndexOf(n), i) = (n + i) % FrameCount
         /\ (n + i) % FrameCount \in 0 .. FrameCount - 1
<1> USE Constants
<1>1. PICK a \in Int, b \in 0 .. FrameCount - 1 :
         n = FrameCount * a + b /\ Offset(IndexOf(n)) = b
  BY IndexForm
<1>2. FrameCount * a \in Int /\ FrameCount * (a + 1) = FrameCount * a + FrameCount
  BY Products
<1>3. CASE i < FrameCount - b
  <2>1. Slice(IndexOf(n), i) = b + i /\ b + i \in 0 .. FrameCount - 1
    BY <1>1, <1>3 DEF Slice
  <2>2. n + i = (b + i) + FrameCount * a
    BY <1>1, <1>2
  <2>3. ((b + i) + FrameCount * a) % FrameCount = b + i
    BY <2>1, ModUnique
  <2> QED BY <2>1, <2>2, <2>3
<1>4. CASE ~ (i < FrameCount - b)
  <2>1. /\ Slice(IndexOf(n), i) = b + i - FrameCount
        /\ b + i - FrameCount \in 0 .. FrameCount - 1
    BY <1>1, <1>4 DEF Slice
  <2>2. n + i = (b + i - FrameCount) + FrameCount * (a + 1)
    BY <1>1, <1>2
  <2>3. a + 1 \in Int
    OBVIOUS
  <2>4. ((b + i - FrameCount) + FrameCount * (a + 1)) % FrameCount = b + i - FrameCount
    BY <2>1, <2>3, ModUnique
  <2> QED BY <2>1, <2>2, <2>4
<1> QED BY <1>3, <1>4

\* Frames that may be in the buffer together have different slots.
LEMMA SlotsDiffer ==
  ASSUME NEW m \in Nat, NEW k \in Nat, m < k, k - m < FrameCount
  PROVE  m % FrameCount # k % FrameCount
<1> USE Constants
<1> SUFFICES ASSUME m % FrameCount = k % FrameCount PROVE FALSE
  OBVIOUS
<1> DEFINE p == m \div FrameCount
           q == k \div FrameCount
<1>1. /\ m = FrameCount * p + (m % FrameCount) /\ p \in Int /\ m % FrameCount \in Int
      /\ k = FrameCount * q + (k % FrameCount) /\ q \in Int
  BY DivMod
<1> HIDE DEF p, q
<1>2. FrameCount * (q - p) = FrameCount * q - FrameCount * p
      /\ FrameCount * q \in Int /\ FrameCount * p \in Int
  BY <1>1, Products
<1>3. FrameCount * (q - p) = k - m
  BY <1>1, <1>2
<1>4. CASE q - p >= 1
  BY <1>1, <1>3, <1>4
<1>5. CASE q - p =< 0
  BY <1>1, <1>3, <1>5
<1> QED BY <1>1, <1>4, <1>5

-----------------------------------------------------------------------------
(* Who changes what *)

\* Only the stores of a release() move the two positions.
LEMMA Quiet ==
  ASSUME TypeInv, PosInv, Throttled, [FifoNext]_fifoVars, ~ WStore, ~ RStore(Throttler)
  PROVE  Written' = Written /\ Position(Throttler)' = Position(Throttler)
<1>0. /\ Throttler \in Readers /\ wr \in WriterState
      /\ rd \in [Readers -> ReaderState] /\ rd[Throttler] \in ReaderState
  BY Positions DEF TypeInv, WriterOK
<1>1. CASE WriterNext
  <2>1. Written' = Written
    BY <1>0, <1>1 DEF WriterNext, WObtain, WLoadThrottled, WLoadUnthrottled, WFinish, WWait,
         WTimeout, WSignal, WRelease, WReleaseOf, WReleaseTooMany, WWake, WResize,
         WSetHysteresis, WriterState, Written
  <2>2. /\ rd'[Throttler].totalReleased = rd[Throttler].totalReleased
        /\ rd'[Throttler].start = rd[Throttler].start
    <3>1. CASE WWake
      BY <1>0, <3>1 DEF WWake, ReaderState
    <3>2. CASE ~ WWake
      BY <1>1, <3>2 DEF WriterNext, WObtain, WLoadThrottled, WLoadUnthrottled, WWait, WTimeout,
           WSignal, WRelease, WReleaseOf, WReleaseTooMany, WResize, WSetHysteresis
    <3> QED BY <3>1, <3>2
  <2> QED BY <2>1, <2>2 DEF Position
<1>2. ASSUME NEW r \in Readers, ReaderNext(r), r # Throttler
      PROVE  Written' = Written /\ Position(Throttler)' = Position(Throttler)
  <2>1. ~ RStore(r)
    BY <1>2 DEF RStore, TypeInv, ReaderOK
  <2>2. Written' = Written
    BY <1>0, <1>2, <2>1 DEF ReaderNext, RJoin, RObtain, RLoad, RWait, RTimeout, RSignal,
         RRelease, RReleaseOf, RReleaseTooMany, RWake, RSetHysteresis, WriterState, Written
  <2>3. rd'[Throttler] = rd[Throttler]
    BY <1>0, <1>2, <2>1 DEF ReaderNext, RJoin, RObtain, RLoad, RFinish, RWait, RTimeout,
         RSignal, RRelease, RReleaseOf, RReleaseTooMany, RWake, RSetHysteresis
  <2> QED BY <2>2, <2>3 DEF Position
<1>3. CASE ReaderNext(Throttler)
  <2>1. Written' = Written
    BY <1>0, <1>3 DEF ReaderNext, RJoin, RObtain, RLoad, RWait, RTimeout, RSignal,
         RRelease, RReleaseOf, RReleaseTooMany, RWake, RSetHysteresis, WriterState, Written
  <2>2. CASE RLoad(Throttler)
    <3>1. CASE RFinish(Throttler)
      <4>1. LostBy(Throttler, rear, rd[Throttler].localFront) = 0
        BY Positions DEF LostBy
      <4>2. /\ rd'[Throttler].totalReleased = rd[Throttler].totalReleased + 0
            /\ rd'[Throttler].start = rd[Throttler].start
        BY <1>0, <3>1, <4>1 DEF RFinish, ReaderState
      <4> QED BY <1>0, <2>1, <4>2 DEF Position, ReaderState
    <3>2. CASE rd' = [rd EXCEPT ![Throttler] =
                       [rd[Throttler] EXCEPT !.pc = "wait", !.call.seen = rear]]
      BY <1>0, <2>1, <3>2 DEF Position, ReaderState
    <3> QED BY <2>2, <3>1, <3>2 DEF RLoad
  <2>3. CASE RJoin(Throttler)
    <3>1. /\ rd'[Throttler].totalReleased = rd[Throttler].totalReleased
          /\ rd'[Throttler].start = 0
      BY <1>0, <2>3 DEF RJoin, ReaderState
    <3> QED BY <2>1, <3>1 DEF Position, PosInv, ThrottledIndices
  <2>4. CASE RRelease(Throttler)
    <3>1. PICK n : RReleaseOf(Throttler, n)
      BY <2>4 DEF RRelease
    <3>2. rd' = [rd EXCEPT ![Throttler] =
                  [rd[Throttler] EXCEPT !.pc = "store", !.call.count = n,
                     !.call.filled = DiffBy(Throttler, rear, rd[Throttler].localFront)]]
      BY <3>1 DEF RReleaseOf
    <3> QED BY <1>0, <2>1, <3>2 DEF Position, ReaderState
  <2>5. CASE RObtain(Throttler)
    BY <1>0, <2>1, <2>5 DEF RObtain, Position, ReaderState
  <2>6. CASE RWait(Throttler)
    BY <1>0, <2>1, <2>6 DEF RWait, Position, ReaderState
  <2>7. CASE RTimeout(Throttler)
    BY <1>0, <2>1, <2>7 DEF RTimeout, Position, ReaderState
  <2>8. CASE RSignal(Throttler)
    BY <1>0, <2>1, <2>8 DEF RSignal, Position, ReaderState
  <2>9. CASE RReleaseTooMany(Throttler)
    BY <1>0, <2>1, <2>9 DEF RReleaseTooMany, Position
  <2>10. CASE RWake(Throttler)
    BY <1>0, <2>1, <2>10 DEF RWake, Position, ReaderState
  <2>11. CASE RSetHysteresis(Throttler)
    BY <1>0, <2>1, <2>11 DEF RSetHysteresis, Position, ReaderState
  <2> QED BY <1>3, <2>2, <2>3, <2>4, <2>5, <2>6, <2>7, <2>8, <2>9, <2>10, <2>11 DEF ReaderNext
<1>4. CASE ShutdownSeen \/ UNCHANGED fifoVars
  BY <1>4 DEF ShutdownSeen, fifoVars, Written, Position
<1> QED BY <1>1, <1>2, <1>3, <1>4 DEF FifoNext

\* Only release() by the writer fills slots, and between its two halves nothing
\* else is done by the writer.
LEMMA OnlyReleaseFills ==
  ASSUME TypeInv, [FifoNext]_fifoVars, ~ WRelease, ~ WStore
  PROVE  buf' = buf /\ (wr'.pc = "store" <=> wr.pc = "store")
         /\ (wr.pc = "store" => wr'.call.count = wr.call.count)
<1>0. wr \in WriterState
  BY DEF TypeInv, WriterOK
<1>1. CASE WriterNext
  <2>1. buf' = buf
    BY <1>1 DEF WriterNext, WObtain, WLoadThrottled, WLoadUnthrottled, WWait, WTimeout,
         WSignal, WReleaseTooMany, WWake, WResize, WSetHysteresis
  <2>2. CASE WReleaseTooMany
    BY <2>1, <2>2 DEF WReleaseTooMany
  <2>3. CASE ~ WReleaseTooMany
    BY <1>0, <1>1, <2>1, <2>3 DEF WriterNext, WObtain, WLoadThrottled, WLoadUnthrottled,
         WFinish, WWait, WTimeout, WSignal, WWake, WResize, WSetHysteresis, WriterState
  <2> QED BY <2>2, <2>3
<1>2. ASSUME NEW r \in Readers, ReaderNext(r)
      PROVE  buf' = buf /\ (wr' = wr \/ (wr.pc = "sleep" /\ wr'.pc = "load"))
  BY <1>0, <1>2 DEF ReaderNext, RJoin, RObtain, RLoad, RWait, RTimeout, RSignal, RRelease,
         RReleaseOf, RReleaseTooMany, RStore, RWake, RSetHysteresis, WriterState
<1>3. CASE ShutdownSeen \/ UNCHANGED fifoVars
  BY <1>3 DEF ShutdownSeen, fifoVars
<1> QED BY <1>1, <1>2, <1>3 DEF FifoNext

\* The two stores.
LEMMA WriterPublishes ==
  ASSUME TypeInv, PosInv, Throttled, WStore
  PROVE  /\ wr.pc = "store" /\ wr'.pc # "store" /\ wr.call.count \in 0 .. FrameCount
         /\ Written' = Written + wr.call.count
         /\ Position(Throttler)' = Position(Throttler) /\ buf' = buf
<1>1. wr \in WriterState /\ wr.call \in CallState /\ wr.call.count =< wr.obtained
  BY DEF WStore, TypeInv, WriterOK, WriterState
<1>2. wr.call.count \in 0 .. FrameCount
  BY <1>1, Constants DEF WriterState, CallState
<1>3. /\ wr'.totalReleased = wr.totalReleased + wr.call.count /\ wr'.pc # "store"
      /\ wr.pc = "store" /\ UNCHANGED <<buf, rd>>
  BY <1>1 DEF WStore, WriterState
<1> QED BY <1>2, <1>3 DEF Written, Position

LEMMA ReaderPublishes ==
  ASSUME TypeInv, PosInv, Throttled, RStore(Throttler)
  PROVE  /\ rd[Throttler].call.count \in 0 .. FrameCount
         /\ rd[Throttler].call.count =< rd[Throttler].obtained
         /\ Position(Throttler)' = Position(Throttler) + rd[Throttler].call.count
         /\ UNCHANGED <<buf, wr>>
<1>1. /\ Throttler \in Readers /\ rd \in [Readers -> ReaderState]
      /\ rd[Throttler] \in ReaderState /\ rd[Throttler].call \in CallState
      /\ rd[Throttler].call.count =< rd[Throttler].obtained
  BY Positions DEF RStore, TypeInv, ReaderOK, ReaderState
<1>2. rd[Throttler].call.count \in 0 .. FrameCount
  BY <1>1, Constants DEF ReaderState, CallState
<1>3. /\ rd'[Throttler].totalReleased = rd[Throttler].totalReleased + rd[Throttler].call.count
      /\ rd'[Throttler].start = rd[Throttler].start /\ UNCHANGED <<buf, wr>>
  BY <1>1 DEF RStore, ReaderState
<1> QED BY <1>1, <1>2, <1>3 DEF Position, ReaderState

-----------------------------------------------------------------------------
(* The frames *)

\* Filling part of the writer's slice stores the next frames there, each in the
\* slot of its number, and touches no frame that is still to be read.
LEMMA FillKeepsFrames ==
  ASSUME TypeInv, PosInv, FramesInv, Throttled, wr.pc # "store",
         NEW n \in Nat, n =< wr.obtained, WReleaseOf(n)
  PROVE  FramesInv'
<1> USE Constants
<1> DEFINE f == Position(Throttler)
<1>1. /\ Written \in Nat /\ f \in Nat /\ wr.obtained \in 0 .. FrameCount /\ f =< Written
      /\ rd[Throttler].obtained \in 0 .. FrameCount
      /\ Written + wr.obtained =< f + FrameCount /\ wr.localRear = IndexOf(Written)
      /\ wr \in WriterState /\ wr.call \in CallState
  BY Positions DEF PosInv, SlicesDisjoint, ThrottledIndices, TypeInv, WriterOK, WriterState
<1>2. /\ buf' = FillSlots(n) /\ f' = f /\ Written' = Written
      /\ Filled' = Written + n /\ Filled = Written
  <2>1. /\ buf' = FillSlots(n) /\ rd' = rd
        /\ wr' = [wr EXCEPT !.pc = "store", !.call.count = n,
                            !.call.filled = DiffBy(Writer, wr.localRear, front)]
    BY DEF WReleaseOf
  <2>2. /\ wr'.pc = "store" /\ wr'.call.count = n
        /\ wr'.totalReleased = wr.totalReleased
    BY <1>1, <2>1 DEF WriterState, CallState
  <2> QED BY <1>1, <2>1, <2>2 DEF Position, Written, Filled
<1>3. \A i \in 0 .. n - 1 :
         /\ Slice(wr.localRear, i) = (Written + i) % FrameCount
         /\ (Written + i) % FrameCount \in 0 .. FrameCount - 1
  BY <1>1, SliceOf
<1>4. DOMAIN buf = 0 .. FrameCount - 1
  BY DEF TypeInv, SharedOK
<1>5. ASSUME NEW k \in Nat, f =< k, k < Written + n
      PROVE  buf'[k % FrameCount] = k
  <2> DEFINE s == k % FrameCount
  <2>1. s \in 0 .. FrameCount - 1
    BY DivMod
  <2>2. CASE k < Written
    <3>1. \A i \in 0 .. n - 1 : Slice(wr.localRear, i) # s
      <4> SUFFICES ASSUME NEW i \in 0 .. n - 1 PROVE (Written + i) % FrameCount # s
        BY <1>3
      <4> DEFINE x == Written + i
      <4>1. x \in Nat /\ k < x /\ x - k < FrameCount
        BY <1>1, <1>5, <2>2
      <4> HIDE DEF x
      <4>2. k % FrameCount # x % FrameCount
        BY <4>1, <1>5, SlotsDiffer, Zenon
      <4> QED BY <4>2 DEF x
    <3>2. buf'[s] = buf[s]
      BY <1>2, <1>4, <2>1, <3>1 DEF FillSlots
    <3> QED BY <1>2, <1>5, <2>2, <3>2 DEF FramesInv
  <2>3. CASE k >= Written
    <3> DEFINE j == k - Written
               c == CHOOSE i \in 0 .. n - 1 : Slice(wr.localRear, i) = s
    <3>1. j \in 0 .. n - 1 /\ Written + j = k /\ Slice(wr.localRear, j) = s
      BY <1>1, <1>3, <1>5, <2>3
    <3>2. c \in 0 .. n - 1 /\ (Written + c) % FrameCount = s
      BY <1>3, <3>1
    <3>3. buf'[s] = Written + c
      BY <1>2, <1>4, <2>1, <3>1 DEF FillSlots
    <3> HIDE DEF c
    <3>4. Written + c \in Nat /\ k - (Written + c) < FrameCount /\ (Written + c) - k < FrameCount
      BY <1>1, <1>5, <2>3, <3>2
    <3>5. ~ (k < Written + c) /\ ~ (Written + c < k)
      BY <3>2, <3>4, SlotsDiffer
    <3> QED BY <3>3, <3>4, <3>5
  <2> QED BY <1>1, <1>5, <2>2, <2>3
<1> QED BY <1>1, <1>2, <1>5 DEF FramesInv

LEMMA FramesStep ==
  ASSUME TypeInv, PosInv, FramesInv, Throttled, [FifoNext]_fifoVars
  PROVE  FramesInv'
<1>0. /\ Written \in Nat /\ Position(Throttler) \in Nat /\ wr \in WriterState
      /\ wr.call.count \in Nat /\ wr.obtained \in 0 .. FrameCount
  BY Positions DEF TypeInv, WriterOK, WriterState, CallState
<1>1. CASE WRelease
  <2>1. PICK n \in Nat : WReleaseOf(n) /\ n =< wr.obtained /\ wr.pc # "store"
    BY <1>0, <1>1, Constants DEF WRelease
  <2> QED BY <2>1, FillKeepsFrames
<1>2. CASE WStore
  <2>1. Filled' = Filled
    BY <1>0, <1>2, WriterPublishes DEF Filled
  <2> QED BY <1>2, <2>1, WriterPublishes DEF FramesInv
<1>3. CASE RStore(Throttler)
  <2>1. Filled' = Filled
    BY <1>3, ReaderPublishes DEF Filled, Written
  <2>2. Position(Throttler) =< Position(Throttler)'
        /\ Position(Throttler)' \in Nat /\ buf' = buf
    BY <1>0, <1>3, ReaderPublishes, Constants
  <2>3. ASSUME NEW k \in Nat, Position(Throttler)' =< k, k < Filled'
        PROVE  buf'[k % FrameCount] = k
    BY <1>0, <2>1, <2>2, <2>3 DEF FramesInv
  <2> QED BY <2>3 DEF FramesInv
<1>4. CASE ~ WRelease /\ ~ WStore /\ ~ RStore(Throttler)
  <2>1. Filled' = Filled /\ Position(Throttler)' = Position(Throttler) /\ buf' = buf
    BY <1>4, Quiet, OnlyReleaseFills DEF Filled
  <2> QED BY <2>1 DEF FramesInv
<1> QED BY <1>1, <1>2, <1>3, <1>4

LEMMA FramesInit == FifoInit => FramesInv
BY FifoAssumption DEF FifoInit, FramesInv, Filled, Written, Position, Throttled

\* All that a step preserves together.
StreamInv == TypeInv /\ PosInv /\ FramesInv

LEMMA StreamInvariant == FifoSpec => []StreamInv
<1>1. FifoInit => FramesInv
  BY FramesInit
<1>2. FramesInv /\ TypeInv /\ PosInv /\ [FifoNext]_fifoVars => FramesInv'
  <2>1. ~ Throttled => FramesInv'
    BY DEF FramesInv
  <2> QED BY <2>1, FramesStep
<1>3. IndInv => TypeInv /\ PosInv
  BY TypeInvParts DEF IndInv, PosInv
<1> QED BY <1>1, <1>2, <1>3, Invariant, PTL DEF FifoSpec, StreamInv

\* Every frame between the two positions is in its slot, whatever the capacity,
\* the calls and the interleaving (the memcpy of write() and read(), fifo.cpp:180-197).
THEOREM FramesIntact == FifoSpec => []UnreadFramesIntact
<1>1. StreamInv => UnreadFramesIntact
  <2> SUFFICES ASSUME StreamInv, Throttled, NEW i \in 0 .. FillLevel - 1
               PROVE  buf[Slice(rd[Throttler].localFront, i)] = Position(Throttler) + i
    BY DEF UnreadFramesIntact
  <2>1. /\ Written \in Nat /\ Position(Throttler) \in Nat
        /\ Written - Position(Throttler) =< FrameCount
        /\ rd[Throttler].localFront = IndexOf(Position(Throttler))
        /\ wr \in WriterState /\ wr.call.count \in Nat
    BY Positions DEF StreamInv, PosInv, ThrottledIndices, TypeInv, WriterOK, WriterState,
                     CallState
  <2>2. /\ i \in 0 .. FrameCount - 1 /\ Position(Throttler) + i \in Nat
        /\ Position(Throttler) =< Position(Throttler) + i
        /\ Position(Throttler) + i < Filled
    BY <2>1, Constants DEF FillLevel, Filled
  <2> QED BY <2>1, <2>2, SliceOf DEF StreamInv, FramesInv
<1> QED BY <1>1, StreamInvariant, PTL

-----------------------------------------------------------------------------
(* The FIFO is a bounded stream *)

\* The frames from the a-th one up to but not including the b-th, as a queue.
Numbers(a, b) == [i \in 1 .. b - a |-> a + i - 1]

\* The next n frames, as Put() of BoundedStream appends them.
Following(b, n) == [i \in 1 .. n |-> b + i - 1]

LEMMA NumbersLength ==
  ASSUME NEW a \in Nat, NEW b \in Nat, a =< b
  PROVE  Numbers(a, b) \in Seq(Nat) /\ Len(Numbers(a, b)) = b - a
BY DEF Numbers

LEMMA NumbersAppend ==
  ASSUME NEW a \in Nat, NEW b \in Nat, a =< b, NEW n \in Nat
  PROVE  /\ Len(Numbers(a, b)) + n = b + n - a
         /\ Numbers(a, b + n) = Numbers(a, b) \o Following(b, n)
BY NumbersLength DEF Numbers, Following

LEMMA NumbersDrop ==
  ASSUME NEW a \in Nat, NEW b \in Nat, NEW n \in Nat, a + n =< b
  PROVE  /\ n =< Len(Numbers(a, b))
         /\ Numbers(a + n, b) = SubSeq(Numbers(a, b), n + 1, Len(Numbers(a, b)))
BY NumbersLength DEF Numbers

Queue == [i \in 1 .. FillLevel |-> buf[Slice(front, i - 1)]]

QueueOK ==
  /\ Queue = Numbers(Position(Throttler), Written)
  /\ Position(Throttler) \in Nat /\ Written \in Nat
  /\ Position(Throttler) =< Written /\ Written - Position(Throttler) =< FrameCount

LEMMA QueueIsNumbers == ASSUME Throttled PROVE StreamInv => QueueOK
<1> USE Constants
<1> SUFFICES ASSUME StreamInv PROVE QueueOK
  OBVIOUS
<1>1. /\ Written \in Nat /\ Position(Throttler) \in Nat
      /\ Position(Throttler) =< Written
      /\ Written - Position(Throttler) =< FrameCount
      /\ front = IndexOf(Position(Throttler))
      /\ wr \in WriterState /\ wr.call.count \in Nat
  BY Positions DEF StreamInv, PosInv, ThrottledIndices, TypeInv, WriterOK, WriterState, CallState
<1>2. ASSUME NEW i \in 1 .. FillLevel
      PROVE  buf[Slice(front, i - 1)] = Position(Throttler) + i - 1
  <2> DEFINE k == Position(Throttler) + (i - 1)
  <2>1. i - 1 \in 0 .. FrameCount - 1 /\ k \in Nat /\ Position(Throttler) =< k /\ k < Filled
    BY <1>1 DEF FillLevel, Filled
  <2>2. Slice(front, i - 1) = k % FrameCount
    BY <1>1, <2>1, SliceOf
  <2>3. buf[k % FrameCount] = k
    BY <2>1 DEF StreamInv, FramesInv
  <2> QED BY <1>1, <2>2, <2>3
<1> QED BY <1>1, <1>2 DEF QueueOK, Queue, Numbers, FillLevel

LEMMA StreamStep ==
  ASSUME StreamInv, QueueOK, QueueOK', Throttled, [FifoNext]_fifoVars
  PROVE  [Stream!Next]_<<Queue, Written>>
<1> USE Constants
<1> DEFINE f == Position(Throttler)
<1>0. TypeInv /\ PosInv
  BY DEF StreamInv
<1>1. /\ Queue = Numbers(f, Written) /\ Queue' = Numbers(f', Written')
      /\ f \in Nat /\ Written \in Nat /\ f =< Written
      /\ f' \in Nat /\ Written' \in Nat /\ f' =< Written' /\ Written' - f' =< FrameCount
  BY DEF QueueOK
<1>2. CASE WStore
  <2> DEFINE n == wr.call.count
  <2>1. n \in 0 .. FrameCount /\ Written' = Written + n /\ f' = f
    BY <1>0, <1>2, WriterPublishes
  <2>2. CASE n = 0
    BY <1>1, <2>1, <2>2
  <2>3. CASE n # 0
    <3>1. n \in 1 .. FrameCount
      BY <2>1, <2>3
    <3>2. /\ Len(Queue) + n =< FrameCount
          /\ Queue' = Queue \o Following(Written, n)
      <4>1. Queue' = Numbers(f, Written + n) /\ Written + n - f =< FrameCount
        BY <1>1, <2>1
      <4>2. n \in Nat /\ f \in Nat /\ Written \in Nat /\ f =< Written
        BY <1>1, <3>1
      <4> HIDE DEF f, n
      <4>3. /\ Len(Numbers(f, Written)) + n = Written + n - f
            /\ Numbers(f, Written + n) = Numbers(f, Written) \o Following(Written, n)
        BY <4>2, NumbersAppend, Zenon
      <4> QED BY <1>1, <4>1, <4>3
    <3>3. Stream!Next
      BY <2>1, <3>1, <3>2 DEF Stream!Next, Stream!Put, Queue, Following
    <3> QED BY <3>3
  <2> QED BY <2>2, <2>3
<1>3. CASE RStore(Throttler)
  <2> DEFINE n == rd[Throttler].call.count
  <2>1. n \in 0 .. FrameCount /\ f' = f + n /\ Written' = Written
    BY <1>0, <1>3, ReaderPublishes DEF Written
  <2>2. CASE n = 0
    BY <1>1, <2>1, <2>2
  <2>3. CASE n # 0
    <3>1. n \in 1 .. FrameCount /\ n \in Nat
      BY <2>1, <2>3
    <3>2. n =< Len(Queue) /\ Queue' = SubSeq(Queue, n + 1, Len(Queue))
      <4>1. Queue' = Numbers(f + n, Written) /\ f + n =< Written
        BY <1>1, <2>1
      <4> HIDE DEF f, n
      <4> QED BY <1>1, <3>1, <4>1, NumbersDrop
    <3>3. Stream!Next
      BY <2>1, <3>1, <3>2 DEF Stream!Next, Stream!Get, Queue
    <3> QED BY <3>3
  <2> QED BY <2>2, <2>3
<1>4. CASE ~ WStore /\ ~ RStore(Throttler)
  BY <1>0, <1>1, <1>4, Quiet
<1> QED BY <1>2, <1>3, <1>4

\* The FIFO with a throttling reader implements BoundedStream, with the queue
\* read from the buffer between the two shared words (fifo.cpp:314-353, 483-521).
THEOREM Refinement == ASSUME Throttled PROVE FifoSpec => StreamSpec
<1>1. FifoInit => Stream!Init
  BY FifoAssumption DEF FifoInit, Stream!Init, FillLevel, Written, Position, Throttled
<1>2. StreamInv /\ QueueOK /\ QueueOK' /\ [FifoNext]_fifoVars => [Stream!Next]_<<Queue, Written>>
  BY StreamStep
<1>3. StreamInv => QueueOK
  BY QueueIsNumbers
<1>4. Stream!Spec <=> Stream!Init /\ [][Stream!Next]_<<Queue, Written>>
  BY DEF Stream!Spec, Queue
<1> QED BY <1>1, <1>2, <1>3, <1>4, StreamInvariant, PTL DEF FifoSpec, StreamSpec
=============================================================================
