------------------------ MODULE CommandThreadProofs ------------------------
(* Theorems about CommandThread, for every set of waiters, of delays and every *)
(* bound.  The commands that have run, run, and are to run form one sequence,  *)
(* in which a step only inserts a new command, or which quit() cuts short.     *)
EXTENDS CommandThread, TLAPS, SequenceTheorems, WellFoundedInduction

\* Everything that was accepted and not dropped.
Places == Line \o scheduled

Injective(s) == \A i, j \in 1 .. Len(s) : s[i] = s[j] => i = j

\* RunsInOrder, of any sequence of commands, those in late being due at time.
InOrder(s, late, time) ==
  \A i, j \in 1 .. Len(s) :
    (i < j /\ s[j] < s[i]) => /\ s[j] \in late
                              /\ s[i] \in late => time[s[i]] < time[s[j]]

\* A command is accepted once, and as the youngest.
Accepted ==
  /\ Injective(Places)
  /\ \A i \in 1 .. Len(Places) : Places[i] \in 1 .. added
  /\ IF quit THEN commands = <<>> /\ scheduled = <<>>
             ELSE \A c \in 1 .. added : \E i \in 1 .. Len(Places) : Places[i] = c

\* The multimap holds delayed commands, by their times.
MapSorted ==
  /\ \A i \in 1 .. Len(scheduled) : scheduled[i] \in delayed
  /\ \A i, j \in 1 .. Len(scheduled) : i < j => due[scheduled[i]] =< due[scheduled[j]]

\* t is s with c inserted after its first p elements.
Inserts(s, t, p, c) ==
  /\ Len(t) = Len(s) + 1
  /\ \A i \in 1 .. Len(t) :
       t[i] = IF i =< p THEN s[i] ELSE IF i = p + 1 THEN c ELSE s[i - 1]

-----------------------------------------------------------------------------
(* The multimap *)

LEMMA Constants == Delays \subseteq Nat /\ MaxCommands \in Nat /\ MaxTime \in Nat
BY CommandThreadAssumption

LEMMA Least ==
  ASSUME NEW N, N \subseteq Nat, N # {}
  PROVE  \E m \in N : \A k \in N : m =< k
<1>1. PICK m \in N : \A k \in N : <<k, m>> \notin OpToRel(<, Nat)
  BY WFMin, NatLessThanWellFounded, Zenon
<1>2. \A k \in N : ~ (k < m)
  BY <1>1, Zenon DEF OpToRel
<1> QED BY <1>2

\* upper_bound() is there: before it nothing is later than time, and the element
\* at it is (CommandThread.h:155, 233-236).
LEMMA UpperBoundIs ==
  ASSUME TypeOK, NEW time \in Nat
  PROVE  /\ UpperBound(time) \in 0 .. Len(scheduled)
         /\ \A i \in 1 .. UpperBound(time) : due[scheduled[i]] =< time
         /\ UpperBound(time) < Len(scheduled) => due[scheduled[UpperBound(time) + 1]] > time
<1> DEFINE later == {k \in 1 .. Len(scheduled) + 1 :
                       k = Len(scheduled) + 1 \/ due[scheduled[k]] > time}
<1>1. Len(scheduled) \in Nat /\ \A i \in 1 .. Len(scheduled) : due[scheduled[i]] \in Nat
  BY Constants DEF TypeOK
<1>2. PICK m \in later : \A k \in later : m =< k
  <2>1. later \subseteq Nat /\ Len(scheduled) + 1 \in later
    BY <1>1
  <2> HIDE DEF later
  <2> QED BY <2>1, Least
<1>3. \E n \in 0 .. Len(scheduled) :
        /\ \A i \in 1 .. n : due[scheduled[i]] =< time
        /\ n < Len(scheduled) => due[scheduled[n + 1]] > time
  <2>1. m - 1 \in 0 .. Len(scheduled) /\ m \in Nat
    BY <1>1, <1>2
  <2>2. ASSUME NEW i \in 1 .. m - 1
        PROVE  due[scheduled[i]] =< time
    <3>1. i \in 1 .. Len(scheduled) /\ i < m
      BY <1>1, <2>1
    <3>2. i \notin later
      BY <1>2, <2>1, <3>1
    <3> QED BY <1>1, <3>1, <3>2
  <2>3. m - 1 < Len(scheduled) => due[scheduled[(m - 1) + 1]] > time
    <3>1. (m - 1) + 1 = m
      BY <2>1
    <3> QED BY <1>1, <1>2, <2>1, <3>1
  <2> QED BY <2>1, <2>2, <2>3
<1> QED BY <1>3 DEF UpperBound

\* What comes before and after it are sequences of commands, whose join is the map.
LEMMA MapSplits ==
  ASSUME TypeOK, NEW time \in Nat
  PROVE  /\ NotAfter(time) \in Seq(Command) /\ After(time) \in Seq(Command)
         /\ NotAfter(time) \o After(time) = scheduled
         /\ Len(NotAfter(time)) = UpperBound(time)
         /\ Len(After(time)) = Len(scheduled) - UpperBound(time)
         /\ \A i \in 1 .. UpperBound(time) : NotAfter(time)[i] = scheduled[i]
         /\ \A i \in 1 .. Len(scheduled) - UpperBound(time) :
              After(time)[i] = scheduled[UpperBound(time) + i]
<1> DEFINE u == UpperBound(time)
<1>0. u \in 0 .. Len(scheduled)
  BY UpperBoundIs
<1>1. u \in 0 .. Len(scheduled) /\ scheduled \in Seq(Command) /\ Len(scheduled) \in Nat
      /\ \A i \in 1 .. Len(scheduled) : scheduled[i] \in Command
  BY <1>0, LenProperties, ElementOfSeq DEF TypeOK
<1> HIDE DEF u
<1>2. /\ SubSeq(scheduled, 1, u) \in Seq(Command)
      /\ Len(SubSeq(scheduled, 1, u)) = u
      /\ \A i \in 1 .. u : SubSeq(scheduled, 1, u)[i] = scheduled[i]
  BY <1>1
<1>3. /\ SubSeq(scheduled, u + 1, Len(scheduled)) \in Seq(Command)
      /\ Len(SubSeq(scheduled, u + 1, Len(scheduled))) = Len(scheduled) - u
      /\ \A i \in 1 .. Len(scheduled) - u :
           SubSeq(scheduled, u + 1, Len(scheduled))[i] = scheduled[u + i]
  BY <1>1
<1>4. SubSeq(scheduled, 1, u) \o SubSeq(scheduled, u + 1, Len(scheduled)) = scheduled
  <2>1. /\ 1 \in 1 .. Len(scheduled) + 1 /\ u \in 1 - 1 .. Len(scheduled)
        /\ Len(scheduled) \in u .. Len(scheduled)
    BY <1>1
  <2>2. SubSeq(scheduled, 1, u) \o SubSeq(scheduled, u + 1, Len(scheduled))
          = SubSeq(scheduled, 1, Len(scheduled))
    BY <1>1, <2>1, ConcatAdjacentSubSeq
  <2> QED BY <1>1, <2>2, SubSeqFull
<1> QED BY <1>2, <1>3, <1>4 DEF NotAfter, After, u

LEMMA InsertBetween ==
  ASSUME NEW a \in Seq(Command), NEW b \in Seq(Command), NEW c \in Command
  PROVE  /\ a \o <<c>> \o b \in Seq(Command)
         /\ Inserts(a \o b, a \o <<c>> \o b, Len(a), c)
<1>1. /\ <<c>> \in Seq(Command) /\ Len(<<c>>) = 1 /\ <<c>>[1] = c
      /\ Len(a) \in Nat /\ Len(b) \in Nat
  OBVIOUS
<1>2. /\ a \o <<c>> \in Seq(Command) /\ Len(a \o <<c>>) = Len(a) + 1
      /\ \A i \in 1 .. Len(a) + 1 : (a \o <<c>>)[i] = IF i =< Len(a) THEN a[i] ELSE c
  BY <1>1, ConcatProperties
<1>3. /\ a \o <<c>> \o b \in Seq(Command)
      /\ Len(a \o <<c>> \o b) = Len(a) + 1 + Len(b)
      /\ \A i \in 1 .. Len(a) + 1 + Len(b) :
           (a \o <<c>> \o b)[i] = IF i =< Len(a) + 1 THEN (a \o <<c>>)[i] ELSE b[i - (Len(a) + 1)]
  BY <1>2, ConcatProperties
<1>4. /\ Len(a \o b) = Len(a) + Len(b)
      /\ \A i \in 1 .. Len(a) + Len(b) :
           (a \o b)[i] = IF i =< Len(a) THEN a[i] ELSE b[i - Len(a)]
  BY ConcatProperties
<1>5. ASSUME NEW i \in 1 .. Len(a) + 1 + Len(b)
      PROVE  (a \o <<c>> \o b)[i] = IF i =< Len(a) THEN (a \o b)[i]
                                    ELSE IF i = Len(a) + 1 THEN c ELSE (a \o b)[i - 1]
  <2>1. CASE i =< Len(a)
    BY <1>1, <1>2, <1>3, <1>4, <2>1
  <2>2. CASE i = Len(a) + 1
    BY <1>1, <1>2, <1>3, <2>2
  <2>3. CASE i > Len(a) + 1
    <3>1. i - 1 \in 1 .. Len(a) + Len(b) /\ ~ (i - 1 =< Len(a))
          /\ (i - 1) - Len(a) = i - (Len(a) + 1)
      BY <1>1, <2>3
    <3> QED BY <1>1, <1>3, <1>4, <2>3, <3>1
  <2> QED BY <1>1, <2>1, <2>2, <2>3
<1> QED BY <1>1, <1>3, <1>4, <1>5 DEF Inserts

\* emplace() inserts a command into the map (CommandThread.h:155).
LEMMA EmplaceInserts ==
  ASSUME TypeOK, NEW time \in Nat, NEW c \in Command
  PROVE  /\ Emplace(c, time) \in Seq(Command)
         /\ Inserts(scheduled, Emplace(c, time), UpperBound(time), c)
BY MapSplits, InsertBetween DEF Emplace

-----------------------------------------------------------------------------
(* One turn of the worker's loop *)

\* The commands that have run once the one that is being run has returned.
Ran == finished \o (IF running = 0 THEN <<>> ELSE <<running>>)

\* What the proofs need of putting sequences of commands behind each other.
LEMMA Concatenation ==
  /\ \A s, t \in Seq(Command) : s \o t \in Seq(Command)
  /\ \A s, t, u \in Seq(Command) : (s \o t) \o u = s \o (t \o u)
BY ConcatProperties, ConcatAssociative

LEMMA Associative ==
  ASSUME NEW s \in Seq(Command), NEW t \in Seq(Command), NEW u \in Seq(Command)
  PROVE  (s \o t) \o u = s \o (t \o u)
BY Concatenation

LEMMA RanType ==
  ASSUME TypeOK
  PROVE  Ran \in Seq(Command) /\ Line = Ran \o commands /\ Line \in Seq(Command)
         /\ Places = Ran \o (commands \o scheduled) /\ Places \in Seq(Command)
<1>1. finished \in Seq(Command) /\ commands \in Seq(Command) /\ scheduled \in Seq(Command)
  BY DEF TypeOK
<1>2. (IF running = 0 THEN <<>> ELSE <<running>>) \in Seq(Command)
  <2>1. running # 0 => running \in Command
    BY Constants DEF TypeOK, Command
  <2>2. running # 0 => <<running>> \in Seq(Command)
    BY <2>1
  <2>3. <<>> \in Seq(Command)
    BY EmptySeq
  <2> QED BY <2>2, <2>3
<1>3. Ran \in Seq(Command)
  BY <1>1, <1>2, ConcatProperties DEF Ran
<1>4. Line = Ran \o commands /\ Line \in Seq(Command)
  BY <1>1, <1>3, ConcatProperties DEF Line, Ran
<1>5. Places = (Ran \o commands) \o scheduled /\ Places \in Seq(Command)
  BY <1>1, <1>4, ConcatProperties DEF Places
<1>6. (Ran \o commands) \o scheduled = Ran \o (commands \o scheduled)
  BY <1>1, <1>3, Associative
<1> QED BY <1>3, <1>4, <1>5, <1>6

\* The queue after the transfer of the due commands.
LEMMA Transfer ==
  ASSUME TypeOK
  PROVE  /\ Due \in Seq(Command) /\ NotYetDue \in Seq(Command)
         /\ commands \o Due \in Seq(Command)
         /\ commands \o scheduled = (commands \o Due) \o NotYetDue
<1>1. now \in Nat /\ commands \in Seq(Command)
  BY Constants DEF TypeOK
<1>2. Due \in Seq(Command) /\ NotYetDue \in Seq(Command) /\ scheduled = Due \o NotYetDue
  BY <1>1, MapSplits DEF Due, NotYetDue
<1>3. commands \o Due \in Seq(Command)
  BY <1>1, <1>2, Concatenation, Zenon
<1>4. (commands \o Due) \o NotYetDue = commands \o (Due \o NotYetDue)
  BY <1>1, <1>2, Associative
<1> QED BY <1>2, <1>3, <1>4

\* An empty queue after the transfer: nothing was queued, and nothing is due.
LEMMA NothingDue ==
  ASSUME TypeOK, commands \o Due = <<>>
  PROVE  commands = <<>> /\ NotYetDue = scheduled
<1>1. /\ commands \in Seq(Command) /\ Due \in Seq(Command) /\ NotYetDue \in Seq(Command)
      /\ scheduled = Due \o NotYetDue
  <2>1. now \in Nat /\ commands \in Seq(Command)
    BY Constants DEF TypeOK
  <2> QED BY <2>1, MapSplits DEF Due, NotYetDue
<1>2. commands = <<>> /\ Due = <<>>
  BY <1>1, ConcatEqualIffEmpty
<1> QED BY <1>1, <1>2, ConcatEmptySeq

LEMMA HeadAndTail ==
  ASSUME NEW q \in Seq(Command), q # <<>>
  PROVE  /\ Head(q) \in Command /\ Tail(q) \in Seq(Command) /\ <<Head(q)>> \in Seq(Command)
         /\ <<Head(q)>> \o Tail(q) = q
<1>1. /\ Head(q) \in Command /\ Head(q) = q[1]
      /\ Tail(q) \in Seq(Command) /\ Len(Tail(q)) = Len(q) - 1
      /\ \A i \in 1 .. Len(Tail(q)) : Tail(q)[i] = q[i + 1]
      /\ Len(q) \in Nat \ {0}
  BY HeadTailProperties, EmptySeq
<1>2. /\ <<Head(q)>> \in Seq(Command) /\ Len(<<Head(q)>>) = 1 /\ <<Head(q)>>[1] = q[1]
  BY <1>1
<1>3. /\ <<Head(q)>> \o Tail(q) \in Seq(Command)
      /\ Len(<<Head(q)>> \o Tail(q)) = Len(q)
      /\ \A i \in 1 .. Len(q) :
           (<<Head(q)>> \o Tail(q))[i] = IF i =< 1 THEN <<Head(q)>>[i] ELSE Tail(q)[i - 1]
  BY <1>1, <1>2, ConcatProperties
<1>4. ASSUME NEW i \in 1 .. Len(q)
      PROVE  (<<Head(q)>> \o Tail(q))[i] = q[i]
  <2>1. CASE i = 1
    BY <1>2, <1>3, <2>1
  <2>2. CASE i > 1
    <3>1. i - 1 \in 1 .. Len(Tail(q)) /\ (i - 1) + 1 = i /\ ~ (i =< 1)
      BY <1>1, <2>2
    <3> QED BY <1>1, <1>3, <3>1
  <2> QED BY <1>1, <2>1, <2>2
<1>5. <<Head(q)>> \o Tail(q) = q
  BY <1>3, <1>4, SeqEqual
<1> QED BY <1>1, <1>2, <1>5

\* Whatever the turn does, the commands stay in one sequence: it only moves the
\* borders between what has run, runs, is queued and is scheduled.
LEMMA TurnKeepsPlaces ==
  ASSUME TypeOK, NEW told \in BOOLEAN, Iterate(told), finished' = Ran
  PROVE  /\ commands' \in Seq(Command) /\ scheduled' \in Seq(Command)
         /\ finished' \in Seq(Command) /\ running' \in 0 .. MaxCommands
         /\ scheduled' \in {scheduled, NotYetDue}
         /\ Places' = Places
<1> DEFINE queue == commands \o Due
<1>1. /\ commands \in Seq(Command) /\ scheduled \in Seq(Command) /\ Ran \in Seq(Command)
      /\ NotYetDue \in Seq(Command) /\ queue \in Seq(Command)
      /\ commands \o scheduled = queue \o NotYetDue
      /\ Places = Ran \o (commands \o scheduled)
  BY RanType, Transfer DEF TypeOK
<1>2. CASE running' = 0 /\ UNCHANGED <<commands, scheduled>>
  <2>1. Places' = Ran \o <<>> \o commands \o scheduled
    BY <1>2 DEF Places, Line
  <2>2. Ran \o <<>> = Ran
    BY <1>1, ConcatEmptySeq
  <2>3. Places' = Ran \o (commands \o scheduled)
    <3>1. Places' = (Ran \o commands) \o scheduled
      BY <2>1, <2>2, Zenon
    <3>2. (Ran \o commands) \o scheduled = Ran \o (commands \o scheduled)
      BY <1>1, Associative
    <3> QED BY <3>1, <3>2
  <2> QED BY <1>1, <1>2, <2>3, Constants
<1>3. CASE /\ ~ quit /\ queue # <<>>
           /\ running' = Head(queue) /\ commands' = Tail(queue) /\ scheduled' = NotYetDue
  <2> HIDE DEF queue
  <2>1. /\ Head(queue) \in Command /\ Tail(queue) \in Seq(Command)
        /\ <<Head(queue)>> \in Seq(Command) /\ <<Head(queue)>> \o Tail(queue) = queue
    BY <1>1, <1>3, HeadAndTail
  <2>2. running' \in 1 .. MaxCommands /\ running' # 0
    BY <1>3, <2>1 DEF Command
  <2>3. Places' = ((Ran \o <<Head(queue)>>) \o Tail(queue)) \o NotYetDue
    <3>1. Line' = (finished' \o <<running'>>) \o commands'
      BY <2>2, Zenon DEF Line
    <3> QED BY <1>3, <3>1, Zenon DEF Places
  <2>4. (Ran \o <<Head(queue)>>) \o Tail(queue) = Ran \o queue
    <3> DEFINE h == <<Head(queue)>>
               t == Tail(queue)
    <3>1. /\ h \in Seq(Command) /\ t \in Seq(Command) /\ Ran \in Seq(Command)
          /\ h \o t = queue
      BY <1>1, <2>1
    <3> HIDE DEF h, t
    <3>2. (Ran \o h) \o t = Ran \o (h \o t)
      BY <3>1, Associative
    <3>3. (Ran \o h) \o t = Ran \o queue
      BY <3>1, <3>2, Zenon
    <3> QED BY <3>3 DEF h, t
  <2>5. Places' = Places
    <3>1. Places' = (Ran \o queue) \o NotYetDue
      BY <2>3, <2>4, Zenon
    <3>2. (Ran \o queue) \o NotYetDue = Ran \o (queue \o NotYetDue)
      BY <1>1, Associative
    <3> QED BY <1>1, <3>1, <3>2, Zenon
  <2>6. running' \in 0 .. MaxCommands
    BY <2>2
  <2> QED BY <1>1, <1>3, <2>1, <2>5, <2>6
<1> QED BY <1>2, <1>3 DEF Iterate

\* Where the turn leaves the worker.
LEMMA TurnMovesWorker ==
  ASSUME TypeOK, NEW told \in BOOLEAN, Iterate(told)
  PROVE  /\ worker' \in {"task", "waiting", "done"} /\ (worker' = "task" <=> running' # 0)
         /\ wakeAt' \in 0 .. Never
         /\ waiter' \in [Waiters -> {"idle", "waiting", "woken", "returned"}]
         /\ worker' = "waiting" =>
              /\ ~ quit /\ commands' = <<>> /\ scheduled' = scheduled
              /\ scheduled # <<>> => wakeAt' = due[Head(scheduled)]
<1> DEFINE queue == commands \o Due
<1>1. queue \in Seq(Command) /\ NotYetDue \in Seq(Command)
  BY Transfer
<1>2. /\ due \in [Command -> 0 .. MaxTime] /\ wakeAt \in 0 .. Never
      /\ waiter \in [Waiters -> {"idle", "waiting", "woken", "returned"}]
      /\ Never \in 0 .. Never /\ 0 .. MaxTime \subseteq 0 .. Never
  BY Constants DEF TypeOK, Never
<1>3. waiter' \in [Waiters -> {"idle", "waiting", "woken", "returned"}]
  BY <1>2 DEF Iterate, NotifyWaiters
<1>4. CASE quit /\ worker' = "done" /\ running' = 0 /\ UNCHANGED wakeAt
  BY <1>2, <1>3, <1>4
<1>5. CASE /\ ~ quit /\ queue # <<>> /\ worker' = "task" /\ running' = Head(queue)
           /\ UNCHANGED wakeAt
  <2> HIDE DEF queue
  <2>1. Head(queue) \in Command
    BY <1>1, <1>5, HeadAndTail
  <2>2. running' # 0
    BY <1>5, <2>1, Constants DEF Command
  <2> QED BY <1>2, <1>3, <1>5, <2>2
<1>6. CASE /\ ~ quit /\ queue = <<>> /\ NotYetDue # <<>>
           /\ worker' = "waiting" /\ running' = 0 /\ wakeAt' = due[Head(NotYetDue)]
           /\ UNCHANGED <<commands, scheduled>>
  <2>1. commands = <<>> /\ NotYetDue = scheduled
    BY <1>6, NothingDue
  <2>2. Head(NotYetDue) \in Command
    BY <1>1, <1>6, HeadAndTail
  <2>3. wakeAt' \in 0 .. Never
    BY <1>2, <1>6, <2>2
  <2> QED BY <1>3, <1>6, <2>1, <2>3
<1>7. CASE /\ ~ quit /\ queue = <<>> /\ NotYetDue = <<>>
           /\ worker' = "waiting" /\ running' = 0 /\ wakeAt' = Never
           /\ UNCHANGED <<commands, scheduled>>
  <2>1. commands = <<>> /\ NotYetDue = scheduled
    BY <1>7, NothingDue
  <2> QED BY <1>2, <1>3, <1>7, <2>1
<1> QED BY <1>4, <1>5, <1>6, <1>7 DEF Iterate

-----------------------------------------------------------------------------
(* Type correctness *)

\* The command that add() accepts, and the time of one with a delay.
LEMMA NewCommand ==
  ASSUME TypeOK, added < MaxCommands
  PROVE  /\ added + 1 \in Command /\ added + 1 \in 0 .. MaxCommands
         /\ 1 .. added \subseteq 1 .. added + 1
BY Constants DEF TypeOK, Command

\* The two actions that end in a turn.
LEMMA WorkerTurns ==
  ASSUME TypeOK, WorkerRuns \/ TaskReturns
  PROVE  \E told \in BOOLEAN :
           /\ Iterate(told) /\ finished' = Ran /\ worker \in {"ready", "task"}
           /\ UNCHANGED <<now, added, delayed, due, quit, upTo>>
<1>1. CASE WorkerRuns
  <2>1. running = 0 /\ finished' = finished /\ finished \in Seq(Command)
    BY <1>1 DEF WorkerRuns, TypeOK
  <2>2. finished' = Ran
    BY <2>1, ConcatEmptySeq DEF Ran
  <2> QED BY <1>1, <2>2 DEF WorkerRuns
<1>2. CASE TaskReturns
  <2>1. running \in Command /\ running # 0 /\ finished \in Seq(Command)
    BY <1>2, Constants DEF TaskReturns, TypeOK, Command
  <2>2. finished' = Ran
    BY <1>2, <2>1, AppendIsConcat DEF TaskReturns, Ran
  <2> QED BY <1>2, <2>2 DEF TaskReturns
<1> QED BY <1>1, <1>2

LEMMA TypeStep ==
  ASSUME TypeOK, [Next]_vars
  PROVE  TypeOK'
<1> USE DEF TypeOK
<1>1. CASE Tick
  BY <1>1, Constants DEF Tick
<1>2. CASE AddNow
  <2>1. added' = added + 1 /\ added + 1 \in Command /\ added' \in 0 .. MaxCommands
        /\ delayed' \subseteq 1 .. added'
    BY <1>2, NewCommand DEF AddNow
  <2>2. commands' \in Seq(Command)
    BY <1>2, <2>1 DEF AddNow
  <2> QED BY <1>2, <2>1, <2>2 DEF AddNow, NotifyWorker
<1>3. CASE AddLater
  <2>1. PICK delay \in Delays \ {0} :
          /\ now + delay =< MaxTime
          /\ due' = [due EXCEPT ![added + 1] = now + delay]
          /\ scheduled' = Emplace(added + 1, now + delay)
          /\ worker' \in {worker, "ready"} /\ (worker' # worker => worker = "waiting")
    BY <1>3 DEF AddLater, NotifyWorker
  <2>2. now + delay \in 0 .. MaxTime /\ now + delay \in Nat
    BY <2>1, Constants
  <2>3. added' = added + 1 /\ added + 1 \in Command /\ added' \in 0 .. MaxCommands
        /\ delayed' \subseteq 1 .. added'
    <3>1. added' = added + 1 /\ delayed' = delayed \cup {added + 1} /\ added < MaxCommands
      BY <1>3 DEF AddLater
    <3> QED BY <3>1, NewCommand
  <2>4. due' \in [Command -> 0 .. MaxTime]
    BY <2>1, <2>2
  <2>5. scheduled' \in Seq(Command)
    BY <2>1, <2>2, <2>3, EmplaceInserts
  <2> QED BY <1>3, <2>1, <2>3, <2>4, <2>5 DEF AddLater
<1>4. CASE Quit
  <2>1. <<>> \in Seq(Command)
    BY EmptySeq
  <2> QED BY <1>4, <2>1 DEF Quit, NotifyWorker, NotifyWaiters
<1>5. CASE WorkerRuns \/ TaskReturns
  <2>1. PICK told \in BOOLEAN :
          /\ Iterate(told) /\ finished' = Ran /\ worker \in {"ready", "task"}
          /\ UNCHANGED <<now, added, delayed, due, quit, upTo>>
    BY <1>5, WorkerTurns
  <2>2. /\ commands' \in Seq(Command) /\ scheduled' \in Seq(Command)
        /\ finished' \in Seq(Command) /\ running' \in 0 .. MaxCommands
    BY <2>1, TurnKeepsPlaces
  <2>3. /\ worker' \in {"task", "waiting", "done"} /\ (worker' = "task" <=> running' # 0)
        /\ wakeAt' \in 0 .. Never
        /\ waiter' \in [Waiters -> {"idle", "waiting", "woken", "returned"}]
    BY <2>1, TurnMovesWorker
  <2> QED BY <2>1, <2>2, <2>3 DEF Never, Command
<1>6. CASE WorkerTimesOut \/ WorkerWakesSpuriously
  BY <1>6 DEF WorkerTimesOut, WorkerWakesSpuriously, queues
<1>7. ASSUME NEW w \in Waiters, WaiterNext(w)
      PROVE  TypeOK'
  BY <1>7, Constants DEF WaiterNext, WaitForAllTasks, WaiterWakes, WaiterWakesSpuriously, TestOrWait, queues
<1>8. CASE UNCHANGED vars
  BY <1>8 DEF vars
<1> QED BY <1>1, <1>2, <1>3, <1>4, <1>5, <1>6, <1>7, <1>8 DEF Next

LEMMA InitType ==
  ASSUME Init
  PROVE  TypeOK
<1>1. <<>> \in Seq(Command)
  BY EmptySeq
<1>2. 0 \in 0 .. MaxTime /\ 0 \in 0 .. MaxCommands /\ MaxTime + 1 \in 0 .. Never
  BY Constants DEF Never
<1> QED BY <1>1, <1>2 DEF Init, TypeOK, Never

\* Every variable keeps its type, and the worker is in a task exactly while one
\* is noted as running (CommandThread.h:217-226, 244-249).
THEOREM TypeCorrect == Spec => []TypeOK
<1>1. Init => TypeOK
  BY InitType
<1>2. TypeOK /\ [Next]_vars => TypeOK'
  BY TypeStep
<1> QED BY <1>1, <1>2, PTL DEF Spec

-----------------------------------------------------------------------------
(* A new command in the sequence *)

LEMMA InsertYoungest ==
  ASSUME NEW n \in Nat, NEW s \in Seq(Command), NEW t \in Seq(Command),
         NEW p \in 0 .. Len(s), Inserts(s, t, p, n + 1),
         Injective(s), \A i \in 1 .. Len(s) : s[i] \in 1 .. n
  PROVE  /\ Injective(t) /\ \A i \in 1 .. Len(t) : t[i] \in 1 .. n + 1
         /\ (\A c \in 1 .. n : \E i \in 1 .. Len(s) : s[i] = c)
              => \A c \in 1 .. n + 1 : \E i \in 1 .. Len(t) : t[i] = c
<1>1. /\ Len(s) \in Nat /\ Len(t) = Len(s) + 1
      /\ \A i \in 1 .. Len(t) :
           t[i] = IF i =< p THEN s[i] ELSE IF i = p + 1 THEN n + 1 ELSE s[i - 1]
  BY DEF Inserts
<1>2. ASSUME NEW i \in 1 .. Len(t)
      PROVE  \/ i =< p /\ i \in 1 .. Len(s) /\ t[i] = s[i]
             \/ i = p + 1 /\ t[i] = n + 1
             \/ i > p + 1 /\ i - 1 \in 1 .. Len(s) /\ t[i] = s[i - 1]
  BY <1>1
<1>3. ASSUME NEW i \in 1 .. Len(t)
      PROVE  t[i] \in 1 .. n + 1 /\ (t[i] = n + 1 <=> i = p + 1)
  <2>1. \A k \in 1 .. Len(s) : s[k] \in 1 .. n + 1 /\ s[k] # n + 1
    OBVIOUS
  <2>2. CASE i = p + 1
    BY <1>1, <2>2
  <2>3. CASE i # p + 1
    <3>1. PICK k \in 1 .. Len(s) : t[i] = s[k]
      BY <1>1, <1>2, <2>3
    <3> QED BY <2>1, <2>3, <3>1
  <2> QED BY <2>2, <2>3
<1>4. ASSUME NEW i \in 1 .. Len(t), NEW j \in 1 .. Len(t), t[i] = t[j]
      PROVE  i = j
  <2>1. CASE i = p + 1 \/ j = p + 1
    BY <1>3, <1>4, <2>1
  <2>2. CASE i # p + 1 /\ j # p + 1
    <3>1. PICK k \in 1 .. Len(s) : t[i] = s[k] /\ k = (IF i =< p THEN i ELSE i - 1)
      BY <1>1, <1>2, <2>2
    <3>2. PICK l \in 1 .. Len(s) : t[j] = s[l] /\ l = (IF j =< p THEN j ELSE j - 1)
      BY <1>1, <1>2, <2>2
    <3>3. k = l
      BY <1>4, <3>1, <3>2 DEF Injective
    <3> QED BY <1>1, <2>2, <3>1, <3>2, <3>3
  <2> QED BY <2>1, <2>2
<1>5. ASSUME \A c \in 1 .. n : \E i \in 1 .. Len(s) : s[i] = c,
             NEW c \in 1 .. n + 1
      PROVE  \E i \in 1 .. Len(t) : t[i] = c
  <2>1. CASE c = n + 1
    <3>1. p + 1 \in 1 .. Len(t)
      BY <1>1
    <3> QED BY <1>3, <2>1, <3>1
  <2>2. CASE c \in 1 .. n
    <3>1. PICK i \in 1 .. Len(s) : s[i] = c
      BY <1>5, <2>2
    <3>2. CASE i =< p
      <4>1. i \in 1 .. Len(t)
        BY <1>1
      <4> QED BY <1>1, <3>1, <3>2, <4>1
    <3>3. CASE i > p
      <4>1. i + 1 \in 1 .. Len(t) /\ ~ (i + 1 =< p) /\ i + 1 # p + 1 /\ (i + 1) - 1 = i
        BY <1>1, <3>3
      <4> QED BY <1>1, <3>1, <4>1
    <3> QED BY <1>1, <3>2, <3>3
  <2> QED BY <2>1, <2>2
<1> QED BY <1>3, <1>4, <1>5 DEF Injective

\* Of the commands s, none but the first n; and of those behind place p, where
\* n + 1 goes, all are delayed and due after n + 1 if that is delayed too.
Older(n, s) == \A i \in 1 .. Len(s) : s[i] \in 1 .. n
DueAfter(n, s, p, late, late2, time, time2) ==
  /\ late2 \in {late, late \cup {n + 1}} /\ \A c \in 1 .. n : time2[c] = time[c]
  /\ \A k \in p + 1 .. Len(s) :
       s[k] \in late /\ (n + 1 \in late2 => time2[n + 1] < time2[s[k]])

\* A command that is inserted before delayed ones that are due after it only.
LEMMA InsertInOrder ==
  ASSUME NEW n \in Nat, NEW s \in Seq(Command), NEW t \in Seq(Command),
         NEW p \in 0 .. Len(s), Inserts(s, t, p, n + 1),
         Older(n, s), NEW late, NEW late2, NEW time, NEW time2,
         InOrder(s, late, time), DueAfter(n, s, p, late, late2, time, time2)
  PROVE  InOrder(t, late2, time2)
<1>1. /\ Len(s) \in Nat /\ Len(t) = Len(s) + 1
      /\ \A i \in 1 .. Len(t) :
           t[i] = IF i =< p THEN s[i] ELSE IF i = p + 1 THEN n + 1 ELSE s[i - 1]
  BY DEF Inserts
<1>2. SUFFICES ASSUME NEW i \in 1 .. Len(t), NEW j \in 1 .. Len(t), i < j, t[j] < t[i]
               PROVE  t[j] \in late2 /\ (t[i] \in late2 => time2[t[i]] < time2[t[j]])
  BY DEF InOrder
<1>3. CASE i = p + 1
  <2>1. t[i] = n + 1 /\ j - 1 \in p + 1 .. Len(s) /\ t[j] = s[j - 1]
    BY <1>1, <1>2, <1>3
  <2>2. /\ s[j - 1] \in late /\ (n + 1 \in late2 => time2[n + 1] < time2[s[j - 1]])
        /\ late2 \in {late, late \cup {n + 1}}
    BY <2>1 DEF DueAfter
  <2> QED BY <2>1, <2>2
<1>4. CASE j = p + 1
  <2>1. t[j] = n + 1 /\ i \in 1 .. Len(s) /\ t[i] = s[i]
    BY <1>1, <1>2, <1>4
  <2>2. s[i] \in 1 .. n
    BY <2>1 DEF Older
  <2> QED BY <1>2, <2>1, <2>2
<1>5. CASE i # p + 1 /\ j # p + 1
  <2>1. PICK k \in 1 .. Len(s) : t[i] = s[k] /\ k = (IF i =< p THEN i ELSE i - 1)
    BY <1>1, <1>5
  <2>2. PICK l \in 1 .. Len(s) : t[j] = s[l] /\ l = (IF j =< p THEN j ELSE j - 1)
    BY <1>1, <1>5
  <2>3. k < l /\ s[l] < s[k]
    BY <1>1, <1>2, <1>5, <2>1, <2>2
  <2>4. s[l] \in late /\ (s[k] \in late => time[s[k]] < time[s[l]])
    BY <2>3 DEF InOrder
  <2>5. s[k] \in 1 .. n /\ s[l] \in 1 .. n /\ time2[s[k]] = time[s[k]] /\ time2[s[l]] = time[s[l]]
    BY DEF Older, DueAfter
  <2>6. s[l] \in late2 /\ (s[k] \in late2 => s[k] \in late)
    <3>1. late2 \in {late, late \cup {n + 1}}
      BY DEF DueAfter
    <3> QED BY <2>4, <2>5, <3>1
  <2> QED BY <2>1, <2>2, <2>4, <2>5, <2>6
<1> QED BY <1>3, <1>4, <1>5

-----------------------------------------------------------------------------
(* The invariant *)

PlacesInv == Accepted /\ MapSorted /\ InOrder(Places, delayed, due)

\* A waiter counts only the commands accepted when it called.
UpToAccepted == \A w \in Waiters : upTo[w] \in 0 .. added

CommandInv == TypeOK /\ PlacesInv /\ WorkerSleepsOnlyWithoutWork /\ UpToAccepted

\* Of Places, its elements lie in Line and then in the map.
LEMMA PlacesParts ==
  ASSUME TypeOK
  PROVE  /\ Len(Line) \in Nat /\ Len(scheduled) \in Nat
         /\ Len(Places) = Len(Line) + Len(scheduled)
         /\ \A i \in 1 .. Len(Line) : Places[i] = Line[i]
         /\ \A i \in 1 .. Len(scheduled) : Places[Len(Line) + i] = scheduled[i]
<1>1. Line \in Seq(Command) /\ scheduled \in Seq(Command) /\ Len(Line) \in Nat /\ Len(scheduled) \in Nat
  <2>1. Line \in Seq(Command)
    BY RanType
  <2>2. scheduled \in Seq(Command)
    BY DEF TypeOK
  <2> QED BY <2>1, <2>2, LenProperties
<1>2. /\ Len(Places) = Len(Line) + Len(scheduled)
      /\ \A i \in 1 .. Len(Line) + Len(scheduled) :
           Places[i] = IF i =< Len(Line) THEN Line[i] ELSE scheduled[i - Len(Line)]
  BY <1>1, ConcatProperties DEF Places
<1>3. ASSUME NEW i \in 1 .. Len(scheduled)
      PROVE  Places[Len(Line) + i] = scheduled[i]
  <2>1. /\ Len(Line) + i \in 1 .. Len(Line) + Len(scheduled) /\ ~ (Len(Line) + i =< Len(Line))
        /\ (Len(Line) + i) - Len(Line) = i
    BY <1>1
  <2> QED BY <1>2, <2>1
<1>4. ASSUME NEW i \in 1 .. Len(Line)
      PROVE  Places[i] = Line[i]
  BY <1>1, <1>2
<1> QED BY <1>1, <1>2, <1>3, <1>4

\* The part of the step that does not depend on where the command goes.
LEMMA InsertStep ==
  ASSUME TypeOK, Places' \in Seq(Command), Accepted, InOrder(Places, delayed, due),
         ~ quit, ~ quit',
         added' = added + 1, NEW p \in 0 .. Len(Places),
         Inserts(Places, Places', p, added + 1),
         delayed' \in {delayed, delayed \cup {added + 1}},
         \A c \in 1 .. added : due'[c] = due[c],
         \A k \in p + 1 .. Len(Places) :
           Places[k] \in delayed /\ (added + 1 \in delayed' => due'[added + 1] < due'[Places[k]])
  PROVE  Accepted' /\ InOrder(Places, delayed, due)'
<1>1. /\ added \in Nat /\ Places \in Seq(Command) /\ Places' \in Seq(Command)
      /\ Injective(Places) /\ \A i \in 1 .. Len(Places) : Places[i] \in 1 .. added
      /\ \A c \in 1 .. added : \E i \in 1 .. Len(Places) : Places[i] = c
  <2>1. added \in Nat
    BY Constants DEF TypeOK
  <2>2. Places \in Seq(Command) /\ Places' \in Seq(Command)
    BY RanType
  <2> QED BY <2>1, <2>2 DEF Accepted
<1> DEFINE t == Places'
<1>2. /\ Injective(t) /\ \A i \in 1 .. Len(t) : t[i] \in 1 .. added + 1
      /\ \A c \in 1 .. added + 1 : \E i \in 1 .. Len(t) : t[i] = c
  <2>1. t \in Seq(Command) /\ Inserts(Places, t, p, added + 1)
    BY <1>1
  <2> HIDE DEF t
  <2> QED BY <1>1, <2>1, InsertYoungest
<1>3. Accepted'
  <2>1. Injective(Places') <=> Injective(Places)'
    BY DEF Injective
  <2> QED BY <1>2, <2>1 DEF Accepted
<1>4. InOrder(t, delayed', due')
  <2> DEFINE late == delayed'
             time == due'
  <2>1. /\ t \in Seq(Command) /\ Inserts(Places, t, p, added + 1)
        /\ late \in {delayed, delayed \cup {added + 1}}
        /\ \A c \in 1 .. added : time[c] = due[c]
        /\ \A k \in p + 1 .. Len(Places) :
             Places[k] \in delayed /\ (added + 1 \in late => time[added + 1] < time[Places[k]])
    BY <1>1
  <2> HIDE DEF t, late, time
  <2>2. InOrder(Places, delayed, due) /\ p \in 0 .. Len(Places)
    OBVIOUS
  <2>3. PICK s, old, when : s = Places /\ old = delayed /\ when = due
    OBVIOUS
  <2>4. /\ added \in Nat /\ s \in Seq(Command) /\ t \in Seq(Command) /\ p \in 0 .. Len(s)
        /\ Inserts(s, t, p, added + 1) /\ Older(added, s) /\ InOrder(s, old, when)
    BY <1>1, <2>1, <2>2, <2>3 DEF Older
  <2>5. DueAfter(added, s, p, old, late, when, time)
    BY <2>1, <2>3 DEF DueAfter
  <2>6. InOrder(t, late, time)
    BY <2>4, <2>5, InsertInOrder
  <2> QED BY <2>6 DEF late, time
<1> QED BY <1>3, <1>4 DEF InOrder

LEMMA AddNowStep ==
  ASSUME TypeOK, TypeOK', PlacesInv, AddNow
  PROVE  PlacesInv'
<1> DEFINE c == added + 1
<1>1. /\ ~ quit /\ ~ quit' /\ added < MaxCommands /\ added' = c /\ added \in Nat
      /\ commands' = Append(commands, c)
      /\ UNCHANGED <<delayed, due, scheduled, running, finished>>
      /\ c \in Command /\ delayed \subseteq 1 .. added
  BY NewCommand, Constants DEF AddNow, TypeOK
<1>2. /\ Line = Ran \o commands /\ Ran \in Seq(Command) /\ commands \in Seq(Command)
      /\ Line \in Seq(Command) /\ scheduled \in Seq(Command) /\ <<c>> \in Seq(Command)
  <2>1. /\ Line = Ran \o commands /\ Ran \in Seq(Command) /\ Line \in Seq(Command)
        /\ commands \in Seq(Command) /\ scheduled \in Seq(Command)
    BY RanType, Zenon DEF TypeOK
  <2>2. <<c>> \in Seq(Command)
    BY <1>1
  <2> QED BY <2>1, <2>2, Zenon
<1> HIDE DEF c
<1>3. Places' = Line \o <<c>> \o scheduled
  <2>1. Line' = Ran \o commands'
    BY <1>1, Zenon DEF Line, Ran
  <2>2. Ran \o commands' = Line \o <<c>>
    <3>1. commands' = commands \o <<c>>
      BY <1>1, <1>2, AppendIsConcat
    <3>2. (Ran \o commands) \o <<c>> = Ran \o (commands \o <<c>>)
      <4>1. Ran \in Seq(Command) /\ commands \in Seq(Command) /\ <<c>> \in Seq(Command)
        BY <1>2
      <4> QED BY <4>1, Associative
    <3> QED BY <1>2, <3>1, <3>2
  <2> QED BY <1>1, <2>1, <2>2, Zenon DEF Places
<1>4. Places' \in Seq(Command) /\ Inserts(Places, Places', Len(Line), c)
  <2>1. /\ Line \o <<c>> \o scheduled \in Seq(Command)
        /\ Inserts(Line \o scheduled, Line \o <<c>> \o scheduled, Len(Line), c)
    BY <1>1, <1>2, InsertBetween
  <2> QED BY <1>3, <2>1, Zenon DEF Places
<1>5. ASSUME NEW k \in Len(Line) + 1 .. Len(Places)
      PROVE  Places[k] \in delayed
  <2>1. PICK i \in 1 .. Len(scheduled) : k = Len(Line) + i
    <3>1. k - Len(Line) \in 1 .. Len(scheduled) /\ k = Len(Line) + (k - Len(Line))
      BY PlacesParts
    <3> QED BY <3>1
  <2> QED BY <2>1, PlacesParts DEF PlacesInv, MapSorted
<1>6. c \notin delayed'
  BY <1>1 DEF c
<1>7. Accepted' /\ InOrder(Places, delayed, due)'
  <2>1. Len(Line) \in 0 .. Len(Places)
    BY PlacesParts
  <2> QED BY <1>1, <1>4, <1>5, <1>6, <2>1, InsertStep DEF PlacesInv, c
<1>8. MapSorted'
  BY <1>1 DEF PlacesInv, MapSorted
<1> QED BY <1>7, <1>8 DEF PlacesInv

LEMMA AddLaterStep ==
  ASSUME TypeOK, TypeOK', PlacesInv, AddLater
  PROVE  PlacesInv'
<1> DEFINE c == added + 1
<1>1. /\ ~ quit /\ ~ quit' /\ added < MaxCommands /\ added' = c /\ added \in Nat
      /\ delayed' = delayed \cup {c} /\ UNCHANGED <<commands, running, finished>>
      /\ c \in Command /\ delayed \subseteq 1 .. added /\ due \in [Command -> 0 .. MaxTime]
  BY NewCommand, Constants DEF AddLater, TypeOK
<1>2. PICK time \in Nat : /\ due' = [due EXCEPT ![c] = time]
                          /\ scheduled' = Emplace(c, time)
  <2>1. PICK delay \in Delays \ {0} : /\ due' = [due EXCEPT ![added + 1] = now + delay]
                                      /\ scheduled' = Emplace(added + 1, now + delay)
    BY DEF AddLater
  <2>2. now + delay \in Nat
    BY <2>1, Constants DEF TypeOK
  <2> QED BY <2>1, <2>2
<1>3. due'[c] = time /\ \A d \in 1 .. added : due'[d] = due[d]
  <2>1. \A d \in 1 .. added : d \in Command /\ d # c
    BY <1>1, Constants DEF Command
  <2> QED BY <1>1, <1>2, <2>1
<1> DEFINE u == UpperBound(time)
           before == NotAfter(time)
           after == After(time)
<1>4. /\ Line \in Seq(Command) /\ before \in Seq(Command) /\ after \in Seq(Command)
      /\ before \o after = scheduled /\ <<c>> \in Seq(Command) /\ Len(before) = u
  <2>1. /\ before \in Seq(Command) /\ after \in Seq(Command)
        /\ before \o after = scheduled /\ Len(before) = u
    BY MapSplits, Zenon
  <2>2. Line \in Seq(Command) /\ <<c>> \in Seq(Command)
    BY <1>1, RanType
  <2> QED BY <2>1, <2>2, Zenon
<1>5. /\ u \in 0 .. Len(scheduled) /\ Len(scheduled) \in Nat
      /\ \A i \in 1 .. u : due[scheduled[i]] =< time
      /\ u < Len(scheduled) => due[scheduled[u + 1]] > time
  BY UpperBoundIs, PlacesParts
<1>6. /\ \A i \in 1 .. Len(scheduled) : scheduled[i] \in delayed /\ scheduled[i] \in 1 .. added
      /\ \A i \in 1 .. Len(scheduled) : scheduled[i] \in 1 .. added
                                        /\ due[scheduled[i]] \in Nat
                                        /\ due'[scheduled[i]] = due[scheduled[i]]
      /\ \A i, j \in 1 .. Len(scheduled) : i < j => due[scheduled[i]] =< due[scheduled[j]]
  <2>1. \A d \in 1 .. added : due[d] \in Nat
    BY <1>1, Constants DEF Command
  <2> QED BY <1>1, <1>3, <2>1 DEF PlacesInv, MapSorted
<1>7. \A i \in u + 1 .. Len(scheduled) : due[scheduled[i]] > time
  <2> HIDE DEF u
  <2>1. SUFFICES ASSUME NEW i \in u + 1 .. Len(scheduled)
                 PROVE  due[scheduled[i]] > time
    OBVIOUS
  <2>2. u + 1 \in 1 .. Len(scheduled) /\ i \in 1 .. Len(scheduled) /\ u < Len(scheduled)
    BY <1>5
  <2>3. i = u + 1 \/ u + 1 < i
    BY <1>5
  <2> QED BY <1>5, <1>6, <2>2, <2>3
<1> HIDE DEF c, u, before, after
<1>8. Places' = Line \o (before \o <<c>> \o after)
  <2>1. Line' = Line
    BY <1>1, Zenon DEF Line
  <2>2. scheduled' = before \o <<c>> \o after
    BY <1>2, Zenon DEF Emplace, before, after
  <2> QED BY <2>1, <2>2, Zenon DEF Places
<1>9. /\ Line \o before \in Seq(Command) /\ Len(Line \o before) = Len(Line) + u
      /\ (Line \o before) \o after = Places
      /\ (Line \o before) \o <<c>> \o after = Places'
  <2>1. Line \o before \in Seq(Command) /\ Len(Line \o before) = Len(Line) + u
    BY <1>4, ConcatProperties
  <2>2. (Line \o before) \o after = Line \o (before \o after)
    BY <1>4, Concatenation
  <2>3. (Line \o before) \o <<c>> = Line \o (before \o <<c>>) /\ before \o <<c>> \in Seq(Command)
    BY <1>4, Concatenation
  <2>4. (Line \o (before \o <<c>>)) \o after = Line \o ((before \o <<c>>) \o after)
    BY <1>4, <2>3, Concatenation
  <2> QED BY <1>4, <1>8, <2>1, <2>2, <2>3, <2>4, Zenon DEF Places
<1>10. Places' \in Seq(Command) /\ Inserts(Places, Places', Len(Line) + u, c)
  <2>1. /\ (Line \o before) \o <<c>> \o after \in Seq(Command)
        /\ Inserts((Line \o before) \o after, (Line \o before) \o <<c>> \o after,
                   Len(Line \o before), c)
    BY <1>1, <1>4, <1>9, InsertBetween
  <2> QED BY <1>9, <2>1, Zenon
<1>11. ASSUME NEW k \in Len(Line) + u + 1 .. Len(Places)
       PROVE  Places[k] \in delayed /\ due'[c] < due'[Places[k]]
  <2>1. PICK i \in u + 1 .. Len(scheduled) : k = Len(Line) + i
    <3>1. k - Len(Line) \in u + 1 .. Len(scheduled) /\ k = Len(Line) + (k - Len(Line))
      BY <1>5, PlacesParts
    <3> QED BY <3>1
  <2>2. i \in 1 .. Len(scheduled) /\ Places[k] = scheduled[i]
    BY <1>5, <2>1, PlacesParts
  <2> QED BY <1>3, <1>6, <1>7, <2>1, <2>2
<1>12. Accepted' /\ InOrder(Places, delayed, due)'
  <2>1. Len(Line) + u \in 0 .. Len(Places)
    BY <1>5, PlacesParts
  <2> QED BY <1>1, <1>3, <1>10, <1>11, <2>1, InsertStep DEF PlacesInv, c
<1>13. MapSorted'
  <2>1. Inserts(scheduled, scheduled', u, c)
    BY <1>1, <1>2, EmplaceInserts DEF u
  <2>2. ASSUME NEW i \in 1 .. Len(scheduled')
        PROVE  \/ i = u + 1 /\ scheduled'[i] = c
               \/ i # u + 1 /\ \E k \in 1 .. Len(scheduled) :
                    scheduled'[i] = scheduled[k] /\ k = (IF i =< u THEN i ELSE i - 1)
    <3>1. CASE i =< u
      BY <1>5, <2>1, <3>1 DEF Inserts
    <3>2. CASE i = u + 1
      BY <1>5, <2>1, <3>2 DEF Inserts
    <3>3. CASE i > u + 1
      <4>1. i - 1 \in 1 .. Len(scheduled) /\ scheduled'[i] = scheduled[i - 1]
        BY <1>5, <2>1, <3>3 DEF Inserts
      <4> QED BY <1>5, <3>3, <4>1
    <3> QED BY <1>5, <3>1, <3>2, <3>3
  <2>3. ASSUME NEW i \in 1 .. Len(scheduled')
        PROVE  scheduled'[i] \in delayed'
    BY <1>1, <1>6, <2>2
  <2>4. ASSUME NEW i \in 1 .. Len(scheduled'), NEW j \in 1 .. Len(scheduled'), i < j
        PROVE  due'[scheduled'[i]] =< due'[scheduled'[j]]
    <3>1. CASE i = u + 1
      <4>1. PICK l \in 1 .. Len(scheduled) : scheduled'[j] = scheduled[l] /\ l = j - 1
        BY <1>5, <2>2, <2>4, <3>1
      <4>2. l \in u + 1 .. Len(scheduled) /\ scheduled'[i] = c
        BY <1>5, <2>2, <2>4, <3>1, <4>1
      <4> QED BY <1>3, <1>6, <1>7, <4>1, <4>2
    <3>2. CASE j = u + 1
      <4>1. PICK k \in 1 .. Len(scheduled) : scheduled'[i] = scheduled[k] /\ k = i
        BY <1>5, <2>2, <2>4, <3>2
      <4>2. k \in 1 .. u /\ scheduled'[j] = c
        BY <1>5, <2>2, <2>4, <3>2, <4>1
      <4> QED BY <1>3, <1>5, <1>6, <4>1, <4>2
    <3>3. CASE i # u + 1 /\ j # u + 1
      <4>1. PICK k \in 1 .. Len(scheduled) :
              scheduled'[i] = scheduled[k] /\ k = (IF i =< u THEN i ELSE i - 1)
        BY <2>2, <3>3
      <4>2. PICK l \in 1 .. Len(scheduled) :
              scheduled'[j] = scheduled[l] /\ l = (IF j =< u THEN j ELSE j - 1)
        BY <2>2, <3>3
      <4>3. k < l
        BY <1>5, <2>4, <3>3, <4>1, <4>2
      <4> QED BY <1>6, <4>1, <4>2, <4>3
    <3> QED BY <3>1, <3>2, <3>3
  <2> QED BY <2>3, <2>4 DEF MapSorted
<1> QED BY <1>12, <1>13 DEF PlacesInv

\* quit() leaves what has run or runs.
LEMMA QuitStep ==
  ASSUME TypeOK, PlacesInv, Quit
  PROVE  PlacesInv'
<1>1. /\ quit' /\ commands' = <<>> /\ scheduled' = <<>>
      /\ UNCHANGED <<added, delayed, due, running, finished>>
  BY DEF Quit
<1>2. /\ Ran \in Seq(Command) /\ commands \o scheduled \in Seq(Command)
      /\ Places = Ran \o (commands \o scheduled)
  BY RanType, Concatenation DEF TypeOK
<1>3. Places' = Ran
  <2>1. Places' = (Ran \o <<>>) \o <<>>
    BY <1>1, Zenon DEF Places, Line, Ran
  <2>2. Ran \o <<>> = Ran
    BY <1>2, ConcatEmptySeq
  <2> QED BY <2>1, <2>2, Zenon
<1>4. /\ Len(Places') \in Nat /\ Len(Places) \in Nat /\ Len(Places') =< Len(Places)
      /\ \A i \in 1 .. Len(Places') : i \in 1 .. Len(Places) /\ Places'[i] = Places[i]
  <2> DEFINE rest == commands \o scheduled
  <2>1. /\ Len(Ran) \in Nat /\ Len(rest) \in Nat /\ Len(Ran \o rest) = Len(Ran) + Len(rest)
        /\ \A i \in 1 .. Len(Ran) + Len(rest) :
             (Ran \o rest)[i] = IF i =< Len(Ran) THEN Ran[i] ELSE rest[i - Len(Ran)]
    BY <1>2, ConcatProperties
  <2> HIDE DEF rest
  <2>2. Places = Ran \o rest
    BY <1>2 DEF rest
  <2> QED BY <1>3, <2>1, <2>2
<1>5. Accepted'
  <2>1. \A i, j \in 1 .. Len(Places') : Places'[i] = Places'[j] => i = j
    BY <1>4 DEF PlacesInv, Accepted, Injective
  <2>2. \A i \in 1 .. Len(Places') : Places'[i] \in 1 .. added'
    BY <1>1, <1>4 DEF PlacesInv, Accepted
  <2> QED BY <1>1, <2>1, <2>2 DEF Accepted, Injective
<1>6. InOrder(Places, delayed, due)'
  BY <1>1, <1>4 DEF PlacesInv, InOrder
<1>7. MapSorted'
  BY <1>1 DEF MapSorted
<1> QED BY <1>5, <1>6, <1>7 DEF PlacesInv

LEMMA TurnStep ==
  ASSUME TypeOK, PlacesInv, WorkerRuns \/ TaskReturns
  PROVE  PlacesInv'
<1>1. PICK told \in BOOLEAN :
        /\ Iterate(told) /\ finished' = Ran
        /\ UNCHANGED <<now, added, delayed, due, quit, upTo>>
  BY WorkerTurns
<1>2. Places' = Places /\ scheduled' \in {scheduled, NotYetDue}
  BY <1>1, TurnKeepsPlaces
<1>3. quit => UNCHANGED <<commands, scheduled>>
  BY <1>1 DEF Iterate
<1>4. Accepted'
  BY <1>1, <1>2, <1>3 DEF PlacesInv, Accepted, Injective
<1>5. InOrder(Places, delayed, due)'
  BY <1>1, <1>2 DEF PlacesInv, InOrder
<1>6. MapSorted'
  <2>1. CASE scheduled' = scheduled
    BY <1>1, <2>1 DEF PlacesInv, MapSorted
  <2>2. CASE scheduled' = NotYetDue
    <3> DEFINE u == UpperBound(now)
    <3>1. u \in 0 .. Len(scheduled) /\ Len(scheduled) \in Nat /\ now \in Nat
      <4>1. now \in Nat
        BY Constants DEF TypeOK
      <4> QED BY <4>1, UpperBoundIs, PlacesParts
    <3>2. /\ Len(NotYetDue) = Len(scheduled) - u
          /\ \A i \in 1 .. Len(scheduled) - u : NotYetDue[i] = scheduled[u + i]
      BY <3>1, MapSplits, Zenon DEF NotYetDue
    <3> HIDE DEF u
    <3>3. ASSUME NEW i \in 1 .. Len(NotYetDue)
          PROVE  u + i \in 1 .. Len(scheduled) /\ NotYetDue[i] = scheduled[u + i]
      <4>1. i \in 1 .. Len(scheduled) - u
        BY <3>2, Zenon
      <4> QED BY <3>1, <3>2, <4>1
    <3>4. \A i \in 1 .. Len(scheduled') : scheduled'[i] \in delayed'
      BY <1>1, <2>2, <3>3 DEF PlacesInv, MapSorted
    <3>5. ASSUME NEW i \in 1 .. Len(NotYetDue), NEW j \in 1 .. Len(NotYetDue), i < j
          PROVE  due[NotYetDue[i]] =< due[NotYetDue[j]]
      <4>1. u + i < u + j
        BY <3>1, <3>2, <3>5
      <4> QED BY <3>3, <4>1 DEF PlacesInv, MapSorted
    <3> QED BY <1>1, <2>2, <3>4, <3>5 DEF MapSorted
  <2> QED BY <1>2, <2>1, <2>2
<1> QED BY <1>4, <1>5, <1>6 DEF PlacesInv

LEMMA PlacesStep ==
  ASSUME TypeOK, TypeOK', PlacesInv, [Next]_vars
  PROVE  PlacesInv'
<1>1. CASE AddNow
  BY <1>1, AddNowStep
<1>2. CASE AddLater
  BY <1>2, AddLaterStep
<1>3. CASE Quit
  BY <1>3, QuitStep
<1>4. CASE WorkerRuns \/ TaskReturns
  BY <1>4, TurnStep
<1>5. CASE UNCHANGED <<added, delayed, due, commands, scheduled, quit, running, finished>>
  <2>1. Places' = Places
    BY <1>5, Zenon DEF Places, Line
  <2>2. Accepted'
    BY <1>5, <2>1 DEF PlacesInv, Accepted, Injective
  <2>3. MapSorted'
    BY <1>5 DEF PlacesInv, MapSorted
  <2>4. InOrder(Places, delayed, due)'
    BY <1>5, <2>1 DEF PlacesInv, InOrder
  <2> QED BY <2>2, <2>3, <2>4 DEF PlacesInv
<1>6. CASE Tick \/ WorkerTimesOut \/ WorkerWakesSpuriously \/ UNCHANGED vars
  BY <1>5, <1>6 DEF Tick, WorkerTimesOut, WorkerWakesSpuriously, queues, vars
<1>7. ASSUME NEW w \in Waiters, WaiterNext(w)
      PROVE  PlacesInv'
  BY <1>5, <1>7 DEF WaiterNext, WaitForAllTasks, WaiterWakes, WaiterWakesSpuriously, TestOrWait, queues
<1> QED BY <1>1, <1>2, <1>3, <1>4, <1>6, <1>7 DEF Next

LEMMA SleepStep ==
  ASSUME TypeOK, PlacesInv, WorkerSleepsOnlyWithoutWork, [Next]_vars
  PROVE  WorkerSleepsOnlyWithoutWork'
<1> SUFFICES ASSUME worker' = "waiting"
             PROVE  /\ commands' = <<>> /\ ~ quit'
                    /\ scheduled' # <<>> => wakeAt' =< due'[Head(scheduled')]
  BY DEF WorkerSleepsOnlyWithoutWork
<1>1. CASE AddNow
  <2>1. worker = "waiting" => commands = <<>>
    BY DEF WorkerSleepsOnlyWithoutWork
  <2>2. commands = <<>> => Len(commands') = 1
    BY <1>1 DEF AddNow
  <2>3. worker' # "waiting"
    BY <1>1, <2>1, <2>2 DEF AddNow, NotifyWorker
  <2> QED BY <2>3
<1>2. CASE AddLater
  <2>1. PICK delay \in Delays \ {0} :
          /\ due' = [due EXCEPT ![added + 1] = now + delay]
          /\ scheduled' = Emplace(added + 1, now + delay)
          /\ NotifyWorker((scheduled = <<>> \/ now + delay < due[Head(scheduled)]) /\ commands = <<>>)
    BY <1>2 DEF AddLater
  <2> DEFINE time == now + delay
             u == UpperBound(time)
  <2>2. time \in Nat /\ added + 1 \in Command /\ added \in Nat
    BY <1>2, <2>1, NewCommand, Constants DEF AddLater, TypeOK
  <2>3. worker = "waiting" /\ commands = <<>> /\ ~ quit /\ scheduled # <<>>
        /\ wakeAt =< due[Head(scheduled)]
    BY <2>1 DEF NotifyWorker, WorkerSleepsOnlyWithoutWork
  <2>4. ~ (time < due[Head(scheduled)])
    BY <2>1, <2>3 DEF NotifyWorker
  <2>5. /\ Len(scheduled) \in Nat \ {0} /\ Head(scheduled) = scheduled[1]
        /\ scheduled[1] \in 1 .. added
    <3>1. scheduled \in Seq(Command) /\ delayed \subseteq 1 .. added
      BY DEF TypeOK
    <3>2. Len(scheduled) \in Nat \ {0} /\ Head(scheduled) = scheduled[1]
      BY <2>3, <3>1
    <3>3. 1 \in 1 .. Len(scheduled)
      BY <3>2
    <3>4. scheduled[1] \in delayed
      BY <3>3, Zenon DEF PlacesInv, MapSorted
    <3> QED BY <3>1, <3>2, <3>4
  <2>6. u \in 1 .. Len(scheduled)
    <3>1. /\ u \in 0 .. Len(scheduled)
          /\ u < Len(scheduled) => due[scheduled[u + 1]] > time
      BY <2>2, UpperBoundIs
    <3> HIDE DEF u
    <3>2. u # 0
      BY <2>4, <2>5, <3>1
    <3> QED BY <2>5, <3>1, <3>2
  <2>7. Head(scheduled') = Head(scheduled) /\ scheduled' # <<>>
    <3>1. /\ scheduled' \in Seq(Command)
          /\ Inserts(scheduled, scheduled', u, added + 1)
      BY <2>1, <2>2, EmplaceInserts
    <3> HIDE DEF u
    <3>2. Len(scheduled') = Len(scheduled) + 1 /\ scheduled'[1] = scheduled[1]
      BY <2>5, <2>6, <3>1 DEF Inserts
    <3> QED BY <2>5, <3>1, <3>2
  <2>8. due'[Head(scheduled)] = due[Head(scheduled)]
    <3>1. Head(scheduled) # added + 1 /\ Head(scheduled) \in Command
      <4>1. Head(scheduled) \in 1 .. added /\ added \in Nat /\ added + 1 \in 1 .. MaxCommands
            /\ MaxCommands \in Nat
        BY <2>2, <2>5, Constants DEF Command
      <4>2. PICK h : h = Head(scheduled)
        OBVIOUS
      <4> QED BY <4>1, <4>2 DEF Command
    <3> QED BY <2>1, <3>1 DEF TypeOK
  <2> QED BY <1>2, <2>3, <2>7, <2>8 DEF AddLater
<1>3. CASE Quit
  BY <1>3 DEF Quit, NotifyWorker
<1>4. CASE WorkerRuns \/ TaskReturns
  <2>1. PICK told \in BOOLEAN :
          Iterate(told) /\ UNCHANGED <<now, added, delayed, due, quit, upTo>>
    BY <1>4, WorkerTurns
  <2>2. /\ ~ quit /\ commands' = <<>> /\ scheduled' = scheduled
        /\ scheduled # <<>> => wakeAt' = due[Head(scheduled)]
    BY <2>1, TurnMovesWorker
  <2>3. scheduled # <<>> => due[Head(scheduled)] \in Nat
    <3>1. scheduled # <<>> => Head(scheduled) \in Command
      BY HeadAndTail DEF TypeOK
    <3> QED BY <3>1, Constants DEF TypeOK
  <2> QED BY <2>1, <2>2, <2>3
<1>5. CASE UNCHANGED <<due, commands, scheduled, quit, worker, wakeAt>>
  BY <1>5 DEF WorkerSleepsOnlyWithoutWork
<1>6. CASE Tick \/ UNCHANGED vars
  BY <1>5, <1>6 DEF Tick, vars
<1>7. CASE WorkerTimesOut \/ WorkerWakesSpuriously
  BY <1>7 DEF WorkerTimesOut, WorkerWakesSpuriously
<1>8. ASSUME NEW w \in Waiters, WaiterNext(w)
      PROVE  UNCHANGED <<due, commands, scheduled, quit, worker, wakeAt>>
  BY <1>8 DEF WaiterNext, WaitForAllTasks, WaiterWakes, WaiterWakesSpuriously, TestOrWait, queues
<1> QED BY <1>1, <1>2, <1>3, <1>4, <1>5, <1>6, <1>7, <1>8 DEF Next

LEMMA UpToStep ==
  ASSUME TypeOK, UpToAccepted, [Next]_vars
  PROVE  UpToAccepted'
<1>1. added \in Nat /\ upTo \in [Waiters -> 0 .. MaxCommands]
  BY Constants DEF TypeOK
<1>2. CASE (added' = added \/ added' = added + 1) /\ UNCHANGED upTo
  BY <1>1, <1>2 DEF UpToAccepted
<1>3. CASE AddNow \/ AddLater
  BY <1>2, <1>3 DEF AddNow, AddLater
<1>4. CASE Tick \/ Quit \/ UNCHANGED vars
  BY <1>2, <1>4 DEF Tick, Quit, vars
<1>5. CASE WorkerRuns \/ TaskReturns \/ WorkerTimesOut \/ WorkerWakesSpuriously
  BY <1>2, <1>5 DEF WorkerRuns, TaskReturns, WorkerTimesOut, WorkerWakesSpuriously, queues
<1>6. ASSUME NEW w \in Waiters, WaiterNext(w)
      PROVE  UpToAccepted'
  BY <1>1, <1>6 DEF UpToAccepted, WaiterNext, WaitForAllTasks, WaiterWakes, WaiterWakesSpuriously,
                    TestOrWait, queues
<1> QED BY <1>3, <1>4, <1>5, <1>6 DEF Next

LEMMA InvInit ==
  ASSUME Init
  PROVE  CommandInv
<1>1. TypeOK
  BY InitType
<1>2. Places = <<>> /\ scheduled = <<>> /\ added = 0
  <2>1. Places = ((<<>> \o <<>>) \o <<>>) \o <<>>
    BY Zenon DEF Init, Places, Line
  <2>2. <<>> \o <<>> = <<>>
    BY ConcatEmptySeq, EmptySeq
  <2> QED BY <2>1, <2>2 DEF Init
<1>3. PlacesInv
  <2>1. Len(Places) = 0 /\ Len(scheduled) = 0
    BY <1>2
  <2>2. Accepted
    BY <1>2, <2>1 DEF Init, Accepted, Injective
  <2>3. MapSorted /\ InOrder(Places, delayed, due)
    BY <2>1 DEF MapSorted, InOrder
  <2> QED BY <2>2, <2>3 DEF PlacesInv
<1>4. WorkerSleepsOnlyWithoutWork /\ UpToAccepted
  BY DEF Init, WorkerSleepsOnlyWithoutWork, UpToAccepted
<1> QED BY <1>1, <1>3, <1>4 DEF CommandInv

LEMMA Invariant == Spec => []CommandInv
<1>1. Init => CommandInv
  BY InvInit
<1>2. CommandInv /\ [Next]_vars => CommandInv'
  BY TypeStep, PlacesStep, SleepStep, UpToStep DEF CommandInv
<1> QED BY <1>1, <1>2, PTL DEF Spec

-----------------------------------------------------------------------------
(* What follows for the clients *)

\* No command is lost or run twice: an accepted command has run, runs, is queued
\* or is scheduled, once, unless quit() dropped it (CommandThread.h:126-130,
\* 184-185, 231-251).
THEOREM InOnePlace == Spec => []EachCommandInOnePlace
<1>1. CommandInv => EachCommandInOnePlace
  <2> SUFFICES ASSUME CommandInv PROVE EachCommandInOnePlace
    OBVIOUS
  <2>1. Places \in Seq(Command) /\ DOMAIN Places = 1 .. Len(Places) /\ Accepted
    BY RanType, LenProperties DEF CommandInv, PlacesInv
  <2>2. \A i, j \in DOMAIN Places : Places[i] = Places[j] => i = j
    BY <2>1 DEF Accepted, Injective
  <2>3. ElementsOf(Places) \subseteq 1 .. added
    BY <2>1 DEF Accepted, ElementsOf
  <2>4. ~ quit => 1 .. added \subseteq ElementsOf(Places)
    BY <2>1 DEF Accepted, ElementsOf
  <2>5. quit => commands = <<>> /\ scheduled = <<>>
    BY <2>1 DEF Accepted
  <2> QED BY <2>2, <2>3, <2>4, <2>5 DEF EachCommandInOnePlace, Places
<1> QED BY <1>1, Invariant, PTL

\* Commands run in the order of add(), delayed ones in the order of their times,
\* and no command overtakes one that was queued before it (CommandThread.h:155,
\* 233-236).
THEOREM RunInOrder == Spec => []RunsInOrder
<1>1. CommandInv => RunsInOrder
  <2> SUFFICES ASSUME CommandInv,
                      NEW i \in DOMAIN Line, NEW j \in DOMAIN Line, i < j, Line[j] < Line[i]
               PROVE  /\ Line[j] \in delayed
                      /\ Line[i] \in delayed => due[Line[i]] < due[Line[j]]
    BY DEF RunsInOrder
  <2>1. Line \in Seq(Command) /\ DOMAIN Line = 1 .. Len(Line)
    BY RanType, LenProperties DEF CommandInv
  <2>2. /\ i \in 1 .. Len(Places) /\ Places[i] = Line[i]
        /\ j \in 1 .. Len(Places) /\ Places[j] = Line[j]
    BY <2>1, PlacesParts DEF CommandInv
  <2> QED BY <2>2 DEF CommandInv, PlacesInv, InOrder
<1> QED BY <1>1, Invariant, PTL

\* The worker never sleeps while a command is queued, or past the time of the
\* earliest delayed one (CommandThread.h:129, 153-157, 253-258).
THEOREM SleepsOnlyWithoutWork == Spec => []WorkerSleepsOnlyWithoutWork
<1>1. CommandInv => WorkerSleepsOnlyWithoutWork
  BY DEF CommandInv
<1> QED BY <1>1, Invariant, PTL

\* A waiter that finds all tasks done: every accepted command has returned.
LEMMA AllFinished ==
  ASSUME CommandInv, AllTasksDone, ~ quit
  PROVE  1 .. added \subseteq ElementsOf(finished)
<1>1. commands = <<>> /\ scheduled = <<>> /\ running = 0 /\ finished \in Seq(Command)
  BY DEF AllTasksDone, CommandInv, TypeOK
<1>2. Places = finished
  <2>1. Places = ((finished \o <<>>) \o <<>>) \o <<>>
    BY <1>1, Zenon DEF Places, Line
  <2>2. finished \o <<>> = finished
    BY <1>1, ConcatEmptySeq
  <2> QED BY <2>1, <2>2, Zenon
<1>3. \A c \in 1 .. added : \E i \in 1 .. Len(finished) : finished[i] = c
  BY <1>2 DEF CommandInv, PlacesInv, Accepted
<1>4. DOMAIN finished = 1 .. Len(finished)
  BY <1>1, LenProperties
<1> QED BY <1>3, <1>4 DEF ElementsOf

\* When wait_for_all_tasks() returns and quit() was not called, every command
\* accepted before the call has returned (CommandThread.h:193-198).
THEOREM WaitCovers == Spec => WaitCoversEarlierCommands
<1> DEFINE Covered(w) == (waiter[w] # "returned" /\ waiter'[w] = "returned" /\ ~ quit)
                            => 1 .. upTo'[w] \subseteq ElementsOf(finished)
<1>1. CommandInv /\ [Next]_vars => [\A w \in Waiters : Covered(w)]_vars
  <2> SUFFICES ASSUME CommandInv, Next, NEW w \in Waiters,
                      waiter[w] # "returned", waiter'[w] = "returned", ~ quit
               PROVE  1 .. upTo'[w] \subseteq ElementsOf(finished)
    OBVIOUS
  <2>1. /\ waiter \in [Waiters -> {"idle", "waiting", "woken", "returned"}]
        /\ upTo \in [Waiters -> 0 .. MaxCommands] /\ upTo[w] \in 0 .. added /\ added \in Nat
    BY Constants DEF CommandInv, TypeOK, UpToAccepted
  <2>2. PICK v \in Waiters : WaiterNext(v)
    <3>1. ~ (Tick \/ AddNow \/ AddLater \/ WorkerTimesOut \/ WorkerWakesSpuriously)
      BY DEF Tick, AddNow, AddLater, WorkerTimesOut, WorkerWakesSpuriously
    <3>2. ~ Quit
      BY <2>1 DEF Quit, NotifyWaiters
    <3>3. ~ (WorkerRuns \/ TaskReturns)
      BY <2>1 DEF WorkerRuns, TaskReturns, Iterate, NotifyWaiters
    <3> QED BY <3>1, <3>2, <3>3 DEF Next
  <2>3. v = w /\ AllTasksDone /\ upTo'[w] \in {upTo[w], added}
    BY <2>1, <2>2 DEF WaiterNext, WaitForAllTasks, WaiterWakes, WaiterWakesSpuriously, TestOrWait
  <2>4. 1 .. upTo'[w] \subseteq 1 .. added
    BY <2>1, <2>3
  <2> QED BY <2>3, <2>4, AllFinished
<1> QED BY <1>1, Invariant, PTL DEF Spec, WaitCoversEarlierCommands
=============================================================================
