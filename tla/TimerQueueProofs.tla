-------------------------- MODULE TimerQueueProofs --------------------------
(* The timed execution queue keeps its containers in step, runs no event twice *)
(* and none that was removed, and has its timers armed for the earliest event, *)
(* for every set of requests and any number of events and clock ticks.         *)
EXTENDS TimerQueue, TLAPS, SequenceTheorems, FiniteSetTheorems, WellFoundedInduction

LEMMA Constants ==
  /\ Alarm \in BOOLEAN /\ Created \subseteq Clocks /\ MaxEvents \in Nat /\ LastTime \in Nat \ {0}
  /\ Requests \subseteq [both : BOOLEAN, soft : Int, hard : Int, priority : Int]
BY TimerQueueAssumption

-----------------------------------------------------------------------------
(* Induction over the naturals, for sets *)

LEMMA Least ==
  ASSUME NEW N, N \subseteq Nat, N # {}
  PROVE  \E m \in N : \A k \in N : m =< k
<1>1. PICK m \in N : \A k \in N : <<k, m>> \notin OpToRel(<, Nat)
  BY WFMin, NatLessThanWellFounded, Zenon
<1>2. \A k \in N : ~ (k < m)
  BY <1>1, Zenon DEF OpToRel
<1> QED BY <1>2

LEMMA UpTo ==
  ASSUME NEW n \in Nat, NEW N, 0 \in N, \A k \in 0 .. n - 1 : k \in N => k + 1 \in N
  PROVE  \A k \in 0 .. n : k \in N
<1> DEFINE M == {k \in 0 .. n : k \notin N}
<1>1. ASSUME M # {} PROVE FALSE
  <2>1. PICK m \in M : \A k \in M : m =< k
    <3>1. M \subseteq Nat
      OBVIOUS
    <3> HIDE DEF M
    <3> QED BY <1>1, <3>1, Least
  <2>2. m \in 1 .. n /\ m - 1 \in 0 .. n - 1 /\ (m - 1) + 1 = m
    OBVIOUS
  <2>3. m - 1 \in N
    <3>1. m - 1 \notin M
      BY <2>1, <2>2
    <3> QED BY <2>2, <3>1
  <2> QED BY <2>2, <2>3
<1> QED BY <1>1

-----------------------------------------------------------------------------
(* What erase() leaves of an index *)

\* The places in s of the elements of t, which are those of s up to n but for gone.
Picks(f, t, s, gone, n) ==
  /\ f \in [1 .. Len(t) -> 1 .. n]
  /\ \A i, j \in 1 .. Len(t) : i < j => f[i] < f[j]
  /\ \A i \in 1 .. Len(t) : t[i] = s[f[i]]
  /\ \A k \in 1 .. n : s[k] \notin gone <=> \E i \in 1 .. Len(t) : f[i] = k

LEMMA PicksNext ==
  ASSUME NEW S, NEW s \in Seq(S), NEW gone, NEW n \in 0 .. Len(s) - 1,
         NEW t \in Seq(S), NEW f, Picks(f, t, s, gone, n)
  PROVE  LET u == IF s[n + 1] \in gone THEN t ELSE Append(t, s[n + 1])
         IN  u \in Seq(S) /\ \E g : Picks(g, u, s, gone, n + 1)
<1>1. Len(s) \in Nat /\ Len(t) \in Nat /\ n \in Nat /\ n + 1 \in 1 .. Len(s) /\ s[n + 1] \in S
  BY ElementOfSeq, LenProperties
<1>2. CASE s[n + 1] \in gone
  <2>1. Picks(f, t, s, gone, n + 1)
    <3>1. \A k \in 1 .. n + 1 : k \in 1 .. n \/ k = n + 1
      BY <1>1
    <3>2. \A i \in 1 .. Len(t) : f[i] \in 1 .. n + 1 /\ f[i] # n + 1
      BY <1>1 DEF Picks
    <3> QED BY <1>1, <1>2, <3>1, <3>2 DEF Picks
  <2> QED BY <1>2, <2>1
<1>3. CASE s[n + 1] \notin gone
  <2> DEFINE u == Append(t, s[n + 1])
             g == [i \in 1 .. Len(t) + 1 |-> IF i =< Len(t) THEN f[i] ELSE n + 1]
  <2>1. /\ u \in Seq(S) /\ Len(u) = Len(t) + 1
        /\ \A i \in 1 .. Len(t) : u[i] = t[i]
        /\ u[Len(t) + 1] = s[n + 1]
    BY <1>1, AppendProperties
  <2>2. \A i \in 1 .. Len(t) : g[i] = f[i] /\ f[i] \in 1 .. n /\ i \in 1 .. Len(t) + 1
    <3> TAKE i \in 1 .. Len(t)
    <3>1. i \in 1 .. Len(t) + 1 /\ i =< Len(t)
      BY <1>1
    <3>2. f[i] \in 1 .. n
      BY DEF Picks
    <3> QED BY <3>1, <3>2
  <2>3. g[Len(t) + 1] = n + 1 /\ Len(t) + 1 \in 1 .. Len(t) + 1
    BY <1>1
  <2>4. \A i \in 1 .. Len(t) + 1 : i \in 1 .. Len(t) \/ i = Len(t) + 1
    BY <1>1
  <2>5. g \in [1 .. Len(u) -> 1 .. n + 1]
    <3>1. \A i \in 1 .. Len(t) + 1 : g[i] \in 1 .. n + 1
      <4>1. \A i \in 1 .. Len(t) : g[i] \in 1 .. n + 1
        <5> HIDE DEF g
        <5> QED BY <1>1, <2>2
      <4>2. g[Len(t) + 1] \in 1 .. n + 1
        BY <1>1, <2>3
      <4> HIDE DEF g
      <4> QED BY <2>4, <4>1, <4>2
    <3>2. g = [i \in 1 .. Len(t) + 1 |-> g[i]]
      OBVIOUS
    <3> HIDE DEF g
    <3> QED BY <2>1, <3>1, <3>2
  <2> HIDE DEF g, u
  <2>6. \A i, j \in 1 .. Len(u) : i < j => g[i] < g[j]
    <3> SUFFICES ASSUME NEW i \in 1 .. Len(u), NEW j \in 1 .. Len(u), i < j
                 PROVE  g[i] < g[j]
      OBVIOUS
    <3>1. i \in 1 .. Len(t) /\ f[i] \in 1 .. n /\ g[i] = f[i]
      BY <1>1, <2>1, <2>2, <2>4
    <3>2. CASE j \in 1 .. Len(t)
      BY <2>2, <3>1, <3>2 DEF Picks
    <3>3. CASE j = Len(t) + 1
      BY <1>1, <2>3, <3>1, <3>3
    <3> QED BY <2>1, <2>4, <3>2, <3>3
  <2>7. \A i \in 1 .. Len(u) : u[i] = s[g[i]]
    BY <2>1, <2>2, <2>3, <2>4 DEF Picks
  <2>8. \A k \in 1 .. n + 1 : s[k] \notin gone <=> \E i \in 1 .. Len(u) : g[i] = k
    <3> SUFFICES ASSUME NEW k \in 1 .. n + 1
                 PROVE  s[k] \notin gone <=> \E i \in 1 .. Len(u) : g[i] = k
      OBVIOUS
    <3>1. CASE k = n + 1
      BY <1>3, <2>1, <2>3, <3>1
    <3>2. CASE k \in 1 .. n
      <4>1. k # n + 1
        BY <1>1, <3>2
      <4>2. (\E i \in 1 .. Len(u) : g[i] = k) <=> \E i \in 1 .. Len(t) : f[i] = k
        BY <2>1, <2>2, <2>3, <2>4, <4>1
      <4> QED BY <3>2, <4>2 DEF Picks
    <3> QED BY <1>1, <3>1, <3>2
  <2>9. Picks(g, u, s, gone, n + 1)
    BY <2>5, <2>6, <2>7, <2>8 DEF Picks
  <2> QED BY <1>3, <2>1, <2>9 DEF u
<1> QED BY <1>2, <1>3

\* The recursive function in Without is there.
LEMMA WithoutUnfolds ==
  ASSUME NEW S, NEW s \in Seq(S), NEW gone
  PROVE  \E rest :
           /\ rest = [n \in 0 .. Len(s) |->
                        IF n = 0 THEN <<>>
                        ELSE IF s[n] \in gone THEN rest[n - 1] ELSE Append(rest[n - 1], s[n])]
           /\ Without(s, gone) = rest[Len(s)]
<1> DEFINE Step(r, n) == IF n = 0 THEN <<>>
                         ELSE IF s[n] \in gone THEN r[n - 1] ELSE Append(r[n - 1], s[n])
           Upto == {m \in Nat : \E r : r = [n \in 0 .. m |-> Step(r, n)]}
<1>1. Len(s) \in Nat
  BY LenProperties
<1>2. 0 \in Upto
  <2> DEFINE r == [n \in 0 .. 0 |-> <<>>]
  <2>1. r = [n \in 0 .. 0 |-> Step(r, n)]
    OBVIOUS
  <2> HIDE DEF r
  <2> QED BY <2>1
<1>3. ASSUME NEW m \in Nat, m \in Upto
      PROVE  m + 1 \in Upto
  <2>1. PICK r : r = [n \in 0 .. m |-> Step(r, n)]
    BY <1>3
  <2>5. \A k \in 0 .. m : r[k] = Step(r, k)
    <3> HIDE DEF Step
    <3> QED BY <2>1
  <2> DEFINE q == [n \in 0 .. m + 1 |-> IF n =< m THEN r[n] ELSE Step(r, n)]
  <2>2. \A n \in 0 .. m + 1 : q[n] = Step(q, n)
    <3> SUFFICES ASSUME NEW n \in 0 .. m + 1 PROVE q[n] = Step(q, n)
      OBVIOUS
    <3>1. CASE n = 0
      <4>1. r[0] = Step(r, 0)
        BY <2>1
      <4> QED BY <3>1, <4>1
    <3>2. CASE n # 0
      <4>1. n - 1 \in 0 .. m /\ n - 1 =< m
        BY <3>2
      <4>2. q[n - 1] = r[n - 1]
        BY <4>1
      <4>3. n =< m => r[n] = Step(r, n)
        <5> HIDE DEF Step
        <5> QED BY <2>5
      <4>4. Step(q, n) = Step(r, n)
        BY <3>2, <4>2
      <4>5. q[n] = Step(r, n)
        <5> HIDE DEF Step
        <5> QED BY <4>3
      <4> QED BY <4>4, <4>5
    <3> QED BY <3>1, <3>2
  <2>3. q = [n \in 0 .. m + 1 |-> q[n]]
    OBVIOUS
  <2> HIDE DEF q, Step
  <2>4. q = [n \in 0 .. m + 1 |-> Step(q, n)]
    BY <2>2, <2>3
  <2> QED BY <2>4
<1> HIDE DEF Upto
<1>4. Len(s) \in Upto
  <2>1. \A k \in 0 .. Len(s) - 1 : k \in Upto => k + 1 \in Upto
    BY <1>1, <1>3
  <2>2. \A k \in 0 .. Len(s) : k \in Upto
    BY <1>1, <1>2, <2>1, UpTo, Zenon
  <2> QED BY <1>1, <2>2
<1>5. \E r : r = [n \in 0 .. Len(s) |-> Step(r, n)]
  BY <1>4 DEF Upto
<1> QED BY <1>5 DEF Without

LEMMA WithoutPicks ==
  ASSUME NEW S, NEW s \in Seq(S), NEW gone
  PROVE  Without(s, gone) \in Seq(S) /\ \E f : Picks(f, Without(s, gone), s, gone, Len(s))
<1>1. PICK rest :
        /\ rest = [n \in 0 .. Len(s) |->
                     IF n = 0 THEN <<>>
                     ELSE IF s[n] \in gone THEN rest[n - 1] ELSE Append(rest[n - 1], s[n])]
        /\ Without(s, gone) = rest[Len(s)]
  BY WithoutUnfolds
<1> DEFINE Good == {n \in 0 .. Len(s) : rest[n] \in Seq(S) /\ \E f : Picks(f, rest[n], s, gone, n)}
<1>2. Len(s) \in Nat
  BY LenProperties
<1>3. 0 \in Good
  <2>1. rest[0] = <<>>
    <3>1. 0 \in 0 .. Len(s)
      BY <1>2
    <3> QED BY <1>1, <3>1, Zenon
  <2>2. <<>> \in Seq(S) /\ Len(<<>>) = 0
    BY EmptySeq
  <2>3. Picks([i \in 1 .. 0 |-> i], <<>>, s, gone, 0)
    BY <2>2 DEF Picks
  <2>4. \E f : Picks(f, rest[0], s, gone, 0)
    BY <2>1, <2>3, Zenon
  <2>5. rest[0] \in Seq(S) /\ 0 \in 0 .. Len(s)
    BY <1>2, <2>1, <2>2
  <2> QED BY <2>4, <2>5
<1>4. ASSUME NEW n \in 0 .. Len(s) - 1, n \in Good
      PROVE  n + 1 \in Good
  <2>1. n + 1 \in 0 .. Len(s) /\ n + 1 # 0 /\ (n + 1) - 1 = n
    BY <1>2
  <2>2. rest[n + 1] = IF s[n + 1] \in gone THEN rest[n] ELSE Append(rest[n], s[n + 1])
    BY <1>1, <2>1
  <2>3. PICK f : Picks(f, rest[n], s, gone, n)
    BY <1>4
  <2>4. rest[n] \in Seq(S)
    BY <1>4
  <2>5. rest[n + 1] \in Seq(S) /\ \E g : Picks(g, rest[n + 1], s, gone, n + 1)
    BY <2>2, <2>3, <2>4, PicksNext
  <2> QED BY <2>1, <2>5
<1> HIDE DEF Good
<1>5. Len(s) \in Good
  <2>1. \A k \in 0 .. Len(s) - 1 : k \in Good => k + 1 \in Good
    BY <1>4
  <2>2. \A k \in 0 .. Len(s) : k \in Good
    BY <1>2, <1>3, <2>1, UpTo, Zenon
  <2> QED BY <1>2, <2>2
<1> QED BY <1>1, <1>5 DEF Good

-----------------------------------------------------------------------------
(* An index and the events of its clock *)

InOrder(idx) == \A i, j \in DOMAIN idx : i < j => idx[i].time =< idx[j].time
NoIdTwice(idx) == \A i, j \in DOMAIN idx : idx[i].id = idx[j].id => i = j
Agrees(idx, evs) == RangeOf(idx) = evs /\ NoIdTwice(idx) /\ InOrder(idx)

Entry(n) == [id : 1 .. n, time : Int]

\* erase() leaves the others in their order, and so the first one if it stays.
LEMMA WithoutAgrees ==
  ASSUME NEW n \in Nat, NEW idx \in Seq(Entry(n)), NEW evs, Agrees(idx, evs), NEW gone
  PROVE  /\ Without(idx, gone) \in Seq(Entry(n))
         /\ Agrees(Without(idx, gone), evs \ gone)
         /\ idx # <<>> /\ Head(idx) \notin gone =>
              Without(idx, gone) # <<>> /\ Head(Without(idx, gone)) = Head(idx)
<1> DEFINE t == Without(idx, gone)
<1>1. t \in Seq(Entry(n)) /\ \E f : Picks(f, t, idx, gone, Len(idx))
  BY WithoutPicks
<1>2. PICK f : Picks(f, t, idx, gone, Len(idx))
  BY <1>1
<1> HIDE DEF t
<1>3. /\ Len(t) \in Nat /\ Len(idx) \in Nat
      /\ DOMAIN t = 1 .. Len(t) /\ DOMAIN idx = 1 .. Len(idx)
      /\ \A i \in 1 .. Len(idx) : idx[i] \in Entry(n)
  BY <1>1, LenProperties, ElementOfSeq
<1>4. /\ \A i \in 1 .. Len(t) : f[i] \in 1 .. Len(idx) /\ t[i] = idx[f[i]]
      /\ \A i, j \in 1 .. Len(t) : i < j => f[i] < f[j]
      /\ \A k \in 1 .. Len(idx) : idx[k] \notin gone <=> \E i \in 1 .. Len(t) : f[i] = k
  BY <1>2 DEF Picks
<1>5. RangeOf(t) = evs \ gone
  <2>1. evs = {idx[k] : k \in 1 .. Len(idx)} /\ RangeOf(t) = {t[i] : i \in 1 .. Len(t)}
    BY <1>3 DEF Agrees, RangeOf
  <2>2. \A i \in 1 .. Len(t) : idx[f[i]] \notin gone
    BY <1>4
  <2>3. RangeOf(t) \subseteq evs \ gone
    BY <1>4, <2>1, <2>2
  <2>4. ASSUME NEW k \in 1 .. Len(idx), idx[k] \notin gone PROVE idx[k] \in RangeOf(t)
    <3>1. PICK i \in 1 .. Len(t) : f[i] = k
      BY <1>4, <2>4
    <3> QED BY <1>4, <2>1, <3>1
  <2> QED BY <2>1, <2>3, <2>4
<1>6. NoIdTwice(t)
  <2> SUFFICES ASSUME NEW i \in 1 .. Len(t), NEW j \in 1 .. Len(t), t[i].id = t[j].id
               PROVE  i = j
    BY <1>3 DEF NoIdTwice
  <2>1. f[i] = f[j]
    BY <1>3, <1>4 DEF Agrees, NoIdTwice
  <2>2. f[i] \in Nat /\ f[j] \in Nat
    BY <1>3, <1>4
  <2>3. ~ (i < j) /\ ~ (j < i)
    BY <1>4, <2>1, <2>2
  <2>4. i \in Int /\ j \in Int
    BY <1>3
  <2> QED BY <2>3, <2>4
<1>7. InOrder(t)
  BY <1>3, <1>4 DEF Agrees, InOrder
<1>8. ASSUME idx # <<>>, Head(idx) \notin gone
      PROVE  t # <<>> /\ Head(t) = Head(idx)
  <2>1. Len(idx) \in Nat \ {0} /\ Head(idx) = idx[1]
    BY <1>3, <1>8, HeadTailProperties, EmptySeq
  <2>2. PICK i \in 1 .. Len(t) : f[i] = 1
    BY <1>4, <1>8, <2>1
  <2>3. f[1] \in 1 .. Len(idx) /\ f[1] =< f[i] /\ 1 \in 1 .. Len(t)
    BY <1>3, <1>4
  <2>4. f[1] = 1 /\ t[1] = idx[1]
    BY <1>3, <1>4, <2>1, <2>2, <2>3
  <2>5. t # <<>> /\ Head(t) = t[1]
    BY <1>1, <1>3, <2>3, HeadTailProperties, EmptySeq
  <2> QED BY <2>1, <2>4, <2>5
<1> QED BY <1>1, <1>5, <1>6, <1>7, <1>8 DEF Agrees, t

\* The place of a new entry is there, because the index is in order.
LEMMA UpperBoundIs ==
  ASSUME NEW n \in Nat, NEW idx \in Seq(Entry(n)), InOrder(idx), NEW time \in Int
  PROVE  /\ UpperBoundIn(idx, time) \in 0 .. Len(idx)
         /\ \A i \in 1 .. UpperBoundIn(idx, time) : idx[i].time =< time
         /\ \A i \in UpperBoundIn(idx, time) + 1 .. Len(idx) : idx[i].time > time
<1> DEFINE later == {k \in 1 .. Len(idx) + 1 : k = Len(idx) + 1 \/ idx[k].time > time}
<1>1. /\ Len(idx) \in Nat /\ DOMAIN idx = 1 .. Len(idx)
      /\ \A i \in 1 .. Len(idx) : idx[i].time \in Int
  <2>1. \A i \in 1 .. Len(idx) : idx[i] \in Entry(n)
    BY ElementOfSeq
  <2> QED BY <2>1, LenProperties DEF Entry
<1>2. PICK m \in later : \A k \in later : m =< k
  <2>1. later \subseteq Nat /\ Len(idx) + 1 \in later
    BY <1>1
  <2> HIDE DEF later
  <2> QED BY <2>1, Least
<1>3. m - 1 \in 0 .. Len(idx) /\ m \in 1 .. Len(idx) + 1 /\ (m - 1) + 1 = m
  BY <1>1, <1>2
<1>4. \A i \in 1 .. m - 1 : idx[i].time =< time
  <2> SUFFICES ASSUME NEW i \in 1 .. m - 1 PROVE idx[i].time =< time
    OBVIOUS
  <2>1. i \in 1 .. Len(idx) /\ ~ (m =< i)
    BY <1>1, <1>3
  <2>2. i \notin later
    BY <1>2, <2>1
  <2> QED BY <1>1, <2>1, <2>2
<1>5. \A i \in m .. Len(idx) : idx[i].time > time
  <2> SUFFICES ASSUME NEW i \in m .. Len(idx) PROVE idx[i].time > time
    OBVIOUS
  <2>1. i \in 1 .. Len(idx) /\ m \in 1 .. Len(idx) /\ m =< i
    BY <1>1, <1>3
  <2>2. idx[m].time > time
    BY <1>1, <1>2, <2>1
  <2>3. idx[m].time =< idx[i].time
    <3>1. CASE m = i
      <4>1. idx[m].time \in Int
        BY <1>1, <2>1
      <4> QED BY <3>1, <4>1
    <3>2. CASE m # i
      <4>1. m < i
        BY <2>1, <3>2
      <4> QED BY <2>1, <4>1 DEF InOrder
    <3> QED BY <3>1, <3>2
  <2> QED BY <1>1, <2>1, <2>2, <2>3
<1>6. \E k \in 0 .. Len(idx) : /\ \A i \in 1 .. k : idx[i].time =< time
                               /\ \A i \in k + 1 .. Len(idx) : idx[i].time > time
  BY <1>3, <1>4, <1>5
<1> QED BY <1>6 DEF UpperBoundIn

\* The elements of an index with one more at place k + 1.
OneMoreAt(u, idx, e, k) ==
  /\ Len(u) = Len(idx) + 1
  /\ \A i \in 1 .. k : u[i] = idx[i]
  /\ u[k + 1] = e
  /\ \A i \in k + 2 .. Len(idx) + 1 : u[i] = idx[i - 1]

LEMMA Inserted ==
  ASSUME NEW S, NEW idx \in Seq(S), NEW e \in S, NEW k \in 0 .. Len(idx)
  PROVE  /\ SubSeq(idx, 1, k) \o <<e>> \o SubSeq(idx, k + 1, Len(idx)) \in Seq(S)
         /\ OneMoreAt(SubSeq(idx, 1, k) \o <<e>> \o SubSeq(idx, k + 1, Len(idx)), idx, e, k)
<1> DEFINE a == SubSeq(idx, 1, k)
           b == SubSeq(idx, k + 1, Len(idx))
           ae == a \o <<e>>
<1>1. Len(idx) \in Nat /\ k \in Nat /\ \A i \in 1 .. Len(idx) : idx[i] \in S
  BY LenProperties, ElementOfSeq
<1>2. a \in Seq(S) /\ Len(a) = k /\ \A i \in 1 .. k : a[i] = idx[i]
  <2>1. \A i \in 1 .. k : idx[i] \in S
    BY <1>1
  <2> QED BY <1>1, <2>1, SubSeqProperties
<1>3. b \in Seq(S) /\ Len(b) = Len(idx) - k /\ \A i \in 1 .. Len(idx) - k : b[i] = idx[k + i]
  <2>1. \A i \in k + 1 .. Len(idx) : idx[i] \in S
    BY <1>1
  <2>2. Len(b) = Len(idx) - k
    BY <1>1, <2>1, SubSeqProperties
  <2> QED BY <1>1, <2>1, <2>2, SubSeqProperties
<1>4. <<e>> \in Seq(S) /\ Len(<<e>>) = 1 /\ <<e>>[1] = e
  OBVIOUS
<1> HIDE DEF a, b
<1>5. /\ ae \in Seq(S) /\ Len(ae) = k + 1 /\ \A i \in 1 .. k : ae[i] = idx[i]
      /\ ae[k + 1] = e
  BY <1>1, <1>2, <1>4, ConcatProperties
<1> HIDE DEF ae
<1>6. /\ ae \o b \in Seq(S) /\ Len(ae \o b) = Len(idx) + 1
      /\ \A i \in 1 .. k + 1 : (ae \o b)[i] = ae[i]
      /\ \A i \in k + 2 .. Len(idx) + 1 : (ae \o b)[i] = b[i - (k + 1)]
  BY <1>1, <1>3, <1>5, ConcatProperties
<1>7. \A i \in k + 2 .. Len(idx) + 1 : (ae \o b)[i] = idx[i - 1]
  <2> SUFFICES ASSUME NEW i \in k + 2 .. Len(idx) + 1 PROVE (ae \o b)[i] = idx[i - 1]
    OBVIOUS
  <2>1. i - (k + 1) \in 1 .. Len(idx) - k /\ k + (i - (k + 1)) = i - 1
    BY <1>1
  <2> QED BY <1>3, <1>6, <2>1
<1>8. (\A i \in 1 .. k : (ae \o b)[i] = idx[i]) /\ (ae \o b)[k + 1] = e
  BY <1>1, <1>5, <1>6
<1>9. SubSeq(idx, 1, k) \o <<e>> \o SubSeq(idx, k + 1, Len(idx)) = ae \o b
  BY DEF a, b, ae
<1> QED BY <1>6, <1>7, <1>8, <1>9 DEF OneMoreAt

\* The new entry comes first exactly when add() has found it to be the next one.
LEMMA InsertAgrees ==
  ASSUME NEW n \in Nat, NEW idx \in Seq(Entry(n)), NEW evs, Agrees(idx, evs),
         NEW e \in Entry(n), \A x \in evs : x.id # e.id
  PROVE  /\ Insert(idx, e) \in Seq(Entry(n))
         /\ Agrees(Insert(idx, e), evs \cup {e})
         /\ ~ IsNext(idx, e.time) =>
              Insert(idx, e) # <<>> /\ Head(Insert(idx, e)) = Head(idx)
<1> DEFINE k == UpperBoundIn(idx, e.time)
           u == Insert(idx, e)
<1>1. /\ Len(idx) \in Nat /\ DOMAIN idx = 1 .. Len(idx)
      /\ \A i \in 1 .. Len(idx) : idx[i] \in Entry(n)
  BY LenProperties, ElementOfSeq
<1>2. e.time \in Int /\ \A i \in 1 .. Len(idx) : idx[i].time \in Int
  BY <1>1 DEF Entry
<1>3. /\ k \in 0 .. Len(idx)
      /\ \A i \in 1 .. k : idx[i].time =< e.time
      /\ \A i \in k + 1 .. Len(idx) : idx[i].time > e.time
  BY <1>2, UpperBoundIs DEF Agrees
<1> HIDE DEF k
<1>4. u = SubSeq(idx, 1, k) \o <<e>> \o SubSeq(idx, k + 1, Len(idx))
  BY DEF Insert, k
<1> HIDE DEF u
<1>5. /\ u \in Seq(Entry(n)) /\ Len(u) = Len(idx) + 1
      /\ \A i \in 1 .. k : u[i] = idx[i]
      /\ u[k + 1] = e
      /\ \A i \in k + 2 .. Len(idx) + 1 : u[i] = idx[i - 1]
  <2>1. k \in 0 .. Len(idx)
    BY <1>3
  <2>2. u \in Seq(Entry(n)) /\ OneMoreAt(u, idx, e, k)
    BY <1>4, <2>1, Inserted
  <2> QED BY <2>2 DEF OneMoreAt
<1>6. DOMAIN u = 1 .. Len(idx) + 1
  BY <1>5, LenProperties
<1>7. \A i \in 1 .. Len(idx) + 1 : i \in 1 .. k \/ i = k + 1 \/ i \in k + 2 .. Len(idx) + 1
  BY <1>1, <1>3
\* Where each element of u comes from
<1>8. \A i \in 1 .. k : i \in 1 .. Len(idx)
  BY <1>1, <1>3
<1>9. \A i \in k + 2 .. Len(idx) + 1 : i - 1 \in k + 1 .. Len(idx) /\ i - 1 \in 1 .. Len(idx)
  BY <1>1, <1>3
<1>10. RangeOf(u) = evs \cup {e}
  <2>1. ASSUME NEW i \in 1 .. Len(idx)
        PROVE  idx[i] \in RangeOf(u)
    <3>1. CASE i =< k
      <4>1. i \in 1 .. k /\ i \in 1 .. Len(idx) + 1
        BY <1>1, <1>3, <3>1
      <4> QED BY <1>5, <1>6, <4>1 DEF RangeOf
    <3>2. CASE i > k
      <4>1. i + 1 \in k + 2 .. Len(idx) + 1 /\ (i + 1) - 1 = i /\ i + 1 \in 1 .. Len(idx) + 1
        BY <1>1, <1>3, <3>2
      <4>2. u[i + 1] = idx[i]
        BY <1>5, <4>1
      <4> QED BY <1>6, <4>1, <4>2 DEF RangeOf
    <3> QED BY <1>1, <1>3, <3>1, <3>2
  <2>2. e \in RangeOf(u)
    <3>1. k + 1 \in 1 .. Len(idx) + 1
      BY <1>1, <1>3
    <3> QED BY <1>5, <1>6, <3>1 DEF RangeOf
  <2>3. ASSUME NEW i \in 1 .. Len(idx) + 1
        PROVE  u[i] \in RangeOf(idx) \cup {e}
    <3>1. CASE i \in 1 .. k
      BY <1>1, <1>5, <1>8, <3>1 DEF RangeOf
    <3>2. CASE i = k + 1
      BY <1>5, <3>2
    <3>3. CASE i \in k + 2 .. Len(idx) + 1
      BY <1>1, <1>5, <1>9, <3>3 DEF RangeOf
    <3> QED BY <1>7, <3>1, <3>2, <3>3
  <2>4. RangeOf(idx) = {idx[i] : i \in 1 .. Len(idx)} /\ RangeOf(idx) = evs
    BY <1>1 DEF RangeOf, Agrees
  <2>5. RangeOf(u) = {u[i] : i \in 1 .. Len(idx) + 1}
    BY <1>6 DEF RangeOf
  <2>6. evs \cup {e} \subseteq RangeOf(u)
    BY <2>1, <2>2, <2>4
  <2>7. RangeOf(u) \subseteq evs \cup {e}
    BY <2>3, <2>4, <2>5
  <2> QED BY <2>6, <2>7
<1>11. \A i \in 1 .. Len(idx) : idx[i].id # e.id
  BY <1>1 DEF Agrees, RangeOf
<1>12. NoIdTwice(u)
  <2> SUFFICES ASSUME NEW i \in 1 .. Len(idx) + 1, NEW j \in 1 .. Len(idx) + 1,
                      u[i].id = u[j].id
               PROVE  i = j
    BY <1>6 DEF NoIdTwice
  <2>1. \A a, b \in 1 .. Len(idx) : idx[a].id = idx[b].id => a = b
    BY <1>1 DEF Agrees, NoIdTwice
  <2>2. CASE i = k + 1
    BY <1>5, <1>7, <1>8, <1>9, <1>11, <2>2
  <2>3. CASE j = k + 1
    BY <1>5, <1>7, <1>8, <1>9, <1>11, <2>3
  <2>4. CASE i \in 1 .. k /\ j \in 1 .. k
    BY <1>5, <1>8, <2>1, <2>4
  <2>5. CASE i \in 1 .. k /\ j \in k + 2 .. Len(idx) + 1
    <3>1. i = j - 1
      BY <1>5, <1>8, <1>9, <2>1, <2>5
    <3> QED BY <1>1, <1>3, <2>5, <3>1
  <2>6. CASE j \in 1 .. k /\ i \in k + 2 .. Len(idx) + 1
    <3>1. j = i - 1
      BY <1>5, <1>8, <1>9, <2>1, <2>6
    <3> QED BY <1>1, <1>3, <2>6, <3>1
  <2>7. CASE i \in k + 2 .. Len(idx) + 1 /\ j \in k + 2 .. Len(idx) + 1
    <3>1. /\ u[i] = idx[i - 1] /\ i - 1 \in 1 .. Len(idx)
          /\ u[j] = idx[j - 1] /\ j - 1 \in 1 .. Len(idx)
      BY <1>5, <1>9, <2>7
    <3>2. PICK a, b : a = i - 1 /\ b = j - 1
      OBVIOUS
    <3>3. a = b
      BY <2>1, <3>1, <3>2
    <3> QED BY <1>1, <1>3, <2>7, <3>2, <3>3
  <2> QED BY <1>7, <2>2, <2>3, <2>4, <2>5, <2>6, <2>7
<1>13. InOrder(u)
  <2> SUFFICES ASSUME NEW i \in 1 .. Len(idx) + 1, NEW j \in 1 .. Len(idx) + 1, i < j
               PROVE  u[i].time =< u[j].time
    BY <1>6 DEF InOrder
  <2>1. \A a, b \in 1 .. Len(idx) : a < b => idx[a].time =< idx[b].time
    BY <1>1 DEF Agrees, InOrder
  <2>2. CASE i \in 1 .. k /\ j \in 1 .. k
    BY <1>5, <1>8, <2>1, <2>2
  <2>3. CASE i \in 1 .. k /\ j = k + 1
    BY <1>3, <1>5, <2>3
  <2>4. CASE i = k + 1 /\ j \in k + 2 .. Len(idx) + 1
    <3>1. u[j] = idx[j - 1] /\ idx[j - 1].time > e.time /\ idx[j - 1].time \in Int
      BY <1>2, <1>3, <1>5, <1>9, <2>4
    <3> QED BY <1>2, <1>5, <2>4, <3>1
  <2>5. CASE i \in 1 .. k /\ j \in k + 2 .. Len(idx) + 1
    <3>1. u[i] = idx[i] /\ i \in 1 .. Len(idx)
      BY <1>5, <1>8, <2>5
    <3>2. u[j] = idx[j - 1] /\ j - 1 \in 1 .. Len(idx) /\ i < j - 1
      BY <1>1, <1>3, <1>5, <1>9, <2>5
    <3> QED BY <2>1, <3>1, <3>2
  <2>6. CASE i \in k + 2 .. Len(idx) + 1 /\ j \in k + 2 .. Len(idx) + 1
    <3>1. u[i] = idx[i - 1] /\ i - 1 \in 1 .. Len(idx)
      BY <1>5, <1>9, <2>6
    <3>2. u[j] = idx[j - 1] /\ j - 1 \in 1 .. Len(idx) /\ i - 1 < j - 1
      BY <1>1, <1>3, <1>5, <1>9, <2>6
    <3> QED BY <2>1, <3>1, <3>2
  <2>7. \/ i \in 1 .. k /\ j \in 1 .. k
        \/ i \in 1 .. k /\ j = k + 1
        \/ i = k + 1 /\ j \in k + 2 .. Len(idx) + 1
        \/ i \in 1 .. k /\ j \in k + 2 .. Len(idx) + 1
        \/ i \in k + 2 .. Len(idx) + 1 /\ j \in k + 2 .. Len(idx) + 1
    <3>1. i \in 1 .. k \/ i = k + 1 \/ i \in k + 2 .. Len(idx) + 1
      BY <1>7
    <3>2. j \in 1 .. k \/ j = k + 1 \/ j \in k + 2 .. Len(idx) + 1
      BY <1>7
    <3>3. i \in Int /\ j \in Int /\ k \in Int
      BY <1>1, <1>3
    <3> QED BY <3>1, <3>2, <3>3
  <2> QED BY <2>2, <2>3, <2>4, <2>5, <2>6, <2>7
<1>14. ASSUME ~ IsNext(idx, e.time)
       PROVE  u # <<>> /\ Head(u) = Head(idx)
  <2>1. Len(idx) \in Nat \ {0} /\ Head(idx) = idx[1] /\ ~ (e.time < idx[1].time)
    BY <1>1, <1>14, HeadTailProperties, EmptySeq DEF IsNext
  <2>2. k # 0
    <3>1. 1 \in 1 .. Len(idx)
      BY <2>1
    <3> QED BY <1>2, <1>3, <2>1, <3>1
  <2>3. u[1] = idx[1]
    BY <1>3, <1>5, <2>2
  <2>4. u # <<>> /\ Head(u) = u[1]
    BY <1>1, <1>5, HeadTailProperties, EmptySeq
  <2> QED BY <2>1, <2>3, <2>4
<1> QED BY <1>5, <1>10, <1>12, <1>13, <1>14 DEF Agrees, u

-----------------------------------------------------------------------------
(* The invariant *)

TimerInv == TimerTypeOK /\ IndexAgrees /\ RunsOnceOrNever /\ TimerArmedForNext

\* What the invariant says of one clock, and of what has been run or removed.
Clock(c) ==
  /\ events[c] \in SUBSET Entry(lastId) /\ index[c] \in Seq(Entry(lastId))
  /\ Agrees(index[c], events[c])

Distinct(s) == \A i, j \in DOMAIN s : s[i] = s[j] => i = j

LEMMA ClockIs == TimerTypeOK => (IndexAgrees <=> \A c \in Clocks : Clock(c))
BY DEF TimerTypeOK, IndexAgrees, Clock, Agrees, NoIdTwice, InOrder, Entry

LEMMA MoreIds ==
  ASSUME NEW m \in Nat
  PROVE  /\ Entry(m) \subseteq Entry(m + 1) /\ Seq(Entry(m)) \subseteq Seq(Entry(m + 1))
         /\ 1 .. m \subseteq 1 .. m + 1 /\ Seq(1 .. m) \subseteq Seq(1 .. m + 1)
<1>1. Entry(m) \subseteq Entry(m + 1) /\ 1 .. m \subseteq 1 .. m + 1
  BY DEF Entry
<1> QED BY <1>1, SeqMonotonic

\* Whatever the timer is armed with is a time or 0.
LEMMA ArmedType ==
  ASSUME NEW n \in Nat, NEW idx \in Seq(Entry(n)), NEW c, NEW run \in BOOLEAN
  PROVE  Armed(c, idx, run) \in Nat
<1>1. idx # <<>> => Head(idx).time \in Int
  <2>1. idx # <<>> => Head(idx) \in Entry(n)
    BY HeadTailProperties
  <2> QED BY <2>1 DEF Entry
<1> QED BY <1>1 DEF Armed, NextTime, kMagicUnblockTime

\* A call of add() on one clock.
Extended(c, e) ==
  /\ events'[c] = events[c] \cup {e} /\ index'[c] = Insert(index[c], e)
  /\ timer'[c] = IF IsNext(index[c], e.time) THEN Armed(c, index'[c], mRunning) ELSE timer[c]

LEMMA AddIs ==
  ASSUME TimerTypeOK, AddEvent
  PROVE  /\ lastId' = lastId + 1 /\ lastId < MaxEvents
         /\ \A c \in Clocks :
              \/ events'[c] = events[c] /\ index'[c] = index[c] /\ timer'[c] = timer[c]
              \/ \E e \in Entry(lastId + 1) : e.id = lastId + 1 /\ Extended(c, e)
         /\ events' = [c \in Clocks |-> events'[c]] /\ index' = [c \in Clocks |-> index'[c]]
         /\ timer' = [c \in Clocks |-> timer'[c]]
         /\ UNCHANGED <<boottime, awake, mRunning, thread, fd, seen, batch, ran, asked,
                        removed>>
<1> DEFINE id == lastId + 1
           time(r, c) == CHOOSE t \in {r.soft, r.hard} : <<c, t>> \in Entries(r)
           on(r) == {c \in Clocks : \E t \in {r.soft, r.hard} : <<c, t>> \in Entries(r)}
           new(r, c) == [id |-> id, time |-> time(r, c)]
<1>1. PICK r \in Requests :
        /\ events' = [c \in Clocks |->
                        IF c \in on(r) THEN events[c] \cup {new(r, c)} ELSE events[c]]
        /\ index' = [c \in Clocks |->
                        IF c \in on(r) THEN Insert(index[c], new(r, c)) ELSE index[c]]
        /\ timer' = [c \in Clocks |->
                        IF c \in on(r) /\ IsNext(index[c], time(r, c))
                        THEN Armed(c, index'[c], mRunning) ELSE timer[c]]
  BY DEF AddEvent
<1>2. lastId \in Nat
  BY Constants DEF TimerTypeOK
<1>3. ASSUME NEW c \in on(r)
      PROVE  new(r, c) \in Entry(lastId + 1)
  <2>1. time(r, c) \in {r.soft, r.hard}
    OBVIOUS
  <2>2. r.soft \in Int /\ r.hard \in Int
    BY Constants
  <2> QED BY <1>2, <2>1, <2>2 DEF Entry
<1>4. ASSUME NEW c \in Clocks, c \in on(r)
      PROVE  new(r, c).id = lastId + 1 /\ Extended(c, new(r, c))
  <2>1. new(r, c).id = lastId + 1 /\ new(r, c).time = time(r, c)
    OBVIOUS
  <2>2. events'[c] = events[c] \cup {new(r, c)} /\ index'[c] = Insert(index[c], new(r, c))
    BY <1>1, <1>4
  <2>3. timer'[c] = IF IsNext(index[c], time(r, c)) THEN Armed(c, index'[c], mRunning) ELSE timer[c]
    BY <1>1, <1>4
  <2> HIDE DEF new, time
  <2> QED BY <2>1, <2>2, <2>3 DEF Extended
<1>5. ASSUME NEW c \in Clocks, c \notin on(r)
      PROVE  events'[c] = events[c] /\ index'[c] = index[c] /\ timer'[c] = timer[c]
  BY <1>1, <1>5
<1>6. /\ events' = [c \in Clocks |-> events'[c]] /\ index' = [c \in Clocks |-> index'[c]]
      /\ timer' = [c \in Clocks |-> timer'[c]]
  BY <1>1
<1>7. /\ lastId' = lastId + 1 /\ lastId < MaxEvents
      /\ UNCHANGED <<boottime, awake, mRunning, thread, fd, seen, batch, ran, asked, removed>>
  BY DEF AddEvent
<1> HIDE DEF new, on
<1> QED BY <1>3, <1>4, <1>5, <1>6, <1>7

LEMMA AllIs ==
  ASSUME TimerTypeOK
  PROVE  ran \o batch \in Seq(1 .. lastId) /\ RangeOf(ran \o batch) \subseteq 1 .. lastId
<1>1. ran \o batch \in Seq(1 .. lastId)
  BY ConcatProperties DEF TimerTypeOK
<1> QED BY <1>1, ElementOfSeq, LenProperties DEF RangeOf

LEMMA AddKeeps ==
  ASSUME TimerInv, AddEvent
  PROVE  TimerInv'
<1>1. TimerTypeOK /\ IndexAgrees /\ RunsOnceOrNever /\ TimerArmedForNext /\ lastId \in Nat
  <2>1. TimerTypeOK /\ IndexAgrees /\ RunsOnceOrNever /\ TimerArmedForNext
    BY DEF TimerInv
  <2>2. lastId \in Nat
    BY <2>1, Constants DEF TimerTypeOK
  <2> QED BY <2>1, <2>2
<1>2. /\ lastId' = lastId + 1 /\ lastId < MaxEvents
      /\ \A c \in Clocks :
           \/ events'[c] = events[c] /\ index'[c] = index[c] /\ timer'[c] = timer[c]
           \/ \E e \in Entry(lastId + 1) : e.id = lastId + 1 /\ Extended(c, e)
      /\ events' = [c \in Clocks |-> events'[c]] /\ index' = [c \in Clocks |-> index'[c]]
      /\ timer' = [c \in Clocks |-> timer'[c]]
      /\ UNCHANGED <<boottime, awake, mRunning, thread, fd, seen, batch, ran, asked, removed>>
  BY <1>1, AddIs
<1>3. \A c \in Clocks : Clock(c)
  BY <1>1, ClockIs
<1>4. ASSUME NEW c \in Clocks
      PROVE  /\ Clock(c)' /\ timer'[c] \in Nat
             /\ c \in Created /\ timer'[c] # timer[c] => timer'[c] = NextTime(index'[c], mRunning)
             /\ c \in Created /\ timer'[c] = timer[c] =>
                  \/ NextTime(index'[c], mRunning) = NextTime(index[c], mRunning)
                  \/ timer'[c] = NextTime(index'[c], mRunning)
             /\ \A x \in events'[c] : x \in events[c] \/ x.id = lastId + 1
  <2>1. index[c] \in Seq(Entry(lastId + 1)) /\ events[c] \in SUBSET Entry(lastId + 1)
    BY <1>1, <1>3, MoreIds DEF Clock
  <2>2. CASE events'[c] = events[c] /\ index'[c] = index[c] /\ timer'[c] = timer[c]
    BY <1>1, <1>2, <1>3, <2>1, <2>2 DEF Clock, TimerTypeOK
  <2>3. ASSUME NEW e \in Entry(lastId + 1), e.id = lastId + 1, Extended(c, e)
        PROVE  /\ Clock(c)' /\ timer'[c] \in Nat
               /\ \/ NextTime(index'[c], mRunning) = NextTime(index[c], mRunning)
                     /\ timer'[c] = timer[c]
                  \/ c \in Created => timer'[c] = NextTime(index'[c], mRunning)
               /\ \A x \in events'[c] : x \in events[c] \/ x.id = lastId + 1
    <3>1. \A x \in events[c] : x.id # e.id
      BY <1>1, <1>3, <2>3 DEF Clock, Entry
    <3>2. /\ index'[c] \in Seq(Entry(lastId + 1)) /\ Agrees(index'[c], events'[c])
          /\ ~ IsNext(index[c], e.time) => index'[c] # <<>> /\ Head(index'[c]) = Head(index[c])
      <4>1. lastId + 1 \in Nat /\ Agrees(index[c], events[c])
        BY <1>1, <1>3 DEF Clock
      <4>2. /\ Insert(index[c], e) \in Seq(Entry(lastId + 1))
            /\ Agrees(Insert(index[c], e), events[c] \cup {e})
            /\ ~ IsNext(index[c], e.time) =>
                 Insert(index[c], e) # <<>> /\ Head(Insert(index[c], e)) = Head(index[c])
        BY <2>1, <3>1, <4>1, InsertAgrees
      <4> QED BY <2>3, <4>2 DEF Extended
    <3>3. Clock(c)'
      BY <1>2, <2>1, <2>3, <3>2 DEF Clock, Extended
    <3>4. CASE IsNext(index[c], e.time)
      <4>1. timer'[c] = Armed(c, index'[c], mRunning)
        BY <2>3, <3>4 DEF Extended
      <4>2. timer'[c] \in Nat
        <5>1. mRunning \in BOOLEAN /\ lastId + 1 \in Nat
          BY <1>1 DEF TimerTypeOK
        <5> QED BY <3>2, <4>1, <5>1, ArmedType
      <4> QED BY <2>3, <3>3, <4>1, <4>2 DEF Armed, Extended
    <3>5. CASE ~ IsNext(index[c], e.time)
      <4>1. timer'[c] = timer[c] /\ index[c] # <<>>
        BY <2>3, <3>5 DEF Extended, IsNext
      <4>2. NextTime(index'[c], mRunning) = NextTime(index[c], mRunning)
        BY <3>2, <3>5, <4>1 DEF NextTime
      <4> QED BY <1>1, <2>3, <3>3, <4>1, <4>2 DEF TimerTypeOK, Extended
    <3> QED BY <3>4, <3>5
  <2> QED BY <1>2, <2>2, <2>3
<1>5. TimerTypeOK'
  <2>1. /\ \A c \in Clocks : events'[c] \in SUBSET Entry(lastId') /\ index'[c] \in Seq(Entry(lastId'))
        /\ timer' \in [Clocks -> Nat]
    BY <1>2, <1>4 DEF Clock
  <2>2. lastId' \in 0 .. MaxEvents
    BY <1>1, <1>2, Constants
  <2>3. batch' \in Seq(1 .. lastId') /\ ran' \in Seq(1 .. lastId') /\ asked' \subseteq 1 .. lastId'
    BY <1>1, <1>2, MoreIds DEF TimerTypeOK
  <2> QED BY <1>1, <1>2, <2>1, <2>2, <2>3 DEF TimerTypeOK, Entry
<1>6. IndexAgrees'
  BY <1>4, <1>5, ClockIs DEF TimerTypeOK, IndexAgrees, Clock, Agrees, NoIdTwice, InOrder
<1>7. RunsOnceOrNever'
  <2>1. RangeOf(ran \o batch) \cup removed \subseteq 1 .. lastId
    BY <1>1, AllIs DEF TimerTypeOK
  <2>2. \A c \in Clocks : \A e \in events'[c] : e.id \notin RangeOf(ran \o batch) \cup removed
    BY <1>1, <1>4, <2>1 DEF RunsOnceOrNever
  <2> QED BY <1>1, <1>2, <2>2 DEF RunsOnceOrNever
<1>8. TimerArmedForNext'
  BY <1>1, <1>2, <1>4, Constants DEF TimerArmedForNext
<1> QED BY <1>5, <1>6, <1>7, <1>8 DEF TimerInv

\* A call of remove() or a collection, on one clock.
Reduced(c, gone) ==
  events'[c] = events[c] \ gone /\ index'[c] = Without(index[c], gone)

LEMMA ReducedKeeps ==
  ASSUME TimerTypeOK, NEW c \in Clocks, Clock(c), NEW gone, Reduced(c, gone), lastId' = lastId
  PROVE  /\ Clock(c)'
         /\ index[c] # <<>> /\ Head(index[c]) \notin gone =>
              NextTime(index'[c], mRunning) = NextTime(index[c], mRunning)
<1>1. lastId \in Nat
  BY Constants DEF TimerTypeOK
<1>2. /\ index'[c] \in Seq(Entry(lastId)) /\ Agrees(index'[c], events[c] \ gone)
      /\ index[c] # <<>> /\ Head(index[c]) \notin gone =>
           index'[c] # <<>> /\ Head(index'[c]) = Head(index[c])
  BY <1>1, WithoutAgrees DEF Clock, Reduced
<1>3. Clock(c)'
  BY <1>2 DEF Clock, Reduced
<1> QED BY <1>2, <1>3 DEF NextTime

LEMMA RemoveKeeps ==
  ASSUME TimerInv, RemoveEvent
  PROVE  TimerInv'
<1>1. TimerTypeOK /\ IndexAgrees /\ RunsOnceOrNever /\ TimerArmedForNext /\ lastId \in Nat
  <2>1. TimerTypeOK /\ IndexAgrees /\ RunsOnceOrNever /\ TimerArmedForNext
    BY DEF TimerInv
  <2>2. lastId \in Nat
    BY <2>1, Constants DEF TimerTypeOK
  <2> QED BY <2>1, <2>2
<1> DEFINE of(id, c) == {e \in events[c] : e.id = id}
<1>2. PICK id \in 1 .. lastId :
        /\ events' = [c \in Clocks |-> events[c] \ of(id, c)]
        /\ index' = [c \in Clocks |-> Without(index[c], of(id, c))]
        /\ timer' = [c \in Clocks |->
                       IF of(id, c) # {} /\ Head(index[c]).id = id
                       THEN Armed(c, index'[c], mRunning) ELSE timer[c]]
        /\ asked' = IF id \in RangeOf(ran) THEN asked ELSE asked \cup {id}
        /\ removed' = IF \E c \in Clocks : of(id, c) # {} THEN removed \cup {id} ELSE removed
  BY DEF RemoveEvent
<1>3. UNCHANGED <<boottime, awake, mRunning, lastId, request, thread, fd, seen, batch, ran>>
  BY DEF RemoveEvent
<1>4. \A c \in Clocks : Clock(c)
  BY <1>1, ClockIs
<1>5. ASSUME NEW c \in Clocks
      PROVE  /\ Clock(c)' /\ timer'[c] \in Nat
             /\ \/ NextTime(index'[c], mRunning) = NextTime(index[c], mRunning)
                   /\ timer'[c] = timer[c]
                \/ c \in Created => timer'[c] = NextTime(index'[c], mRunning)
  <2>1. Reduced(c, of(id, c))
    BY <1>2 DEF Reduced
  <2>2. /\ Clock(c)'
        /\ index[c] # <<>> /\ Head(index[c]) \notin of(id, c) =>
             NextTime(index'[c], mRunning) = NextTime(index[c], mRunning)
    <3> HIDE DEF of
    <3> QED BY <1>1, <1>3, <1>4, <2>1, ReducedKeeps
  <2>3. CASE of(id, c) # {} /\ Head(index[c]).id = id
    <3>1. timer'[c] = Armed(c, index'[c], mRunning)
      BY <1>2, <2>3
    <3>2. timer'[c] \in Nat
      <4>1. mRunning \in BOOLEAN /\ index'[c] \in Seq(Entry(lastId))
        BY <1>1, <1>3, <2>2 DEF TimerTypeOK, Clock
      <4> QED BY <1>1, <3>1, <4>1, ArmedType
    <3> QED BY <2>2, <3>1, <3>2 DEF Armed
  <2>4. CASE ~ (of(id, c) # {} /\ Head(index[c]).id = id)
    <3>1. timer'[c] = timer[c] /\ timer[c] \in Nat
      BY <1>1, <1>2, <2>4 DEF TimerTypeOK
    <3>2. CASE index[c] = <<>>
      <4>1. events[c] = {} /\ of(id, c) = {}
        BY <1>4, <3>2 DEF Clock, Agrees, RangeOf
      <4>2. events'[c] = {} /\ Clock(c)'
        BY <2>1, <2>2, <4>1 DEF Reduced
      <4>3. index'[c] = <<>>
        <5>1. index'[c] \in Seq(Entry(lastId)) /\ RangeOf(index'[c]) = {}
          BY <1>3, <4>2 DEF Clock, Agrees
        <5>2. Len(index'[c]) \in Nat /\ DOMAIN index'[c] = 1 .. Len(index'[c])
          BY <5>1, LenProperties
        <5>3. 1 \notin 1 .. Len(index'[c])
          BY <5>1, <5>2 DEF RangeOf
        <5> QED BY <5>1, <5>2, <5>3, EmptySeq
      <4> QED BY <2>2, <3>1, <3>2, <4>3
    <3>3. CASE index[c] # <<>>
      <4>1. Head(index[c]) \notin of(id, c)
        BY <2>4
      <4> QED BY <2>2, <3>1, <3>3, <4>1
    <3> QED BY <3>2, <3>3
  <2> QED BY <2>3, <2>4
<1>6. RunsOnceOrNever'
  <2>1. removed' \cap RangeOf(ran \o batch) = {}
    BY <1>1, <1>2 DEF RunsOnceOrNever
  <2>2. \A c \in Clocks : \A e \in events'[c] : e \in events[c] /\ e.id # id
    BY <1>2
  <2>3. \A c \in Clocks : \A e \in events'[c] : e.id \notin RangeOf(ran \o batch) \cup removed'
    BY <1>1, <1>2, <2>2 DEF RunsOnceOrNever
  <2> HIDE DEF of
  <2> QED BY <1>1, <1>3, <2>1, <2>3 DEF RunsOnceOrNever
<1>7. TimerTypeOK'
  <2>1. /\ \A c \in Clocks : events'[c] \in SUBSET Entry(lastId) /\ index'[c] \in Seq(Entry(lastId))
        /\ timer' \in [Clocks -> Nat]
    BY <1>2, <1>3, <1>5 DEF Clock
  <2>2. removed' \subseteq asked' /\ asked' \subseteq 1 .. lastId
    <3>1. (\E c \in Clocks : of(id, c) # {}) => id \notin RangeOf(ran)
      <4>1. RangeOf(ran) \subseteq RangeOf(ran \o batch)
        <5>1. ran \in Seq(1 .. lastId) /\ batch \in Seq(1 .. lastId)
          BY <1>1 DEF TimerTypeOK
        <5>2. ASSUME NEW i \in DOMAIN ran
              PROVE  i \in DOMAIN (ran \o batch) /\ (ran \o batch)[i] = ran[i]
          BY <5>1, ConcatProperties, LenProperties
        <5> QED BY <5>2 DEF RangeOf
      <4> QED BY <1>1, <4>1 DEF RunsOnceOrNever
    <3> QED BY <1>1, <1>2, <3>1 DEF TimerTypeOK
  <2>3. events' = [c \in Clocks |-> events'[c]] /\ index' = [c \in Clocks |-> index'[c]]
    BY <1>2
  <2> HIDE DEF of
  <2> QED BY <1>1, <1>3, <2>1, <2>2, <2>3 DEF TimerTypeOK, Entry
<1>8. IndexAgrees'
  BY <1>5, <1>7, ClockIs DEF TimerTypeOK, IndexAgrees, Clock, Agrees, NoIdTwice, InOrder
<1>9. TimerArmedForNext'
  <2> HIDE DEF of
  <2> QED BY <1>1, <1>3, <1>5, Constants DEF TimerArmedForNext
<1> QED BY <1>6, <1>7, <1>8, <1>9 DEF TimerInv

\* A sorted batch is a sequence of the collected events, each once.
LEMMA SortedIs ==
  ASSUME NEW ids \in SUBSET (1 .. lastId), lastId \in Nat, NEW s \in Sorted(ids)
  PROVE  /\ s \in Seq(1 .. lastId) /\ RangeOf(s) \subseteq ids
         /\ Distinct(s)
         /\ s = <<>> <=> ids = {}
<1>1. IsFiniteSet(ids) /\ Cardinality(ids) \in Nat /\ (Cardinality(ids) = 0 <=> ids = {})
  <2>1. IsFiniteSet(1 .. lastId)
    BY FS_Interval
  <2> QED BY <2>1, FS_Subset, FS_CardinalityType, FS_EmptySet
<1>2. /\ s \in [1 .. Cardinality(ids) -> ids] /\ DOMAIN s = 1 .. Cardinality(ids)
      /\ \A i, j \in DOMAIN s : i < j => s[i] # s[j]
  BY DEF Sorted
<1>3. s \in Seq(1 .. lastId) /\ Len(s) = Cardinality(ids)
  <2>1. s \in [1 .. Cardinality(ids) -> 1 .. lastId]
    BY <1>2
  <2> QED BY <1>1, <1>2, <2>1, IsASeq, LenProperties
<1>4. Distinct(s)
  BY <1>1, <1>2 DEF Distinct
<1>5. RangeOf(s) \subseteq ids
  BY <1>2 DEF RangeOf
<1>6. s = <<>> <=> ids = {}
  BY <1>1, <1>3, EmptySeq
<1> QED BY <1>3, <1>4, <1>5, <1>6

\* A batch is appended to what has been run.
LEMMA Joined ==
  ASSUME NEW S, NEW s \in Seq(S), NEW t \in Seq(S),
         Distinct(s),
         Distinct(t),
         RangeOf(s) \cap RangeOf(t) = {}
  PROVE  /\ Distinct(s \o t)
         /\ RangeOf(s \o t) = RangeOf(s) \cup RangeOf(t)
<1>1. /\ Len(s) \in Nat /\ Len(t) \in Nat /\ DOMAIN s = 1 .. Len(s) /\ DOMAIN t = 1 .. Len(t)
      /\ DOMAIN (s \o t) = 1 .. Len(s) + Len(t)
      /\ \A i \in 1 .. Len(s) : (s \o t)[i] = s[i]
      /\ \A i \in Len(s) + 1 .. Len(s) + Len(t) : (s \o t)[i] = t[i - Len(s)]
  BY ConcatProperties, LenProperties
<1>2. \A i \in 1 .. Len(s) + Len(t) :
        \/ i \in 1 .. Len(s) /\ (s \o t)[i] = s[i] /\ s[i] \in RangeOf(s)
        \/ i - Len(s) \in 1 .. Len(t) /\ (s \o t)[i] = t[i - Len(s)]
             /\ t[i - Len(s)] \in RangeOf(t)
  <2> SUFFICES ASSUME NEW i \in 1 .. Len(s) + Len(t)
               PROVE  \/ i \in 1 .. Len(s) /\ (s \o t)[i] = s[i] /\ s[i] \in RangeOf(s)
                      \/ i - Len(s) \in 1 .. Len(t) /\ (s \o t)[i] = t[i - Len(s)]
                           /\ t[i - Len(s)] \in RangeOf(t)
    OBVIOUS
  <2>1. CASE i =< Len(s)
    <3>1. i \in 1 .. Len(s)
      BY <1>1, <2>1
    <3> QED BY <1>1, <3>1 DEF RangeOf
  <2>2. CASE i > Len(s)
    <3>1. i \in Len(s) + 1 .. Len(s) + Len(t) /\ i - Len(s) \in 1 .. Len(t)
      BY <1>1, <2>2
    <3> QED BY <1>1, <3>1 DEF RangeOf
  <2> QED BY <1>1, <2>1, <2>2
<1>3. ASSUME NEW i \in 1 .. Len(s) + Len(t), NEW j \in 1 .. Len(s) + Len(t),
             (s \o t)[i] = (s \o t)[j]
      PROVE  i = j
  <2>1. CASE i \in 1 .. Len(s) /\ j \in 1 .. Len(s)
    BY <1>1, <1>3, <2>1 DEF Distinct
  <2>2. CASE i - Len(s) \in 1 .. Len(t) /\ j - Len(s) \in 1 .. Len(t)
    <3>1. (s \o t)[i] = t[i - Len(s)] /\ (s \o t)[j] = t[j - Len(s)]
      BY <1>1, <1>2, <2>2
    <3>2. i - Len(s) = j - Len(s)
      BY <1>1, <1>3, <2>2, <3>1 DEF Distinct
    <3> QED BY <1>1, <3>2
  <2> QED BY <1>2, <1>3, <2>1, <2>2
<1>4. RangeOf(s \o t) = RangeOf(s) \cup RangeOf(t)
  <2>1. RangeOf(s \o t) \subseteq RangeOf(s) \cup RangeOf(t)
    BY <1>1, <1>2 DEF RangeOf
  <2>2. ASSUME NEW i \in 1 .. Len(s) PROVE s[i] \in RangeOf(s \o t)
    <3>1. i \in 1 .. Len(s) + Len(t)
      BY <1>1
    <3> QED BY <1>1, <3>1 DEF RangeOf
  <2>3. ASSUME NEW i \in 1 .. Len(t) PROVE t[i] \in RangeOf(s \o t)
    <3>1. /\ i + Len(s) \in Len(s) + 1 .. Len(s) + Len(t) /\ (i + Len(s)) - Len(s) = i
          /\ i + Len(s) \in 1 .. Len(s) + Len(t)
      BY <1>1
    <3>2. (s \o t)[i + Len(s)] = t[i]
      BY <1>1, <3>1
    <3> QED BY <1>1, <3>1, <3>2 DEF RangeOf
  <2>4. RangeOf(s) = {s[i] : i \in 1 .. Len(s)} /\ RangeOf(t) = {t[i] : i \in 1 .. Len(t)}
    BY <1>1 DEF RangeOf
  <2> QED BY <2>1, <2>2, <2>3, <2>4
<1> QED BY <1>1, <1>3, <1>4 DEF Distinct

LEMMA CollectKeeps ==
  ASSUME TimerInv, Collect
  PROVE  TimerInv'
<1>1. TimerTypeOK /\ IndexAgrees /\ RunsOnceOrNever /\ TimerArmedForNext /\ lastId \in Nat
  <2>1. TimerTypeOK /\ IndexAgrees /\ RunsOnceOrNever /\ TimerArmedForNext
    BY DEF TimerInv
  <2>2. lastId \in Nat
    BY <2>1, Constants DEF TimerTypeOK
  <2> QED BY <2>1, <2>2
<1>2. /\ UNCHANGED <<boottime, awake, mRunning, lastId, request, fd, seen, ran, asked,
                     removed>>
      /\ thread = "lock" /\ batch = <<>>
  BY <1>1 DEF Collect, TimerTypeOK
<1>3. CASE ~ mRunning
  <2>1. thread' = "done" /\ UNCHANGED <<batch, events, index, timer>>
    BY <1>3 DEF Collect
  <2>2. TimerTypeOK'
    BY <1>1, <1>2, <2>1 DEF TimerTypeOK
  <2>3. IndexAgrees' /\ RunsOnceOrNever' /\ TimerArmedForNext'
    BY <1>1, <1>2, <2>1 DEF IndexAgrees, RunsOnceOrNever, TimerArmedForNext
  <2> QED BY <2>2, <2>3 DEF TimerInv
<1>4. CASE mRunning
  <2> DEFINE gone(c) == {e \in RangeOf(index[c]) : ~ Stays(e, Collected)}
  <2>1. /\ batch' \in Sorted(Collected)
        /\ index' = [c \in Clocks |-> Without(index[c], gone(c))]
        /\ events' = [c \in Clocks |-> {e \in events[c] : Stays(e, Collected)}]
        /\ timer' = [c \in Clocks |-> Armed(c, index'[c], TRUE)]
        /\ thread' = IF Collected = {} THEN "wait" ELSE "run"
    BY <1>4 DEF Collect
  <2>2. \A c \in Clocks : Clock(c)
    BY <1>1, ClockIs
  <2>3. ASSUME NEW c \in Clocks
        PROVE  /\ Clock(c)' /\ timer'[c] \in Nat
               /\ c \in Created => timer'[c] = NextTime(index'[c], mRunning)
    <3>1. Reduced(c, gone(c))
      <4>1. events'[c] = events[c] \ gone(c)
        BY <2>1, <2>2 DEF Clock, Agrees
      <4> HIDE DEF gone
      <4> QED BY <2>1, <4>1 DEF Reduced
    <3>2. Clock(c)'
      <4> HIDE DEF gone
      <4> QED BY <1>1, <1>2, <2>2, <3>1, ReducedKeeps
    <3>3. timer'[c] = Armed(c, index'[c], TRUE)
      BY <2>1
    <3>4. timer'[c] \in Nat
      BY <1>1, <1>2, <3>2, <3>3, ArmedType DEF Clock
    <3> QED BY <1>4, <3>2, <3>3, <3>4 DEF Armed
  <2>4. Collected \in SUBSET (1 .. lastId)
    BY <2>2 DEF Collected, Clock, Entry
  <2>5. /\ batch' \in Seq(1 .. lastId) /\ RangeOf(batch') \subseteq Collected
        /\ Distinct(batch')
        /\ batch' = <<>> <=> Collected = {}
    BY <1>1, <2>1, <2>4, SortedIs
  <2>6. Collected \cap (RangeOf(ran) \cup removed) = {}
    <3>1. ran \o batch = ran
      BY <1>1, <1>2, ConcatEmptySeq DEF TimerTypeOK
    <3> QED BY <1>1, <3>1 DEF RunsOnceOrNever, Collected
  <2>7. TimerTypeOK'
    <3>1. /\ \A c \in Clocks : events'[c] \in SUBSET Entry(lastId) /\ index'[c] \in Seq(Entry(lastId))
          /\ timer' \in [Clocks -> Nat]
      BY <1>2, <2>1, <2>3 DEF Clock
    <3>2. /\ thread' \in {"wait", "read", "lock", "run", "done"}
          /\ thread' = "run" <=> batch' # <<>>
      BY <2>1, <2>5
    <3>3. events' = [c \in Clocks |-> events'[c]] /\ index' = [c \in Clocks |-> index'[c]]
      BY <2>1
    <3> QED BY <1>1, <1>2, <2>5, <3>1, <3>2, <3>3 DEF TimerTypeOK, Entry
  <2>8. IndexAgrees'
    BY <2>3, <2>7, ClockIs DEF TimerTypeOK, IndexAgrees, Clock, Agrees, NoIdTwice, InOrder
  <2>9. RunsOnceOrNever'
    <3>1. ran \o batch = ran /\ ran \in Seq(1 .. lastId)
      BY <1>1, <1>2, ConcatEmptySeq DEF TimerTypeOK
    <3>2. Distinct(ran)
      BY <1>1, <3>1 DEF RunsOnceOrNever, Distinct
    <3>3. /\ Distinct(ran \o batch')
          /\ RangeOf(ran \o batch') = RangeOf(ran) \cup RangeOf(batch')
      <4>1. RangeOf(ran) \cap RangeOf(batch') = {}
        BY <2>5, <2>6
      <4>2. batch' \in Seq(1 .. lastId) /\ Distinct(batch')
        BY <2>5
      <4> QED BY <3>1, <3>2, <4>1, <4>2, Joined
    <3>4. \A c \in Clocks : \A e \in events'[c] : e \in events[c] /\ e.id \notin Collected
      BY <2>1 DEF Stays
    <3> QED BY <1>1, <1>2, <2>5, <2>6, <3>1, <3>3, <3>4 DEF RunsOnceOrNever, Distinct
  <2>10. TimerArmedForNext'
    BY <1>2, <2>3, Constants DEF TimerArmedForNext
  <2> QED BY <2>7, <2>8, <2>9, <2>10 DEF TimerInv
<1> QED BY <1>3, <1>4

LEMMA RunKeepsAll ==
  ASSUME NEW S, NEW s \in Seq(S), NEW t \in Seq(S), t # <<>>
  PROVE  /\ Append(s, Head(t)) \in Seq(S) /\ Tail(t) \in Seq(S)
         /\ Len(t) \in Nat \ {0} /\ (Tail(t) = <<>> <=> Len(t) = 1)
         /\ Append(s, Head(t)) \o Tail(t) = s \o t
<1>1. /\ Head(t) \in S /\ Tail(t) \in Seq(S) /\ Len(Tail(t)) = Len(t) - 1
      /\ \A i \in 1 .. Len(Tail(t)) : Tail(t)[i] = t[i + 1]
  BY HeadTailProperties
<1>2. Len(s) \in Nat /\ Len(t) \in Nat \ {0} /\ Head(t) = t[1]
  BY LenProperties, EmptySeq
<1>3. /\ Append(s, Head(t)) \in Seq(S) /\ Len(Append(s, Head(t))) = Len(s) + 1
      /\ \A i \in 1 .. Len(s) : Append(s, Head(t))[i] = s[i]
      /\ Append(s, Head(t))[Len(s) + 1] = Head(t)
  BY <1>1, AppendProperties
<1> DEFINE u == Append(s, Head(t)) \o Tail(t)
           v == s \o t
<1>4. /\ u \in Seq(S) /\ Len(u) = Len(s) + Len(t)
      /\ \A i \in 1 .. Len(s) + 1 : u[i] = Append(s, Head(t))[i]
      /\ \A i \in Len(s) + 2 .. Len(s) + Len(t) : u[i] = Tail(t)[i - (Len(s) + 1)]
  BY <1>1, <1>2, <1>3, ConcatProperties
<1>5. /\ v \in Seq(S) /\ Len(v) = Len(s) + Len(t)
      /\ \A i \in 1 .. Len(s) : v[i] = s[i]
      /\ \A i \in Len(s) + 1 .. Len(s) + Len(t) : v[i] = t[i - Len(s)]
  BY <1>2, ConcatProperties
<1> HIDE DEF u, v
<1>6. ASSUME NEW i \in 1 .. Len(s) + Len(t)
      PROVE  u[i] = v[i]
  <2>1. CASE i =< Len(s)
    <3>1. i \in 1 .. Len(s) /\ i \in 1 .. Len(s) + 1
      BY <1>2, <2>1
    <3> QED BY <1>3, <1>4, <1>5, <3>1
  <2>2. CASE i = Len(s) + 1
    <3>1. i \in 1 .. Len(s) + 1 /\ i \in Len(s) + 1 .. Len(s) + Len(t) /\ i - Len(s) = 1
      BY <1>2, <2>2
    <3> QED BY <1>2, <1>3, <1>4, <1>5, <2>2, <3>1
  <2>3. CASE i > Len(s) + 1
    <3>1. /\ i \in Len(s) + 2 .. Len(s) + Len(t) /\ i \in Len(s) + 1 .. Len(s) + Len(t)
          /\ i - (Len(s) + 1) \in 1 .. Len(Tail(t)) /\ (i - (Len(s) + 1)) + 1 = i - Len(s)
      BY <1>1, <1>2, <2>3
    <3> QED BY <1>1, <1>4, <1>5, <3>1
  <2> QED BY <1>2, <2>1, <2>2, <2>3
<1>7. u = v
  BY <1>4, <1>5, <1>6, SeqEqual
<1>8. Tail(t) = <<>> <=> Len(t) = 1
  <2>1. Tail(t) = <<>> <=> Len(Tail(t)) = 0
    BY <1>1, EmptySeq
  <2> QED BY <1>1, <1>2, <2>1
<1> QED BY <1>1, <1>2, <1>3, <1>7, <1>8 DEF u, v

LEMMA RunEventKeeps ==
  ASSUME TimerInv, RunEvent
  PROVE  TimerInv'
<1>1. TimerTypeOK /\ IndexAgrees /\ RunsOnceOrNever /\ TimerArmedForNext
  BY DEF TimerInv
<1>2. /\ thread = "run" /\ thread' = (IF Len(batch) = 1 THEN "wait" ELSE "run")
      /\ ran' = Append(ran, Head(batch)) /\ batch' = Tail(batch)
      /\ UNCHANGED <<boottime, awake, mRunning, lastId, request, events, index, timer, fd,
                     seen, asked, removed>>
  BY DEF RunEvent
<1>3. ran \in Seq(1 .. lastId) /\ batch \in Seq(1 .. lastId) /\ batch # <<>>
  BY <1>1, <1>2 DEF TimerTypeOK
<1>4. /\ ran' \in Seq(1 .. lastId) /\ batch' \in Seq(1 .. lastId)
      /\ (batch' = <<>> <=> Len(batch) = 1) /\ ran' \o batch' = ran \o batch
  BY <1>2, <1>3, RunKeepsAll
<1>5. TimerTypeOK'
  BY <1>1, <1>2, <1>4 DEF TimerTypeOK
<1>6. IndexAgrees' /\ TimerArmedForNext'
  BY <1>1, <1>2 DEF IndexAgrees, TimerArmedForNext
<1>7. RunsOnceOrNever'
  <2>1. UNCHANGED <<events, removed>>
    BY <1>2
  <2>2. ran' \o batch' = ran \o batch
    BY <1>4
  <2> QED BY <1>1, <2>1, <2>2 DEF RunsOnceOrNever
<1> QED BY <1>5, <1>6, <1>7 DEF TimerInv

\* The steps that change no container.
LEMMA OthersKeep ==
  ASSUME TimerInv, Destroy \/ EpollReturns \/ Read \/ ClockTick \/ Suspend \/ Resume \/ UNCHANGED timerVars
  PROVE  TimerInv'
<1>1. TimerTypeOK /\ IndexAgrees /\ RunsOnceOrNever /\ TimerArmedForNext
  BY DEF TimerInv
<1>2. UNCHANGED <<lastId, events, index, batch, ran, asked, removed>>
  BY DEF Destroy, EpollReturns, Read, ClockTick, Suspend, Resume, timerVars
<1>3. IndexAgrees' /\ RunsOnceOrNever'
  BY <1>1, <1>2 DEF IndexAgrees, RunsOnceOrNever
<1>4. CASE Destroy
  <2>1. /\ mRunning' = FALSE /\ UNCHANGED <<boottime, awake, thread, fd, seen>>
        /\ timer' = [c \in Clocks |-> Armed(c, index[c], FALSE)]
    BY <1>4 DEF Destroy
  <2>2. \A c \in Clocks : timer'[c] \in Nat /\ (c \in Created => timer'[c] = NextTime(index'[c], mRunning'))
    BY <1>2, <2>1 DEF Armed, NextTime, kMagicUnblockTime
  <2>3. TimerTypeOK'
    BY <1>1, <1>2, <2>1, <2>2 DEF TimerTypeOK
  <2>4. TimerArmedForNext'
    BY <2>2, Constants DEF TimerArmedForNext
  <2> QED BY <1>3, <2>3, <2>4 DEF TimerInv
<1>5. CASE EpollReturns
  <2>1. /\ thread = "wait" /\ thread' = "read" /\ fd' \in Clocks
        /\ UNCHANGED <<boottime, awake, mRunning, timer, seen>>
    BY <1>5 DEF EpollReturns
  <2>2. TimerTypeOK'
    BY <1>1, <1>2, <2>1 DEF TimerTypeOK
  <2>3. TimerArmedForNext'
    BY <1>1, <1>2, <2>1 DEF TimerArmedForNext
  <2> QED BY <1>3, <2>2, <2>3 DEF TimerInv
<1>6. CASE Read
  <2>1. /\ thread = "read" /\ thread' = "lock" /\ timer' = [timer EXCEPT ![fd] = 0] /\ seen' = boottime
        /\ UNCHANGED <<boottime, awake, mRunning, fd>>
    BY <1>6 DEF Read
  <2>2. TimerTypeOK'
    <3>1. seen' \in 0 .. LastTime /\ timer' \in [Clocks -> Nat]
      BY <1>1, <2>1, Constants DEF TimerTypeOK
    <3> QED BY <1>1, <1>2, <2>1, <3>1 DEF TimerTypeOK
  <2>3. TimerArmedForNext'
    BY <1>1, <1>2, <2>1, Constants DEF TimerArmedForNext, TimerTypeOK
  <2> QED BY <1>3, <2>2, <2>3 DEF TimerInv
<1>7. CASE ClockTick \/ Suspend \/ Resume \/ UNCHANGED timerVars
  <2>1. UNCHANGED <<mRunning, timer, thread, fd, seen>> /\ boottime' \in 1 .. LastTime /\ awake' \in BOOLEAN
    <3>1. boottime \in 1 .. LastTime /\ awake \in BOOLEAN
      BY <1>1 DEF TimerTypeOK
    <3>2. CASE ClockTick
      BY <3>1, <3>2, Constants DEF ClockTick
    <3>3. CASE Suspend \/ Resume
      BY <3>1, <3>3 DEF Suspend, Resume
    <3>4. CASE UNCHANGED timerVars
      BY <3>1, <3>4 DEF timerVars
    <3> QED BY <1>7, <3>2, <3>3, <3>4
  <2>2. TimerTypeOK'
    BY <1>1, <1>2, <2>1 DEF TimerTypeOK
  <2>3. TimerArmedForNext'
    BY <1>1, <1>2, <2>1 DEF TimerArmedForNext
  <2> QED BY <1>3, <2>2, <2>3 DEF TimerInv
<1> QED BY <1>4, <1>5, <1>6, <1>7

LEMMA InvInit == TimerInit => TimerInv
<1> SUFFICES ASSUME TimerInit PROVE TimerInv
  OBVIOUS
<1>1. /\ <<>> \in Seq(1 .. 0) /\ <<>> \in Seq(Entry(0)) /\ <<>> \o <<>> = <<>>
      /\ DOMAIN <<>> = {} /\ RangeOf(<<>>) = {}
  BY EmptySeq DEF RangeOf
<1>2. TimerTypeOK
  BY <1>1, Constants DEF TimerInit, TimerTypeOK, Entry, kMagicUnblockTime, Clocks
<1>3. IndexAgrees
  BY <1>1 DEF TimerInit, IndexAgrees
<1>4. RunsOnceOrNever
  BY <1>1 DEF TimerInit, RunsOnceOrNever
<1>5. TimerArmedForNext
  BY Constants DEF TimerInit, TimerArmedForNext, NextTime
<1> QED BY <1>2, <1>3, <1>4, <1>5 DEF TimerInv

LEMMA Invariant == TimerSpec => []TimerInv
<1>1. TimerInit => TimerInv
  BY InvInit
<1>2. TimerInv /\ [TimerNext]_timerVars => TimerInv'
  BY AddKeeps, RemoveKeeps, CollectKeeps, RunEventKeeps, OthersKeep DEF TimerNext, ThreadNext
<1> QED BY <1>1, <1>2, PTL DEF TimerSpec

-----------------------------------------------------------------------------

\* Every variable keeps its type; no timer is ever armed for a time below 0
\* (TimerQueue.cpp:140-160).
THEOREM TypeCorrect == TimerSpec => []TimerTypeOK
<1>1. TimerInv => TimerTypeOK
  BY DEF TimerInv
<1> QED BY <1>1, Invariant, PTL

\* mEvents and mTimeIndex of every clock hold the same events, each once, and in the
\* order of their times (TimerQueue.cpp:391-465).
THEOREM ContainersAgree == TimerSpec => []IndexAgrees
<1>1. TimerInv => IndexAgrees
  BY DEF TimerInv
<1> QED BY <1>1, Invariant, PTL

\* No event runs twice, although it may wait on two clocks, and none runs for which
\* remove() has returned true (TimerQueue.cpp:286-298, 347-355).
THEOREM OnceOrNever == TimerSpec => []RunsOnceOrNever
<1>1. TimerInv => RunsOnceOrNever
  BY DEF TimerInv
<1> QED BY <1>1, Invariant, PTL

\* Outside of a collection every timer is armed for the earliest event of its clock
\* (TimerQueue.cpp:391-400, 406-432, 434-460).
THEOREM ArmedForNext == TimerSpec => []TimerArmedForNext
<1>1. TimerInv => TimerArmedForNext
  BY DEF TimerInv
<1> QED BY <1>1, Invariant, PTL
=============================================================================
