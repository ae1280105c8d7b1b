-------------------------- MODULE AudioMutexProofs --------------------------
(* What the threads note of their mutexes is right, the order check excludes   *)
(* deadlocks by mutexes, and deadlock_detection() finds the deadlock of the    *)
(* thread it is called for: for every set of mutexes and of threads, every     *)
(* order and every depth of the stacks.                                        *)
EXTENDS AudioMutex, TLAPS, SequenceTheorems, FiniteSetTheorems, WellFoundedInduction

-----------------------------------------------------------------------------
(* The stack of a thread *)

Stack == [items : Seq(Mutexes), true_top : Nat]

\* A stack notes mutexes of N, none twice, and has counted all of them.
StackOK(s, N) ==
  /\ Len(s.items) =< Depth
  /\ \A i, j \in DOMAIN s.items : s.items[i] = s.items[j] => i = j
  /\ ToSet(s.items) \subseteq N
  /\ IsFiniteSet(N) /\ s.true_top = Cardinality(N)

Ascending(s) == \A i, j \in DOMAIN s.items : i < j => Order[s.items[i]] < Order[s.items[j]]
Below(s, m)  == \A i \in DOMAIN s.items : Order[s.items[i]] < Order[m]

LEMMA StackType ==
  ASSUME NEW s \in Stack
  PROVE  /\ s.items \in Seq(Mutexes) /\ s.true_top \in Nat /\ Len(s.items) \in Nat
         /\ DOMAIN s.items = 1 .. Len(s.items)
         /\ \A i \in 1 .. Len(s.items) : s.items[i] \in Mutexes
         /\ \A m : m \in ToSet(s.items) <=> \E i \in 1 .. Len(s.items) : s.items[i] = m
<1>1. s.items \in Seq(Mutexes) /\ s.true_top \in Nat
  BY DEF Stack
<1>2. Len(s.items) \in Nat /\ DOMAIN s.items = 1 .. Len(s.items)
  BY <1>1, LenProperties
<1>3. \A i \in 1 .. Len(s.items) : s.items[i] \in Mutexes
  BY <1>1, ElementOfSeq
<1> QED BY <1>1, <1>2, <1>3 DEF ToSet

LEMMA AppendedItem ==
  ASSUME NEW q \in Seq(Mutexes), NEW m \in Mutexes
  PROVE  /\ Append(q, m) \in Seq(Mutexes) /\ Len(Append(q, m)) = Len(q) + 1
         /\ \A i \in 1 .. Len(q) : Append(q, m)[i] = q[i]
         /\ Append(q, m)[Len(q) + 1] = m
BY AppendProperties

\* push()
LEMMA PushedOK ==
  ASSUME AudioMutexAssumption, NEW s \in Stack, NEW m \in Mutexes, NEW N, m \notin N, StackOK(s, N)
  PROVE  /\ Pushed(s, m) \in Stack /\ StackOK(Pushed(s, m), N \cup {m})
         /\ Ascending(s) /\ Below(s, m) => Ascending(Pushed(s, m))
<1> DEFINE q == Pushed(s, m).items
           n == IF Len(s.items) < Depth THEN Len(s.items) ELSE Depth - 1
<1>1. /\ Depth \in Nat \ {0} /\ Len(s.items) \in Nat /\ Len(s.items) =< Depth
      /\ s.items \in Seq(Mutexes) /\ DOMAIN s.items = 1 .. Len(s.items)
  BY StackType DEF AudioMutexAssumption, StackOK
<1>2. /\ n \in Nat /\ n =< Len(s.items) /\ n + 1 =< Depth
      /\ q \in Seq(Mutexes) /\ Len(q) = n + 1
      /\ \A i \in 1 .. n : q[i] = s.items[i]
      /\ q[n + 1] = m
  <2>1. CASE Len(s.items) < Depth
    <3>1. q = Append(s.items, m) /\ n = Len(s.items)
      BY <2>1 DEF Pushed
    <3> HIDE DEF q, n
    <3> QED BY <1>1, <2>1, <3>1, AppendedItem
  <2>2. CASE ~ (Len(s.items) < Depth)
    <3>1. q = [s.items EXCEPT ![Depth] = m] /\ n = Depth - 1 /\ Depth \in 1 .. Len(s.items)
      BY <1>1, <2>2 DEF Pushed
    <3> HIDE DEF q, n
    <3>2. /\ q \in Seq(Mutexes) /\ Len(q) = Len(s.items)
          /\ \A j \in 1 .. Len(s.items) : q[j] = IF j = Depth THEN m ELSE s.items[j]
      BY <1>1, <3>1, ExceptSeq
    <3>3. Len(s.items) = Depth /\ n + 1 = Depth /\ n \in Nat
      BY <1>1, <2>2, <3>1
    <3>4. \A i \in 1 .. n : i \in 1 .. Len(s.items) /\ i # Depth
      BY <3>3
    <3> QED BY <3>1, <3>2, <3>3, <3>4
  <2> QED BY <2>1, <2>2
<1>3. /\ Pushed(s, m) \in Stack /\ Pushed(s, m).true_top = s.true_top + 1
  <2>1. s.true_top + 1 \in Nat
    BY StackType
  <2> QED BY <1>2, <2>1 DEF Pushed, Stack
<1>4. /\ DOMAIN q = 1 .. n + 1
      /\ \A i \in 1 .. n + 1 : i \in 1 .. n \/ i = n + 1
      /\ \A i \in 1 .. n : i \in DOMAIN s.items /\ i # n + 1
  <2>1. DOMAIN q = 1 .. n + 1
    BY <1>2, LenProperties
  <2> HIDE DEF q, n
  <2> QED BY <1>1, <1>2, <2>1
<1>5. \A i \in 1 .. n : s.items[i] \in N /\ s.items[i] # m
  BY <1>1, <1>4, StackType DEF StackOK
<1>6. IsFiniteSet(N \cup {m}) /\ Cardinality(N \cup {m}) = Cardinality(N) + 1
  BY FS_AddElement DEF StackOK
<1>7. s.true_top = Cardinality(N)
  BY DEF StackOK
<1> HIDE DEF n
<1>8. StackOK(Pushed(s, m), N \cup {m})
  <2>1. \A i, j \in DOMAIN q : q[i] = q[j] => i = j
    <3> HIDE DEF q
    <3>1. \A i, j \in DOMAIN s.items : s.items[i] = s.items[j] => i = j
      BY DEF StackOK
    <3> TAKE i, j \in DOMAIN q
    <3> HAVE q[i] = q[j]
    <3> QED BY <1>2, <1>4, <1>5, <3>1
  <2>2. \A x \in ToSet(q) : x \in N \cup {m}
    <3>1. \A x \in ToSet(q) : \E i \in DOMAIN q : q[i] = x
      BY DEF ToSet
    <3> HIDE DEF q
    <3> QED BY <1>2, <1>4, <1>5, <3>1
  <2> QED BY <1>2, <1>3, <1>6, <1>7, <2>1, <2>2 DEF StackOK
<1>9. ASSUME Ascending(s), Below(s, m) PROVE Ascending(Pushed(s, m))
  <2> SUFFICES ASSUME NEW i \in DOMAIN q, NEW j \in DOMAIN q, i < j
               PROVE  Order[q[i]] < Order[q[j]]
    BY DEF Ascending
  <2> HIDE DEF q
  <2>1. i \in 1 .. n /\ i \in DOMAIN s.items /\ q[i] = s.items[i]
    BY <1>2, <1>4
  <2>2. CASE j = n + 1
    BY <1>2, <1>9, <2>1, <2>2 DEF Below
  <2>3. CASE j \in 1 .. n
    BY <1>2, <1>4, <1>9, <2>1, <2>3 DEF Ascending
  <2> QED BY <1>4, <2>2, <2>3
<1> QED BY <1>3, <1>8, <1>9

LEMMA ItemsInto ==
  ASSUME NEW q \in Seq(Mutexes), NEW T, \A i \in 1 .. Len(q) : q[i] \in T
  PROVE  q \in [1 .. Len(q) -> T]
<1>1. q \in [1 .. Len(q) -> Mutexes]
  BY LenProperties
<1> DEFINE n == Len(q)
<1> HIDE DEF n
<1>2. q \in [1 .. n -> Mutexes] /\ \A i \in 1 .. n : q[i] \in T
  BY <1>1 DEF n
<1>3. q \in [1 .. n -> T]
  BY <1>2
<1> QED BY <1>3 DEF n

LEMMA PositionIs ==
  ASSUME NEW s \in Stack, NEW N, StackOK(s, N), NEW m
  PROVE  \/ PlaceOf(s, m) = 0 /\ m \notin ToSet(s.items)
         \/ PlaceOf(s, m) \in 1 .. Len(s.items) /\ s.items[PlaceOf(s, m)] = m
<1> DEFINE I == {i \in 1 .. Len(s.items) : s.items[i] = m}
<1>1. PlaceOf(s, m) = IF I # {} THEN Max(I) ELSE 0
  BY DEF PlaceOf, SelectLastInSubSeq
<1>2. CASE I = {}
  <2>1. m \notin ToSet(s.items)
    BY <1>2, StackType
  <2> QED BY <1>1, <1>2, <2>1
<1>3. ASSUME NEW i \in I PROVE PlaceOf(s, m) = i
  <2>1. \A j \in I : j = i
    BY StackType DEF StackOK
  <2>2. I = {i} /\ i \in Nat
    <3>1. i \in Nat
      BY StackType
    <3> HIDE DEF I
    <3> QED BY <2>1, <3>1
  <2> HIDE DEF I
  <2>3. Max({i}) = i
    BY <2>2 DEF Max
  <2> QED BY <1>1, <2>2, <2>3
<1> QED BY <1>2, <1>3

LEMMA RemovedAt ==
  ASSUME NEW S, NEW s \in Seq(S), NEW i \in 1 .. Len(s)
  PROVE  /\ RemoveAt(s, i) \in Seq(S) /\ Len(RemoveAt(s, i)) = Len(s) - 1
         /\ \A j \in 1 .. Len(s) - 1 : RemoveAt(s, i)[j] = s[IF j < i THEN j ELSE j + 1]
<1>1. Len(s) \in Nat /\ \A j \in 1 .. Len(s) : s[j] \in S
  BY LenProperties, ElementOfSeq
<1> DEFINE front == SubSeq(s, 1, i - 1)
           back  == SubSeq(s, i + 1, Len(s))
<1>2. /\ front \in Seq(S) /\ Len(front) = i - 1
      /\ \A j \in 1 .. i - 1 : front[j] = s[j]
  <2>1. \A j \in 1 .. i - 1 : s[j] \in S
    BY <1>1
  <2>2. /\ front \in Seq(S) /\ Len(front) = IF 1 =< i - 1 THEN (i - 1) - 1 + 1 ELSE 0
        /\ \A j \in 1 .. (i - 1) - 1 + 1 : front[j] = s[1 + j - 1]
    BY <2>1, SubSeqProperties
  <2> HIDE DEF front
  <2> QED BY <1>1, <2>2
<1>3. /\ back \in Seq(S) /\ Len(back) = Len(s) - i
      /\ \A j \in 1 .. Len(s) - i : back[j] = s[i + j]
  <2>1. \A j \in i + 1 .. Len(s) : s[j] \in S
    BY <1>1
  <2>2. /\ back \in Seq(S) /\ Len(back) = IF i + 1 =< Len(s) THEN Len(s) - (i + 1) + 1 ELSE 0
        /\ \A j \in 1 .. Len(s) - (i + 1) + 1 : back[j] = s[(i + 1) + j - 1]
    BY <1>1, <2>1, SubSeqProperties
  <2> HIDE DEF back
  <2> QED BY <1>1, <2>2
<1> HIDE DEF front, back
<1>4. /\ front \o back \in Seq(S) /\ Len(front \o back) = Len(front) + Len(back)
      /\ \A j \in 1 .. Len(front) + Len(back) :
           (front \o back)[j] = IF j =< Len(front) THEN front[j] ELSE back[j - Len(front)]
  BY <1>2, <1>3, ConcatProperties
<1>5. RemoveAt(s, i) = front \o back
  BY DEF RemoveAt, front, back
<1>6. ASSUME NEW j \in 1 .. Len(s) - 1
      PROVE  (front \o back)[j] = s[IF j < i THEN j ELSE j + 1]
  <2>1. CASE j < i
    BY <1>1, <1>2, <1>3, <1>4, <2>1
  <2>2. CASE ~ (j < i)
    <3>1. /\ j \in 1 .. Len(front) + Len(back) /\ ~ (j =< Len(front)) /\ j - Len(front) = j - (i - 1)
          /\ j - (i - 1) \in 1 .. Len(s) - i /\ i + (j - (i - 1)) = j + 1
      BY <1>1, <1>2, <1>3, <2>2
    <3> QED BY <1>3, <1>4, <2>2, <3>1
  <2> QED BY <2>1, <2>2
<1>7. Len(front \o back) = Len(s) - 1
  BY <1>1, <1>2, <1>3, <1>4
<1> QED BY <1>4, <1>5, <1>6, <1>7

\* remove() of a mutex that is owned: it takes it from the notes, whether or not it was
\* among the items, and returns true.
LEMMA RemovedOK ==
  ASSUME AudioMutexAssumption, NEW s \in Stack, NEW N, StackOK(s, N), NEW m \in N
  PROVE  /\ Removable(s, m)
         /\ Removed(s, m) \in Stack /\ StackOK(Removed(s, m), N \ {m})
         /\ Ascending(s) => Ascending(Removed(s, m))
<1>1. /\ s.items \in Seq(Mutexes) /\ Len(s.items) \in Nat /\ s.true_top \in Nat
      /\ DOMAIN s.items = 1 .. Len(s.items) /\ Len(s.items) =< Depth
      /\ s.true_top = Cardinality(N) /\ ToSet(s.items) \subseteq N /\ IsFiniteSet(N)
      /\ \A i, j \in DOMAIN s.items : s.items[i] = s.items[j] => i = j
  BY StackType DEF StackOK
<1>2. /\ IsFiniteSet(N \ {m}) /\ Cardinality(N \ {m}) = Cardinality(N) - 1
      /\ Cardinality(N) > 0 /\ s.true_top - 1 \in Nat
  <2>1. IsFiniteSet(N \ {m}) /\ Cardinality(N \ {m}) = Cardinality(N) - 1
    BY <1>1, FS_RemoveElement
  <2>2. Cardinality(N) # 0
    BY <1>1, FS_EmptySet
  <2> QED BY <1>1, <2>1, <2>2
<1>3. CASE PlaceOf(s, m) = 0 /\ m \notin ToSet(s.items)
  <2>1. s.true_top > Len(s.items)
    <3>1. s.items \in Injection(1 .. Len(s.items), N \ {m})
      <4>1. s.items \in [1 .. Len(s.items) -> N \ {m}]
        <5>1. \A i \in 1 .. Len(s.items) : s.items[i] \in N \ {m}
          BY <1>1, <1>3, StackType
        <5> QED BY <1>1, <5>1, ItemsInto
      <4> QED BY <1>1, <4>1 DEF Injection, IsInjective
    <3>2. Cardinality(1 .. Len(s.items)) =< Cardinality(N \ {m})
      BY <1>2, <3>1, FS_Injection
    <3>3. Cardinality(1 .. Len(s.items)) = Len(s.items)
      BY <1>1, FS_Interval
    <3> QED BY <1>1, <1>2, <3>2, <3>3
  <2>2. Removed(s, m) = [s EXCEPT !.true_top = s.true_top - 1]
    BY <1>1, <1>2, <1>3, <2>1 DEF Removed
  <2>3. /\ Removed(s, m) \in Stack /\ Removed(s, m).items = s.items
        /\ Removed(s, m).true_top = s.true_top - 1
    BY <1>2, <2>2 DEF Stack
  <2>4. ToSet(s.items) \subseteq N \ {m}
    BY <1>1, <1>3
  <2> QED BY <1>1, <1>2, <2>1, <2>3, <2>4 DEF StackOK, Removable, Ascending
<1>4. CASE PlaceOf(s, m) \in 1 .. Len(s.items) /\ s.items[PlaceOf(s, m)] = m
  <2> DEFINE p == PlaceOf(s, m)
             q == Removed(s, m).items
             b(j) == IF j < p THEN j ELSE j + 1
  <2>0. p \in 1 .. Len(s.items) /\ s.items[p] = m /\ p # 0 /\ p \in Nat
    BY <1>1, <1>4
  <2>1. q = RemoveAt(s.items, p) /\ Removed(s, m).true_top = s.true_top - 1
    BY <1>1, <1>2, <2>0 DEF Removed
  <2>2. Removed(s, m) = [items |-> q, true_top |-> s.true_top - 1]
    BY <1>1, <1>2, <2>0 DEF Removed
  <2> HIDE DEF p, q
  <2>3. /\ q \in Seq(Mutexes) /\ Len(q) = Len(s.items) - 1
        /\ \A j \in 1 .. Len(s.items) - 1 : q[j] = s.items[b(j)]
    <3> PICK u : u = s.items
      OBVIOUS
    <3>1. u \in Seq(Mutexes) /\ p \in 1 .. Len(u) /\ q = RemoveAt(u, p)
      BY <1>1, <2>0, <2>1
    <3>2. /\ q \in Seq(Mutexes) /\ Len(q) = Len(u) - 1
          /\ \A j \in 1 .. Len(u) - 1 : q[j] = u[IF j < p THEN j ELSE j + 1]
      BY <3>1, RemovedAt
    <3> QED BY <3>2
  <2>4. Removed(s, m) \in Stack /\ DOMAIN q = 1 .. Len(s.items) - 1
    BY <1>2, <2>2, <2>3, LenProperties DEF Stack
  <2>5. /\ \A j \in DOMAIN q : b(j) \in DOMAIN s.items /\ b(j) # p /\ q[j] = s.items[b(j)]
        /\ \A i, j \in DOMAIN q : i < j => b(i) < b(j)
        /\ \A i, j \in DOMAIN q : b(i) = b(j) => i = j
    BY <1>1, <2>0, <2>3, <2>4
  <2>6. \A j \in DOMAIN q : q[j] \in N \ {m}
    <3> SUFFICES ASSUME NEW j \in DOMAIN q PROVE q[j] \in N \ {m}
      OBVIOUS
    <3>1. b(j) \in DOMAIN s.items /\ b(j) # p /\ q[j] = s.items[b(j)] /\ p \in DOMAIN s.items
      BY <1>1, <2>0, <2>5
    <3> HIDE DEF b
    <3>2. s.items[b(j)] # m
      BY <1>1, <2>0, <3>1
    <3>3. s.items[b(j)] \in N
      BY <1>1, <3>1, StackType
    <3> QED BY <3>1, <3>2, <3>3
  <2>7. ToSet(q) \subseteq N \ {m}
    BY <2>6 DEF ToSet
  <2> HIDE DEF b
  <2>8. \A i, j \in DOMAIN q : q[i] = q[j] => i = j
    BY <1>1, <2>5
  <2>9. Len(q) =< Depth
    <3>1. Depth \in Nat
      BY DEF AudioMutexAssumption
    <3> QED BY <1>1, <2>3, <3>1
  <2>10. StackOK(Removed(s, m), N \ {m})
    BY <1>1, <1>2, <2>2, <2>7, <2>8, <2>9 DEF StackOK
  <2>11. Ascending(s) => Ascending(Removed(s, m))
    <3> SUFFICES ASSUME Ascending(s), NEW i \in DOMAIN q, NEW j \in DOMAIN q, i < j
                 PROVE  Order[q[i]] < Order[q[j]]
      BY <2>2 DEF Ascending
    <3>1. b(i) \in DOMAIN s.items /\ b(j) \in DOMAIN s.items /\ b(i) < b(j)
      BY <2>5
    <3>2. Order[s.items[b(i)]] < Order[s.items[b(j)]]
      BY <3>1 DEF Ascending
    <3> QED BY <2>5, <3>2
  <2>12. Removable(s, m)
    BY <1>1, <1>2, <2>0 DEF Removable, p
  <2> QED BY <2>4, <2>10, <2>11, <2>12
<1> QED BY <1>3, <1>4, PositionIs

\* A complete stack notes every mutex.
LEMMA CompleteStack ==
  ASSUME NEW s \in Stack, NEW N, StackOK(s, N), Complete(s)
  PROVE  ToSet(s.items) = N
<1>1. /\ Len(s.items) \in Nat /\ DOMAIN s.items = 1 .. Len(s.items)
      /\ Len(s.items) = Cardinality(N) /\ ToSet(s.items) \subseteq N /\ IsFiniteSet(N)
      /\ \A i, j \in DOMAIN s.items : s.items[i] = s.items[j] => i = j
  BY StackType DEF StackOK, Complete
<1>2. s.items \in Injection(1 .. Len(s.items), N)
  <2>1. s.items \in [1 .. Len(s.items) -> N]
    <3>1. \A i \in 1 .. Len(s.items) : s.items[i] \in N
      BY <1>1, StackType
    <3> QED BY <3>1, ItemsInto, StackType
  <2> QED BY <1>1, <2>1 DEF Injection, IsInjective
<1>3. Cardinality(1 .. Len(s.items)) = Len(s.items)
  BY <1>1, FS_Interval
<1>4. s.items \in Surjection(1 .. Len(s.items), N)
  BY <1>1, <1>2, <1>3, FS_Injection
<1>5. \A m \in N : \E i \in 1 .. Len(s.items) : s.items[i] = m
  BY <1>4 DEF Surjection
<1> QED BY <1>1, <1>5, StackType

\* check_held() of an ascending stack
LEMMA MayLockBelow ==
  ASSUME NEW s \in Stack, NEW m \in Mutexes, Order \in [Mutexes -> Nat],
         \A x, y \in Mutexes : Order[x] = Order[y] => x = y,
         Ascending(s), MayLock(s, m)
  PROVE  Below(s, m)
<1> DEFINE n == Len(s.items)
<1>1. n \in Nat /\ DOMAIN s.items = 1 .. n /\ \A i \in 1 .. n : s.items[i] \in Mutexes
  BY StackType
<1> SUFFICES ASSUME NEW i \in 1 .. n PROVE Order[s.items[i]] < Order[m]
  BY <1>1 DEF Below
<1> HIDE DEF n
<1>2. n \in 1 .. n /\ n + 1 .. n = {} /\ (i < n \/ i = n)
  BY <1>1
<1>3. Order[s.items[n]] =< Order[m] /\ s.items[n] # m
  <2>1. (\A j \in n + 1 .. n : Order[s.items[j]] = Order[m] /\ s.items[j] # m)
    BY <1>2
  <2>2. n + 1 .. Len(s.items) = n + 1 .. n
    BY DEF n
  <2> QED BY <1>1, <1>2, <2>1, <2>2 DEF MayLock
<1>4. Order[s.items[n]] \in Nat /\ Order[s.items[i]] \in Nat /\ Order[m] \in Nat
  BY <1>1, <1>2
<1>5. Order[s.items[n]] < Order[m]
  BY <1>1, <1>2, <1>3, <1>4
<1>6. i < n => Order[s.items[i]] < Order[s.items[n]]
  BY <1>1, <1>2 DEF Ascending
<1> QED BY <1>2, <1>4, <1>5, <1>6

-----------------------------------------------------------------------------
(* The chain that LeadsIntoCycle follows *)

LEMMA Least ==
  ASSUME NEW N, N \subseteq Nat, N # {}
  PROVE  \E m \in N : \A k \in N : m =< k
<1>1. PICK m \in N : \A k \in N : <<k, m>> \notin OpToRel(<, Nat)
  BY WFMin, NatLessThanWellFounded, Zenon
<1>2. \A k \in N : ~ (k < m)
  BY <1>1, Zenon DEF OpToRel
<1> QED BY <1>2

LEMMA UpTo ==
  ASSUME NEW n \in Nat, NEW N, 0 \in N, \A k \in 0 .. n - 1 : k \in N => k + 1 \in N
  PROVE  \A k \in 0 .. n : k \in N
<1> DEFINE M == {k \in 0 .. n : k \notin N}
<1>1. ASSUME M # {} PROVE FALSE
  <2>1. PICK m \in M : \A k \in M : m =< k
    <3>1. M \subseteq Nat
      OBVIOUS
    <3> HIDE DEF M
    <3> QED BY <1>1, <3>1, Least
  <2>2. m \in 1 .. n /\ m - 1 \in 0 .. n - 1 /\ (m - 1) + 1 = m
    OBVIOUS
  <2>3. m - 1 \in N
    <3>1. m - 1 \notin M
      BY <2>1, <2>2
    <3> QED BY <2>2, <3>1
  <2> QED BY <2>2, <2>3
<1> QED BY <1>1

Following(r, t, A) == [n \in 0 .. Cardinality(Threads) |->
  IF n = 0 THEN t ELSE IF r[n - 1] = NoThread THEN NoThread ELSE A[r[n - 1]]]

\* The recursive function is there.
LEMMA ChainExists ==
  ASSUME NEW t, NEW A, Cardinality(Threads) \in Nat
  PROVE  \E r : r = Following(r, t, A)
<1> DEFINE N == Cardinality(Threads)
           Step(r, n) == IF n = 0 THEN t ELSE IF r[n - 1] = NoThread THEN NoThread
                                         ELSE A[r[n - 1]]
           Upto == {m \in Nat : \E r : r = [n \in 0 .. m |-> Step(r, n)]}
<1>1. N \in Nat
  OBVIOUS
<1>2. 0 \in Upto
  <2> DEFINE r == [n \in 0 .. 0 |-> t]
  <2>1. r = [n \in 0 .. 0 |-> Step(r, n)]
    OBVIOUS
  <2> HIDE DEF r
  <2> QED BY <2>1
<1>3. ASSUME NEW m \in Nat, m \in Upto
      PROVE  m + 1 \in Upto
  <2>1. PICK r : r = [n \in 0 .. m |-> Step(r, n)]
    BY <1>3
  <2>2. \A k \in 0 .. m : r[k] = Step(r, k)
    <3> HIDE DEF Step
    <3> QED BY <2>1
  <2> DEFINE q == [n \in 0 .. m + 1 |-> IF n =< m THEN r[n] ELSE Step(r, n)]
  <2>3. \A n \in 0 .. m + 1 : q[n] = Step(q, n)
    <3> SUFFICES ASSUME NEW n \in 0 .. m + 1 PROVE q[n] = Step(q, n)
      OBVIOUS
    <3>1. n =< m => r[n] = Step(r, n)
      <4> HIDE DEF Step
      <4> QED BY <2>2
    <3>2. q[n] = Step(r, n)
      <4> HIDE DEF Step
      <4> QED BY <3>1
    <3>3. n # 0 => q[n - 1] = r[n - 1]
      <4>1. n # 0 => n - 1 \in 0 .. m + 1 /\ n - 1 =< m
        OBVIOUS
      <4> HIDE DEF Step
      <4> QED BY <4>1
    <3>4. Step(q, n) = Step(r, n)
      <4> HIDE DEF q
      <4> QED BY <3>3
    <3> QED BY <3>2, <3>4
  <2>4. q = [n \in 0 .. m + 1 |-> q[n]]
    OBVIOUS
  <2> HIDE DEF q, Step
  <2>5. q = [n \in 0 .. m + 1 |-> Step(q, n)]
    BY <2>3, <2>4
  <2> QED BY <2>5
<1> HIDE DEF Upto, N
<1>4. N \in Upto
  <2>1. \A k \in 0 .. N - 1 : k \in Upto => k + 1 \in Upto
    BY <1>1, <1>3
  <2>2. \A k \in 0 .. N : k \in Upto
    BY <1>1, <1>2, <2>1, UpTo, Zenon
  <2> QED BY <1>1, <2>2
<1>5. \E r : r = [n \in 0 .. N |-> Step(r, n)]
  BY <1>4 DEF Upto
<1> QED BY <1>5 DEF Following, N

\* Each link of a chain is a thread or the end.
Links(r, t, A) ==
  /\ r[0] = t
  /\ \A n \in 0 .. Cardinality(Threads) - 1 :
       r[n + 1] = IF r[n] = NoThread THEN NoThread ELSE A[r[n]]
  /\ \A n \in 0 .. Cardinality(Threads) : r[n] \in Threads \cup {NoThread}

LEMMA ChainLinks ==
  ASSUME NEW t \in Threads, NEW A \in [Threads -> Threads \cup {NoThread}],
         Cardinality(Threads) \in Nat, NEW r, r = Following(r, t, A)
  PROVE  Links(r, t, A)
<1> PICK N : N = Cardinality(Threads)
  OBVIOUS
<1>1. \A n \in 0 .. N :
        r[n] = IF n = 0 THEN t ELSE IF r[n - 1] = NoThread THEN NoThread ELSE A[r[n - 1]]
  BY DEF Following
<1>2. \A n \in 0 .. N - 1 : r[n + 1] = IF r[n] = NoThread THEN NoThread ELSE A[r[n]]
  <2> TAKE n \in 0 .. N - 1
  <2>1. n + 1 \in 0 .. N /\ n + 1 # 0 /\ (n + 1) - 1 = n
    OBVIOUS
  <2> QED BY <1>1, <2>1
<1>3. r[0] = t
  BY <1>1
<1> DEFINE G == {n \in 0 .. N : r[n] \in Threads \cup {NoThread}}
<1>4. 0 \in G
  BY <1>3
<1>5. \A k \in 0 .. N - 1 : k \in G => k + 1 \in G
  BY <1>2
<1> HIDE DEF G
<1>6. \A k \in 0 .. N : k \in G
  BY <1>4, <1>5, UpTo, Zenon
<1> QED BY <1>2, <1>3, <1>6 DEF Links, G

\* A chain without an end comes back to one of its threads.
LEMMA EndlessChain ==
  ASSUME IsFiniteSet(Threads), NoThread \notin Threads,
         NEW t \in Threads, NEW A \in [Threads -> Threads \cup {NoThread}],
         NEW r, Links(r, t, A), r[Cardinality(Threads)] # NoThread
  PROVE  \E i, j \in 0 .. Cardinality(Threads) :
           /\ i < j /\ r[i] = r[j]
           /\ \A n \in 0 .. j - 1 : r[n] \in Threads /\ A[r[n]] = r[n + 1] /\ r[n + 1] \in Threads
<1> PICK N : N = Cardinality(Threads)
  OBVIOUS
<1>1. N \in Nat
  BY FS_CardinalityType
<1>2. /\ \A n \in 0 .. N - 1 : r[n + 1] = IF r[n] = NoThread THEN NoThread ELSE A[r[n]]
      /\ \A n \in 0 .. N : r[n] \in Threads \cup {NoThread}
      /\ r[N] # NoThread
  BY DEF Links
<1>3. \A n \in 0 .. N : r[n] # NoThread
  <2> SUFFICES ASSUME NEW n \in 0 .. N, r[n] = NoThread PROVE FALSE
    OBVIOUS
  <2> DEFINE G == {k \in 0 .. N - n : r[n + k] = NoThread}
  <2>1. 0 \in G /\ N - n \in Nat /\ n + (N - n) = N
    BY <1>1
  <2>2. \A k \in 0 .. N - n - 1 : k \in G => k + 1 \in G
    <3> TAKE k \in 0 .. N - n - 1
    <3>1. n + k \in 0 .. N - 1 /\ n + (k + 1) = (n + k) + 1
      BY <1>1
    <3> QED BY <1>1, <1>2, <3>1
  <2> HIDE DEF G
  <2>3. \A k \in 0 .. N - n : k \in G
    BY <2>1, <2>2, UpTo, Zenon
  <2>4. N - n \in G
    BY <2>1, <2>3
  <2> QED BY <1>2, <2>1, <2>4 DEF G
<1>4. \E i, j \in 0 .. N : i # j /\ r[i] = r[j]
  <2> DEFINE f == [n \in 0 .. N |-> r[n]]
  <2>1. f \in [0 .. N -> Threads]
    BY <1>2, <1>3
  <2>2. IsFiniteSet(0 .. N) /\ Cardinality(0 .. N) = N + 1
    BY <1>1, FS_Interval
  <2>3. Cardinality(Threads) < Cardinality(0 .. N)
    BY <1>1, <2>2
  <2> PICK D : D = 0 .. N
    OBVIOUS
  <2> HIDE DEF f
  <2>4. f \in [D -> Threads] /\ IsFiniteSet(D) /\ Cardinality(Threads) < Cardinality(D)
    BY <2>1, <2>2, <2>3
  <2>5. \E x, y \in D : x # y /\ f[x] = f[y]
    BY ONLY <2>4, FS_PigeonHole, IsFiniteSet(Threads), Zenon
  <2> QED BY <2>5 DEF f
<1>5. PICK i \in 0 .. N, j \in 0 .. N : i < j /\ r[i] = r[j]
  BY <1>1, <1>4
<1>6. \A n \in 0 .. j - 1 : r[n] \in Threads /\ A[r[n]] = r[n + 1] /\ r[n + 1] \in Threads
  <2> TAKE n \in 0 .. j - 1
  <2>1. n \in 0 .. N /\ n \in 0 .. N - 1 /\ n + 1 \in 0 .. N
    BY <1>1
  <2> QED BY <1>2, <1>3, <2>1
<1> QED BY <1>5, <1>6

-----------------------------------------------------------------------------
(* The states of threads and watchdog *)

InCall  == {"locked", "unlocks", "waits", "woken"}   \* owning a mutex that is not noted
Waiting == {"blocked", "sleeps", "wakes"}
Places  == InCall \cup Waiting \cup {"runs", "queues", "joins", "ended"}

Dogs == [pc : {"idle", "reads", "walks", "returns"}, tid : Threads \cup {NoThread},
         m : Mutexes \cup {NoMutex}, other : Threads \cup {NoThread},
         unread : SUBSET Threads, mutex_to_tid : [Mutexes -> Threads \cup {NoThread}],
         visited : SUBSET Threads, has_cycle : BOOLEAN, doomed : BOOLEAN]

TypeOK ==
  /\ owner \in [Mutexes -> Threads \cup {NoThread}]
  /\ pc \in [Threads -> Places]
  /\ mutex \in [Threads -> Mutexes \cup {NoMutex}]
  /\ limited \in [Threads -> BOOLEAN]
  /\ held \in [Threads -> Stack]
  /\ mutex_wait \in [Threads -> Mutexes \cup {NoMutex}]
  /\ other_wait \in [Threads -> Threads \cup {NoThread}]
  /\ dog \in Dogs

\* What a thread has noted, or will have when it takes its next step
Noted(t) == IF pc[t] \in InCall THEN Owned(t) \ {mutex[t]} ELSE Owned(t)

\* The invariant about thread t: the notes of what it holds and of what it waits for, and,
\* unless clients wait with other mutexes held, the order of its mutexes.
NotesOK(t) ==
  /\ StackOK(held[t], Noted(t))
  /\ pc[t] \in InCall => owner[mutex[t]] = t
  /\ pc[t] \in InCall \cup Waiting => mutex[t] \in Mutexes

WaitOK(t) ==
  /\ pc[t] = "blocked" => mutex_wait[t] = mutex[t]
  /\ pc[t] \notin {"blocked", "locked"} => mutex_wait[t] = NoMutex
  /\ pc[t] \notin {"waits", "sleeps", "wakes", "woken", "queues", "joins"}
       => other_wait[t] = NoThread

OrderOK(t) ==
  /\ Ascending(held[t])
  /\ pc[t] \in {"locked", "blocked"} => Below(held[t], mutex[t])
  /\ pc[t] \in {"waits", "sleeps", "wakes", "woken"} => Noted(t) = {}

Ordered == ~ NestedWaits /\ \A m, n \in Mutexes : Order[m] = Order[n] => m = n

ThreadOK(t) == NotesOK(t) /\ WaitOK(t) /\ (Ordered => OrderOK(t))

\* Threads none of which can take a step: each waits for another one of them.
Closed(S) == \A t \in S : WaitsFor(t) \in S /\ Complete(held[t])

\* A deadlock that was there when the watchdog started is there still, the walk has not
\* left it, and of its threads those that were read are in the map with their mutexes.
DogOK ==
  /\ dog.pc = "walks" => dog.unread = {}
  /\ dog.pc = "returns" /\ dog.doomed => dog.has_cycle
  /\ dog.pc \in {"reads", "walks"} /\ dog.doomed =>
       \E S \in SUBSET Threads :
         /\ Closed(S) /\ dog.visited \subseteq S
         /\ \E u \in S : dog.m = mutex_wait[u] /\ dog.other = other_wait[u]
         /\ \A u \in S \ dog.unread : \A m \in ToSet(held[u].items) : dog.mutex_to_tid[m] = u

IInv == TypeOK /\ \A t \in Threads : ThreadOK(t)

LEMMA WaitsForIs ==
  ASSUME TypeOK, NEW t \in Threads
  PROVE  /\ pc[t] = "blocked" /\ ~ limited[t] => WaitsFor(t) = owner[mutex[t]]
         /\ pc[t] = "sleeps" /\ ~ limited[t] => WaitsFor(t) = other_wait[t]
         /\ pc[t] \in {"queues", "joins"} => WaitsFor(t) = other_wait[t]
         /\ limited[t] /\ pc[t] \in {"blocked", "sleeps"} => WaitsFor(t) = NoThread
         /\ pc[t] \notin {"blocked", "sleeps", "queues", "joins"} => WaitsFor(t) = NoThread
<1>1. pc[t] = "blocked" /\ ~ limited[t] => WaitsFor(t) = owner[mutex[t]]
  BY Zenon DEF WaitsFor
<1>2. pc[t] = "sleeps" /\ ~ limited[t] => WaitsFor(t) = other_wait[t]
  BY Zenon DEF WaitsFor
<1>3. pc[t] \in {"queues", "joins"} => WaitsFor(t) = other_wait[t]
  BY Zenon DEF WaitsFor
<1>4. limited[t] /\ pc[t] \in {"blocked", "sleeps"} => WaitsFor(t) = NoThread
  BY Zenon DEF WaitsFor
<1>5. pc[t] \notin {"blocked", "sleeps", "queues", "joins"} => WaitsFor(t) = NoThread
  BY Zenon DEF WaitsFor
<1> QED BY <1>1, <1>2, <1>3, <1>4, <1>5

LEMMA WaitsForType ==
  ASSUME TypeOK, \A t \in Threads : NotesOK(t)
  PROVE  \A t \in Threads : WaitsFor(t) \in Threads \cup {NoThread}
<1> TAKE t \in Threads
<1>1. /\ other_wait[t] \in Threads \cup {NoThread} /\ limited[t] \in BOOLEAN
      /\ pc[t] = "blocked" => owner[mutex[t]] \in Threads \cup {NoThread}
  BY DEF TypeOK, NotesOK, Waiting
<1> QED BY <1>1, WaitsForIs

LEMMA WaitsForChain ==
  ASSUME IsFiniteSet(Threads), NEW t \in Threads, LeadsIntoCycle(t, WaitsFor),
         \A u \in Threads : WaitsFor(u) \in Threads \cup {NoThread}, NoThread \notin Threads
  PROVE  \E r : Links(r, t, [u \in Threads |-> WaitsFor(u)]) /\ r[Cardinality(Threads)] # NoThread
<1> DEFINE N == Cardinality(Threads)
           A == [u \in Threads |-> WaitsFor(u)]
           After(r, n) == IF n = 0 THEN t
                          ELSE IF r[n - 1] = NoThread THEN NoThread ELSE WaitsFor(r[n - 1])
           Good(r) == r = [n \in 0 .. N |-> After(r, n)]
<1>1. N \in Nat /\ A \in [Threads -> Threads \cup {NoThread}]
  BY FS_CardinalityType
<1>2. ASSUME NEW r,
             \A n \in 0 .. N : r[n] \in Threads \cup {NoThread}
      PROVE  Good(r) <=> r = Following(r, t, A)
  <2>1. \A n \in 0 .. N :
          After(r, n) = IF n = 0 THEN t ELSE IF r[n - 1] = NoThread THEN NoThread ELSE A[r[n - 1]]
    <3> TAKE n \in 0 .. N
    <3>1. n # 0 => r[n - 1] \in Threads \cup {NoThread}
      BY <1>1, <1>2
    <3> QED BY <3>1
  <2> HIDE DEF After, A
  <2> QED BY <2>1 DEF Following
<1>3. \E r : Good(r)
  <2>1. PICK r : r = Following(r, t, A)
    BY <1>1, ChainExists
  <2> HIDE DEF A
  <2>2. Links(r, t, A)
    BY <1>1, <2>1, ChainLinks
  <2> HIDE DEF Good
  <2> QED BY <1>2, <2>1, <2>2 DEF Links
<1>4. PICK r : Good(r) /\ r[N] # NoThread
  <2>1. LeadsIntoCycle(t, WaitsFor) = ((CHOOSE r : Good(r))[N] # NoThread)
    BY DEF LeadsIntoCycle
  <2> HIDE DEF Good
  <2>2. Good(CHOOSE r : Good(r))
    BY <1>3, Zenon
  <2> QED BY <2>1, <2>2
<1>5. \A n \in 0 .. N : r[n] \in Threads \cup {NoThread}
  <2> DEFINE G == {n \in 0 .. N : r[n] \in Threads \cup {NoThread}}
  <2>1. \A n \in 0 .. N : r[n] = After(r, n)
    <3> HIDE DEF After
    <3> QED BY <1>4
  <2>2. 0 \in G
    BY <1>1, <2>1
  <2>3. \A k \in 0 .. N - 1 : k \in G => k + 1 \in G
    <3> TAKE k \in 0 .. N - 1
    <3> HAVE k \in G
    <3>1. k + 1 \in 0 .. N /\ k + 1 # 0 /\ (k + 1) - 1 = k
      BY <1>1
    <3> HIDE DEF N
    <3> QED BY <2>1, <3>1
  <2> HIDE DEF G, N
  <2>4. \A k \in 0 .. N : k \in G
    BY <1>1, <2>2, <2>3, UpTo, Zenon
  <2> QED BY <2>4 DEF G
<1>6. r = Following(r, t, A)
  <2> HIDE DEF Good, A
  <2> QED BY <1>2, <1>4, <1>5
<1> HIDE DEF A, Good
<1>7. Links(r, t, A)
  BY <1>1, <1>6, ChainLinks
<1>8. Links(r, t, A) /\ r[Cardinality(Threads)] # NoThread
  BY <1>4, <1>7
<1> QED BY <1>8 DEF A

-----------------------------------------------------------------------------
(* The steps of the threads *)

\* The mutexes of the other threads stay theirs.
OthersOwn(t) == \A u \in Threads \ {t}, m \in Mutexes : owner'[m] = u <=> owner[m] = u
OwnerOK      == owner \in [Mutexes -> Threads \cup {NoThread}]

LEMMA Took ==
  ASSUME AudioMutexAssumption, OwnerOK, NEW t \in Threads, NEW m \in Mutexes,
         owner[m] = NoThread, Gives(m, t)
  PROVE  /\ Owned(t)' = Owned(t) \cup {m} /\ m \notin Owned(t)
         /\ owner'[m] = t /\ OwnerOK' /\ OthersOwn(t)
BY DEF AudioMutexAssumption, OwnerOK, Gives, Owned, OthersOwn

LEMMA Gave ==
  ASSUME AudioMutexAssumption, OwnerOK, NEW t \in Threads, NEW m \in Mutexes,
         owner[m] = t, Gives(m, NoThread)
  PROVE  Owned(t)' = Owned(t) \ {m} /\ m \in Owned(t) /\ OwnerOK' /\ OthersOwn(t)
BY DEF AudioMutexAssumption, OwnerOK, Gives, Owned, OthersOwn

LEMMA NotGiven ==
  ASSUME OwnerOK, owner' = owner, NEW t
  PROVE  Owned(t)' = Owned(t) /\ OwnerOK' /\ OthersOwn(t)
BY DEF OwnerOK, Owned, OthersOwn

\* Nothing of thread u has changed.
Stays(u) ==
  /\ pc'[u] = pc[u] /\ mutex'[u] = mutex[u] /\ limited'[u] = limited[u]
  /\ held'[u] = held[u] /\ mutex_wait'[u] = mutex_wait[u] /\ other_wait'[u] = other_wait[u]
  /\ \A m \in Mutexes : owner'[m] = u <=> owner[m] = u

LEMMA StaysOK ==
  ASSUME NEW u, ThreadOK(u), Stays(u)
  PROVE  ThreadOK(u)' /\ Owned(u)' = Owned(u)
<1>1. Owned(u)' = Owned(u)
  BY DEF Stays, Owned
<1>2. Noted(u)' = Noted(u)
  BY <1>1 DEF Stays, Noted
<1>3. NotesOK(u)'
  BY <1>2 DEF Stays, NotesOK, StackOK, ThreadOK, InCall, Waiting
<1>4. WaitOK(u)'
  BY DEF Stays, WaitOK, ThreadOK
<1>5. Ordered => OrderOK(u)'
  BY <1>2 DEF Stays, OrderOK, ThreadOK, Ordered, Ascending, Below
<1> QED BY <1>1, <1>3, <1>4, <1>5 DEF ThreadOK, Ordered

\* What a step of thread t does to the variables, and that its invariant holds again
Moved(t) == TypeOK' /\ ThreadOK(t)' /\ (\A u \in Threads \ {t} : Stays(u)) /\ dog' = dog

LEMMA MovedAll ==
  ASSUME IInv, NEW t \in Threads, Moved(t)
  PROVE  IInv'
BY StaysOK DEF IInv, Moved

\* The changes of one thread, and of nothing else
Entries(t, place, m, timed, stack, mw, ow) ==
  /\ place \in Places /\ m \in Mutexes \cup {NoMutex} /\ timed \in BOOLEAN
  /\ stack \in Stack /\ mw \in Mutexes \cup {NoMutex} /\ ow \in Threads \cup {NoThread}
  /\ pc' = [pc EXCEPT ![t] = place]
  /\ mutex' = [mutex EXCEPT ![t] = m] /\ limited' = [limited EXCEPT ![t] = timed]
  /\ held' = [held EXCEPT ![t] = stack]
  /\ mutex_wait' = [mutex_wait EXCEPT ![t] = mw]
  /\ other_wait' = [other_wait EXCEPT ![t] = ow]
  /\ dog' = dog

LEMMA EntriesMove ==
  ASSUME TypeOK, NEW t \in Threads, OwnerOK', OthersOwn(t),
         NEW place, NEW m, NEW timed, NEW stack, NEW mw, NEW ow,
         Entries(t, place, m, timed, stack, mw, ow)
  PROVE  TypeOK' /\ \A u \in Threads \ {t} : Stays(u)
<1>1. TypeOK'
  BY DEF TypeOK, Entries, OwnerOK
<1>2. \A u \in Threads \ {t} : Stays(u)
  BY DEF TypeOK, Entries, OthersOwn, Stays
<1> QED BY <1>1, <1>2

\* An entry that a step leaves alone
LEMMA Unentered ==
  ASSUME TypeOK, NEW t \in Threads
  PROVE  /\ pc = [pc EXCEPT ![t] = pc[t]]
         /\ mutex = [mutex EXCEPT ![t] = mutex[t]]
         /\ limited = [limited EXCEPT ![t] = limited[t]]
         /\ held = [held EXCEPT ![t] = held[t]]
         /\ mutex_wait = [mutex_wait EXCEPT ![t] = mutex_wait[t]]
         /\ other_wait = [other_wait EXCEPT ![t] = other_wait[t]]
BY DEF TypeOK

LEMMA Ready ==
  ASSUME IInv, NEW t \in Threads
  PROVE  /\ TypeOK /\ OwnerOK /\ NotesOK(t) /\ WaitOK(t) /\ (Ordered => OrderOK(t))
         /\ held[t] \in Stack /\ limited[t] \in BOOLEAN
         /\ mutex[t] \in Mutexes \cup {NoMutex}
         /\ mutex_wait[t] \in Mutexes \cup {NoMutex} /\ other_wait[t] \in Threads \cup {NoThread}
         /\ pc[t] \in Places
         /\ StackOK(held[t], Noted(t))
BY DEF IInv, ThreadOK, NotesOK, TypeOK, OwnerOK

LEMMA LockFreeOK ==
  ASSUME AudioMutexAssumption, IInv, NEW t \in Threads, NEW m \in Mutexes, LockFree(t, m)
  PROVE  Moved(t)
<1>1. /\ pc[t] = "runs" /\ owner[m] = NoThread /\ MayLock(held[t], m) /\ Gives(m, t)
      /\ Entries(t, "locked", m, FALSE, held[t], mutex_wait[t], other_wait[t])
  BY Unentered, Ready DEF LockFree, Locks, Calls, Goes, Entries, Places, InCall, Waiting
<1>2. /\ Owned(t)' = Owned(t) \cup {m} /\ m \notin Owned(t)
      /\ owner'[m] = t /\ OwnerOK' /\ OthersOwn(t)
  BY <1>1, Took, Ready
<1>3. /\ TypeOK' /\ (\A u \in Threads \ {t} : Stays(u)) /\ dog' = dog
      /\ pc'[t] = "locked" /\ mutex'[t] = m /\ held'[t] = held[t]
      /\ mutex_wait'[t] = mutex_wait[t] /\ other_wait'[t] = other_wait[t]
  <2>1. TypeOK
    BY Ready
  <2>2. TypeOK' /\ \A u \in Threads \ {t} : Stays(u)
    BY <1>1, <1>2, <2>1, EntriesMove
  <2> QED BY <1>1, <2>1, <2>2 DEF Entries, TypeOK
<1>4. Noted(t)' = Owned(t) /\ Noted(t) = Owned(t)
  BY <1>1, <1>2, <1>3 DEF Noted, InCall
<1>5. NotesOK(t)'
  BY <1>1, <1>2, <1>3, <1>4, Ready DEF NotesOK, StackOK, InCall, Waiting
<1>6. WaitOK(t)'
  BY <1>1, <1>2, <1>3, <1>4, Ready DEF WaitOK
<1>7. Ordered => OrderOK(t)'
  <2> SUFFICES ASSUME Ordered PROVE OrderOK(t)'
    OBVIOUS
  <2>1. Below(held[t], m) /\ Ascending(held[t])
    BY <1>1, MayLockBelow, Ready DEF Ordered, OrderOK, AudioMutexAssumption
  <2> QED BY <1>3, <2>1 DEF OrderOK, Below, Ascending
<1> QED BY <1>3, <1>5, <1>6, <1>7 DEF Moved, ThreadOK, Ordered

LEMMA LockTakenOK ==
  ASSUME AudioMutexAssumption, IInv, NEW t \in Threads, NEW m \in Mutexes,
         NEW timed \in BOOLEAN, LockTaken(t, m, timed)
  PROVE  Moved(t)
<1>1. /\ pc[t] = "runs" /\ MayLock(held[t], m) /\ owner' = owner
      /\ Entries(t, "blocked", m, timed, held[t], m, other_wait[t])
  BY Unentered, Ready
  DEF LockTaken, Locks, Calls, Goes, NotesMutex, Entries, Places, InCall, Waiting
<1>2. Owned(t)' = Owned(t) /\ OwnerOK' /\ OthersOwn(t)
  BY <1>1, NotGiven, Ready
<1>3. /\ TypeOK' /\ (\A u \in Threads \ {t} : Stays(u)) /\ dog' = dog
      /\ pc'[t] = "blocked" /\ mutex'[t] = m /\ held'[t] = held[t]
      /\ mutex_wait'[t] = m /\ other_wait'[t] = other_wait[t]
  <2>1. TypeOK
    BY Ready
  <2>2. TypeOK' /\ \A u \in Threads \ {t} : Stays(u)
    BY <1>1, <1>2, <2>1, EntriesMove
  <2> QED BY <1>1, <2>1, <2>2 DEF Entries, TypeOK
<1>4. Noted(t)' = Owned(t) /\ Noted(t) = Owned(t)
  BY <1>1, <1>2, <1>3 DEF Noted, InCall
<1>5. NotesOK(t)'
  BY <1>1, <1>2, <1>3, <1>4, Ready DEF NotesOK, StackOK, InCall, Waiting
<1>6. WaitOK(t)'
  BY <1>1, <1>2, <1>3, <1>4, Ready DEF WaitOK
<1>7. Ordered => OrderOK(t)'
  <2> SUFFICES ASSUME Ordered PROVE OrderOK(t)'
    OBVIOUS
  <2>1. Below(held[t], m) /\ Ascending(held[t])
    BY <1>1, MayLockBelow, Ready DEF Ordered, OrderOK, AudioMutexAssumption
  <2> QED BY <1>3, <2>1 DEF OrderOK, Below, Ascending
<1> QED BY <1>3, <1>5, <1>6, <1>7 DEF Moved, ThreadOK, Ordered

LEMMA AcquireOK ==
  ASSUME AudioMutexAssumption, IInv, NEW t \in Threads, Acquire(t)
  PROVE  Moved(t)
<1> DEFINE m == mutex[t]
<1>1. /\ pc[t] = "blocked" /\ m \in Mutexes /\ owner[m] = NoThread /\ Gives(m, t)
      /\ Entries(t, "locked", m, limited[t], held[t], mutex_wait[t], other_wait[t])
  BY Unentered, Ready DEF Acquire, calls, notes, Goes, Entries, NotesOK, Places, InCall, Waiting
<1>2. /\ Owned(t)' = Owned(t) \cup {m} /\ m \notin Owned(t)
      /\ owner'[m] = t /\ OwnerOK' /\ OthersOwn(t)
  BY <1>1, Took, Ready
<1>3. /\ TypeOK' /\ (\A u \in Threads \ {t} : Stays(u)) /\ dog' = dog
      /\ pc'[t] = "locked" /\ mutex'[t] = m /\ held'[t] = held[t]
      /\ mutex_wait'[t] = mutex_wait[t] /\ other_wait'[t] = other_wait[t]
  <2>1. TypeOK
    BY Ready
  <2>2. TypeOK' /\ \A u \in Threads \ {t} : Stays(u)
    BY <1>1, <1>2, <2>1, EntriesMove
  <2> QED BY <1>1, <2>1, <2>2 DEF Entries, TypeOK
<1>4. Noted(t)' = Owned(t) /\ Noted(t) = Owned(t)
  BY <1>1, <1>2, <1>3 DEF Noted, InCall
<1>5. NotesOK(t)'
  BY <1>1, <1>2, <1>3, <1>4, Ready DEF NotesOK, StackOK, InCall, Waiting
<1>6. WaitOK(t)'
  BY <1>1, <1>2, <1>3, <1>4, Ready DEF WaitOK
<1>7. Ordered => OrderOK(t)'
  BY <1>1, <1>3, Ready DEF OrderOK, Below, Ascending
<1> QED BY <1>3, <1>5, <1>6, <1>7 DEF Moved, ThreadOK, Ordered

LEMMA PostLockOK ==
  ASSUME AudioMutexAssumption, IInv, NEW t \in Threads, PostLock(t)
  PROVE  Moved(t)
<1> PICK s : s = Pushed(held[t], mutex[t])
  OBVIOUS
<1>1. pc[t] = "locked" /\ mutex[t] \in Mutexes /\ owner[mutex[t]] = t /\ owner' = owner
  BY Ready DEF PostLock, NotesOK, InCall
<1>2. Owned(t)' = Owned(t) /\ OwnerOK' /\ OthersOwn(t) /\ mutex[t] \in Owned(t)
  BY <1>1, NotGiven, Ready DEF Owned
<1>3. /\ s \in Stack /\ StackOK(s, Noted(t) \cup {mutex[t]})
      /\ Ascending(held[t]) /\ Below(held[t], mutex[t]) => Ascending(s)
  <2>1. mutex[t] \notin Noted(t)
    BY <1>1 DEF Noted, InCall
  <2> QED BY <1>1, <2>1, PushedOK, Ready
<1>4. /\ TypeOK' /\ (\A u \in Threads \ {t} : Stays(u)) /\ dog' = dog
      /\ pc'[t] = "runs" /\ mutex'[t] = NoMutex /\ held'[t] = s
      /\ mutex_wait'[t] = NoMutex /\ other_wait'[t] = other_wait[t]
  <2>1. Entries(t, "runs", NoMutex, FALSE, s, NoMutex, other_wait[t])
    BY <1>3, Unentered, Ready
    DEF PostLock, Returns, Calls, Holds, NotesMutex, Goes, Entries, Places
  <2>2. TypeOK
    BY Ready
  <2>3. TypeOK' /\ \A u \in Threads \ {t} : Stays(u)
    BY <1>2, <2>1, <2>2, EntriesMove
  <2> QED BY <2>1, <2>2, <2>3 DEF Entries, TypeOK
<1>5. Noted(t)' = Owned(t) /\ Noted(t) \cup {mutex[t]} = Owned(t)
  BY <1>1, <1>2, <1>4 DEF Noted, InCall
<1>6. NotesOK(t)'
  BY <1>1, <1>3, <1>4, <1>5, Ready DEF NotesOK, StackOK, InCall, Waiting
<1>7. WaitOK(t)'
  BY <1>1, <1>3, <1>4, <1>5, Ready DEF WaitOK
<1>8. Ordered => OrderOK(t)'
  BY <1>1, <1>3, <1>4, Ready DEF OrderOK, Ascending
<1> QED BY <1>4, <1>6, <1>7, <1>8 DEF Moved, ThreadOK, Ordered

LEMMA TimedOutOK ==
  ASSUME AudioMutexAssumption, IInv, NEW t \in Threads, TimedOut(t)
  PROVE  Moved(t)
<1>1. /\ pc[t] = "blocked" /\ owner' = owner
      /\ Entries(t, "runs", NoMutex, FALSE, held[t], NoMutex, other_wait[t])
  BY Unentered, Ready
  DEF TimedOut, Returns, Calls, NotesMutex, Goes, Entries, Places, InCall, Waiting
<1>2. Owned(t)' = Owned(t) /\ OwnerOK' /\ OthersOwn(t)
  BY <1>1, NotGiven, Ready
<1>3. /\ TypeOK' /\ (\A u \in Threads \ {t} : Stays(u)) /\ dog' = dog
      /\ pc'[t] = "runs" /\ mutex'[t] = NoMutex /\ held'[t] = held[t]
      /\ mutex_wait'[t] = NoMutex /\ other_wait'[t] = other_wait[t]
  <2>1. TypeOK
    BY Ready
  <2>2. TypeOK' /\ \A u \in Threads \ {t} : Stays(u)
    BY <1>1, <1>2, <2>1, EntriesMove
  <2> QED BY <1>1, <2>1, <2>2 DEF Entries, TypeOK
<1>4. Noted(t)' = Owned(t) /\ Noted(t) = Owned(t)
  BY <1>1, <1>2, <1>3 DEF Noted, InCall
<1>5. NotesOK(t)'
  BY <1>1, <1>3, <1>4, Ready DEF NotesOK, StackOK, InCall, Waiting
<1>6. WaitOK(t)'
  BY <1>1, <1>3, <1>4, Ready DEF WaitOK
<1>7. Ordered => OrderOK(t)'
  BY <1>3, Ready DEF OrderOK, Ascending
<1> QED BY <1>3, <1>5, <1>6, <1>7 DEF Moved, ThreadOK, Ordered

LEMMA PreUnlockOK ==
  ASSUME AudioMutexAssumption, IInv, NEW t \in Threads, NEW m \in Mutexes, PreUnlock(t, m)
  PROVE  Moved(t)
<1> PICK s : s = Removed(held[t], m)
  OBVIOUS
<1>1. pc[t] = "runs" /\ owner[m] = t /\ owner' = owner
  BY DEF PreUnlock
<1>2. Owned(t)' = Owned(t) /\ OwnerOK' /\ OthersOwn(t) /\ m \in Owned(t) /\ Noted(t) = Owned(t)
  BY <1>1, NotGiven, Ready DEF Owned, Noted, InCall
<1>3. /\ s \in Stack /\ StackOK(s, Noted(t) \ {m})
      /\ Ascending(held[t]) => Ascending(s)
  BY <1>2, RemovedOK, Ready
<1>4. /\ TypeOK' /\ (\A u \in Threads \ {t} : Stays(u)) /\ dog' = dog
      /\ pc'[t] = "unlocks" /\ mutex'[t] = m /\ held'[t] = s
      /\ mutex_wait'[t] = mutex_wait[t] /\ other_wait'[t] = other_wait[t]
  <2>1. Entries(t, "unlocks", m, FALSE, s, mutex_wait[t], other_wait[t])
    BY <1>3, Unentered, Ready
    DEF PreUnlock, Calls, Holds, Goes, Entries, Places, InCall
  <2>2. TypeOK
    BY Ready
  <2>3. TypeOK' /\ \A u \in Threads \ {t} : Stays(u)
    BY <1>2, <2>1, <2>2, EntriesMove
  <2> QED BY <2>1, <2>2, <2>3 DEF Entries, TypeOK
<1>5. Noted(t)' = Noted(t) \ {m} /\ owner'[m] = t
  BY <1>1, <1>2, <1>4 DEF Noted, InCall
<1>6. NotesOK(t)'
  BY <1>1, <1>3, <1>4, <1>5, Ready DEF NotesOK, StackOK, InCall, Waiting
<1>7. WaitOK(t)'
  BY <1>1, <1>3, <1>4, <1>5, Ready DEF WaitOK
<1>8. Ordered => OrderOK(t)'
  BY <1>3, <1>4, Ready DEF OrderOK, Ascending
<1> QED BY <1>4, <1>6, <1>7, <1>8 DEF Moved, ThreadOK, Ordered

LEMMA UnlockOK ==
  ASSUME AudioMutexAssumption, IInv, NEW t \in Threads, Unlock(t)
  PROVE  Moved(t)
<1> DEFINE m == mutex[t]
<1>1. /\ pc[t] = "unlocks" /\ m \in Mutexes /\ owner[m] = t /\ Gives(m, NoThread)
      /\ Entries(t, "runs", NoMutex, FALSE, held[t], mutex_wait[t], other_wait[t])
  BY Unentered, Ready
  DEF Unlock, Returns, Calls, notes, Goes, Entries, NotesOK, Places, InCall, Waiting
<1>2. /\ Owned(t)' = Owned(t) \ {m} /\ OwnerOK' /\ OthersOwn(t)
  BY <1>1, Gave, Ready
<1>3. /\ TypeOK' /\ (\A u \in Threads \ {t} : Stays(u)) /\ dog' = dog
      /\ pc'[t] = "runs" /\ mutex'[t] = NoMutex /\ held'[t] = held[t]
      /\ mutex_wait'[t] = mutex_wait[t] /\ other_wait'[t] = other_wait[t]
  <2>1. TypeOK
    BY Ready
  <2>2. TypeOK' /\ \A u \in Threads \ {t} : Stays(u)
    BY <1>1, <1>2, <2>1, EntriesMove
  <2> QED BY <1>1, <2>1, <2>2 DEF Entries, TypeOK
<1>4. Noted(t)' = Noted(t)
  BY <1>1, <1>2, <1>3 DEF Noted, InCall
<1>5. NotesOK(t)'
  BY <1>1, <1>2, <1>3, <1>4, Ready DEF NotesOK, StackOK, InCall, Waiting
<1>6. WaitOK(t)'
  BY <1>1, <1>2, <1>3, <1>4, Ready DEF WaitOK
<1>7. Ordered => OrderOK(t)'
  BY <1>3, Ready DEF OrderOK, Ascending
<1> QED BY <1>3, <1>5, <1>6, <1>7 DEF Moved, ThreadOK, Ordered

LEMMA CvWaitOK ==
  ASSUME AudioMutexAssumption, IInv, NEW t \in Threads, NEW m \in Mutexes,
         NEW by \in Threads \cup {NoThread}, NEW timed \in BOOLEAN, CvWait(t, m, by, timed)
  PROVE  Moved(t)
<1> PICK s : s = Removed(held[t], m)
  OBVIOUS
<1>1. pc[t] = "runs" /\ owner[m] = t /\ owner' = owner /\ (NestedWaits \/ Owned(t) = {m})
  BY DEF CvWait
<1>2. Owned(t)' = Owned(t) /\ OwnerOK' /\ OthersOwn(t) /\ m \in Owned(t) /\ Noted(t) = Owned(t)
  BY <1>1, NotGiven, Ready DEF Owned, Noted, InCall
<1>3. /\ s \in Stack /\ StackOK(s, Noted(t) \ {m})
      /\ Ascending(held[t]) => Ascending(s)
  BY <1>2, RemovedOK, Ready
<1>4. /\ TypeOK' /\ (\A u \in Threads \ {t} : Stays(u)) /\ dog' = dog
      /\ pc'[t] = "waits" /\ mutex'[t] = m /\ held'[t] = s
      /\ mutex_wait'[t] = mutex_wait[t] /\ other_wait'[t] = by
  <2>1. Entries(t, "waits", m, timed, s, mutex_wait[t], by)
    BY <1>3, Unentered, Ready
    DEF CvWait, Calls, Holds, NotesThread, Goes, Entries, Places, InCall
  <2>2. TypeOK
    BY Ready
  <2>3. TypeOK' /\ \A u \in Threads \ {t} : Stays(u)
    BY <1>2, <2>1, <2>2, EntriesMove
  <2> QED BY <2>1, <2>2, <2>3 DEF Entries, TypeOK
<1>5. Noted(t)' = Noted(t) \ {m} /\ owner'[m] = t
  BY <1>1, <1>2, <1>4 DEF Noted, InCall
<1>6. NotesOK(t)'
  BY <1>1, <1>3, <1>4, <1>5, Ready DEF NotesOK, StackOK, InCall, Waiting
<1>7. WaitOK(t)'
  BY <1>1, <1>3, <1>4, <1>5, Ready DEF WaitOK
<1>8. Ordered => OrderOK(t)'
  <2>1. Ordered => Noted(t)' = {}
    BY <1>1, <1>2, <1>5 DEF Ordered
  <2> QED BY <1>3, <1>4, <2>1, Ready DEF OrderOK, Ascending
<1> QED BY <1>4, <1>6, <1>7, <1>8 DEF Moved, ThreadOK, Ordered

LEMMA CvSleepOK ==
  ASSUME AudioMutexAssumption, IInv, NEW t \in Threads, CvSleep(t)
  PROVE  Moved(t)
<1> DEFINE m == mutex[t]
<1>1. /\ pc[t] = "waits" /\ m \in Mutexes /\ owner[m] = t /\ Gives(m, NoThread)
      /\ Entries(t, "sleeps", m, limited[t], held[t], mutex_wait[t], other_wait[t])
  BY Unentered, Ready
  DEF CvSleep, calls, notes, Goes, Entries, NotesOK, Places, InCall, Waiting
<1>2. Owned(t)' = Owned(t) \ {m} /\ OwnerOK' /\ OthersOwn(t)
  BY <1>1, Gave, Ready
<1>3. /\ TypeOK' /\ (\A u \in Threads \ {t} : Stays(u)) /\ dog' = dog
      /\ pc'[t] = "sleeps" /\ mutex'[t] = m /\ held'[t] = held[t]
      /\ mutex_wait'[t] = mutex_wait[t] /\ other_wait'[t] = other_wait[t]
  <2>1. TypeOK
    BY Ready
  <2>2. TypeOK' /\ \A u \in Threads \ {t} : Stays(u)
    BY <1>1, <1>2, <2>1, EntriesMove
  <2> QED BY <1>1, <2>1, <2>2 DEF Entries, TypeOK
<1>4. Noted(t)' = Noted(t)
  BY <1>1, <1>2, <1>3 DEF Noted, InCall
<1>5. NotesOK(t)'
  BY <1>1, <1>3, <1>4, Ready DEF NotesOK, StackOK, InCall, Waiting
<1>6. WaitOK(t)'
  BY <1>1, <1>3, <1>4, Ready DEF WaitOK
<1>7. Ordered => OrderOK(t)'
  BY <1>1, <1>3, <1>4, Ready DEF OrderOK, Ascending
<1> QED BY <1>3, <1>5, <1>6, <1>7 DEF Moved, ThreadOK, Ordered

LEMMA CvWakeOK ==
  ASSUME AudioMutexAssumption, IInv, NEW t \in Threads, CvWake(t)
  PROVE  Moved(t)
<1>1. /\ pc[t] = "sleeps" /\ mutex[t] \in Mutexes /\ owner' = owner
      /\ Entries(t, "wakes", mutex[t], limited[t], held[t], mutex_wait[t], other_wait[t])
  BY Unentered, Ready
  DEF CvWake, calls, notes, Goes, Entries, NotesOK, Places, InCall, Waiting
<1>2. Owned(t)' = Owned(t) /\ OwnerOK' /\ OthersOwn(t)
  BY <1>1, NotGiven, Ready
<1>3. /\ TypeOK' /\ (\A u \in Threads \ {t} : Stays(u)) /\ dog' = dog
      /\ pc'[t] = "wakes" /\ mutex'[t] = mutex[t] /\ held'[t] = held[t]
      /\ mutex_wait'[t] = mutex_wait[t] /\ other_wait'[t] = other_wait[t]
  <2>1. TypeOK
    BY Ready
  <2>2. TypeOK' /\ \A u \in Threads \ {t} : Stays(u)
    BY <1>1, <1>2, <2>1, EntriesMove
  <2> QED BY <1>1, <2>1, <2>2 DEF Entries, TypeOK
<1>4. Noted(t)' = Noted(t)
  BY <1>1, <1>2, <1>3 DEF Noted, InCall
<1>5. NotesOK(t)'
  BY <1>1, <1>3, <1>4, Ready DEF NotesOK, StackOK, InCall, Waiting
<1>6. WaitOK(t)'
  BY <1>1, <1>3, <1>4, Ready DEF WaitOK
<1>7. Ordered => OrderOK(t)'
  BY <1>1, <1>3, <1>4, Ready DEF OrderOK, Ascending
<1> QED BY <1>3, <1>5, <1>6, <1>7 DEF Moved, ThreadOK, Ordered

LEMMA CvLockOK ==
  ASSUME AudioMutexAssumption, IInv, NEW t \in Threads, CvLock(t)
  PROVE  Moved(t)
<1> DEFINE m == mutex[t]
<1>1. /\ pc[t] = "wakes" /\ m \in Mutexes /\ owner[m] = NoThread /\ Gives(m, t)
      /\ Entries(t, "woken", m, limited[t], held[t], mutex_wait[t], other_wait[t])
  BY Unentered, Ready
  DEF CvLock, calls, notes, Goes, Entries, NotesOK, Places, InCall, Waiting
<1>2. /\ Owned(t)' = Owned(t) \cup {m} /\ m \notin Owned(t)
      /\ owner'[m] = t /\ OwnerOK' /\ OthersOwn(t)
  BY <1>1, Took, Ready
<1>3. /\ TypeOK' /\ (\A u \in Threads \ {t} : Stays(u)) /\ dog' = dog
      /\ pc'[t] = "woken" /\ mutex'[t] = m /\ held'[t] = held[t]
      /\ mutex_wait'[t] = mutex_wait[t] /\ other_wait'[t] = other_wait[t]
  <2>1. TypeOK
    BY Ready
  <2>2. TypeOK' /\ \A u \in Threads \ {t} : Stays(u)
    BY <1>1, <1>2, <2>1, EntriesMove
  <2> QED BY <1>1, <2>1, <2>2 DEF Entries, TypeOK
<1>4. Noted(t)' = Noted(t)
  BY <1>1, <1>2, <1>3 DEF Noted, InCall
<1>5. NotesOK(t)'
  BY <1>1, <1>2, <1>3, <1>4, Ready DEF NotesOK, StackOK, InCall, Waiting
<1>6. WaitOK(t)'
  BY <1>1, <1>2, <1>3, <1>4, Ready DEF WaitOK
<1>7. Ordered => OrderOK(t)'
  BY <1>1, <1>3, <1>4, Ready DEF OrderOK, Ascending
<1> QED BY <1>3, <1>5, <1>6, <1>7 DEF Moved, ThreadOK, Ordered

LEMMA CvReturnOK ==
  ASSUME AudioMutexAssumption, IInv, NEW t \in Threads, CvReturn(t)
  PROVE  Moved(t)
<1> PICK s : s = Pushed(held[t], mutex[t])
  OBVIOUS
<1>1. pc[t] = "woken" /\ mutex[t] \in Mutexes /\ owner[mutex[t]] = t /\ owner' = owner
  BY Ready DEF CvReturn, NotesOK, InCall
<1>2. Owned(t)' = Owned(t) /\ OwnerOK' /\ OthersOwn(t) /\ mutex[t] \in Owned(t)
  BY <1>1, NotGiven, Ready DEF Owned
<1>3. /\ s \in Stack /\ StackOK(s, Noted(t) \cup {mutex[t]})
      /\ Ascending(held[t]) /\ Below(held[t], mutex[t]) => Ascending(s)
  <2>1. mutex[t] \notin Noted(t)
    BY <1>1 DEF Noted, InCall
  <2> QED BY <1>1, <2>1, PushedOK, Ready
<1>4. /\ TypeOK' /\ (\A u \in Threads \ {t} : Stays(u)) /\ dog' = dog
      /\ pc'[t] = "runs" /\ mutex'[t] = NoMutex /\ held'[t] = s
      /\ mutex_wait'[t] = mutex_wait[t] /\ other_wait'[t] = NoThread
  <2>1. Entries(t, "runs", NoMutex, FALSE, s, mutex_wait[t], NoThread)
    BY <1>3, Unentered, Ready
    DEF CvReturn, Returns, Calls, Holds, NotesThread, Goes, Entries, Places
  <2>2. TypeOK
    BY Ready
  <2>3. TypeOK' /\ \A u \in Threads \ {t} : Stays(u)
    BY <1>2, <2>1, <2>2, EntriesMove
  <2> QED BY <2>1, <2>2, <2>3 DEF Entries, TypeOK
<1>5. Noted(t)' = Owned(t) /\ Noted(t) \cup {mutex[t]} = Owned(t)
  BY <1>1, <1>2, <1>4 DEF Noted, InCall
<1>6. NotesOK(t)'
  BY <1>1, <1>3, <1>4, <1>5, Ready DEF NotesOK, StackOK, InCall, Waiting
<1>7. WaitOK(t)'
  BY <1>1, <1>3, <1>4, <1>5, Ready DEF WaitOK
<1>8. Ordered => OrderOK(t)'
  <2> SUFFICES ASSUME Ordered PROVE OrderOK(t)'
    OBVIOUS
  <2>1. \A m : m \notin ToSet(held[t].items)
    BY <1>1, Ready DEF OrderOK, StackOK
  <2>2. Below(held[t], mutex[t])
    BY <2>1, StackType, Ready DEF Below
  <2> QED BY <1>3, <1>4, <2>2, Ready DEF OrderOK, Ascending
<1> QED BY <1>4, <1>6, <1>7, <1>8 DEF Moved, ThreadOK, Ordered

\* WaitFor(), WaitDone() and End()
LEMMA WaitForOK ==
  ASSUME AudioMutexAssumption, IInv, NEW t \in Threads,
         NEW u \in Threads \cup {NoThread}, NEW place \in {"runs", "queues", "joins", "ended"},
         pc[t] \in {"runs", "queues", "joins"}, place \in {"runs", "ended"} => u = NoThread,
         Goes(t, place), NotesThread(t, u), UNCHANGED <<owner, calls, held, mutex_wait, dog>>
  PROVE  Moved(t)
<1>1. /\ owner' = owner
      /\ Entries(t, place, mutex[t], limited[t], held[t], mutex_wait[t], u)
  BY Unentered, Ready DEF NotesThread, calls, Goes, Entries, Places
<1>2. Owned(t)' = Owned(t) /\ OwnerOK' /\ OthersOwn(t)
  BY <1>1, NotGiven, Ready
<1>3. /\ TypeOK' /\ (\A v \in Threads \ {t} : Stays(v)) /\ dog' = dog
      /\ pc'[t] = place /\ mutex'[t] = mutex[t] /\ held'[t] = held[t]
      /\ mutex_wait'[t] = mutex_wait[t] /\ other_wait'[t] = u
  <2>1. TypeOK
    BY Ready
  <2>2. TypeOK' /\ \A v \in Threads \ {t} : Stays(v)
    BY <1>1, <1>2, <2>1, EntriesMove
  <2> QED BY <1>1, <2>1, <2>2 DEF Entries, TypeOK
<1>4. Noted(t)' = Noted(t)
  BY <1>2, <1>3 DEF Noted, InCall
<1>5. NotesOK(t)'
  BY <1>3, <1>4, Ready DEF NotesOK, StackOK, InCall, Waiting
<1>6. WaitOK(t)'
  BY <1>3, <1>4, Ready DEF WaitOK
<1>7. Ordered => OrderOK(t)'
  BY <1>3, Ready DEF OrderOK, Ascending
<1> QED BY <1>3, <1>5, <1>6, <1>7 DEF Moved, ThreadOK, Ordered

\* The steps of thread t in Next
ThreadStep(t) ==
  \/ \E m \in Mutexes :
       \/ LockFree(t, m) \/ PreUnlock(t, m)
       \/ \E timed \in BOOLEAN :
            \/ LockTaken(t, m, timed)
            \/ \E by \in Threads \cup {NoThread} : CvWait(t, m, by, timed)
  \/ Acquire(t) \/ PostLock(t) \/ TimedOut(t) \/ Unlock(t)
  \/ CvSleep(t) \/ CvWake(t) \/ CvLock(t) \/ CvReturn(t)
  \/ \E u \in Threads : WaitFor(t, u, "queues") \/ WaitFor(t, u, "joins")
  \/ WaitDone(t) \/ End(t)

LEMMA ThreadStepMoves ==
  ASSUME AudioMutexAssumption, IInv, NEW t \in Threads, ThreadStep(t)
  PROVE  Moved(t)
<1>1. ASSUME NEW u \in Threads, NEW place \in {"queues", "joins"}, WaitFor(t, u, place)
      PROVE  Moved(t)
  <2>1. /\ pc[t] \in {"runs", "queues", "joins"} /\ Goes(t, place) /\ NotesThread(t, u)
        /\ UNCHANGED <<owner, calls, held, mutex_wait, dog>>
    BY <1>1 DEF WaitFor
  <2> QED BY <2>1, WaitForOK
<1>2. CASE WaitDone(t)
  <2>1. /\ pc[t] \in {"runs", "queues", "joins"} /\ Goes(t, "runs") /\ NotesThread(t, NoThread)
        /\ UNCHANGED <<owner, calls, held, mutex_wait, dog>>
    BY <1>2 DEF WaitDone
  <2> QED BY <2>1, WaitForOK
<1>3. CASE End(t)
  <2>1. /\ pc[t] \in {"runs", "queues", "joins"} /\ Goes(t, "ended") /\ NotesThread(t, NoThread)
        /\ UNCHANGED <<owner, calls, held, mutex_wait, dog>>
    <3>1. pc[t] = "runs" /\ other_wait[t] = NoThread
      BY <1>3, Ready DEF End, WaitOK
    <3> QED BY <1>3, <3>1, Unentered, Ready DEF End, NotesThread, notes
  <2> QED BY <2>1, WaitForOK
<1> QED BY <1>1, <1>2, <1>3, LockFreeOK, LockTakenOK, AcquireOK, PostLockOK, TimedOutOK,
           PreUnlockOK, UnlockOK, CvWaitOK, CvSleepOK, CvWakeOK, CvLockOK, CvReturnOK
        DEF ThreadStep

\* Who takes a step waits for nobody, or for a thread that waits for nobody.
LEMMA WhoMoves ==
  ASSUME IInv, NEW t \in Threads, ThreadStep(t)
  PROVE  \/ WaitsFor(t) = NoThread
         \/ WaitsFor(t) \in Threads /\ WaitsFor(WaitsFor(t)) = NoThread
<1>1. /\ TypeOK /\ other_wait[t] \in Threads \cup {NoThread} /\ limited[t] \in BOOLEAN
      /\ pc[t] = "blocked" => owner[mutex[t]] \in Threads \cup {NoThread}
  BY Ready DEF OwnerOK, NotesOK, Waiting
<1>2. CASE pc[t] \notin {"blocked", "sleeps", "queues", "joins"}
  BY <1>1, <1>2, WaitsForIs
<1>3. CASE pc[t] = "blocked"
  <2>1. owner[mutex[t]] = NoThread \/ limited[t]
    BY <1>3 DEF ThreadStep, LockFree, LockTaken, Locks, Acquire, PostLock, TimedOut, PreUnlock,
                Unlock, CvWait, CvSleep, CvWake, CvLock, CvReturn, WaitFor, WaitDone, End
  <2> QED BY <1>1, <1>3, <2>1, WaitsForIs
<1>4. CASE pc[t] = "sleeps"
  <2>1. limited[t] \/ other_wait[t] = NoThread \/ pc[other_wait[t]] = "runs"
    BY <1>4 DEF ThreadStep, LockFree, LockTaken, Locks, Acquire, PostLock, TimedOut, PreUnlock,
                Unlock, CvWait, CvSleep, CvWake, CvLock, CvReturn, WaitFor, WaitDone, End
  <2>2. \A u \in Threads : pc[u] = "runs" => WaitsFor(u) = NoThread
    BY <1>1, WaitsForIs
  <2> QED BY <1>1, <1>4, <2>1, <2>2, WaitsForIs
<1>5. CASE pc[t] \in {"queues", "joins"}
  <2>1. pc[other_wait[t]] \in {"runs", "ended"}
    BY <1>5 DEF ThreadStep, LockFree, LockTaken, Locks, Acquire, PostLock, TimedOut, PreUnlock,
                Unlock, CvWait, CvSleep, CvWake, CvLock, CvReturn, WaitFor, WaitDone, End
  <2>2. \A u \in Threads : pc[u] \in {"runs", "ended"} => WaitsFor(u) = NoThread
    BY <1>1, WaitsForIs
  <2> QED BY <1>1, <1>5, <2>1, <2>2, WaitsForIs
<1> QED BY <1>2, <1>3, <1>4, <1>5

\* So a deadlock is left alone.
LEMMA ClosedStays ==
  ASSUME AudioMutexAssumption, IInv, NEW t \in Threads, ThreadStep(t),
         NEW S \in SUBSET Threads, Closed(S)
  PROVE  Closed(S)' /\ \A u \in S : Stays(u)
<1>1. t \notin S
  BY WhoMoves DEF Closed, AudioMutexAssumption
<1>2. \A u \in S : u \in Threads /\ u # t /\ Stays(u)
  BY <1>1, ThreadStepMoves DEF Moved
<1>3. ASSUME NEW u \in S PROVE WaitsFor(u)' = WaitsFor(u)
  <2>1. /\ pc'[u] = pc[u] /\ mutex'[u] = mutex[u] /\ limited'[u] = limited[u]
        /\ other_wait'[u] = other_wait[u]
    BY <1>2 DEF Stays
  <2>2. WaitsFor(u) \in S /\ WaitsFor(u) # NoThread
    BY DEF Closed, AudioMutexAssumption
  <2>3. TypeOK /\ limited[u] \in BOOLEAN
    BY Ready
  <2>4. \/ pc[u] = "blocked" /\ ~ limited[u]
        \/ pc[u] = "sleeps" /\ ~ limited[u]
        \/ pc[u] \in {"queues", "joins"}
    BY <2>2, <2>3, WaitsForIs
  <2>5. CASE pc[u] = "blocked" /\ ~ limited[u]
    <3>1. WaitsFor(u) = owner[mutex[u]] /\ mutex[u] \in Mutexes
      BY <2>3, <2>5, WaitsForIs, Ready DEF NotesOK, Waiting
    <3>2. owner'[mutex[u]] = owner[mutex[u]]
      BY <1>2, <2>2, <3>1 DEF Stays
    <3>3. pc'[u] = "blocked" /\ ~ limited'[u]
      BY <2>1, <2>5
    <3>4. WaitsFor(u)' = owner'[mutex'[u]]
      BY <3>3, Zenon DEF WaitsFor
    <3> QED BY <2>1, <3>1, <3>2, <3>4
  <2>6. CASE pc[u] = "sleeps" /\ ~ limited[u]
    <3>1. pc'[u] = "sleeps" /\ ~ limited'[u]
      BY <2>1, <2>6
    <3>2. WaitsFor(u)' = other_wait'[u]
      BY <3>1, Zenon DEF WaitsFor
    <3> QED BY <2>1, <2>3, <2>6, <3>2, WaitsForIs
  <2>7. CASE pc[u] \in {"queues", "joins"}
    <3>1. pc'[u] \in {"queues", "joins"}
      BY <2>1, <2>7
    <3>2. WaitsFor(u)' = other_wait'[u]
      BY <3>1, Zenon DEF WaitsFor
    <3> QED BY <2>1, <2>3, <2>7, <3>2, WaitsForIs
  <2> QED BY <2>4, <2>5, <2>6, <2>7
<1>4. Closed(S)'
  BY <1>2, <1>3 DEF Closed, Stays, Complete
<1> QED BY <1>2, <1>4

-----------------------------------------------------------------------------
(* The steps of the watchdog *)

LEMMA DogStepKeeps ==
  ASSUME IInv, DogUnchanged, dog' \in Dogs
  PROVE  /\ IInv'
         /\ \A S \in SUBSET Threads : Closed(S) => Closed(S)'
<1>1. TypeOK'
  BY DEF IInv, TypeOK, DogUnchanged
<1>2. \A u \in Threads : Stays(u)
  BY DEF Stays, DogUnchanged
<1>3. \A u \in Threads : ThreadOK(u)'
  BY <1>2, StaysOK DEF IInv
<1>4. ASSUME NEW u PROVE WaitsFor(u)' = WaitsFor(u)
  BY Zenon DEF DogUnchanged, WaitsFor
<1>5. \A S \in SUBSET Threads : Closed(S) => Closed(S)'
  BY <1>4 DEF Closed, Complete, DogUnchanged
<1> QED BY <1>1, <1>3, <1>5 DEF IInv

\* Thread t leads into a cycle: the chain from t is closed.
LEMMA DoomedClosed ==
  ASSUME AudioMutexAssumption, IInv, IsFiniteSet(Threads), NEW t \in Threads,
         LeadsIntoCycle(t, WaitsFor), \A u \in Threads : Complete(held[u])
  PROVE  \E S \in SUBSET Threads : t \in S /\ Closed(S)
<1> DEFINE N == Cardinality(Threads)
           A == [u \in Threads |-> WaitsFor(u)]
<1>1. A \in [Threads -> Threads \cup {NoThread}] /\ NoThread \notin Threads
  BY WaitsForType DEF IInv, ThreadOK, AudioMutexAssumption
<1>2. PICK r : Links(r, t, A) /\ r[N] # NoThread
  BY <1>1, WaitsForChain, WaitsForType DEF IInv, ThreadOK
<1>3. \A u \in Threads : A[u] = WaitsFor(u)
  OBVIOUS
<1> HIDE DEF A
<1>4. PICK i \in 0 .. N, j \in 0 .. N :
        /\ i < j /\ r[i] = r[j]
        /\ \A n \in 0 .. j - 1 : r[n] \in Threads /\ A[r[n]] = r[n + 1] /\ r[n + 1] \in Threads
  BY <1>1, <1>2, EndlessChain
<1>5. N \in Nat /\ i \in Nat /\ j \in Nat /\ i \in 0 .. j - 1 /\ 0 \in 0 .. j - 1
  <2>1. N \in Nat
    BY FS_CardinalityType
  <2> HIDE DEF N
  <2> QED BY <1>4, <2>1
<1> DEFINE S == {r[n] : n \in 0 .. j - 1}
<1>6. S \in SUBSET Threads /\ t \in S
  BY <1>2, <1>4, <1>5 DEF Links
<1>7. \A n \in 0 .. j - 1 : r[n + 1] \in S
  <2> TAKE n \in 0 .. j - 1
  <2>1. n + 1 \in 0 .. j - 1 \/ n + 1 = j
    BY <1>5
  <2> QED BY <1>4, <1>5, <2>1
<1>8. \A u \in S : WaitsFor(u) \in S
  <2> TAKE u \in S
  <2>1. PICK n \in 0 .. j - 1 : u = r[n]
    OBVIOUS
  <2>2. WaitsFor(u) = r[n + 1]
    BY <1>3, <1>4, <2>1
  <2> QED BY <1>7, <2>1, <2>2
<1>9. Closed(S)
  BY <1>6, <1>8 DEF Closed
<1> QED BY <1>6, <1>9

\* Among the threads of a deadlock that have been read, detection follows who waits for whom.
LEMMA NextInClosed ==
  ASSUME AudioMutexAssumption, IInv, NEW S \in SUBSET Threads, Closed(S), NEW u \in S,
         dog.m = mutex_wait[u], dog.other = other_wait[u],
         \A v \in S : \A m \in ToSet(held[v].items) : dog.mutex_to_tid[m] = v
  PROVE  DetectionNext \in S /\ DetectionNext \in Registered
<1>1. /\ TypeOK /\ limited[u] \in BOOLEAN /\ NotesOK(u) /\ WaitOK(u)
      /\ WaitsFor(u) \in S /\ WaitsFor(u) # NoThread /\ NoMutex \notin Mutexes
  BY Ready DEF Closed, AudioMutexAssumption
<1>2. \A v \in S : v \in Threads /\ pc[v] \in {"blocked", "sleeps", "queues", "joins"}
  <2> TAKE v \in S
  <2>1. WaitsFor(v) # NoThread
    BY DEF Closed, AudioMutexAssumption
  <2> QED BY <1>1, <2>1, WaitsForIs
<1>3. DetectionNext = WaitsFor(u)
  <2>1. CASE pc[u] = "blocked" /\ ~ limited[u]
    <3>1. WaitsFor(u) = owner[mutex[u]] /\ dog.m = mutex[u] /\ mutex[u] \in Mutexes
      BY <1>1, <2>1, WaitsForIs DEF NotesOK, WaitOK, Waiting
    <3> PICK v : v = WaitsFor(u)
      OBVIOUS
    <3>2. v \in S /\ v \in Threads /\ v # NoThread /\ mutex[u] \in Owned(v)
      BY <1>1, <3>1 DEF Owned
    <3>3. Noted(v) = Owned(v)
      BY <1>2, <3>2 DEF Noted, InCall
    <3>4. mutex[u] \in ToSet(held[v].items)
      <4>1. Complete(held[v])
        BY <3>2 DEF Closed
      <4> QED BY <3>2, <3>3, <4>1, CompleteStack, Ready
    <3>5. dog.mutex_to_tid[dog.m] = v
      BY <3>1, <3>2, <3>4
    <3> QED BY <1>1, <3>1, <3>2, <3>5 DEF DetectionNext
  <2>2. CASE pc[u] \in {"sleeps", "queues", "joins"}
    <3>1. WaitsFor(u) = other_wait[u] /\ dog.m = NoMutex
      BY <1>1, <2>2, WaitsForIs DEF WaitOK
    <3> QED BY <3>1 DEF DetectionNext
  <2> QED BY <1>1, <1>2, <2>1, <2>2, WaitsForIs
<1> QED BY <1>1, <1>2, <1>3 DEF Registered

LEMMA StartsKeeps ==
  ASSUME AudioMutexAssumption, IInv, NEW t \in Threads, DetectionStarts(t)
  PROVE  IInv' /\ \A S \in SUBSET Threads : Closed(S) => Closed(S)'
<1> PICK doomed : doomed = (LeadsIntoCycle(t, WaitsFor) /\ \A u \in Threads : Complete(held[u]))
  OBVIOUS
<1>1. /\ dog' = [Idle EXCEPT !.pc = "reads", !.tid = t, !.m = mutex_wait[t],
                             !.other = other_wait[t], !.unread = Registered,
                             !.visited = {t}, !.doomed = doomed]
      /\ DogUnchanged
  BY DEF DetectionStarts
<1>2. doomed \in BOOLEAN /\ Registered \in SUBSET Threads
  BY DEF Registered
<1>3. dog' \in Dogs
  BY <1>1, <1>2, Ready DEF Idle, Dogs
<1> QED BY <1>1, <1>3, DogStepKeeps

LEMMA StartsOK ==
  ASSUME AudioMutexAssumption, IInv, IsFiniteSet(Threads), NEW t \in Threads,
         DetectionStarts(t)
  PROVE  IInv' /\ DogOK'
<1> PICK doomed : doomed = (LeadsIntoCycle(t, WaitsFor) /\ \A u \in Threads : Complete(held[u]))
  OBVIOUS
<1>1. /\ dog' = [Idle EXCEPT !.pc = "reads", !.tid = t, !.m = mutex_wait[t],
                             !.other = other_wait[t], !.unread = Registered,
                             !.visited = {t}, !.doomed = doomed]
      /\ DogUnchanged
  BY DEF DetectionStarts
<1>2. /\ dog'.pc = "reads" /\ dog'.m = mutex_wait[t] /\ dog'.other = other_wait[t]
      /\ dog'.unread = Registered /\ dog'.visited = {t} /\ dog'.doomed = doomed
  BY <1>1 DEF Idle
<1>4. IInv' /\ \A S \in SUBSET Threads : Closed(S) => Closed(S)'
  BY StartsKeeps
<1>5. ASSUME doomed
      PROVE  \E S \in SUBSET Threads :
               /\ Closed(S)' /\ dog'.visited \subseteq S
               /\ \E u \in S : dog'.m = mutex_wait'[u] /\ dog'.other = other_wait'[u]
               /\ \A u \in S \ dog'.unread :
                    \A m \in ToSet(held'[u].items) : dog'.mutex_to_tid[m] = u
  <2>1. PICK S \in SUBSET Threads : t \in S /\ Closed(S)
    BY <1>5, DoomedClosed
  <2>2. \A u \in S : u \in Registered
    <3> TAKE u \in S
    <3>1. WaitsFor(u) # NoThread /\ u \in Threads /\ TypeOK
      BY <2>1, Ready DEF Closed, AudioMutexAssumption
    <3>2. pc[u] # "ended"
      BY <3>1, WaitsForIs
    <3> QED BY <3>1, <3>2 DEF Registered
  <2>3. mutex_wait' = mutex_wait /\ other_wait' = other_wait
    BY <1>1 DEF DogUnchanged
  <2>4. Closed(S)'
    BY <1>4, <2>1
  <2> WITNESS S \in SUBSET Threads
  <2> QED BY <1>2, <2>1, <2>2, <2>3, <2>4
<1> QED BY <1>2, <1>4, <1>5 DEF DogOK

LEMMA ReadsKeeps ==
  ASSUME IInv, NEW t \in Threads, DetectionReads(t)
  PROVE  IInv' /\ \A S \in SUBSET Threads : Closed(S) => Closed(S)'
<1> PICK map : map = [m \in Mutexes |->
                        IF t \in Registered /\ m \in ToSet(held[t].items) THEN t
                        ELSE dog.mutex_to_tid[m]]
  OBVIOUS
<1>1. /\ dog.pc = "reads" /\ t \in dog.unread /\ DogUnchanged
      /\ dog' = [dog EXCEPT !.unread = dog.unread \ {t}, !.mutex_to_tid = map,
                            !.pc = IF dog.unread = {t} THEN "walks" ELSE dog.pc]
  BY DEF DetectionReads
<1>2. dog \in Dogs
  BY DEF IInv, TypeOK
<1>3. map \in [Mutexes -> Threads \cup {NoThread}]
  BY <1>2 DEF Dogs
<1>4. dog' \in Dogs
  BY <1>1, <1>2, <1>3 DEF Dogs
<1> QED BY <1>1, <1>4, DogStepKeeps

LEMMA ReadsOK ==
  ASSUME AudioMutexAssumption, IInv, DogOK, NEW t \in Threads, DetectionReads(t)
  PROVE  IInv' /\ DogOK'
<1> PICK map : map = [m \in Mutexes |->
                        IF t \in Registered /\ m \in ToSet(held[t].items) THEN t
                        ELSE dog.mutex_to_tid[m]]
  OBVIOUS
<1>1. /\ dog.pc = "reads" /\ t \in dog.unread /\ DogUnchanged
      /\ dog' = [dog EXCEPT !.unread = dog.unread \ {t}, !.mutex_to_tid = map,
                            !.pc = IF dog.unread = {t} THEN "walks" ELSE dog.pc]
  BY DEF DetectionReads
<1>2. dog \in Dogs
  BY DEF IInv, TypeOK
<1>4. /\ dog'.pc = (IF dog.unread = {t} THEN "walks" ELSE "reads")
      /\ dog'.unread = dog.unread \ {t} /\ dog'.mutex_to_tid = map
      /\ dog'.m = dog.m /\ dog'.other = dog.other /\ dog'.visited = dog.visited
      /\ dog'.doomed = dog.doomed /\ dog'.has_cycle = dog.has_cycle
  BY <1>1, <1>2 DEF Dogs
<1>5. IInv' /\ \A S \in SUBSET Threads : Closed(S) => Closed(S)'
  BY ReadsKeeps
<1>6. ASSUME dog.doomed
      PROVE  \E S \in SUBSET Threads :
               /\ Closed(S)' /\ dog'.visited \subseteq S
               /\ \E u \in S : dog'.m = mutex_wait'[u] /\ dog'.other = other_wait'[u]
               /\ \A u \in S \ dog'.unread :
                    \A m \in ToSet(held'[u].items) : dog'.mutex_to_tid[m] = u
  <2>1. PICK S \in SUBSET Threads :
          /\ Closed(S) /\ dog.visited \subseteq S
          /\ \E u \in S : dog.m = mutex_wait[u] /\ dog.other = other_wait[u]
          /\ \A u \in S \ dog.unread : \A m \in ToSet(held[u].items) : dog.mutex_to_tid[m] = u
    BY <1>1, <1>6 DEF DogOK
  <2>2. mutex_wait' = mutex_wait /\ other_wait' = other_wait /\ held' = held
    BY <1>1 DEF DogUnchanged
  <2>3. Closed(S)'
    BY <1>5, <2>1
  <2>4. ASSUME NEW u \in S \ dog'.unread, NEW m \in ToSet(held[u].items)
        PROVE  map[m] = u
    <3>1. \A v \in S : v \in Threads /\ pc[v] \in {"blocked", "sleeps", "queues", "joins"}
      <4> TAKE v \in S
      <4>1. WaitsFor(v) # NoThread /\ v \in Threads /\ TypeOK
        BY <2>1, Ready DEF Closed, AudioMutexAssumption
      <4> QED BY <4>1, WaitsForIs
    <3>2. m \in Mutexes
      <4> PICK s : s = held[u]
        OBVIOUS
      <4>1. s \in Stack /\ m \in ToSet(s.items)
        BY <2>4, <3>1, Ready
      <4>2. \E i \in 1 .. Len(s.items) : s.items[i] = m
        BY <4>1, StackType
      <4> QED BY <4>1, <4>2, StackType
    <3>3. CASE u = t
      <4>1. u \in Registered
        BY <3>1 DEF Registered
      <4> QED BY <3>2, <3>3, <4>1
    <3>4. CASE u # t
      <4>1. u \in S \ dog.unread
        BY <1>4, <2>4, <3>4
      <4>2. dog.mutex_to_tid[m] = u
        BY <2>1, <2>4, <4>1
      <4>3. ASSUME t \in Registered, m \in ToSet(held[t].items) PROVE FALSE
        <5>1. m \in Noted(u) /\ m \in Noted(t)
          BY <2>4, <3>1, <4>3, Ready DEF StackOK
        <5>2. m \in Owned(u) /\ m \in Owned(t)
          BY <5>1 DEF Noted
        <5> QED BY <3>4, <5>2 DEF Owned
      <4> QED BY <3>2, <4>2, <4>3
    <3> QED BY <3>3, <3>4
  <2> WITNESS S \in SUBSET Threads
  <2> QED BY <1>4, <2>1, <2>2, <2>3, <2>4
<1>7. dog'.pc = "walks" => dog'.unread = {}
  BY <1>4
<1> QED BY <1>4, <1>5, <1>6, <1>7 DEF DogOK

LEMMA WalksKeeps ==
  ASSUME IInv, DetectionWalks
  PROVE  IInv' /\ \A S \in SUBSET Threads : Closed(S) => Closed(S)'
<1> PICK next : next = DetectionNext
  OBVIOUS
<1>1. /\ dog.pc = "walks" /\ DogUnchanged
      /\ dog' = IF next = NoThread THEN [dog EXCEPT !.pc = "returns"]
                ELSE IF next \in dog.visited
                     THEN [dog EXCEPT !.pc = "returns", !.has_cycle = TRUE]
                ELSE IF next \notin Registered THEN [dog EXCEPT !.pc = "returns"]
                ELSE [dog EXCEPT !.visited = dog.visited \cup {next},
                                 !.m = mutex_wait[next], !.other = other_wait[next]]
  BY DEF DetectionWalks
<1>2. dog \in Dogs
  BY DEF IInv, TypeOK
<1>3. next \in Registered => next \in Threads
  BY DEF Registered
<1>4. dog' \in Dogs
  <2>1. next \in Registered => /\ mutex_wait[next] \in Mutexes \cup {NoMutex}
                               /\ other_wait[next] \in Threads \cup {NoThread}
    BY <1>3, Ready
  <2> QED BY <1>1, <1>2, <1>3, <2>1 DEF Dogs
<1> QED BY <1>1, <1>4, DogStepKeeps

LEMMA WalksOK ==
  ASSUME AudioMutexAssumption, IInv, DogOK, DetectionWalks
  PROVE  IInv' /\ DogOK'
<1> PICK next : next = DetectionNext
  OBVIOUS
<1>1. /\ dog.pc = "walks" /\ DogUnchanged
      /\ dog' = IF next = NoThread THEN [dog EXCEPT !.pc = "returns"]
                ELSE IF next \in dog.visited
                     THEN [dog EXCEPT !.pc = "returns", !.has_cycle = TRUE]
                ELSE IF next \notin Registered THEN [dog EXCEPT !.pc = "returns"]
                ELSE [dog EXCEPT !.visited = dog.visited \cup {next},
                                 !.m = mutex_wait[next], !.other = other_wait[next]]
  BY DEF DetectionWalks
<1>2. dog \in Dogs /\ dog.unread = {}
  BY <1>1 DEF IInv, TypeOK, DogOK
<1>5. IInv' /\ \A S \in SUBSET Threads : Closed(S) => Closed(S)'
  BY WalksKeeps
<1>6. dog'.unread = {} /\ dog'.doomed = dog.doomed /\ dog'.mutex_to_tid = dog.mutex_to_tid
  BY <1>1, <1>2 DEF Dogs
<1>7. CASE ~ dog.doomed
  BY <1>5, <1>6, <1>7 DEF DogOK
<1>8. CASE dog.doomed
  <2>1. PICK S \in SUBSET Threads :
          /\ Closed(S) /\ dog.visited \subseteq S
          /\ \E u \in S : dog.m = mutex_wait[u] /\ dog.other = other_wait[u]
          /\ \A u \in S \ dog.unread : \A m \in ToSet(held[u].items) : dog.mutex_to_tid[m] = u
    BY <1>1, <1>8 DEF DogOK
  <2>2. next \in S /\ next \in Registered /\ next # NoThread
    <3>1. DetectionNext \in S /\ DetectionNext \in Registered
      BY <1>2, <2>1, NextInClosed
    <3> QED BY <3>1 DEF AudioMutexAssumption
  <2>3. CASE next \in dog.visited
    <3>1. dog'.pc = "returns" /\ dog'.has_cycle
      BY <1>1, <1>2, <2>2, <2>3 DEF Dogs
    <3> QED BY <1>5, <3>1 DEF DogOK
  <2>4. CASE next \notin dog.visited
    <3>1. /\ dog'.pc = "walks" /\ dog'.visited = dog.visited \cup {next}
          /\ dog'.m = mutex_wait[next] /\ dog'.other = other_wait[next]
      BY <1>1, <1>2, <2>2, <2>4 DEF Dogs
    <3>2. mutex_wait' = mutex_wait /\ other_wait' = other_wait /\ held' = held
      BY <1>1 DEF DogUnchanged
    <3>3. Closed(S)'
      BY <1>5, <2>1
    <3>4. \E T \in SUBSET Threads :
             /\ Closed(T)' /\ dog'.visited \subseteq T
             /\ \E u \in T : dog'.m = mutex_wait'[u] /\ dog'.other = other_wait'[u]
             /\ \A u \in T \ dog'.unread :
                  \A m \in ToSet(held'[u].items) : dog'.mutex_to_tid[m] = u
      <4> WITNESS S \in SUBSET Threads
      <4> QED BY <1>2, <1>6, <2>1, <2>2, <3>1, <3>2, <3>3
    <3> QED BY <1>5, <1>6, <3>1, <3>4 DEF DogOK
  <2> QED BY <2>3, <2>4
<1> QED BY <1>7, <1>8

LEMMA ReturnsOK ==
  ASSUME AudioMutexAssumption, IInv, DetectionReturns
  PROVE  IInv' /\ DogOK'
<1>1. dog' = Idle /\ DogUnchanged
  BY DEF DetectionReturns
<1>2. Idle \in Dogs /\ Idle.pc = "idle"
  BY DEF Idle, Dogs
<1> QED BY <1>1, <1>2, DogStepKeeps DEF DogOK

-----------------------------------------------------------------------------
(* The invariants *)

LEMMA InitOK ==
  ASSUME AudioMutexAssumption, MutexInit
  PROVE  IInv /\ DogOK
<1>1. Idle \in Dogs /\ Idle.pc = "idle"
  BY DEF Idle, Dogs
<1> PICK empty : empty = [items |-> <<>>, true_top |-> 0]
  OBVIOUS
<1>2. empty \in Stack /\ empty.items = <<>> /\ empty.true_top = 0
  <2>1. <<>> \in Seq(Mutexes)
    BY EmptySeq
  <2> QED BY <2>1 DEF Stack
<1>3. /\ owner = [m \in Mutexes |-> NoThread] /\ pc = [t \in Threads |-> "runs"]
      /\ mutex = [t \in Threads |-> NoMutex] /\ limited = [t \in Threads |-> FALSE]
      /\ held = [t \in Threads |-> empty] /\ mutex_wait = [t \in Threads |-> NoMutex]
      /\ other_wait = [t \in Threads |-> NoThread] /\ dog = Idle
  BY DEF MutexInit
<1>4. TypeOK
  BY <1>1, <1>2, <1>3 DEF TypeOK, Places
<1>5. ASSUME NEW t \in Threads PROVE ThreadOK(t)
  <2>1. Owned(t) = {} /\ Noted(t) = {} /\ pc[t] = "runs" /\ held[t] = empty
    BY <1>3 DEF AudioMutexAssumption, Owned, Noted, InCall
  <2>2. Len(empty.items) = 0 /\ DOMAIN empty.items = {} /\ ToSet(empty.items) = {}
    <3>1. Len(empty.items) = 0
      BY <1>2, EmptySeq
    <3>2. DOMAIN empty.items = {}
      BY <1>2, <3>1, StackType
    <3> QED BY <3>1, <3>2 DEF ToSet
  <2>3. StackOK(empty, {})
    <3>1. 0 =< Depth
      BY DEF AudioMutexAssumption
    <3> QED BY <1>2, <2>2, <3>1, FS_EmptySet DEF StackOK
  <2>4. NotesOK(t)
    BY <2>1, <2>3 DEF NotesOK, InCall, Waiting
  <2>5. WaitOK(t)
    BY <1>3, <2>1 DEF WaitOK
  <2>6. OrderOK(t)
    BY <2>1, <2>2 DEF OrderOK, Ascending
  <2> QED BY <2>4, <2>5, <2>6 DEF ThreadOK
<1> QED BY <1>1, <1>3, <1>4, <1>5 DEF IInv, DogOK

LEMMA ThreadStepDog ==
  ASSUME AudioMutexAssumption, IInv, DogOK, NEW t \in Threads, ThreadStep(t)
  PROVE  DogOK'
<1>1. dog' = dog
  BY ThreadStepMoves DEF Moved
<1>2. ASSUME dog.pc \in {"reads", "walks"}, dog.doomed
      PROVE  \E S \in SUBSET Threads :
               /\ Closed(S)' /\ dog'.visited \subseteq S
               /\ \E u \in S : dog'.m = mutex_wait'[u] /\ dog'.other = other_wait'[u]
               /\ \A u \in S \ dog'.unread :
                    \A m \in ToSet(held'[u].items) : dog'.mutex_to_tid[m] = u
  <2>1. PICK S \in SUBSET Threads :
          /\ Closed(S) /\ dog.visited \subseteq S
          /\ \E u \in S : dog.m = mutex_wait[u] /\ dog.other = other_wait[u]
          /\ \A u \in S \ dog.unread : \A m \in ToSet(held[u].items) : dog.mutex_to_tid[m] = u
    BY <1>2 DEF DogOK
  <2>2. Closed(S)' /\ \A u \in S : /\ mutex_wait'[u] = mutex_wait[u] /\ held'[u] = held[u]
                                   /\ other_wait'[u] = other_wait[u]
    BY <2>1, ClosedStays DEF Stays
  <2> WITNESS S \in SUBSET Threads
  <2> QED BY <1>1, <2>1, <2>2
<1> QED BY <1>1, <1>2 DEF DogOK

LEMMA StutterOK ==
  ASSUME IInv, DogOK, UNCHANGED mutexVars
  PROVE  IInv' /\ DogOK'
<1>1. DogUnchanged /\ dog' = dog /\ dog \in Dogs
  BY DEF mutexVars, DogUnchanged, IInv, TypeOK
<1>2. IInv' /\ \A S \in SUBSET Threads : Closed(S) => Closed(S)'
  BY <1>1, DogStepKeeps
<1>3. DogOK'
  <2>1. /\ mutex_wait' = mutex_wait /\ other_wait' = other_wait /\ held' = held
    BY <1>1 DEF DogUnchanged
  <2> QED BY <1>1, <1>2, <2>1 DEF DogOK
<1> QED BY <1>2, <1>3

LEMMA NextIs ==
  ASSUME AudioMutexAssumption, MutexNext
  PROVE  \/ \E t \in Threads : ThreadStep(t)
         \/ \E t \in Threads : DetectionStarts(t)
         \/ \E t \in Threads : DetectionReads(t)
         \/ DetectionWalks \/ DetectionReturns
<1>1. Watched \subseteq Threads
  BY DEF AudioMutexAssumption
<1> QED BY <1>1 DEF MutexNext, ThreadStep

LEMMA NextKeeps ==
  ASSUME AudioMutexAssumption, IInv, [MutexNext]_mutexVars
  PROVE  IInv'
<1>1. ASSUME NEW t \in Threads, ThreadStep(t) PROVE IInv'
  BY <1>1, ThreadStepMoves, MovedAll
<1>2. CASE DetectionReturns
  <2>1. dog' = Idle /\ DogUnchanged /\ Idle \in Dogs
    BY <1>2 DEF DetectionReturns, Idle, Dogs
  <2> QED BY <2>1, DogStepKeeps
<1>3. CASE UNCHANGED mutexVars
  <2>1. DogUnchanged /\ dog' \in Dogs
    BY <1>3 DEF mutexVars, DogUnchanged, IInv, TypeOK
  <2> QED BY <2>1, DogStepKeeps
<1> QED BY <1>1, <1>2, <1>3, NextIs, StartsKeeps, ReadsKeeps, WalksKeeps

LEMMA NextDog ==
  ASSUME AudioMutexAssumption, IsFiniteSet(Threads), IInv, DogOK, [MutexNext]_mutexVars
  PROVE  DogOK'
BY NextIs, ThreadStepDog, StartsOK, ReadsOK, WalksOK, ReturnsOK, StutterOK

-----------------------------------------------------------------------------
(* Cycles of mutexes *)

\* byMutex of NoMutexCycle
ByMutex(t) == IF pc[t] \in {"blocked", "wakes"} THEN owner[mutex[t]] ELSE NoThread

LEMMA ByMutexChain ==
  ASSUME IsFiniteSet(Threads), NEW t \in Threads, LeadsIntoCycle(t, ByMutex),
         \A u \in Threads : ByMutex(u) \in Threads \cup {NoThread}, NoThread \notin Threads
  PROVE  \E r : Links(r, t, [u \in Threads |-> ByMutex(u)]) /\ r[Cardinality(Threads)] # NoThread
<1> DEFINE N == Cardinality(Threads)
           A == [u \in Threads |-> ByMutex(u)]
           After(r, n) == IF n = 0 THEN t
                          ELSE IF r[n - 1] = NoThread THEN NoThread ELSE ByMutex(r[n - 1])
           Good(r) == r = [n \in 0 .. N |-> After(r, n)]
<1>1. N \in Nat /\ A \in [Threads -> Threads \cup {NoThread}]
  BY FS_CardinalityType
<1>2. ASSUME NEW r,
             \A n \in 0 .. N : r[n] \in Threads \cup {NoThread}
      PROVE  Good(r) <=> r = Following(r, t, A)
  <2>1. \A n \in 0 .. N :
          After(r, n) = IF n = 0 THEN t ELSE IF r[n - 1] = NoThread THEN NoThread ELSE A[r[n - 1]]
    <3> TAKE n \in 0 .. N
    <3>1. n # 0 => r[n - 1] \in Threads \cup {NoThread}
      BY <1>1, <1>2
    <3> QED BY <3>1
  <2> HIDE DEF After, A
  <2> QED BY <2>1 DEF Following
<1>3. \E r : Good(r)
  <2>1. PICK r : r = Following(r, t, A)
    BY <1>1, ChainExists
  <2> HIDE DEF A
  <2>2. Links(r, t, A)
    BY <1>1, <2>1, ChainLinks
  <2> HIDE DEF Good
  <2> QED BY <1>2, <2>1, <2>2 DEF Links
<1>4. PICK r : Good(r) /\ r[N] # NoThread
  <2>1. LeadsIntoCycle(t, ByMutex) = ((CHOOSE r : Good(r))[N] # NoThread)
    BY DEF LeadsIntoCycle
  <2> HIDE DEF Good
  <2>2. Good(CHOOSE r : Good(r))
    BY <1>3, Zenon
  <2> QED BY <2>1, <2>2
<1>5. \A n \in 0 .. N : r[n] \in Threads \cup {NoThread}
  <2> DEFINE G == {n \in 0 .. N : r[n] \in Threads \cup {NoThread}}
  <2>1. \A n \in 0 .. N : r[n] = After(r, n)
    <3> HIDE DEF After
    <3> QED BY <1>4
  <2>2. 0 \in G
    BY <1>1, <2>1
  <2>3. \A k \in 0 .. N - 1 : k \in G => k + 1 \in G
    <3> TAKE k \in 0 .. N - 1
    <3> HAVE k \in G
    <3>1. k + 1 \in 0 .. N /\ k + 1 # 0 /\ (k + 1) - 1 = k
      BY <1>1
    <3> HIDE DEF N
    <3> QED BY <2>1, <3>1
  <2> HIDE DEF G, N
  <2>4. \A k \in 0 .. N : k \in G
    BY <1>1, <2>2, <2>3, UpTo, Zenon
  <2> QED BY <2>4 DEF G
<1>6. r = Following(r, t, A)
  <2> HIDE DEF Good, A
  <2> QED BY <1>2, <1>4, <1>5
<1> HIDE DEF A, Good
<1>7. Links(r, t, A)
  BY <1>1, <1>6, ChainLinks
<1>8. Links(r, t, A) /\ r[Cardinality(Threads)] # NoThread
  BY <1>4, <1>7
<1> QED BY <1>8 DEF A

\* A link of a chain by mutexes: the mutex that a thread waits for is of a lower order
\* than the one its owner waits for.
LEMMA OrderRises ==
  ASSUME AudioMutexAssumption, IInv, Ordered, \A t \in Threads : Complete(held[t]),
         NEW u \in Threads, NEW v \in Threads, ByMutex(u) = v, ByMutex(v) \in Threads
  PROVE  Order[mutex[u]] < Order[mutex[v]]
<1>1. /\ pc[u] \in {"blocked", "wakes"} /\ pc[v] \in {"blocked", "wakes"}
      /\ v = owner[mutex[u]]
  BY DEF ByMutex, AudioMutexAssumption
<1>2. mutex[u] \in Owned(v) /\ Noted(v) = Owned(v)
  BY <1>1, Ready DEF NotesOK, Waiting, Owned, Noted, InCall
<1>3. pc[v] = "blocked" /\ Below(held[v], mutex[v])
  BY <1>1, <1>2, Ready DEF OrderOK
<1> PICK s : s = held[v]
  OBVIOUS
<1>4. s \in Stack /\ mutex[u] \in ToSet(s.items)
  BY <1>2, CompleteStack, Ready
<1>5. \E i \in 1 .. Len(s.items) : s.items[i] = mutex[u]
  BY <1>4, StackType
<1> QED BY <1>3, <1>4, <1>5, StackType DEF Below

LEMMA NoCycleByMutex ==
  ASSUME AudioMutexAssumption, IInv, Ordered, IsFiniteSet(Threads),
         \A t \in Threads : Complete(held[t]), NEW t \in Threads, LeadsIntoCycle(t, ByMutex)
  PROVE  FALSE
<1> DEFINE N == Cardinality(Threads)
           A == [u \in Threads |-> ByMutex(u)]
<1>1. /\ NoThread \notin Threads /\ Order \in [Mutexes -> Nat]
      /\ \A u \in Threads : ByMutex(u) \in Threads \cup {NoThread}
  BY Ready DEF AudioMutexAssumption, ByMutex, NotesOK, OwnerOK, Waiting
<1>2. A \in [Threads -> Threads \cup {NoThread}] /\ \A u \in Threads : A[u] = ByMutex(u)
  BY <1>1
<1>3. PICK r : Links(r, t, A) /\ r[N] # NoThread
  BY <1>1, ByMutexChain
<1> HIDE DEF A
<1>4. PICK i \in 0 .. N, j \in 0 .. N :
        /\ i < j /\ r[i] = r[j]
        /\ \A n \in 0 .. j - 1 : r[n] \in Threads /\ A[r[n]] = r[n + 1] /\ r[n + 1] \in Threads
  BY <1>1, <1>2, <1>3, EndlessChain
<1>5. i \in Nat /\ j \in Nat /\ i \in 0 .. j - 1 /\ j - 1 \in 0 .. j - 1 /\ j - 1 - i \in Nat
  <2>1. N \in Nat
    BY FS_CardinalityType
  <2> HIDE DEF N
  <2> QED BY <1>4, <2>1
<1> DEFINE o(n) == Order[mutex[r[n]]]
<1>6. \A n \in 0 .. j - 1 : ByMutex(r[n]) = r[n + 1] /\ r[n] \in Threads /\ r[n + 1] \in Threads
  BY <1>2, <1>4
<1>7. \A n \in 0 .. j - 1 : o(n) \in Nat
  <2> TAKE n \in 0 .. j - 1
  <2>1. pc[r[n]] \in {"blocked", "wakes"} /\ r[n] \in Threads
    BY <1>1, <1>6 DEF ByMutex
  <2>2. mutex[r[n]] \in Mutexes
    BY <2>1, Ready DEF NotesOK, Waiting
  <2> QED BY <1>1, <2>2
<1>8. \A n \in 0 .. j - 1 : n + 1 \in 0 .. j - 1 => o(n) < o(n + 1)
  BY <1>6, OrderRises
<1>9. o(j - 1) < o(i)
  <2>1. (j - 1) + 1 = j /\ ByMutex(r[j - 1]) = r[i] /\ r[j - 1] \in Threads
    BY <1>4, <1>5, <1>6
  <2> QED BY <1>5, <1>6, <2>1, OrderRises
<1> HIDE DEF o
<1> DEFINE G == {k \in 0 .. j - 1 - i : o(i) =< o(i + k)}
<1>10. 0 \in G
  BY <1>5, <1>7
<1>11. \A k \in 0 .. (j - 1 - i) - 1 : k \in G => k + 1 \in G
  <2> TAKE k \in 0 .. (j - 1 - i) - 1
  <2> HAVE k \in G
  <2>1. /\ i + k \in 0 .. j - 1 /\ i + (k + 1) = (i + k) + 1 /\ (i + k) + 1 \in 0 .. j - 1
        /\ k + 1 \in 0 .. j - 1 - i
    BY <1>5
  <2>2. o(i + k) < o((i + k) + 1) /\ o(i) =< o(i + k)
    BY <1>8, <2>1
  <2>3. o(i) \in Nat /\ o(i + k) \in Nat /\ o((i + k) + 1) \in Nat
    BY <1>5, <1>7, <2>1
  <2>4. o(i) =< o(i + (k + 1))
    BY <2>1, <2>2, <2>3
  <2> QED BY <2>1, <2>4
<1> HIDE DEF G
<1>12. \A k \in 0 .. j - 1 - i : k \in G
  BY <1>5, <1>10, <1>11, UpTo, Zenon
<1>13. o(i) =< o(j - 1)
  <2>1. j - 1 - i \in 0 .. j - 1 - i /\ i + (j - 1 - i) = j - 1
    BY <1>5
  <2> QED BY <1>12, <2>1 DEF G
<1> QED BY <1>5, <1>7, <1>9, <1>13

-----------------------------------------------------------------------------
\* The inductive invariant: types, and for every thread the notes of the mutexes it holds
\* and of those it waits for, and the order of what it holds.
THEOREM Invariant ==
  ASSUME AudioMutexAssumption
  PROVE  MutexSpec => []IInv
<1>1. MutexInit => IInv
  BY InitOK
<1>2. IInv /\ [MutexNext]_mutexVars => IInv'
  BY NextKeeps
<1> QED BY <1>1, <1>2, PTL DEF MutexSpec

\* Outside of a call a thread has noted what it owns, whatever the order of its unlocks,
\* so that no unlock() aborts (lines 628-680): for any number of threads and mutexes, any
\* order and any depth, nested condition waits included.
THEOREM NotesRight ==
  ASSUME AudioMutexAssumption
  PROVE  MutexSpec => []NotesAreRight
<1>1. IInv => NotesAreRight
  <2> SUFFICES ASSUME IInv, NEW t \in Threads, pc[t] = "runs"
               PROVE  /\ ToSet(held[t].items) \subseteq Owned(t)
                      /\ held[t].true_top = Cardinality(Owned(t))
                      /\ \A m \in Owned(t) : Removable(held[t], m)
    BY DEF NotesAreRight
  <2>1. StackOK(held[t], Owned(t)) /\ held[t] \in Stack
    BY Ready DEF Noted, InCall
  <2>2. \A m \in Owned(t) : Removable(held[t], m)
    BY <2>1, RemovedOK
  <2> QED BY <2>1, <2>2 DEF StackOK
<1> QED BY <1>1, Invariant, PTL

\* The order check alone excludes deadlocks by mutexes (lines 828-842), of any number of
\* threads, when no mutex is held in a condition wait and no two have the same order.
THEOREM NoCycle ==
  ASSUME AudioMutexAssumption, IsFiniteSet(Threads), ~ NestedWaits,
         \A m, n \in Mutexes : Order[m] = Order[n] => m = n
  PROVE  MutexSpec => []NoMutexCycle
<1>1. IInv => NoMutexCycle
  <2> SUFFICES ASSUME IInv, \A t \in Threads : Complete(held[t]), NEW t \in Threads,
                      LeadsIntoCycle(t, ByMutex)
               PROVE  FALSE
    BY DEF NoMutexCycle, ByMutex, LeadsIntoCycle
  <2> QED BY NoCycleByMutex DEF Ordered
<1> QED BY <1>1, Invariant, PTL

\* A deadlock that is there when deadlock_detection() is called is found, whatever the
\* other threads do meanwhile to the notes that it reads (lines 1110-1222).
THEOREM DeadlocksFound ==
  ASSUME AudioMutexAssumption, IsFiniteSet(Threads)
  PROVE  MutexSpec => []DeadlockIsFound
<1>1. MutexInit => IInv /\ DogOK
  BY InitOK
<1>2. IInv /\ DogOK /\ [MutexNext]_mutexVars => (IInv /\ DogOK)'
  BY NextKeeps, NextDog
<1>3. DogOK => DeadlockIsFound
  BY DEF DogOK, DeadlockIsFound
<1> QED BY <1>1, <1>2, <1>3, PTL DEF MutexSpec

=============================================================================
