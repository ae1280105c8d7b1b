-------------------------- MODULE AudioRouteProofs --------------------------
(* Proofs about AudioRoute: types and sizes, no control twice in a path, exact  *)
(* use counts, shared controls that are kept, and, of the controls that are     *)
(* always sent whole, that they are settled and go back to their reset values.  *)
EXTENDS AudioRoute, TLAPS, SequenceTheorems, FiniteSetTheorems, WellFoundedInduction

-----------------------------------------------------------------------------
(* Values *)

\* A control whose values are always compared, copied and sent together.
Plain(c) == Kind[c] = "int" \/ NumValues[c] = 1

LEMMA Controlled ==
  ASSUME NEW c \in Controls
  PROVE  /\ NumValues[c] \in Nat /\ NumValues[c] >= 1
         /\ Kind[c] \in {"int", "enum", "tlv"}
         /\ MixerStart[c] \in Seq(Int) /\ Len(MixerStart[c]) = NumValues[c]
         /\ MixerStart[c] \in [1 .. NumValues[c] -> Int]
<1>1. /\ Kind \in [Controls -> {"int", "enum", "tlv"}]
      /\ NumValues \in [Controls -> Nat \ {0}]
      /\ MixerStart[c] \in Seq(Int) /\ Len(MixerStart[c]) = NumValues[c]
  BY AudioRouteAssumption
<1>2. NumValues[c] \in Nat \ {0} /\ Kind[c] \in {"int", "enum", "tlv"}
  BY <1>1
<1>3. MixerStart[c] \in [1 .. Len(MixerStart[c]) -> Int]
  BY <1>1, LenProperties
<1> QED BY <1>1, <1>2, <1>3

LEMMA Tagged ==
  ASSUME NEW t \in CtlTags
  PROVE  /\ t.ctl \in Controls /\ t.index \in Nat
         /\ t.values \in Seq(Int) /\ Len(t.values) \in 1 .. NumValues[t.ctl]
         /\ t.values \in [1 .. Len(t.values) -> Int]
         /\ Kind[t.ctl] = "int" /\ t.index = 0 => Len(t.values) = NumValues[t.ctl]
<1>1. /\ t.ctl \in Controls /\ t.index \in Nat
      /\ t.values \in Seq(Int) /\ Len(t.values) \in 1 .. NumValues[t.ctl]
      /\ Kind[t.ctl] = "int" /\ t.index = 0 => Len(t.values) = NumValues[t.ctl]
  BY AudioRouteAssumption
<1> QED BY <1>1, LenProperties

LEMMA ValueFacts ==
  ASSUME NEW c \in Controls, NEW v \in Value(c)
  PROVE  /\ v.cells \in [1 .. NumValues[c] -> Int] /\ v.size \in 1 .. NumValues[c]
         /\ v = [cells |-> v.cells, size |-> v.size]
         /\ Kind[c] # "tlv" => v.size = NumValues[c]
         /\ Plain(c) => v.size = NumValues[c]
         /\ DOMAIN v.cells = 1 .. NumValues[c]
<1>1. /\ v \in [cells : [1 .. NumValues[c] -> Int], size : 1 .. NumValues[c]]
      /\ Kind[c] # "tlv" => v.size = NumValues[c]
  BY DEF Value
<1>2. /\ v.cells \in [1 .. NumValues[c] -> Int] /\ v.size \in 1 .. NumValues[c]
      /\ v = [cells |-> v.cells, size |-> v.size]
  BY <1>1
<1>3. Plain(c) => v.size = NumValues[c]
  BY <1>1, <1>2, Controlled DEF Plain
<1> QED BY <1>1, <1>2, <1>3

LEMMA AValue ==
  ASSUME NEW c \in Controls, NEW f \in [1 .. NumValues[c] -> Int], NEW n \in 1 .. NumValues[c],
         Kind[c] # "tlv" => n = NumValues[c]
  PROVE  [cells |-> f, size |-> n] \in Value(c)
BY DEF Value

LEMMA AllOfValue ==
  ASSUME NEW c \in Controls, NEW f \in [1 .. NumValues[c] -> Int]
  PROVE  AllOf(f) \in Value(c) /\ AllOf(f) = [cells |-> f, size |-> NumValues[c]]
<1>1. NumValues[c] \in Nat /\ NumValues[c] >= 1
  BY Controlled
<1>2. Len(f) = NumValues[c]
  BY <1>1, LenProperties
<1> QED BY <1>1, <1>2, AValue DEF AllOf

LEMMA SameFunction ==
  ASSUME NEW S, NEW T, NEW f \in [S -> T], NEW g \in [S -> T], \A x \in S : f[x] = g[x]
  PROVE  f = g
OBVIOUS

LEMMA CopiedValue ==
  ASSUME NEW c \in Controls, NEW d \in Value(c), NEW v \in Value(c)
  PROVE  CopiedOver(d, v) \in Value(c) /\ (Plain(c) => CopiedOver(d, v) = v)
<1> DEFINE f == [i \in DOMAIN d.cells |-> IF i =< v.size THEN v.cells[i] ELSE d.cells[i]]
<1>1. NumValues[c] \in Nat
  BY Controlled
<1>2. f \in [1 .. NumValues[c] -> Int]
  <2>1. DOMAIN d.cells = 1 .. NumValues[c] /\ d.cells \in [1 .. NumValues[c] -> Int]
        /\ v.cells \in [1 .. NumValues[c] -> Int]
    BY ValueFacts
  <2> QED BY <2>1
<1>3. CopiedOver(d, v) = [cells |-> f, size |-> v.size]
  BY DEF CopiedOver
<1>4. v.size \in 1 .. NumValues[c] /\ (Kind[c] # "tlv" => v.size = NumValues[c])
  BY ValueFacts
<1>5. ASSUME Plain(c) PROVE f = v.cells
  <2>1. v.size = NumValues[c] /\ DOMAIN d.cells = 1 .. NumValues[c]
        /\ v.cells \in [1 .. NumValues[c] -> Int]
    BY <1>5, ValueFacts
  <2>2. ASSUME NEW i \in 1 .. NumValues[c] PROVE f[i] = v.cells[i]
    <3>1. i \in DOMAIN d.cells /\ i =< v.size
      BY <1>1, <2>1
    <3> QED BY <3>1
  <2>3. PICK n, g : n = NumValues[c] /\ g = v.cells
    OBVIOUS
  <2> HIDE DEF f
  <2>4. f \in [1 .. n -> Int] /\ g \in [1 .. n -> Int] /\ \A i \in 1 .. n : f[i] = g[i]
    BY <1>2, <2>1, <2>2, <2>3
  <2>5. f = [i \in 1 .. n |-> f[i]] /\ g = [i \in 1 .. n |-> g[i]]
    BY <2>4
  <2> QED BY <2>3, <2>4, <2>5
<1>6. v = [cells |-> v.cells, size |-> v.size]
  BY ValueFacts
<1> HIDE DEF f
<1> QED BY <1>2, <1>3, <1>4, <1>5, <1>6, AValue

\* The prefix of the cells that is in use.
LEMMA Used ==
  ASSUME NEW c \in Controls, NEW f \in [1 .. NumValues[c] -> Int], NEW n \in 1 .. NumValues[c]
  PROVE  /\ SubSeq(f, 1, n) \in Seq(Int) /\ Len(SubSeq(f, 1, n)) = n
         /\ n = NumValues[c] => SubSeq(f, 1, n) = f
<1>1. NumValues[c] \in Nat
  BY Controlled
<1>2. f \in Seq(Int) /\ Len(f) = NumValues[c]
  BY <1>1, LenProperties, SeqDef
<1>3. SubSeq(f, 1, n) \in Seq(Int) /\ Len(SubSeq(f, 1, n)) = n
  BY <1>1, <1>2, SubSeqProperties
<1>4. ASSUME n = NumValues[c] PROVE SubSeq(f, 1, n) = f
  <2>1. SubSeq(f, 1, n) = [i \in 1 .. n |-> f[i]]
    BY <1>1, <1>2, SubSeqProperties, LenProperties
  <2> QED BY <1>4, <2>1
<1> QED BY <1>3, <1>4

-----------------------------------------------------------------------------
(* One control *)

LEMMA MixerStateFacts ==
  ASSUME NEW c \in Controls, NEW m \in MixerState(c)
  PROVE  /\ m.hw \in Seq(Int) /\ Len(m.hw) \in 1 .. NumValues[c]
         /\ m.old \in Value(c) /\ m.new \in Value(c) /\ m.reset \in Value(c)
         /\ m.active_count \in Nat /\ m.held \in [Names -> Nat] /\ m.paired \in BOOLEAN
         /\ DOMAIN m = {"hw", "old", "new", "reset", "active_count", "held", "paired"}
BY DEF MixerState

\* mixer_set_value_if_changed() gives the mixer a value of the right size and remembers
\* it; the rest stays.  Of a plain control the mixer then has the new value.
LEMMA SetIfChangedEffect ==
  ASSUME NEW c \in Controls, NEW m \in MixerState(c)
  PROVE  LET s == SetIfChanged(c, m)
         IN  /\ s \in MixerState(c)
             /\ s.new = m.new /\ s.reset = m.reset /\ s.active_count = m.active_count
             /\ s.held = m.held /\ s.paired = m.paired
             /\ Plain(c) /\ m.hw = m.old.cells => s.hw = m.new.cells /\ s.old = m.new
<1> DEFINE g == Given(c, m)
           o == CopiedOver(m.old, m.new)
<1>1. /\ m.hw \in Seq(Int) /\ Len(m.hw) \in 1 .. NumValues[c]
      /\ m.old \in Value(c) /\ m.new \in Value(c) /\ m.reset \in Value(c)
  BY MixerStateFacts
<1>2. /\ NumValues[c] \in Nat /\ NumValues[c] >= 1 /\ Kind[c] \in {"int", "enum", "tlv"}
  BY Controlled
<1>3. /\ m.new.cells \in [1 .. NumValues[c] -> Int] /\ m.new.size \in 1 .. NumValues[c]
      /\ m.old.cells \in [1 .. NumValues[c] -> Int] /\ m.old.size \in 1 .. NumValues[c]
      /\ m.new = [cells |-> m.new.cells, size |-> m.new.size]
      /\ m.old = [cells |-> m.old.cells, size |-> m.old.size]
      /\ Plain(c) => m.new.size = NumValues[c] /\ m.old.size = NumValues[c]
  BY <1>1, ValueFacts
<1>4. o \in Value(c) /\ (Plain(c) => o = m.new)
  BY <1>1, CopiedValue
<1>5. Sent(c, m) \in 1 .. NumValues[c]
  BY <1>2, <1>3 DEF Sent
<1>6. g \in Seq(Int) /\ Len(g) \in 1 .. NumValues[c]
  <2>1. CASE Kind[c] = "enum"
    <3>1. g = [m.hw EXCEPT ![1] = m.new.cells[1]]
      BY <2>1 DEF Given
    <3>2. 1 \in 1 .. NumValues[c] /\ 1 \in 1 .. Len(m.hw)
      BY <1>1, <1>2
    <3>3. m.new.cells[1] \in Int
      BY <1>3, <3>2
    <3> HIDE DEF g
    <3> QED BY <1>1, <3>1, <3>2, <3>3, ExceptSeq
  <2>2. CASE Kind[c] # "enum"
    BY <1>3, <1>5, <2>2, Used DEF Given
  <2> QED BY <2>1, <2>2
<1>7. ASSUME Plain(c), m.hw = m.old.cells PROVE g = m.new.cells
  <2>1. CASE Kind[c] = "enum"
    <3>1. NumValues[c] = 1
      BY <1>7, <2>1 DEF Plain
    <3>2. g = [m.hw EXCEPT ![1] = m.new.cells[1]]
      BY <2>1 DEF Given
    <3> HIDE DEF g
    <3>3. g = [i \in 1 .. 1 |-> m.new.cells[i]]
      BY <1>3, <1>7, <3>1, <3>2
    <3> QED BY <1>3, <3>1, <3>3
  <2>2. CASE Kind[c] # "enum"
    <3>1. Sent(c, m) = NumValues[c]
      BY <1>3, <1>7 DEF Sent
    <3> QED BY <1>2, <1>3, <2>2, <3>1, Used DEF Given
  <2> QED BY <2>1, <2>2
<1>8. CASE \E i \in 1 .. Sent(c, m) : m.old.cells[i] # m.new.cells[i]
  <2>1. SetIfChanged(c, m) = [m EXCEPT !.hw = g, !.old = o]
    BY <1>8 DEF SetIfChanged
  <2> HIDE DEF g, o
  <2>2. [m EXCEPT !.hw = g, !.old = o] \in MixerState(c)
    BY <1>4, <1>6 DEF MixerState
  <2> QED BY <1>4, <1>7, <2>1, <2>2, MixerStateFacts
<1>9. CASE ~ \E i \in 1 .. Sent(c, m) : m.old.cells[i] # m.new.cells[i]
  <2>1. SetIfChanged(c, m) = m
    BY <1>9 DEF SetIfChanged
  <2>2. ASSUME Plain(c) PROVE m.old = m.new
    <3>1. Sent(c, m) = NumValues[c]
      BY <1>3, <2>2 DEF Sent
    <3>2. \A i \in 1 .. NumValues[c] : m.old.cells[i] = m.new.cells[i]
      BY <1>9, <3>1
    <3>3. m.old.cells = m.new.cells
      <4> DEFINE a == m.old.cells
                 b == m.new.cells
                 N == 1 .. NumValues[c]
      <4>1. a \in [N -> Int] /\ b \in [N -> Int] /\ \A i \in N : a[i] = b[i]
        BY <1>3, <3>2
      <4> HIDE DEF a, b, N
      <4>2. a = b
        BY <4>1, SameFunction
      <4> QED BY <4>2 DEF a, b
    <3> QED BY <1>3, <2>2, <3>3
  <2> QED BY <2>1, <2>2
<1> QED BY <1>8, <1>9

-----------------------------------------------------------------------------
(* Applications that are not reset *)

Applications(held) == UNION {{p} \X (1 .. held[p]) : p \in Names}

LEMMA ApplicationsAre ==
  ASSUME NEW held \in [Names -> Nat]
  PROVE  /\ \A x : x \in Applications(held) <=>
                     \E p \in Names, k \in Nat : x = <<p, k>> /\ k \in 1 .. held[p]
         /\ IsFiniteSet(Applications(held))
<1>1. \A x : x \in Applications(held) <=>
               \E p \in Names, k \in Nat : x = <<p, k>> /\ k \in 1 .. held[p]
  <2>1. ASSUME NEW x, x \in Applications(held)
        PROVE  \E p \in Names, k \in Nat : x = <<p, k>> /\ k \in 1 .. held[p]
    <3>1. PICK p \in Names : x \in {p} \X (1 .. held[p])
      BY <2>1 DEF Applications
    <3>2. PICK k \in 1 .. held[p] : x = <<p, k>>
      BY <3>1
    <3>3. k \in Nat
      BY <3>2
    <3> QED BY <3>2, <3>3
  <2>2. ASSUME NEW p \in Names, NEW k \in 1 .. held[p] PROVE <<p, k>> \in Applications(held)
    <3>1. <<p, k>> \in {p} \X (1 .. held[p])
      OBVIOUS
    <3> QED BY <3>1, Zenon DEF Applications
  <2> QED BY <2>1, <2>2
<1>2. IsFiniteSet(Applications(held))
  <2> DEFINE Image == {{p} \X (1 .. held[p]) : p \in Names}
             f == [p \in Names |-> {p} \X (1 .. held[p])]
  <2>1. IsFiniteSet(Image)
    <3>1. IsFiniteSet(Names)
      BY AudioRouteAssumption
    <3>2. f \in Surjection(Names, Image)
      BY DEF Surjection
    <3> HIDE DEF f, Image
    <3> QED BY <3>1, <3>2, FS_Surjection
  <2>2. \A T \in Image : IsFiniteSet(T)
    <3>1. ASSUME NEW p \in Names PROVE IsFiniteSet({p} \X (1 .. held[p]))
      <4>1. IsFiniteSet({p}) /\ IsFiniteSet(1 .. held[p])
        <5>1. held[p] \in Int /\ 1 \in Int
          OBVIOUS
        <5> QED BY <5>1, FS_Singleton, FS_Interval
      <4> QED BY <4>1, FS_Product
    <3> QED BY <3>1
  <2> HIDE DEF Image
  <2>3. IsFiniteSet(UNION Image)
    BY <2>1, <2>2, FS_UNION
  <2> QED BY <2>3 DEF Image, Applications
<1> QED BY <1>1, <1>2

LEMMA TotalFacts ==
  ASSUME NEW held \in [Names -> Nat]
  PROVE  /\ Total(held) \in Nat
         /\ Total(held) = 0 <=> \A p \in Names : held[p] = 0
<1>1. Total(held) = Cardinality(Applications(held))
  BY DEF Total, Applications
<1>2. IsFiniteSet(Applications(held))
  BY ApplicationsAre
<1>3. Total(held) \in Nat /\ (Total(held) = 0 <=> Applications(held) = {})
  BY <1>1, <1>2, FS_CardinalityType, FS_EmptySet
<1>4. Applications(held) = {} <=> \A p \in Names : held[p] = 0
  <2>1. ASSUME NEW p \in Names, held[p] # 0 PROVE <<p, 1>> \in Applications(held)
    <3>1. 1 \in Nat /\ 1 \in 1 .. held[p]
      BY <2>1
    <3> QED BY <3>1, ApplicationsAre
  <2>2. ASSUME \A p \in Names : held[p] = 0 PROVE Applications(held) = {}
    <3>1. \A p \in Names : 1 .. held[p] = {}
      BY <2>2
    <3> QED BY <3>1, ApplicationsAre
  <2> QED BY <2>1, <2>2
<1> QED BY <1>3, <1>4

LEMMA TotalOfNone == Total([q \in Names |-> 0]) = 0
<1> DEFINE none == [q \in Names |-> 0]
<1>1. none \in [Names -> Nat] /\ \A p \in Names : none[p] = 0
  OBVIOUS
<1> HIDE DEF none
<1>2. Total(none) = 0
  BY <1>1, TotalFacts
<1> QED BY <1>2 DEF none

LEMMA TotalUp ==
  ASSUME NEW held \in [Names -> Nat], NEW p \in Names
  PROVE  /\ [held EXCEPT ![p] = held[p] + 1] \in [Names -> Nat]
         /\ Total([held EXCEPT ![p] = held[p] + 1]) = Total(held) + 1
<1> DEFINE more == [held EXCEPT ![p] = held[p] + 1]
           x == <<p, held[p] + 1>>
<1>1. more \in [Names -> Nat] /\ held[p] \in Nat
      /\ \A q \in Names : more[q] = IF q = p THEN held[p] + 1 ELSE held[q]
  OBVIOUS
<1>2. Applications(more) = Applications(held) \cup {x}
  <2> HIDE DEF more
  <2>1. ASSUME NEW y \in Applications(more) PROVE y \in Applications(held) \cup {x}
    <3>1. PICK q \in Names, k \in Nat : y = <<q, k>> /\ k \in 1 .. more[q]
      BY <1>1, <2>1, ApplicationsAre
    <3>2. k \in 1 .. held[q] \/ (q = p /\ k = held[p] + 1)
      BY <1>1, <3>1
    <3> QED BY <3>1, <3>2, ApplicationsAre
  <2>2. ASSUME NEW y \in Applications(held) PROVE y \in Applications(more)
    <3>1. PICK q \in Names, k \in Nat : y = <<q, k>> /\ k \in 1 .. held[q]
      BY <2>2, ApplicationsAre
    <3>2. k \in 1 .. more[q]
      BY <1>1, <3>1
    <3> QED BY <1>1, <3>1, <3>2, ApplicationsAre
  <2>3. x \in Applications(more)
    <3>1. held[p] + 1 \in Nat /\ held[p] + 1 \in 1 .. more[p]
      BY <1>1
    <3> QED BY <1>1, <3>1, ApplicationsAre
  <2> QED BY <2>1, <2>2, <2>3
<1>3. x \notin Applications(held)
  <2>1. held[p] + 1 \notin 1 .. held[p]
    BY <1>1
  <2> QED BY <2>1, ApplicationsAre
<1>4. IsFiniteSet(Applications(held)) /\ Cardinality(Applications(held)) \in Nat
  BY ApplicationsAre, FS_CardinalityType
<1>5. Cardinality(Applications(more)) = Cardinality(Applications(held)) + 1
  <2> HIDE DEF more, x
  <2> QED BY <1>2, <1>3, <1>4, FS_AddElement
<1> QED BY <1>1, <1>5 DEF Total, Applications

LEMMA TotalDown ==
  ASSUME NEW held \in [Names -> Nat], NEW p \in Names, held[p] > 0
  PROVE  /\ [held EXCEPT ![p] = held[p] - 1] \in [Names -> Nat]
         /\ Total([held EXCEPT ![p] = held[p] - 1]) = Total(held) - 1
<1> DEFINE less == [held EXCEPT ![p] = held[p] - 1]
<1>1. less \in [Names -> Nat] /\ less[p] = held[p] - 1 /\ held[p] \in Nat
  OBVIOUS
<1>2. [less EXCEPT ![p] = less[p] + 1] = held
  <2>1. \A q \in Names : [less EXCEPT ![p] = less[p] + 1][q] = held[q]
    <3>1. less[p] + 1 = held[p]
      BY <1>1
    <3>2. \A q \in Names \ {p} : less[q] = held[q]
      OBVIOUS
    <3> HIDE DEF less
    <3> QED BY <1>1, <3>1, <3>2
  <2>2. [less EXCEPT ![p] = less[p] + 1] \in [Names -> Nat]
    BY <1>1, TotalUp
  <2> HIDE DEF less
  <2> QED BY <2>1, <2>2, SameFunction
<1> HIDE DEF less
<1>3. Total(held) = Total(less) + 1 /\ Total(less) \in Nat
  BY <1>1, <1>2, TotalUp, TotalFacts
<1>4. Total(less) = Total(held) - 1
  BY <1>3
<1> QED BY <1>1, <1>4 DEF less

-----------------------------------------------------------------------------
(* What a call makes of one control of its path *)

\* Of every control: its count, and what is remembered of the mixer.
ControlOK(c, m) ==
  /\ m \in MixerState(c)
  /\ m.paired => m.active_count = Total(m.held)
  /\ Plain(c) => m.hw = m.old.cells

\* After loading.
LoadedOK(c, m) ==
  Plain(c) /\ m.paired => m.old = m.new /\ (Total(m.held) = 0 => m.new = m.reset)

\* Before loading no path was applied.
FileOK(m) == m.paired /\ m.active_count = 0 /\ m.held = [p \in Names |-> 0]

\* The mixer keeps its value where an application goes and others stay.
Kept(m, k) ==
  m.paired /\ 0 < Total(k.held) /\ Total(k.held) < Total(m.held) => k.hw = m.hw

Fine(c, m, k) == ControlOK(c, k) /\ LoadedOK(c, k) /\ Kept(m, k)

LEMMA FineAsIs ==
  ASSUME NEW c, NEW m, ControlOK(c, m), LoadedOK(c, m)
  PROVE  Fine(c, m, m)
<1>1. ~ (Total(m.held) < Total(m.held)) \/ m.hw = m.hw
  OBVIOUS
<1> QED BY <1>1 DEF Fine, Kept

\* b does not say that the calls paired when they did not.
NotMore(b, m) == b \in BOOLEAN /\ (b => m.paired)

Renewed(k, m, v, b) == k = [m EXCEPT !.new = v, !.paired = b]

\* Another new value, and perhaps calls that do not pair.
LEMMA NewValue ==
  ASSUME NEW c \in Controls, NEW m, ControlOK(c, m), NEW v \in Value(c), NEW b, NotMore(b, m),
         NEW k, Renewed(k, m, v, b)
  PROVE  ControlOK(c, k) /\ Kept(m, k)
<1>1. m \in MixerState(c) /\ b \in BOOLEAN
  BY DEF ControlOK, NotMore
<1>2. k \in MixerState(c)
  BY <1>1 DEF MixerState, Renewed
<1>3. /\ k.old = m.old /\ k.reset = m.reset /\ k.held = m.held
      /\ k.active_count = m.active_count /\ k.paired = b /\ k.hw = m.hw
  BY <1>1, MixerStateFacts DEF Renewed
<1>4. ControlOK(c, k)
  BY <1>2, <1>3 DEF ControlOK, NotMore
<1>5. Kept(m, k)
  BY <1>3 DEF Kept
<1> QED BY <1>4, <1>5

LEMMA OnlyNew ==
  ASSUME NEW c \in Controls, NEW m, ControlOK(c, m), NEW v \in Value(c),
         NEW k, k = [m EXCEPT !.new = v]
  PROVE  /\ ControlOK(c, k)
         /\ k.old = m.old /\ k.new = v /\ k.reset = m.reset /\ k.held = m.held
         /\ k.active_count = m.active_count /\ k.paired = m.paired /\ k.hw = m.hw
<1>1. m \in MixerState(c)
  BY DEF ControlOK
<1>2. k \in MixerState(c)
  BY <1>1 DEF MixerState
<1>3. /\ k.old = m.old /\ k.new = v /\ k.reset = m.reset /\ k.held = m.held
      /\ k.active_count = m.active_count /\ k.paired = m.paired /\ k.hw = m.hw
  BY <1>1, MixerStateFacts
<1>4. ControlOK(c, k)
  BY <1>2, <1>3 DEF ControlOK
<1> QED BY <1>3, <1>4

\* path_apply() and path_reset()
LEMMA ApplyEffect ==
  ASSUME NEW c \in Controls, NEW m, ControlOK(c, m), NEW v \in Value(c), NEW p
  PROVE  LET k == Done("apply", p, c, m, v)
         IN  /\ ControlOK(c, k) /\ k = [m EXCEPT !.new = CopiedOver(m.new, v)]
             /\ k.old = m.old /\ k.reset = m.reset /\ k.held = m.held
             /\ k.active_count = m.active_count /\ k.paired = m.paired /\ k.hw = m.hw
<1>1. m.new \in Value(c)
  BY MixerStateFacts DEF ControlOK
<1>2. CopiedOver(m.new, v) \in Value(c)
  BY <1>1, CopiedValue
<1>3. Done("apply", p, c, m, v) = [m EXCEPT !.new = CopiedOver(m.new, v)]
  BY DEF Done
<1> DEFINE d == CopiedOver(m.new, v)
<1>4. d \in Value(c) /\ Done("apply", p, c, m, v) = [m EXCEPT !.new = d]
  BY <1>2, <1>3
<1> HIDE DEF d
<1>5. PICK k : k = Done("apply", p, c, m, v)
  OBVIOUS
<1>6. /\ ControlOK(c, k)
      /\ k.old = m.old /\ k.reset = m.reset /\ k.held = m.held
      /\ k.active_count = m.active_count /\ k.paired = m.paired /\ k.hw = m.hw
  BY <1>4, <1>5, OnlyNew
<1> QED BY <1>3, <1>5, <1>6

LEMMA ResetEffect ==
  ASSUME NEW c \in Controls, NEW m, ControlOK(c, m), NEW v, NEW p
  PROVE  LET k == Done("reset", p, c, m, v)
         IN  /\ ControlOK(c, k) /\ k = [m EXCEPT !.new = CopiedOver(m.new, m.reset)]
             /\ k.old = m.old /\ k.reset = m.reset /\ k.held = m.held
             /\ k.active_count = m.active_count /\ k.paired = m.paired /\ k.hw = m.hw
             /\ Plain(c) => k.new = m.reset
<1>1. m.new \in Value(c) /\ m.reset \in Value(c)
  BY MixerStateFacts DEF ControlOK
<1>2. CopiedOver(m.new, m.reset) \in Value(c) /\ (Plain(c) => CopiedOver(m.new, m.reset) = m.reset)
  BY <1>1, CopiedValue
<1>3. Done("reset", p, c, m, v) = [m EXCEPT !.new = CopiedOver(m.new, m.reset)]
  BY DEF Done
<1> DEFINE d == CopiedOver(m.new, m.reset)
<1>4. /\ d \in Value(c) /\ (Plain(c) => d = m.reset)
      /\ Done("reset", p, c, m, v) = [m EXCEPT !.new = d]
  BY <1>2, <1>3
<1> HIDE DEF d
<1>5. PICK k : k = Done("reset", p, c, m, v)
  OBVIOUS
<1>6. /\ ControlOK(c, k)
      /\ k.old = m.old /\ k.reset = m.reset /\ k.held = m.held /\ k.new = d
      /\ k.active_count = m.active_count /\ k.paired = m.paired /\ k.hw = m.hw
  BY <1>4, <1>5, OnlyNew
<1>7. Plain(c) => k.new = m.reset
  BY <1>4, <1>6
<1> QED BY <1>3, <1>5, <1>6, <1>7

\* audio_route_apply_and_update_path()
LEMMA ForwardEffect ==
  ASSUME NEW c \in Controls, NEW m, ControlOK(c, m), NEW v \in Value(c), NEW p \in Names, NEW w
  PROVE  Fine(c, m, Done("forward", p, c, Done("apply", p, c, m, v), w))
<1> DEFINE a == Done("apply", p, c, m, v)
           held == [a.held EXCEPT ![p] = a.held[p] + 1]
           b == [a EXCEPT !.active_count = a.active_count + 1, !.held = held]
           k == SetIfChanged(c, b)
<1>1. /\ ControlOK(c, a) /\ a \in MixerState(c)
      /\ a.held = m.held /\ a.paired = m.paired /\ a.hw = m.hw
  BY ApplyEffect DEF ControlOK
<1>2. Done("forward", p, c, a, w) = k
  BY DEF Done
<1>3. a.held \in [Names -> Nat] /\ a.active_count \in Nat
  <2> HIDE DEF a
  <2> QED BY <1>1, MixerStateFacts
<1> HIDE DEF a
<1>4. held \in [Names -> Nat] /\ Total(held) = Total(a.held) + 1 /\ Total(a.held) \in Nat
  BY <1>3, TotalUp, TotalFacts
<1> HIDE DEF held
<1>5. b \in MixerState(c)
  <2>1. a.active_count + 1 \in Nat
    BY <1>3
  <2> QED BY <1>1, <1>4, <2>1 DEF MixerState
<1>6. /\ b.hw = a.hw /\ b.old = a.old /\ b.new = a.new /\ b.paired = a.paired
      /\ b.active_count = a.active_count + 1 /\ b.held = held
  BY <1>1, MixerStateFacts
<1> HIDE DEF b
<1>7. /\ k \in MixerState(c) /\ k.new = b.new /\ k.active_count = b.active_count
      /\ k.held = b.held /\ k.paired = b.paired
      /\ Plain(c) /\ b.hw = b.old.cells => k.hw = b.new.cells /\ k.old = b.new
  BY <1>5, SetIfChangedEffect
<1> HIDE DEF k
<1>8. a.paired => a.active_count = Total(a.held)
  BY <1>1 DEF ControlOK
<1>9. Plain(c) => a.hw = a.old.cells
  BY <1>1 DEF ControlOK
<1>10. Plain(c) => k.hw = k.old.cells /\ k.old = k.new
  BY <1>6, <1>7, <1>9
<1>11. ControlOK(c, k)
  BY <1>4, <1>6, <1>7, <1>8, <1>10 DEF ControlOK
<1>12. LoadedOK(c, k)
  BY <1>4, <1>6, <1>7, <1>10 DEF LoadedOK
<1>13. Kept(m, k)
  BY <1>1, <1>4, <1>6, <1>7 DEF Kept
<1> QED BY <1>2, <1>11, <1>12, <1>13 DEF Fine, a

\* The count goes down to 0; only the last user gives the mixer a value.
LEMMA ReleasedEffect ==
  ASSUME NEW c \in Controls, NEW m \in MixerState(c), Plain(c) => m.hw = m.old.cells,
         NEW r, r = Released(c, m)
  PROVE  /\ r \in MixerState(c) /\ r.held = m.held /\ r.paired = m.paired /\ r.reset = m.reset
         /\ r.active_count = IF m.active_count = 0 THEN 0 ELSE m.active_count - 1
         /\ m.active_count > 1 => r.hw = m.hw
         /\ Plain(c) => r.hw = r.old.cells /\ r.old = r.new
         /\ Plain(c) /\ m.active_count =< 1 => r.new = m.new
<1>1. /\ m.old \in Value(c) /\ m.new \in Value(c) /\ m.active_count \in Nat
      /\ DOMAIN m = {"hw", "old", "new", "reset", "active_count", "held", "paired"}
  BY MixerStateFacts
<1>2. CASE m.active_count = 0
  <2>1. r = SetIfChanged(c, m)
    BY <1>2 DEF Released
  <2> QED BY <1>1, <1>2, <2>1, SetIfChangedEffect
<1>3. CASE m.active_count = 1
  <2> DEFINE z == [m EXCEPT !.active_count = 0]
  <2>1. r = SetIfChanged(c, z)
    BY <1>3 DEF Released
  <2>2. z \in MixerState(c)
    BY DEF MixerState
  <2>3. /\ z.hw = m.hw /\ z.old = m.old /\ z.new = m.new /\ z.reset = m.reset
        /\ z.active_count = 0 /\ z.held = m.held /\ z.paired = m.paired
    BY <1>1
  <2> HIDE DEF z
  <2>4. /\ r \in MixerState(c)
        /\ r.new = z.new /\ r.reset = z.reset /\ r.active_count = z.active_count
        /\ r.held = z.held /\ r.paired = z.paired
        /\ Plain(c) /\ z.hw = z.old.cells => r.hw = z.new.cells /\ r.old = z.new
    BY <2>1, <2>2, SetIfChangedEffect
  <2> QED BY <1>3, <2>3, <2>4
<1>4. CASE m.active_count > 1
  <2> DEFINE users == m.active_count - 1
             d == CopiedOver(m.new, m.old)
  <2>1. r = [m EXCEPT !.active_count = users, !.new = d]
    BY <1>1, <1>4 DEF Released
  <2>2. d \in Value(c) /\ (Plain(c) => d = m.old) /\ users \in Nat
    BY <1>1, <1>4, CopiedValue
  <2> HIDE DEF users, d
  <2>3. r \in MixerState(c)
    BY <2>1, <2>2 DEF MixerState
  <2>4. /\ r.hw = m.hw /\ r.old = m.old /\ r.new = d /\ r.reset = m.reset
        /\ r.active_count = users /\ r.held = m.held /\ r.paired = m.paired
    BY <1>1, <2>1
  <2> QED BY <1>1, <1>4, <2>2, <2>3, <2>4 DEF users
<1> QED BY <1>1, <1>2, <1>3, <1>4

\* audio_route_reset_and_update_path()
LEMMA ReverseEffect ==
  ASSUME NEW c \in Controls, NEW m, ControlOK(c, m), LoadedOK(c, m), NEW v, NEW p \in Names, NEW w
  PROVE  Fine(c, m, Done("reverse", p, c, Done("reset", p, c, m, v), w))
<1> DEFINE a == Done("reset", p, c, m, v)
           r == Released(c, a)
           k == Done("reverse", p, c, a, w)
<1>1. /\ ControlOK(c, a) /\ a \in MixerState(c)
      /\ a.held = m.held /\ a.paired = m.paired /\ a.hw = m.hw /\ a.reset = m.reset
      /\ a.active_count = m.active_count /\ (Plain(c) => a.new = a.reset)
  BY ResetEffect DEF ControlOK
<1>2. k = IF a.held[p] > 0
          THEN [r EXCEPT !.held = [a.held EXCEPT ![p] = a.held[p] - 1]]
          ELSE [r EXCEPT !.paired = a.paired /\ Total(a.held) = 0]
  BY DEF Done
<1> HIDE DEF a
<1>3. a.held \in [Names -> Nat] /\ a.active_count \in Nat /\ a.paired \in BOOLEAN
  BY <1>1, MixerStateFacts
<1>4. Total(a.held) \in Nat /\ (Total(a.held) = 0 <=> \A q \in Names : a.held[q] = 0)
  BY <1>3, TotalFacts
<1>5. (Plain(c) => a.hw = a.old.cells) /\ (a.paired => a.active_count = Total(a.held))
  BY <1>1 DEF ControlOK
<1>6. /\ r \in MixerState(c) /\ r.held = a.held /\ r.paired = a.paired /\ r.reset = a.reset
      /\ r.active_count = IF a.active_count = 0 THEN 0 ELSE a.active_count - 1
      /\ a.active_count > 1 => r.hw = a.hw
      /\ Plain(c) => r.hw = r.old.cells /\ r.old = r.new
      /\ Plain(c) /\ a.active_count =< 1 => r.new = a.new
  BY <1>1, <1>5, ReleasedEffect
<1> HIDE DEF r, k
<1>7. DOMAIN r = {"hw", "old", "new", "reset", "active_count", "held", "paired"}
  BY <1>6, MixerStateFacts
<1>8. ASSUME a.held[p] > 0 PROVE Fine(c, m, k)
  <2> DEFINE held == [a.held EXCEPT ![p] = a.held[p] - 1]
  <2>1. k = [r EXCEPT !.held = held]
    BY <1>2, <1>8
  <2>2. held \in [Names -> Nat] /\ Total(held) = Total(a.held) - 1
    BY <1>3, <1>8, TotalDown
  <2>3. Total(a.held) > 0
    BY <1>4, <1>8
  <2> HIDE DEF held
  <2>4. k \in MixerState(c)
    BY <1>6, <2>1, <2>2 DEF MixerState
  <2>5. /\ k.hw = r.hw /\ k.old = r.old /\ k.new = r.new /\ k.reset = r.reset
        /\ k.active_count = r.active_count /\ k.held = held /\ k.paired = r.paired
    BY <1>7, <2>1
  <2>6. k.paired => k.active_count = Total(k.held)
    BY <1>3, <1>4, <1>5, <1>6, <2>2, <2>3, <2>5
  <2>7. ControlOK(c, k)
    BY <1>6, <2>4, <2>5, <2>6 DEF ControlOK
  <2>8. LoadedOK(c, k)
    <3> SUFFICES ASSUME Plain(c), k.paired PROVE k.old = k.new /\ (Total(k.held) = 0 => k.new = k.reset)
      BY DEF LoadedOK
    <3>1. ASSUME Total(k.held) = 0 PROVE k.new = k.reset
      <4>1. a.active_count =< 1
        BY <1>3, <1>4, <1>5, <1>6, <2>2, <2>5, <3>1
      <4> QED BY <1>1, <1>6, <2>5, <4>1
    <3> QED BY <1>6, <2>5, <3>1
  <2>9. Kept(m, k)
    <3> SUFFICES ASSUME m.paired, 0 < Total(k.held) PROVE k.hw = m.hw
      BY DEF Kept
    <3>1. a.active_count > 1
      BY <1>1, <1>3, <1>4, <1>5, <2>2, <2>5
    <3> QED BY <1>1, <1>6, <2>5, <3>1
  <2> QED BY <2>7, <2>8, <2>9 DEF Fine
<1>9. ASSUME ~ (a.held[p] > 0) PROVE Fine(c, m, k)
  <2> DEFINE b == a.paired /\ Total(a.held) = 0
  <2>1. k = [r EXCEPT !.paired = b]
    BY <1>2, <1>9
  <2>2. b \in BOOLEAN /\ (b <=> (a.paired /\ Total(a.held) = 0))
    OBVIOUS
  <2> HIDE DEF b
  <2>3. k \in MixerState(c)
    BY <1>6, <2>1, <2>2 DEF MixerState
  <2>4. /\ k.hw = r.hw /\ k.old = r.old /\ k.new = r.new /\ k.reset = r.reset
        /\ k.active_count = r.active_count /\ k.held = r.held /\ k.paired = b
    BY <1>7, <2>1
  <2>5. k.paired => k.active_count = Total(k.held) /\ a.active_count = 0
    BY <1>3, <1>4, <1>5, <1>6, <2>2, <2>4
  <2>6. ControlOK(c, k)
    BY <1>6, <2>3, <2>4, <2>5 DEF ControlOK
  <2>7. LoadedOK(c, k)
    <3> SUFFICES ASSUME Plain(c), k.paired PROVE k.old = k.new /\ k.new = k.reset
      BY DEF LoadedOK
    <3>1. a.active_count = 0 /\ a.active_count =< 1
      BY <2>5
    <3> QED BY <1>1, <1>6, <2>4, <3>1
  <2>8. Kept(m, k)
    <3>1. Total(k.held) = Total(m.held) /\ Total(m.held) \in Nat
      BY <1>1, <1>4, <1>6, <2>4
    <3> QED BY <3>1 DEF Kept
  <2> QED BY <2>6, <2>7, <2>8 DEF Fine
<1>10. Fine(c, m, k)
  BY <1>8, <1>9
<1> QED BY <1>10 DEF k, a

\* audio_route_force_reset_and_update_path()
LEMMA ReverseResetEffect ==
  ASSUME NEW c \in Controls, NEW m, ControlOK(c, m), NEW v, NEW p \in Names, NEW w
  PROVE  Fine(c, m, Done("reverse_reset", p, c, Done("reset", p, c, m, v), w))
<1> DEFINE a == Done("reset", p, c, m, v)
           z == [a EXCEPT !.active_count = 0]
           s == SetIfChanged(c, z)
           none == [q \in Names |-> 0]
           k == Done("reverse_reset", p, c, a, w)
<1>1. /\ ControlOK(c, a) /\ a \in MixerState(c) /\ (Plain(c) => a.new = a.reset)
  BY ResetEffect DEF ControlOK
<1>2. k = [s EXCEPT !.held = none, !.paired = TRUE]
  BY DEF Done
<1> HIDE DEF a
<1>3. z \in MixerState(c)
  BY <1>1 DEF MixerState
<1>4. z.hw = a.hw /\ z.old = a.old /\ z.new = a.new /\ z.reset = a.reset /\ z.active_count = 0
  BY <1>1, MixerStateFacts
<1>5. Plain(c) => a.hw = a.old.cells
  BY <1>1 DEF ControlOK
<1> HIDE DEF z, k
<1>6. /\ s \in MixerState(c) /\ s.new = z.new /\ s.reset = z.reset /\ s.active_count = z.active_count
      /\ Plain(c) /\ z.hw = z.old.cells => s.hw = z.new.cells /\ s.old = z.new
  BY <1>3, SetIfChangedEffect
<1> HIDE DEF s
<1>7. none \in [Names -> Nat] /\ Total(none) = 0
  BY TotalOfNone
<1> HIDE DEF none
<1>8. k \in MixerState(c)
  BY <1>2, <1>6, <1>7 DEF MixerState
<1>9. /\ k.hw = s.hw /\ k.old = s.old /\ k.new = s.new /\ k.reset = s.reset
      /\ k.active_count = s.active_count /\ k.held = none /\ k.paired = TRUE
  BY <1>2, <1>6, MixerStateFacts
<1>10. Plain(c) => k.hw = k.old.cells /\ k.old = k.new /\ k.new = k.reset
  BY <1>1, <1>4, <1>5, <1>6, <1>9
<1>11. ControlOK(c, k)
  BY <1>4, <1>6, <1>7, <1>8, <1>9, <1>10 DEF ControlOK
<1>12. LoadedOK(c, k)
  BY <1>10 DEF LoadedOK
<1>13. Kept(m, k)
  BY <1>7, <1>9 DEF Kept
<1>14. Fine(c, m, k)
  BY <1>11, <1>12, <1>13 DEF Fine
<1> QED BY <1>14 DEF k, a

\* audio_route_apply_path() leaves a control of the path unsettled, and out of what the
\* properties speak of.
LEMMA ApplyOnlyEffect ==
  ASSUME NEW c \in Controls, NEW m, ControlOK(c, m), NEW v \in Value(c), NEW p,
         NEW k, k = [Done("apply", p, c, m, v) EXCEPT !.paired = FALSE]
  PROVE  Fine(c, m, k)
<1> DEFINE d == CopiedOver(m.new, v)
<1>1. m \in MixerState(c) /\ m.new \in Value(c)
  BY MixerStateFacts DEF ControlOK
<1>2. d \in Value(c)
  BY <1>1, CopiedValue
<1>3. Done("apply", p, c, m, v) = [m EXCEPT !.new = d]
  BY DEF Done
<1> HIDE DEF d
<1>4. Renewed(k, m, d, FALSE) /\ k.paired = FALSE
  BY <1>1, <1>3, MixerStateFacts DEF Renewed
<1>5. NotMore(FALSE, m)
  BY DEF NotMore
<1>6. ControlOK(c, k) /\ Kept(m, k)
  BY <1>2, <1>4, <1>5, NewValue
<1>7. LoadedOK(c, k)
  BY <1>4 DEF LoadedOK
<1> QED BY <1>6, <1>7 DEF Fine

\* audio_route_reset_path() and audio_route_reset() leave it alone if no path uses it.
LEMMA ResetOnlyEffect ==
  ASSUME NEW c \in Controls, NEW m, ControlOK(c, m), LoadedOK(c, m),
         NEW k, k = [m EXCEPT !.new = CopiedOver(m.new, m.reset),
                              !.paired = m.paired /\ Total(m.held) = 0]
  PROVE  Fine(c, m, k)
<1> DEFINE d == CopiedOver(m.new, m.reset)
           b == m.paired /\ Total(m.held) = 0
<1>1. m \in MixerState(c) /\ m.new \in Value(c) /\ m.reset \in Value(c)
  BY MixerStateFacts DEF ControlOK
<1>2. d \in Value(c) /\ (Plain(c) => d = m.reset)
  BY <1>1, CopiedValue
<1>3. Renewed(k, m, d, b)
  BY DEF Renewed
<1>4. NotMore(b, m) /\ (b <=> (m.paired /\ Total(m.held) = 0))
  BY DEF NotMore
<1> HIDE DEF d, b
<1>5. ControlOK(c, k) /\ Kept(m, k)
  BY <1>2, <1>3, <1>4, NewValue
<1>6. k.paired = b /\ k.old = m.old /\ k.new = d /\ k.reset = m.reset /\ k.held = m.held
  BY <1>1, <1>3, MixerStateFacts DEF Renewed
<1>7. LoadedOK(c, k)
  BY <1>2, <1>4, <1>6 DEF LoadedOK
<1> QED BY <1>5, <1>7 DEF Fine

\* audio_route_update_mixer()
LEMMA UpdateEffect ==
  ASSUME NEW c \in Controls, NEW m, ControlOK(c, m), LoadedOK(c, m),
         NEW k, k = SetIfChanged(c, m)
  PROVE  Fine(c, m, k)
<1>1. m \in MixerState(c) /\ (Plain(c) => m.hw = m.old.cells)
      /\ (m.paired => m.active_count = Total(m.held))
  BY DEF ControlOK
<1>2. /\ k \in MixerState(c)
      /\ k.new = m.new /\ k.reset = m.reset /\ k.active_count = m.active_count
      /\ k.held = m.held /\ k.paired = m.paired
      /\ Plain(c) /\ m.hw = m.old.cells => k.hw = m.new.cells /\ k.old = m.new
  BY <1>1, SetIfChangedEffect
<1>3. ControlOK(c, k)
  BY <1>1, <1>2 DEF ControlOK
<1>4. LoadedOK(c, k)
  BY <1>1, <1>2 DEF LoadedOK
<1>5. Kept(m, k)
  <2>1. Total(m.held) \in Nat
    BY <1>1, MixerStateFacts, TotalFacts
  <2> QED BY <1>2, <2>1 DEF Kept
<1> QED BY <1>3, <1>4, <1>5 DEF Fine

-----------------------------------------------------------------------------
(* Induction over the naturals, for sets *)

LEMMA Least ==
  ASSUME NEW N, N \subseteq Nat, N # {}
  PROVE  \E m \in N : \A k \in N : m =< k
<1>1. PICK m \in N : \A k \in N : <<k, m>> \notin OpToRel(<, Nat)
  BY WFMin, NatLessThanWellFounded, Zenon
<1>2. \A k \in N : ~ (k < m)
  BY <1>1, Zenon DEF OpToRel
<1> QED BY <1>2

LEMMA UpTo ==
  ASSUME NEW n \in Nat, NEW N, 0 \in N, \A k \in 0 .. n - 1 : k \in N => k + 1 \in N
  PROVE  \A k \in 0 .. n : k \in N
<1> DEFINE M == {k \in 0 .. n : k \notin N}
<1>1. ASSUME M # {} PROVE FALSE
  <2>1. PICK m \in M : \A k \in M : m =< k
    <3>1. M \subseteq Nat
      OBVIOUS
    <3> HIDE DEF M
    <3> QED BY <1>1, <3>1, Least
  <2>2. m \in 1 .. n /\ m - 1 \in 0 .. n - 1 /\ (m - 1) + 1 = m
    OBVIOUS
  <2>3. m - 1 \in N
    <3>1. m - 1 \notin M
      BY <2>1, <2>2
    <3> QED BY <2>2, <3>1
  <2> QED BY <2>2, <2>3
<1> QED BY <1>1

-----------------------------------------------------------------------------
(* Settings of a path *)

\* A list of settings as path_add_value() and path_add_setting() build it.
SettingsOK(s) ==
  /\ s \in Seq(Setting)
  /\ \A i \in DOMAIN s : s[i].value \in Value(s[i].ctl)
  /\ \A i, j \in DOMAIN s : s[i].ctl = s[j].ctl => i = j

LEMMA SettingsFacts ==
  ASSUME NEW s, SettingsOK(s)
  PROVE  /\ Len(s) \in Nat /\ DOMAIN s = 1 .. Len(s)
         /\ \A i \in DOMAIN s : s[i] \in Setting /\ s[i].ctl \in Controls
<1>1. s \in Seq(Setting)
  BY DEF SettingsOK
<1>2. Len(s) \in Nat /\ DOMAIN s = 1 .. Len(s) /\ \A i \in 1 .. Len(s) : s[i] \in Setting
  BY <1>1, LenProperties, ElementOfSeq
<1> QED BY <1>2 DEF Setting

LEMMA ASetting ==
  ASSUME NEW c \in Controls, NEW v \in Value(c)
  PROVE  [ctl |-> c, value |-> v] \in Setting
<1>1. /\ v.cells \in [1 .. NumValues[c] -> Int] /\ v.size \in 1 .. NumValues[c]
      /\ v = [cells |-> v.cells, size |-> v.size]
  BY ValueFacts
<1>2. NumValues[c] \in Nat
  BY Controlled
<1>3. v.cells \in Seq(Int) /\ v.size \in Nat
  BY <1>1, <1>2, SeqDef
<1>4. v \in [cells : Seq(Int), size : Nat]
  BY <1>1, <1>3
<1> QED BY <1>4 DEF Setting

\* find_ctl_index_in_path()
LEMMA SettingOfFacts ==
  ASSUME NEW s, SettingsOK(s), NEW c
  PROVE  /\ SettingOf(s, c) \in 0 .. Len(s)
         /\ SettingOf(s, c) = 0 => \A i \in DOMAIN s : s[i].ctl # c
         /\ SettingOf(s, c) # 0 => SettingOf(s, c) \in DOMAIN s /\ s[SettingOf(s, c)].ctl = c
<1> DEFINE found == {i \in DOMAIN s : s[i].ctl = c}
<1>1. Len(s) \in Nat /\ DOMAIN s = 1 .. Len(s)
  BY SettingsFacts
<1>2. SettingOf(s, c) = IF found = {} THEN 0 ELSE CHOOSE i \in found : \A j \in found : i =< j
  BY DEF SettingOf
<1>3. CASE found = {}
  BY <1>1, <1>2, <1>3
<1>4. CASE found # {}
  <2>1. found \subseteq Nat
    BY <1>1
  <2>2. \E i \in found : \A j \in found : i =< j
    <3> HIDE DEF found
    <3> QED BY <1>4, <2>1, Least
  <2>3. SettingOf(s, c) \in found
    <3> HIDE DEF found
    <3> QED BY <1>2, <1>4, <2>2
  <2> QED BY <1>1, <2>3
<1> QED BY <1>3, <1>4

LEMMA AppendOK ==
  ASSUME NEW s, SettingsOK(s), NEW x \in Setting, x.value \in Value(x.ctl),
         SettingOf(s, x.ctl) = 0
  PROVE  SettingsOK(Append(s, x))
<1> DEFINE a == Append(s, x)
<1>1. Len(s) \in Nat /\ DOMAIN s = 1 .. Len(s) /\ s \in Seq(Setting)
  BY SettingsFacts DEF SettingsOK
<1>2. /\ a \in Seq(Setting) /\ DOMAIN a = 1 .. Len(s) + 1
      /\ \A i \in 1 .. Len(s) : a[i] = s[i]
      /\ a[Len(s) + 1] = x
  BY <1>1, AppendProperties, LenProperties
<1> HIDE DEF a
<1>3. \A i \in DOMAIN a : (i \in DOMAIN s /\ a[i] = s[i]) \/ (i = Len(s) + 1 /\ a[i] = x)
  BY <1>1, <1>2
<1>4. \A i \in DOMAIN s : s[i].ctl # x.ctl
  BY SettingOfFacts
<1>5. /\ \A i \in DOMAIN s : s[i].value \in Value(s[i].ctl)
      /\ \A i, j \in DOMAIN s : s[i].ctl = s[j].ctl => i = j
  BY DEF SettingsOK
<1>6. \A i \in DOMAIN a : a[i].value \in Value(a[i].ctl)
  BY <1>3, <1>5
<1>7. \A i, j \in DOMAIN a : a[i].ctl = a[j].ctl => i = j
  <2> TAKE i, j \in DOMAIN a
  <2> HAVE a[i].ctl = a[j].ctl
  <2> QED BY <1>3, <1>4, <1>5
<1> QED BY <1>2, <1>6, <1>7 DEF SettingsOK, a

LEMMA ChangeOK ==
  ASSUME NEW s, SettingsOK(s), NEW i \in DOMAIN s, NEW v \in Value(s[i].ctl),
         NEW a, a = [s EXCEPT ![i].value = v]
  PROVE  SettingsOK(a)
<1> DEFINE x == [ctl |-> s[i].ctl, value |-> v]
<1>1. Len(s) \in Nat /\ DOMAIN s = 1 .. Len(s) /\ s \in Seq(Setting)
      /\ s[i] \in Setting /\ s[i].ctl \in Controls
  BY SettingsFacts DEF SettingsOK
<1>2. [s[i] EXCEPT !.value = v] = x
  <2>1. PICK y : y = s[i]
    OBVIOUS
  <2>2. PICK A, B : y \in [ctl : A, value : B]
    BY <1>1, <2>1 DEF Setting
  <2>3. [y EXCEPT !.value = v] = [ctl |-> y.ctl, value |-> v]
    BY <2>2
  <2> QED BY <2>1, <2>3
<1>3. x \in Setting
  BY <1>1, ASetting
<1>4. x.ctl = s[i].ctl /\ x.value = v
  OBVIOUS
<1> HIDE DEF x
<1>5. a = [s EXCEPT ![i] = x]
  BY <1>2
<1>6. /\ a \in Seq(Setting) /\ DOMAIN a = DOMAIN s
      /\ \A j \in DOMAIN s : a[j] = IF j = i THEN x ELSE s[j]
  <2>1. i \in 1 .. Len(s) /\ s \in Seq(Setting)
    BY <1>1
  <2>2. /\ a \in Seq(Setting) /\ Len(a) = Len(s)
        /\ \A j \in 1 .. Len(s) : a[j] = IF j = i THEN x ELSE s[j]
    BY <1>3, <1>5, <2>1, ExceptSeq
  <2> QED BY <1>1, <2>2, LenProperties
<1>7. /\ \A j \in DOMAIN s : s[j].value \in Value(s[j].ctl)
      /\ \A j, k \in DOMAIN s : s[j].ctl = s[k].ctl => j = k
  BY DEF SettingsOK
<1>8. \A j \in DOMAIN a : a[j].ctl = s[j].ctl
  BY <1>4, <1>6
<1>9. \A j \in DOMAIN a : a[j].value \in Value(a[j].ctl)
  BY <1>4, <1>6, <1>7
<1>10. \A j, k \in DOMAIN a : a[j].ctl = a[k].ctl => j = k
  BY <1>6, <1>7, <1>8
<1> QED BY <1>6, <1>9, <1>10 DEF SettingsOK

LEMMA ReverseOK ==
  ASSUME NEW s, SettingsOK(s)
  PROVE  /\ SettingsOK(Reverse(s))
         /\ \A i \in DOMAIN s : \E j \in DOMAIN Reverse(s) : Reverse(s)[j] = s[i]
         /\ \A j \in DOMAIN Reverse(s) : \E i \in DOMAIN s : Reverse(s)[j] = s[i]
<1> DEFINE r == Reverse(s)
           n == Len(s)
<1>1. n \in Nat /\ DOMAIN s = 1 .. n /\ s \in Seq(Setting)
  BY SettingsFacts DEF SettingsOK
<1>2. r = [j \in 1 .. n |-> s[(n - j) + 1]]
  BY DEF Reverse
<1> HIDE DEF r, n
<1>3. \A j \in 1 .. n : (n - j) + 1 \in 1 .. n /\ (n - ((n - j) + 1)) + 1 = j
  BY <1>1
<1>4. \A j \in 1 .. n : r[j] = s[(n - j) + 1] /\ r[j] \in Setting
  BY <1>1, <1>2, <1>3, SettingsFacts
<1>5. r \in Seq(Setting) /\ DOMAIN r = 1 .. n
  BY <1>1, <1>2, <1>4, SeqDef
<1>6. /\ \A i \in DOMAIN s : s[i].value \in Value(s[i].ctl)
      /\ \A i, j \in DOMAIN s : s[i].ctl = s[j].ctl => i = j
  BY DEF SettingsOK
<1>7. \A j \in DOMAIN r : r[j].value \in Value(r[j].ctl)
  BY <1>1, <1>3, <1>4, <1>5, <1>6
<1>8. \A j, k \in DOMAIN r : r[j].ctl = r[k].ctl => j = k
  <2> TAKE j, k \in DOMAIN r
  <2> HAVE r[j].ctl = r[k].ctl
  <2> DEFINE x == (n - j) + 1
             y == (n - k) + 1
  <2>1. x \in DOMAIN s /\ y \in DOMAIN s /\ (n - x) + 1 = j /\ (n - y) + 1 = k
    BY <1>1, <1>3, <1>5
  <2>2. r[j] = s[x] /\ r[k] = s[y]
    BY <1>4, <1>5
  <2> HIDE DEF x, y
  <2>3. x = y
    BY <1>6, <2>1, <2>2
  <2> QED BY <2>1, <2>3
<1>9. SettingsOK(r)
  BY <1>5, <1>7, <1>8 DEF SettingsOK
<1>10. \A i \in DOMAIN s : \E j \in DOMAIN r : r[j] = s[i]
  <2> TAKE i \in DOMAIN s
  <2>1. (n - i) + 1 \in DOMAIN r /\ r[(n - i) + 1] = s[i]
    BY <1>1, <1>3, <1>4, <1>5
  <2> QED BY <2>1
<1>11. \A j \in DOMAIN r : \E i \in DOMAIN s : r[j] = s[i]
  BY <1>1, <1>3, <1>4, <1>5
<1> QED BY <1>9, <1>10, <1>11 DEF r

\* The values of a tag fit into those of its control.
LEMMA WithTagValue ==
  ASSUME NEW t \in CtlTags, InRange(t), NEW v \in Value(t.ctl)
  PROVE  WithTag(v, t) \in Value(t.ctl)
<1> DEFINE c == t.ctl
           N == NumValues[c]
           l == Len(t.values)
<1>1. /\ c \in Controls /\ t.index \in Nat /\ l \in 1 .. N
      /\ t.values \in [1 .. l -> Int]
      /\ Kind[c] = "int" /\ t.index = 0 => l = N
      /\ t.index =< N
  BY Tagged DEF InRange
<1>2. N \in Nat /\ N >= 1 /\ Kind[c] \in {"int", "enum", "tlv"}
  BY <1>1, Controlled
<1>3. /\ v.cells \in [1 .. N -> Int] /\ v.size \in 1 .. N /\ v = [cells |-> v.cells, size |-> v.size]
      /\ Kind[c] # "tlv" => v.size = N
  BY <1>1, ValueFacts
<1>4. t.values[1] \in Int /\ Len(v.cells) = N
  BY <1>1, <1>2, <1>3, LenProperties
<1>5. ASSUME NEW f \in [1 .. N -> Int], NEW n \in 1 .. N, Kind[c] # "tlv" => n = N
      PROVE  [cells |-> f, size |-> n] \in Value(c)
  BY <1>1, <1>5, AValue
<1>6. CASE t.index > 0
  <2> DEFINE f == [v.cells EXCEPT ![t.index] = t.values[1]]
  <2>1. f \in [1 .. N -> Int]
    BY <1>3, <1>4
  <2>2. WithTag(v, t) = [v EXCEPT !.cells[t.index] = t.values[1]]
    BY <1>6 DEF WithTag
  <2>3. [v EXCEPT !.cells[t.index] = t.values[1]] = [cells |-> f, size |-> v.size]
    BY <1>3
  <2> HIDE DEF f, N, l, c
  <2> QED BY <1>3, <1>5, <2>1, <2>2, <2>3 DEF c
<1>7. CASE t.index = 0 /\ Kind[c] = "enum"
  <2> DEFINE f == [i \in 1 .. N |-> t.values[1]]
  <2>1. f \in [1 .. N -> Int]
    BY <1>4
  <2>2. WithTag(v, t) = [v EXCEPT !.cells = f]
    BY <1>1, <1>4, <1>7 DEF WithTag
  <2> HIDE DEF f, N, l
  <2>3. [v EXCEPT !.cells = f] = [cells |-> f, size |-> v.size]
    BY <1>3
  <2> HIDE DEF c
  <2> QED BY <1>3, <1>5, <2>1, <2>2, <2>3 DEF c
<1>8. CASE t.index = 0 /\ Kind[c] # "enum"
  <2> DEFINE f == [i \in 1 .. N |-> IF i =< l THEN t.values[i] ELSE v.cells[i]]
  <2>1. f \in [1 .. N -> Int]
    <3>1. ASSUME NEW i \in 1 .. N PROVE (IF i =< l THEN t.values[i] ELSE v.cells[i]) \in Int
      BY <1>1, <1>2, <1>3
    <3> QED BY <3>1
  <2>2. WithTag(v, t) = [cells |-> f, size |-> l]
    BY <1>1, <1>4, <1>8 DEF WithTag
  <2>3. Kind[c] # "tlv" => l = N
    BY <1>1, <1>2, <1>8
  <2> HIDE DEF f, N, l, c
  <2> QED BY <1>1, <1>5, <2>1, <2>2, <2>3 DEF c
<1> QED BY <1>1, <1>6, <1>7, <1>8

\* path_add_value()
LEMMA WithValueOK ==
  ASSUME NEW s, SettingsOK(s), NEW t \in CtlTags
  PROVE  SettingsOK(WithValue(s, t))
<1> DEFINE c == t.ctl
           i == SettingOf(s, c)
           first == [j \in 1 .. NumValues[c] |-> IF j = 1 THEN t.values[1] ELSE 0]
           x == [ctl |-> c, value |-> WithTag(AllOf(first), t)]
<1>1. c \in Controls /\ t.values[1] \in Int
  BY Tagged
<1>2. CASE ~ InRange(t)
  BY <1>2 DEF WithValue
<1>3. CASE InRange(t) /\ i = 0
  <2>1. WithValue(s, t) = Append(s, x)
    BY <1>3 DEF WithValue
  <2>2. first \in [1 .. NumValues[c] -> Int]
    BY <1>1
  <2> HIDE DEF first
  <2>3. AllOf(first) \in Value(c)
    BY <1>1, <2>2, AllOfValue
  <2>4. WithTag(AllOf(first), t) \in Value(c)
    BY <1>3, <2>3, WithTagValue
  <2>5. x \in Setting
    BY <1>1, <2>4, ASetting
  <2>6. x.ctl = c /\ x.value \in Value(x.ctl)
    BY <2>4
  <2> HIDE DEF x, c
  <2>7. SettingOf(s, x.ctl) = 0
    BY <1>3, <2>6
  <2> QED BY <2>1, <2>5, <2>6, <2>7, AppendOK
<1>4. CASE InRange(t) /\ i # 0
  <2> DEFINE v == WithTag(s[i].value, t)
  <2>1. WithValue(s, t) = [s EXCEPT ![i].value = v]
    BY <1>4 DEF WithValue
  <2>2. i \in DOMAIN s /\ s[i].ctl = c
    <3> HIDE DEF c
    <3> QED BY <1>4, SettingOfFacts
  <2> HIDE DEF i
  <2>3. s[i].value \in Value(c)
    BY <2>2 DEF SettingsOK
  <2>4. v \in Value(s[i].ctl)
    BY <1>4, <2>2, <2>3, WithTagValue
  <2> DEFINE a == WithValue(s, t)
  <2> HIDE DEF v, a
  <2>5. a = [s EXCEPT ![i].value = v]
    BY <2>1 DEF a
  <2>6. SettingsOK(a)
    BY <2>2, <2>4, <2>5, ChangeOK
  <2> QED BY <2>6 DEF a
<1> QED BY <1>2, <1>3, <1>4

\* path_add_setting(): one setting x of the sub path.
Added(s, x) == IF SettingOf(s, x.ctl) # 0 THEN s ELSE Append(s, x)

LEMMA AddedOK ==
  ASSUME NEW s, SettingsOK(s), NEW x \in Setting, x.value \in Value(x.ctl)
  PROVE  SettingsOK(Added(s, x))
<1>1. CASE SettingOf(s, x.ctl) # 0
  BY <1>1 DEF Added
<1>2. CASE SettingOf(s, x.ctl) = 0
  BY <1>2, AppendOK DEF Added
<1> QED BY <1>1, <1>2

\* path_add_path() goes on from one setting of the sub path to the next.
LEMMA WithSubPathUnfolds ==
  ASSUME NEW s, NEW sub, Len(sub) \in Nat
  PROVE  \E f : /\ f = [n \in 0 .. Len(sub) |-> IF n = 0 THEN s ELSE Added(f[n - 1], sub[n])]
                /\ WithSubPath(s, sub) = f[Len(sub)]
<1> DEFINE l == Len(sub)
           Right(g, n) == \A k \in 0 .. n : g[k] = IF k = 0 THEN s ELSE Added(g[k - 1], sub[k])
           N == {n \in 0 .. l : \E g : Right(g, n)}
<1>0. l \in Nat
  OBVIOUS
<1>1. 0 \in N
  <2> DEFINE g == [k \in 0 .. 0 |-> s]
  <2>1. Right(g, 0)
    OBVIOUS
  <2>2. 0 \in 0 .. l
    BY <1>0
  <2> HIDE DEF g
  <2> QED BY <2>1, <2>2
<1>2. ASSUME NEW n \in 0 .. l - 1, n \in N PROVE n + 1 \in N
  <2>1. PICK g : Right(g, n)
    BY <1>2
  <2> DEFINE h == [k \in 0 .. n + 1 |-> IF k =< n THEN g[k] ELSE Added(g[n], sub[k])]
  <2>2. Right(h, n + 1)
    <3> TAKE k \in 0 .. n + 1
    <3>1. CASE k =< n
      <4>1. k \in 0 .. n /\ (k # 0 => k - 1 \in 0 .. n + 1 /\ k - 1 =< n)
        BY <1>0, <3>1
      <4>2. h[k] = g[k] /\ (k # 0 => h[k - 1] = g[k - 1])
        BY <3>1, <4>1
      <4> HIDE DEF h
      <4> QED BY <2>1, <4>1, <4>2
    <3>2. CASE ~ (k =< n)
      <4>1. k = n + 1 /\ k - 1 = n /\ k # 0 /\ n \in 0 .. n + 1 /\ n =< n
        BY <1>0, <3>2
      <4>2. h[k] = Added(g[n], sub[k]) /\ h[n] = g[n]
        BY <3>2, <4>1
      <4> HIDE DEF h
      <4> QED BY <4>1, <4>2
    <3> QED BY <3>1, <3>2
  <2> HIDE DEF h
  <2>3. n + 1 \in 0 .. l
    BY <1>0
  <2> QED BY <2>2, <2>3
<1>3. \A n \in 0 .. l : n \in N
  <2> HIDE DEF N, l
  <2>1. \A n \in 0 .. l - 1 : n \in N => n + 1 \in N
    BY <1>2
  <2> QED BY <1>0, <1>1, <2>1, UpTo, Zenon
<1>4. PICK g : Right(g, l)
  <2>1. l \in 0 .. l
    BY <1>0
  <2>2. l \in N
    BY <1>3, <2>1
  <2> QED BY <2>2
<1> DEFINE h == [n \in 0 .. l |-> g[n]]
<1>5. h = [n \in 0 .. l |-> IF n = 0 THEN s ELSE Added(h[n - 1], sub[n])]
  <2>1. ASSUME NEW n \in 0 .. l PROVE g[n] = IF n = 0 THEN s ELSE Added(h[n - 1], sub[n])
    <3>1. n # 0 => n - 1 \in 0 .. l
      BY <1>0
    <3>2. n # 0 => h[n - 1] = g[n - 1]
      BY <3>1
    <3> HIDE DEF h
    <3> QED BY <1>4, <3>2
  <2> QED BY <2>1
<1> DEFINE with == CHOOSE f : f = [n \in 0 .. l |-> IF n = 0 THEN s ELSE Added(f[n - 1], sub[n])]
<1>6. with = [n \in 0 .. l |-> IF n = 0 THEN s ELSE Added(with[n - 1], sub[n])]
  <2> HIDE DEF h
  <2> QED BY <1>5
<1>7. WithSubPath(s, sub) = with[l]
  BY DEF WithSubPath, Added
<1> HIDE DEF with
<1> QED BY <1>6, <1>7

LEMMA WithSubPathOK ==
  ASSUME NEW s, SettingsOK(s), NEW sub, SettingsOK(sub)
  PROVE  SettingsOK(WithSubPath(s, sub))
<1> DEFINE l == Len(sub)
<1>1. l \in Nat /\ DOMAIN sub = 1 .. l
      /\ \A i \in DOMAIN sub : sub[i] \in Setting /\ sub[i].value \in Value(sub[i].ctl)
  BY SettingsFacts DEF SettingsOK
<1>2. PICK f : /\ f = [n \in 0 .. l |-> IF n = 0 THEN s ELSE Added(f[n - 1], sub[n])]
               /\ WithSubPath(s, sub) = f[l]
  BY <1>1, WithSubPathUnfolds
<1> DEFINE N == {n \in 0 .. l : SettingsOK(f[n])}
<1> HIDE DEF l
<1>3. 0 \in N
  <2>1. 0 \in 0 .. l /\ f[0] = s
    BY <1>1, <1>2
  <2> QED BY <2>1
<1>4. ASSUME NEW n \in 0 .. l - 1, n \in N PROVE n + 1 \in N
  <2>1. n + 1 \in 0 .. l /\ n + 1 \in 1 .. l /\ n + 1 # 0 /\ (n + 1) - 1 = n
    BY <1>1
  <2>2. f[n + 1] = Added(f[n], sub[n + 1])
    BY <1>2, <2>1
  <2>3. SettingsOK(f[n + 1])
    BY <1>1, <1>4, <2>1, <2>2, AddedOK
  <2> QED BY <2>1, <2>3
<1>5. \A n \in 0 .. l : n \in N
  <2> HIDE DEF N
  <2>1. \A n \in 0 .. l - 1 : n \in N => n + 1 \in N
    BY <1>4
  <2> QED BY <1>1, <1>3, <2>1, UpTo, Zenon
<1>6. l \in 0 .. l
  BY <1>1
<1> QED BY <1>2, <1>5, <1>6

-----------------------------------------------------------------------------
(* Going through the settings of a path *)

\* One setting x, and the first n of them, each control for itself.
Walked(what, p, g, x) == [g EXCEPT ![x.ctl] = Done(what, p, x.ctl, g[x.ctl], x.value)]

Walk(s, what, p, all, n) ==
  [c \in Controls |-> IF SettingOf(s, c) \in 1 .. n
                      THEN Done(what, p, c, all[c], s[SettingOf(s, c)].value) ELSE all[c]]

\* A setting is the only one of its control.
LEMMA SettingOfSetting ==
  ASSUME NEW s, SettingsOK(s), NEW n \in DOMAIN s
  PROVE  SettingOf(s, s[n].ctl) = n
<1> DEFINE c == s[n].ctl
           k == SettingOf(s, c)
<1>1. k # 0 /\ k \in DOMAIN s /\ s[k].ctl = c
  <2>1. k # 0
    <3> HIDE DEF c
    <3>1. k = 0 => \A i \in DOMAIN s : s[i].ctl # c
      BY SettingOfFacts
    <3> QED BY <3>1 DEF c
  <2> HIDE DEF c
  <2> QED BY <2>1, SettingOfFacts
<1> HIDE DEF k
<1>2. \A i, j \in DOMAIN s : s[i].ctl = s[j].ctl => i = j
  BY DEF SettingsOK
<1>3. k = n
  BY <1>1, <1>2
<1> QED BY <1>3 DEF k

LEMMA WalkedNext ==
  ASSUME NEW s, SettingsOK(s), NEW what, NEW p, NEW all, NEW n \in DOMAIN s
  PROVE  Walked(what, p, Walk(s, what, p, all, n - 1), s[n]) = Walk(s, what, p, all, n)
<1> DEFINE g == Walk(s, what, p, all, n - 1)
           h == Walk(s, what, p, all, n)
           x == s[n]
           d == Done(what, p, x.ctl, g[x.ctl], x.value)
<1>1. Len(s) \in Nat /\ DOMAIN s = 1 .. Len(s) /\ x.ctl \in Controls
  BY SettingsFacts
<1>2. n \in 1 .. Len(s)
  BY <1>1
<1>3. SettingOf(s, x.ctl) = n
  BY SettingOfSetting
<1>4. \A c \in Controls : SettingOf(s, c) \in 0 .. Len(s) /\ (SettingOf(s, c) = n => c = x.ctl)
  <2> TAKE c \in Controls
  <2>1. /\ SettingOf(s, c) \in 0 .. Len(s)
        /\ SettingOf(s, c) # 0 => s[SettingOf(s, c)].ctl = c
    BY SettingOfFacts
  <2> QED BY <1>2, <2>1
<1>5. /\ DOMAIN g = Controls
      /\ \A c \in Controls : g[c] = IF SettingOf(s, c) \in 1 .. n - 1
                       THEN Done(what, p, c, all[c], s[SettingOf(s, c)].value) ELSE all[c]
  BY DEF Walk
<1>6. h = [c \in Controls |-> IF SettingOf(s, c) \in 1 .. n
                       THEN Done(what, p, c, all[c], s[SettingOf(s, c)].value) ELSE all[c]]
  BY DEF Walk
<1>7. Walked(what, p, g, x) = [g EXCEPT ![x.ctl] = d]
  BY DEF Walked
<1>8. n \notin 1 .. n - 1 /\ n \in 1 .. n
  BY <1>2
<1>9. g[x.ctl] = all[x.ctl]
  BY <1>1, <1>3, <1>5, <1>8
<1>10. d = Done(what, p, x.ctl, all[x.ctl], x.value)
  BY <1>9
<1> HIDE DEF g, h, d
<1>11. [g EXCEPT ![x.ctl] = d] = [c \in Controls |-> IF c = x.ctl THEN d ELSE g[c]]
  <2>1. g = [c \in Controls |-> g[c]]
    BY <1>5 DEF g, Walk
  <2> QED BY <2>1
<1>12. \A c \in Controls : (IF c = x.ctl THEN d ELSE g[c]) = h[c]
  <2> TAKE c \in Controls
  <2>1. CASE c = x.ctl
    BY <1>3, <1>6, <1>8, <1>10, <2>1
  <2>2. CASE c # x.ctl
    <3>1. SettingOf(s, c) \in 1 .. n <=> SettingOf(s, c) \in 1 .. n - 1
      BY <1>2, <1>4, <2>2
    <3>2. h[c] = g[c]
      BY <1>5, <1>6, <3>1
    <3> QED BY <2>2, <3>2
  <2> QED BY <2>1, <2>2
<1>13. [c \in Controls |-> IF c = x.ctl THEN d ELSE g[c]] = h
  BY <1>6, <1>12
<1> QED BY <1>7, <1>11, <1>13 DEF g, h

\* Every control of the path is done once, the others are left alone.
LEMMA ForEachEffect ==
  ASSUME NEW s, SettingsOK(s), NEW what, NEW p, NEW all, all = [c \in Controls |-> all[c]]
  PROVE  ForEach(s, what, p, all) = Walk(s, what, p, all, Len(s))
<1> DEFINE l == Len(s)
           walk(n) == Walk(s, what, p, all, n)
           h == [n \in 0 .. l |-> walk(n)]
<1>1. l \in Nat /\ DOMAIN s = 1 .. l
  BY SettingsFacts
<1>2. walk(0) = all
  <2>1. \A c \in Controls : SettingOf(s, c) \notin 1 .. 0
    OBVIOUS
  <2>2. walk(0) = [c \in Controls |-> all[c]]
    BY <2>1 DEF Walk
  <2> QED BY <2>2
<1>3. ASSUME NEW n \in 1 .. l PROVE Walked(what, p, walk(n - 1), s[n]) = walk(n)
  <2>1. n \in DOMAIN s
    BY <1>1
  <2> QED BY <2>1, WalkedNext
<1> HIDE DEF walk, l
<1>4. h = [n \in 0 .. l |-> IF n = 0 THEN all ELSE Walked(what, p, h[n - 1], s[n])]
  <2>1. ASSUME NEW n \in 0 .. l
        PROVE  walk(n) = IF n = 0 THEN all ELSE Walked(what, p, h[n - 1], s[n])
    <3>1. CASE n = 0
      BY <1>2, <3>1
    <3>2. CASE n # 0
      <4>1. n - 1 \in 0 .. l /\ n \in 1 .. l
        BY <1>1, <3>2
      <4>2. h[n - 1] = walk(n - 1)
        BY <4>1
      <4> HIDE DEF h
      <4> QED BY <1>3, <3>2, <4>1, <4>2
    <3> QED BY <3>1, <3>2
  <2> QED BY <2>1
<1> DEFINE after == CHOOSE f : f = [n \in 0 .. l |-> IF n = 0 THEN all ELSE Walked(what, p, f[n - 1], s[n])]
<1>5. after = [n \in 0 .. l |-> IF n = 0 THEN all ELSE Walked(what, p, after[n - 1], s[n])]
  <2> HIDE DEF h
  <2> QED BY <1>4
<1>6. ForEach(s, what, p, all) = after[l]
  BY DEF ForEach, Walked, l
<1> HIDE DEF after, h
<1> DEFINE N == {n \in 0 .. l : after[n] = walk(n)}
<1>7. 0 \in N
  <2>1. 0 \in 0 .. l /\ after[0] = all
    BY <1>1, <1>5
  <2> QED BY <1>2, <2>1
<1>8. ASSUME NEW n \in 0 .. l - 1, n \in N PROVE n + 1 \in N
  <2>1. n + 1 \in 0 .. l /\ n + 1 \in 1 .. l /\ n + 1 # 0 /\ (n + 1) - 1 = n
    BY <1>1
  <2>2. after[n + 1] = Walked(what, p, after[n], s[n + 1])
    BY <1>5, <2>1
  <2>3. after[n] = walk(n)
    BY <1>8
  <2>4. Walked(what, p, walk(n), s[n + 1]) = walk(n + 1)
    BY <1>3, <2>1
  <2> QED BY <2>1, <2>2, <2>3, <2>4
<1>9. \A n \in 0 .. l : n \in N
  <2> HIDE DEF N
  <2>1. \A n \in 0 .. l - 1 : n \in N => n + 1 \in N
    BY <1>8
  <2> QED BY <1>1, <1>7, <2>1, UpTo, Zenon
<1>10. l \in 0 .. l
  BY <1>1
<1>11. after[l] = walk(l)
  BY <1>9, <1>10
<1> QED BY <1>6, <1>11 DEF walk, l

OfControls(all) == all = [c \in Controls |-> all[c]]

\* What it makes of a control that is not among the settings, and of one that is.
LEMMA OnePass ==
  ASSUME NEW s, SettingsOK(s), NEW what, NEW p, NEW all, OfControls(all),
         NEW f, f = ForEach(s, what, p, all)
  PROVE  /\ OfControls(f)
         /\ \A c \in Controls :
              /\ SettingOf(s, c) = 0 => f[c] = all[c]
              /\ SettingOf(s, c) # 0 => \E v \in Value(c) : f[c] = Done(what, p, c, all[c], v)
<1>1. f = Walk(s, what, p, all, Len(s))
  BY ForEachEffect DEF OfControls
<1>2. OfControls(f)
  BY <1>1 DEF Walk, OfControls
<1>3. ASSUME NEW c \in Controls, SettingOf(s, c) = 0 PROVE f[c] = all[c]
  <2>1. SettingOf(s, c) \notin 1 .. Len(s)
    BY <1>3
  <2> QED BY <1>1, <2>1 DEF Walk
<1>4. ASSUME NEW c \in Controls, SettingOf(s, c) # 0
      PROVE  \E v \in Value(c) : f[c] = Done(what, p, c, all[c], v)
  <2> DEFINE i == SettingOf(s, c)
  <2>1. i \in DOMAIN s /\ s[i].ctl = c
    BY <1>4, SettingOfFacts
  <2>2. i \in 1 .. Len(s)
    BY <2>1, SettingsFacts
  <2>3. s[i].value \in Value(c)
    BY <2>1 DEF SettingsOK
  <2>4. f[c] = Done(what, p, c, all[c], s[i].value)
    BY <1>1, <2>2 DEF Walk
  <2> HIDE DEF i
  <2> QED BY <2>3, <2>4
<1> QED BY <1>2, <1>3, <1>4

\* The settings of s and then those of r, which are of the same controls.
LEMMA TwoPasses ==
  ASSUME NEW s, SettingsOK(s), NEW r, SettingsOK(r),
         \A c \in Controls : SettingOf(s, c) = 0 <=> SettingOf(r, c) = 0,
         NEW first, NEW second, NEW p, NEW all, OfControls(all),
         NEW f, f = ForEach(r, second, p, ForEach(s, first, p, all))
  PROVE  /\ OfControls(f)
         /\ \A c \in Controls :
              /\ SettingOf(s, c) = 0 => f[c] = all[c]
              /\ SettingOf(s, c) # 0 =>
                   \E v \in Value(c), w \in Value(c) :
                     f[c] = Done(second, p, c, Done(first, p, c, all[c], v), w)
<1>1. PICK g : g = ForEach(s, first, p, all)
  OBVIOUS
<1>2. /\ OfControls(g)
      /\ \A c \in Controls :
           /\ SettingOf(s, c) = 0 => g[c] = all[c]
           /\ SettingOf(s, c) # 0 => \E v \in Value(c) : g[c] = Done(first, p, c, all[c], v)
  BY <1>1, OnePass
<1>3. f = ForEach(r, second, p, g)
  BY <1>1
<1>4. /\ OfControls(f)
      /\ \A c \in Controls :
           /\ SettingOf(r, c) = 0 => f[c] = g[c]
           /\ SettingOf(r, c) # 0 => \E w \in Value(c) : f[c] = Done(second, p, c, g[c], w)
  BY <1>2, <1>3, OnePass
<1>5. ASSUME NEW c \in Controls, SettingOf(s, c) # 0
      PROVE  \E v \in Value(c), w \in Value(c) :
               f[c] = Done(second, p, c, Done(first, p, c, all[c], v), w)
  <2>1. PICK v \in Value(c) : g[c] = Done(first, p, c, all[c], v)
    BY <1>2, <1>5
  <2>2. PICK w \in Value(c) : f[c] = Done(second, p, c, g[c], w)
    BY <1>4, <1>5
  <2> QED BY <2>1, <2>2
<1> QED BY <1>2, <1>4, <1>5

LEMMA ReverseControls ==
  ASSUME NEW s, SettingsOK(s)
  PROVE  \A c \in Controls : SettingOf(s, c) = 0 <=> SettingOf(Reverse(s), c) = 0
<1> TAKE c \in Controls
<1>1. PICK r : r = Reverse(s)
  OBVIOUS
<1>2. /\ SettingsOK(r)
      /\ \A i \in DOMAIN s : \E j \in DOMAIN r : r[j] = s[i]
      /\ \A j \in DOMAIN r : \E i \in DOMAIN s : r[j] = s[i]
  BY <1>1, ReverseOK
<1>3. /\ SettingOf(s, c) = 0 => \A i \in DOMAIN s : s[i].ctl # c
      /\ SettingOf(s, c) # 0 => SettingOf(s, c) \in DOMAIN s /\ s[SettingOf(s, c)].ctl = c
  BY SettingOfFacts
<1>4. /\ SettingOf(r, c) = 0 => \A i \in DOMAIN r : r[i].ctl # c
      /\ SettingOf(r, c) # 0 => SettingOf(r, c) \in DOMAIN r /\ r[SettingOf(r, c)].ctl = c
  BY <1>2, SettingOfFacts
<1>5. SettingOf(s, c) = 0 <=> SettingOf(r, c) = 0
  BY <1>2, <1>3, <1>4
<1> QED BY <1>1, <1>5

LEMMA InPathIs ==
  ASSUME NEW p, SettingsOK(path[p])
  PROVE  \A c : InPath(p, c) <=> SettingOf(path[p], c) # 0
<1> TAKE c
<1>1. /\ SettingOf(path[p], c) = 0 => \A i \in DOMAIN path[p] : path[p][i].ctl # c
      /\ SettingOf(path[p], c) # 0 =>
           SettingOf(path[p], c) \in DOMAIN path[p] /\ path[p][SettingOf(path[p], c)].ctl = c
  BY SettingOfFacts
<1> QED BY <1>1 DEF InPath

-----------------------------------------------------------------------------
(* The inductive invariant *)

PathsOK ==
  /\ DOMAIN path \subseteq Names /\ current \in DOMAIN path \cup {NoPath}
  /\ \A p \in DOMAIN path : SettingsOK(path[p])

ControlsOK ==
  /\ OfControls(state)
  /\ \A c \in Controls : ControlOK(c, state[c])
  /\ level # "loaded" => \A c \in Controls : FileOK(state[c])
  /\ level = "loaded" => \A c \in Controls : LoadedOK(c, state[c])

LevelOK == level \in {"top", "path", "loaded"} /\ tags \in 0 .. MaxTags

IInv == LevelOK /\ PathsOK /\ ControlsOK

\* What a step does to the mixer while others use a control.
KeepsShared == \A c \in Controls : Kept(state[c], state'[c])

LEMMA InitOK == RouteInit => IInv
<1> SUFFICES ASSUME RouteInit PROVE IInv
  OBVIOUS
<1>1. LevelOK
  BY AudioRouteAssumption DEF RouteInit, LevelOK
<1>2. PathsOK
  <2>1. DOMAIN path = {}
    BY DEF RouteInit
  <2> QED BY <2>1 DEF RouteInit, PathsOK
<1>3. OfControls(state) /\ level # "loaded"
  BY DEF RouteInit, OfControls
<1>4. ASSUME NEW c \in Controls PROVE ControlOK(c, state[c]) /\ FileOK(state[c])
  <2> DEFINE N == NumValues[c]
             zero == [i \in 1 .. N |-> 0]
             cells == IF Kind[c] = "enum" THEN [zero EXCEPT ![1] = MixerStart[c][1]]
                                          ELSE MixerStart[c]
             none == [p \in Names |-> 0]
             m == state[c]
  <2>1. /\ N \in Nat /\ N >= 1 /\ MixerStart[c] \in Seq(Int) /\ Len(MixerStart[c]) = N
        /\ MixerStart[c] \in [1 .. N -> Int]
    BY Controlled
  <2>2. zero \in [1 .. N -> Int] /\ cells \in [1 .. N -> Int]
    BY <2>1
  <2>3. m = AsOpened(c)
    BY DEF RouteInit
  <2>4. m = [hw |-> MixerStart[c], old |-> AllOf(cells), new |-> AllOf(cells),
             reset |-> AllOf(zero), active_count |-> 0, held |-> none, paired |-> TRUE]
    BY <2>3 DEF AsOpened
  <2>5. ASSUME Plain(c) PROVE cells = MixerStart[c]
    <3>1. CASE Kind[c] = "enum"
      <4>1. N = 1
        BY <2>5, <3>1 DEF Plain
      <4>2. cells[1] = MixerStart[c][1]
        BY <3>1, <4>1
      <4>3. \A i \in 1 .. N : cells[i] = MixerStart[c][i]
        <5> HIDE DEF cells
        <5> QED BY <4>1, <4>2
      <4>4. PICK a : a = MixerStart[c]
        OBVIOUS
      <4> HIDE DEF cells, N
      <4>5. cells = a
        BY <2>1, <2>2, <4>3, <4>4, SameFunction
      <4> QED BY <4>4, <4>5
    <3>2. CASE Kind[c] # "enum"
      BY <3>2
    <3> QED BY <3>1, <3>2
  <2> HIDE DEF zero, cells
  <2>6. AllOf(zero) \in Value(c) /\ AllOf(cells) \in Value(c) /\ AllOf(cells).cells = cells
    BY <2>2, AllOfValue
  <2>7. none \in [Names -> Nat] /\ Total(none) = 0
    BY TotalOfNone
  <2>8. /\ m.hw = MixerStart[c] /\ m.old = AllOf(cells) /\ m.active_count = 0
        /\ m.held = none /\ m.paired = TRUE
    BY <2>4
  <2>9. m \in MixerState(c)
    <3> HIDE DEF none, m
    <3> QED BY <2>1, <2>4, <2>6, <2>7 DEF MixerState
  <2> HIDE DEF m
  <2>10. ControlOK(c, m)
    BY <2>5, <2>6, <2>7, <2>8, <2>9 DEF ControlOK
  <2>11. FileOK(m)
    BY <2>8 DEF FileOK
  <2> QED BY <2>10, <2>11 DEF m
<1>5. ControlsOK
  BY <1>3, <1>4 DEF ControlsOK
<1> QED BY <1>1, <1>2, <1>5 DEF IInv

-----------------------------------------------------------------------------
(* Steps while the file is read *)

LEMMA StateStays ==
  ASSUME ControlsOK, UNCHANGED state, level = "loaded" <=> level' = "loaded"
  PROVE  ControlsOK' /\ KeepsShared
<1>1. ControlsOK'
  BY DEF ControlsOK
<1>2. KeepsShared
  BY DEF KeepsShared, Kept
<1> QED BY <1>1, <1>2

\* A control changes that no path uses yet.
LEMMA TopCtlOK ==
  ASSUME IInv, NEW t \in CtlTags, TopCtl(t)
  PROVE  IInv' /\ KeepsShared
<1>1. /\ level = "top" /\ level' = "top" /\ tags' \in 0 .. MaxTags
      /\ path' = path /\ current' = current
  BY AudioRouteAssumption DEF IInv, LevelOK, TopCtl, Tag
<1>2. LevelOK' /\ PathsOK'
  BY <1>1 DEF IInv, LevelOK, PathsOK
<1>3. CASE ~ InRange(t)
  <2>1. UNCHANGED state
    BY <1>3 DEF TopCtl
  <2> QED BY <1>1, <1>2, <2>1, StateStays DEF IInv
<1>4. CASE InRange(t)
  <2> DEFINE c == t.ctl
             v == WithTag(state[c].new, t)
             k == [state[c] EXCEPT !.new = v]
  <2>1. c \in Controls /\ OfControls(state) /\ \A d \in Controls : ControlOK(d, state[d]) /\ FileOK(state[d])
    BY <1>1, Tagged DEF IInv, ControlsOK
  <2>2. state[c].new \in Value(c)
    <3>1. state[c] \in MixerState(c)
      BY <2>1 DEF ControlOK
    <3> QED BY <2>1, <3>1, MixerStateFacts
  <2>3. v \in Value(c)
    BY <1>4, <2>2, WithTagValue
  <2>4. state' = [state EXCEPT ![c].new = v]
    BY <1>4 DEF TopCtl
  <2> HIDE DEF c, v
  <2>5. state' = [d \in Controls |-> IF d = c THEN k ELSE state[d]]
    BY <2>1, <2>4 DEF OfControls
  <2>6. /\ ControlOK(c, k) /\ k.held = state[c].held
        /\ k.active_count = state[c].active_count /\ k.paired = state[c].paired /\ k.hw = state[c].hw
    <3>1. PICK x : x = k
      OBVIOUS
    <3>2. /\ ControlOK(c, x) /\ x.held = state[c].held
          /\ x.active_count = state[c].active_count /\ x.paired = state[c].paired /\ x.hw = state[c].hw
      BY <2>1, <2>3, <3>1, OnlyNew
    <3> QED BY <3>1, <3>2
  <2> HIDE DEF k
  <2>7. FileOK(k)
    <3>1. FileOK(state[c])
      BY <2>1
    <3> QED BY <2>6, <3>1 DEF FileOK
  <2>8. OfControls(state')
    BY <2>5 DEF OfControls
  <2>9. \A d \in Controls : ControlOK(d, state'[d]) /\ FileOK(state'[d]) /\ state'[d].hw = state[d].hw
    <3> TAKE d \in Controls
    <3>1. CASE d = c
      BY <2>5, <2>6, <2>7, <3>1
    <3>2. CASE d # c
      BY <2>1, <2>5, <3>2
    <3> QED BY <3>1, <3>2
  <2>10. ControlsOK'
    BY <1>1, <2>8, <2>9 DEF ControlsOK
  <2>11. KeepsShared
    BY <2>9 DEF KeepsShared, Kept
  <2> QED BY <1>2, <2>10, <2>11 DEF IInv
<1> QED BY <1>3, <1>4

LEMMA BeginPathOK ==
  ASSUME IInv, NEW name \in Names, BeginPath(name)
  PROVE  IInv' /\ KeepsShared
<1>1. /\ level = "top" /\ level' = "path" /\ tags' \in 0 .. MaxTags /\ UNCHANGED state
  BY AudioRouteAssumption DEF IInv, LevelOK, BeginPath, Tag
<1>2. LevelOK' /\ ControlsOK' /\ KeepsShared
  BY <1>1, StateStays DEF IInv, LevelOK
<1>3. PathsOK'
  <2>1. /\ DOMAIN path \subseteq Names /\ current \in DOMAIN path \cup {NoPath}
        /\ \A p \in DOMAIN path : SettingsOK(path[p])
    BY DEF IInv, PathsOK
  <2>2. CASE name \in DOMAIN path
    <3>1. current' = NoPath /\ path' = path
      BY <2>2 DEF BeginPath
    <3> QED BY <2>1, <3>1 DEF PathsOK
  <2>3. CASE name \notin DOMAIN path
    <3>1. current' = name
          /\ path' = [p \in DOMAIN path \cup {name} |-> IF p = name THEN <<>> ELSE path[p]]
      BY <2>3 DEF BeginPath
    <3>2. SettingsOK(<<>>)
      <4>1. <<>> \in Seq(Setting) /\ DOMAIN <<>> = {}
        BY EmptySeq
      <4> QED BY <4>1 DEF SettingsOK
    <3>3. \A p \in DOMAIN path' : SettingsOK(path'[p])
      BY <2>1, <3>1, <3>2
    <3> QED BY <2>1, <3>1, <3>3 DEF PathsOK
  <2> QED BY <2>2, <2>3
<1> QED BY <1>2, <1>3 DEF IInv

LEMMA BeginUnnamedPathOK ==
  ASSUME IInv, BeginUnnamedPath
  PROVE  IInv' /\ KeepsShared
<1>1. /\ level = "top" /\ level' = "path" /\ tags' \in 0 .. MaxTags
      /\ UNCHANGED <<current, path, state>>
  BY AudioRouteAssumption DEF IInv, LevelOK, BeginUnnamedPath, Tag
<1>2. LevelOK' /\ ControlsOK' /\ KeepsShared
  BY <1>1, StateStays DEF IInv, LevelOK
<1>3. PathsOK'
  BY <1>1 DEF IInv, PathsOK
<1> QED BY <1>2, <1>3 DEF IInv

LEMMA EndPathOK ==
  ASSUME IInv, EndPath
  PROVE  IInv' /\ KeepsShared
<1>1. level = "path" /\ level' = "top" /\ UNCHANGED <<tags, current, path, state>>
  BY DEF EndPath
<1>2. LevelOK' /\ ControlsOK' /\ KeepsShared
  BY <1>1, StateStays DEF IInv, LevelOK
<1>3. PathsOK'
  BY <1>1 DEF IInv, PathsOK
<1> QED BY <1>2, <1>3 DEF IInv

\* The current path gets other settings.
LEMMA PathChanges ==
  ASSUME PathsOK, current # NoPath, NEW s, SettingsOK(s),
         path' = [path EXCEPT ![current] = s], UNCHANGED current
  PROVE  PathsOK'
<1>1. /\ DOMAIN path \subseteq Names /\ current \in DOMAIN path
      /\ \A p \in DOMAIN path : SettingsOK(path[p])
  BY DEF PathsOK
<1>2. DOMAIN path' = DOMAIN path /\ \A p \in DOMAIN path : path'[p] = IF p = current THEN s ELSE path[p]
  BY <1>1
<1> QED BY <1>1, <1>2 DEF PathsOK

LEMMA PathCtlOK ==
  ASSUME IInv, NEW t \in CtlTags, PathCtl(t)
  PROVE  IInv' /\ KeepsShared
<1>1. /\ level = "path" /\ level' = "path" /\ tags' \in 0 .. MaxTags
      /\ UNCHANGED <<current, state>>
  BY AudioRouteAssumption DEF IInv, LevelOK, PathCtl, Tag
<1>2. LevelOK' /\ ControlsOK' /\ KeepsShared
  BY <1>1, StateStays DEF IInv, LevelOK
<1>3. CASE current = NoPath
  <2>1. path' = path
    BY <1>3 DEF PathCtl
  <2> QED BY <1>1, <1>2, <2>1 DEF IInv, PathsOK
<1>4. CASE current # NoPath
  <2> DEFINE s == WithValue(path[current], t)
  <2>1. path' = [path EXCEPT ![current] = s]
    BY <1>4 DEF PathCtl
  <2>2. SettingsOK(path[current])
    BY <1>4 DEF IInv, PathsOK
  <2>3. SettingsOK(s)
    BY <2>2, WithValueOK
  <2> HIDE DEF s
  <2>4. PathsOK'
    BY <1>1, <1>4, <2>1, <2>3, PathChanges DEF IInv
  <2> QED BY <1>2, <2>4 DEF IInv
<1> QED BY <1>3, <1>4

LEMMA SubPathOK ==
  ASSUME IInv, NEW name \in Names, SubPath(name)
  PROVE  IInv' /\ KeepsShared
<1>1. /\ level = "path" /\ level' = "path" /\ tags' \in 0 .. MaxTags
      /\ UNCHANGED <<current, state>>
  BY AudioRouteAssumption DEF IInv, LevelOK, SubPath, Tag
<1>2. LevelOK' /\ ControlsOK' /\ KeepsShared
  BY <1>1, StateStays DEF IInv, LevelOK
<1>3. CASE current = NoPath \/ name \notin DOMAIN path
  <2>1. path' = path
    BY <1>3 DEF SubPath
  <2> QED BY <1>1, <1>2, <2>1 DEF IInv, PathsOK
<1>4. CASE current # NoPath /\ name \in DOMAIN path
  <2> DEFINE s == WithSubPath(path[current], path[name])
  <2>1. path' = [path EXCEPT ![current] = s]
    BY <1>4 DEF SubPath
  <2>2. SettingsOK(path[current]) /\ SettingsOK(path[name])
    BY <1>4 DEF IInv, PathsOK
  <2>3. SettingsOK(s)
    BY <2>2, WithSubPathOK
  <2> HIDE DEF s
  <2>4. PathsOK'
    BY <1>1, <1>4, <2>1, <2>3, PathChanges DEF IInv
  <2> QED BY <1>2, <2>4 DEF IInv
<1> QED BY <1>3, <1>4

\* The end of audio_route_init(): what the mixer was given is the value to go back to.
LEMMA LoadedStepOK ==
  ASSUME IInv, Loaded
  PROVE  IInv' /\ KeepsShared
<1>1. level = "top" /\ level' = "loaded" /\ UNCHANGED <<tags, current, path>>
  BY DEF Loaded
<1>2. LevelOK' /\ PathsOK'
  BY <1>1 DEF IInv, LevelOK, PathsOK
<1>3. /\ OfControls(state')
      /\ \A c \in Controls :
           state'[c] = [SetIfChanged(c, state[c]) EXCEPT
                          !.reset = CopiedOver(SetIfChanged(c, state[c]).reset,
                                           SetIfChanged(c, state[c]).new)]
  BY DEF Loaded, OfControls
<1>4. ASSUME NEW c \in Controls
      PROVE  ControlOK(c, state'[c]) /\ LoadedOK(c, state'[c]) /\ Kept(state[c], state'[c])
  <2> DEFINE m == state[c]
             s == SetIfChanged(c, m)
             d == CopiedOver(s.reset, s.new)
             k == state'[c]
  <2>1. ControlOK(c, m) /\ FileOK(m)
    BY <1>1 DEF IInv, ControlsOK
  <2>2. k = [s EXCEPT !.reset = d]
    BY <1>3
  <2> HIDE DEF m, k
  <2>3. m \in MixerState(c) /\ (Plain(c) => m.hw = m.old.cells)
    BY <2>1 DEF ControlOK
  <2>4. /\ s \in MixerState(c)
        /\ s.new = m.new /\ s.active_count = m.active_count
        /\ s.held = m.held /\ s.paired = m.paired
        /\ Plain(c) /\ m.hw = m.old.cells => s.hw = m.new.cells /\ s.old = m.new
    BY <2>3, SetIfChangedEffect
  <2> HIDE DEF s
  <2>5. s.reset \in Value(c) /\ s.new \in Value(c)
    BY <2>4, MixerStateFacts
  <2>6. d \in Value(c) /\ (Plain(c) => d = s.new)
    BY <2>5, CopiedValue
  <2> HIDE DEF d
  <2>7. k \in MixerState(c)
    BY <2>2, <2>4, <2>6 DEF MixerState
  <2>8. /\ k.hw = s.hw /\ k.old = s.old /\ k.new = s.new /\ k.reset = d
        /\ k.active_count = s.active_count /\ k.held = s.held /\ k.paired = s.paired
    BY <2>2, <2>4, MixerStateFacts
  <2>9. k.held = m.held /\ Total(m.held) = 0 /\ m.active_count = 0
    <3>1. m.held = [p \in Names |-> 0] /\ m.active_count = 0
      BY <2>1 DEF FileOK
    <3> QED BY <2>4, <2>8, <3>1, TotalOfNone
  <2>10. ControlOK(c, k)
    BY <2>3, <2>4, <2>7, <2>8, <2>9 DEF ControlOK
  <2>11. LoadedOK(c, k)
    BY <2>3, <2>4, <2>6, <2>8 DEF LoadedOK
  <2>12. Kept(m, k)
    BY <2>9 DEF Kept
  <2> QED BY <2>10, <2>11, <2>12 DEF m, k
<1>5. ControlsOK' /\ KeepsShared
  BY <1>1, <1>3, <1>4 DEF ControlsOK, KeepsShared
<1> QED BY <1>2, <1>5 DEF IInv

-----------------------------------------------------------------------------
(* Steps that route *)

\* It is enough to look at each control.
LEMMA RouteOK ==
  ASSUME IInv, Route, OfControls(state'), \A c \in Controls : Fine(c, state[c], state'[c])
  PROVE  IInv' /\ KeepsShared
<1>1. level = "loaded" /\ level' = "loaded" /\ UNCHANGED <<tags, current, path>>
  BY DEF Route
<1>2. LevelOK' /\ PathsOK'
  BY <1>1 DEF IInv, LevelOK, PathsOK
<1>3. ControlsOK' /\ KeepsShared
  BY <1>1 DEF ControlsOK, KeepsShared, Fine
<1> QED BY <1>2, <1>3 DEF IInv

LEMMA Routing ==
  ASSUME IInv, level = "loaded"
  PROVE  /\ OfControls(state)
         /\ \A c \in Controls : /\ ControlOK(c, state[c]) /\ LoadedOK(c, state[c])
                                /\ Fine(c, state[c], state[c])
         /\ \A p \in DOMAIN path : p \in Names /\ SettingsOK(path[p])
<1>1. OfControls(state) /\ \A c \in Controls : ControlOK(c, state[c]) /\ LoadedOK(c, state[c])
  BY DEF IInv, ControlsOK
<1>2. \A c \in Controls : Fine(c, state[c], state[c])
  BY <1>1, FineAsIs
<1>3. \A p \in DOMAIN path : p \in Names /\ SettingsOK(path[p])
  BY DEF IInv, PathsOK
<1> QED BY <1>1, <1>2, <1>3

LEMMA ApplyPathOK ==
  ASSUME IInv, NEW p \in DOMAIN path, ApplyPath(p)
  PROVE  IInv' /\ KeepsShared
<1>1. Route /\ level = "loaded"
  BY DEF ApplyPath, Route
<1>2. PICK f : f = Applied(p)
  OBVIOUS
<1>3. SettingsOK(path[p]) /\ OfControls(state) /\ f = ForEach(path[p], "apply", p, state)
  BY <1>1, <1>2, Routing DEF Applied
<1>4. /\ OfControls(f)
      /\ \A c \in Controls :
           /\ SettingOf(path[p], c) = 0 => f[c] = state[c]
           /\ SettingOf(path[p], c) # 0 => \E v \in Value(c) : f[c] = Done("apply", p, c, state[c], v)
  BY <1>3, OnePass
<1>5. state' = [c \in Controls |-> [f[c] EXCEPT !.paired = f[c].paired /\ ~ InPath(p, c)]]
  BY <1>2 DEF ApplyPath
<1>6. ASSUME NEW c \in Controls PROVE Fine(c, state[c], state'[c])
  <2>1. ControlOK(c, state[c]) /\ Fine(c, state[c], state[c])
    BY <1>1, Routing
  <2>2. InPath(p, c) <=> SettingOf(path[p], c) # 0
    BY <1>3, InPathIs
  <2>3. CASE SettingOf(path[p], c) = 0
    <3>1. PICK m : m = state[c]
      OBVIOUS
    <3>2. m \in MixerState(c)
      BY <2>1, <3>1 DEF ControlOK
    <3>3. m.paired \in BOOLEAN /\ ~ InPath(p, c)
      BY <2>2, <2>3, <3>2, MixerStateFacts
    <3>4. (m.paired /\ ~ InPath(p, c)) = m.paired
      BY <3>3
    <3>5. state'[c] = [m EXCEPT !.paired = m.paired /\ ~ InPath(p, c)]
      BY <1>4, <1>5, <2>3, <3>1
    <3>6. state'[c] = [m EXCEPT !.paired = m.paired]
      BY <3>4, <3>5
    <3>7. [m EXCEPT !.paired = m.paired] = m
      BY <3>2 DEF MixerState
    <3> QED BY <2>1, <3>1, <3>6, <3>7
  <2>4. CASE SettingOf(path[p], c) # 0
    <3>1. PICK v \in Value(c) : f[c] = Done("apply", p, c, state[c], v)
      BY <1>4, <2>4
    <3>2. (f[c].paired /\ ~ InPath(p, c)) = FALSE
      BY <2>2, <2>4
    <3>3. state'[c] = [f[c] EXCEPT !.paired = FALSE]
      BY <1>5, <3>2
    <3> QED BY <2>1, <3>1, <3>3, ApplyOnlyEffect
  <2> QED BY <2>3, <2>4
<1>7. OfControls(state')
  BY <1>5 DEF OfControls
<1> QED BY <1>1, <1>6, <1>7, RouteOK

LEMMA ResetPathOK ==
  ASSUME IInv, NEW p \in DOMAIN path, ResetPath(p)
  PROVE  IInv' /\ KeepsShared
<1>1. Route /\ level = "loaded"
  BY DEF ResetPath, Route
<1>2. PICK f : f = ResetOf(p)
  OBVIOUS
<1>3. SettingsOK(path[p]) /\ OfControls(state) /\ f = ForEach(path[p], "reset", p, state)
  BY <1>1, <1>2, Routing DEF ResetOf
<1>4. /\ OfControls(f)
      /\ \A c \in Controls :
           /\ SettingOf(path[p], c) = 0 => f[c] = state[c]
           /\ SettingOf(path[p], c) # 0 => \E v \in Value(c) : f[c] = Done("reset", p, c, state[c], v)
  BY <1>3, OnePass
<1>5. state' = [c \in Controls |->
                 [f[c] EXCEPT !.paired = f[c].paired /\ (InPath(p, c) => Total(state[c].held) = 0)]]
  BY <1>2 DEF ResetPath
<1>6. ASSUME NEW c \in Controls PROVE Fine(c, state[c], state'[c])
  <2>1. ControlOK(c, state[c]) /\ LoadedOK(c, state[c]) /\ Fine(c, state[c], state[c])
    BY <1>1, Routing
  <2>2. InPath(p, c) <=> SettingOf(path[p], c) # 0
    BY <1>3, InPathIs
  <2>3. PICK m : m = state[c]
    OBVIOUS
  <2>4. m \in MixerState(c) /\ m.paired \in BOOLEAN
    BY <2>1, <2>3, MixerStateFacts DEF ControlOK
  <2>5. CASE SettingOf(path[p], c) = 0
    <3>1. (m.paired /\ (InPath(p, c) => Total(state[c].held) = 0)) = m.paired
      BY <2>2, <2>4, <2>5
    <3>2. state'[c] = [m EXCEPT !.paired = m.paired]
      BY <1>4, <1>5, <2>3, <2>5, <3>1
    <3>3. [m EXCEPT !.paired = m.paired] = m
      BY <2>4 DEF MixerState
    <3> QED BY <2>1, <2>3, <3>2, <3>3
  <2>6. CASE SettingOf(path[p], c) # 0
    <3>1. PICK v \in Value(c) : f[c] = Done("reset", p, c, m, v)
      BY <1>4, <2>3, <2>6
    <3>2. f[c] = [m EXCEPT !.new = CopiedOver(m.new, m.reset)] /\ f[c].paired = m.paired
      BY <2>4, <3>1, MixerStateFacts DEF Done
    <3>3. (f[c].paired /\ (InPath(p, c) => Total(state[c].held) = 0))
            = (m.paired /\ Total(m.held) = 0)
      BY <2>2, <2>3, <2>6, <3>2
    <3> DEFINE b == m.paired /\ Total(m.held) = 0
               d == CopiedOver(m.new, m.reset)
    <3>4. state'[c] = [f[c] EXCEPT !.paired = b]
      BY <1>5, <3>3
    <3>5. f[c] = [m EXCEPT !.new = d]
      BY <3>2
    <3> HIDE DEF b, d
    <3>6. state'[c] = [m EXCEPT !.new = d, !.paired = b]
      BY <2>4, <3>4, <3>5, MixerStateFacts
    <3>7. state'[c] = [m EXCEPT !.new = CopiedOver(m.new, m.reset), !.paired = m.paired /\ Total(m.held) = 0]
      BY <3>6 DEF b, d
    <3> QED BY <2>1, <2>3, <3>7, ResetOnlyEffect
  <2> QED BY <2>5, <2>6
<1>7. OfControls(state')
  BY <1>5 DEF OfControls
<1> QED BY <1>1, <1>6, <1>7, RouteOK

LEMMA ApplyAndUpdateOK ==
  ASSUME IInv, NEW p \in DOMAIN path, ApplyAndUpdate(p)
  PROVE  IInv' /\ KeepsShared
<1>1. Route /\ level = "loaded"
  BY DEF ApplyAndUpdate, Route
<1>2. SettingsOK(path[p]) /\ OfControls(state) /\ p \in Names
  BY <1>1, Routing
<1>3. state' = ForEach(path[p], "forward", p, ForEach(path[p], "apply", p, state))
  BY DEF ApplyAndUpdate, Applied
<1>4. /\ OfControls(state')
      /\ \A c \in Controls :
           /\ SettingOf(path[p], c) = 0 => state'[c] = state[c]
           /\ SettingOf(path[p], c) # 0 =>
                \E v \in Value(c), w \in Value(c) :
                  state'[c] = Done("forward", p, c, Done("apply", p, c, state[c], v), w)
  BY <1>2, <1>3, TwoPasses
<1>5. ASSUME NEW c \in Controls PROVE Fine(c, state[c], state'[c])
  <2>1. ControlOK(c, state[c]) /\ Fine(c, state[c], state[c])
    BY <1>1, Routing
  <2>2. CASE SettingOf(path[p], c) = 0
    BY <1>4, <2>1, <2>2
  <2>3. CASE SettingOf(path[p], c) # 0
    BY <1>2, <1>4, <2>1, <2>3, ForwardEffect
  <2> QED BY <2>2, <2>3
<1> QED BY <1>1, <1>4, <1>5, RouteOK

LEMMA ResetAndUpdateOK ==
  ASSUME IInv, NEW p \in DOMAIN path, ResetAndUpdate(p)
  PROVE  IInv' /\ KeepsShared
<1>1. Route /\ level = "loaded"
  BY DEF ResetAndUpdate, Route
<1>2. SettingsOK(path[p]) /\ OfControls(state) /\ p \in Names
  BY <1>1, Routing
<1>3. PICK r : r = Reverse(path[p])
  OBVIOUS
<1>4. SettingsOK(r) /\ \A c \in Controls : SettingOf(path[p], c) = 0 <=> SettingOf(r, c) = 0
  BY <1>2, <1>3, ReverseOK, ReverseControls
<1>5. state' = ForEach(r, "reverse", p, ForEach(path[p], "reset", p, state))
  BY <1>3 DEF ResetAndUpdate, ResetOf
<1>6. /\ OfControls(state')
      /\ \A c \in Controls :
           /\ SettingOf(path[p], c) = 0 => state'[c] = state[c]
           /\ SettingOf(path[p], c) # 0 =>
                \E v \in Value(c), w \in Value(c) :
                  state'[c] = Done("reverse", p, c, Done("reset", p, c, state[c], v), w)
  BY <1>2, <1>4, <1>5, TwoPasses
<1>7. ASSUME NEW c \in Controls PROVE Fine(c, state[c], state'[c])
  <2>1. ControlOK(c, state[c]) /\ LoadedOK(c, state[c]) /\ Fine(c, state[c], state[c])
    BY <1>1, Routing
  <2>2. CASE SettingOf(path[p], c) = 0
    BY <1>6, <2>1, <2>2
  <2>3. CASE SettingOf(path[p], c) # 0
    BY <1>2, <1>6, <2>1, <2>3, ReverseEffect
  <2> QED BY <2>2, <2>3
<1> QED BY <1>1, <1>6, <1>7, RouteOK

LEMMA ForceResetAndUpdateOK ==
  ASSUME IInv, NEW p \in DOMAIN path, ForceResetAndUpdate(p)
  PROVE  IInv' /\ KeepsShared
<1>1. Route /\ level = "loaded"
  BY DEF ForceResetAndUpdate, Route
<1>2. SettingsOK(path[p]) /\ OfControls(state) /\ p \in Names
  BY <1>1, Routing
<1>3. PICK r : r = Reverse(path[p])
  OBVIOUS
<1>4. SettingsOK(r) /\ \A c \in Controls : SettingOf(path[p], c) = 0 <=> SettingOf(r, c) = 0
  BY <1>2, <1>3, ReverseOK, ReverseControls
<1>5. state' = ForEach(r, "reverse_reset", p, ForEach(path[p], "reset", p, state))
  BY <1>3 DEF ForceResetAndUpdate, ResetOf
<1>6. /\ OfControls(state')
      /\ \A c \in Controls :
           /\ SettingOf(path[p], c) = 0 => state'[c] = state[c]
           /\ SettingOf(path[p], c) # 0 =>
                \E v \in Value(c), w \in Value(c) :
                  state'[c] = Done("reverse_reset", p, c, Done("reset", p, c, state[c], v), w)
  BY <1>2, <1>4, <1>5, TwoPasses
<1>7. ASSUME NEW c \in Controls PROVE Fine(c, state[c], state'[c])
  <2>1. ControlOK(c, state[c]) /\ Fine(c, state[c], state[c])
    BY <1>1, Routing
  <2>2. CASE SettingOf(path[p], c) = 0
    BY <1>6, <2>1, <2>2
  <2>3. CASE SettingOf(path[p], c) # 0
    BY <1>2, <1>6, <2>1, <2>3, ReverseResetEffect
  <2> QED BY <2>2, <2>3
<1> QED BY <1>1, <1>6, <1>7, RouteOK

LEMMA ResetAllOK ==
  ASSUME IInv, ResetAll
  PROVE  IInv' /\ KeepsShared
<1>1. Route /\ level = "loaded"
  BY DEF ResetAll, Route
<1>2. /\ OfControls(state')
      /\ \A c \in Controls :
           state'[c] = [state[c] EXCEPT !.new = CopiedOver(state[c].new, state[c].reset),
                                        !.paired = state[c].paired /\ Total(state[c].held) = 0]
  BY DEF ResetAll, OfControls
<1>3. ASSUME NEW c \in Controls PROVE Fine(c, state[c], state'[c])
  BY <1>1, <1>2, Routing, ResetOnlyEffect
<1> QED BY <1>1, <1>2, <1>3, RouteOK

LEMMA UpdateMixerOK ==
  ASSUME IInv, UpdateMixer
  PROVE  IInv' /\ KeepsShared
<1>1. Route /\ level = "loaded"
  BY DEF UpdateMixer, Route
<1>2. OfControls(state') /\ \A c \in Controls : state'[c] = SetIfChanged(c, state[c])
  BY DEF UpdateMixer, OfControls
<1>3. ASSUME NEW c \in Controls PROVE Fine(c, state[c], state'[c])
  BY <1>1, <1>2, Routing, UpdateEffect
<1> QED BY <1>1, <1>2, <1>3, RouteOK

-----------------------------------------------------------------------------
(* Every step *)

LEMMA StepOK == IInv /\ [RouteNext]_routeVars => IInv' /\ KeepsShared
<1> SUFFICES ASSUME IInv, [RouteNext]_routeVars PROVE IInv' /\ KeepsShared
  OBVIOUS
<1>1. ASSUME NEW t \in CtlTags, TopCtl(t) PROVE IInv' /\ KeepsShared
  BY <1>1, TopCtlOK
<1>2. ASSUME NEW t \in CtlTags, PathCtl(t) PROVE IInv' /\ KeepsShared
  BY <1>2, PathCtlOK
<1>3. ASSUME NEW name \in Names, BeginPath(name) PROVE IInv' /\ KeepsShared
  BY <1>3, BeginPathOK
<1>4. ASSUME NEW name \in Names, SubPath(name) PROVE IInv' /\ KeepsShared
  BY <1>4, SubPathOK
<1>5. CASE BeginUnnamedPath
  BY <1>5, BeginUnnamedPathOK
<1>6. CASE EndPath
  BY <1>6, EndPathOK
<1>7. CASE Loaded
  BY <1>7, LoadedStepOK
<1>8. CASE ResetAll
  BY <1>8, ResetAllOK
<1>9. CASE UpdateMixer
  BY <1>9, UpdateMixerOK
<1>10. ASSUME NEW p \in DOMAIN path, ApplyPath(p) PROVE IInv' /\ KeepsShared
  BY <1>10, ApplyPathOK
<1>11. ASSUME NEW p \in DOMAIN path, ResetPath(p) PROVE IInv' /\ KeepsShared
  BY <1>11, ResetPathOK
<1>12. ASSUME NEW p \in DOMAIN path, ApplyAndUpdate(p) PROVE IInv' /\ KeepsShared
  BY <1>12, ApplyAndUpdateOK
<1>13. ASSUME NEW p \in DOMAIN path, ResetAndUpdate(p) PROVE IInv' /\ KeepsShared
  BY <1>13, ResetAndUpdateOK
<1>14. ASSUME NEW p \in DOMAIN path, ForceResetAndUpdate(p) PROVE IInv' /\ KeepsShared
  BY <1>14, ForceResetAndUpdateOK
<1>15. CASE UNCHANGED routeVars
  <2>1. UNCHANGED <<level, tags, current, path, state>>
    BY <1>15 DEF routeVars
  <2>2. LevelOK' /\ PathsOK'
    BY <2>1 DEF IInv, LevelOK, PathsOK
  <2>3. ControlsOK' /\ KeepsShared
    BY <2>1, StateStays DEF IInv
  <2> QED BY <2>2, <2>3 DEF IInv
<1> QED BY <1>1, <1>2, <1>3, <1>4, <1>5, <1>6, <1>7, <1>8, <1>9, <1>10, <1>11, <1>12, <1>13,
           <1>14, <1>15 DEF RouteNext

LEMMA Invariant == RouteSpec => []IInv
<1>1. RouteInit => IInv
  BY InitOK
<1>2. IInv /\ [RouteNext]_routeVars => IInv'
  BY StepOK
<1> QED BY <1>1, <1>2, PTL DEF RouteSpec

-----------------------------------------------------------------------------
(* What follows for the clients *)

\* All state has its type; above all, a control has the same number of values in its
\* state and in every setting, as ctl_values_copy() needs (lines 148-156).
THEOREM TypeCorrect == RouteSpec => []RouteTypeOK
<1>1. IInv => RouteTypeOK
  <2> SUFFICES ASSUME IInv PROVE RouteTypeOK
    OBVIOUS
  <2>1. level \in {"top", "path", "loaded"} /\ tags \in 0 .. MaxTags
    BY DEF IInv, LevelOK
  <2>2. DOMAIN path \subseteq Names /\ current \in DOMAIN path \cup {NoPath}
    BY DEF IInv, PathsOK
  <2>3. \A p \in DOMAIN path :
          /\ path[p] \in Seq(Setting)
          /\ \A i \in DOMAIN path[p] : path[p][i].value \in Value(path[p][i].ctl)
    BY DEF IInv, PathsOK, SettingsOK
  <2>4. DOMAIN state = Controls
    BY DEF IInv, ControlsOK, OfControls
  <2>5. \A c \in Controls : state[c] \in MixerState(c)
    BY DEF IInv, ControlsOK, ControlOK
  <2> QED BY <2>1, <2>2, <2>3, <2>4, <2>5 DEF RouteTypeOK
<1> QED BY <1>1, Invariant, PTL

\* No control is in a path twice, whatever tags and nested paths the file has
\* (path_add_setting() and path_add_value(), lines 342, 392).
THEOREM EachControlOnce == RouteSpec => []NoControlTwice
<1>1. IInv => NoControlTwice
  BY DEF IInv, PathsOK, SettingsOK, NoControlTwice
<1> QED BY <1>1, Invariant, PTL

\* active_count says how many applications of paths use a control, as long as the calls
\* on its paths pair (lines 1059-1070).
THEOREM CountsAreExact == RouteSpec => []ActiveCountExact
<1>1. IInv => ActiveCountExact
  BY DEF IInv, ControlsOK, ControlOK, ActiveCountExact
<1> QED BY <1>1, Invariant, PTL

\* The reset of a path leaves the mixer alone for every control that another application
\* still uses (lines 1062-1068).
THEOREM SharedAreKept == RouteSpec => SharedControlsAreKept
<1> DEFINE Keeps == \A c \in Controls :
                      LET before == Total(state[c].held)
                          after  == Total(state'[c].held)
                      IN  state[c].paired /\ 0 < after /\ after < before => state'[c].hw = state[c].hw
<1>1. IInv /\ [RouteNext]_routeVars => [Keeps]_routeVars
  BY StepOK DEF KeepsShared, Kept
<1>2. SharedControlsAreKept <=> [][Keeps]_routeVars
  BY DEF SharedControlsAreKept
<1> HIDE DEF Keeps
<1> QED BY <1>1, <1>2, Invariant, PTL DEF RouteSpec

\* What SettledControls and IdleControlsAreReset say of a control.
SettledAt(c) ==
  state[c].paired => state[c].hw = SubSeq(state[c].new.cells, 1, state[c].new.size)

IdleAt(c) ==
  state[c].paired /\ Total(state[c].held) = 0 =>
    state[c].hw = SubSeq(state[c].reset.cells, 1, state[c].reset.size)

PlainControlsSettle ==
  level = "loaded" => \A c \in Controls : Plain(c) => SettledAt(c) /\ IdleAt(c)

\* A control that is always sent whole has the value that is wanted, whatever the other
\* controls are; and its reset value when no path uses it (lines 892-929, 1062-1103).
THEOREM PlainAreSettled == RouteSpec => []PlainControlsSettle
<1>1. IInv => PlainControlsSettle
  <2> SUFFICES ASSUME IInv, level = "loaded", NEW c \in Controls, Plain(c)
               PROVE  SettledAt(c) /\ IdleAt(c)
    BY DEF PlainControlsSettle
  <2>1. PICK m : m = state[c]
    OBVIOUS
  <2>2. ControlOK(c, m) /\ LoadedOK(c, m)
    BY <2>1 DEF IInv, ControlsOK
  <2>3. m.new \in Value(c) /\ m.reset \in Value(c) /\ m.hw = m.old.cells
    BY <2>2, MixerStateFacts DEF ControlOK
  <2>4. \A v \in Value(c) : SubSeq(v.cells, 1, v.size) = v.cells
    BY ValueFacts, Used
  <2>5. m.paired => m.hw = m.new.cells /\ (Total(m.held) = 0 => m.hw = m.reset.cells)
    BY <2>2, <2>3 DEF LoadedOK
  <2> QED BY <2>1, <2>3, <2>4, <2>5 DEF SettledAt, IdleAt
<1> QED BY <1>1, Invariant, PTL

\* Nothing is left for a later audio_route_update_mixer() to send, if all controls are
\* sent whole (lines 892-929, 1062-1068).
THEOREM AllAreSettled ==
  ASSUME \A c \in Controls : Plain(c)
  PROVE  RouteSpec => []SettledControls
<1>1. PlainControlsSettle => SettledControls
  BY DEF PlainControlsSettle, SettledAt, SettledControls
<1> QED BY <1>1, PlainAreSettled, PTL

\* What no path uses goes back to its value after loading, if all controls are sent
\* whole (lines 1089-1103).
THEOREM IdleAreReset ==
  ASSUME \A c \in Controls : Plain(c)
  PROVE  RouteSpec => []IdleControlsAreReset
<1>1. PlainControlsSettle => IdleControlsAreReset
  BY DEF PlainControlsSettle, IdleAt, IdleControlsAreReset
<1> QED BY <1>1, PlainAreSettled, PTL

=============================================================================
