------------------------ MODULE CameraMetadataProofs ------------------------
(* Packets of camera metadata stay well-formed and packed, are found by tag    *)
(* exactly, and read as lists of entries, for every set of packets, every      *)
(* capacity, every table of tags and any number of calls.                      *)
EXTENDS CameraMetadata, TLAPS, SequenceTheorems, FiniteSetTheorems, WellFoundedInduction

LEMMA Constants ==
  /\ EntryCapacity \in [Packets -> Nat] /\ DataCapacity \in [Packets -> Nat]
  /\ Tags \subseteq Nat /\ \A t \in Tags : TypeSize[t] \in {1, 4, 8}
  /\ 0 \notin Values /\ Counts \subseteq Nat /\ UpdateCounts \subseteq Nat
  /\ SortedIsFilled \in BOOLEAN
BY CameraAssumption DEF Tags

-----------------------------------------------------------------------------
(* Sizes and words *)

Aligned(n) == n \in Nat /\ n % DATA_ALIGNMENT = 0

LEMMA Bytes ==
  ASSUME NEW tag \in Tags, NEW count \in Nat
  PROVE  count * TypeSize[tag] \in Nat /\ (count = 0 => count * TypeSize[tag] = 0)
<1>1. TypeSize[tag] \in {1, 4, 8}
  BY Constants
<1>2. CASE TypeSize[tag] = 1
  BY <1>2
<1>3. CASE TypeSize[tag] = 4
  BY <1>3
<1>4. CASE TypeSize[tag] = 8
  BY <1>4
<1> QED BY <1>1, <1>2, <1>3, <1>4

LEMMA Sizes ==
  ASSUME NEW tag \in Tags, NEW count \in Nat
  PROVE  /\ Aligned(EntryDataSize(tag, count))
         /\ EntryDataSize(tag, count) = 0 <=> count * TypeSize[tag] =< 4
<1> DEFINE n == count * TypeSize[tag]
<1>1. n \in Nat
  BY Bytes
<1> HIDE DEF n
<1>2. EntryDataSize(tag, count) = IF n =< 4 THEN 0 ELSE 8 * ((n + 7) \div 8)
  BY <1>1 DEF EntryDataSize, Word, DATA_ALIGNMENT, n
<1>3. (n + 7) \div 8 \in Nat /\ (n > 4 => (n + 7) \div 8 >= 1)
  BY <1>1
<1>4. \A k \in Nat : 8 * k \in Nat /\ (8 * k) % 8 = 0
  OBVIOUS
<1> QED BY <1>1, <1>2, <1>3, <1>4 DEF Aligned, DATA_ALIGNMENT, n

LEMMA Words ==
  ASSUME NEW a, NEW b, Aligned(a), Aligned(b)
  PROVE  /\ Aligned(a + b) /\ Word(a + b) = Word(a) + Word(b)
         /\ Word(a) \in Nat /\ (a > 0 => Word(a) > 0)
         /\ a =< b => Aligned(b - a) /\ Word(b - a) = Word(b) - Word(a) /\ Word(a) =< Word(b)
         /\ a < b => Word(a) < Word(b)
         /\ \A c \in Nat : a =< c => Word(a) =< Word(c)
BY DEF Aligned, Word, DATA_ALIGNMENT

-----------------------------------------------------------------------------
(* Tilings: payloads I, that begin at b and have the sizes z, fill n bytes *)

Tiles(I, b, z, n) ==
  /\ Aligned(n)
  /\ \A i \in I : Aligned(b[i]) /\ Aligned(z[i]) /\ z[i] > 0 /\ b[i] + z[i] =< n
  /\ \A i, j \in I : i # j => b[i] + z[i] =< b[j] \/ b[j] + z[j] =< b[i]
  /\ \A k \in 0 .. n - 1 : \E i \in I : b[i] =< k /\ k < b[i] + z[i]

\* One payload goes, and those behind it come forward.
LEMMA TilesRemoved ==
  ASSUME NEW I, NEW b, NEW z, NEW n, Tiles(I, b, z, n), NEW x \in I, NEW c, NEW y,
         \A i \in I \ {x} : y[i] = z[i] /\ c[i] = IF b[i] > b[x] THEN b[i] - z[x] ELSE b[i]
  PROVE  Tiles(I \ {x}, c, y, n - z[x])
<1>1. /\ n \in Nat /\ \A i \in I : b[i] \in Nat /\ z[i] \in Nat /\ z[i] > 0 /\ b[i] + z[i] =< n
      /\ \A i, j \in I : i # j => b[i] + z[i] =< b[j] \/ b[j] + z[j] =< b[i]
  BY DEF Tiles, Aligned
<1>2. Aligned(n - z[x])
  BY <1>1, Words DEF Tiles
<1>3. ASSUME NEW i \in I \ {x}
      PROVE  Aligned(c[i]) /\ Aligned(y[i]) /\ y[i] > 0 /\ c[i] + y[i] =< n - z[x]
  <2>1. CASE b[i] > b[x]
    <3>1. b[x] + z[x] =< b[i]
      BY <1>1, <2>1
    <3>2. Aligned(b[i] - z[x])
      BY <1>1, <3>1, Words DEF Tiles
    <3> QED BY <1>1, <2>1, <3>2 DEF Tiles
  <2>2. CASE ~ (b[i] > b[x])
    BY <1>1, <2>2 DEF Tiles
  <2> QED BY <2>1, <2>2
<1>4. ASSUME NEW i \in I \ {x}, NEW j \in I \ {x}, i # j
      PROVE  c[i] + y[i] =< c[j] \/ c[j] + y[j] =< c[i]
  BY <1>1, <1>4
<1>5. ASSUME NEW k \in 0 .. (n - z[x]) - 1
      PROVE  \E i \in I \ {x} : c[i] =< k /\ k < c[i] + y[i]
  <2>1. CASE k < b[x]
    <3>1. k \in 0 .. n - 1
      BY <1>1
    <3>2. PICK i \in I : b[i] =< k /\ k < b[i] + z[i]
      BY <3>1 DEF Tiles
    <3>3. i # x /\ ~ (b[i] > b[x])
      BY <1>1, <2>1, <3>2
    <3> QED BY <3>2, <3>3
  <2>2. CASE ~ (k < b[x])
    <3>1. k + z[x] \in 0 .. n - 1
      BY <1>1
    <3>2. PICK i \in I : b[i] =< k + z[x] /\ k + z[x] < b[i] + z[i]
      BY <3>1 DEF Tiles
    <3>3. i # x /\ b[i] > b[x]
      BY <1>1, <2>2, <3>2
    <3> QED BY <1>1, <3>2, <3>3
  <2> QED BY <2>1, <2>2
<1> QED BY <1>2, <1>3, <1>4, <1>5 DEF Tiles

\* The same payloads under other names.
LEMMA TilesRenamed ==
  ASSUME NEW I, NEW b, NEW z, NEW n, Tiles(I, b, z, n), NEW J, NEW c, NEW y, NEW f,
         \A j \in J : f[j] \in I /\ c[j] = b[f[j]] /\ y[j] = z[f[j]],
         \A i, j \in J : f[i] = f[j] => i = j,
         \A i \in I : \E j \in J : f[j] = i
  PROVE  Tiles(J, c, y, n)
<1>1. ASSUME NEW k \in 0 .. n - 1 PROVE \E j \in J : c[j] =< k /\ k < c[j] + y[j]
  <2>1. PICK i \in I : b[i] =< k /\ k < b[i] + z[i]
    BY DEF Tiles
  <2> QED BY <2>1
<1> QED BY <1>1 DEF Tiles

\* A payload at the end.
LEMMA TilesExtended ==
  ASSUME NEW I, NEW b, NEW z, NEW n, Tiles(I, b, z, n), NEW x, x \notin I, NEW c, NEW y,
         \A i \in I : c[i] = b[i] /\ y[i] = z[i],
         c[x] = n, Aligned(y[x]), y[x] > 0
  PROVE  Tiles(I \cup {x}, c, y, n + y[x])
<1>1. /\ n \in Nat /\ y[x] \in Nat
      /\ \A i \in I : b[i] \in Nat /\ z[i] \in Nat /\ z[i] > 0 /\ b[i] + z[i] =< n
  BY DEF Tiles, Aligned
<1>2. Aligned(n + y[x])
  BY Words DEF Tiles
<1>3. \A i \in I \cup {x} : Aligned(c[i]) /\ Aligned(y[i]) /\ y[i] > 0 /\ c[i] + y[i] =< n + y[x]
  BY <1>1 DEF Tiles
<1>4. \A i, j \in I \cup {x} : i # j => c[i] + y[i] =< c[j] \/ c[j] + y[j] =< c[i]
  BY <1>1 DEF Tiles
<1>5. ASSUME NEW k \in 0 .. (n + y[x]) - 1
      PROVE  \E i \in I \cup {x} : c[i] =< k /\ k < c[i] + y[i]
  <2>1. CASE k < n
    <3>1. PICK i \in I : b[i] =< k /\ k < b[i] + z[i]
      BY <1>1, <2>1 DEF Tiles
    <3> QED BY <3>1
  <2>2. CASE ~ (k < n)
    BY <1>1, <2>2
  <2> QED BY <2>1, <2>2
<1> QED BY <1>2, <1>3, <1>4, <1>5 DEF Tiles

\* The payloads J come behind the n bytes of the payloads I, under names that are l larger.
Behind(l, I, b, z, n, J, d, w, K, c, y) ==
  /\ l \in Nat /\ I \subseteq 1 .. l /\ J \subseteq Nat \ {0} /\ K = I \cup {l + j : j \in J}
  /\ \A i \in I : c[i] = b[i] /\ y[i] = z[i]
  /\ \A j \in J : c[l + j] = n + d[j] /\ y[l + j] = w[j]

LEMMA TilesJoined ==
  ASSUME NEW l, NEW I, NEW b, NEW z, NEW n, Tiles(I, b, z, n),
         NEW J, NEW d, NEW w, NEW m, Tiles(J, d, w, m), NEW K, NEW c, NEW y,
         Behind(l, I, b, z, n, J, d, w, K, c, y)
  PROVE  Tiles(K, c, y, n + m)
<1>0. /\ l \in Nat /\ I \subseteq 1 .. l /\ J \subseteq Nat \ {0} /\ K = I \cup {l + j : j \in J}
      /\ \A i \in I : c[i] = b[i] /\ y[i] = z[i]
      /\ \A j \in J : c[l + j] = n + d[j] /\ y[l + j] = w[j]
  BY DEF Behind
<1>1. /\ n \in Nat /\ m \in Nat
      /\ \A i \in I : b[i] \in Nat /\ z[i] \in Nat /\ z[i] > 0 /\ b[i] + z[i] =< n
      /\ \A j \in J : d[j] \in Nat /\ w[j] \in Nat /\ w[j] > 0 /\ d[j] + w[j] =< m
  BY DEF Tiles, Aligned
<1>2. Aligned(n + m) /\ \A j \in J : Aligned(n + d[j])
  BY Words DEF Tiles
<1>3. \A i \in K : Aligned(c[i]) /\ Aligned(y[i]) /\ y[i] > 0 /\ c[i] + y[i] =< n + m
  BY <1>0, <1>1, <1>2 DEF Tiles
<1>4. ASSUME NEW i \in K, NEW j \in K, i # j
      PROVE  c[i] + y[i] =< c[j] \/ c[j] + y[j] =< c[i]
  <2>1. CASE i \in I /\ j \in I
    BY <1>0, <1>4, <2>1 DEF Tiles
  <2>2. CASE i \in I /\ j \notin I
    <3>1. PICK k \in J : j = l + k
      BY <1>0, <2>2
    <3>2. c[i] = b[i] /\ y[i] = z[i] /\ c[j] = n + d[k]
      BY <1>0, <2>2, <3>1
    <3> QED BY <1>1, <2>2, <3>2
  <2>3. CASE i \notin I /\ j \in I
    <3>1. PICK k \in J : i = l + k
      BY <1>0, <2>3
    <3>2. c[j] = b[j] /\ y[j] = z[j] /\ c[i] = n + d[k]
      BY <1>0, <2>3, <3>1
    <3> QED BY <1>1, <2>3, <3>2
  <2>4. CASE i \notin I /\ j \notin I
    <3>1. PICK k \in J, h \in J : i = l + k /\ j = l + h
      BY <1>0, <2>4
    <3>2. k # h
      BY <1>0, <1>4, <3>1
    <3>3. d[k] + w[k] =< d[h] \/ d[h] + w[h] =< d[k]
      BY <3>2 DEF Tiles
    <3> QED BY <1>0, <1>1, <3>1, <3>3
  <2> QED BY <2>1, <2>2, <2>3, <2>4
<1>5. ASSUME NEW k \in 0 .. (n + m) - 1
      PROVE  \E i \in K : c[i] =< k /\ k < c[i] + y[i]
  <2>1. CASE k < n
    <3>1. PICK i \in I : b[i] =< k /\ k < b[i] + z[i]
      BY <1>1, <2>1 DEF Tiles
    <3> QED BY <1>0, <3>1
  <2>2. CASE ~ (k < n)
    <3>1. k - n \in 0 .. m - 1
      BY <1>1, <2>2
    <3>2. PICK j \in J : d[j] =< k - n /\ k - n < d[j] + w[j]
      BY <3>1 DEF Tiles
    <3>3. l + j \in K /\ c[l + j] = n + d[j] /\ y[l + j] = w[j]
      BY <1>0
    <3> QED BY <1>1, <3>2, <3>3
  <2> QED BY <2>1, <2>2
<1> QED BY <1>2, <1>3, <1>4, <1>5 DEF Tiles

-----------------------------------------------------------------------------
(* Entries, data and packets *)

Cells == (Values \cup {0}) \X Nat

LEMMA EntryFacts ==
  ASSUME NEW e \in Entry
  PROVE  /\ e.tag \in Tags /\ e.count \in Nat /\ e.raw \in Nat \cup Values
         /\ e.count \in Counts \cup UpdateCounts
         /\ Aligned(DataSize(e)) /\ DataSize(e) \in Nat
         /\ OutOfLine(e) <=> DataSize(e) # 0
         /\ OutOfLine(e) <=> ~ (e.count * TypeSize[e.tag] =< 4)
         /\ OutOfLine(e) => e.count # 0
<1>1. /\ e.tag \in Tags /\ e.count \in Nat /\ e.raw \in Nat \cup Values
      /\ e.count \in Counts \cup UpdateCounts
  BY Constants DEF Entry
<1>2. /\ Aligned(EntryDataSize(e.tag, e.count))
      /\ EntryDataSize(e.tag, e.count) = 0 <=> e.count * TypeSize[e.tag] =< 4
  BY <1>1, Sizes
<1>3. e.count = 0 => e.count * TypeSize[e.tag] =< 4
  BY <1>1, Bytes
<1> QED BY <1>1, <1>2, <1>3 DEF DataSize, OutOfLine, Aligned

LEMMA PacketFacts ==
  ASSUME NEW w, NEW m \in Packet(w)
  PROVE  /\ m.entries \in Seq(Entry) /\ Len(m.entries) \in Nat
         /\ DOMAIN m.entries = 1 .. Len(m.entries)
         /\ \A i \in 1 .. Len(m.entries) : m.entries[i] \in Entry
         /\ m.entry_capacity \in Nat /\ m.data_count \in Nat /\ m.data_capacity \in Nat
         /\ m.data \in [0 .. w - 1 -> Cells] /\ m.sorted \in BOOLEAN /\ m.memory \in Nat
<1>1. /\ m.entries \in Seq(Entry)
      /\ m.entry_capacity \in Nat /\ m.data_count \in Nat /\ m.data_capacity \in Nat
      /\ m.data \in [0 .. w - 1 -> Cells] /\ m.sorted \in BOOLEAN /\ m.memory \in Nat
  BY DEF Packet, Cells
<1>2. /\ Len(m.entries) \in Nat /\ DOMAIN m.entries = 1 .. Len(m.entries)
      /\ \A i \in 1 .. Len(m.entries) : m.entries[i] \in Entry
  BY <1>1, ElementOfSeq, LenProperties
<1> QED BY <1>1, <1>2

\* Entry e of packet m and entry g of packet k hold the same payload.
SamePayload(m, e, k, g) ==
  /\ g.tag = e.tag /\ g.count = e.count
  /\ ~ OutOfLine(e) => g.raw = e.raw
  /\ OutOfLine(e) => \A j \in 0 .. Word(DataSize(e)) - 1 :
                       k.data[Word(g.raw) + j] = m.data[Word(e.raw) + j]

\* They read the same, and are the same when the payload is in the entry.
SameEntry(m, e, k, g) ==
  /\ g.tag = e.tag /\ g.count = e.count /\ ValueOf(k, g) = ValueOf(m, e)
  /\ ~ OutOfLine(e) => g.raw = e.raw

LEMMA SameValue ==
  ASSUME NEW m, NEW k, NEW e \in Entry, NEW g, SamePayload(m, e, k, g)
  PROVE  SameEntry(m, e, k, g)
<1> SUFFICES ValueOf(k, g) = ValueOf(m, e)
  BY DEF SamePayload, SameEntry
<1>1. CASE ~ OutOfLine(e)
  BY <1>1, EntryFacts DEF SamePayload, ValueOf
<1>2. CASE OutOfLine(e)
  <2> DEFINE size == Word(DataSize(e))
             old(j) == m.data[Word(e.raw) + j]
             new(j) == k.data[Word(g.raw) + j]
  <2>1. size \in Nat /\ size > 0
    BY <1>2, EntryFacts, Words
  <2>2. \A j \in 0 .. size - 1 : new(j) = old(j)
    BY <1>2 DEF SamePayload
  <2>3. 0 \in 0 .. size - 1
    BY <2>1
  <2>4. DataSize(g) = DataSize(e)
    BY DEF SamePayload, DataSize
  <2>5. ValueOf(m, e) = IF \A j \in 0 .. size - 1 : old(j) = <<old(0)[1], j>> THEN old(0)[1] ELSE 0
    BY <1>2, EntryFacts DEF ValueOf
  <2>6. ValueOf(k, g) = IF \A j \in 0 .. size - 1 : new(j) = <<new(0)[1], j>> THEN new(0)[1] ELSE 0
    BY <1>2, <2>4, EntryFacts DEF ValueOf, SamePayload
  <2>7. new(0) = old(0)
    BY <2>2, <2>3
  <2> HIDE DEF size, old, new
  <2> QED BY <2>2, <2>5, <2>6, <2>7
<1> QED BY <1>1, <1>2

\* The value v, stored in a payload of its own.
LEMMA NewValue ==
  ASSUME NEW m, NEW e \in Entry, NEW v,
         ~ OutOfLine(e) /\ e.count # 0 => e.raw = v,
         OutOfLine(e) => \A j \in 0 .. Word(DataSize(e)) - 1 : m.data[Word(e.raw) + j] = <<v, j>>
  PROVE  ValueOf(m, e) = IF e.count = 0 THEN 0 ELSE v
<1>1. CASE ~ OutOfLine(e)
  BY <1>1, EntryFacts DEF ValueOf
<1>2. CASE OutOfLine(e)
  <2> DEFINE size == Word(DataSize(e))
             word(j) == m.data[Word(e.raw) + j]
  <2>1. size \in Nat /\ size > 0
    BY <1>2, EntryFacts, Words
  <2>2. \A j \in 0 .. size - 1 : word(j) = <<v, j>>
    BY <1>2
  <2>3. word(0) = <<v, 0>> /\ word(0)[1] = v
    BY <2>1, <2>2
  <2>4. ValueOf(m, e) = IF \A j \in 0 .. size - 1 : word(j) = <<word(0)[1], j>> THEN word(0)[1] ELSE 0
    BY <1>2, EntryFacts DEF ValueOf
  <2> HIDE DEF size, word
  <2> QED BY <1>2, <2>2, <2>3, <2>4, EntryFacts
<1> QED BY <1>1, <1>2

Payloads(es) == {i \in DOMAIN es : OutOfLine(es[i])}
Begins(es)   == [i \in DOMAIN es |-> es[i].raw]
Lengths(es)  == [i \in DOMAIN es |-> DataSize(es[i])]

\* What the operations keep of each packet m: all of its payloads but those in
\* "lost" tile the data.
Without(m, lost) ==
  /\ m \in Packet(Word(m.data_capacity))
  /\ Len(m.entries) =< m.entry_capacity /\ m.data_count =< m.data_capacity
  /\ Tiles(Payloads(m.entries) \ lost, Begins(m.entries), Lengths(m.entries), m.data_count)
PacketOK(m) == Without(m, {})

\* Where a payload is.
LEMMA PayloadFacts ==
  ASSUME NEW m, NEW lost, Without(m, lost), NEW i \in Payloads(m.entries) \ lost
  PROVE  LET e == m.entries[i]
         IN  /\ e \in Entry /\ Aligned(e.raw) /\ Aligned(DataSize(e)) /\ DataSize(e) > 0
             /\ e.raw + DataSize(e) =< m.data_count
             /\ Word(e.raw) \in Nat /\ Word(DataSize(e)) \in Nat /\ Word(DataSize(e)) > 0
             /\ Word(e.raw) + Word(DataSize(e)) =< Word(m.data_count)
             /\ Word(m.data_count) =< Word(m.data_capacity)
<1> DEFINE e == m.entries[i]
<1>1. i \in DOMAIN m.entries /\ e \in Entry /\ m.data_capacity \in Nat
  BY PacketFacts DEF Payloads, Without
<1>2. /\ Begins(m.entries)[i] = e.raw /\ Lengths(m.entries)[i] = DataSize(e)
  BY <1>1 DEF Begins, Lengths
<1>3. /\ Aligned(e.raw) /\ Aligned(DataSize(e)) /\ DataSize(e) > 0
      /\ e.raw + DataSize(e) =< m.data_count /\ Aligned(m.data_count)
  BY <1>2 DEF Without, Tiles
<1>4. m.data_count =< m.data_capacity
  BY DEF Without
<1> HIDE DEF e
<1>5. Aligned(e.raw + DataSize(e)) /\ Word(e.raw + DataSize(e)) = Word(e.raw) + Word(DataSize(e))
  BY <1>3, Words
<1>6. Word(e.raw + DataSize(e)) =< Word(m.data_count)
  BY <1>3, <1>5, Words
<1>7. Word(m.data_count) =< Word(m.data_capacity)
  BY <1>1, <1>3, <1>4, Words
<1>8. Word(e.raw) \in Nat /\ Word(DataSize(e)) \in Nat /\ Word(DataSize(e)) > 0
  BY <1>3, Words
<1> QED BY <1>1, <1>3, <1>5, <1>6, <1>7, <1>8 DEF e

\* No word belongs to two payloads.
LEMMA PayloadsApart ==
  ASSUME NEW m, NEW lost, Without(m, lost),
         NEW i \in Payloads(m.entries) \ lost, NEW j \in Payloads(m.entries) \ lost, i # j
  PROVE  LET e == m.entries[i]
             g == m.entries[j]
         IN  \/ e.raw + DataSize(e) =< g.raw /\ Word(e.raw) + Word(DataSize(e)) =< Word(g.raw)
             \/ g.raw + DataSize(g) =< e.raw /\ Word(g.raw) + Word(DataSize(g)) =< Word(e.raw)
<1> DEFINE e == m.entries[i]
           g == m.entries[j]
<1>1. i \in DOMAIN m.entries /\ j \in DOMAIN m.entries
  BY DEF Payloads
<1>2. /\ Begins(m.entries)[i] = e.raw /\ Lengths(m.entries)[i] = DataSize(e)
      /\ Begins(m.entries)[j] = g.raw /\ Lengths(m.entries)[j] = DataSize(g)
  BY <1>1 DEF Begins, Lengths
<1>3. e.raw + DataSize(e) =< g.raw \/ g.raw + DataSize(g) =< e.raw
  BY <1>2 DEF Without, Tiles
<1>4. Aligned(e.raw) /\ Aligned(DataSize(e)) /\ Aligned(g.raw) /\ Aligned(DataSize(g))
  BY PayloadFacts
<1> HIDE DEF e, g
<1>5. /\ Aligned(e.raw + DataSize(e)) /\ Word(e.raw + DataSize(e)) = Word(e.raw) + Word(DataSize(e))
      /\ Aligned(g.raw + DataSize(g)) /\ Word(g.raw + DataSize(g)) = Word(g.raw) + Word(DataSize(g))
  BY <1>4, Words
<1>6. /\ e.raw + DataSize(e) =< g.raw => Word(e.raw) + Word(DataSize(e)) =< Word(g.raw)
      /\ g.raw + DataSize(g) =< e.raw => Word(g.raw) + Word(DataSize(g)) =< Word(e.raw)
  BY <1>4, <1>5, Words
<1> QED BY <1>3, <1>6 DEF e, g

-----------------------------------------------------------------------------
(* Operations on one packet *)

LEMMA TilesSame ==
  ASSUME NEW I, NEW b, NEW z, NEW n, Tiles(I, b, z, n), NEW c, NEW y,
         \A i \in I : c[i] = b[i] /\ y[i] = z[i]
  PROVE  Tiles(I, c, y, n)
BY DEF Tiles

LEMMA StoredFacts ==
  ASSUME NEW w \in Int, NEW data \in [0 .. w - 1 -> Cells], NEW at, NEW bytes,
         Aligned(at), Aligned(bytes), NEW v \in Values
  PROVE  /\ Stored(data, at, bytes, v) \in [0 .. w - 1 -> Cells]
         /\ \A x \in 0 .. w - 1 :
              x < Word(at) \/ x >= Word(at) + Word(bytes) => Stored(data, at, bytes, v)[x] = data[x]
         /\ \A j \in 0 .. Word(bytes) - 1 :
              Word(at) + j =< w - 1 => Stored(data, at, bytes, v)[Word(at) + j] = <<v, j>>
<1>1. Word(at) \in Nat /\ Word(bytes) \in Nat /\ Word(at + bytes) = Word(at) + Word(bytes)
  BY Words
<1>2. Stored(data, at, bytes, v) =
        [x \in 0 .. w - 1 |-> IF x \in Word(at) .. Word(at) + Word(bytes) - 1
                              THEN <<v, x - Word(at)>> ELSE data[x]]
  BY <1>1 DEF Stored
<1>3. \A x \in 0 .. w - 1 : x \in Word(at) .. Word(at) + Word(bytes) - 1 => <<v, x - Word(at)>> \in Cells
  BY <1>1 DEF Cells
<1>4. Stored(data, at, bytes, v) \in [0 .. w - 1 -> Cells]
  BY <1>2, <1>3
<1>5. ASSUME NEW j \in 0 .. Word(bytes) - 1, Word(at) + j =< w - 1
      PROVE  Stored(data, at, bytes, v)[Word(at) + j] = <<v, j>>
  <2>1. /\ Word(at) + j \in 0 .. w - 1 /\ Word(at) + j \in Word(at) .. Word(at) + Word(bytes) - 1
        /\ (Word(at) + j) - Word(at) = j
    BY <1>1, <1>5
  <2> QED BY <1>2, <2>1
<1>6. ASSUME NEW x \in 0 .. w - 1, x < Word(at) \/ x >= Word(at) + Word(bytes)
      PROVE  Stored(data, at, bytes, v)[x] = data[x]
  <2>1. x \notin Word(at) .. Word(at) + Word(bytes) - 1
    BY <1>1, <1>6
  <2> QED BY <1>2, <2>1
<1> QED BY <1>4, <1>5, <1>6

\* delete_camera_metadata_entry() and update_camera_metadata_entry() give back the
\* payload of entry i.
LEMMA DataRemovedKeeps ==
  ASSUME NEW m, PacketOK(m), NEW i \in Payloads(m.entries), NEW k, k = DataRemoved(m, i)
  PROVE  /\ Without(k, {i}) /\ DOMAIN k.entries = DOMAIN m.entries /\ k.entries[i] = m.entries[i]
         /\ k.data_count = m.data_count - DataSize(m.entries[i])
         /\ k.data_capacity = m.data_capacity /\ k.entry_capacity = m.entry_capacity
         /\ k.sorted = m.sorted
         /\ \A j \in DOMAIN m.entries \ {i} : SameEntry(m, m.entries[j], k, k.entries[j])
<1> DEFINE w    == Word(m.data_capacity)
           es   == m.entries
           gone == m.entries[i]
           size == DataSize(gone)
           new  == [j \in DOMAIN es |->
                      IF OutOfLine(es[j]) /\ es[j].raw > gone.raw
                      THEN Moved(es[j], - size) ELSE es[j]]
           from == Word(gone.raw)
           by   == Word(size)
<1>1. /\ m \in Packet(w) /\ es \in Seq(Entry) /\ Len(es) \in Nat /\ DOMAIN es = 1 .. Len(es)
      /\ \A j \in 1 .. Len(es) : es[j] \in Entry
      /\ m.data_count \in Nat /\ m.data_capacity \in Nat /\ m.data \in [0 .. w - 1 -> Cells]
      /\ Len(es) =< m.entry_capacity /\ m.data_count =< m.data_capacity
      /\ w \in Int
  BY PacketFacts DEF PacketOK, Without, Word, DATA_ALIGNMENT
<1>2. i \in 1 .. Len(es) /\ OutOfLine(gone)
  BY <1>1 DEF Payloads
<1>3. /\ \A j \in Payloads(es) :
           /\ Aligned(es[j].raw) /\ Aligned(DataSize(es[j])) /\ DataSize(es[j]) > 0
           /\ es[j].raw + DataSize(es[j]) =< m.data_count
           /\ Word(es[j].raw) \in Nat /\ Word(DataSize(es[j])) \in Nat
           /\ Word(DataSize(es[j])) > 0
           /\ Word(es[j].raw) + Word(DataSize(es[j])) =< Word(m.data_count)
      /\ Word(m.data_count) =< w
  BY PayloadFacts DEF PacketOK
<1>4. \A j \in Payloads(es) \ {i} :
        IF es[j].raw > gone.raw
        THEN gone.raw + size =< es[j].raw /\ from + by =< Word(es[j].raw)
        ELSE Word(es[j].raw) + Word(DataSize(es[j])) =< from
  <2> TAKE j \in Payloads(es) \ {i}
  <2>1. \/ es[j].raw + DataSize(es[j]) =< gone.raw /\ Word(es[j].raw) + Word(DataSize(es[j])) =< from
        \/ gone.raw + size =< es[j].raw /\ from + by =< Word(es[j].raw)
    BY PayloadsApart DEF PacketOK
  <2> QED BY <1>3, <2>1 DEF Aligned
<1>5. \A j \in 1 .. Len(es) :
        /\ new[j] \in Entry /\ new[j].tag = es[j].tag /\ new[j].count = es[j].count
        /\ ~ OutOfLine(es[j]) => new[j].raw = es[j].raw
        /\ DataSize(new[j]) = DataSize(es[j])
        /\ OutOfLine(es[j]) => new[j].raw = IF es[j].raw > gone.raw THEN es[j].raw - size ELSE es[j].raw
  <2> TAKE j \in 1 .. Len(es)
  <2>1. es[j] \in Entry
    BY <1>1
  <2>2. CASE OutOfLine(es[j]) /\ es[j].raw > gone.raw
    <3>1. j \in Payloads(es) \ {i}
      <4>1. i \in Payloads(es) /\ j \in Payloads(es)
        BY <1>1, <1>2, <2>2 DEF Payloads
      <4>2. gone.raw \in Nat
        BY <1>3, <4>1 DEF Aligned
      <4> QED BY <2>2, <4>1, <4>2
    <3>2. new[j] = Moved(es[j], - size)
      BY <1>1, <2>2
    <3>3. gone.raw + size =< es[j].raw /\ Aligned(gone.raw) /\ Aligned(size) /\ Aligned(es[j].raw)
      BY <1>3, <1>4, <2>2, <3>1
    <3> HIDE DEF new, size, gone
    <3>4. es[j].raw + - size \in Nat /\ es[j].raw + - size = es[j].raw - size
      <4>1. gone.raw \in Nat /\ size \in Nat /\ es[j].raw \in Nat
        BY <3>3 DEF Aligned
      <4> QED BY <3>3, <4>1
    <3>5. /\ new[j] \in Entry /\ new[j].tag = es[j].tag /\ new[j].count = es[j].count
          /\ new[j].raw = es[j].raw - size
      BY <2>1, <3>2, <3>4 DEF Entry, Moved
    <3> QED BY <2>2, <3>5 DEF DataSize
  <2>3. CASE ~ (OutOfLine(es[j]) /\ es[j].raw > gone.raw)
    BY <1>1, <2>1, <2>3
  <2> QED BY <2>2, <2>3
<1>6. new \in Seq(Entry) /\ Len(new) = Len(es) /\ DOMAIN new = DOMAIN es
  <2>1. new \in [1 .. Len(es) -> Entry]
    BY <1>1, <1>5
  <2> QED BY <1>1, <2>1, SeqDef, LenProperties
<1>7. /\ ShiftedOut(m, from, by) \in [0 .. w - 1 -> Cells]
      /\ \A x \in 0 .. w - 1 : x < from => ShiftedOut(m, from, by)[x] = m.data[x]
      /\ \A x \in 0 .. w - 1 : x >= from /\ x < Word(m.data_count) - by
           => ShiftedOut(m, from, by)[x] = m.data[x + by]
  <2>1. from \in Nat /\ by \in Nat /\ Word(m.data_count) =< w /\ Word(m.data_count) \in Int
    BY <1>1, <1>2, <1>3 DEF Word, DATA_ALIGNMENT
  <2>2. <<0, 0>> \in Cells
    BY DEF Cells
  <2>3. ShiftedOut(m, from, by) =
          [x \in 0 .. w - 1 |-> IF x < from THEN m.data[x]
                                ELSE IF x < Word(m.data_count) - by THEN m.data[x + by] ELSE <<0, 0>>]
    BY <1>1 DEF ShiftedOut
  <2> HIDE DEF from, by, w
  <2>4. \A x \in 0 .. w - 1 : x < Word(m.data_count) - by => m.data[x + by] \in Cells
    <3> TAKE x \in 0 .. w - 1
    <3>1. PICK c : c = Word(m.data_count)
      OBVIOUS
    <3>2. c =< w /\ c \in Int /\ by \in Nat /\ w \in Int
      BY <1>1, <2>1, <3>1
    <3>3. x < c - by => x + by \in 0 .. w - 1
      BY <3>2
    <3> QED BY <1>1, <3>1, <3>3
  <2>5. PICK f : f = ShiftedOut(m, from, by)
    OBVIOUS
  <2>6. f = [x \in 0 .. w - 1 |-> f[x]]
    BY <2>3, <2>5
  <2>7. ASSUME NEW x \in 0 .. w - 1
        PROVE  /\ f[x] \in Cells /\ (x < from => f[x] = m.data[x])
               /\ x >= from /\ x < Word(m.data_count) - by => f[x] = m.data[x + by]
    <3>1. f[x] = IF x < from THEN m.data[x]
                 ELSE IF x < Word(m.data_count) - by THEN m.data[x + by] ELSE <<0, 0>>
      BY <2>3, <2>5
    <3>2. m.data[x] \in Cells
      BY <1>1
    <3>3. x \in Int
      OBVIOUS
    <3> QED BY <2>1, <2>2, <2>4, <3>1, <3>2, <3>3
  <2> QED BY <2>5, <2>6, <2>7
<1>8. k = [m EXCEPT !.data = ShiftedOut(m, from, by), !.entries = new, !.data_count = m.data_count - size]
  BY DEF DataRemoved
<1>9. size \in Nat /\ m.data_count - size \in Nat /\ m.data_count - size =< m.data_capacity
  <2>1. Aligned(size) /\ Aligned(gone.raw) /\ gone.raw + size =< m.data_count
    BY <1>3
  <2>2. size \in Nat /\ gone.raw \in Nat
    BY <2>1 DEF Aligned
  <2>3. PICK r, z, c : r = gone.raw /\ z = size /\ c = m.data_count
    OBVIOUS
  <2>4. r \in Nat /\ z \in Nat /\ c \in Nat /\ r + z =< c /\ c =< m.data_capacity /\ m.data_capacity \in Nat
    BY <1>1, <2>1, <2>2, <2>3
  <2>5. c - z \in Nat /\ c - z =< m.data_capacity
    BY <2>4
  <2> QED BY <2>3, <2>4, <2>5
<1>10. /\ k.entries = new /\ k.data = ShiftedOut(m, from, by) /\ k.data_count = m.data_count - size
       /\ k.entry_capacity = m.entry_capacity /\ k.data_capacity = m.data_capacity
       /\ k.sorted = m.sorted /\ k \in Packet(w)
  <2> HIDE DEF new, w, size, from, by
  <2>1. new \in Seq(Entry) /\ ShiftedOut(m, from, by) \in [0 .. w - 1 -> Cells]
    BY <1>6, <1>7
  <2>2. m.data_count - size \in Nat /\ m \in Packet(w)
    BY <1>1, <1>9
  <2> QED BY <1>8, <2>1, <2>2 DEF Packet, Cells
<1>11. Tiles(Payloads(k.entries) \ {i}, Begins(k.entries), Lengths(k.entries), k.data_count)
  <2>1. Payloads(k.entries) = Payloads(es)
    <3>1. \A j \in 1 .. Len(es) : OutOfLine(new[j]) <=> OutOfLine(es[j])
      BY <1>5 DEF OutOfLine
    <3>2. k.entries = new /\ DOMAIN new = 1 .. Len(es) /\ DOMAIN es = 1 .. Len(es)
      BY <1>1, <1>6, <1>10
    <3> HIDE DEF new, es
    <3> QED BY <3>1, <3>2 DEF Payloads
  <2>2. \A j \in Payloads(es) \ {i} :
          /\ Lengths(k.entries)[j] = Lengths(es)[j]
          /\ Begins(k.entries)[j] = IF Begins(es)[j] > Begins(es)[i]
                                   THEN Begins(es)[j] - Lengths(es)[i] ELSE Begins(es)[j]
    <3> TAKE j \in Payloads(es) \ {i}
    <3>1. j \in 1 .. Len(es) /\ OutOfLine(es[j])
      BY <1>1 DEF Payloads
    <3>2. /\ DataSize(new[j]) = DataSize(es[j])
          /\ new[j].raw = IF es[j].raw > gone.raw THEN es[j].raw - size ELSE es[j].raw
      BY <1>5, <3>1
    <3>3. /\ k.entries = new /\ DOMAIN new = 1 .. Len(es) /\ DOMAIN es = 1 .. Len(es)
          /\ i \in 1 .. Len(es)
      BY <1>1, <1>2, <1>6, <1>10
    <3>4. /\ Begins(es)[j] = es[j].raw /\ Begins(es)[i] = gone.raw
          /\ Lengths(es)[j] = DataSize(es[j]) /\ Lengths(es)[i] = size
      BY <3>1, <3>3 DEF Begins, Lengths
    <3>5. Begins(k.entries)[j] = new[j].raw /\ Lengths(k.entries)[j] = DataSize(new[j])
      <4> HIDE DEF new
      <4> QED BY <3>1, <3>3 DEF Begins, Lengths
    <3> HIDE DEF new, es, size, gone
    <3> QED BY <3>2, <3>4, <3>5
  <2>3. Tiles(Payloads(es), Begins(es), Lengths(es), m.data_count)
    BY DEF PacketOK, Without
  <2>4. Lengths(es)[i] = size
    BY <1>1, <1>2 DEF Lengths
  <2>5. Tiles(Payloads(es) \ {i}, Begins(k.entries), Lengths(k.entries), m.data_count - Lengths(es)[i])
    <3> HIDE DEF es
    <3>1. i \in Payloads(es)
      BY DEF es
    <3> QED BY <2>2, <2>3, <3>1, TilesRemoved
  <2> QED BY <1>10, <2>1, <2>4, <2>5
<1>12. ASSUME NEW j \in DOMAIN es \ {i} PROVE SameEntry(m, es[j], k, k.entries[j])
  <2>1. es[j] \in Entry
    BY <1>1
  <2>2. ASSUME OutOfLine(es[j]), NEW x \in 0 .. Word(DataSize(es[j])) - 1
        PROVE  k.data[Word(new[j].raw) + x] = m.data[Word(es[j].raw) + x]
    <3>1. j \in Payloads(es) \ {i} /\ j \in 1 .. Len(es) /\ i \in Payloads(es)
      BY <1>1, <2>2 DEF Payloads
    <3>2. /\ Aligned(es[j].raw) /\ Word(es[j].raw) \in Nat /\ Word(DataSize(es[j])) \in Nat
          /\ Word(es[j].raw) + Word(DataSize(es[j])) =< Word(m.data_count)
          /\ Aligned(gone.raw) /\ Aligned(size) /\ from \in Nat /\ by \in Nat
          /\ Word(m.data_count) =< w /\ Word(m.data_count) \in Int
      <4>1. /\ Aligned(es[j].raw) /\ Word(es[j].raw) \in Nat /\ Word(DataSize(es[j])) \in Nat
            /\ Word(es[j].raw) + Word(DataSize(es[j])) =< Word(m.data_count)
        BY <1>3, <3>1
      <4>2. Aligned(gone.raw) /\ Aligned(size) /\ from \in Nat /\ by \in Nat
        BY <1>3, <3>1
      <4>3. Word(m.data_count) \in Int
        BY <1>1 DEF Word, DATA_ALIGNMENT
      <4> QED BY <1>3, <4>1, <4>2, <4>3
    <3>3. CASE es[j].raw > gone.raw
      <4>1. /\ new[j].raw = es[j].raw - size /\ gone.raw + size =< es[j].raw
            /\ from + by =< Word(es[j].raw)
        BY <1>4, <1>5, <2>2, <3>1, <3>3
      <4>2. Word(new[j].raw) = Word(es[j].raw) - by
        <5>1. size =< es[j].raw
          BY <3>2, <4>1 DEF Aligned
        <5> QED BY <3>2, <4>1, <5>1, Words
      <4> DEFINE y == Word(new[j].raw) + x
      <4>3. y \in 0 .. w - 1 /\ y >= from /\ y < Word(m.data_count) - by /\ y + by = Word(es[j].raw) + x
        <5>1. w \in Int
          BY <1>1
        <5> HIDE DEF new, from, by, w
        <5>2. PICK r, z, c, q : /\ r = Word(es[j].raw) /\ z = Word(DataSize(es[j]))
                                /\ c = Word(m.data_count) /\ q = Word(new[j].raw)
          OBVIOUS
        <5>3. /\ r \in Nat /\ z \in Nat /\ c \in Int /\ from \in Nat /\ by \in Nat
              /\ r + z =< c /\ c =< w /\ from + by =< r /\ q = r - by
          BY <3>2, <4>1, <4>2, <5>2
        <5>4. x \in Int /\ x >= 0 /\ x < z
          BY <2>2, <5>2, <5>3
        <5>5. q + x \in 0 .. w - 1 /\ q + x >= from /\ q + x < c - by /\ q + x + by = r + x
          BY <5>1, <5>3, <5>4
        <5> QED BY <5>2, <5>5
      <4>4. ShiftedOut(m, from, by)[y] = m.data[y + by]
        <5> HIDE DEF from, by, w, y
        <5> QED BY <1>7, <4>3
      <4> QED BY <1>10, <4>3, <4>4
    <3>4. CASE ~ (es[j].raw > gone.raw)
      <4>1. new[j].raw = es[j].raw /\ Word(es[j].raw) + Word(DataSize(es[j])) =< from
        BY <1>4, <1>5, <2>2, <3>1, <3>4
      <4> DEFINE y == Word(es[j].raw) + x
      <4>2. y \in 0 .. w - 1 /\ y < from
        <5>1. PICK r, z, c : r = Word(es[j].raw) /\ z = Word(DataSize(es[j])) /\ c = Word(m.data_count)
          OBVIOUS
        <5>2. /\ r \in Nat /\ z \in Nat /\ c \in Int /\ from \in Nat /\ w \in Int
              /\ r + z =< c /\ c =< w /\ r + z =< from
          BY <1>1, <3>2, <4>1, <5>1
        <5>3. x \in Int /\ x >= 0 /\ x < z
          BY <2>2, <5>1, <5>2
        <5> HIDE DEF w, from
        <5>4. r + x \in 0 .. w - 1 /\ r + x < from
          BY <5>2, <5>3
        <5> QED BY <5>1, <5>4
      <4> QED BY <1>7, <1>10, <4>1, <4>2
    <3> QED BY <3>3, <3>4
  <2>3. SamePayload(m, es[j], k, k.entries[j])
    <3>1. /\ new[j].tag = es[j].tag /\ new[j].count = es[j].count
          /\ ~ OutOfLine(es[j]) => new[j].raw = es[j].raw
      BY <1>1, <1>5
    <3> HIDE DEF new, es
    <3> QED BY <1>10, <2>2, <3>1 DEF SamePayload
  <2> QED BY <2>1, <2>3, SameValue
<1>13. new[i] = gone
  BY <1>1, <1>2, <1>3 DEF Aligned, Payloads
<1>14. Without(k, {i})
  BY <1>1, <1>6, <1>9, <1>10, <1>11 DEF Without
<1> QED BY <1>6, <1>10, <1>12, <1>13, <1>14

\* Packet k is packet m with entry e in place i, its value v stored from byte "at" on.
Holding(m, i, e, v, at, k) ==
  /\ k \in Packet(Word(m.data_capacity)) /\ k.data_capacity = m.data_capacity
  /\ Len(k.entries) =< k.entry_capacity /\ k.data_count =< k.data_capacity
  /\ DOMAIN k.entries = DOMAIN m.entries \cup {i} /\ k.entries[i] = e
  /\ \A j \in DOMAIN m.entries \ {i} : k.entries[j] = m.entries[j]
  /\ Aligned(at) /\ (OutOfLine(e) => at = e.raw)
  /\ k.data = Stored(m.data, at, DataSize(e), v)
  /\ ~ OutOfLine(e) /\ e.count # 0 => e.raw = v

\* The words for the payload of e are in no payload but that of entry i.
FreeFor(m, i, at, e) ==
  \A j \in Payloads(m.entries) \ {i} :
    \/ Word(m.entries[j].raw) + Word(DataSize(m.entries[j])) =< Word(at)
    \/ Word(at) + Word(DataSize(e)) =< Word(m.entries[j].raw)

Reads(m, i, e, v, k) ==
  /\ \A j \in DOMAIN m.entries \ {i} : SameEntry(m, m.entries[j], k, k.entries[j])
  /\ ValueOf(k, e) = IF e.count = 0 THEN 0 ELSE v

\* What is stored in free space, or in the space entry i had, reads as v and
\* leaves the other entries alone.
LEMMA HoldingReads ==
  ASSUME NEW m, NEW i, NEW lost, lost \subseteq {i}, Without(m, lost),
         NEW e \in Entry, NEW v \in Values, NEW at, NEW k, Holding(m, i, e, v, at, k),
         OutOfLine(e) => Word(at) + Word(DataSize(e)) =< Word(m.data_capacity),
         OutOfLine(e) => FreeFor(m, i, at, e)
  PROVE  Reads(m, i, e, v, k)
<1> DEFINE w    == Word(m.data_capacity)
           size == Word(DataSize(e))
<1>1. /\ m \in Packet(w) /\ m.data \in [0 .. w - 1 -> Cells] /\ w \in Int
      /\ DOMAIN m.entries = 1 .. Len(m.entries)
      /\ \A j \in 1 .. Len(m.entries) : m.entries[j] \in Entry
  BY PacketFacts DEF Without, Word, DATA_ALIGNMENT
<1>2. /\ Aligned(DataSize(e)) /\ Aligned(at) /\ size \in Nat /\ Word(at) \in Nat
      /\ ~ OutOfLine(e) => size = 0
  <2>1. Aligned(DataSize(e)) /\ Aligned(at) /\ (~ OutOfLine(e) => DataSize(e) = 0)
    BY EntryFacts DEF Holding
  <2>2. Word(0) = 0
    BY DEF Word, DATA_ALIGNMENT
  <2> QED BY <2>1, <2>2, Words
<1>3. /\ \A x \in 0 .. w - 1 : x < Word(at) \/ x >= Word(at) + size => k.data[x] = m.data[x]
      /\ \A j \in 0 .. size - 1 : Word(at) + j =< w - 1 => k.data[Word(at) + j] = <<v, j>>
  <2>1. k.data = Stored(m.data, at, DataSize(e), v)
    BY DEF Holding
  <2> HIDE DEF w
  <2> QED BY <1>1, <1>2, <2>1, StoredFacts
<1>4. ASSUME NEW j \in DOMAIN m.entries \ {i}
      PROVE  SameEntry(m, m.entries[j], k, k.entries[j])
  <2> DEFINE g == m.entries[j]
  <2>1. g \in Entry /\ k.entries[j] = g
    BY <1>1 DEF Holding
  <2>2. ASSUME OutOfLine(g), NEW x \in 0 .. Word(DataSize(g)) - 1
        PROVE  k.data[Word(g.raw) + x] = m.data[Word(g.raw) + x]
    <3>1. j \in Payloads(m.entries) \ {i} /\ j \in Payloads(m.entries) \ lost
      BY <2>2 DEF Payloads
    <3>2. /\ Word(g.raw) \in Nat /\ Word(DataSize(g)) \in Nat
          /\ Word(g.raw) + Word(DataSize(g)) =< Word(m.data_count) /\ Word(m.data_count) =< w
      BY <3>1, PayloadFacts
    <3>3. Word(m.data_count) \in Int
      BY <1>1, PacketFacts DEF Word, DATA_ALIGNMENT
    <3>4. \/ ~ OutOfLine(e)
          \/ Word(g.raw) + Word(DataSize(g)) =< Word(at)
          \/ Word(at) + size =< Word(g.raw)
      BY <3>1 DEF FreeFor
    <3> DEFINE y == Word(g.raw) + x
    <3>5. y \in 0 .. w - 1 /\ (y < Word(at) \/ y >= Word(at) + size)
      <4> HIDE DEF w, size
      <4>1. PICK r, z, c, a : /\ r = Word(g.raw) /\ z = Word(DataSize(g))
                              /\ c = Word(m.data_count) /\ a = Word(at)
        OBVIOUS
      <4>2. /\ r \in Nat /\ z \in Nat /\ r + z =< c /\ c =< w /\ c \in Int /\ w \in Int
            /\ a \in Nat /\ size \in Nat
            /\ size = 0 \/ r + z =< a \/ a + size =< r
        BY <1>1, <1>2, <3>2, <3>3, <3>4, <4>1
      <4>3. x \in Int /\ x >= 0 /\ x < z
        BY <2>2, <4>1, <4>2
      <4>4. r + x \in 0 .. w - 1 /\ (r + x < a \/ r + x >= a + size)
        BY <4>2, <4>3
      <4> QED BY <4>1, <4>4
    <3> QED BY <1>3, <3>5
  <2>3. SamePayload(m, g, k, g)
    BY <2>2 DEF SamePayload
  <2> QED BY <2>1, <2>3, SameValue
<1>5. ASSUME OutOfLine(e), NEW j \in 0 .. Word(DataSize(e)) - 1
      PROVE  k.data[Word(e.raw) + j] = <<v, j>>
  <2>1. at = e.raw /\ Word(at) + size =< w
    BY <1>5 DEF Holding
  <2>2. Word(at) + j =< w - 1
    <3> HIDE DEF w
    <3> QED BY <1>1, <1>2, <2>1
  <2> QED BY <1>3, <2>1, <2>2
<1>6. ValueOf(k, e) = IF e.count = 0 THEN 0 ELSE v
  <2>1. ~ OutOfLine(e) /\ e.count # 0 => e.raw = v
    BY DEF Holding
  <2>2. OutOfLine(e) => \A j \in 0 .. Word(DataSize(e)) - 1 : k.data[Word(e.raw) + j] = <<v, j>>
    BY <1>5
  <2> HIDE DEF w, size
  <2> QED BY <2>1, <2>2, NewValue
<1> QED BY <1>4, <1>6 DEF Reads

\* Entry e gets its payload at the end of the data.
LEMMA HoldingAtEnd ==
  ASSUME NEW m, NEW i, Without(m, {i}), NEW e \in Entry, NEW v \in Values, NEW at, NEW k,
         Holding(m, i, e, v, at, k), k.data_count = m.data_count + DataSize(e),
         OutOfLine(e) => e.raw = m.data_count
  PROVE  PacketOK(k) /\ Reads(m, i, e, v, k)
<1>1. /\ m.data_count \in Nat /\ m.data_capacity \in Nat /\ m.data_count =< m.data_capacity
      /\ Aligned(m.data_count) /\ Aligned(DataSize(e)) /\ DataSize(e) \in Nat
      /\ OutOfLine(e) <=> DataSize(e) # 0
  BY PacketFacts, EntryFacts DEF Without, Tiles
<1>2. k.data_count =< m.data_capacity /\ (OutOfLine(e) => at = m.data_count)
  BY DEF Holding
<1>3. OutOfLine(e) => Word(at) + Word(DataSize(e)) =< Word(m.data_capacity)
  <2>1. Aligned(m.data_count + DataSize(e))
        /\ Word(m.data_count + DataSize(e)) = Word(m.data_count) + Word(DataSize(e))
    BY <1>1, Words
  <2>2. Word(m.data_count + DataSize(e)) =< Word(m.data_capacity)
    BY <1>1, <1>2, <2>1, Words
  <2> QED BY <1>2, <2>1, <2>2
<1>4. OutOfLine(e) => FreeFor(m, i, at, e)
  BY <1>2, PayloadFacts DEF FreeFor
<1>5. Reads(m, i, e, v, k)
  <2>1. {i} \subseteq {i}
    OBVIOUS
  <2> QED BY <1>3, <1>4, <2>1, HoldingReads
<1>6. PacketOK(k)
  <2> DEFINE I == Payloads(m.entries) \ {i}
  <2>1. Tiles(I, Begins(m.entries), Lengths(m.entries), m.data_count)
    BY DEF Without
  <2>2. /\ DOMAIN k.entries = DOMAIN m.entries \cup {i} /\ k.entries[i] = e
        /\ \A j \in DOMAIN m.entries \ {i} : k.entries[j] = m.entries[j]
    BY DEF Holding
  <2>3. \A j \in I : Begins(k.entries)[j] = Begins(m.entries)[j] /\ Lengths(k.entries)[j] = Lengths(m.entries)[j]
    BY <2>2 DEF Begins, Lengths, Payloads
  <2>4. Begins(k.entries)[i] = e.raw /\ Lengths(k.entries)[i] = DataSize(e)
    BY <2>2 DEF Begins, Lengths
  <2>5. Payloads(k.entries) = IF OutOfLine(e) THEN I \cup {i} ELSE I
    BY <2>2 DEF Payloads
  <2>6. Tiles(Payloads(k.entries), Begins(k.entries), Lengths(k.entries), k.data_count)
    <3>1. CASE OutOfLine(e)
      <4>1. i \notin I /\ Begins(k.entries)[i] = m.data_count /\ Aligned(Lengths(k.entries)[i])
            /\ Lengths(k.entries)[i] > 0
        BY <1>1, <2>4, <3>1
      <4>2. Tiles(I \cup {i}, Begins(k.entries), Lengths(k.entries), m.data_count + Lengths(k.entries)[i])
        <5> HIDE DEF I
        <5> QED BY <2>1, <2>3, <4>1, TilesExtended
      <4> QED BY <2>4, <2>5, <3>1, <4>2
    <3>2. CASE ~ OutOfLine(e)
      <4>1. k.data_count = m.data_count
        BY <1>1, <3>2
      <4>2. Tiles(I, Begins(k.entries), Lengths(k.entries), m.data_count)
        <5> HIDE DEF I
        <5> QED BY <2>1, <2>3, TilesSame
      <4> QED BY <2>5, <3>2, <4>1, <4>2
    <3> QED BY <3>1, <3>2
  <2>7. Payloads(k.entries) \ {} = Payloads(k.entries)
    OBVIOUS
  <2> QED BY <2>6, <2>7 DEF PacketOK, Without, Holding
<1> QED BY <1>5, <1>6

\* Entry e takes over the payload of entry i.
LEMMA HoldingInPlace ==
  ASSUME NEW m, PacketOK(m), NEW i \in DOMAIN m.entries, NEW e \in Entry, NEW v \in Values,
         NEW at, NEW k, Holding(m, i, e, v, at, k), k.data_count = m.data_count,
         DataSize(e) = DataSize(m.entries[i]), OutOfLine(e) => e.raw = m.entries[i].raw
  PROVE  PacketOK(k) /\ Reads(m, i, e, v, k)
<1>1. OutOfLine(e) => at = m.entries[i].raw /\ i \in Payloads(m.entries)
  BY DEF Holding, OutOfLine, Payloads
<1>2. OutOfLine(e) => Word(at) + Word(DataSize(e)) =< Word(m.data_capacity)
  <2> SUFFICES ASSUME OutOfLine(e) PROVE Word(at) + Word(DataSize(e)) =< Word(m.data_capacity)
    OBVIOUS
  <2>1. /\ Word(at) \in Nat /\ Word(DataSize(e)) \in Nat
        /\ Word(at) + Word(DataSize(e)) =< Word(m.data_count) /\ Word(m.data_count) =< Word(m.data_capacity)
    BY <1>1, PayloadFacts DEF PacketOK
  <2>2. m.data_count \in Nat /\ m.data_capacity \in Nat
    BY PacketFacts DEF PacketOK, Without
  <2>3. Word(m.data_count) \in Int /\ Word(m.data_capacity) \in Int
    BY <2>2 DEF Word, DATA_ALIGNMENT
  <2> QED BY <2>1, <2>3
<1>3. OutOfLine(e) => FreeFor(m, i, at, e)
  BY <1>1, PayloadsApart DEF PacketOK, FreeFor
<1>4. Reads(m, i, e, v, k)
  <2>1. {} \subseteq {i}
    OBVIOUS
  <2> QED BY <1>2, <1>3, <2>1, HoldingReads DEF PacketOK
<1>5. PacketOK(k)
  <2>1. Tiles(Payloads(m.entries) \ {}, Begins(m.entries), Lengths(m.entries), m.data_count)
    BY DEF PacketOK, Without
  <2>2. /\ DOMAIN k.entries = DOMAIN m.entries /\ k.entries[i] = e
        /\ \A j \in DOMAIN m.entries \ {i} : k.entries[j] = m.entries[j]
    BY DEF Holding
  <2>3. OutOfLine(e) <=> OutOfLine(m.entries[i])
    BY DEF OutOfLine
  <2>4. Payloads(k.entries) = Payloads(m.entries)
    BY <2>2, <2>3 DEF Payloads
  <2>5. \A j \in Payloads(m.entries) \ {} :
          Begins(k.entries)[j] = Begins(m.entries)[j] /\ Lengths(k.entries)[j] = Lengths(m.entries)[j]
    BY <2>2, <2>3 DEF Begins, Lengths, Payloads
  <2>6. Tiles(Payloads(k.entries) \ {}, Begins(k.entries), Lengths(k.entries), k.data_count)
    BY <2>1, <2>4, <2>5, TilesSame
  <2> QED BY <2>6 DEF PacketOK, Without, Holding
<1> QED BY <1>4, <1>5

\* What is left of the packet when entry i has given back its payload, if any.
GivenBack(m, i, k) ==
  /\ Without(k, {i}) /\ DOMAIN k.entries = DOMAIN m.entries /\ k.entries[i] = m.entries[i]
  /\ k.data_count = m.data_count - DataSize(m.entries[i])
  /\ k.data_capacity = m.data_capacity /\ k.entry_capacity = m.entry_capacity
  /\ k.sorted = m.sorted
  /\ \A j \in DOMAIN m.entries \ {i} : SameEntry(m, m.entries[j], k, k.entries[j])

LEMMA EmptiedKeeps ==
  ASSUME NEW m, PacketOK(m), NEW i \in DOMAIN m.entries
  PROVE  GivenBack(m, i, Emptied(m, i))
<1>1. CASE OutOfLine(m.entries[i])
  <2>1. i \in Payloads(m.entries) /\ Emptied(m, i) = DataRemoved(m, i)
    BY <1>1 DEF Payloads, Emptied
  <2> QED BY <2>1, DataRemovedKeeps DEF GivenBack
<1>2. CASE ~ OutOfLine(m.entries[i])
  <2>1. Payloads(m.entries) \ {i} = Payloads(m.entries) \ {} /\ Emptied(m, i) = m
    BY <1>2 DEF Payloads, Emptied
  <2>2. m \in Packet(Word(m.data_capacity))
    BY DEF PacketOK, Without
  <2>3. /\ DOMAIN m.entries = 1 .. Len(m.entries) /\ m.data_count \in Nat
        /\ \A j \in 1 .. Len(m.entries) : m.entries[j] \in Entry
    BY <2>2, PacketFacts
  <2>4. m.entries[i] \in Entry
    BY <2>3
  <2>5. DataSize(m.entries[i]) = 0
    BY <1>2, <2>4, EntryFacts
  <2>6. \A j \in DOMAIN m.entries \ {i} : SameEntry(m, m.entries[j], m, m.entries[j])
    BY DEF SameEntry
  <2>7. Without(m, {i})
    BY <2>1 DEF PacketOK, Without
  <2> QED BY <2>1, <2>3, <2>5, <2>6, <2>7 DEF GivenBack
<1> QED BY <1>1, <1>2

LEMMA SameEntryTransitive ==
  ASSUME NEW m, NEW e, NEW k, NEW g, NEW n, NEW h, SameEntry(m, e, k, g), SameEntry(k, g, n, h)
  PROVE  SameEntry(m, e, n, h)
<1>1. OutOfLine(g) <=> OutOfLine(e)
  BY DEF SameEntry, OutOfLine, DataSize
<1> QED BY <1>1 DEF SameEntry

\* add_camera_metadata_entry()
LEMMA AddedKeeps ==
  ASSUME NEW m, PacketOK(m), NEW tag \in Tags, NEW count \in Counts, NEW v \in Values,
         Len(m.entries) < m.entry_capacity,
         EntryDataSize(tag, count) + m.data_count =< m.data_capacity,
         NEW k, k = Added(m, tag, count, v)
  PROVE  /\ PacketOK(k) /\ ~ k.sorted
         /\ Len(k.entries) = Len(m.entries) + 1
         /\ \A j \in DOMAIN m.entries : SameEntry(m, m.entries[j], k, k.entries[j])
         /\ LET e == k.entries[Len(m.entries) + 1]
            IN  /\ e.tag = tag /\ e.count = count /\ (count = 0 => e.raw = 0)
                /\ ValueOf(k, e) = IF count = 0 THEN 0 ELSE v
<1> DEFINE w     == Word(m.data_capacity)
           bytes == EntryDataSize(tag, count)
           raw   == IF bytes > 0 THEN m.data_count ELSE IF count > 0 THEN v ELSE 0
           e     == [tag |-> tag, count |-> count, raw |-> raw]
           i     == Len(m.entries) + 1
           new   == Append(m.entries, e)
           data  == Stored(m.data, m.data_count, bytes, v)
<1>1. /\ m \in Packet(w) /\ m.entries \in Seq(Entry) /\ Len(m.entries) \in Nat
      /\ DOMAIN m.entries = 1 .. Len(m.entries) /\ m.entry_capacity \in Nat
      /\ m.data_count \in Nat /\ m.data_capacity \in Nat /\ m.data \in [0 .. w - 1 -> Cells]
      /\ Aligned(m.data_count) /\ w \in Int
  BY PacketFacts DEF PacketOK, Without, Tiles, Word, DATA_ALIGNMENT
<1>2. count \in Nat /\ Aligned(bytes) /\ bytes \in Nat /\ (count = 0 => bytes = 0)
  <2>1. count \in Nat
    BY Constants
  <2>2. Aligned(bytes) /\ (bytes = 0 <=> count * TypeSize[tag] =< 4)
    BY <2>1, Sizes
  <2>3. count = 0 => count * TypeSize[tag] =< 4
    BY <2>1, Bytes
  <2> QED BY <2>1, <2>2, <2>3 DEF Aligned
<1>3. /\ e \in Entry /\ DataSize(e) = bytes /\ (OutOfLine(e) <=> bytes > 0) /\ e.raw = raw
      /\ e.tag = tag /\ e.count = count
  <2>1. raw \in Nat \cup Values
    BY <1>1
  <2> HIDE DEF raw
  <2> QED BY <2>1 DEF Entry, DataSize, OutOfLine
<1>4. new \in Seq(Entry) /\ Len(new) = i /\ new[i] = e /\ \A j \in 1 .. Len(m.entries) : new[j] = m.entries[j]
  BY <1>1, <1>3, AppendProperties
<1>5. data \in [0 .. w - 1 -> Cells]
  <2> HIDE DEF w
  <2> QED BY <1>1, <1>2, StoredFacts
<1>6. k = [m EXCEPT !.entries = new, !.data = data, !.data_count = m.data_count + bytes, !.sorted = FALSE]
  BY DEF Added
<1>7. /\ k.entries = new /\ k.data = data /\ k.data_count = m.data_count + bytes /\ ~ k.sorted
      /\ k.entry_capacity = m.entry_capacity /\ k.data_capacity = m.data_capacity
      /\ k \in Packet(w)
  <2>1. m.data_count + bytes \in Nat
    BY <1>1, <1>2
  <2> HIDE DEF new, data, w, bytes
  <2> QED BY <1>1, <1>4, <1>5, <1>6, <2>1 DEF Packet, Cells
<1>8. DOMAIN k.entries = DOMAIN m.entries \cup {i} /\ i \notin DOMAIN m.entries
  <2>1. DOMAIN new = 1 .. i
    BY <1>4, LenProperties
  <2> QED BY <1>1, <1>7, <2>1
<1>9. Holding(m, i, e, v, m.data_count, k)
  <2>1. /\ k \in Packet(Word(m.data_capacity)) /\ k.data_capacity = m.data_capacity
        /\ Len(k.entries) =< k.entry_capacity /\ k.data_count =< k.data_capacity
    BY <1>1, <1>2, <1>4, <1>7
  <2>2. k.entries[i] = e /\ \A j \in DOMAIN m.entries \ {i} : k.entries[j] = m.entries[j]
    BY <1>1, <1>4, <1>7
  <2>3. Aligned(m.data_count) /\ (OutOfLine(e) => m.data_count = e.raw)
    BY <1>1, <1>3
  <2>4. k.data = Stored(m.data, m.data_count, DataSize(e), v)
    BY <1>3, <1>7
  <2>5. ~ OutOfLine(e) /\ e.count # 0 => e.raw = v
    BY <1>2, <1>3
  <2> QED BY <1>8, <2>1, <2>2, <2>3, <2>4, <2>5 DEF Holding
<1>10. Without(m, {i})
  <2>1. Payloads(m.entries) \ {i} = Payloads(m.entries) \ {}
    BY <1>8 DEF Payloads
  <2> QED BY <2>1 DEF PacketOK, Without
<1>11. PacketOK(k) /\ Reads(m, i, e, v, k)
  <2>1. k.data_count = m.data_count + DataSize(e) /\ (OutOfLine(e) => e.raw = m.data_count)
    BY <1>3, <1>7
  <2> HIDE DEF e, i
  <2> QED BY <1>3, <1>9, <1>10, <2>1, HoldingAtEnd
<1>12. \A j \in DOMAIN m.entries : SameEntry(m, m.entries[j], k, k.entries[j])
  BY <1>8, <1>11 DEF Reads
<1>13. k.entries[i] = e /\ Len(k.entries) = Len(m.entries) + 1
  BY <1>4, <1>7
<1>14. count = 0 => e.raw = 0
  BY <1>2, <1>3
<1>15. ValueOf(k, e) = IF count = 0 THEN 0 ELSE v
  BY <1>3, <1>11 DEF Reads
<1> HIDE DEF e
<1> QED BY <1>3, <1>7, <1>11, <1>12, <1>13, <1>14, <1>15

\* update_camera_metadata_entry()
LEMMA UpdatedKeeps ==
  ASSUME NEW m, PacketOK(m), NEW i \in DOMAIN m.entries, NEW count \in UpdateCounts, NEW v \in Values,
         m.data_count + EntryDataSize(m.entries[i].tag, count) - DataSize(m.entries[i]) =< m.data_capacity,
         NEW k, k = Updated(m, i, count, v)
  PROVE  /\ PacketOK(k) /\ k.sorted = m.sorted
         /\ DOMAIN k.entries = DOMAIN m.entries
         /\ \A j \in DOMAIN m.entries \ {i} : SameEntry(m, m.entries[j], k, k.entries[j])
         /\ LET e == k.entries[i]
            IN  /\ e.tag = m.entries[i].tag /\ e.count = count
                /\ ValueOf(k, e) = IF count = 0 THEN 0 ELSE v
<1> DEFINE w     == Word(m.data_capacity)
           old   == m.entries[i]
           bytes == EntryDataSize(old.tag, count)
           moves == bytes # DataSize(old)
           room  == IF moves THEN Emptied(m, i) ELSE m
           raw   == IF bytes = 0 THEN (IF count > 0 THEN v ELSE old.raw)
                    ELSE IF moves THEN room.data_count ELSE old.raw
           e     == [old EXCEPT !.count = count, !.raw = raw]
           at    == IF bytes > 0 THEN raw ELSE 0
           new   == [room.entries EXCEPT ![i] = e]
           data  == Stored(room.data, at, bytes, v)
           fill  == IF moves THEN room.data_count + bytes ELSE room.data_count
<1>1. /\ m \in Packet(w) /\ DOMAIN m.entries = 1 .. Len(m.entries) /\ old \in Entry
      /\ m.data_count \in Nat /\ m.data_capacity \in Nat /\ w \in Int
      /\ \A j \in DOMAIN m.entries : SameEntry(m, m.entries[j], m, m.entries[j])
  BY PacketFacts DEF PacketOK, Without, Word, DATA_ALIGNMENT, SameEntry
<1>2. /\ DataSize(old) \in Nat /\ Aligned(DataSize(old)) /\ (OutOfLine(old) <=> DataSize(old) # 0)
      /\ old.tag \in Tags /\ old.raw \in Nat \cup Values
  BY <1>1, EntryFacts
<1>3. count \in Nat /\ Aligned(bytes) /\ bytes \in Nat /\ (count = 0 => bytes = 0)
  <2>1. count \in Nat
    BY Constants
  <2> HIDE DEF old
  <2>2. Aligned(bytes) /\ (bytes = 0 <=> count * TypeSize[old.tag] =< 4)
    BY <1>2, <2>1, Sizes
  <2>3. count = 0 => count * TypeSize[old.tag] =< 4
    BY <1>2, <2>1, Bytes
  <2> QED BY <2>1, <2>2, <2>3 DEF Aligned
<1>4. /\ room \in Packet(w) /\ DOMAIN room.entries = DOMAIN m.entries /\ room.entries[i] = old
      /\ room.data_count = IF moves THEN m.data_count - DataSize(old) ELSE m.data_count
      /\ room.data_capacity = m.data_capacity /\ room.entry_capacity = m.entry_capacity
      /\ room.sorted = m.sorted /\ Len(room.entries) =< room.entry_capacity
      /\ \A j \in DOMAIN m.entries \ {i} : SameEntry(m, m.entries[j], room, room.entries[j])
      /\ Aligned(room.data_count) /\ room.data_count \in Nat
      /\ moves => Without(room, {i})
  <2>1. CASE moves
    <3>1. GivenBack(m, i, room)
      BY <2>1, EmptiedKeeps
    <3> HIDE DEF room, moves
    <3> QED BY <2>1, <3>1 DEF GivenBack, Without, Tiles, Aligned
  <2>2. CASE ~ moves
    <3>1. room = m
      BY <2>2
    <3> HIDE DEF room, moves
    <3> QED BY <1>1, <2>2, <3>1 DEF PacketOK, Without, Tiles, Aligned
  <2> QED BY <2>1, <2>2
<1>5. /\ room.entries \in Seq(Entry) /\ DOMAIN room.entries = 1 .. Len(room.entries)
      /\ room.data \in [0 .. w - 1 -> Cells]
  <2> HIDE DEF w, room
  <2> QED BY <1>4, PacketFacts
<1>6. raw \in Nat \cup Values
  <2> HIDE DEF room, old, bytes
  <2> QED BY <1>2, <1>4
<1>7. /\ e \in Entry /\ e.tag = old.tag /\ e.count = count /\ e.raw = raw
      /\ DataSize(e) = bytes /\ (OutOfLine(e) <=> bytes > 0)
  <2>1. count \in Counts \cup UpdateCounts
    OBVIOUS
  <2> HIDE DEF raw, old
  <2> QED BY <1>1, <1>6, <2>1 DEF Entry, DataSize, OutOfLine
<1>8. Aligned(at) /\ (OutOfLine(e) => at = e.raw)
  <2>1. Aligned(0)
    BY DEF Aligned, DATA_ALIGNMENT
  <2>2. bytes > 0 /\ ~ moves => Aligned(old.raw)
    <3>1. bytes > 0 /\ ~ moves => i \in Payloads(m.entries)
      BY <1>2 DEF Payloads
    <3>2. i \in Payloads(m.entries) => Aligned(old.raw)
      BY PayloadFacts DEF PacketOK
    <3> QED BY <3>1, <3>2
  <2>3. Aligned(room.data_count) /\ bytes \in Nat
    BY <1>3, <1>4
  <2> HIDE DEF e, room, old, bytes, moves
  <2> QED BY <1>7, <2>1, <2>2, <2>3
<1>9. /\ new \in Seq(Entry) /\ DOMAIN new = DOMAIN m.entries /\ Len(new) = Len(room.entries)
      /\ new[i] = e /\ \A j \in DOMAIN m.entries \ {i} : new[j] = room.entries[j]
  <2> HIDE DEF e, room
  <2>1. i \in 1 .. Len(room.entries)
    BY <1>4, <1>5
  <2>2. /\ new \in Seq(Entry) /\ Len(new) = Len(room.entries)
        /\ \A j \in 1 .. Len(room.entries) : new[j] = IF j = i THEN e ELSE room.entries[j]
    BY <1>5, <1>7, <2>1, ExceptSeq
  <2>3. DOMAIN new = DOMAIN room.entries
    OBVIOUS
  <2> QED BY <1>4, <1>5, <2>1, <2>2, <2>3
<1>10. data \in [0 .. w - 1 -> Cells]
  <2> HIDE DEF w, room, at, bytes
  <2> QED BY <1>1, <1>3, <1>5, <1>8, StoredFacts
<1>11. k = [room EXCEPT !.data = data, !.data_count = fill, !.entries = new]
  <2>1. k = [room EXCEPT !.data = data, !.data_count = fill,
                         !.entries[i] = [room.entries[i] EXCEPT !.count = count, !.raw = raw]]
    BY DEF Updated
  <2>2. DOMAIN room = {"entries", "entry_capacity", "data_count", "data_capacity", "data", "sorted", "memory"}
    BY <1>4 DEF Packet
  <2> HIDE DEF room, old, data, fill, raw
  <2> QED BY <1>4, <2>1, <2>2
<1>12. fill \in Nat /\ fill =< m.data_capacity
  <2>1. m.data_count =< m.data_capacity /\ m.data_count + bytes - DataSize(old) =< m.data_capacity
    BY DEF PacketOK, Without
  <2>2. /\ m.data_count \in Nat /\ m.data_capacity \in Nat /\ DataSize(old) \in Nat
        /\ bytes \in Nat
    BY <1>1, <1>2, <1>3
  <2>3. CASE moves
    <3>1. fill = m.data_count - DataSize(old) + bytes /\ m.data_count - DataSize(old) \in Nat
      BY <1>4, <2>3
    <3> HIDE DEF fill, bytes, old
    <3> QED BY <2>1, <2>2, <3>1
  <2>4. CASE ~ moves
    <3>1. fill = m.data_count
      BY <1>4, <2>4
    <3> QED BY <2>1, <2>2, <3>1
  <2> QED BY <2>3, <2>4
<1>13. /\ k.entries = new /\ k.data = data /\ k.data_count = fill /\ k.sorted = m.sorted
       /\ k.entry_capacity = room.entry_capacity /\ k.data_capacity = m.data_capacity
       /\ k \in Packet(w)
  <2> HIDE DEF new, data, w, room, fill
  <2> QED BY <1>4, <1>9, <1>10, <1>11, <1>12 DEF Packet, Cells
<1>14. Holding(room, i, e, v, at, k)
  <2>1. /\ k \in Packet(Word(room.data_capacity)) /\ k.data_capacity = room.data_capacity
        /\ Len(k.entries) =< k.entry_capacity /\ k.data_count =< k.data_capacity
    <3> HIDE DEF new, data, room, fill
    <3> QED BY <1>4, <1>9, <1>12, <1>13
  <2>2. /\ DOMAIN k.entries = DOMAIN room.entries \cup {i} /\ k.entries[i] = e
        /\ \A j \in DOMAIN room.entries \ {i} : k.entries[j] = room.entries[j]
    <3> HIDE DEF new, room, e
    <3> QED BY <1>4, <1>9, <1>13
  <2>3. k.data = Stored(room.data, at, DataSize(e), v)
    <3> HIDE DEF room, at, e
    <3> QED BY <1>7, <1>13
  <2>4. ~ OutOfLine(e) /\ e.count # 0 => e.raw = v
    <3> HIDE DEF e, bytes, old
    <3> QED BY <1>3, <1>7
  <2> HIDE DEF room, e, at
  <2> QED BY <1>8, <2>1, <2>2, <2>3, <2>4 DEF Holding
<1>15. PacketOK(k) /\ Reads(room, i, e, v, k)
  <2>1. CASE moves
    <3>1. Without(room, {i}) /\ k.data_count = room.data_count + DataSize(e)
      BY <1>4, <1>7, <1>13, <2>1
    <3>2. OutOfLine(e) => e.raw = room.data_count
      <4> HIDE DEF e, room, old, moves
      <4> QED BY <1>3, <1>7, <2>1
    <3> HIDE DEF e, room, at
    <3> QED BY <1>7, <1>14, <3>1, <3>2, HoldingAtEnd
  <2>2. CASE ~ moves
    <3>1. room = m /\ k.data_count = m.data_count /\ DataSize(e) = DataSize(m.entries[i])
      BY <1>4, <1>7, <1>13, <2>2
    <3>2. OutOfLine(e) => e.raw = m.entries[i].raw
      <4>1. OutOfLine(e) => e.raw = old.raw
        <5> HIDE DEF e, room, old, moves
        <5> QED BY <1>3, <1>7, <2>2
      <4> QED BY <4>1
    <3>3. Holding(m, i, e, v, at, k)
      BY <1>14, <3>1
    <3>4. PacketOK(k) /\ Reads(m, i, e, v, k)
      <4> HIDE DEF e, room, at
      <4> QED BY <1>7, <3>1, <3>2, <3>3, HoldingInPlace
    <3> QED BY <3>1, <3>4
  <2> QED BY <2>1, <2>2
<1>16. ASSUME NEW j \in DOMAIN m.entries \ {i} PROVE SameEntry(m, m.entries[j], k, k.entries[j])
  <2> HIDE DEF room, e
  <2>1. SameEntry(m, m.entries[j], room, room.entries[j])
    BY <1>4
  <2>2. SameEntry(room, room.entries[j], k, k.entries[j])
    BY <1>4, <1>15 DEF Reads
  <2> QED BY <2>1, <2>2, SameEntryTransitive
<1>17. k.entries[i] = e /\ DOMAIN k.entries = DOMAIN m.entries
  BY <1>9, <1>13
<1>18. ValueOf(k, e) = IF count = 0 THEN 0 ELSE v
  <2> HIDE DEF e, room
  <2> QED BY <1>7, <1>15 DEF Reads
<1>19. k.sorted = m.sorted
  BY <1>13
<1>20. e.tag = m.entries[i].tag /\ e.count = count
  BY <1>7
<1> HIDE DEF e, room
<1> QED BY <1>15, <1>16, <1>17, <1>18, <1>19, <1>20

\* Packet k is m with the entries "new": those of m, but for the lost one, in the order f.
Reordered(m, lost, f, new, flag, k) ==
  /\ k = [m EXCEPT !.entries = new, !.sorted = flag]
  /\ new \in Seq(Entry) /\ flag \in BOOLEAN
  /\ Len(new) =< Len(m.entries)
  /\ \A j \in 1 .. Len(new) : f[j] \in DOMAIN m.entries \ lost /\ new[j] = m.entries[f[j]]
  /\ \A i, j \in 1 .. Len(new) : f[i] = f[j] => i = j
  /\ \A i \in DOMAIN m.entries \ lost : \E j \in 1 .. Len(new) : f[j] = i

KeptInOrder(m, f, new, flag, k) ==
  /\ PacketOK(k) /\ k.entries = new /\ k.sorted = flag
  /\ \A j \in 1 .. Len(new) : SameEntry(m, m.entries[f[j]], k, new[j])

LEMMA ReorderedKeeps ==
  ASSUME NEW m, NEW lost, Without(m, lost), NEW f, NEW new, NEW flag, NEW k,
         Reordered(m, lost, f, new, flag, k)
  PROVE  KeptInOrder(m, f, new, flag, k)
<1> DEFINE w == Word(m.data_capacity)
<1>1. /\ m \in Packet(w) /\ DOMAIN m.entries = 1 .. Len(m.entries) /\ Len(m.entries) \in Nat
      /\ m.entry_capacity \in Nat /\ Len(m.entries) =< m.entry_capacity
      /\ m.data_count =< m.data_capacity
  BY PacketFacts DEF Without
<1>2. /\ k.entries = new /\ k.data = m.data /\ k.data_count = m.data_count /\ k.sorted = flag
      /\ k.entry_capacity = m.entry_capacity /\ k.data_capacity = m.data_capacity
      /\ k \in Packet(w)
  <2>1. /\ k = [m EXCEPT !.entries = new, !.sorted = flag]
        /\ new \in Seq(Entry) /\ flag \in BOOLEAN
    BY DEF Reordered
  <2> HIDE DEF w
  <2> QED BY <1>1, <2>1 DEF Packet
<1>3. Len(new) \in Nat /\ DOMAIN new = 1 .. Len(new)
  BY LenProperties DEF Reordered
<1>4. Tiles(Payloads(new), Begins(new), Lengths(new), m.data_count)
  <2> DEFINE I == Payloads(m.entries) \ lost
             b == Begins(m.entries)
             z == Lengths(m.entries)
             J == Payloads(new)
             c == Begins(new)
             y == Lengths(new)
  <2>1. Tiles(I, b, z, m.data_count)
    BY DEF Without
  <2>2. \A j \in J : f[j] \in I /\ c[j] = b[f[j]] /\ y[j] = z[f[j]]
    BY <1>3 DEF Payloads, Begins, Lengths, Reordered
  <2>3. \A i, j \in J : f[i] = f[j] => i = j
    BY <1>3 DEF Payloads, Reordered
  <2>4. \A i \in I : \E j \in J : f[j] = i
    BY <1>3 DEF Payloads, Reordered
  <2> HIDE DEF I, J, b, c, y, z
  <2>5. Tiles(J, c, y, m.data_count)
    BY <2>1, <2>2, <2>3, <2>4, TilesRenamed
  <2> QED BY <2>5 DEF J, c, y
<1>5. PacketOK(k)
  <2>1. Len(new) =< m.entry_capacity
    BY <1>1, <1>3 DEF Reordered
  <2>2. Payloads(new) \ {} = Payloads(new)
    OBVIOUS
  <2> QED BY <1>1, <1>2, <1>4, <2>1, <2>2 DEF PacketOK, Without
<1>6. \A j \in 1 .. Len(new) : SameEntry(m, m.entries[f[j]], k, new[j])
  <2> TAKE j \in 1 .. Len(new)
  <2>1. new[j] = m.entries[f[j]]
    BY DEF Reordered
  <2>2. ValueOf(k, new[j]) = ValueOf(m, new[j])
    BY <1>2 DEF ValueOf
  <2> QED BY <2>1, <2>2 DEF SameEntry
<1> QED BY <1>2, <1>5, <1>6 DEF KeptInOrder

LEMMA RemovedAt ==
  ASSUME NEW S, NEW s \in Seq(S), NEW i \in 1 .. Len(s)
  PROVE  /\ RemoveAt(s, i) \in Seq(S) /\ Len(RemoveAt(s, i)) = Len(s) - 1
         /\ \A j \in 1 .. Len(s) - 1 : RemoveAt(s, i)[j] = s[IF j < i THEN j ELSE j + 1]
<1>1. Len(s) \in Nat /\ \A j \in 1 .. Len(s) : s[j] \in S
  BY LenProperties, ElementOfSeq
<1> DEFINE front == SubSeq(s, 1, i - 1)
           back  == SubSeq(s, i + 1, Len(s))
<1>2. /\ front \in Seq(S) /\ Len(front) = i - 1
      /\ \A j \in 1 .. i - 1 : front[j] = s[j]
  <2>1. \A j \in 1 .. i - 1 : s[j] \in S
    BY <1>1
  <2>2. /\ front \in Seq(S) /\ Len(front) = IF 1 =< i - 1 THEN (i - 1) - 1 + 1 ELSE 0
        /\ \A j \in 1 .. (i - 1) - 1 + 1 : front[j] = s[1 + j - 1]
    BY <2>1, SubSeqProperties
  <2> HIDE DEF front
  <2> QED BY <1>1, <2>2
<1>3. /\ back \in Seq(S) /\ Len(back) = Len(s) - i
      /\ \A j \in 1 .. Len(s) - i : back[j] = s[i + j]
  <2>1. \A j \in i + 1 .. Len(s) : s[j] \in S
    BY <1>1
  <2>2. /\ back \in Seq(S) /\ Len(back) = IF i + 1 =< Len(s) THEN Len(s) - (i + 1) + 1 ELSE 0
        /\ \A j \in 1 .. Len(s) - (i + 1) + 1 : back[j] = s[(i + 1) + j - 1]
    BY <1>1, <2>1, SubSeqProperties
  <2> HIDE DEF back
  <2> QED BY <1>1, <2>2
<1> HIDE DEF front, back
<1>4. /\ front \o back \in Seq(S) /\ Len(front \o back) = Len(front) + Len(back)
      /\ \A j \in 1 .. Len(front) + Len(back) :
           (front \o back)[j] = IF j =< Len(front) THEN front[j] ELSE back[j - Len(front)]
  BY <1>2, <1>3, ConcatProperties
<1>5. RemoveAt(s, i) = front \o back
  BY DEF RemoveAt, front, back
<1>6. ASSUME NEW j \in 1 .. Len(s) - 1
      PROVE  (front \o back)[j] = s[IF j < i THEN j ELSE j + 1]
  <2>1. CASE j < i
    BY <1>1, <1>2, <1>3, <1>4, <2>1
  <2>2. CASE ~ (j < i)
    <3>1. /\ j \in 1 .. Len(front) + Len(back) /\ ~ (j =< Len(front)) /\ j - Len(front) = j - (i - 1)
          /\ j - (i - 1) \in 1 .. Len(s) - i /\ i + (j - (i - 1)) = j + 1
      BY <1>1, <1>2, <1>3, <2>2
    <3> QED BY <1>3, <1>4, <2>2, <3>1
  <2> QED BY <2>1, <2>2
<1>7. Len(front \o back) = Len(s) - 1
  BY <1>1, <1>2, <1>3, <1>4
<1> QED BY <1>4, <1>5, <1>6, <1>7

\* delete_camera_metadata_entry()
LEMMA DeletedKeeps ==
  ASSUME NEW m, PacketOK(m), NEW i \in DOMAIN m.entries,
         NEW k, k = [Emptied(m, i) EXCEPT !.entries = RemoveAt(@, i)]
  PROVE  /\ PacketOK(k) /\ k.sorted = m.sorted
         /\ Len(k.entries) = Len(m.entries) - 1
         /\ \A j \in 1 .. Len(m.entries) - 1 :
              SameEntry(m, m.entries[IF j < i THEN j ELSE j + 1], k, k.entries[j])
<1> DEFINE room == Emptied(m, i)
           n    == Len(m.entries)
           new  == RemoveAt(room.entries, i)
           f    == [j \in 1 .. n - 1 |-> IF j < i THEN j ELSE j + 1]
<1>1. GivenBack(m, i, room) /\ Without(room, {i})
  BY EmptiedKeeps DEF GivenBack
<1>2. n \in Nat /\ DOMAIN m.entries = 1 .. n
  BY PacketFacts DEF PacketOK, Without
<1>3. /\ room.entries \in Seq(Entry) /\ Len(room.entries) = n /\ DOMAIN room.entries = 1 .. n
      /\ room.sorted \in BOOLEAN /\ room.sorted = m.sorted
      /\ DOMAIN room = {"entries", "entry_capacity", "data_count", "data_capacity", "data", "sorted", "memory"}
  <2> HIDE DEF room, n
  <2>1. room \in Packet(Word(room.data_capacity)) /\ DOMAIN room.entries = 1 .. n
    BY <1>1, <1>2 DEF GivenBack, Without
  <2>2. /\ room.entries \in Seq(Entry) /\ Len(room.entries) \in Nat
        /\ DOMAIN room.entries = 1 .. Len(room.entries) /\ room.sorted \in BOOLEAN
    BY <2>1, PacketFacts
  <2>3. Len(room.entries) = n
    BY <1>2, <2>1, <2>2
  <2>4. room.sorted = m.sorted
    BY <1>1 DEF GivenBack
  <2> QED BY <2>1, <2>2, <2>3, <2>4 DEF Packet
<1>4. /\ new \in Seq(Entry) /\ Len(new) = n - 1
      /\ \A j \in 1 .. n - 1 : new[j] = room.entries[f[j]]
  <2> HIDE DEF room
  <2>1. i \in 1 .. Len(room.entries)
    BY <1>2, <1>3
  <2> HIDE DEF n
  <2>2. /\ new \in Seq(Entry) /\ Len(new) = n - 1
        /\ \A j \in 1 .. n - 1 : new[j] = room.entries[IF j < i THEN j ELSE j + 1]
    BY <1>3, <2>1, RemovedAt
  <2> QED BY <2>2
<1>5. /\ \A j \in 1 .. n - 1 : f[j] \in (1 .. n) \ {i}
      /\ \A h, j \in 1 .. n - 1 : f[h] = f[j] => h = j
      /\ \A h \in (1 .. n) \ {i} : \E j \in 1 .. n - 1 : f[j] = h
  <2> HIDE DEF n
  <2>1. i \in 1 .. n
    BY <1>2
  <2>2. ASSUME NEW h \in (1 .. n) \ {i} PROVE \E j \in 1 .. n - 1 : f[j] = h
    <3>1. CASE h < i
      BY <1>2, <2>1, <3>1
    <3>2. CASE ~ (h < i)
      <4>1. h - 1 \in 1 .. n - 1 /\ f[h - 1] = h
        BY <1>2, <2>1, <3>2
      <4> QED BY <4>1
    <3> QED BY <3>1, <3>2
  <2> QED BY <1>2, <2>1, <2>2
<1>6. k = [room EXCEPT !.entries = new, !.sorted = room.sorted]
  <2>1. k = [room EXCEPT !.entries = new]
    OBVIOUS
  <2> HIDE DEF room, new
  <2> QED BY <1>3, <2>1
<1>7. /\ PacketOK(k) /\ k.entries = new /\ k.sorted = room.sorted
      /\ \A j \in 1 .. Len(new) : SameEntry(room, room.entries[f[j]], k, new[j])
  <2>1. Len(new) =< Len(room.entries)
    BY <1>2, <1>3, <1>4
  <2>2. /\ \A j \in 1 .. Len(new) : f[j] \in DOMAIN room.entries \ {i} /\ new[j] = room.entries[f[j]]
        /\ \A h, j \in 1 .. Len(new) : f[h] = f[j] => h = j
        /\ \A h \in DOMAIN room.entries \ {i} : \E j \in 1 .. Len(new) : f[j] = h
    <3> HIDE DEF f, new, room, n
    <3> QED BY <1>3, <1>4, <1>5
  <2> HIDE DEF f, new, room
  <2>3. Reordered(room, {i}, f, new, room.sorted, k)
    BY <1>3, <1>4, <1>6, <2>1, <2>2 DEF Reordered
  <2>4. KeptInOrder(room, f, new, room.sorted, k)
    BY <1>1, <2>3, ReorderedKeeps
  <2> QED BY <2>4 DEF KeptInOrder
<1>8. ASSUME NEW j \in 1 .. n - 1
      PROVE  SameEntry(m, m.entries[f[j]], k, k.entries[j])
  <2>1. f[j] \in DOMAIN m.entries \ {i}
    BY <1>2, <1>5
  <2> HIDE DEF f, new, room, n
  <2>2. SameEntry(m, m.entries[f[j]], room, room.entries[f[j]])
    BY <1>1, <2>1 DEF GivenBack
  <2>3. SameEntry(room, room.entries[f[j]], k, k.entries[j])
    BY <1>4, <1>7
  <2> QED BY <2>2, <2>3, SameEntryTransitive
<1>9. \A j \in 1 .. n - 1 : f[j] = IF j < i THEN j ELSE j + 1
  OBVIOUS
<1> HIDE DEF f, new, room
<1> QED BY <1>3, <1>4, <1>7, <1>8, <1>9

\* sort_camera_metadata()
LEMMA PermutedKeeps ==
  ASSUME NEW m, PacketOK(m), NEW f \in [DOMAIN m.entries -> DOMAIN m.entries],
         \A i, j \in DOMAIN m.entries : i < j => f[i] # f[j],
         NEW k, k = Permuted(m, f)
  PROVE  /\ PacketOK(k) /\ k.sorted /\ DOMAIN k.entries = DOMAIN m.entries
         /\ \A i, j \in DOMAIN m.entries : i # j => f[i] # f[j]
         /\ \A i \in DOMAIN m.entries : SameEntry(m, m.entries[f[i]], k, k.entries[i])
<1> DEFINE n   == Len(m.entries)
           new == [i \in DOMAIN m.entries |-> m.entries[f[i]]]
<1>1. /\ Without(m, {}) /\ n \in Nat /\ DOMAIN m.entries = 1 .. n
      /\ \A i \in 1 .. n : m.entries[i] \in Entry
  BY PacketFacts DEF PacketOK, Without
<1>2. \A i, j \in 1 .. n : f[i] = f[j] => i = j
  <2> SUFFICES ASSUME NEW i \in 1 .. n, NEW j \in 1 .. n, i # j PROVE f[i] # f[j]
    OBVIOUS
  <2>1. i < j \/ j < i
    BY <1>1
  <2> QED BY <1>1, <2>1
<1>3. \A i \in 1 .. n : \E j \in 1 .. n : f[j] = i
  <2>1. IsFiniteSet(1 .. n)
    BY <1>1, FS_Interval
  <2>2. f \in Injection(1 .. n, 1 .. n)
    BY <1>1, <1>2 DEF Injection, IsInjective
  <2>3. f \in Surjection(1 .. n, 1 .. n)
    <3> HIDE DEF n
    <3> QED BY <2>1, <2>2, FS_Injection
  <2> QED BY <2>3 DEF Surjection
<1>4. new \in Seq(Entry) /\ Len(new) = n /\ DOMAIN new = 1 .. n
  <2>1. new \in [1 .. n -> Entry]
    BY <1>1
  <2> QED BY <1>1, <2>1, SeqDef, LenProperties
<1>5. k = [m EXCEPT !.entries = new, !.sorted = TRUE]
  BY DEF Permuted
<1>6. /\ PacketOK(k) /\ k.entries = new /\ k.sorted = TRUE
      /\ \A j \in 1 .. Len(new) : SameEntry(m, m.entries[f[j]], k, new[j])
  <2>1. Len(new) =< Len(m.entries)
    BY <1>1, <1>4
  <2>2. /\ \A j \in 1 .. Len(new) : f[j] \in DOMAIN m.entries \ {} /\ new[j] = m.entries[f[j]]
        /\ \A h, j \in 1 .. Len(new) : f[h] = f[j] => h = j
        /\ \A h \in DOMAIN m.entries \ {} : \E j \in 1 .. Len(new) : f[j] = h
    BY <1>1, <1>2, <1>3, <1>4
  <2> HIDE DEF new
  <2>3. Reordered(m, {}, f, new, TRUE, k)
    BY <1>4, <1>5, <2>1, <2>2 DEF Reordered
  <2>4. KeptInOrder(m, f, new, TRUE, k)
    BY <1>1, <2>3, ReorderedKeeps
  <2> QED BY <2>4 DEF KeptInOrder
<1> HIDE DEF new, n
<1> QED BY <1>1, <1>2, <1>4, <1>6

LEMMA JoinedFacts ==
  ASSUME NEW w \in Int, NEW data \in [0 .. w - 1 -> Cells], NEW at, Aligned(at), NEW src, PacketOK(src)
  PROVE  /\ Joined(data, at, src) \in [0 .. w - 1 -> Cells]
         /\ \A x \in 0 .. w - 1 : x < Word(at) => Joined(data, at, src)[x] = data[x]
         /\ \A x \in 0 .. Word(src.data_count) - 1 :
              Word(at) + x =< w - 1 => Joined(data, at, src)[Word(at) + x] = src.data[x]
<1> DEFINE n == Word(src.data_count)
<1>1. /\ Aligned(src.data_count) /\ src.data_count \in Nat /\ src.data_capacity \in Nat
      /\ src.data_count =< src.data_capacity
      /\ src.data \in [0 .. Word(src.data_capacity) - 1 -> Cells]
  BY PacketFacts DEF PacketOK, Without, Tiles
<1>2. /\ Word(at) \in Nat /\ n \in Nat /\ Word(at + src.data_count) = Word(at) + n
      /\ n =< Word(src.data_capacity) /\ Word(src.data_capacity) \in Int
  <2>1. Word(src.data_capacity) \in Int
    BY <1>1 DEF Word, DATA_ALIGNMENT
  <2> QED BY <1>1, <2>1, Words
<1>3. Joined(data, at, src) =
        [x \in 0 .. w - 1 |-> IF x \in Word(at) .. Word(at) + n - 1
                              THEN src.data[x - Word(at)] ELSE data[x]]
  BY <1>2 DEF Joined
<1> HIDE DEF n
<1>4. \A x \in 0 .. w - 1 : x \in Word(at) .. Word(at) + n - 1 => src.data[x - Word(at)] \in Cells
  <2> TAKE x \in 0 .. w - 1
  <2> HAVE x \in Word(at) .. Word(at) + n - 1
  <2>1. x - Word(at) \in 0 .. Word(src.data_capacity) - 1
    BY <1>2
  <2> QED BY <1>1, <2>1
<1>5. Joined(data, at, src) \in [0 .. w - 1 -> Cells]
  BY <1>3, <1>4
<1>6. ASSUME NEW x \in 0 .. w - 1, x < Word(at) PROVE Joined(data, at, src)[x] = data[x]
  BY <1>2, <1>3, <1>6
<1>7. ASSUME NEW x \in 0 .. n - 1, Word(at) + x =< w - 1
      PROVE  Joined(data, at, src)[Word(at) + x] = src.data[x]
  <2>1. /\ Word(at) + x \in 0 .. w - 1 /\ Word(at) + x \in Word(at) .. Word(at) + n - 1
        /\ (Word(at) + x) - Word(at) = x
    BY <1>2, <1>7
  <2> QED BY <1>3, <2>1
<1> QED BY <1>5, <1>6, <1>7 DEF n

\* Packet k has the entries of dst, then those of src.
Concatenation(dst, src, k) ==
  /\ Len(k.entries) = Len(dst.entries) + Len(src.entries)
  /\ \A i \in 1 .. Len(dst.entries) : SameEntry(dst, dst.entries[i], k, k.entries[i])
  /\ \A i \in 1 .. Len(src.entries) :
       SameEntry(src, src.entries[i], k, k.entries[Len(dst.entries) + i])

\* append_camera_metadata() and clone_camera_metadata()
LEMMA AppendedKeeps ==
  ASSUME NEW dst, PacketOK(dst), NEW src, PacketOK(src), Fits(dst, src),
         NEW k, k = Appended(dst, src)
  PROVE  PacketOK(k) /\ Concatenation(dst, src, k) /\ k.sorted = SortedAfter(dst, src)
<1> DEFINE w    == Word(dst.data_capacity)
           at   == dst.data_count
           l    == Len(dst.entries)
           n    == Len(src.entries)
           more == Relocated(src, at)
           new  == dst.entries \o more
           data == Joined(dst.data, at, src)
           fill == at + src.data_count
           flag == SortedAfter(dst, src)
<1>1. /\ dst \in Packet(w) /\ dst.entries \in Seq(Entry) /\ l \in Nat /\ DOMAIN dst.entries = 1 .. l
      /\ \A i \in 1 .. l : dst.entries[i] \in Entry
      /\ dst.entry_capacity \in Nat /\ at \in Nat /\ dst.data_capacity \in Nat
      /\ dst.data \in [0 .. w - 1 -> Cells] /\ dst.sorted \in BOOLEAN
      /\ Aligned(at) /\ w \in Int
  BY PacketFacts DEF PacketOK, Without, Tiles, Word, DATA_ALIGNMENT
<1>2. /\ src \in Packet(Word(src.data_capacity)) /\ n \in Nat /\ DOMAIN src.entries = 1 .. n
      /\ \A i \in 1 .. n : src.entries[i] \in Entry
      /\ src.data_count \in Nat /\ src.sorted \in BOOLEAN /\ Aligned(src.data_count)
  BY PacketFacts DEF PacketOK, Without, Tiles
<1>3. fill \in Nat /\ fill =< dst.data_capacity /\ l + n =< dst.entry_capacity
  <2>1. n + l =< dst.entry_capacity /\ src.data_count + at =< dst.data_capacity
    BY DEF Fits
  <2> HIDE DEF l, n, at
  <2> QED BY <1>1, <1>2, <2>1
<1> HIDE DEF l, n
<1>4. \A i \in 1 .. n :
        /\ more[i] \in Entry /\ more[i].tag = src.entries[i].tag /\ more[i].count = src.entries[i].count
        /\ ~ OutOfLine(src.entries[i]) => more[i].raw = src.entries[i].raw
        /\ OutOfLine(src.entries[i]) => more[i].raw = at + src.entries[i].raw
        /\ DataSize(more[i]) = DataSize(src.entries[i])
  <2> TAKE i \in 1 .. n
  <2> DEFINE e == src.entries[i]
  <2>1. e \in Entry /\ more[i] = IF OutOfLine(e) THEN Moved(e, at) ELSE e
    BY <1>2 DEF Relocated
  <2>2. CASE OutOfLine(e)
    <3>1. i \in Payloads(src.entries)
      BY <1>2, <2>2 DEF Payloads
    <3>2. e.raw \in Nat
      BY <3>1, PayloadFacts DEF PacketOK, Aligned
    <3>3. e.raw + at \in Nat /\ e.raw + at = at + e.raw
      BY <1>1, <3>2
    <3> HIDE DEF more, e, at
    <3>4. /\ more[i] \in Entry /\ more[i].tag = e.tag /\ more[i].count = e.count
          /\ more[i].raw = at + e.raw
      BY <2>1, <2>2, <3>3 DEF Entry, Moved
    <3>5. DataSize(more[i]) = DataSize(e)
      BY <3>4 DEF DataSize
    <3> QED BY <2>2, <3>4, <3>5 DEF e
  <2>3. CASE ~ OutOfLine(e)
    BY <2>1, <2>3
  <2> QED BY <2>2, <2>3
<1>5. more \in Seq(Entry) /\ Len(more) = n /\ DOMAIN more = 1 .. n
  <2>1. DOMAIN more = 1 .. n
    BY <1>2 DEF Relocated
  <2>2. more \in [1 .. n -> Entry]
    BY <1>2, <1>4 DEF Relocated
  <2> QED BY <1>2, <2>1, <2>2, SeqDef, LenProperties
<1>6. /\ new \in Seq(Entry) /\ Len(new) = l + n /\ DOMAIN new = 1 .. l + n
      /\ \A i \in 1 .. l : new[i] = dst.entries[i]
      /\ \A i \in 1 .. n : new[l + i] = more[i]
  <2> HIDE DEF more
  <2>1. /\ new \in Seq(Entry) /\ Len(new) = l + n
        /\ \A i \in 1 .. l + n : new[i] = IF i =< l THEN dst.entries[i] ELSE more[i - l]
    BY <1>1, <1>5, ConcatProperties DEF l
  <2>2. DOMAIN new = 1 .. l + n
    BY <2>1, LenProperties
  <2> HIDE DEF new
  <2> QED BY <1>1, <1>2, <2>1, <2>2
<1>7. /\ data \in [0 .. w - 1 -> Cells]
      /\ \A x \in 0 .. w - 1 : x < Word(at) => data[x] = dst.data[x]
      /\ \A x \in 0 .. Word(src.data_count) - 1 : Word(at) + x =< w - 1 => data[Word(at) + x] = src.data[x]
  <2> HIDE DEF w, at
  <2> QED BY <1>1, JoinedFacts
<1>8. flag \in BOOLEAN
  BY <1>1, <1>2 DEF SortedAfter
<1>9. k = [dst EXCEPT !.entries = new, !.data = data, !.data_count = fill, !.sorted = flag]
  BY DEF Appended
<1>10. /\ k.entries = new /\ k.data = data /\ k.data_count = fill /\ k.sorted = flag
       /\ k.entry_capacity = dst.entry_capacity /\ k.data_capacity = dst.data_capacity
       /\ k \in Packet(w)
  <2> HIDE DEF new, data, fill, flag, w
  <2> QED BY <1>1, <1>3, <1>6, <1>7, <1>8, <1>9 DEF Packet, Cells
<1>11. Word(fill) = Word(at) + Word(src.data_count) /\ Word(fill) =< w
       /\ Word(at) \in Nat /\ Word(src.data_count) \in Nat
  <2>1. Aligned(fill) /\ Word(fill) = Word(at) + Word(src.data_count)
    BY <1>1, <1>2, Words
  <2>2. Word(fill) =< w
    <3> HIDE DEF fill
    <3> QED BY <1>1, <1>3, <2>1, Words
  <2> QED BY <1>1, <1>2, <2>1, <2>2, Words
<1>12. ASSUME NEW i \in 1 .. l PROVE SameEntry(dst, dst.entries[i], k, k.entries[i])
  <2> DEFINE e == dst.entries[i]
  <2>1. e \in Entry /\ k.entries[i] = e
    BY <1>1, <1>6, <1>10
  <2>2. ASSUME OutOfLine(e), NEW x \in 0 .. Word(DataSize(e)) - 1
        PROVE  k.data[Word(e.raw) + x] = dst.data[Word(e.raw) + x]
    <3>1. i \in Payloads(dst.entries)
      BY <1>1, <2>2 DEF Payloads
    <3>2. /\ Word(e.raw) \in Nat /\ Word(DataSize(e)) \in Nat
          /\ Word(e.raw) + Word(DataSize(e)) =< Word(at)
      BY <3>1, PayloadFacts DEF PacketOK
    <3> DEFINE y == Word(e.raw) + x
    <3>3. y \in 0 .. w - 1 /\ y < Word(at)
      <4> HIDE DEF e, w, at, fill
      <4> QED BY <1>1, <1>11, <3>2
    <3> HIDE DEF y, data, at
    <3>4. k.data[y] = dst.data[y]
      BY <1>7, <1>10, <3>3
    <3> QED BY <3>4 DEF y
  <2>3. SamePayload(dst, e, k, e)
    BY <2>2 DEF SamePayload
  <2> HIDE DEF e
  <2>4. SameEntry(dst, e, k, k.entries[i])
    BY <2>1, <2>3, SameValue
  <2> QED BY <2>4 DEF e
<1>13. ASSUME NEW i \in 1 .. n PROVE SameEntry(src, src.entries[i], k, k.entries[l + i])
  <2> DEFINE e == src.entries[i]
             g == more[i]
  <2>1. e \in Entry /\ k.entries[l + i] = g
    BY <1>2, <1>6, <1>10
  <2>2. ASSUME OutOfLine(e), NEW x \in 0 .. Word(DataSize(e)) - 1
        PROVE  k.data[Word(g.raw) + x] = src.data[Word(e.raw) + x]
    <3>1. i \in Payloads(src.entries)
      BY <1>2, <2>2 DEF Payloads
    <3>2. /\ Word(e.raw) \in Nat /\ Word(DataSize(e)) \in Nat /\ Aligned(e.raw)
          /\ Word(e.raw) + Word(DataSize(e)) =< Word(src.data_count)
      BY <3>1, PayloadFacts DEF PacketOK
    <3>3. g.raw = at + e.raw
      BY <1>4, <2>2
    <3>4. Word(g.raw) = Word(at) + Word(e.raw)
      <4> HIDE DEF e, g, at
      <4> QED BY <1>1, <3>2, <3>3, Words
    <3> DEFINE y == Word(e.raw) + x
    <3>5. /\ y \in 0 .. Word(src.data_count) - 1 /\ Word(at) + y =< w - 1
          /\ Word(g.raw) + x = Word(at) + y
      <4>1. x \in Int /\ x >= 0 /\ x < Word(DataSize(e))
        BY <3>2
      <4> HIDE DEF e, w, at, fill, g
      <4>2. y \in 0 .. Word(src.data_count) - 1
        BY <1>11, <3>2, <4>1
      <4>3. Word(g.raw) + x = Word(at) + y
        BY <1>11, <3>2, <3>4, <4>1
      <4>4. Word(at) + y =< w - 1
        BY <1>1, <1>11, <4>2
      <4> QED BY <4>2, <4>3, <4>4
    <3> HIDE DEF y, data, at, e, g
    <3>6. k.data[Word(at) + y] = src.data[y]
      BY <1>7, <1>10, <3>5
    <3> QED BY <3>5, <3>6 DEF y
  <2>3. SamePayload(src, e, k, g)
    <3>1. g.tag = e.tag /\ g.count = e.count /\ (~ OutOfLine(e) => g.raw = e.raw)
      BY <1>4
    <3> HIDE DEF e, g
    <3> QED BY <2>2, <3>1 DEF SamePayload
  <2> HIDE DEF e, g
  <2>4. SameEntry(src, e, k, k.entries[l + i])
    BY <2>1, <2>3, SameValue
  <2> QED BY <2>4 DEF e
<1>14. Tiles(Payloads(new), Begins(new), Lengths(new), fill)
  <2> DEFINE I == Payloads(dst.entries)
             J == Payloads(src.entries)
             b == Begins(dst.entries)
             z == Lengths(dst.entries)
             d == Begins(src.entries)
             y == Lengths(src.entries)
             bb == Begins(new)
             zz == Lengths(new)
  <2>1. Tiles(I, b, z, at) /\ Tiles(J, d, y, src.data_count)
    <3>1. I \ {} = I /\ J \ {} = J
      OBVIOUS
    <3>2. /\ Tiles(I \ {}, b, z, at)
          /\ Tiles(J \ {}, d, y, src.data_count)
      BY DEF PacketOK, Without
    <3> HIDE DEF I, J
    <3> QED BY <3>1, <3>2
  <2>2. I \subseteq 1 .. l /\ J \subseteq Nat \ {0} /\ J \subseteq 1 .. n
    BY <1>1, <1>2 DEF Payloads
  <2>3. \A i \in I : bb[i] = b[i] /\ zz[i] = z[i]
    <3> TAKE i \in I
    <3>1. i \in 1 .. l /\ i \in 1 .. l + n
      BY <1>1, <1>2, <2>2
    <3> HIDE DEF new, l, n
    <3> QED BY <1>1, <1>6, <3>1 DEF Begins, Lengths
  <2>4. \A j \in J : bb[l + j] = at + d[j] /\ zz[l + j] = y[j]
    <3> TAKE j \in J
    <3>1. j \in 1 .. n /\ l + j \in 1 .. l + n /\ OutOfLine(src.entries[j])
      BY <1>1, <1>2, <2>2 DEF Payloads
    <3>2. new[l + j] = more[j] /\ more[j].raw = at + src.entries[j].raw
          /\ DataSize(more[j]) = DataSize(src.entries[j])
      BY <1>4, <1>6, <3>1
    <3> HIDE DEF new, l, n, more
    <3> QED BY <1>2, <1>6, <3>1, <3>2 DEF Begins, Lengths
  <2>5. Payloads(new) = I \cup {l + j : j \in J}
    <3>1. \A i \in 1 .. l : i \in Payloads(new) <=> i \in I
      <4> TAKE i \in 1 .. l
      <4>1. i \in 1 .. l + n /\ new[i] = dst.entries[i]
        <5> HIDE DEF new
        <5> QED BY <1>1, <1>2, <1>6
      <4> HIDE DEF new
      <4> QED BY <1>1, <1>6, <4>1 DEF Payloads
    <3>2. \A i \in 1 .. n : l + i \in Payloads(new) <=> i \in J
      <4> TAKE i \in 1 .. n
      <4>1. OutOfLine(more[i]) <=> OutOfLine(src.entries[i])
        BY <1>4 DEF OutOfLine
      <4>2. l + i \in 1 .. l + n /\ new[l + i] = more[i]
        <5> HIDE DEF new
        <5> QED BY <1>1, <1>2, <1>6
      <4> HIDE DEF new, more
      <4> QED BY <1>2, <1>6, <4>1, <4>2 DEF Payloads
    <3>3. \A i \in 1 .. l + n : i \in 1 .. l \/ (i - l \in 1 .. n /\ i = l + (i - l))
      BY <1>1, <1>2
    <3>4. Payloads(new) \subseteq 1 .. l + n
      BY <1>6 DEF Payloads
    <3> HIDE DEF new, I, J
    <3>5. Payloads(new) \subseteq I \cup {l + j : j \in J}
      BY <3>1, <3>2, <3>3, <3>4
    <3>6. I \subseteq Payloads(new)
      BY <2>2, <3>1
    <3>7. {l + j : j \in J} \subseteq Payloads(new)
      BY <2>2, <3>2
    <3> QED BY <3>5, <3>6, <3>7
  <2>6. l \in Nat
    BY <1>1
  <2> HIDE DEF I, J, b, z, d, y, bb, zz, l, at
  <2>7. PICK K : K = Payloads(new)
    OBVIOUS
  <2>8. Tiles(K, bb, zz, at + src.data_count)
    <3>1. Behind(l, I, b, z, at, J, d, y, K, bb, zz)
      BY <2>2, <2>3, <2>4, <2>5, <2>6, <2>7 DEF Behind
    <3> QED BY <2>1, <3>1, TilesJoined
  <2> QED BY <2>7, <2>8 DEF bb, zz
<1>15. PacketOK(k)
  <2>1. Payloads(new) \ {} = Payloads(new)
    OBVIOUS
  <2> HIDE DEF new, fill
  <2> QED BY <1>3, <1>6, <1>10, <1>14, <2>1 DEF PacketOK, Without
<1>16. Concatenation(dst, src, k)
  BY <1>6, <1>10, <1>12, <1>13 DEF Concatenation, l, n
<1> QED BY <1>10, <1>15, <1>16

Fresh(k, entries, bytes) ==
  /\ PacketOK(k) /\ k.entries = <<>> /\ k.sorted = FALSE /\ k.data_count = 0
  /\ k.entry_capacity = entries /\ k.data_capacity = bytes

\* place_camera_metadata()
LEMMA PlacedFacts ==
  ASSUME NEW memory \in Nat, NEW entries \in Nat, NEW bytes \in Nat
  PROVE  Fresh(Placed(memory, entries, bytes), entries, bytes)
<1>0. PICK k : k = Placed(memory, entries, bytes)
  OBVIOUS
<1> DEFINE w    == Word(bytes)
           data == [x \in 0 .. w - 1 |-> <<0, 0>>]
<1>1. data \in [0 .. w - 1 -> Cells]
  BY DEF Cells
<1>2. k = [entries |-> <<>>, entry_capacity |-> entries, data_count |-> 0, data_capacity |-> bytes,
           data |-> data, sorted |-> FALSE, memory |-> memory]
  BY <1>0 DEF Placed
<1>3. <<>> \in Seq(Entry) /\ Len(<<>>) = 0
  OBVIOUS
<1> HIDE DEF data
<1>4. /\ k.entries = <<>> /\ k.sorted = FALSE /\ k.data_count = 0
      /\ k.entry_capacity = entries /\ k.data_capacity = bytes
  BY <1>2
<1>5. k \in Packet(w)
  <2> HIDE DEF w
  <2> QED BY <1>1, <1>2, <1>3 DEF Packet, Cells
<1>6. Payloads(<<>>) = {}
  BY DEF Payloads
<1>7. Tiles({}, Begins(<<>>), Lengths(<<>>), 0)
  BY DEF Tiles, Aligned, DATA_ALIGNMENT
<1>8. PacketOK(k)
  <2>1. Payloads(k.entries) \ {} = {}
    BY <1>4, <1>6
  <2>2. Tiles(Payloads(k.entries) \ {}, Begins(k.entries), Lengths(k.entries), k.data_count)
    BY <1>4, <1>7, <2>1
  <2> HIDE DEF w
  <2>3. k \in Packet(Word(k.data_capacity))
    BY <1>4, <1>5 DEF w
  <2> QED BY <1>3, <1>4, <2>2, <2>3 DEF PacketOK, Without
<1>9. Fresh(k, entries, bytes)
  BY <1>4, <1>8 DEF Fresh
<1> QED BY <1>0, <1>9

\* allocate_camera_metadata()
LEMMA AllocatedFacts ==
  ASSUME NEW entries \in Nat, NEW bytes \in Nat
  PROVE  Fresh(Allocated(entries, bytes), entries, bytes)
<1>1. MetadataSize(entries, bytes) \in Nat
  <2>1. (48 + 16 * entries + bytes + 8 - 1) \div 8 \in Nat
    OBVIOUS
  <2> QED BY <2>1 DEF MetadataSize, Word, DATA_ALIGNMENT
<1>2. Fresh(Placed(MetadataSize(entries, bytes), entries, bytes), entries, bytes)
  BY <1>1, PlacedFacts
<1> QED BY <1>2 DEF Allocated

\* clone_camera_metadata()
LEMMA ClonedKeeps ==
  ASSUME NEW src, PacketOK(src), NEW k,
         k = Appended(Allocated(Len(src.entries), src.data_count), src)
  PROVE  /\ PacketOK(k) /\ Len(k.entries) = Len(src.entries)
         /\ \A i \in 1 .. Len(src.entries) : SameEntry(src, src.entries[i], k, k.entries[i])
         /\ k.sorted => src.sorted
<1>0. PICK dst : dst = Allocated(Len(src.entries), src.data_count)
  OBVIOUS
<1>1. Len(src.entries) \in Nat /\ src.data_count \in Nat
  BY PacketFacts DEF PacketOK, Without
<1>2. /\ PacketOK(dst) /\ dst.entries = <<>> /\ dst.sorted = FALSE /\ dst.data_count = 0
      /\ dst.entry_capacity = Len(src.entries) /\ dst.data_capacity = src.data_count
  <2>1. PICK entries, bytes : entries = Len(src.entries) /\ bytes = src.data_count
    OBVIOUS
  <2>2. Fresh(Allocated(entries, bytes), entries, bytes)
    BY <1>1, <2>1, AllocatedFacts
  <2>3. Fresh(dst, entries, bytes)
    BY <1>0, <2>1, <2>2
  <2> QED BY <2>1, <2>3 DEF Fresh
<1>3. Len(dst.entries) = 0
  BY <1>2
<1>4. Fits(dst, src)
  BY <1>1, <1>2, <1>3 DEF Fits
<1>5. PacketOK(k) /\ Concatenation(dst, src, k) /\ k.sorted = SortedAfter(dst, src)
  <2>1. k = Appended(dst, src)
    BY <1>0
  <2> QED BY <1>2, <1>4, <2>1, AppendedKeeps
<1>6. k.sorted => src.sorted
  BY <1>2, <1>5 DEF SortedAfter
<1>7. /\ Len(k.entries) = Len(src.entries)
      /\ \A i \in 1 .. Len(src.entries) : SameEntry(src, src.entries[i], k, k.entries[i])
  <2>1. /\ Len(k.entries) = Len(dst.entries) + Len(src.entries)
        /\ \A i \in 1 .. Len(src.entries) :
             SameEntry(src, src.entries[i], k, k.entries[Len(dst.entries) + i])
    BY <1>5 DEF Concatenation
  <2>2. \A i \in Nat : 0 + i = i
    OBVIOUS
  <2> QED BY <1>1, <1>3, <2>1, <2>2
<1> QED BY <1>5, <1>6, <1>7

\* copy_camera_metadata()
LEMMA CopiedKeeps ==
  ASSUME NEW src, PacketOK(src), NEW memory \in Nat, NEW k, k = Copied(memory, src)
  PROVE  /\ PacketOK(k) /\ k.entries = src.entries /\ k.sorted = src.sorted
         /\ \A i \in 1 .. Len(src.entries) : SameEntry(src, src.entries[i], k, src.entries[i])
<1>0. PICK place : place = Placed(memory, Len(src.entries), src.data_count)
  OBVIOUS
<1> DEFINE w     == Word(src.data_count)
           data  == Joined(place.data, 0, src)
<1>1. /\ src \in Packet(Word(src.data_capacity)) /\ src.entries \in Seq(Entry)
      /\ Len(src.entries) \in Nat /\ src.data_count \in Nat /\ src.sorted \in BOOLEAN
      /\ DOMAIN src.entries = 1 .. Len(src.entries)
      /\ \A i \in 1 .. Len(src.entries) : src.entries[i] \in Entry
      /\ Aligned(src.data_count) /\ w \in Nat
  BY PacketFacts, Words DEF PacketOK, Without, Tiles
<1>2. /\ PacketOK(place) /\ place.entry_capacity = Len(src.entries)
      /\ place.data_capacity = src.data_count
  <2>1. Fresh(Placed(memory, Len(src.entries), src.data_count), Len(src.entries), src.data_count)
    BY <1>1, PlacedFacts
  <2>2. Fresh(place, Len(src.entries), src.data_count)
    BY <1>0, <2>1
  <2> QED BY <2>2 DEF Fresh
<1>3. place \in Packet(w) /\ place.data \in [0 .. w - 1 -> Cells]
  <2>1. place \in Packet(w)
    BY <1>2 DEF PacketOK, Without
  <2> HIDE DEF w
  <2> QED BY <2>1, PacketFacts
<1>4. Word(0) = 0 /\ Aligned(0)
  BY DEF Word, Aligned, DATA_ALIGNMENT
<1>5. data \in [0 .. w - 1 -> Cells] /\ \A x \in 0 .. w - 1 : data[x] = src.data[x]
  <2>1. /\ data \in [0 .. w - 1 -> Cells]
        /\ \A x \in 0 .. Word(src.data_count) - 1 : Word(0) + x =< w - 1 => data[Word(0) + x] = src.data[x]
    <3>1. w \in Int
      BY <1>1
    <3>2. PICK z : z = 0
      OBVIOUS
    <3>3. Aligned(z)
      BY <1>4, <3>2
    <3>4. /\ Joined(place.data, z, src) \in [0 .. w - 1 -> Cells]
          /\ \A x \in 0 .. Word(src.data_count) - 1 :
               Word(z) + x =< w - 1 => Joined(place.data, z, src)[Word(z) + x] = src.data[x]
      <4> HIDE DEF w
      <4> QED BY <1>3, <3>1, <3>3, JoinedFacts
    <3> QED BY <3>2, <3>4
  <2> HIDE DEF data
  <2> QED BY <1>1, <1>4, <2>1
<1>6. k = [place EXCEPT !.entries = src.entries, !.data_count = src.data_count, !.data = data, !.sorted = src.sorted]
  BY <1>0 DEF Copied
<1>7. /\ k.entries = src.entries /\ k.data = data /\ k.data_count = src.data_count
      /\ k.sorted = src.sorted /\ k.entry_capacity = Len(src.entries)
      /\ k.data_capacity = src.data_count /\ k \in Packet(w)
  <2> HIDE DEF data, w
  <2> QED BY <1>1, <1>2, <1>3, <1>5, <1>6 DEF Packet, Cells
<1>8. ASSUME NEW i \in 1 .. Len(src.entries)
      PROVE  SameEntry(src, src.entries[i], k, src.entries[i])
  <2> DEFINE e == src.entries[i]
  <2>1. e \in Entry
    BY <1>1
  <2>2. ASSUME OutOfLine(e), NEW x \in 0 .. Word(DataSize(e)) - 1
        PROVE  k.data[Word(e.raw) + x] = src.data[Word(e.raw) + x]
    <3>1. i \in Payloads(src.entries)
      BY <1>1, <2>2 DEF Payloads
    <3>2. /\ Word(e.raw) \in Nat /\ Word(DataSize(e)) \in Nat
          /\ Word(e.raw) + Word(DataSize(e)) =< w
      BY <3>1, PayloadFacts DEF PacketOK
    <3> DEFINE y == Word(e.raw) + x
    <3>3. y \in 0 .. w - 1
      <4> HIDE DEF e, w
      <4> QED BY <1>1, <3>2
    <3> HIDE DEF y, data
    <3>4. k.data[y] = src.data[y]
      BY <1>5, <1>7, <3>3
    <3> QED BY <3>4 DEF y
  <2>3. SamePayload(src, e, k, e)
    BY <2>2 DEF SamePayload
  <2> HIDE DEF e
  <2>4. SameEntry(src, e, k, e)
    BY <2>1, <2>3, SameValue
  <2> QED BY <2>4 DEF e
<1>9. PacketOK(k)
  <2>1. Tiles(Payloads(src.entries) \ {}, Begins(src.entries), Lengths(src.entries), src.data_count)
    BY DEF PacketOK, Without
  <2> HIDE DEF data
  <2> QED BY <1>1, <1>7, <2>1 DEF PacketOK, Without
<1> QED BY <1>7, <1>8, <1>9

-----------------------------------------------------------------------------
(* Induction over the naturals, for sets *)

LEMMA Least ==
  ASSUME NEW N, N \subseteq Nat, N # {}
  PROVE  \E m \in N : \A k \in N : m =< k
<1>1. PICK m \in N : \A k \in N : <<k, m>> \notin OpToRel(<, Nat)
  BY WFMin, NatLessThanWellFounded, Zenon
<1>2. \A k \in N : ~ (k < m)
  BY <1>1, Zenon DEF OpToRel
<1> QED BY <1>2

LEMMA UpTo ==
  ASSUME NEW n \in Nat, NEW N, 0 \in N, \A k \in 0 .. n - 1 : k \in N => k + 1 \in N
  PROVE  \A k \in 0 .. n : k \in N
<1> DEFINE M == {k \in 0 .. n : k \notin N}
<1>1. ASSUME M # {} PROVE FALSE
  <2>1. PICK m \in M : \A k \in M : m =< k
    <3>1. M \subseteq Nat
      OBVIOUS
    <3> HIDE DEF M
    <3> QED BY <1>1, <3>1, Least
  <2>2. m \in 1 .. n /\ m - 1 \in 0 .. n - 1 /\ (m - 1) + 1 = m
    OBVIOUS
  <2>3. m - 1 \in N
    <3>1. m - 1 \notin M
      BY <2>1, <2>2
    <3> QED BY <2>2, <3>1
  <2> QED BY <2>2, <2>3
<1> QED BY <1>1

-----------------------------------------------------------------------------
(* The binary search *)

\* One probe of BinarySearch, when g is what the search finds in shorter ranges.
Probe(entries, tag, g, r) ==
  LET base  == r[1]
      n     == r[2]
      probe == base + n \div 2 + 1
  IN  IF n = 0 THEN 0
      ELSE IF entries[probe].tag = tag THEN probe
      ELSE IF entries[probe].tag < tag THEN g[<<probe, (n - 1) \div 2>>]
      ELSE g[<<base, n \div 2>>]

LEMMA Halves ==
  ASSUME NEW l \in Nat, NEW r \in Ranges(l), r[2] # 0
  PROVE  LET base  == r[1]
             n     == r[2]
             probe == base + n \div 2 + 1
         IN  /\ base \in Nat /\ n \in Nat /\ probe \in base + 1 .. base + n /\ probe \in 1 .. l
             /\ <<probe, (n - 1) \div 2>> \in Ranges(l) /\ (n - 1) \div 2 < n
             /\ (n - 1) \div 2 \in Nat /\ probe + (n - 1) \div 2 = base + n
             /\ <<base, n \div 2>> \in Ranges(l) /\ n \div 2 < n
             /\ n \div 2 \in Nat /\ base + n \div 2 = probe - 1
<1> DEFINE base  == r[1]
           n     == r[2]
           low   == n \div 2
           high  == (n - 1) \div 2
           probe == base + low + 1
<1>1. /\ base \in 0 .. l /\ n \in 0 .. l /\ base + n =< l /\ n # 0
  BY DEF Ranges
<1> HIDE DEF base, n
<1>2. /\ low \in Nat /\ high \in Nat /\ low + high = n - 1 /\ low < n /\ high < n
  BY <1>1
<1> HIDE DEF low, high
<1>3. /\ probe \in Nat /\ probe \in base + 1 .. base + n /\ probe \in 1 .. l
      /\ probe + high = base + n /\ base + low = probe - 1
  BY <1>1, <1>2
<1> HIDE DEF probe
<1>4. <<probe, high>> \in Ranges(l)
  <2>1. probe \in 0 .. l /\ high \in 0 .. l /\ probe + high =< l
    BY <1>1, <1>2, <1>3
  <2> QED BY <2>1 DEF Ranges
<1>5. <<base, low>> \in Ranges(l)
  <2>1. base \in 0 .. l /\ low \in 0 .. l /\ base + low =< l
    BY <1>1, <1>2, <1>3
  <2> QED BY <2>1 DEF Ranges
<1>6. base \in Nat /\ n \in Nat
  BY <1>1
<1> QED BY <1>2, <1>3, <1>4, <1>5, <1>6 DEF base, n, low, high, probe

\* A probe looks at shorter ranges only.
LEMMA ProbeDepends ==
  ASSUME NEW entries, NEW tag, NEW l \in Nat, NEW r \in Ranges(l), NEW g, NEW h,
         \A x \in Ranges(l) : x[2] < r[2] => h[x] = g[x]
  PROVE  Probe(entries, tag, h, r) = Probe(entries, tag, g, r)
<1>1. CASE r[2] = 0
  BY <1>1 DEF Probe
<1>2. CASE r[2] # 0
  <2> DEFINE base  == r[1]
             n     == r[2]
             probe == base + n \div 2 + 1
             upper == <<probe, (n - 1) \div 2>>
             lower == <<base, n \div 2>>
  <2>1. upper \in Ranges(l) /\ upper[2] < r[2] /\ lower \in Ranges(l) /\ lower[2] < r[2]
    BY <1>2, Halves
  <2>2. h[upper] = g[upper] /\ h[lower] = g[lower]
    <3> HIDE DEF upper, lower
    <3> QED BY <2>1
  <2> QED BY <1>2, <2>2 DEF Probe
<1> QED BY <1>1, <1>2

\* The search is a function: there is one that is right for ranges of every length.
LEMMA SearchUnfolds ==
  ASSUME NEW entries, Len(entries) \in Nat, NEW tag
  PROVE  \E g : /\ g = [r \in Ranges(Len(entries)) |-> Probe(entries, tag, g, r)]
                /\ BinarySearch(entries, tag) = g[<<0, Len(entries)>>]
<1> DEFINE l == Len(entries)
           R == Ranges(l)
           Right(g, n) == \A r \in R : r[2] =< n => g[r] = Probe(entries, tag, g, r)
           N == {n \in 0 .. l : \E g : Right(g, n)}
<1>1. \A r \in R : r[2] \in 0 .. l
  BY DEF Ranges
<1>2. 0 \in N
  <2> DEFINE g == [r \in R |-> 0]
  <2>1. Right(g, 0)
    <3> TAKE r \in R
    <3> HAVE r[2] =< 0
    <3>1. r[2] = 0
      BY <1>1
    <3>2. Probe(entries, tag, g, r) = 0
      BY <3>1 DEF Probe
    <3> QED BY <3>2
  <2> HIDE DEF g
  <2> QED BY <2>1
<1>3. ASSUME NEW n \in 0 .. l - 1, n \in N PROVE n + 1 \in N
  <2>1. PICK g : Right(g, n)
    BY <1>3
  <2> DEFINE h == [r \in R |-> IF r[2] =< n THEN g[r] ELSE Probe(entries, tag, g, r)]
  <2>2. Right(h, n + 1)
    <3> TAKE r \in R
    <3> HAVE r[2] =< n + 1
    <3>1. \A x \in R : x[2] < r[2] => h[x] = g[x]
      <4> TAKE x \in R
      <4> HAVE x[2] < r[2]
      <4>1. x[2] =< n
        BY <1>1
      <4> QED BY <4>1
    <3>2. h[r] = Probe(entries, tag, g, r)
      <4>1. CASE r[2] =< n
        BY <2>1, <4>1
      <4>2. CASE ~ (r[2] =< n)
        BY <4>2
      <4> QED BY <4>1, <4>2
    <3> HIDE DEF h
    <3>3. Probe(entries, tag, h, r) = Probe(entries, tag, g, r)
      <4> HIDE DEF l
      <4>1. l \in Nat
        BY DEF l
      <4> QED BY <3>1, <4>1, ProbeDepends
    <3> QED BY <3>2, <3>3
  <2> HIDE DEF h
  <2>3. n + 1 \in 0 .. l
    OBVIOUS
  <2> QED BY <2>2, <2>3
<1>4. l \in N
  <2>1. \A n \in 0 .. l : n \in N
    <3> HIDE DEF N, l
    <3>1. l \in Nat
      BY DEF l
    <3>2. \A n \in 0 .. l - 1 : n \in N => n + 1 \in N
      BY <1>3
    <3> QED BY <1>2, <3>1, <3>2, UpTo, Zenon
  <2> QED BY <2>1
<1>5. PICK g : Right(g, l)
  BY <1>4
<1> DEFINE s == [r \in R |-> Probe(entries, tag, g, r)]
<1>6. \A r \in R : s[r] = g[r]
  BY <1>1, <1>5
<1>7. s = [r \in R |-> Probe(entries, tag, s, r)]
  <2>1. \A r \in R : Probe(entries, tag, s, r) = Probe(entries, tag, g, r)
    <3> HIDE DEF s, l
    <3>1. l \in Nat
      BY DEF l
    <3> QED BY <1>6, <3>1, ProbeDepends
  <2> QED BY <2>1
<1> DEFINE Search == CHOOSE f : f = [r \in R |-> Probe(entries, tag, f, r)]
<1>8. Search = [r \in R |-> Probe(entries, tag, Search, r)]
  <2> HIDE DEF s, R
  <2> QED BY <1>7
<1>9. BinarySearch(entries, tag) = Search[<<0, l>>]
  BY DEF BinarySearch, Probe
<1> HIDE DEF Search
<1> QED BY <1>8, <1>9

InOrder(es) == \A i, j \in DOMAIN es : i < j => es[i].tag =< es[j].tag

\* x is the place of an entry with this tag in range r, or 0 when there is none.
Located(es, tag, r, x) ==
  IF x = 0 THEN \A i \in r[1] + 1 .. r[1] + r[2] : es[i].tag # tag
  ELSE x \in r[1] + 1 .. r[1] + r[2] /\ es[x].tag = tag

LEMMA ProbeLocates ==
  ASSUME NEW es \in Seq(Entry), InOrder(es), NEW tag \in Tags, NEW r \in Ranges(Len(es)), NEW g,
         \A x \in Ranges(Len(es)) : x[2] < r[2] => Located(es, tag, x, g[x])
  PROVE  Located(es, tag, r, Probe(es, tag, g, r))
<1> DEFINE l == Len(es)
<1>1. /\ l \in Nat /\ DOMAIN es = 1 .. l
      /\ \A i \in 1 .. l : es[i].tag \in Nat
      /\ tag \in Nat
  <2>1. l \in Nat /\ DOMAIN es = 1 .. l /\ \A i \in 1 .. l : es[i] \in Entry
    BY LenProperties, ElementOfSeq
  <2> QED BY <2>1, EntryFacts, Constants
<1>2. r[1] \in 0 .. l /\ r[2] \in 0 .. l /\ r[1] + r[2] =< l
  BY DEF Ranges
<1>3. CASE r[2] = 0
  BY <1>1, <1>2, <1>3 DEF Probe, Located
<1>4. CASE r[2] # 0
  <2> DEFINE base  == r[1]
             n     == r[2]
             probe == base + n \div 2 + 1
             upper == <<probe, (n - 1) \div 2>>
             lower == <<base, n \div 2>>
  <2>1. /\ base \in Nat /\ n \in Nat /\ probe \in base + 1 .. base + n /\ probe \in 1 .. l
        /\ upper \in Ranges(l) /\ upper[2] < n /\ upper[1] = probe /\ upper[1] + upper[2] = base + n
        /\ lower \in Ranges(l) /\ lower[2] < n /\ lower[1] = base /\ lower[1] + lower[2] = probe - 1
    BY <1>1, <1>4, Halves
  <2>2. Located(es, tag, upper, g[upper]) /\ Located(es, tag, lower, g[lower])
    <3> HIDE DEF upper, lower, l
    <3> QED BY <2>1 DEF l
  <2>3. Probe(es, tag, g, r) = IF es[probe].tag = tag THEN probe
                               ELSE IF es[probe].tag < tag THEN g[upper] ELSE g[lower]
    BY <1>4 DEF Probe
  <2>4. base + n =< l
    BY <1>2
  <2> HIDE DEF base, n, probe, upper, lower, l
  <2>5. CASE es[probe].tag = tag
    <3>1. Probe(es, tag, g, r) = probe /\ probe # 0
      BY <2>1, <2>3, <2>5
    <3> QED BY <2>1, <2>5, <3>1 DEF Located, base, n
  <2>6. CASE es[probe].tag # tag /\ es[probe].tag < tag
    <3>1. \A i \in base + 1 .. probe : es[i].tag # tag
      <4> TAKE i \in base + 1 .. probe
      <4>1. i \in 1 .. l /\ (i < probe \/ i = probe)
        BY <1>1, <2>1
      <4>2. es[i].tag =< es[probe].tag
        <5>1. CASE i < probe
          BY <1>1, <2>1, <4>1, <5>1 DEF InOrder
        <5>2. CASE i = probe
          BY <1>1, <4>1, <5>2
        <5> QED BY <4>1, <5>1, <5>2
      <4> QED BY <1>1, <2>1, <2>6, <4>1, <4>2
    <3>2. Probe(es, tag, g, r) = g[upper]
      BY <2>3, <2>6
    <3>3. \A i \in base + 1 .. base + n : i \in base + 1 .. probe \/ i \in upper[1] + 1 .. upper[1] + upper[2]
      BY <2>1
    <3>4. upper[1] + 1 .. upper[1] + upper[2] \subseteq base + 1 .. base + n
      BY <2>1
    <3> QED BY <2>2, <3>1, <3>2, <3>3, <3>4 DEF Located, base, n
  <2>7. CASE es[probe].tag # tag /\ ~ (es[probe].tag < tag)
    <3>1. \A i \in probe .. base + n : es[i].tag # tag
      <4> TAKE i \in probe .. base + n
      <4>1. i \in 1 .. l /\ (probe < i \/ i = probe)
        BY <1>1, <2>1, <2>4
      <4>2. es[probe].tag =< es[i].tag
        <5>1. CASE probe < i
          BY <1>1, <2>1, <4>1, <5>1 DEF InOrder
        <5>2. CASE i = probe
          BY <1>1, <4>1, <5>2
        <5> QED BY <4>1, <5>1, <5>2
      <4> QED BY <1>1, <2>1, <2>7, <4>1, <4>2
    <3>2. Probe(es, tag, g, r) = g[lower]
      BY <2>3, <2>7
    <3>3. \A i \in base + 1 .. base + n : i \in probe .. base + n \/ i \in lower[1] + 1 .. lower[1] + lower[2]
      BY <2>1
    <3>4. lower[1] + 1 .. lower[1] + lower[2] \subseteq base + 1 .. base + n
      BY <2>1
    <3> QED BY <2>2, <3>1, <3>2, <3>3, <3>4 DEF Located, base, n
  <2> QED BY <2>5, <2>6, <2>7
<1> QED BY <1>3, <1>4

\* bsearch() finds a tag in a sorted table if and only if it is there.
LEMMA SearchLocates ==
  ASSUME NEW es \in Seq(Entry), InOrder(es), NEW tag \in Tags
  PROVE  Located(es, tag, <<0, Len(es)>>, BinarySearch(es, tag))
<1> DEFINE l == Len(es)
           R == Ranges(l)
<1>1. l \in Nat
  BY LenProperties
<1>2. PICK g : /\ g = [r \in R |-> Probe(es, tag, g, r)]
               /\ BinarySearch(es, tag) = g[<<0, l>>]
  BY <1>1, SearchUnfolds
<1> DEFINE N == {n \in 0 .. l : \A r \in R : r[2] =< n => Located(es, tag, r, g[r])}
<1>3. \A r \in R : r[2] \in 0 .. l
  BY DEF Ranges
<1>4. ASSUME NEW r \in R, \A x \in R : x[2] < r[2] => Located(es, tag, x, g[x])
      PROVE  Located(es, tag, r, g[r])
  <2>1. Located(es, tag, r, Probe(es, tag, g, r))
    BY <1>4, ProbeLocates
  <2>2. g[r] = Probe(es, tag, g, r)
    <3> HIDE DEF R
    <3> QED BY <1>2
  <2> QED BY <2>1, <2>2
<1>5. 0 \in N
  <2>1. ASSUME NEW r \in R, r[2] =< 0 PROVE Located(es, tag, r, g[r])
    <3>1. \A x \in R : ~ (x[2] < r[2])
      BY <1>3, <2>1
    <3> QED BY <1>4, <3>1
  <2>2. 0 \in 0 .. l
    BY <1>1
  <2> QED BY <2>1, <2>2
<1>6. ASSUME NEW n \in 0 .. l - 1, n \in N PROVE n + 1 \in N
  <2>1. ASSUME NEW r \in R, r[2] =< n + 1 PROVE Located(es, tag, r, g[r])
    <3>1. ASSUME NEW x \in R, x[2] < r[2] PROVE Located(es, tag, x, g[x])
      <4>1. x[2] =< n
        BY <1>3, <2>1, <3>1
      <4> QED BY <1>6, <4>1
    <3> QED BY <1>4, <3>1
  <2>2. n + 1 \in 0 .. l
    BY <1>1
  <2> QED BY <2>1, <2>2
<1>7. l \in N
  <2>1. \A n \in 0 .. l : n \in N
    <3> HIDE DEF N, l
    <3>1. \A n \in 0 .. l - 1 : n \in N => n + 1 \in N
      BY <1>6
    <3> QED BY <1>1, <1>5, <3>1, UpTo, Zenon
  <2> QED BY <1>1, <2>1
<1>8. <<0, l>> \in R /\ <<0, l>>[2] = l
  BY <1>1 DEF Ranges
<1>9. Located(es, tag, <<0, l>>, g[<<0, l>>])
  BY <1>1, <1>7, <1>8
<1> QED BY <1>2, <1>9

\* find_camera_metadata_entry()
LEMMA FindLocates ==
  ASSUME NEW m, PacketOK(m), m.sorted => InOrder(m.entries), NEW tag \in Tags
  PROVE  IF Find(m, tag) = 0 THEN \A j \in DOMAIN m.entries : m.entries[j].tag # tag
         ELSE m.entries[Find(m, tag)].tag = tag
<1>1. m.entries \in Seq(Entry) /\ Len(m.entries) \in Nat /\ DOMAIN m.entries = 1 .. Len(m.entries)
  BY PacketFacts DEF PacketOK, Without
<1>2. CASE m.sorted
  <2>1. Located(m.entries, tag, <<0, Len(m.entries)>>, BinarySearch(m.entries, tag))
    BY <1>1, <1>2, SearchLocates
  <2>2. Find(m, tag) = BinarySearch(m.entries, tag)
    BY <1>2 DEF Find
  <2> QED BY <1>1, <2>1, <2>2 DEF Located
<1>3. CASE ~ m.sorted
  <2> DEFINE found == {i \in DOMAIN m.entries : m.entries[i].tag = tag}
             x == CHOOSE i \in found : \A j \in found : i =< j
  <2>1. Find(m, tag) = IF found = {} THEN 0 ELSE x
    BY <1>3 DEF Find
  <2>2. CASE found = {}
    BY <2>1, <2>2
  <2>3. CASE found # {}
    <3>1. found \subseteq Nat
      BY <1>1
    <3> HIDE DEF found
    <3>2. \E i \in found : \A j \in found : i =< j
      BY <2>3, <3>1, Least
    <3>3. x \in found
      BY <3>2
    <3> HIDE DEF x
    <3>4. x # 0 /\ m.entries[x].tag = tag
      BY <1>1, <3>3 DEF found
    <3> QED BY <2>1, <2>3, <3>4
  <2> QED BY <2>2, <2>3
<1> QED BY <1>2, <1>3

-----------------------------------------------------------------------------
(* The inductive invariant *)

EmptiesClear(m) == \A i \in DOMAIN m.entries : m.entries[i].count = 0 => m.entries[i].raw = 0

\* Packets are packed; entries without a value hold no offset, when none is updated to
\* have no value; the sorted flag says what it means, when it is handled as in
\* SortedIsFilled.
Good(m) ==
  /\ PacketOK(m)
  /\ 0 \notin UpdateCounts => EmptiesClear(m)
  /\ SortedIsFilled /\ m.sorted => InOrder(m.entries)

CameraInv == DOMAIN packet = Packets /\ \A p \in Packets : Good(packet[p])

LEMMA GoodFacts ==
  ASSUME NEW m, PacketOK(m)
  PROVE  /\ m.entries \in Seq(Entry) /\ Len(m.entries) \in Nat
         /\ DOMAIN m.entries = 1 .. Len(m.entries) /\ m.data_count \in Nat /\ m.memory \in Nat
         /\ m.sorted \in BOOLEAN
         /\ \A i \in 1 .. Len(m.entries) :
              /\ m.entries[i] \in Entry /\ m.entries[i].tag \in Nat
              /\ m.entries[i].count = 0 => ~ OutOfLine(m.entries[i])
<1>1. /\ m.entries \in Seq(Entry) /\ Len(m.entries) \in Nat
      /\ DOMAIN m.entries = 1 .. Len(m.entries) /\ m.data_count \in Nat /\ m.memory \in Nat
      /\ m.sorted \in BOOLEAN
      /\ \A i \in 1 .. Len(m.entries) : m.entries[i] \in Entry
  BY PacketFacts DEF PacketOK, Without
<1>2. \A i \in 1 .. Len(m.entries) :
        m.entries[i].tag \in Nat /\ (m.entries[i].count = 0 => ~ OutOfLine(m.entries[i]))
  BY <1>1, EntryFacts, Constants
<1> QED BY <1>1, <1>2

\* The entries of k are among those of m, in the same order, at the places f.
LEMMA GoodSelection ==
  ASSUME NEW m, Good(m), NEW k, PacketOK(k), k.sorted => m.sorted, NEW f,
         \A i \in DOMAIN k.entries :
           f[i] \in DOMAIN m.entries /\ SameEntry(m, m.entries[f[i]], k, k.entries[i]),
         \A i, j \in DOMAIN k.entries : i < j => f[i] < f[j]
  PROVE  Good(k)
<1>1. \A i \in DOMAIN k.entries :
        /\ k.entries[i].tag = m.entries[f[i]].tag /\ k.entries[i].count = m.entries[f[i]].count
        /\ ~ OutOfLine(m.entries[f[i]]) => k.entries[i].raw = m.entries[f[i]].raw
  BY DEF SameEntry
<1>2. \A i \in DOMAIN m.entries : m.entries[i].count = 0 => ~ OutOfLine(m.entries[i])
  BY GoodFacts DEF Good
<1>3. EmptiesClear(m) => EmptiesClear(k)
  BY <1>1, <1>2 DEF EmptiesClear
<1>4. InOrder(m.entries) => InOrder(k.entries)
  BY <1>1 DEF InOrder
<1> QED BY <1>3, <1>4 DEF Good

LEMMA GoodFresh ==
  ASSUME NEW entries \in Nat, NEW bytes \in Nat
  PROVE  Good(Allocated(entries, bytes))
<1>1. PICK k : k = Allocated(entries, bytes)
  OBVIOUS
<1>2. Fresh(k, entries, bytes)
  BY <1>1, AllocatedFacts
<1>3. PacketOK(k) /\ ~ k.sorted /\ DOMAIN k.entries = {}
  BY <1>2 DEF Fresh
<1>4. Good(k)
  BY <1>3 DEF Good, EmptiesClear
<1> QED BY <1>1, <1>4

LEMMA GoodAdded ==
  ASSUME NEW m, Good(m), NEW tag \in Tags, NEW count \in Counts, NEW v \in Values,
         Len(m.entries) < m.entry_capacity,
         EntryDataSize(tag, count) + m.data_count =< m.data_capacity
  PROVE  Good(Added(m, tag, count, v))
<1>1. PICK k : k = Added(m, tag, count, v)
  OBVIOUS
<1> DEFINE n == Len(m.entries)
<1>2. /\ PacketOK(k) /\ ~ k.sorted /\ Len(k.entries) = n + 1
      /\ \A j \in DOMAIN m.entries : SameEntry(m, m.entries[j], k, k.entries[j])
      /\ k.entries[n + 1].count = count /\ (count = 0 => k.entries[n + 1].raw = 0)
  BY <1>1, AddedKeeps DEF Good
<1>3. /\ n \in Nat /\ DOMAIN m.entries = 1 .. n /\ DOMAIN k.entries = 1 .. n + 1
      /\ \A j \in 1 .. n : m.entries[j].count = 0 => ~ OutOfLine(m.entries[j])
  BY <1>2, GoodFacts DEF Good
<1> HIDE DEF n
<1>4. ASSUME EmptiesClear(m), NEW j \in DOMAIN k.entries, k.entries[j].count = 0
      PROVE  k.entries[j].raw = 0
  <2>1. CASE j = n + 1
    BY <1>2, <1>4, <2>1
  <2>2. CASE j \in 1 .. n
    BY <1>2, <1>3, <1>4, <2>2 DEF SameEntry, EmptiesClear
  <2> QED BY <1>3, <2>1, <2>2
<1>5. EmptiesClear(m) => EmptiesClear(k)
  BY <1>4 DEF EmptiesClear
<1>6. Good(k)
  BY <1>2, <1>5 DEF Good
<1> QED BY <1>1, <1>6

LEMMA GoodUpdated ==
  ASSUME NEW m, Good(m), NEW i \in DOMAIN m.entries, NEW count \in UpdateCounts, NEW v \in Values,
         m.data_count + EntryDataSize(m.entries[i].tag, count) - DataSize(m.entries[i]) =< m.data_capacity
  PROVE  Good(Updated(m, i, count, v))
<1>1. PICK k : k = Updated(m, i, count, v)
  OBVIOUS
<1>2. /\ PacketOK(k) /\ k.sorted = m.sorted /\ DOMAIN k.entries = DOMAIN m.entries
      /\ \A j \in DOMAIN m.entries \ {i} : SameEntry(m, m.entries[j], k, k.entries[j])
      /\ k.entries[i].tag = m.entries[i].tag /\ k.entries[i].count = count
  BY <1>1, UpdatedKeeps DEF Good
<1>3. \A j \in DOMAIN m.entries : m.entries[j].count = 0 => ~ OutOfLine(m.entries[j])
  BY GoodFacts DEF Good
<1>4. \A j \in DOMAIN m.entries : k.entries[j].tag = m.entries[j].tag
  BY <1>2 DEF SameEntry
<1>5. InOrder(m.entries) => InOrder(k.entries)
  BY <1>2, <1>4 DEF InOrder
<1>6. ASSUME 0 \notin UpdateCounts, EmptiesClear(m), NEW j \in DOMAIN k.entries, k.entries[j].count = 0
      PROVE  k.entries[j].raw = 0
  <2>1. j # i /\ j \in DOMAIN m.entries
    BY <1>2, <1>6
  <2> QED BY <1>2, <1>3, <1>6, <2>1 DEF SameEntry, EmptiesClear
<1>7. 0 \notin UpdateCounts => EmptiesClear(k)
  BY <1>6 DEF EmptiesClear, Good
<1>8. Good(k)
  BY <1>2, <1>5, <1>7 DEF Good
<1> QED BY <1>1, <1>8

LEMMA GoodDeleted ==
  ASSUME NEW m, Good(m), NEW i \in DOMAIN m.entries
  PROVE  Good([Emptied(m, i) EXCEPT !.entries = RemoveAt(@, i)])
<1>1. PICK k : k = [Emptied(m, i) EXCEPT !.entries = RemoveAt(@, i)]
  OBVIOUS
<1> DEFINE n == Len(m.entries)
           f == [j \in 1 .. n - 1 |-> IF j < i THEN j ELSE j + 1]
<1>2. /\ PacketOK(k) /\ k.sorted = m.sorted /\ Len(k.entries) = n - 1
      /\ \A j \in 1 .. n - 1 : SameEntry(m, m.entries[IF j < i THEN j ELSE j + 1], k, k.entries[j])
  BY <1>1, DeletedKeeps DEF Good
<1>3. /\ n \in Nat /\ DOMAIN m.entries = 1 .. n /\ DOMAIN k.entries = 1 .. n - 1
  BY <1>2, GoodFacts DEF Good
<1> HIDE DEF n
<1>4. /\ \A j \in 1 .. n - 1 : f[j] \in 1 .. n
      /\ \A h, j \in 1 .. n - 1 : h < j => f[h] < f[j]
  BY <1>3
<1>5. \A j \in DOMAIN k.entries :
        f[j] \in DOMAIN m.entries /\ SameEntry(m, m.entries[f[j]], k, k.entries[j])
  BY <1>2, <1>3, <1>4
<1>6. \A h, j \in DOMAIN k.entries : h < j => f[h] < f[j]
  BY <1>3, <1>4
<1> HIDE DEF f
<1>7. Good(k)
  BY <1>2, <1>5, <1>6, GoodSelection
<1> QED BY <1>1, <1>7

LEMMA GoodPermuted ==
  ASSUME NEW m, Good(m), NEW f \in [DOMAIN m.entries -> DOMAIN m.entries],
         \A i, j \in DOMAIN m.entries :
           i < j => f[i] # f[j] /\ m.entries[f[i]].tag =< m.entries[f[j]].tag
  PROVE  Good(Permuted(m, f))
<1>1. PICK k : k = Permuted(m, f)
  OBVIOUS
<1>2. /\ PacketOK(k) /\ DOMAIN k.entries = DOMAIN m.entries
      /\ \A i \in DOMAIN m.entries : SameEntry(m, m.entries[f[i]], k, k.entries[i])
  <2>1. PacketOK(m) /\ \A i, j \in DOMAIN m.entries : i < j => f[i] # f[j]
    BY DEF Good
  <2> QED BY <1>1, <2>1, PermutedKeeps
<1>3. \A j \in DOMAIN m.entries : m.entries[j].count = 0 => ~ OutOfLine(m.entries[j])
  BY GoodFacts DEF Good
<1>4. InOrder(k.entries)
  BY <1>2 DEF InOrder, SameEntry
<1>5. EmptiesClear(m) => EmptiesClear(k)
  BY <1>2, <1>3 DEF EmptiesClear, SameEntry
<1>6. Good(k)
  BY <1>2, <1>4, <1>5 DEF Good
<1> QED BY <1>1, <1>6

LEMMA GoodAppended ==
  ASSUME NEW m, Good(m), NEW src, Good(src), Fits(m, src),
         (SortedIsFilled /\ m.sorted /\ m.entries = <<>>) => src.sorted
  PROVE  Good(Appended(m, src))
<1>1. PICK k : k = Appended(m, src)
  OBVIOUS
<1> DEFINE l == Len(m.entries)
           n == Len(src.entries)
<1>2. PacketOK(k) /\ Concatenation(m, src, k) /\ k.sorted = SortedAfter(m, src)
  BY <1>1, AppendedKeeps DEF Good
<1>3. /\ l \in Nat /\ DOMAIN m.entries = 1 .. l
      /\ \A j \in 1 .. l : m.entries[j].count = 0 => ~ OutOfLine(m.entries[j])
      /\ n \in Nat /\ DOMAIN src.entries = 1 .. n
      /\ \A j \in 1 .. n : src.entries[j].count = 0 => ~ OutOfLine(src.entries[j])
      /\ m.entries = <<>> => l = 0
      /\ src.entries = <<>> => n = 0
  BY GoodFacts DEF Good
<1>4. /\ Len(k.entries) = l + n /\ DOMAIN k.entries = 1 .. l + n
      /\ \A i \in 1 .. l : SameEntry(m, m.entries[i], k, k.entries[i])
      /\ \A i \in 1 .. n : SameEntry(src, src.entries[i], k, k.entries[l + i])
  BY <1>2, GoodFacts DEF Concatenation
<1> HIDE DEF l, n
<1>5. ASSUME NEW j \in 1 .. l + n
      PROVE  j \in 1 .. l \/ (j - l \in 1 .. n /\ j = l + (j - l))
  BY <1>3
<1>6. ASSUME EmptiesClear(m), EmptiesClear(src) PROVE EmptiesClear(k)
  <2>1. ASSUME NEW i \in 1 .. l, k.entries[i].count = 0 PROVE k.entries[i].raw = 0
    <3>1. SameEntry(m, m.entries[i], k, k.entries[i])
      BY <1>4
    <3>2. m.entries[i].count = 0 /\ ~ OutOfLine(m.entries[i])
      BY <1>3, <2>1, <3>1 DEF SameEntry
    <3>3. m.entries[i].raw = 0
      BY <1>3, <1>6, <3>2 DEF EmptiesClear
    <3> QED BY <3>1, <3>2, <3>3 DEF SameEntry
  <2>2. ASSUME NEW i \in 1 .. n, k.entries[l + i].count = 0 PROVE k.entries[l + i].raw = 0
    <3>1. SameEntry(src, src.entries[i], k, k.entries[l + i])
      BY <1>4
    <3>2. src.entries[i].count = 0 /\ ~ OutOfLine(src.entries[i])
      BY <1>3, <2>2, <3>1 DEF SameEntry
    <3>3. src.entries[i].raw = 0
      BY <1>3, <1>6, <3>2 DEF EmptiesClear
    <3> QED BY <3>1, <3>2, <3>3 DEF SameEntry
  <2>3. ASSUME NEW j \in 1 .. l + n, k.entries[j].count = 0 PROVE k.entries[j].raw = 0
    <3>1. CASE j \in 1 .. l
      BY <2>1, <2>3, <3>1
    <3>2. CASE j - l \in 1 .. n /\ j = l + (j - l)
      BY <2>2, <2>3, <3>2
    <3> QED BY <1>5, <3>1, <3>2
  <2> QED BY <1>4, <2>3 DEF EmptiesClear
<1>7. ASSUME SortedIsFilled, k.sorted PROVE InOrder(k.entries)
  <2>1. CASE m.entries = <<>>
    <3>1. src.sorted /\ l = 0
      BY <1>2, <1>3, <1>7, <2>1 DEF SortedAfter
    <3>2. InOrder(src.entries)
      BY <1>7, <3>1 DEF Good
    <3>3. DOMAIN k.entries = 1 .. n /\ \A i \in 1 .. n : k.entries[i].tag = src.entries[i].tag
      <4>1. \A i \in 1 .. n : k.entries[l + i].tag = src.entries[i].tag /\ l + i = i
        BY <1>4, <3>1 DEF SameEntry
      <4> QED BY <1>3, <1>4, <3>1, <4>1
    <3> QED BY <1>3, <3>2, <3>3 DEF InOrder
  <2>2. CASE m.entries # <<>>
    <3>1. m.sorted /\ src.entries = <<>>
      BY <1>2, <1>7, <2>2 DEF SortedAfter
    <3>2. InOrder(m.entries) /\ n = 0
      BY <1>3, <1>7, <3>1 DEF Good
    <3>3. DOMAIN k.entries = 1 .. l /\ \A i \in 1 .. l : k.entries[i].tag = m.entries[i].tag
      BY <1>3, <1>4, <3>2 DEF SameEntry
    <3> QED BY <1>3, <3>2, <3>3 DEF InOrder
  <2> QED BY <2>1, <2>2
<1>8. Good(k)
  BY <1>2, <1>6, <1>7 DEF Good
<1> QED BY <1>1, <1>8

LEMMA GoodCloned ==
  ASSUME NEW src, Good(src)
  PROVE  Good(Appended(Allocated(Len(src.entries), src.data_count), src))
<1>1. PICK k : k = Appended(Allocated(Len(src.entries), src.data_count), src)
  OBVIOUS
<1> DEFINE n == Len(src.entries)
           f == [i \in 1 .. n |-> i]
<1>2. /\ PacketOK(k) /\ Len(k.entries) = n
      /\ \A i \in 1 .. n : SameEntry(src, src.entries[i], k, k.entries[i])
      /\ k.sorted => src.sorted
  BY <1>1, ClonedKeeps DEF Good
<1>3. n \in Nat /\ DOMAIN src.entries = 1 .. n /\ DOMAIN k.entries = 1 .. n
  BY <1>2, GoodFacts DEF Good
<1> HIDE DEF n
<1>4. /\ \A i \in DOMAIN k.entries :
           f[i] \in DOMAIN src.entries /\ SameEntry(src, src.entries[f[i]], k, k.entries[i])
      /\ \A i, j \in DOMAIN k.entries : i < j => f[i] < f[j]
  BY <1>2, <1>3
<1> HIDE DEF f
<1>5. Good(k)
  BY <1>2, <1>4, GoodSelection
<1> QED BY <1>1, <1>5

LEMMA GoodCopied ==
  ASSUME NEW src, Good(src), NEW memory \in Nat
  PROVE  Good(Copied(memory, src))
<1>1. PICK k : k = Copied(memory, src)
  OBVIOUS
<1>2. /\ PacketOK(k) /\ k.entries = src.entries /\ k.sorted = src.sorted
  BY <1>1, CopiedKeeps DEF Good
<1>3. Good(k)
  BY <1>2 DEF Good, EmptiesClear
<1> QED BY <1>1, <1>3

LEMMA InvInit == Init => CameraInv
<1>1. \A p \in Packets : Good(Allocated(EntryCapacity[p], DataCapacity[p]))
  BY GoodFresh, Constants
<1> QED BY <1>1 DEF Init, CameraInv

\* Only packet p changes, and it stays good.
LEMMA InvBecomes ==
  ASSUME CameraInv, NEW p \in Packets, NEW k, Good(k), Becomes(p, k)
  PROVE  CameraInv'
<1>1. packet' = [packet EXCEPT ![p] = k] /\ DOMAIN packet = Packets
  BY DEF Becomes, CameraInv
<1>2. DOMAIN packet' = Packets
  BY <1>1
<1>3. ASSUME NEW q \in Packets PROVE Good(packet'[q])
  <2>1. packet'[q] = IF q = p THEN k ELSE packet[q]
    BY <1>1
  <2>2. CASE q = p
    BY <2>1, <2>2
  <2>3. CASE q # p
    BY <2>1, <2>3 DEF CameraInv
  <2> QED BY <2>2, <2>3
<1> QED BY <1>2, <1>3 DEF CameraInv, Good, PacketOK, Without, EmptiesClear, InOrder

LEMMA InvNext == CameraInv /\ [Next]_vars => CameraInv'
<1> SUFFICES ASSUME CameraInv, [Next]_vars PROVE CameraInv'
  OBVIOUS
<1>1. CASE UNCHANGED vars
  BY <1>1 DEF vars, CameraInv
<1>2. ASSUME NEW p \in Packets,
             \/ Allocate(p) \/ Add(p) \/ Sort(p) \/ Delete(p) \/ Update(p)
             \/ Clone(p) \/ \E q \in Packets : AppendTo(p, q) \/ (p # q /\ Copy(p, q))
      PROVE  CameraInv'
  <2>1. Good(packet[p]) /\ \A q \in Packets : Good(packet[q])
    BY DEF CameraInv
  <2>2. CASE Allocate(p)
    <3>1. Good(Allocated(EntryCapacity[p], DataCapacity[p]))
      BY GoodFresh, Constants
    <3> QED BY <2>2, <3>1, InvBecomes DEF Allocate
  <2>3. CASE Add(p)
    <3>1. PICK tag \in Tags, count \in Counts, v \in Values :
            /\ Len(packet[p].entries) < packet[p].entry_capacity
            /\ EntryDataSize(tag, count) + packet[p].data_count =< packet[p].data_capacity
            /\ Becomes(p, Added(packet[p], tag, count, v))
      BY <2>3 DEF Add
    <3>2. Good(Added(packet[p], tag, count, v))
      BY <2>1, <3>1, GoodAdded
    <3> QED BY <3>1, <3>2, InvBecomes
  <2>4. CASE Sort(p)
    <3>1. PICK f \in [DOMAIN packet[p].entries -> DOMAIN packet[p].entries] :
            /\ \A i, j \in DOMAIN packet[p].entries :
                 i < j => /\ f[i] # f[j]
                          /\ packet[p].entries[f[i]].tag =< packet[p].entries[f[j]].tag
            /\ Becomes(p, Permuted(packet[p], f))
      BY <2>4 DEF Sort
    <3>2. Good(Permuted(packet[p], f))
      BY <2>1, <3>1, GoodPermuted
    <3> QED BY <3>1, <3>2, InvBecomes
  <2>5. CASE Delete(p)
    <3>1. PICK i \in DOMAIN packet[p].entries :
            Becomes(p, [Emptied(packet[p], i) EXCEPT !.entries = RemoveAt(@, i)])
      BY <2>5 DEF Delete
    <3>2. PICK k : k = [Emptied(packet[p], i) EXCEPT !.entries = RemoveAt(@, i)]
      OBVIOUS
    <3>3. Good(k)
      BY <2>1, <3>2, GoodDeleted
    <3> QED BY <3>1, <3>2, <3>3, InvBecomes
  <2>6. CASE Update(p)
    <3>1. PICK i \in DOMAIN packet[p].entries, count \in UpdateCounts, v \in Values :
            /\ packet[p].data_count + EntryDataSize(packet[p].entries[i].tag, count)
                 - DataSize(packet[p].entries[i]) =< packet[p].data_capacity
            /\ Becomes(p, Updated(packet[p], i, count, v))
      BY <2>6 DEF Update
    <3>2. Good(Updated(packet[p], i, count, v))
      BY <2>1, <3>1, GoodUpdated
    <3> QED BY <3>1, <3>2, InvBecomes
  <2>7. CASE Clone(p)
    <3>1. PICK k : k = Appended(Allocated(Len(packet[p].entries), packet[p].data_count), packet[p])
      OBVIOUS
    <3>2. Good(k)
      BY <2>1, <3>1, GoodCloned
    <3>3. Becomes(p, k)
      BY <2>7, <3>1 DEF Clone
    <3> QED BY <3>2, <3>3, InvBecomes
  <2>8. ASSUME NEW q \in Packets, AppendTo(p, q) PROVE CameraInv'
    <3>1. PICK k : k = Appended(packet[p], packet[q])
      OBVIOUS
    <3>2. Good(k)
      BY <2>1, <2>8, <3>1, GoodAppended DEF AppendTo
    <3>3. Becomes(p, k)
      BY <2>8, <3>1 DEF AppendTo
    <3> QED BY <3>2, <3>3, InvBecomes
  <2>9. ASSUME NEW q \in Packets, Copy(p, q) PROVE CameraInv'
    <3>1. PICK k : k = Copied(packet[p].memory, packet[q])
      OBVIOUS
    <3>2. packet[p].memory \in Nat
      BY <2>1, GoodFacts DEF Good
    <3>3. Good(k)
      BY <2>1, <3>1, <3>2, GoodCopied
    <3>4. Becomes(p, k)
      BY <2>9, <3>1 DEF Copy
    <3> QED BY <3>3, <3>4, InvBecomes
  <2> QED BY <1>2, <2>2, <2>3, <2>4, <2>5, <2>6, <2>7, <2>8, <2>9
<1> QED BY <1>1, <1>2 DEF Next

LEMMA Invariant == Spec => []CameraInv
BY InvInit, InvNext, PTL DEF Spec

-----------------------------------------------------------------------------
(* The properties *)

\* Every packet keeps its type, and its data area the size it was made with, through
\* every operation of camera_metadata.c.
THEOREM TypeCorrect == Spec => []TypeOK
<1>1. CameraInv => TypeOK
  BY DEF CameraInv, Good, PacketOK, Without, TypeOK
<1> QED BY <1>1, Invariant, PTL

\* Payloads fill the data without holes or overlaps, whatever is added, updated,
\* deleted, appended, cloned, copied and sorted: delete_camera_metadata_entry() and
\* update_camera_metadata_entry() shift exactly the payloads behind the one that goes.
THEOREM DataStaysPacked == Spec => []DataPacked
<1>1. CameraInv => DataPacked
  <2> SUFFICES ASSUME CameraInv, NEW p \in Packets
               PROVE  LET m   == packet[p]
                          out == {i \in DOMAIN m.entries : OutOfLine(m.entries[i])}
                      IN  /\ \A i \in out : PayloadEnd(m.entries[i]) =< m.data_count
                          /\ \A i, j \in out :
                               i # j => \/ PayloadEnd(m.entries[i]) =< m.entries[j].raw
                                        \/ PayloadEnd(m.entries[j]) =< m.entries[i].raw
                          /\ \A byte \in 0 .. m.data_count - 1 :
                               \E i \in out : m.entries[i].raw =< byte /\ byte < PayloadEnd(m.entries[i])
    BY DEF DataPacked
  <2> DEFINE m   == packet[p]
             out == Payloads(m.entries)
  <2>1. Tiles(out \ {}, Begins(m.entries), Lengths(m.entries), m.data_count)
    BY DEF CameraInv, Good, PacketOK, Without
  <2>2. out \ {} = out
    OBVIOUS
  <2>3. \A i \in out : Begins(m.entries)[i] = m.entries[i].raw
                       /\ Begins(m.entries)[i] + Lengths(m.entries)[i] = PayloadEnd(m.entries[i])
    BY DEF Payloads, Begins, Lengths, PayloadEnd
  <2> HIDE DEF m, out
  <2>4. /\ \A i \in out : PayloadEnd(m.entries[i]) =< m.data_count
        /\ \A i, j \in out : i # j => \/ PayloadEnd(m.entries[i]) =< m.entries[j].raw
                                      \/ PayloadEnd(m.entries[j]) =< m.entries[i].raw
        /\ \A byte \in 0 .. m.data_count - 1 :
             \E i \in out : m.entries[i].raw =< byte /\ byte < PayloadEnd(m.entries[i])
    BY <2>1, <2>2, <2>3 DEF Tiles
  <2> QED BY <2>4 DEF m, out, Payloads
<1> QED BY <1>1, Invariant, PTL

\* validate_camera_metadata_structure() accepts every packet, unless an entry was
\* updated to have no value, which leaves it the offset it had.
THEOREM StructureStaysValid ==
  ASSUME 0 \notin UpdateCounts
  PROVE  Spec => []StructureValid
<1>1. CameraInv => StructureValid
  <2> SUFFICES ASSUME CameraInv, NEW p \in Packets
               PROVE  LET m == packet[p]
                      IN  /\ Len(m.entries) =< m.entry_capacity /\ m.data_count =< m.data_capacity
                          /\ \A i \in DOMAIN m.entries :
                               LET e == m.entries[i]
                               IN  IF OutOfLine(e)
                                   THEN e.raw % DATA_ALIGNMENT = 0 /\ PayloadEnd(e) =< m.data_capacity
                                   ELSE e.count = 0 => e.raw = 0
    BY DEF StructureValid
  <2> DEFINE m == packet[p]
  <2>1. Without(m, {}) /\ EmptiesClear(m)
    BY DEF CameraInv, Good, PacketOK
  <2> HIDE DEF m
  <2>2. Len(m.entries) =< m.entry_capacity /\ m.data_count =< m.data_capacity
    BY <2>1 DEF Without
  <2>3. ASSUME NEW i \in DOMAIN m.entries, OutOfLine(m.entries[i])
        PROVE  m.entries[i].raw % DATA_ALIGNMENT = 0 /\ PayloadEnd(m.entries[i]) =< m.data_capacity
    <3>1. i \in Payloads(m.entries) \ {}
      BY <2>3 DEF Payloads
    <3>2. /\ Aligned(m.entries[i].raw) /\ Aligned(DataSize(m.entries[i]))
          /\ PayloadEnd(m.entries[i]) =< m.data_count
      BY <2>1, <3>1, PayloadFacts DEF PayloadEnd
    <3>3. m.data_count \in Nat /\ m.data_capacity \in Nat
      BY <2>1, PacketFacts DEF Without
    <3>4. PayloadEnd(m.entries[i]) \in Nat
      BY <3>2 DEF PayloadEnd, Aligned
    <3> QED BY <2>2, <3>2, <3>3, <3>4 DEF Aligned
  <2>4. ASSUME NEW i \in DOMAIN m.entries, m.entries[i].count = 0
        PROVE  m.entries[i].raw = 0
    BY <2>1, <2>4 DEF EmptiesClear
  <2> QED BY <2>2, <2>3, <2>4 DEF m
<1> QED BY <1>1, Invariant, PTL

\* find_camera_metadata_entry() finds a tag if and only if the packet has it, through
\* every operation, as long as unsorted packets are not appended to empty sorted ones.
THEOREM FindStaysExact ==
  ASSUME SortedIsFilled
  PROVE  Spec => []FindIsExact
<1>1. CameraInv => FindIsExact
  <2> SUFFICES ASSUME CameraInv, NEW p \in Packets, NEW tag \in Tags
               PROVE  LET m == packet[p]
                          i == Find(m, tag)
                      IN  IF i = 0 THEN \A j \in DOMAIN m.entries : m.entries[j].tag # tag
                                   ELSE m.entries[i].tag = tag
    BY DEF FindIsExact
  <2>1. PacketOK(packet[p]) /\ (packet[p].sorted => InOrder(packet[p].entries))
    BY DEF CameraInv, Good
  <2> QED BY <2>1, FindLocates
<1> QED BY <1>1, Invariant, PTL

-----------------------------------------------------------------------------
(* Packets as lists *)

\* An operation on packet p that makes it k is a step of the lists when what it
\* does to the content of p is one.
LEMMA ListsChange ==
  ASSUME CameraInv, NEW p \in Packets, NEW k, Becomes(p, k),
         \/ Content(k) = <<>>
         \/ Listed!Added(Content(packet[p]), Content(k))
         \/ Listed!Deleted(Content(packet[p]), Content(k))
         \/ Listed!Updated(Content(packet[p]), Content(k))
         \/ Listed!Sorted(Content(packet[p]), Content(k))
         \/ \E q \in Packets : Content(k) = Content(packet[p]) \o Content(packet[q])
         \/ \E q \in Packets : Content(k) = Content(packet[q])
  PROVE  Listed!Next
<1> DEFINE old == [q \in Packets |-> Content(packet[q])]
           new == [q \in Packets |-> Content(packet'[q])]
<1>1. packet' = [packet EXCEPT ![p] = k] /\ DOMAIN packet = Packets
  BY DEF Becomes, CameraInv
<1>2. packet'[p] = k /\ \A q \in Packets \ {p} : packet'[q] = packet[q]
  BY <1>1
<1>3. new[p] = Content(k) /\ \A q \in Packets \ {p} : new[q] = old[q]
  BY <1>2
<1>4. \A q \in Packets : old[q] = Content(packet[q])
  OBVIOUS
<1>5. Listed!Change(old[p], new[p])
  BY <1>3, <1>4 DEF Listed!Change, Listed!Concatenated, Listed!Copied
<1>6. new = [q \in Packets |-> Content(packet[q])]'
  BY DEF Content, ValueOf, DataSize, EntryDataSize, Word, DATA_ALIGNMENT
<1> QED BY <1>3, <1>5, <1>6 DEF Listed!Next

\* What may be listed
Items == {e \in [tag : Tags, count : Counts \cup UpdateCounts, value : Values \cup {0}] :
             e.value = 0 <=> e.count = 0}

LEMMA ContentFacts ==
  ASSUME NEW m, PacketOK(m)
  PROVE  /\ Len(m.entries) \in Nat /\ DOMAIN m.entries = 1 .. Len(m.entries)
         /\ DOMAIN Content(m) = 1 .. Len(m.entries)
         /\ Content(m) = [i \in 1 .. Len(m.entries) |-> Content(m)[i]]
         /\ \A S : (\A i \in 1 .. Len(m.entries) : Content(m)[i] \in S) => Content(m) \in Seq(S)
         /\ Len(Content(m)) = Len(m.entries)
<1> DEFINE n == Len(m.entries)
<1>1. n \in Nat /\ DOMAIN m.entries = 1 .. n
  BY GoodFacts
<1>2. PICK c : c = Content(m)
  OBVIOUS
<1>3. DOMAIN c = 1 .. n /\ c = [i \in 1 .. n |-> c[i]]
  BY <1>1, <1>2 DEF Content
<1> HIDE DEF n
<1>4. ASSUME NEW S, \A i \in 1 .. n : c[i] \in S PROVE c \in Seq(S) /\ Len(c) = n
  <2>1. c \in [1 .. n -> S]
    BY <1>3, <1>4
  <2>2. c \in Seq(S)
    BY <1>1, <2>1, SeqDef
  <2> QED BY <1>1, <1>3, <2>2, LenProperties
<1>5. Len(c) = n
  <2>1. \A i \in 1 .. n : c[i] \in {c[j] : j \in 1 .. n}
    OBVIOUS
  <2> QED BY <1>4, <2>1
<1> QED BY <1>1, <1>2, <1>3, <1>4, <1>5 DEF n

LEMMA ContentAt ==
  ASSUME NEW m, NEW k, NEW i \in DOMAIN m.entries, NEW j \in DOMAIN k.entries,
         SameEntry(m, m.entries[i], k, k.entries[j])
  PROVE  Content(k)[j] = Content(m)[i]
<1>1. /\ Content(m)[i] = [tag |-> m.entries[i].tag, count |-> m.entries[i].count,
                          value |-> ValueOf(m, m.entries[i])]
      /\ Content(k)[j] = [tag |-> k.entries[j].tag, count |-> k.entries[j].count,
                          value |-> ValueOf(k, k.entries[j])]
  BY DEF Content
<1> QED BY <1>1 DEF SameEntry

\* The new item of Add and of Update
LEMMA ContentNew ==
  ASSUME NEW k, NEW j \in DOMAIN k.entries, NEW v \in Values,
         k.entries[j].tag \in Tags, k.entries[j].count \in Counts \cup UpdateCounts,
         ValueOf(k, k.entries[j]) = IF k.entries[j].count = 0 THEN 0 ELSE v
  PROVE  Content(k)[j] \in Items /\ Content(k)[j].tag = k.entries[j].tag
<1> DEFINE e == k.entries[j]
<1>1. Content(k)[j] = [tag |-> e.tag, count |-> e.count, value |-> ValueOf(k, e)]
  BY DEF Content
<1>2. v # 0
  BY Constants
<1> HIDE DEF e
<1> QED BY <1>1, <1>2 DEF Items, e

LEMMA ListsAdded ==
  ASSUME NEW m, PacketOK(m), NEW k, PacketOK(k), Len(k.entries) = Len(m.entries) + 1,
         \A j \in DOMAIN m.entries : SameEntry(m, m.entries[j], k, k.entries[j]),
         Content(k)[Len(m.entries) + 1] \in Items
  PROVE  Listed!Added(Content(m), Content(k))
<1>1. PICK c, d, n : c = Content(m) /\ d = Content(k) /\ n = Len(m.entries)
  OBVIOUS
<1>2. /\ n \in Nat /\ DOMAIN m.entries = 1 .. n /\ DOMAIN k.entries = 1 .. n + 1
      /\ Len(c) = n /\ Len(d) = n + 1 /\ DOMAIN c = 1 .. n /\ DOMAIN d = 1 .. n + 1
      /\ \A S : (\A i \in 1 .. n : c[i] \in S) => c \in Seq(S)
      /\ \A S : (\A i \in 1 .. n + 1 : d[i] \in S) => d \in Seq(S)
  BY <1>1, ContentFacts
<1>3. \A j \in 1 .. n : d[j] = c[j]
  BY <1>1, <1>2, ContentAt
<1> DEFINE S == {d[j] : j \in 1 .. n + 1}
<1>4. d \in Seq(S) /\ c \in Seq(S)
  <2>1. \A i \in 1 .. n + 1 : d[i] \in S
    OBVIOUS
  <2>2. \A i \in 1 .. n : c[i] \in S
    BY <1>2, <1>3
  <2> HIDE DEF S
  <2> QED BY <1>2, <2>1, <2>2
<1> HIDE DEF S
<1>5. SubSeq(d, 1, n) = c
  <2>1. \A j \in 1 .. n : d[j] \in S
    BY <1>2, <1>4, ElementOfSeq
  <2>2. /\ SubSeq(d, 1, n) \in Seq(S) /\ Len(SubSeq(d, 1, n)) = IF 1 =< n THEN n - 1 + 1 ELSE 0
        /\ \A j \in 1 .. n - 1 + 1 : SubSeq(d, 1, n)[j] = d[1 + j - 1]
    BY <1>2, <2>1, SubSeqProperties
  <2>3. PICK f : f = SubSeq(d, 1, n)
    OBVIOUS
  <2>4. f \in Seq(S) /\ Len(f) = n /\ \A j \in 1 .. n : f[j] = c[j]
    BY <1>2, <1>3, <2>2, <2>3
  <2>5. f = c
    BY <1>2, <1>4, <2>4, SeqEqual
  <2> QED BY <2>3, <2>5
<1>6. Listed!Front(d) = c /\ Listed!Last(d) = d[n + 1]
  <2>1. (n + 1) - 1 = n
    BY <1>2
  <2> QED BY <1>2, <1>5, <2>1 DEF Listed!Front, Listed!Last
<1>7. d[n + 1] \in Items
  BY <1>1
<1> QED BY <1>1, <1>2, <1>6, <1>7 DEF Listed!Added, Items

LEMMA ListsDeleted ==
  ASSUME NEW m, PacketOK(m), NEW k, PacketOK(k), NEW i \in DOMAIN m.entries,
         Len(k.entries) = Len(m.entries) - 1,
         \A j \in 1 .. Len(m.entries) - 1 :
           SameEntry(m, m.entries[IF j < i THEN j ELSE j + 1], k, k.entries[j])
  PROVE  Listed!Deleted(Content(m), Content(k))
<1>1. PICK c, d, n : c = Content(m) /\ d = Content(k) /\ n = Len(m.entries)
  OBVIOUS
<1>2. /\ n \in Nat /\ DOMAIN m.entries = 1 .. n /\ DOMAIN k.entries = 1 .. n - 1
      /\ Len(c) = n /\ Len(d) = n - 1 /\ DOMAIN c = 1 .. n
      /\ \A S : (\A j \in 1 .. n : c[j] \in S) => c \in Seq(S)
      /\ \A S : (\A j \in 1 .. n - 1 : d[j] \in S) => d \in Seq(S)
  BY <1>1, ContentFacts
<1>3. ASSUME NEW j \in 1 .. n - 1
      PROVE  d[j] = c[IF j < i THEN j ELSE j + 1] /\ (IF j < i THEN j ELSE j + 1) \in 1 .. n
  <2>1. PICK h : h = IF j < i THEN j ELSE j + 1
    OBVIOUS
  <2>2. h \in 1 .. n
    BY <1>2, <2>1
  <2>3. SameEntry(m, m.entries[h], k, k.entries[j])
    BY <1>1, <2>1
  <2>4. d[j] = c[h]
    BY <1>1, <1>2, <2>2, <2>3, ContentAt
  <2> QED BY <2>1, <2>2, <2>4
<1> DEFINE S == {c[j] : j \in 1 .. n}
<1>4. d \in Seq(S) /\ c \in Seq(S)
  <2>1. \A j \in 1 .. n : c[j] \in S
    OBVIOUS
  <2>2. \A j \in 1 .. n - 1 : d[j] \in S
    BY <1>3
  <2> HIDE DEF S
  <2> QED BY <1>2, <2>1, <2>2
<1> HIDE DEF S
<1>5. RemoveAt(c, i) = d
  <2>1. /\ RemoveAt(c, i) \in Seq(S) /\ Len(RemoveAt(c, i)) = n - 1
        /\ \A j \in 1 .. n - 1 : RemoveAt(c, i)[j] = c[IF j < i THEN j ELSE j + 1]
    <3>1. i \in 1 .. Len(c) /\ Len(c) = n
      BY <1>2
    <3>2. /\ RemoveAt(c, i) \in Seq(S) /\ Len(RemoveAt(c, i)) = Len(c) - 1
          /\ \A j \in 1 .. Len(c) - 1 : RemoveAt(c, i)[j] = c[IF j < i THEN j ELSE j + 1]
      BY <1>4, <3>1, RemovedAt
    <3> QED BY <3>1, <3>2
  <2>2. PICK f : f = RemoveAt(c, i)
    OBVIOUS
  <2>3. \A j \in 1 .. n - 1 : f[j] = d[j]
    BY <1>3, <2>1, <2>2
  <2>4. f = d
    BY <1>2, <1>4, <2>1, <2>2, <2>3, SeqEqual
  <2> QED BY <2>2, <2>4
<1>6. Listed!RemoveAt(c, i) = d /\ i \in DOMAIN c
  BY <1>2, <1>5 DEF RemoveAt, Listed!RemoveAt
<1> QED BY <1>1, <1>6 DEF Listed!Deleted

LEMMA ListsUpdated ==
  ASSUME NEW m, PacketOK(m), NEW k, PacketOK(k), NEW i \in DOMAIN m.entries,
         DOMAIN k.entries = DOMAIN m.entries, k.entries[i].tag = m.entries[i].tag,
         \A j \in DOMAIN m.entries \ {i} : SameEntry(m, m.entries[j], k, k.entries[j]),
         Content(k)[i] \in Items, Content(k)[i].tag = k.entries[i].tag
  PROVE  Listed!Updated(Content(m), Content(k))
<1>1. PICK c, d, n : c = Content(m) /\ d = Content(k) /\ n = Len(m.entries)
  OBVIOUS
<1>2. /\ n \in Nat /\ DOMAIN m.entries = 1 .. n /\ DOMAIN k.entries = 1 .. n
      /\ DOMAIN c = 1 .. n /\ DOMAIN d = 1 .. n
      /\ c = [j \in 1 .. n |-> c[j]]
  BY <1>1, ContentFacts
<1>3. d = [j \in 1 .. n |-> d[j]]
  <2>1. 1 .. Len(k.entries) = 1 .. n
    BY <1>2, ContentFacts
  <2> QED BY <1>1, <2>1, ContentFacts
<1>4. \A j \in 1 .. n \ {i} : d[j] = c[j]
  BY <1>1, <1>2, ContentAt
<1>5. d = [c EXCEPT ![i] = d[i]]
  BY <1>2, <1>3, <1>4
<1>6. c[i].tag = m.entries[i].tag
  BY <1>1 DEF Content
<1>7. d[i] \in Items /\ d[i].tag = c[i].tag
  BY <1>1, <1>6
<1> QED BY <1>1, <1>2, <1>5, <1>7 DEF Listed!Updated, Items

LEMMA ListsSorted ==
  ASSUME NEW m, PacketOK(m), NEW k, PacketOK(k), DOMAIN k.entries = DOMAIN m.entries,
         NEW f \in [DOMAIN m.entries -> DOMAIN m.entries],
         \A i, j \in DOMAIN m.entries : i # j => f[i] # f[j],
         \A i, j \in DOMAIN m.entries : i < j => m.entries[f[i]].tag =< m.entries[f[j]].tag,
         \A i \in DOMAIN m.entries : SameEntry(m, m.entries[f[i]], k, k.entries[i])
  PROVE  Listed!Sorted(Content(m), Content(k))
<1>1. PICK c, d, n : c = Content(m) /\ d = Content(k) /\ n = Len(m.entries)
  OBVIOUS
<1>2. /\ n \in Nat /\ DOMAIN m.entries = 1 .. n /\ DOMAIN k.entries = 1 .. n
      /\ DOMAIN c = 1 .. n /\ DOMAIN d = 1 .. n
  BY <1>1, ContentFacts
<1>3. d = [j \in 1 .. n |-> d[j]]
  <2>1. 1 .. Len(k.entries) = 1 .. n
    BY <1>2, ContentFacts
  <2> QED BY <1>1, <2>1, ContentFacts
<1>4. ASSUME NEW j \in 1 .. n PROVE d[j] = c[f[j]] /\ d[j].tag = m.entries[f[j]].tag
  <2>1. d[j] = c[f[j]] /\ f[j] \in DOMAIN m.entries
    <3>1. PICK h : h = f[j]
      OBVIOUS
    <3>2. h \in DOMAIN m.entries /\ j \in DOMAIN k.entries /\ SameEntry(m, m.entries[h], k, k.entries[j])
      BY <1>2, <3>1
    <3>3. PICK g, e : g = k.entries[j] /\ e = m.entries[h]
      OBVIOUS
    <3>4. /\ Content(m)[h] = [tag |-> e.tag, count |-> e.count, value |-> ValueOf(m, e)]
          /\ Content(k)[j] = [tag |-> g.tag, count |-> g.count, value |-> ValueOf(k, g)]
      BY <3>2, <3>3 DEF Content
    <3>5. g.tag = e.tag /\ g.count = e.count /\ ValueOf(k, g) = ValueOf(m, e)
      BY <3>2, <3>3 DEF SameEntry
    <3> QED BY <1>1, <3>1, <3>2, <3>4, <3>5
  <2>2. c[f[j]].tag = m.entries[f[j]].tag
    BY <1>1, <2>1 DEF Content
  <2> QED BY <2>1, <2>2
<1>5. d = [j \in 1 .. n |-> c[f[j]]]
  BY <1>3, <1>4
<1>6. f \in [1 .. n -> 1 .. n] /\ \A i, j \in 1 .. n : i # j => f[i] # f[j]
  BY <1>2
<1>7. ASSUME NEW i \in 1 .. n, NEW j \in 1 .. n, i < j PROVE d[i].tag =< d[j].tag
  <2>1. m.entries[f[i]].tag =< m.entries[f[j]].tag
    BY <1>2, <1>7
  <2> QED BY <1>4, <2>1
<1>8. Listed!Sorted(c, d)
  <2>1. DOMAIN d = DOMAIN c /\ \A i, j \in DOMAIN d : i < j => d[i].tag =< d[j].tag
    BY <1>2, <1>7
  <2>2. /\ f \in [DOMAIN c -> DOMAIN c] /\ \A i, j \in DOMAIN c : i # j => f[i] # f[j]
        /\ d = [i \in DOMAIN c |-> c[f[i]]]
    BY <1>2, <1>5, <1>6
  <2> QED BY <2>1, <2>2 DEF Listed!Sorted
<1> QED BY <1>1, <1>8

LEMMA ListsConcatenated ==
  ASSUME NEW m, PacketOK(m), NEW src, PacketOK(src), NEW k, PacketOK(k), Concatenation(m, src, k)
  PROVE  Content(k) = Content(m) \o Content(src)
<1>1. PICK c, b, d, l, n : /\ c = Content(m) /\ b = Content(src) /\ d = Content(k)
                           /\ l = Len(m.entries) /\ n = Len(src.entries)
  OBVIOUS
<1>2. /\ l \in Nat /\ DOMAIN m.entries = 1 .. l /\ DOMAIN src.entries = 1 .. n /\ n \in Nat
      /\ Len(c) = l /\ Len(b) = n
      /\ \A S : (\A j \in 1 .. l : c[j] \in S) => c \in Seq(S)
      /\ \A S : (\A j \in 1 .. n : b[j] \in S) => b \in Seq(S)
  BY <1>1, ContentFacts
<1>3. /\ DOMAIN k.entries = 1 .. l + n /\ Len(d) = l + n
      /\ \A S : (\A j \in 1 .. l + n : d[j] \in S) => d \in Seq(S)
  BY <1>1, ContentFacts DEF Concatenation
<1>4. \A j \in 1 .. l : d[j] = c[j]
  <2> TAKE j \in 1 .. l
  <2>1. SameEntry(m, m.entries[j], k, k.entries[j])
    BY <1>1 DEF Concatenation
  <2>2. j \in DOMAIN m.entries /\ j \in DOMAIN k.entries
    BY <1>2, <1>3
  <2> QED BY <1>1, <2>1, <2>2, ContentAt
<1>5. \A j \in 1 .. n : d[l + j] = b[j]
  <2> TAKE j \in 1 .. n
  <2>1. PICK h : h = l + j
    OBVIOUS
  <2>2. SameEntry(src, src.entries[j], k, k.entries[h])
    BY <1>1, <2>1 DEF Concatenation
  <2>3. j \in DOMAIN src.entries /\ h \in DOMAIN k.entries
    BY <1>2, <1>3, <2>1
  <2>4. Content(k)[h] = Content(src)[j]
    BY <2>2, <2>3, ContentAt
  <2> QED BY <1>1, <2>1, <2>4
<1> DEFINE S == {d[j] : j \in 1 .. l + n}
<1>6. d \in Seq(S) /\ c \in Seq(S) /\ b \in Seq(S)
  <2>1. \A j \in 1 .. l + n : d[j] \in S
    OBVIOUS
  <2> HIDE DEF S
  <2>2. \A j \in 1 .. l : c[j] \in S
    BY <1>2, <1>4, <2>1
  <2>3. \A j \in 1 .. n : b[j] \in S
    BY <1>2, <1>5, <2>1
  <2> QED BY <1>2, <1>3, <2>1, <2>2, <2>3
<1> HIDE DEF S
<1>7. PICK g : g = c \o b
  OBVIOUS
<1>8. /\ g \in Seq(S) /\ Len(g) = l + n
      /\ \A j \in 1 .. l + n : g[j] = IF j =< l THEN c[j] ELSE b[j - l]
  <2>1. /\ c \o b \in Seq(S) /\ Len(c \o b) = Len(c) + Len(b)
        /\ \A j \in 1 .. Len(c) + Len(b) : (c \o b)[j] = IF j =< Len(c) THEN c[j] ELSE b[j - Len(c)]
    BY <1>6, ConcatProperties
  <2>2. Len(c) = l /\ Len(b) = n
    BY <1>2
  <2> QED BY <1>7, <2>1, <2>2
<1>9. ASSUME NEW j \in 1 .. l + n PROVE d[j] = g[j]
  <2>1. CASE j =< l
    BY <1>2, <1>4, <1>8, <2>1
  <2>2. CASE ~ (j =< l)
    <3>1. j - l \in 1 .. n /\ l + (j - l) = j
      BY <1>2, <2>2
    <3>2. d[j] = b[j - l]
      BY <1>5, <3>1
    <3> QED BY <1>8, <2>2, <3>2
  <2> QED BY <2>1, <2>2
<1>10. d = g
  BY <1>3, <1>6, <1>8, <1>9, SeqEqual
<1> QED BY <1>1, <1>7, <1>10

LEMMA ListsCopied ==
  ASSUME NEW src, PacketOK(src), NEW k, PacketOK(k), Len(k.entries) = Len(src.entries),
         \A j \in 1 .. Len(src.entries) : SameEntry(src, src.entries[j], k, k.entries[j])
  PROVE  Content(k) = Content(src)
<1>1. PICK c, d, n : c = Content(src) /\ d = Content(k) /\ n = Len(src.entries)
  OBVIOUS
<1>2. /\ DOMAIN src.entries = 1 .. n /\ DOMAIN k.entries = 1 .. n
      /\ c = [j \in 1 .. n |-> c[j]] /\ d = [j \in 1 .. n |-> d[j]]
  BY <1>1, ContentFacts
<1>3. \A j \in 1 .. n : d[j] = c[j]
  <2> TAKE j \in 1 .. n
  <2>1. SameEntry(src, src.entries[j], k, k.entries[j])
    BY <1>1
  <2>2. j \in DOMAIN src.entries /\ j \in DOMAIN k.entries
    BY <1>2
  <2> QED BY <1>1, <2>1, <2>2, ContentAt
<1>4. d = c
  BY <1>2, <1>3
<1> QED BY <1>1, <1>4

LEMMA ListsEmpty ==
  ASSUME NEW k, k.entries = <<>>
  PROVE  Content(k) = <<>>
BY DEF Content

LEMMA ListsNext == CameraInv /\ Next => Listed!Next
<1> SUFFICES ASSUME CameraInv, NEW p \in Packets,
                    \/ Allocate(p) \/ Add(p) \/ Sort(p) \/ Delete(p) \/ Update(p)
                    \/ Clone(p) \/ \E q \in Packets : AppendTo(p, q) \/ (p # q /\ Copy(p, q))
             PROVE  Listed!Next
  BY DEF Next
<1>0. PICK m : m = packet[p]
  OBVIOUS
<1>1. /\ PacketOK(m) /\ m.memory \in Nat /\ Len(m.entries) \in Nat
      /\ DOMAIN m.entries = 1 .. Len(m.entries)
      /\ \A q \in Packets : PacketOK(packet[q])
  BY <1>0, GoodFacts DEF CameraInv, Good
<1>2. CASE Allocate(p)
  <2>1. PICK k : k = Allocated(EntryCapacity[p], DataCapacity[p])
    OBVIOUS
  <2>2. k.entries = <<>>
    <3>1. Fresh(Allocated(EntryCapacity[p], DataCapacity[p]), EntryCapacity[p], DataCapacity[p])
      BY AllocatedFacts, Constants
    <3> QED BY <2>1, <3>1 DEF Fresh
  <2>3. Becomes(p, k)
    BY <1>2, <2>1 DEF Allocate
  <2> QED BY <2>2, <2>3, ListsEmpty, ListsChange
<1>3. CASE Add(p)
  <2>1. PICK tag \in Tags, count \in Counts, v \in Values :
          /\ Len(m.entries) < m.entry_capacity
          /\ EntryDataSize(tag, count) + m.data_count =< m.data_capacity
          /\ Becomes(p, Added(m, tag, count, v))
    BY <1>0, <1>3 DEF Add
  <2>2. PICK k : k = Added(m, tag, count, v)
    OBVIOUS
  <2>3. PICK n : n = Len(m.entries) + 1
    OBVIOUS
  <2>4. /\ PacketOK(k) /\ Len(k.entries) = n
        /\ \A j \in DOMAIN m.entries : SameEntry(m, m.entries[j], k, k.entries[j])
        /\ k.entries[n].tag = tag /\ k.entries[n].count = count
        /\ ValueOf(k, k.entries[n]) = IF count = 0 THEN 0 ELSE v
    BY <1>1, <2>1, <2>2, <2>3, AddedKeeps
  <2>5. n \in DOMAIN k.entries
    BY <1>1, <2>3, <2>4, GoodFacts
  <2>6. Content(k)[n] \in Items
    BY <2>4, <2>5, ContentNew
  <2>7. Listed!Added(Content(m), Content(k))
    BY <1>1, <2>3, <2>4, <2>6, ListsAdded
  <2> QED BY <1>0, <2>1, <2>2, <2>7, ListsChange
<1>4. CASE Sort(p)
  <2>1. PICK f \in [DOMAIN m.entries -> DOMAIN m.entries] :
          /\ \A i, j \in DOMAIN m.entries :
               i < j => f[i] # f[j] /\ m.entries[f[i]].tag =< m.entries[f[j]].tag
          /\ Becomes(p, Permuted(m, f))
    BY <1>0, <1>4 DEF Sort
  <2>2. PICK k : k = Permuted(m, f)
    OBVIOUS
  <2>3. \A i, j \in DOMAIN m.entries : i < j => f[i] # f[j]
    BY <2>1
  <2>4. /\ PacketOK(k) /\ DOMAIN k.entries = DOMAIN m.entries
        /\ \A i, j \in DOMAIN m.entries : i # j => f[i] # f[j]
        /\ \A i \in DOMAIN m.entries : SameEntry(m, m.entries[f[i]], k, k.entries[i])
    BY <1>1, <2>2, <2>3, PermutedKeeps
  <2>5. \A i, j \in DOMAIN m.entries : i < j => m.entries[f[i]].tag =< m.entries[f[j]].tag
    BY <2>1
  <2>6. Listed!Sorted(Content(m), Content(k))
    BY <1>1, <2>4, <2>5, ListsSorted
  <2> QED BY <1>0, <2>1, <2>2, <2>6, ListsChange
<1>5. CASE Delete(p)
  <2>1. PICK i \in DOMAIN m.entries :
          Becomes(p, [Emptied(m, i) EXCEPT !.entries = RemoveAt(@, i)])
    BY <1>0, <1>5 DEF Delete
  <2>2. PICK k : k = [Emptied(m, i) EXCEPT !.entries = RemoveAt(@, i)]
    OBVIOUS
  <2>3. /\ PacketOK(k) /\ Len(k.entries) = Len(m.entries) - 1
        /\ \A j \in 1 .. Len(m.entries) - 1 :
             SameEntry(m, m.entries[IF j < i THEN j ELSE j + 1], k, k.entries[j])
    BY <1>1, <2>2, DeletedKeeps
  <2>4. Listed!Deleted(Content(m), Content(k))
    BY <1>1, <2>3, ListsDeleted
  <2> QED BY <1>0, <2>1, <2>2, <2>4, ListsChange
<1>6. CASE Update(p)
  <2>1. PICK i \in DOMAIN m.entries, count \in UpdateCounts, v \in Values :
          /\ m.data_count + EntryDataSize(m.entries[i].tag, count)
               - DataSize(m.entries[i]) =< m.data_capacity
          /\ Becomes(p, Updated(m, i, count, v))
    BY <1>0, <1>6 DEF Update
  <2>2. PICK k : k = Updated(m, i, count, v)
    OBVIOUS
  <2>3. /\ PacketOK(k) /\ DOMAIN k.entries = DOMAIN m.entries
        /\ \A j \in DOMAIN m.entries \ {i} : SameEntry(m, m.entries[j], k, k.entries[j])
        /\ k.entries[i].tag = m.entries[i].tag /\ k.entries[i].count = count
        /\ ValueOf(k, k.entries[i]) = IF count = 0 THEN 0 ELSE v
    BY <1>1, <2>1, <2>2, UpdatedKeeps
  <2>4. m.entries[i].tag \in Tags
    <3>1. m.entries[i] \in Entry
      BY <1>1, GoodFacts
    <3> QED BY <3>1, EntryFacts
  <2>5. Content(k)[i] \in Items /\ Content(k)[i].tag = k.entries[i].tag
    BY <2>3, <2>4, ContentNew
  <2>6. Listed!Updated(Content(m), Content(k))
    BY <1>1, <2>3, <2>5, ListsUpdated
  <2> QED BY <1>0, <2>1, <2>2, <2>6, ListsChange
<1>7. CASE Clone(p)
  <2>1. PICK k : k = Appended(Allocated(Len(m.entries), m.data_count), m)
    OBVIOUS
  <2>2. /\ PacketOK(k) /\ Len(k.entries) = Len(m.entries)
        /\ \A i \in 1 .. Len(m.entries) : SameEntry(m, m.entries[i], k, k.entries[i])
    BY <1>1, <2>1, ClonedKeeps
  <2>3. Becomes(p, k)
    BY <1>0, <1>7, <2>1 DEF Clone
  <2>4. Content(k) = Content(packet[p])
    BY <1>0, <1>1, <2>2, ListsCopied
  <2> QED BY <2>3, <2>4, ListsChange
<1>8. ASSUME NEW q \in Packets, AppendTo(p, q) PROVE Listed!Next
  <2>1. PICK src, k : src = packet[q] /\ k = Appended(m, src)
    OBVIOUS
  <2>2. PacketOK(src) /\ Fits(m, src) /\ Becomes(p, k)
    BY <1>0, <1>1, <1>8, <2>1 DEF AppendTo
  <2>3. PacketOK(k) /\ Concatenation(m, src, k)
    BY <1>1, <2>1, <2>2, AppendedKeeps
  <2>4. Content(k) = Content(packet[p]) \o Content(packet[q])
    BY <1>0, <1>1, <2>1, <2>2, <2>3, ListsConcatenated
  <2> QED BY <2>2, <2>4, ListsChange
<1>9. ASSUME NEW q \in Packets, Copy(p, q) PROVE Listed!Next
  <2>0. PICK src, memory : src = packet[q] /\ memory = m.memory
    OBVIOUS
  <2>1. PICK k : k = Copied(memory, src)
    OBVIOUS
  <2>2. PacketOK(src) /\ memory \in Nat /\ Becomes(p, k)
    BY <1>0, <1>1, <1>9, <2>0, <2>1 DEF Copy
  <2>3. /\ PacketOK(k) /\ k.entries = src.entries
        /\ \A i \in 1 .. Len(src.entries) : SameEntry(src, src.entries[i], k, k.entries[i])
    BY <2>1, <2>2, CopiedKeeps
  <2>4. Content(k) = Content(packet[q])
    BY <2>0, <2>2, <2>3, ListsCopied
  <2> QED BY <2>2, <2>4, ListsChange
<1> QED BY <1>2, <1>3, <1>4, <1>5, <1>6, <1>7, <1>8, <1>9

LEMMA ListsSame == UNCHANGED vars => UNCHANGED [p \in Packets |-> Content(packet[p])]
BY DEF vars, Content, ValueOf, DataSize, EntryDataSize, Word, DATA_ALIGNMENT

LEMMA ListsInit == Init => Listed!Init
<1> SUFFICES ASSUME Init PROVE Listed!Init
  OBVIOUS
<1>1. ASSUME NEW p \in Packets PROVE Content(packet[p]) = <<>>
  <2>1. PICK k : k = Allocated(EntryCapacity[p], DataCapacity[p])
    OBVIOUS
  <2>2. k.entries = <<>>
    <3>1. Fresh(Allocated(EntryCapacity[p], DataCapacity[p]), EntryCapacity[p], DataCapacity[p])
      BY AllocatedFacts, Constants
    <3> QED BY <2>1, <3>1 DEF Fresh
  <2>3. packet[p] = k
    BY <2>1 DEF Init
  <2> QED BY <2>2, <2>3, ListsEmpty
<1> QED BY <1>1 DEF Listed!Init

\* A packet reads as the list of what was added to it, whatever moves inside: every
\* operation of camera_metadata.c is a step of TagList on the lists that
\* get_camera_metadata_entry() gives, and changes no list but that of its packet.
THEOREM PacketsAreLists == Spec => ListSpec
<1>1. CameraInv /\ [Next]_vars => [Listed!Next]_([p \in Packets |-> Content(packet[p])])
  BY ListsNext, ListsSame
<1> QED BY <1>1, ListsInit, Invariant, PTL DEF Spec, ListSpec, Listed!Spec

=============================================================================
