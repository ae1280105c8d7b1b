------------------------ MODULE RadioMetadataProofs ------------------------
(* What the calls build passes radio_metadata_check(), and reads as the list of *)
(* the entries that were added, for every table of keys, every size of text or *)
(* raw value, and any number of buffers.                                       *)
EXTENDS RadioMetadata, TLAPS, SequenceTheorems, WellFoundedInduction

Listable == [key : DOMAIN KeyType, size : Nat, value : Payloads]

LEMMA Constants ==
  /\ DefaultSize \in Nat /\ MaxSize \in Nat
  /\ 5 =< DefaultSize /\ 2 * DefaultSize =< MaxSize /\ MaxSize =< DefaultSize * 4096
  /\ TextSizes \subseteq Nat /\ RawSizes \subseteq Nat
  /\ NoBuffer \notin Seq(Listable)
  /\ HeaderWords = 4 /\ EntryHeaderBytes = 12 /\ MinEntryWords = 4
<1>1. 2 ^ 12 = 4096
  OBVIOUS
<1> QED BY <1>1, RadioAssumption DEF Listable, HeaderWords, EntryHeaderBytes, MinEntryWords

LEMMA Division ==
  ASSUME NEW n \in Nat
  PROVE  LET q == n \div 4 IN q \in Nat /\ 4 * q =< n /\ n < 4 * q + 4
OBVIOUS

\* An entry is three words and its payload, rounded up.
LEMMA Lengths ==
  ASSUME NEW size \in Nat
  PROVE  /\ DataWords(size) \in Nat /\ EntryWords(size) = DataWords(size) + 3
         /\ 4 * EntryWords(size) >= size + 12
         /\ size > 0 => DataWords(size) > 0
         /\ size = 0 => DataWords(size) = 0
<1>1. size + 3 \in Nat /\ size + 12 + 3 = (size + 3) + 12
  OBVIOUS
<1>2. PICK n \in Nat : n = size + 3
  BY <1>1
<1>3. (n + 12) \div 4 = (n \div 4) + 3
  OBVIOUS
<1> QED BY <1>1, <1>2, <1>3, Division DEF DataWords, EntryWords, EntryHeaderBytes

-----------------------------------------------------------------------------
(* Induction over the naturals, for sets *)

LEMMA Least ==
  ASSUME NEW N, N \subseteq Nat, N # {}
  PROVE  \E m \in N : \A k \in N : m =< k
<1>1. PICK m \in N : \A k \in N : <<k, m>> \notin OpToRel(<, Nat)
  BY WFMin, NatLessThanWellFounded, Zenon
<1>2. \A k \in N : ~ (k < m)
  BY <1>1, Zenon DEF OpToRel
<1> QED BY <1>2

LEMMA UpTo ==
  ASSUME NEW n \in Nat, NEW N, 0 \in N, \A k \in 0 .. n - 1 : k \in N => k + 1 \in N
  PROVE  \A k \in 0 .. n : k \in N
<1> DEFINE M == {k \in 0 .. n : k \notin N}
<1>1. ASSUME M # {} PROVE FALSE
  <2>1. PICK m \in M : \A k \in M : m =< k
    <3>1. M \subseteq Nat
      OBVIOUS
    <3> HIDE DEF M
    <3> QED BY <1>1, <3>1, Least
  <2>2. m \in 1 .. n /\ m - 1 \in 0 .. n - 1 /\ (m - 1) + 1 = m
    OBVIOUS
  <2>3. m - 1 \in N
    <3>1. m - 1 \notin M
      BY <2>1, <2>2
    <3> QED BY <2>2, <3>1
  <2> QED BY <2>2, <2>3
<1> QED BY <1>1

-----------------------------------------------------------------------------
(* A buffer that is in order *)

SizeAt(m, i) == m.words[OffsetAt(m, i) + 2][2]

\* What the words of value v are.
Image(size, v) == [k \in 3 .. 2 + DataWords(size) |-> <<v, k>>]

\* Entry i is this one.
EntryIs(m, i, key, size, v) ==
  LET at == OffsetAt(m, i)
  IN  /\ m.words[at] = <<"key", key>>
      /\ m.words[at + 1] = <<"type", KeyType[key]>>
      /\ m.words[at + 2] = <<"size", size>>
      /\ \A k \in 3 .. 2 + DataWords(size) : m.words[at + k] = <<v, k>>
      /\ OffsetAt(m, i + 1) = at + EntryWords(size)

\* The block as C declares it.
Shape(m) ==
  /\ m = [channel |-> m.channel, size_int |-> m.size_int, count |-> m.count, words |-> m.words]
  /\ m.size_int \in Nat /\ m.count \in Nat
  /\ DefaultSize =< m.size_int /\ m.size_int =< MaxSize
  /\ DOMAIN m.words = 0 .. m.size_int - 1

\* The offsets ascend by the lengths of the entries, and the data ends before the index.
Ordered(m) ==
  /\ \A i \in 0 .. m.count : OffsetAt(m, i) \in Nat /\ HeaderWords =< OffsetAt(m, i)
  /\ Free(m) + m.count + 1 =< m.size_int
  /\ \A i, j \in 0 .. m.count :
       i < j => OffsetAt(m, i) + EntryWords(SizeAt(m, i)) =< OffsetAt(m, j)

\* Entries with a value take four words at least.
Spread(m) ==
  \A i \in 0 .. m.count :
    (\A j \in 0 .. i - 1 : SizeAt(m, j) > 0) => HeaderWords + 4 * i =< OffsetAt(m, i)

Filled(m) ==
  \A i \in 0 .. m.count - 1 :
    \E key \in DOMAIN KeyType, size \in Nat, v \in Payloads : EntryIs(m, i, key, size, v)

BufferOK(m) == Shape(m) /\ Ordered(m) /\ Spread(m) /\ Filled(m)

\* Buffer n has the entries of m, and perhaps more.
Keeps(m, n) ==
  /\ \A i \in 0 .. m.count : OffsetAt(n, i) = OffsetAt(m, i)
  /\ \A w \in 0 .. Free(m) - 1 : n.words[w] = m.words[w]

LEMMA EntrySize ==
  ASSUME NEW m, NEW i, NEW key, NEW size, NEW v, EntryIs(m, i, key, size, v)
  PROVE  SizeAt(m, i) = size
BY DEF EntryIs, SizeAt

\* The words of an entry are before the next free one.
LEMMA EntryWithin ==
  ASSUME NEW m, BufferOK(m), NEW i \in 0 .. m.count - 1
  PROVE  /\ SizeAt(m, i) \in Nat /\ OffsetAt(m, i) \in Nat /\ Free(m) \in Nat
         /\ OffsetAt(m, i) + 3 + DataWords(SizeAt(m, i)) =< Free(m)
<1>1. m.count \in Nat /\ i \in 0 .. m.count /\ m.count \in 0 .. m.count /\ i < m.count
  BY DEF BufferOK, Shape
<1>2. SizeAt(m, i) \in Nat
  BY EntrySize DEF BufferOK, Filled
<1>3. OffsetAt(m, i) + EntryWords(SizeAt(m, i)) =< Free(m) /\ OffsetAt(m, i) \in Nat
      /\ Free(m) \in Nat
  BY <1>1 DEF BufferOK, Ordered, Free
<1> QED BY <1>2, <1>3, Lengths

LEMMA KeepsEntries ==
  ASSUME NEW m, NEW n, BufferOK(m), Keeps(m, n), NEW i \in 0 .. m.count - 1
  PROVE  /\ SizeAt(n, i) = SizeAt(m, i)
         /\ EntryAt(n, i) = EntryAt(m, i)
         /\ \A key, size, v : EntryIs(m, i, key, size, v) => EntryIs(n, i, key, size, v)
<1> DEFINE at == OffsetAt(m, i)
           size == SizeAt(m, i)
<1>1. size \in Nat /\ at \in Nat /\ Free(m) \in Nat /\ at + 3 + DataWords(size) =< Free(m)
  BY EntryWithin
<1>2. i \in 0 .. m.count /\ i + 1 \in 0 .. m.count
  BY DEF BufferOK, Shape
<1>3. OffsetAt(n, i) = at /\ OffsetAt(n, i + 1) = OffsetAt(m, i + 1)
  BY <1>2 DEF Keeps
<1>4. DataWords(size) \in Nat
  BY <1>1, Lengths
<1>5. \A k \in 0 .. 2 + DataWords(size) : n.words[at + k] = m.words[at + k]
  BY <1>1, <1>4 DEF Keeps
<1>6. n.words[at] = m.words[at] /\ n.words[at + 1] = m.words[at + 1]
      /\ n.words[at + 2] = m.words[at + 2]
  <2>1. 0 \in 0 .. 2 + DataWords(size) /\ 1 \in 0 .. 2 + DataWords(size)
        /\ 2 \in 0 .. 2 + DataWords(size) /\ at + 0 = at
    BY <1>1, <1>4
  <2> HIDE DEF at, size
  <2> QED BY <1>5, <2>1
<1>7. SizeAt(n, i) = size /\ m.words[at + 2][2] = size
  BY <1>3, <1>6 DEF SizeAt
<1>8. [k \in 3 .. 2 + DataWords(size) |-> n.words[at + k]]
      = [k \in 3 .. 2 + DataWords(size) |-> m.words[at + k]]
  <2>1. \A k \in 3 .. 2 + DataWords(size) : n.words[at + k] = m.words[at + k]
    BY <1>4, <1>5
  <2> HIDE DEF at, size
  <2> QED BY <2>1
<1>9. EntryAt(n, i) = EntryAt(m, i)
  <2>1. n.words[at + 2][2] = size
    BY <1>6, <1>7
  <2> HIDE DEF at, size
  <2>2. EntryAt(n, i) = [key |-> n.words[at][2], size |-> size,
                         value |-> ReadAs([k \in 3 .. 2 + DataWords(size) |-> n.words[at + k]])]
    BY <1>3, <2>1 DEF EntryAt
  <2>3. EntryAt(m, i) = [key |-> m.words[at][2], size |-> size,
                         value |-> ReadAs([k \in 3 .. 2 + DataWords(size) |-> m.words[at + k]])]
    BY <1>7 DEF EntryAt, at
  <2> QED BY <1>6, <1>8, <2>2, <2>3
<1>10. ASSUME NEW key, NEW s, NEW v, EntryIs(m, i, key, s, v)
       PROVE  EntryIs(n, i, key, s, v)
  <2>1. s = size
    BY <1>10, EntrySize
  <2>2. \A k \in 3 .. 2 + DataWords(size) : n.words[at + k] = <<v, k>>
    <3>1. \A k \in 3 .. 2 + DataWords(size) : m.words[at + k] = <<v, k>>
      BY <1>10, <2>1 DEF EntryIs
    <3> HIDE DEF at, size
    <3> QED BY <1>4, <1>5, <3>1
  <2> QED BY <1>3, <1>6, <1>10, <2>1, <2>2 DEF EntryIs
<1> QED BY <1>7, <1>9, <1>10

-----------------------------------------------------------------------------
(* Growing *)

\* A buffer that has the entries of one in order is in order, if there is room.
LEMMA KeepsOrder ==
  ASSUME NEW m, NEW n, BufferOK(m), Keeps(m, n), Shape(n), n.count = m.count,
         m.size_int =< n.size_int
  PROVE  BufferOK(n)
<1>1. m.count \in Nat /\ m.count \in 0 .. m.count /\ m.size_int \in Nat /\ n.size_int \in Nat
  BY DEF BufferOK, Shape
<1>2. \A i \in 0 .. m.count : OffsetAt(n, i) = OffsetAt(m, i)
  BY DEF Keeps
<1>3. \A i \in 0 .. m.count - 1 : SizeAt(n, i) = SizeAt(m, i)
  BY KeepsEntries
<1>4. Free(n) = Free(m)
  BY <1>1, <1>2 DEF Free
<1>5. Ordered(n)
  <2>1. \A i \in 0 .. n.count : OffsetAt(n, i) \in Nat /\ HeaderWords =< OffsetAt(n, i)
    BY <1>2 DEF BufferOK, Ordered
  <2>2. Free(m) \in Nat /\ Free(m) + m.count + 1 =< m.size_int
    BY <1>1 DEF BufferOK, Ordered, Free
  <2>3. Free(n) + n.count + 1 =< n.size_int
    BY <1>1, <1>4, <2>2
  <2>4. \A i, j \in 0 .. n.count :
          i < j => OffsetAt(n, i) + EntryWords(SizeAt(n, i)) =< OffsetAt(n, j)
    <3> SUFFICES ASSUME NEW i \in 0 .. m.count, NEW j \in 0 .. m.count, i < j
                 PROVE  OffsetAt(n, i) + EntryWords(SizeAt(n, i)) =< OffsetAt(n, j)
      OBVIOUS
    <3>1. i \in 0 .. m.count - 1
      BY <1>1
    <3>2. OffsetAt(m, i) + EntryWords(SizeAt(m, i)) =< OffsetAt(m, j)
      BY DEF BufferOK, Ordered
    <3> QED BY <1>2, <1>3, <3>1, <3>2
  <2> QED BY <2>1, <2>3, <2>4 DEF Ordered
<1>6. Spread(n)
  <2> SUFFICES ASSUME NEW i \in 0 .. m.count, \A j \in 0 .. i - 1 : SizeAt(n, j) > 0
               PROVE  HeaderWords + 4 * i =< OffsetAt(n, i)
    BY DEF Spread
  <2>1. \A j \in 0 .. i - 1 : SizeAt(m, j) > 0
    BY <1>1, <1>3
  <2> QED BY <1>2, <2>1 DEF BufferOK, Spread
<1>7. Filled(n)
  <2> SUFFICES ASSUME NEW i \in 0 .. m.count - 1
               PROVE  \E key \in DOMAIN KeyType, size \in Nat, v \in Payloads :
                        EntryIs(n, i, key, size, v)
    BY DEF Filled
  <2>1. PICK key \in DOMAIN KeyType, size \in Nat, v \in Payloads : EntryIs(m, i, key, size, v)
    BY DEF BufferOK, Filled
  <2>2. EntryIs(n, i, key, size, v)
    BY <2>1, KeepsEntries
  <2> QED BY <2>2
<1> QED BY <1>5, <1>6, <1>7 DEF BufferOK

\* The memmove() takes the index to the end of the larger block.
LEMMA GrowKeeps ==
  ASSUME NEW m, BufferOK(m), NEW size \in Nat, m.size_int =< size, size =< MaxSize
  PROVE  LET n == Grow(m, size)
         IN  /\ BufferOK(n) /\ Keeps(m, n)
             /\ n.size_int = size /\ n.count = m.count
<1> DEFINE words == [w \in 0 .. size - 1 |->
                       IF w >= size - (m.count + 1) THEN m.words[w - (size - m.size_int)]
                       ELSE IF w < m.size_int THEN m.words[w] ELSE Junk]
<1>1. PICK n : n = Grow(m, size)
  OBVIOUS
<1>2. /\ m = [channel |-> m.channel, size_int |-> m.size_int, count |-> m.count,
              words |-> m.words]
      /\ m.count \in Nat /\ m.size_int \in Nat /\ DefaultSize =< m.size_int
  BY DEF BufferOK, Shape
<1>3. n = [channel |-> m.channel, size_int |-> size, count |-> m.count, words |-> words]
  <2>1. n = [m EXCEPT !.size_int = size, !.words = words]
    BY <1>1 DEF Grow
  <2> HIDE DEF words
  <2> QED BY <1>2, <2>1
<1>4. Free(m) \in Nat /\ Free(m) + m.count + 1 =< m.size_int
  BY <1>2 DEF BufferOK, Ordered, Free
<1>5. n.words = words /\ n.size_int = size /\ n.count = m.count
  <2> HIDE DEF words
  <2> QED BY <1>3
<1>6. Shape(n)
  <2>1. DOMAIN words = 0 .. size - 1
    OBVIOUS
  <2> HIDE DEF words
  <2> QED BY <1>2, <1>3, <2>1, Constants DEF Shape
<1>7. Keeps(m, n)
  <2>1. ASSUME NEW i \in 0 .. m.count PROVE OffsetAt(n, i) = OffsetAt(m, i)
    <3>1. PICK w : w = size - i - 1
      OBVIOUS
    <3>2. w \in 0 .. size - 1 /\ w >= size - (m.count + 1)
          /\ w - (size - m.size_int) = m.size_int - i - 1
      BY <1>2, <1>4, <3>1
    <3>3. n.words[w] = m.words[m.size_int - i - 1]
      BY <1>5, <3>2
    <3> QED BY <1>5, <3>1, <3>3 DEF OffsetAt, Slot
  <2>2. ASSUME NEW w \in 0 .. Free(m) - 1 PROVE n.words[w] = m.words[w]
    <3>1. w \in 0 .. size - 1 /\ ~ (w >= size - (m.count + 1)) /\ w < m.size_int
      BY <1>2, <1>4
    <3> QED BY <1>5, <3>1
  <2> QED BY <2>1, <2>2 DEF Keeps
<1>8. BufferOK(n)
  BY <1>2, <1>5, <1>6, <1>7, KeepsOrder
<1> QED BY <1>1, <1>5, <1>7, <1>8

\* check_size() fails and leaves the buffer, or there is room for the entry and its
\* place in the index.
LEMMA RoomMade ==
  ASSUME NEW m, BufferOK(m), NEW size_int \in Nat, NEW memory \in Memory
  PROVE  LET room == check_size(m, size_int, memory)
         IN  \/ room = [status |-> ENOMEM, m |-> m]
             \/ /\ room.status = 0 /\ BufferOK(room.m) /\ Keeps(m, room.m)
                /\ room.m.count = m.count
                /\ Free(room.m) + m.count + 2 + size_int =< room.m.size_int
<1> DEFINE required == Required(m, size_int)
           larger   == {s \in {m.size_int * 2 ^ k : k \in 1 .. 12} : s >= required}
           size     == Min(larger)
<1>1. /\ m.count \in Nat /\ m.size_int \in Nat /\ DefaultSize =< m.size_int
      /\ Free(m) \in Nat
  BY DEF BufferOK, Shape, Ordered, Free
<1>2. required \in Nat /\ required = Free(m) + m.count + 2 + size_int
  BY <1>1 DEF Required
<1>3. check_size(m, size_int, memory) =
        IF required =< m.size_int THEN [status |-> 0, m |-> m]
        ELSE IF required > MaxSize \/ m.size_int >= MaxSize \/ size > memory
             THEN [status |-> ENOMEM, m |-> m]
             ELSE [status |-> 0, m |-> Grow(m, size)]
  BY DEF check_size
<1>4. CASE required =< m.size_int
  <2>1. check_size(m, size_int, memory) = [status |-> 0, m |-> m]
    BY <1>3, <1>4
  <2>2. Keeps(m, m)
    BY DEF Keeps
  <2> QED BY <1>2, <1>4, <2>1, <2>2
<1>5. CASE /\ ~ (required =< m.size_int)
           /\ ~ (required > MaxSize \/ m.size_int >= MaxSize \/ size > memory)
  <2>1. check_size(m, size_int, memory) = [status |-> 0, m |-> Grow(m, size)]
    BY <1>3, <1>5
  <2>2. larger \subseteq Nat
    <3>1. \A k \in 1 .. 12 : 2 ^ k \in Int
      OBVIOUS
    <3>2. ASSUME NEW s \in larger PROVE s \in Nat
      <4>1. PICK k \in 1 .. 12 : s = m.size_int * 2 ^ k /\ s >= required
        OBVIOUS
      <4>2. PICK power \in Int : power = 2 ^ k
        BY <3>1
      <4>3. s \in Int
        BY <1>1, <4>1, <4>2
      <4> QED BY <1>2, <4>1, <4>3
    <3> QED BY <3>2
  <2>3. larger # {}
    <3>1. 2 ^ 12 = 4096
      OBVIOUS
    <3>2. m.size_int * 2 ^ 12 >= required
      BY <1>1, <1>2, <1>5, <3>1, Constants
    <3> QED BY <3>2
  <2>4. size \in larger
    <3> HIDE DEF larger
    <3>1. \E s \in larger : \A t \in larger : s =< t
      BY <2>2, <2>3, Least
    <3> QED BY <3>1 DEF Min
  <2>5. size \in Nat /\ size >= required
    BY <2>2, <2>4
  <2>6. size =< MaxSize
    <3>1. memory \in Nat /\ memory =< MaxSize
      BY Constants DEF Memory
    <3> HIDE DEF size, required
    <3>2. ~ (size > memory)
      BY <1>5
    <3> QED BY <2>5, <3>1, <3>2, Constants
  <2> HIDE DEF size, required
  <2>7. PICK n : n = Grow(m, size)
    OBVIOUS
  <2>8. BufferOK(n) /\ Keeps(m, n) /\ n.size_int = size /\ n.count = m.count
    BY <1>1, <1>2, <1>5, <2>5, <2>6, <2>7, GrowKeeps
  <2>9. Free(n) = Free(m)
    <3>1. m.count \in 0 .. m.count
      BY <1>1
    <3> QED BY <2>8, <3>1 DEF Free, Keeps
  <2> QED BY <1>2, <2>1, <2>5, <2>7, <2>8, <2>9
<1>6. CASE /\ ~ (required =< m.size_int)
           /\ required > MaxSize \/ m.size_int >= MaxSize \/ size > memory
  BY <1>3, <1>6
<1> QED BY <1>4, <1>5, <1>6

-----------------------------------------------------------------------------
(* Adding *)

\* The buffer with the entry in its place.
Put(n, key, size, v) ==
  LET data == Free(n)
  IN  [n EXCEPT
         !.count = @ + 1,
         !.words = [w \in DOMAIN n.words |->
                      IF w = Slot(n, n.count) - 1 THEN <<"offset", data + EntryWords(size)>>
                      ELSE IF w \in data .. data + 2 + DataWords(size)
                           THEN EntryWord(key, size, v, w - data)
                           ELSE n.words[w]]]

\* The entry is put behind the others and before the index.
LEMMA PutKeeps ==
  ASSUME NEW m, BufferOK(m), NEW key \in DOMAIN KeyType, NEW size \in Nat, NEW v \in Payloads,
         Free(m) + m.count + 2 + EntryWords(size) =< m.size_int
  PROVE  LET n == Put(m, key, size, v)
         IN  /\ BufferOK(n) /\ Keeps(m, n) /\ n.count = m.count + 1
             /\ n.channel = m.channel
             /\ EntryIs(n, m.count, key, size, v)
<1> DEFINE data  == Free(m)
           index == m.size_int - m.count - 2
           words == [w \in DOMAIN m.words |->
                       IF w = Slot(m, m.count) - 1 THEN <<"offset", data + EntryWords(size)>>
                       ELSE IF w \in data .. data + 2 + DataWords(size)
                            THEN EntryWord(key, size, v, w - data)
                            ELSE m.words[w]]
<1>1. PICK n : n = Put(m, key, size, v)
  OBVIOUS
<1>2. /\ m = [channel |-> m.channel, size_int |-> m.size_int, count |-> m.count,
              words |-> m.words]
      /\ m.count \in Nat /\ m.size_int \in Nat /\ DefaultSize =< m.size_int
      /\ m.size_int =< MaxSize /\ DOMAIN m.words = 0 .. m.size_int - 1
      /\ m.count \in 0 .. m.count
  BY DEF BufferOK, Shape
<1>3. data \in Nat /\ HeaderWords =< data /\ Slot(m, m.count) - 1 = index
  BY <1>2 DEF BufferOK, Ordered, Free, Slot
<1>4. /\ DataWords(size) \in Nat /\ EntryWords(size) = DataWords(size) + 3
      /\ EntryWords(size) \in Nat
  BY Lengths
<1>5. PICK length \in Nat : length = DataWords(size)
  BY <1>4
<1>6. /\ index \in 0 .. m.size_int - 1
      /\ data + 2 + length < index
  <2>1. data + m.count + 2 + (length + 3) =< m.size_int
    BY <1>4, <1>5
  <2> HIDE DEF data
  <2> QED BY <1>2, <1>3, <2>1
<1>7. /\ n = [channel |-> m.channel, size_int |-> m.size_int, count |-> m.count + 1,
              words |-> words]
      /\ n.words = words /\ n.size_int = m.size_int /\ n.count = m.count + 1
      /\ n.channel = m.channel
  <2>1. n = [m EXCEPT !.count = @ + 1, !.words = words]
    BY <1>1 DEF Put
  <2> HIDE DEF words
  <2> QED BY <1>2, <2>1
<1>8. /\ DOMAIN words = 0 .. m.size_int - 1
      /\ words[index] = <<"offset", data + length + 3>>
      /\ \A w \in 0 .. m.size_int - 1 :
           w # index =>
             words[w] = IF w \in data .. data + 2 + length THEN EntryWord(key, size, v, w - data)
                        ELSE m.words[w]
  <2>1. data + EntryWords(size) = data + length + 3
    BY <1>3, <1>4, <1>5
  <2> HIDE DEF data, index
  <2> QED BY <1>2, <1>3, <1>5, <1>6, <2>1
<1> HIDE DEF words
<1>9. Shape(n)
  BY <1>2, <1>7, <1>8 DEF Shape
<1>10. Keeps(m, n)
  <2>1. ASSUME NEW i \in 0 .. m.count PROVE OffsetAt(n, i) = OffsetAt(m, i)
    <3>1. PICK w : w = m.size_int - i - 1
      OBVIOUS
    <3> HIDE DEF data
    <3>2. w \in 0 .. m.size_int - 1 /\ w > index /\ w # index /\ w \notin data .. data + 2 + length
      BY <1>2, <1>3, <1>6, <3>1
    <3>3. n.words[w] = m.words[w]
      BY <1>7, <1>8, <3>2
    <3> QED BY <1>7, <3>1, <3>3 DEF OffsetAt, Slot
  <2>2. ASSUME NEW w \in 0 .. Free(m) - 1 PROVE n.words[w] = m.words[w]
    <3>1. w \in 0 .. data - 1
      OBVIOUS
    <3> HIDE DEF data
    <3>2. w \in 0 .. m.size_int - 1 /\ w # index /\ w \notin data .. data + 2 + length
      BY <1>2, <1>3, <1>6, <3>1
    <3> QED BY <1>7, <1>8, <3>2
  <2> QED BY <2>1, <2>2 DEF Keeps
<1>11. /\ OffsetAt(n, m.count) = data
       /\ OffsetAt(n, m.count + 1) = data + EntryWords(size)
  <2>1. OffsetAt(n, m.count) = data
    BY <1>2, <1>10 DEF Keeps, Free
  <2>2. Slot(n, m.count + 1) = index
    BY <1>2, <1>7 DEF Slot
  <2>3. OffsetAt(n, m.count + 1) = data + length + 3
    BY <1>7, <1>8, <2>2 DEF OffsetAt
  <2> QED BY <1>3, <1>4, <1>5, <2>1, <2>3
<1>12. EntryIs(n, m.count, key, size, v)
  <2>1. ASSUME NEW k \in 0 .. 2 + length
        PROVE  n.words[data + k] = EntryWord(key, size, v, k)
    <3> HIDE DEF data
    <3>1. PICK w : w = data + k
      OBVIOUS
    <3>2. w \in 0 .. m.size_int - 1 /\ w # index /\ w \in data .. data + 2 + length /\ w - data = k
      BY <1>2, <1>3, <1>6, <3>1
    <3> QED BY <1>7, <1>8, <3>1, <3>2
  <2>2. /\ n.words[data] = <<"key", key>>
        /\ n.words[data + 1] = <<"type", KeyType[key]>>
        /\ n.words[data + 2] = <<"size", size>>
    <3>1. 0 \in 0 .. 2 + length /\ 1 \in 0 .. 2 + length /\ 2 \in 0 .. 2 + length
          /\ data + 0 = data
      BY <1>3, <1>5
    <3>2. /\ EntryWord(key, size, v, 0) = <<"key", key>>
          /\ EntryWord(key, size, v, 1) = <<"type", KeyType[key]>>
          /\ EntryWord(key, size, v, 2) = <<"size", size>>
      BY DEF EntryWord
    <3> HIDE DEF data
    <3> QED BY <2>1, <3>1, <3>2
  <2>3. \A k \in 3 .. 2 + length : n.words[data + k] = <<v, k>>
    <3> SUFFICES ASSUME NEW k \in 3 .. 2 + length PROVE n.words[data + k] = <<v, k>>
      OBVIOUS
    <3>1. k \in 0 .. 2 + length /\ k # 0 /\ k # 1 /\ k # 2
      OBVIOUS
    <3>2. EntryWord(key, size, v, k) = <<v, k>>
      BY <3>1 DEF EntryWord
    <3> HIDE DEF data
    <3> QED BY <2>1, <3>1, <3>2
  <2> HIDE DEF data
  <2> QED BY <1>5, <1>11, <2>2, <2>3 DEF EntryIs
<1>13. \A i \in 0 .. m.count - 1 : SizeAt(n, i) = SizeAt(m, i)
  BY <1>10, KeepsEntries
<1>14. SizeAt(n, m.count) = size
  BY <1>12, EntrySize
<1>15. \A i \in 0 .. m.count : OffsetAt(n, i) = OffsetAt(m, i)
  BY <1>10 DEF Keeps
<1>16. Free(n) = data + EntryWords(size)
  BY <1>7, <1>11 DEF Free
<1>17. Ordered(n)
  <2>1. \A i \in 0 .. n.count : OffsetAt(n, i) \in Nat /\ HeaderWords =< OffsetAt(n, i)
    <3> SUFFICES ASSUME NEW i \in 0 .. m.count + 1
                 PROVE  OffsetAt(n, i) \in Nat /\ HeaderWords =< OffsetAt(n, i)
      BY <1>7
    <3>1. CASE i \in 0 .. m.count
      BY <1>15, <3>1 DEF BufferOK, Ordered
    <3>2. CASE i = m.count + 1
      BY <1>3, <1>4, <1>11, <3>2, Constants
    <3> QED BY <1>2, <3>1, <3>2
  <2>2. Free(n) + n.count + 1 =< n.size_int
    <3>1. Free(n) = data + (length + 3)
      BY <1>4, <1>5, <1>16
    <3>2. PICK d \in Nat : d = data
      BY <1>3
    <3>3. d + 2 + length < m.size_int - m.count - 2
      BY <1>6, <3>2
    <3>4. d + (length + 3) + (m.count + 1) + 1 =< m.size_int
      BY <1>2, <3>3
    <3> QED BY <1>7, <3>1, <3>2, <3>4
  <2>3. ASSUME NEW i \in 0 .. n.count, NEW j \in 0 .. n.count, i < j
        PROVE  OffsetAt(n, i) + EntryWords(SizeAt(n, i)) =< OffsetAt(n, j)
    <3>1. i \in 0 .. m.count /\ j \in 0 .. m.count + 1
      BY <1>2, <1>7, <2>3
    <3>2. CASE j \in 0 .. m.count
      <4>1. i \in 0 .. m.count - 1
        BY <1>2, <2>3, <3>2
      <4>2. OffsetAt(m, i) + EntryWords(SizeAt(m, i)) =< OffsetAt(m, j)
        BY <2>3, <3>1, <3>2 DEF BufferOK, Ordered
      <4> QED BY <1>13, <1>15, <3>1, <3>2, <4>1, <4>2
    <3>3. CASE j = m.count + 1 /\ i = m.count
      <4>1. OffsetAt(n, i) = data /\ SizeAt(n, i) = size /\ OffsetAt(n, j) = data + EntryWords(size)
        BY <1>11, <1>14, <3>3
      <4> HIDE DEF data
      <4> QED BY <1>3, <1>4, <4>1
    <3>4. CASE j = m.count + 1 /\ i \in 0 .. m.count - 1
      <4>1. OffsetAt(m, i) + EntryWords(SizeAt(m, i)) =< data
        BY <1>2, <3>1, <3>4 DEF BufferOK, Ordered, Free
      <4>2. /\ OffsetAt(n, i) = OffsetAt(m, i) /\ SizeAt(n, i) = SizeAt(m, i)
            /\ OffsetAt(n, j) = data + EntryWords(size)
        BY <1>11, <1>13, <1>15, <3>1, <3>4
      <4>3. OffsetAt(m, i) \in Nat /\ EntryWords(SizeAt(m, i)) \in Nat
        <5>1. SizeAt(m, i) \in Nat /\ OffsetAt(m, i) \in Nat
          BY <3>4, EntryWithin
        <5> QED BY <5>1, Lengths
      <4> HIDE DEF data
      <4> QED BY <1>3, <1>4, <4>1, <4>2, <4>3
    <3> QED BY <1>2, <3>1, <3>2, <3>3, <3>4
  <2> QED BY <2>1, <2>2, <2>3 DEF Ordered
<1>18. Spread(n)
  <2> SUFFICES ASSUME NEW i \in 0 .. n.count, \A j \in 0 .. i - 1 : SizeAt(n, j) > 0
               PROVE  HeaderWords + 4 * i =< OffsetAt(n, i)
    BY DEF Spread
  <2>1. i \in 0 .. m.count + 1
    BY <1>7
  <2>2. CASE i \in 0 .. m.count
    <3>1. \A j \in 0 .. i - 1 : SizeAt(m, j) > 0
      BY <1>2, <1>13, <2>2
    <3> QED BY <1>15, <2>2, <3>1 DEF BufferOK, Spread
  <2>3. CASE i = m.count + 1
    <3>1. \A j \in 0 .. m.count - 1 : SizeAt(m, j) > 0
      BY <1>2, <1>13, <2>3
    <3>2. HeaderWords + 4 * m.count =< data
      BY <1>2, <3>1 DEF BufferOK, Spread, Free
    <3>3. size > 0
      BY <1>2, <1>14, <2>3
    <3>4. EntryWords(size) >= 4
      BY <3>3, Lengths
    <3>5. OffsetAt(n, i) = data + EntryWords(size)
      BY <1>11, <2>3
    <3>6. PICK d \in Nat : d = data
      BY <1>3
    <3>7. HeaderWords + 4 * (m.count + 1) =< d + EntryWords(size)
      <4>1. PICK e \in Nat, c \in Nat : e = EntryWords(size) /\ c = m.count
        BY <1>2, <1>4
      <4>2. 4 + 4 * c =< d /\ e >= 4
        BY <3>2, <3>4, <3>6, <4>1, Constants
      <4>3. 4 + 4 * (c + 1) =< d + e
        BY <4>2
      <4> QED BY <4>1, <4>3, Constants
    <3> QED BY <2>3, <3>5, <3>6, <3>7
  <2> QED BY <1>2, <2>1, <2>2, <2>3
<1>19. Filled(n)
  <2> SUFFICES ASSUME NEW i \in 0 .. n.count - 1
               PROVE  \E k \in DOMAIN KeyType, s \in Nat, u \in Payloads : EntryIs(n, i, k, s, u)
    BY DEF Filled
  <2>1. i \in 0 .. m.count - 1 \/ i = m.count
    BY <1>2, <1>7
  <2>2. CASE i \in 0 .. m.count - 1
    <3>1. PICK k \in DOMAIN KeyType, s \in Nat, u \in Payloads : EntryIs(m, i, k, s, u)
      BY <2>2 DEF BufferOK, Filled
    <3>2. EntryIs(n, i, k, s, u)
      BY <1>10, <2>2, <3>1, KeepsEntries
    <3> QED BY <3>2
  <2>3. CASE i = m.count
    BY <1>12, <2>3
  <2> QED BY <2>1, <2>2, <2>3
<1> QED BY <1>1, <1>7, <1>9, <1>10, <1>12, <1>17, <1>18, <1>19 DEF BufferOK

\* A failure leaves the buffer; otherwise the entry is behind the others.
LEMMA Stores ==
  ASSUME NEW m, BufferOK(m), NEW key \in DOMAIN KeyType, NEW size \in Nat, NEW v \in Payloads,
         NEW memory \in Memory
  PROVE  LET done == add_metadata(m, key, size, v, memory)
         IN  \/ done.status # 0 /\ done.m = m
             \/ /\ done.status = 0 /\ BufferOK(done.m) /\ Keeps(m, done.m)
                /\ done.m.count = m.count + 1
                /\ EntryIs(done.m, m.count, key, size, v)
<1>1. PICK room : room = check_size(m, EntryWords(size), memory)
  OBVIOUS
<1>2. EntryWords(size) \in Nat
  BY Lengths
<1>3. \/ room = [status |-> ENOMEM, m |-> m]
      \/ /\ room.status = 0 /\ BufferOK(room.m) /\ Keeps(m, room.m)
         /\ room.m.count = m.count
         /\ Free(room.m) + m.count + 2 + EntryWords(size) =< room.m.size_int
  BY <1>1, <1>2, RoomMade
<1>4. add_metadata(m, key, size, v, memory)
      = IF room.status # 0 THEN room ELSE [status |-> 0, m |-> Put(room.m, key, size, v)]
  BY <1>1 DEF add_metadata, Put
<1>5. CASE room = [status |-> ENOMEM, m |-> m]
  <2>1. room.status # 0 /\ room.m = m
    BY <1>5 DEF ENOMEM
  <2> QED BY <1>4, <2>1
<1>6. CASE /\ room.status = 0 /\ BufferOK(room.m) /\ Keeps(m, room.m)
           /\ room.m.count = m.count
           /\ Free(room.m) + m.count + 2 + EntryWords(size) =< room.m.size_int
  <2>1. PICK n : n = room.m
    OBVIOUS
  <2>2. PICK k : k = Put(n, key, size, v)
    OBVIOUS
  <2>3. BufferOK(n) /\ n.count = m.count /\ Keeps(m, n)
    BY <1>6, <2>1
  <2>4. /\ BufferOK(k) /\ Keeps(n, k) /\ k.count = n.count + 1
        /\ EntryIs(k, n.count, key, size, v)
    BY <1>6, <2>1, <2>2, <2>3, PutKeeps
  <2>5. Free(n) = Free(m)
    <3>1. m.count \in 0 .. m.count
      BY DEF BufferOK, Shape
    <3> QED BY <2>3, <3>1 DEF Keeps, Free
  <2>6. Keeps(m, k)
    BY <2>3, <2>4, <2>5 DEF Keeps
  <2>7. add_metadata(m, key, size, v, memory) = [status |-> 0, m |-> k]
    BY <1>4, <1>6, <2>1, <2>2
  <2> QED BY <2>3, <2>4, <2>6, <2>7
<1> QED BY <1>3, <1>5, <1>6

-----------------------------------------------------------------------------
(* What is read back *)

LEMMA ReadsBack ==
  ASSUME NEW size \in Nat, NEW v \in Payloads
  PROVE  /\ ReadAs(Image(size, v)) \in Payloads
         /\ Image(size, ReadAs(Image(size, v))) = Image(size, v)
<1> DEFINE Reads(u) == \A k \in 3 .. 2 + DataWords(size) : Image(size, v)[k] = <<u, k>>
<1>1. DOMAIN Image(size, v) = 3 .. 2 + DataWords(size)
  BY DEF Image
<1>2. ReadAs(Image(size, v))
      = IF \E u \in Payloads : Reads(u) THEN CHOOSE u \in Payloads : Reads(u) ELSE "garbage"
  BY <1>1 DEF ReadAs
<1>3. Reads(v)
  BY DEF Image
<1>4. PICK u : u = ReadAs(Image(size, v))
  OBVIOUS
<1>5. u \in Payloads /\ Reads(u)
  <2> HIDE DEF Reads
  <2> QED BY <1>2, <1>3, <1>4
<1>6. Image(size, u) = Image(size, v)
  <2>1. \A k \in 3 .. 2 + DataWords(size) : Image(size, v)[k] = <<u, k>>
    BY <1>5
  <2> QED BY <2>1 DEF Image
<1> QED BY <1>4, <1>5, <1>6

LEMMA EntryRead ==
  ASSUME NEW m, NEW i, NEW key \in DOMAIN KeyType, NEW size \in Nat, NEW v \in Payloads,
         EntryIs(m, i, key, size, v)
  PROVE  EntryAt(m, i) = [key |-> key, size |-> size, value |-> ReadAs(Image(size, v))]
<1> DEFINE at == OffsetAt(m, i)
<1>1. m.words[at][2] = key /\ m.words[at + 2][2] = size
  BY DEF EntryIs
<1>2. [k \in 3 .. 2 + DataWords(size) |-> m.words[at + k]] = Image(size, v)
  BY DEF EntryIs, Image
<1> HIDE DEF at
<1> QED BY <1>1, <1>2 DEF EntryAt, at

\* What a buffer lists has a value that reads as itself.
Readable == {e \in Listable : ReadAs(Image(e.size, e.value)) = e.value}

LEMMA ReadIsReadable ==
  ASSUME NEW key \in DOMAIN KeyType, NEW size \in Nat, NEW v \in Payloads
  PROVE  [key |-> key, size |-> size, value |-> ReadAs(Image(size, v))] \in Readable
<1>1. PICK u : u = ReadAs(Image(size, v))
  OBVIOUS
<1>2. u \in Payloads /\ ReadAs(Image(size, u)) = u
  BY <1>1, ReadsBack
<1> QED BY <1>1, <1>2 DEF Readable, Listable

LEMMA ListsReadable ==
  ASSUME NEW m, BufferOK(m)
  PROVE  EntriesOf(m) \in Seq(Readable) /\ Len(EntriesOf(m)) = m.count /\ m.count \in Nat
<1>1. m.count \in Nat
  BY DEF BufferOK, Shape
<1>2. ASSUME NEW i \in 1 .. m.count PROVE EntryAt(m, i - 1) \in Readable
  <2>1. i - 1 \in 0 .. m.count - 1
    BY <1>1
  <2>2. PICK key \in DOMAIN KeyType, size \in Nat, v \in Payloads : EntryIs(m, i - 1, key, size, v)
    BY <2>1 DEF BufferOK, Filled
  <2> QED BY <2>2, EntryRead, ReadIsReadable
<1> QED BY <1>1, <1>2 DEF EntriesOf

\* A call adds this entry behind the others, or fails and changes nothing.
LEMMA Adds ==
  ASSUME NEW m, BufferOK(m), NEW key \in DOMAIN KeyType, NEW size \in Nat, NEW v \in Payloads,
         NEW memory \in Memory
  PROVE  LET done == add_metadata(m, key, size, v, memory)
             e    == [key |-> key, size |-> size, value |-> ReadAs(Image(size, v))]
         IN  /\ BufferOK(done.m)
             /\ \/ done.status # 0 /\ done.m = m
                \/ done.status = 0 /\ EntriesOf(done.m) = Append(EntriesOf(m), e)
<1> DEFINE e == [key |-> key, size |-> size, value |-> ReadAs(Image(size, v))]
<1>1. PICK done : done = add_metadata(m, key, size, v, memory)
  OBVIOUS
<1>2. PICK n : n = done.m
  OBVIOUS
<1>3. \/ done.status # 0 /\ n = m
      \/ /\ done.status = 0 /\ BufferOK(n) /\ Keeps(m, n) /\ n.count = m.count + 1
         /\ EntryIs(n, m.count, key, size, v)
  BY <1>1, <1>2, Stores
<1>4. CASE done.status # 0 /\ n = m
  BY <1>1, <1>2, <1>4
<1>5. CASE /\ done.status = 0 /\ BufferOK(n) /\ Keeps(m, n) /\ n.count = m.count + 1
           /\ EntryIs(n, m.count, key, size, v)
  <2>1. m.count \in Nat
    BY DEF BufferOK, Shape
  <2>2. EntryAt(n, m.count) = e
    BY <1>5, EntryRead
  <2>3. \A i \in 1 .. m.count : EntryAt(n, i - 1) = EntryAt(m, i - 1)
    <3> SUFFICES ASSUME NEW i \in 1 .. m.count PROVE EntryAt(n, i - 1) = EntryAt(m, i - 1)
      OBVIOUS
    <3>1. i - 1 \in 0 .. m.count - 1
      BY <2>1
    <3> QED BY <1>5, <3>1, KeepsEntries
  <2>4. PICK old : old = EntriesOf(m)
    OBVIOUS
  <2>5. old \in Seq(Readable) /\ Len(old) = m.count
        /\ \A i \in 1 .. m.count : old[i] = EntryAt(m, i - 1)
    BY <2>4, ListsReadable DEF EntriesOf
  <2>6. PICK new : new = EntriesOf(n)
    OBVIOUS
  <2>7. new \in Seq(Readable) /\ Len(new) = m.count + 1
        /\ \A i \in 1 .. m.count + 1 : new[i] = EntryAt(n, i - 1)
    BY <1>5, <2>6, ListsReadable DEF EntriesOf
  <2> HIDE DEF e
  <2>8. \A i \in 1 .. m.count + 1 : new[i] = Append(old, e)[i]
    <3> SUFFICES ASSUME NEW i \in 1 .. m.count + 1 PROVE new[i] = Append(old, e)[i]
      OBVIOUS
    <3>1. CASE i \in 1 .. m.count
      BY <2>3, <2>5, <2>7, <3>1
    <3>2. CASE i = m.count + 1
      <4>1. i - 1 = m.count
        BY <2>1, <3>2
      <4>2. new[i] = e
        BY <2>2, <2>7, <4>1
      <4>3. Append(old, e)[Len(old) + 1] = e
        <5>1. e \in Readable
          BY ReadIsReadable DEF e
        <5> QED BY <2>5, <5>1, AppendProperties
      <4>4. i = Len(old) + 1
        BY <2>5, <3>2
      <4> QED BY <4>2, <4>3, <4>4, Zenon
    <3>3. i \in 1 .. m.count \/ i = m.count + 1
      BY <2>1
    <3> QED BY <3>1, <3>2, <3>3, Zenon
  <2>9. new = Append(old, e)
    <3>1. e \in Readable
      BY ReadIsReadable DEF e
    <3> QED BY <2>1, <2>5, <2>7, <2>8, <3>1
  <2> QED BY <1>1, <1>2, <1>5, <2>4, <2>6, <2>9 DEF e
<1> QED BY <1>3, <1>4, <1>5

-----------------------------------------------------------------------------
(* Adding the entries of another buffer *)

AddsOneByOne(done, dst, es, memory) ==
  done = [n \in 0 .. Len(es) |->
            IF n = 0 THEN [status |-> 0, m |-> dst]
            ELSE IF done[n - 1].status # 0 THEN done[n - 1]
            ELSE add_metadata(done[n - 1].m, es[n].key, es[n].size, es[n].value, memory)]

\* The recursive function in AddAll is there.
LEMMA AddAllUnfolds ==
  ASSUME NEW dst, NEW es, Len(es) \in Nat, NEW memory
  PROVE  \E done : AddsOneByOne(done, dst, es, memory)
                   /\ AddAll(dst, es, memory) = done[Len(es)].m
<1> DEFINE Next(d, n) ==
             IF d.status # 0 THEN d
             ELSE add_metadata(d.m, es[n].key, es[n].size, es[n].value, memory)
           Step(r, n) == IF n = 0 THEN [status |-> 0, m |-> dst] ELSE Next(r[n - 1], n)
           Upto == {m \in Nat : \E r : r = [n \in 0 .. m |-> Step(r, n)]}
<1>1. Len(es) \in Nat
  OBVIOUS
<1>2. 0 \in Upto
  <2> DEFINE r == [n \in 0 .. 0 |-> [status |-> 0, m |-> dst]]
  <2>1. \A n \in 0 .. 0 : Step(r, n) = [status |-> 0, m |-> dst]
    <3> HIDE DEF r, Next
    <3> QED OBVIOUS
  <2> HIDE DEF Step
  <2>2. r = [n \in 0 .. 0 |-> Step(r, n)]
    BY <2>1
  <2> HIDE DEF r
  <2> QED BY <2>2
<1> HIDE DEF Next
<1>3. ASSUME NEW k \in Nat, k \in Upto
      PROVE  k + 1 \in Upto
  <2>1. PICK r : r = [n \in 0 .. k |-> Step(r, n)]
    BY <1>3
  <2>2. \A n \in 0 .. k : r[n] = Step(r, n)
    <3> HIDE DEF Step
    <3> QED BY <2>1
  <2> DEFINE q == [n \in 0 .. k + 1 |-> IF n =< k THEN r[n] ELSE Step(r, n)]
  <2>3. \A n \in 0 .. k + 1 : q[n] = Step(q, n)
    <3> SUFFICES ASSUME NEW n \in 0 .. k + 1 PROVE q[n] = Step(q, n)
      OBVIOUS
    <3>1. n =< k => r[n] = Step(r, n)
      <4> HIDE DEF Step
      <4> QED BY <2>2
    <3>2. q[n] = Step(r, n)
      <4> HIDE DEF Step
      <4> QED BY <3>1
    <3>3. Step(q, n) = Step(r, n)
      <4>1. CASE n = 0
        <5> HIDE DEF q
        <5> QED BY <4>1
      <4>2. CASE n # 0
        <5>1. n - 1 \in 0 .. k /\ n - 1 =< k
          BY <4>2
        <5>2. q[n - 1] = r[n - 1]
          <6> HIDE DEF Step
          <6> QED BY <5>1
        <5> HIDE DEF q
        <5> QED BY <4>2, <5>2
      <4> QED BY <4>1, <4>2
    <3> HIDE DEF q, Step
    <3> QED BY <3>2, <3>3
  <2>4. q = [n \in 0 .. k + 1 |-> q[n]]
    <3> HIDE DEF Step
    <3> QED OBVIOUS
  <2> HIDE DEF q, Step
  <2>5. q = [n \in 0 .. k + 1 |-> Step(q, n)]
    BY <2>3, <2>4
  <2> QED BY <2>5
<1> HIDE DEF Upto
<1>4. Len(es) \in Upto
  <2>1. \A k \in 0 .. Len(es) - 1 : k \in Upto => k + 1 \in Upto
    BY <1>1, <1>3
  <2>2. \A k \in 0 .. Len(es) : k \in Upto
    BY <1>1, <1>2, <2>1, UpTo, Zenon
  <2> QED BY <1>1, <2>2
<1>5. \E r : r = [n \in 0 .. Len(es) |-> Step(r, n)]
  BY <1>4 DEF Upto
<1> QED BY <1>5 DEF AddAll, AddsOneByOne, Next

LEMMA OneMore ==
  ASSUME NEW S, NEW old \in Seq(S), NEW es \in Seq(S), NEW k \in 0 .. Len(es) - 1
  PROVE  /\ Append(old \o SubSeq(es, 1, k), es[k + 1]) = old \o SubSeq(es, 1, k + 1)
         /\ es[k + 1] \in S
<1>1. Len(es) \in Nat /\ k \in Nat /\ k + 1 \in 1 .. Len(es)
  BY LenProperties
<1>2. PICK part : part = SubSeq(es, 1, k)
  OBVIOUS
<1>3. PICK more : more = SubSeq(es, 1, k + 1)
  OBVIOUS
<1>4. /\ part \in Seq(S) /\ Len(part) = k /\ \A i \in 1 .. k : part[i] = es[i]
      /\ more \in Seq(S) /\ Len(more) = k + 1 /\ \A i \in 1 .. k + 1 : more[i] = es[i]
  BY <1>1, <1>2, <1>3
<1>5. es[k + 1] \in S
  BY <1>1
<1>6. PICK x \in S : x = es[k + 1]
  BY <1>5
<1>7. PICK all : all = old \o part
  OBVIOUS
<1>8. PICK o \in Nat : o = Len(old)
  BY LenProperties
<1>9. /\ all \in Seq(S) /\ Len(all) = o + k
      /\ \A i \in 1 .. o + k : all[i] = IF i =< o THEN old[i] ELSE part[i - o]
  <2>1. part \in Seq(S) /\ Len(part) = k
    BY <1>4
  <2>2. /\ old \o part \in Seq(S) /\ Len(old \o part) = Len(old) + Len(part)
        /\ \A i \in 1 .. Len(old) + Len(part) :
             (old \o part)[i] = IF i =< Len(old) THEN old[i] ELSE part[i - Len(old)]
    BY <2>1, ConcatProperties
  <2> QED BY <1>7, <1>8, <2>1, <2>2, Zenon
<1>10. PICK left : left = Append(all, x)
  OBVIOUS
<1>11. /\ left \in Seq(S) /\ Len(left) = o + k + 1 /\ left[o + k + 1] = x
       /\ \A i \in 1 .. o + k : left[i] = all[i]
  BY <1>1, <1>6, <1>9, <1>10, AppendProperties
<1>12. PICK right : right = old \o more
  OBVIOUS
<1>13. /\ right \in Seq(S) /\ Len(right) = o + k + 1
       /\ \A i \in 1 .. o + k + 1 : right[i] = IF i =< o THEN old[i] ELSE more[i - o]
  <2>1. PICK l \in Nat : l = k + 1
    BY <1>1
  <2>2. more \in Seq(S) /\ Len(more) = l
    BY <1>4, <2>1
  <2>3. /\ right \in Seq(S) /\ Len(right) = o + l
        /\ \A i \in 1 .. o + l : right[i] = IF i =< o THEN old[i] ELSE more[i - o]
    BY <1>8, <1>12, <2>2, ConcatProperties
  <2>4. o + l = o + k + 1
    BY <1>1, <2>1
  <2> QED BY <2>3, <2>4
<1>14. \A i \in 1 .. o + k + 1 : left[i] = right[i]
  <2> SUFFICES ASSUME NEW i \in 1 .. o + k + 1 PROVE left[i] = right[i]
    OBVIOUS
  <2>1. CASE i =< o
    BY <1>1, <1>9, <1>11, <1>13, <2>1
  <2>2. CASE i > o /\ i =< o + k
    <3>1. i - o \in 1 .. k
      BY <1>1, <2>2
    <3>2. part[i - o] = more[i - o]
      BY <1>1, <1>4, <3>1
    <3> QED BY <1>1, <1>9, <1>11, <1>13, <2>2, <3>2
  <2>3. CASE i = o + k + 1
    <3>1. i - o = k + 1 /\ k + 1 \in 1 .. k + 1 /\ ~ (i =< o)
      BY <1>1, <2>3
    <3>2. right[i] = more[k + 1]
      BY <1>13, <3>1
    <3>3. more[k + 1] = x
      BY <1>4, <1>6, <3>1
    <3> QED BY <1>11, <2>3, <3>2, <3>3
  <2> QED BY <1>1, <2>1, <2>2, <2>3
<1>15. left = right
  BY <1>1, <1>11, <1>13, <1>14, SeqEqual
<1> QED BY <1>2, <1>3, <1>6, <1>7, <1>10, <1>12, <1>15

\* The call ends at the first entry that does not fit.
LEMMA AppendsPart ==
  ASSUME NEW dst, BufferOK(dst), NEW es \in Seq(Readable), NEW memory \in Memory
  PROVE  /\ BufferOK(AddAll(dst, es, memory))
         /\ \E n \in 0 .. Len(es) :
              EntriesOf(AddAll(dst, es, memory)) = EntriesOf(dst) \o SubSeq(es, 1, n)
<1>2. Len(es) \in Nat
  BY LenProperties
<1>1. PICK done : AddsOneByOne(done, dst, es, memory)
                  /\ AddAll(dst, es, memory) = done[Len(es)].m
  BY <1>2, AddAllUnfolds
<1>3. PICK old : old = EntriesOf(dst)
  OBVIOUS
<1>4. old \in Seq(Readable)
  BY <1>3, ListsReadable
<1> DEFINE Part(d, k) == \E n \in 0 .. k : /\ EntriesOf(d.m) = old \o SubSeq(es, 1, n)
                                           /\ d.status = 0 => n = k
           Good == {k \in 0 .. Len(es) : BufferOK(done[k].m) /\ Part(done[k], k)}
<1>5. 0 \in Good
  <2>1. done[0] = [status |-> 0, m |-> dst]
    <3>1. 0 \in 0 .. Len(es)
      BY <1>2
    <3> QED BY <1>1, <3>1, Zenon DEF AddsOneByOne
  <2>2. old = old \o SubSeq(es, 1, 0)
    <3>1. SubSeq(es, 1, 0) = <<>>
      BY <1>2
    <3> QED BY <1>4, <3>1
  <2>3. 0 \in 0 .. 0 /\ EntriesOf(done[0].m) = old \o SubSeq(es, 1, 0)
    BY <1>3, <2>1, <2>2
  <2>4. Part(done[0], 0)
    BY <2>3
  <2>5. done[0].m = dst
    BY <2>1
  <2>6. BufferOK(done[0].m)
    BY <2>5
  <2> HIDE DEF Part
  <2> QED BY <1>2, <2>4, <2>6
<1>6. ASSUME NEW k \in 0 .. Len(es) - 1, k \in Good
      PROVE  k + 1 \in Good
  <2>1. k + 1 \in 0 .. Len(es) /\ k + 1 # 0 /\ (k + 1) - 1 = k
    BY <1>2
  <2>2. PICK d : d = done[k]
    OBVIOUS
  <2>3. PICK e : e = es[k + 1]
    OBVIOUS
  <2>4. BufferOK(d.m) /\ Part(d, k)
    BY <1>6, <2>2
  <2>5. done[k + 1] = IF d.status # 0 THEN d ELSE add_metadata(d.m, e.key, e.size, e.value, memory)
    BY <1>1, <2>1, <2>2, <2>3 DEF AddsOneByOne
  <2>6. PICK n \in 0 .. k : EntriesOf(d.m) = old \o SubSeq(es, 1, n) /\ (d.status = 0 => n = k)
    BY <2>4
  <2>7. CASE d.status # 0
    <3>1. done[k + 1] = d
      BY <2>5, <2>7
    <3>2. n \in 0 .. k + 1
      OBVIOUS
    <3> QED BY <2>1, <2>4, <2>6, <2>7, <3>1, <3>2
  <2>8. CASE d.status = 0
    <3>1. PICK f : f = add_metadata(d.m, e.key, e.size, e.value, memory)
      OBVIOUS
    <3>2. done[k + 1] = f
      BY <2>5, <2>8, <3>1
    <3>3. /\ Append(old \o SubSeq(es, 1, k), e) = old \o SubSeq(es, 1, k + 1)
          /\ e \in Readable
      BY <1>4, <2>3, OneMore
    <3>4. /\ e.key \in DOMAIN KeyType /\ e.size \in Nat /\ e.value \in Payloads
          /\ e = [key |-> e.key, size |-> e.size, value |-> ReadAs(Image(e.size, e.value))]
      BY <3>3 DEF Readable, Listable
    <3>5. /\ BufferOK(f.m)
          /\ \/ f.status # 0 /\ f.m = d.m
             \/ f.status = 0 /\ EntriesOf(f.m) = Append(EntriesOf(d.m), e)
      <4>1. PICK key \in DOMAIN KeyType, size \in Nat, v \in Payloads :
              key = e.key /\ size = e.size /\ v = e.value
        BY <3>4
      <4>2. f = add_metadata(d.m, key, size, v, memory)
        BY <3>1, <4>1
      <4>3. e = [key |-> key, size |-> size, value |-> ReadAs(Image(size, v))]
        BY <3>4, <4>1
      <4>4. PICK m : m = d.m
        OBVIOUS
      <4>5. BufferOK(m) /\ f = add_metadata(m, key, size, v, memory)
        BY <2>4, <4>2, <4>4
      <4>6. /\ BufferOK(f.m)
            /\ \/ f.status # 0 /\ f.m = m
               \/ f.status = 0 /\ EntriesOf(f.m) = Append(EntriesOf(m), e)
        BY <4>3, <4>5, Adds
      <4> QED BY <4>4, <4>6
    <3>6. n = k /\ EntriesOf(d.m) = old \o SubSeq(es, 1, k)
      BY <2>6, <2>8
    <3>7. CASE f.status # 0 /\ f.m = d.m
      <4>1. k \in 0 .. k + 1
        OBVIOUS
      <4>2. Part(f, k + 1)
        BY <3>6, <3>7, <4>1
      <4> QED BY <2>1, <3>2, <3>5, <4>2
    <3>8. CASE f.status = 0 /\ EntriesOf(f.m) = Append(EntriesOf(d.m), e)
      <4>1. k + 1 \in 0 .. k + 1
        OBVIOUS
      <4>2. EntriesOf(f.m) = old \o SubSeq(es, 1, k + 1)
        BY <3>3, <3>6, <3>8
      <4>3. Part(f, k + 1)
        BY <4>1, <4>2
      <4> QED BY <2>1, <3>2, <3>5, <4>3
    <3> QED BY <3>5, <3>7, <3>8
  <2> QED BY <2>7, <2>8
<1> HIDE DEF Good
<1>7. Len(es) \in Good
  <2>1. \A k \in 0 .. Len(es) - 1 : k \in Good => k + 1 \in Good
    BY <1>6
  <2>2. \A k \in 0 .. Len(es) : k \in Good
    BY <1>2, <1>5, <2>1, UpTo, Zenon
  <2> QED BY <1>2, <2>2
<1> QED BY <1>1, <1>3, <1>7 DEF Good

-----------------------------------------------------------------------------
(* radio_metadata_check() *)

LEMMA CheckPasses ==
  ASSUME NEW m, BufferOK(m), \A i \in 0 .. m.count - 1 : SizeAt(m, i) > 0
  PROVE  radio_metadata_check(m)
<1>1. /\ m.count \in Nat /\ m.size_int \in Nat /\ m.size_int =< MaxSize
      /\ m.count \in 0 .. m.count
  BY DEF BufferOK, Shape
<1>2. PICK free \in Nat : free = Free(m)
  BY <1>1 DEF BufferOK, Ordered, Free
<1>3. free + m.count + 1 =< m.size_int
  BY <1>2 DEF BufferOK, Ordered
<1>4. m.count * MinEntryWords + m.count + 1 + HeaderWords =< m.size_int
  <2>1. 4 + 4 * m.count =< free
    BY <1>1, <1>2, Constants DEF BufferOK, Spread, Free
  <2> QED BY <1>1, <1>3, <2>1, Constants
<1>5. ASSUME NEW i \in 0 .. m.count - 1
      PROVE  LET at == CheckedOffset(m, i)
                 key == m.words[at][2]
             IN  /\ at # 0
                 /\ key \in DOMAIN KeyType
                 /\ m.words[at + 1] = <<"type", KeyType[key]>>
                 /\ 4 * at + EntryHeaderBytes + m.words[at + 2][2] =< 4 * OffsetAt(m, i + 1)
  <2>1. PICK key \in DOMAIN KeyType, size \in Nat, v \in Payloads : EntryIs(m, i, key, size, v)
    BY DEF BufferOK, Filled
  <2>2. SizeAt(m, i) = size
    BY <2>1, EntrySize
  <2>3. size > 0
    BY <2>2
  <2>4. PICK length \in Nat : length = EntryWords(size)
    BY Lengths
  <2>5. 4 * length >= size + 12 /\ length >= 4
    BY <2>3, <2>4, Lengths
  <2>6. PICK at \in Nat : at = OffsetAt(m, i)
    BY EntryWithin
  <2>7. at + length =< free
    BY <1>2, <2>2, <2>4, <2>6, EntryWithin, Lengths
  <2>8. HeaderWords =< at
    BY <1>1, <2>6 DEF BufferOK, Ordered
  <2>9. CheckedOffset(m, i) = at /\ at # 0
    <3>1. at =< m.size_int - m.count - 1 - 4
      BY <1>1, <1>3, <2>5, <2>7
    <3> QED BY <1>1, <2>6, <2>8, <3>1, Constants DEF CheckedOffset
  <2>10. /\ m.words[at] = <<"key", key>>
         /\ m.words[at + 1] = <<"type", KeyType[key]>>
         /\ m.words[at + 2] = <<"size", size>>
         /\ OffsetAt(m, i + 1) = at + length
    BY <2>1, <2>4, <2>6 DEF EntryIs
  <2>11. 4 * at + EntryHeaderBytes + size =< 4 * OffsetAt(m, i + 1)
    BY <2>5, <2>10, Constants
  <2> QED BY <2>9, <2>10, <2>11
<1> QED BY <1>1, <1>4, <1>5 DEF radio_metadata_check

-----------------------------------------------------------------------------
(* The calls *)

LEMMA EmptyInOrder ==
  ASSUME NEW channel
  PROVE  BufferOK(EmptyBuffer(channel)) /\ EntriesOf(EmptyBuffer(channel)) = <<>>
<1> DEFINE words == [w \in 0 .. DefaultSize - 1 |->
                       IF w = DefaultSize - 1 THEN <<"offset", HeaderWords>> ELSE Junk]
<1>1. PICK m : m = EmptyBuffer(channel)
  OBVIOUS
<1>2. /\ m = [channel |-> channel, size_int |-> DefaultSize, count |-> 0, words |-> words]
      /\ DOMAIN words = 0 .. DefaultSize - 1
      /\ words[DefaultSize - 1] = <<"offset", HeaderWords>>
  BY <1>1, Constants DEF EmptyBuffer
<1> HIDE DEF words
<1>3. Shape(m) /\ m.count = 0 /\ m.size_int = DefaultSize /\ m.words = words
  BY <1>2, Constants DEF Shape
<1>4. OffsetAt(m, 0) = HeaderWords
  <2>1. Slot(m, 0) = DefaultSize - 1
    BY <1>3, Constants DEF Slot
  <2> QED BY <1>2, <1>3, <2>1 DEF OffsetAt
<1>5. Ordered(m)
  BY <1>3, <1>4, Constants DEF Ordered, Free
<1>6. Spread(m)
  BY <1>3, <1>4, Constants DEF Spread
<1>7. Filled(m)
  BY <1>3 DEF Filled
<1>8. BufferOK(m)
  BY <1>3, <1>5, <1>6, <1>7 DEF BufferOK
<1>9. EntriesOf(m) = <<>>
  <2>1. PICK s : s = EntriesOf(m)
    OBVIOUS
  <2>2. s \in Seq(Readable) /\ Len(s) = 0
    BY <1>3, <1>8, <2>1, ListsReadable
  <2> QED BY <2>1, <2>2, EmptySeq
<1> QED BY <1>1, <1>8, <1>9

\* The channel is none of the entries' business.
LEMMA ChannelFree ==
  ASSUME NEW m, BufferOK(m), NEW channel
  PROVE  LET n == [m EXCEPT !.channel = channel]
         IN  BufferOK(n) /\ EntriesOf(n) = EntriesOf(m)
<1>1. PICK n : n = [m EXCEPT !.channel = channel]
  OBVIOUS
<1>2. Shape(m)
  BY DEF BufferOK
<1>3. /\ n = [channel |-> n.channel, size_int |-> n.size_int, count |-> n.count,
              words |-> n.words]
      /\ n.size_int = m.size_int /\ n.count = m.count /\ n.words = m.words
  BY <1>1, <1>2 DEF Shape
<1>4. Shape(n)
  BY <1>2, <1>3 DEF Shape
<1>5. Keeps(m, n)
  BY <1>3 DEF Keeps, OffsetAt, Slot
<1>6. m.size_int =< n.size_int
  BY <1>2, <1>3 DEF Shape
<1>7. BufferOK(n)
  BY <1>3, <1>4, <1>5, <1>6, KeepsOrder
<1>8. EntriesOf(n) = EntriesOf(m)
  <2>1. m.count \in Nat
    BY <1>2 DEF Shape
  <2>2. \A i \in 1 .. m.count : EntryAt(n, i - 1) = EntryAt(m, i - 1)
    <3> SUFFICES ASSUME NEW i \in 1 .. m.count PROVE EntryAt(n, i - 1) = EntryAt(m, i - 1)
      OBVIOUS
    <3>1. i - 1 \in 0 .. m.count - 1
      BY <2>1
    <3> QED BY <1>5, <3>1, KeepsEntries
  <2> QED BY <1>3, <2>2 DEF EntriesOf
<1> QED BY <1>1, <1>7, <1>8

\* What a pointer of the client shows.
ListOf(m) == IF m = NoBuffer THEN NoBuffer ELSE EntriesOf(m)

RadioInv ==
  /\ metadata = [p \in Buffers |-> metadata[p]]
  /\ \A p \in Buffers : metadata[p] = NoBuffer \/ BufferOK(metadata[p])

LEMMA OnePointer ==
  ASSUME RadioInv, NEW p \in Buffers, NEW m, m = NoBuffer \/ BufferOK(m),
         metadata' = [metadata EXCEPT ![p] = m]
  PROVE  RadioInv' /\ metadata'[p] = m /\ \A q \in Buffers \ {p} : metadata'[q] = metadata[q]
BY DEF RadioInv

LEMMA AddEntryLists ==
  ASSUME RadioInv, NEW p \in Buffers, NEW type, NEW key \in Keys, NEW size \in Nat, NEW valid,
         AddEntry(p, type, key, size, valid)
  PROVE  \E m : \E e \in Readable :
           /\ metadata[p] # NoBuffer /\ BufferOK(metadata[p]) /\ BufferOK(m)
           /\ metadata' = [metadata EXCEPT ![p] = m]
           /\ EntriesOf(m) \in {EntriesOf(metadata[p]), Append(EntriesOf(metadata[p]), e)}
<1>1. PICK v \in Payloads, memory \in Memory :
        metadata' = [metadata EXCEPT ![p] = add_metadata(@, key, size, v, memory).m]
  BY DEF AddEntry
<1>2. PICK old : old = metadata[p]
  OBVIOUS
<1>3. old # NoBuffer /\ BufferOK(old)
  BY <1>2 DEF AddEntry, RadioInv
<1>4. PICK done : done = add_metadata(old, key, size, v, memory)
  OBVIOUS
<1>5. PICK e \in Readable : e = [key |-> key, size |-> size, value |-> ReadAs(Image(size, v))]
  BY ReadIsReadable DEF Keys
<1>6. /\ BufferOK(done.m)
      /\ \/ done.status # 0 /\ done.m = old
         \/ done.status = 0 /\ EntriesOf(done.m) = Append(EntriesOf(old), e)
  BY <1>3, <1>4, <1>5, Adds DEF Keys
<1>7. EntriesOf(done.m) \in {EntriesOf(old), Append(EntriesOf(old), e)}
  BY <1>6
<1>8. metadata' = [metadata EXCEPT ![p] = done.m]
  BY <1>1, <1>2, <1>4
<1> QED BY <1>2, <1>3, <1>6, <1>7, <1>8

LEMMA AddMetadataLists ==
  ASSUME RadioInv, NEW p \in Buffers, NEW q \in Buffers, AddMetadata(p, q)
  PROVE  \E m :
           /\ BufferOK(m) /\ metadata[q] # NoBuffer /\ BufferOK(metadata[q])
           /\ metadata' = [metadata EXCEPT ![p] = m]
           /\ \E n \in 0 .. Len(EntriesOf(metadata[q])) :
                EntriesOf(m) = (IF metadata[p] = NoBuffer THEN <<>> ELSE EntriesOf(metadata[p]))
                               \o SubSeq(EntriesOf(metadata[q]), 1, n)
<1> DEFINE target == IF metadata[p] = NoBuffer THEN EmptyBuffer(metadata[q].channel)
                     ELSE [metadata[p] EXCEPT !.channel = metadata[q].channel]
           old == IF metadata[p] = NoBuffer THEN <<>> ELSE EntriesOf(metadata[p])
<1>1. PICK memory \in Memory :
        metadata' = [metadata EXCEPT ![p] = AddAll(target, EntriesOf(metadata[q]), memory)]
  BY DEF AddMetadata
<1>2. metadata[q] # NoBuffer /\ BufferOK(metadata[q])
  BY DEF AddMetadata, RadioInv
<1>3. PICK es : es = EntriesOf(metadata[q])
  OBVIOUS
<1>4. es \in Seq(Readable)
  BY <1>2, <1>3, ListsReadable
<1>5. BufferOK(target) /\ EntriesOf(target) = old
  <2>1. CASE metadata[p] = NoBuffer
    BY <2>1, EmptyInOrder
  <2>2. CASE metadata[p] # NoBuffer
    <3>1. BufferOK(metadata[p])
      BY <2>2 DEF RadioInv
    <3> QED BY <2>2, <3>1, ChannelFree
  <2> QED BY <2>1, <2>2
<1> HIDE DEF target, old
<1>6. PICK m : m = AddAll(target, es, memory)
  OBVIOUS
<1>7. BufferOK(m) /\ \E n \in 0 .. Len(es) : EntriesOf(m) = old \o SubSeq(es, 1, n)
  BY <1>4, <1>5, <1>6, AppendsPart
<1>8. metadata' = [metadata EXCEPT ![p] = m]
  BY <1>1, <1>3, <1>6
<1> QED BY <1>2, <1>3, <1>7, <1>8 DEF old

\* The sizes that the calls pass.
LEMMA AddCalls ==
  ASSUME NEW p, AddInt(p) \/ AddText(p) \/ AddRaw(p) \/ AddClock(p)
  PROVE  \E type, valid : \E key \in Keys, size \in Nat : AddEntry(p, type, key, size, valid)
<1>1. FixedSizes.int \in Nat /\ FixedSizes.clock \in Nat
  BY DEF FixedSizes
<1>2. CASE AddInt(p)
  BY <1>1, <1>2 DEF AddInt
<1>3. CASE AddText(p)
  <2>1. PICK key \in Keys, size \in TextSizes :
          AddEntry(p, "text", key, size, size - 1 < TextLenMax)
    BY <1>3 DEF AddText
  <2>2. size \in Nat
    BY Constants
  <2> QED BY <2>1, <2>2, Zenon
<1>4. CASE AddRaw(p)
  <2>1. PICK key \in Keys, size \in RawSizes : AddEntry(p, "raw", key, size, TRUE)
    BY <1>4 DEF AddRaw
  <2>2. size \in Nat
    BY Constants
  <2> QED BY <2>1, <2>2, Zenon
<1>5. CASE AddClock(p)
  BY <1>1, <1>5 DEF AddClock
<1> QED BY <1>2, <1>3, <1>4, <1>5

LEMMA RadioInvInit == RadioInit => RadioInv
BY DEF RadioInit, RadioInv

LEMMA RadioInvStep == RadioInv /\ [RadioNext]_metadata => RadioInv'
<1> SUFFICES ASSUME RadioInv, [RadioNext]_metadata PROVE RadioInv'
  OBVIOUS
<1>1. CASE UNCHANGED metadata
  BY <1>1 DEF RadioInv
<1>2. ASSUME NEW p \in Buffers, AllocateBuffer(p) PROVE RadioInv'
  BY <1>2, OnePointer, EmptyInOrder DEF AllocateBuffer
<1>3. ASSUME NEW p \in Buffers, DeallocateBuffer(p) PROVE RadioInv'
  BY <1>3, OnePointer DEF DeallocateBuffer
<1>4. ASSUME NEW p \in Buffers, AddInt(p) \/ AddText(p) \/ AddRaw(p) \/ AddClock(p)
      PROVE  RadioInv'
  BY <1>4, AddCalls, AddEntryLists, OnePointer
<1>5. ASSUME NEW p \in Buffers, NEW q \in Buffers, AddMetadata(p, q) PROVE RadioInv'
  BY <1>5, AddMetadataLists, OnePointer
<1> QED BY <1>1, <1>2, <1>3, <1>4, <1>5 DEF RadioNext

LEMMA RadioInvHolds == RadioSpec => []RadioInv
BY RadioInvInit, RadioInvStep, PTL DEF RadioSpec

\* radio_metadata_check() accepts every buffer that the calls have built, however
\* often its block has grown, unless an entry of it is empty.
THEOREM BuffersPassCheck == RadioSpec => []BuiltBuffersPassCheck
<1>1. RadioInv => BuiltBuffersPassCheck
  <2> SUFFICES ASSUME RadioInv, NEW p \in Buffers, metadata[p] # NoBuffer,
                      \A i \in 1 .. metadata[p].count : EntriesOf(metadata[p])[i].size > 0
               PROVE  radio_metadata_check(metadata[p])
    BY DEF BuiltBuffersPassCheck
  <2>1. PICK m : m = metadata[p]
    OBVIOUS
  <2>2. BufferOK(m)
    BY <2>1 DEF RadioInv
  <2>3. m.count \in Nat
    BY <2>2 DEF BufferOK, Shape
  <2>4. ASSUME NEW i \in 0 .. m.count - 1 PROVE SizeAt(m, i) > 0
    <3>1. i + 1 \in 1 .. m.count /\ (i + 1) - 1 = i
      BY <2>3
    <3>2. EntriesOf(m)[i + 1] = EntryAt(m, i)
      BY <3>1 DEF EntriesOf
    <3>3. EntryAt(m, i).size = SizeAt(m, i)
      BY DEF EntryAt, SizeAt
    <3>4. EntriesOf(m)[i + 1].size > 0
      BY <2>1, <3>1
    <3> QED BY <3>2, <3>3, <3>4
  <2> QED BY <2>1, <2>2, <2>4, CheckPasses
<1> QED BY <1>1, RadioInvHolds, PTL

-----------------------------------------------------------------------------
(* The list *)

lists == [p \in Buffers |-> IF metadata[p] = NoBuffer THEN NoBuffer ELSE EntriesOf(metadata[p])]

\* A list is not a null pointer.
LEMMA ListsAreLists ==
  ASSUME NEW m, BufferOK(m)
  PROVE  EntriesOf(m) # NoBuffer
<1>1. Readable \subseteq Listable
  BY DEF Readable
<1>2. EntriesOf(m) \in Seq(Listable)
  BY <1>1, ListsReadable
<1> QED BY <1>2, Constants

\* A step at one pointer is one of the list's, if its entry there is changed so.
LEMMA OneList ==
  ASSUME RadioInv, NEW p \in Buffers, NEW m,
         metadata' = [metadata EXCEPT ![p] = m],
         List!Change(lists[p], ListOf(m))
  PROVE  List!Next
<1>1. metadata'[p] = m /\ \A q \in Buffers \ {p} : metadata'[q] = metadata[q]
  BY DEF RadioInv
<1>2. \A q \in Buffers \ {p} : lists'[q] = lists[q]
  BY <1>1 DEF lists
<1>3. lists'[p] = ListOf(m)
  BY <1>1 DEF lists, ListOf
<1>4. List!Change(lists[p], lists'[p])
  BY <1>3
<1> QED BY <1>2, <1>4 DEF List!Next, lists

LEMMA ListStep == RadioInv /\ [RadioNext]_metadata => [List!Next]_lists
<1> SUFFICES ASSUME RadioInv, [RadioNext]_metadata PROVE [List!Next]_lists
  OBVIOUS
<1>1. CASE UNCHANGED metadata
  BY <1>1 DEF lists
<1>2. ASSUME NEW p \in Buffers, AllocateBuffer(p) PROVE List!Next
  <2>1. PICK c \in Channels : metadata' = [metadata EXCEPT ![p] = EmptyBuffer(c)]
    BY <1>2 DEF AllocateBuffer
  <2>2. lists[p] = NoBuffer
    BY <1>2 DEF AllocateBuffer, lists
  <2>3. ListOf(EmptyBuffer(c)) \in {NoBuffer, <<>>}
    BY EmptyInOrder DEF ListOf
  <2>4. List!Change(lists[p], ListOf(EmptyBuffer(c)))
    BY <2>2, <2>3 DEF List!Change
  <2> QED BY <2>1, <2>4, OneList
<1>3. ASSUME NEW p \in Buffers, DeallocateBuffer(p) PROVE List!Next
  <2>1. List!Change(lists[p], ListOf(NoBuffer))
    BY DEF List!Change, ListOf
  <2> QED BY <1>3, <2>1, OneList DEF DeallocateBuffer
<1>4. ASSUME NEW p \in Buffers, AddInt(p) \/ AddText(p) \/ AddRaw(p) \/ AddClock(p)
      PROVE  [List!Next]_lists
  <2>1. PICK m : \E e \in Readable :
          /\ metadata[p] # NoBuffer /\ BufferOK(metadata[p]) /\ BufferOK(m)
          /\ metadata' = [metadata EXCEPT ![p] = m]
          /\ EntriesOf(m) \in {EntriesOf(metadata[p]), Append(EntriesOf(metadata[p]), e)}
    BY <1>4, AddCalls, AddEntryLists
  <2>2. PICK e \in Readable :
          EntriesOf(m) \in {EntriesOf(metadata[p]), Append(EntriesOf(metadata[p]), e)}
    BY <2>1
  <2>3. PICK old : old = EntriesOf(metadata[p])
    OBVIOUS
  <2>4. lists[p] = old /\ old # NoBuffer /\ old \in Seq(Readable)
    BY <2>1, <2>3, ListsAreLists, ListsReadable DEF lists
  <2>5. ListOf(m) = EntriesOf(m) \/ ListOf(m) = NoBuffer
    BY DEF ListOf
  <2>6. CASE ListOf(m) = NoBuffer
    <3>1. List!Change(lists[p], ListOf(m))
      BY <2>6 DEF List!Change
    <3> QED BY <2>1, <3>1, OneList
  <2>7. CASE ListOf(m) = Append(old, e)
    <3>1. PICK new : new = Append(old, e)
      OBVIOUS
    <3>2. Len(new) = Len(old) + 1 /\ List!Front(new) = old /\ List!Last(new) = e
      BY <2>4, <3>1 DEF List!Front, List!Last
    <3>3. e \in Listable
      BY DEF Readable
    <3>4. List!Change(old, new)
      BY <2>4, <3>2, <3>3 DEF List!Change, Listable
    <3> QED BY <2>1, <2>4, <2>7, <3>1, <3>4, OneList
  <2>8. CASE ListOf(m) = old
    <3>1. /\ metadata'[p] = m /\ \A q \in Buffers \ {p} : metadata'[q] = metadata[q]
      BY <2>1 DEF RadioInv
    <3>2. \A q \in Buffers : lists'[q] = lists[q]
      BY <2>4, <2>8, <3>1 DEF lists, ListOf
    <3>3. lists' = lists
      BY <3>2 DEF lists
    <3> QED BY <3>3
  <2> QED BY <2>2, <2>3, <2>5, <2>6, <2>7, <2>8
<1>5. ASSUME NEW p \in Buffers, NEW q \in Buffers, AddMetadata(p, q) PROVE List!Next
  <2>1. PICK m :
          /\ BufferOK(m) /\ metadata[q] # NoBuffer /\ BufferOK(metadata[q])
          /\ metadata' = [metadata EXCEPT ![p] = m]
          /\ \E n \in 0 .. Len(EntriesOf(metadata[q])) :
               EntriesOf(m) = (IF metadata[p] = NoBuffer THEN <<>> ELSE EntriesOf(metadata[p]))
                              \o SubSeq(EntriesOf(metadata[q]), 1, n)
    BY <1>5, AddMetadataLists
  <2>2. lists[q] = EntriesOf(metadata[q]) /\ lists[q] # NoBuffer
    BY <2>1, ListsAreLists DEF lists
  <2>3. (IF lists[p] = NoBuffer THEN <<>> ELSE lists[p])
        = IF metadata[p] = NoBuffer THEN <<>> ELSE EntriesOf(metadata[p])
    BY ListsAreLists DEF lists, RadioInv
  <2>4. List!AppendedPart(IF lists[p] = NoBuffer THEN <<>> ELSE lists[p], EntriesOf(m), lists[q])
    BY <2>1, <2>2, <2>3 DEF List!AppendedPart
  <2>5. ListOf(m) = EntriesOf(m) \/ ListOf(m) = NoBuffer
    BY DEF ListOf
  <2>6. List!Change(lists[p], ListOf(m))
    BY <2>2, <2>4, <2>5 DEF List!Change, lists
  <2> QED BY <2>1, <2>6, OneList
<1> QED BY <1>1, <1>2, <1>3, <1>4, <1>5 DEF RadioNext

\* The radio metadata is to its clients a list of entries: a call adds its entry behind
\* the others or changes nothing, and an append adds a prefix of the other list.
THEOREM MetadataIsList == RadioSpec => RadioListSpec
<1>1. RadioInit => List!Init
  BY DEF RadioInit, List!Init
<1>2. RadioInv /\ [RadioNext]_metadata => [List!Next]_lists
  BY ListStep
<1> QED BY <1>1, <1>2, RadioInvHolds, PTL DEF RadioSpec, RadioListSpec, List!Spec, lists

=============================================================================
