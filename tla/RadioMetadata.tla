--------------------------- MODULE RadioMetadata ---------------------------
(* Radio metadata (radio/src/radio_metadata.c): one block of 32-bit words with  *)
(* the entries growing up behind the header and an index of offsets growing    *)
(* down from the end.  The last offset is that of the next free word.           *)
EXTENDS Integers, Sequences, SequencesExt, FiniteSetsExt

CONSTANTS
  Buffers,
  NoBuffer,      \* a null pointer
  DefaultSize,   \* RADIO_METADATA_DEFAULT_SIZE
  MaxSize,       \* RADIO_METADATA_MAX_SIZE
  KeyType,       \* metadata_key_type_table: a type for each valid key
  TextSizes,     \* strlen() + 1 of the texts added; bound of the model
  TextLenMax,    \* RADIO_METADATA_TEXT_LEN_MAX
  RawSizes,      \* bound of the model
  Payloads,      \* what a payload may be; stands for all of its bytes
  Channels

\* A block has room for its header, can be doubled, and gets to its largest size in
\* at most twelve times; a null pointer is no list of entries.
ASSUME RadioAssumption ==
  /\ DefaultSize \in Nat /\ MaxSize \in Nat
  /\ 5 =< DefaultSize /\ 2 * DefaultSize =< MaxSize /\ MaxSize =< DefaultSize * 2 ^ 12
  /\ TextSizes \subseteq Nat /\ RawSizes \subseteq Nat
  /\ NoBuffer \notin Seq([key : DOMAIN KeyType, size : Nat, value : Payloads])

VARIABLE
  metadata       \* the buffer behind each pointer of the client

-----------------------------------------------------------------------------
(* The layout.  A word says what was stored in it, so that one which is read  *)
(* as something else does not read as anything.                               *)

HeaderWords == 4                       \* sizeof(radio_metadata_buffer_t)
EntryHeaderBytes == 12                 \* sizeof(radio_metadata_entry_t)
MinEntryWords == 4                     \* 1 + sizeof(radio_metadata_entry_t), rounded up
FixedSizes == [int |-> 4, clock |-> 16]     \* int32_t and radio_metadata_clock_t
ENOMEM == -12
Junk == <<"junk", 0>>

\* The words that a payload touches.
DataWords(size) == (size + 3) \div 4

\* Slip: a payload that ends within a word loses that word.
EntryWordsRoundedDown(size) == (size + EntryHeaderBytes) \div 4

EntryWords(size) == (size + EntryHeaderBytes + 3) \div 4

\* The index, counted from the end.
Slot(m, i) == m.size_int - i - 1
OffsetAt(m, i) == m.words[Slot(m, i)][2]
Free(m) == OffsetAt(m, m.count)

\* Word k of an entry.
EntryWord(key, size, value, k) ==
  CASE k = 0 -> <<"key", key>>
    [] k = 1 -> <<"type", KeyType[key]>>
    [] k = 2 -> <<"size", size>>
    [] OTHER -> <<value, k>>

\* The value whose words these are.
ReadAs(words) ==
  LET Reads(v) == \A k \in DOMAIN words : words[k] = <<v, k>>
  IN  IF \E v \in Payloads : Reads(v) THEN CHOOSE v \in Payloads : Reads(v) ELSE "garbage"

\* Entry i, as radio_metadata_get_at_index() finds it.
EntryAt(m, i) ==
  LET at == OffsetAt(m, i)
      size == m.words[at + 2][2]
  IN  [key   |-> m.words[at][2],
       size  |-> size,
       value |-> ReadAs([k \in 3 .. 2 + DataWords(size) |-> m.words[at + k]])]

EntriesOf(m) == [i \in 1 .. m.count |-> EntryAt(m, i - 1)]

-----------------------------------------------------------------------------
(* Adding *)

\* Slip: the offset of the next free word is left behind.
GrowKeepingEnd(m, size) ==
  [m EXCEPT
     !.size_int = size,
     !.words = [w \in 0 .. size - 1 |->
                  IF w >= size - m.count THEN m.words[w - (size - m.size_int)]
                  ELSE IF w < m.size_int THEN m.words[w] ELSE Junk]]

\* realloc() and the memmove() of the index.
Grow(m, size) ==
  [m EXCEPT
     !.size_int = size,
     !.words = [w \in 0 .. size - 1 |->
                  IF w >= size - (m.count + 1) THEN m.words[w - (size - m.size_int)]
                  ELSE IF w < m.size_int THEN m.words[w] ELSE Junk]]

\* Slip: no room is counted for the additional index entry.
RequiredWithoutIndex(m, size_int) == Free(m) + m.count + 1 + size_int

Required(m, size_int) == Free(m) + m.count + 1 + 1 + size_int

\* check_size(): room for size_int more words.  realloc() gives no block of more
\* than `memory` words.
check_size(m, size_int, memory) ==
  LET required == Required(m, size_int)
      size == Min({s \in {m.size_int * 2 ^ k : k \in 1 .. 12} : s >= required})
  IN  IF required =< m.size_int THEN [status |-> 0, m |-> m]
      ELSE IF required > MaxSize \/ m.size_int >= MaxSize \/ size > memory
           THEN [status |-> ENOMEM, m |-> m]
           ELSE [status |-> 0, m |-> Grow(m, size)]

add_metadata(m, key, size, value, memory) ==
  LET room == check_size(m, EntryWords(size), memory)
      n    == room.m
      data == Free(n)
      next == data + EntryWords(size)
      index == Slot(n, n.count) - 1
  IN  IF room.status # 0 THEN room
      ELSE [status |-> 0,
            m |-> [n EXCEPT
                     !.count = @ + 1,
                     !.words = [w \in DOMAIN n.words |->
                                  IF w = index THEN <<"offset", next>>
                                  ELSE IF w \in data .. data + 2 + DataWords(size)
                                       THEN EntryWord(key, size, value, w - data)
                                       ELSE n.words[w]]]]

\* What realloc() may be able to give to a call.
Memory == {DefaultSize, 2 * DefaultSize, MaxSize}

-----------------------------------------------------------------------------
(* The calls *)

EmptyBuffer(channel) ==
  [channel |-> channel, size_int |-> DefaultSize, count |-> 0,
   words |-> [w \in 0 .. DefaultSize - 1 |->
                IF w = DefaultSize - 1 THEN <<"offset", HeaderWords>> ELSE Junk]]

RadioInit == metadata = [p \in Buffers |-> NoBuffer]

AllocateBuffer(p) ==
  /\ metadata[p] = NoBuffer
  /\ \E c \in Channels : metadata' = [metadata EXCEPT ![p] = EmptyBuffer(c)]

DeallocateBuffer(p) ==
  /\ metadata[p] # NoBuffer
  /\ metadata' = [metadata EXCEPT ![p] = NoBuffer]

\* Each radio_metadata_add_xxx() takes the keys of its type only, and returns
\* -EINVAL for other arguments.
AddEntry(p, type, key, size, valid) ==
  /\ metadata[p] # NoBuffer
  /\ KeyType[key] = type /\ valid
  /\ \E value \in Payloads, memory \in Memory :
       metadata' = [metadata EXCEPT ![p] = add_metadata(@, key, size, value, memory).m]

Keys == DOMAIN KeyType   \* others are not valid

AddInt(p) == \E key \in Keys : AddEntry(p, "int", key, FixedSizes.int, TRUE)

AddText(p) ==
  \E key \in Keys, size \in TextSizes : AddEntry(p, "text", key, size, size - 1 < TextLenMax)

AddRaw(p) == \E key \in Keys, size \in RawSizes : AddEntry(p, "raw", key, size, TRUE)

\* The time zone may be out of range.
AddClock(p) ==
  \E key \in Keys, valid \in BOOLEAN : AddEntry(p, "clock", key, FixedSizes.clock, valid)

\* The loop of radio_metadata_add_metadata(), which ends with the first failure.
AddAll(dst, entries, memory) ==
  LET done[n \in 0 .. Len(entries)] ==
        IF n = 0 THEN [status |-> 0, m |-> dst]
        ELSE IF done[n - 1].status # 0 THEN done[n - 1]
        ELSE add_metadata(done[n - 1].m, entries[n].key, entries[n].size, entries[n].value, memory)
  IN  done[Len(entries)].m

AddMetadata(p, q) ==
  /\ p # q /\ metadata[q] # NoBuffer
  /\ \E memory \in Memory :
       LET dst == IF metadata[p] = NoBuffer THEN EmptyBuffer(metadata[q].channel)
                  ELSE [metadata[p] EXCEPT !.channel = metadata[q].channel]
       IN  metadata' = [metadata EXCEPT ![p] = AddAll(dst, EntriesOf(metadata[q]), memory)]

RadioNext ==
  \E p \in Buffers :
    \/ AllocateBuffer(p) \/ DeallocateBuffer(p)
    \/ AddInt(p) \/ AddText(p) \/ AddRaw(p) \/ AddClock(p)
    \/ \E q \in Buffers : AddMetadata(p, q)

RadioSpec == RadioInit /\ [][RadioNext]_metadata

-----------------------------------------------------------------------------
(* Properties *)

\* get_entry_at_index() with its check: the offset, or 0 for NULL.
CheckedOffset(m, i) ==
  LET max == m.size_int - m.count - 1 - MinEntryWords
  IN  IF OffsetAt(m, i) < HeaderWords \/ OffsetAt(m, i) > max THEN 0 ELSE OffsetAt(m, i)

radio_metadata_check(m) ==
  /\ m.size_int =< MaxSize
  /\ m.count * MinEntryWords + m.count + 1 + HeaderWords =< m.size_int
  /\ \A i \in 0 .. m.count - 1 :
       LET at == CheckedOffset(m, i)
           key == m.words[at][2]
       IN  /\ at # 0
           /\ key \in DOMAIN KeyType
           /\ m.words[at + 1] = <<"type", KeyType[key]>>
           /\ 4 * at + EntryHeaderBytes + m.words[at + 2][2] =< 4 * OffsetAt(m, i + 1)

\* radio_metadata_check() accepts what the calls have built, through every
\* growth of the block, if no entry in it is empty.
BuiltBuffersPassCheck ==
  \A p \in Buffers :
    metadata[p] # NoBuffer /\ (\A i \in 1 .. metadata[p].count : EntriesOf(metadata[p])[i].size > 0)
      => radio_metadata_check(metadata[p])

\* Every call does to the entries, as they are read back, what its name says, and
\* an append that fails leaves a prefix of what it should have added.
List == INSTANCE RadioList WITH
          Entries <- [key : DOMAIN KeyType, size : Nat, value : Payloads],
          Nothing <- NoBuffer,
          list <- [p \in Buffers |-> IF metadata[p] = NoBuffer THEN NoBuffer ELSE EntriesOf(metadata[p])]
RadioListSpec == List!Spec
=============================================================================
