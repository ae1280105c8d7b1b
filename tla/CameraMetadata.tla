--------------------------- MODULE CameraMetadata ---------------------------
(* Packets of camera metadata, camera/src/camera_metadata.c: a table of       *)
(* entries, and a data area for the values that do not fit in an entry.       *)
(* Offsets and sizes are in bytes; the data area is an array of 8-byte words, *)
(* the unit in which it is given out.  A value stands for the bytes of a whole *)
(* payload; word k of it is <<value, k>>.  Operations that return an error    *)
(* leave the packet alone, and are no steps here.  The definitions marked     *)
(* "Slip" are plausible mistakes, kept for mutation runs and used by no action. *)
EXTENDS Integers, Sequences, SequencesExt

CONSTANTS
  Packets,
  EntryCapacity, DataCapacity,   \* arguments of allocate_camera_metadata()
  TypeSize,       \* for each tag, the size of its type
  Values,         \* payloads, other than all zero
  Counts,         \* data_count of add_camera_metadata_entry()
  UpdateCounts,   \* data_count of update_camera_metadata_entry()
  SortedIsFilled  \* whether clients append only sorted packets to an empty sorted one

ASSUME CameraAssumption ==
  /\ EntryCapacity \in [Packets -> Nat] /\ DataCapacity \in [Packets -> Nat]
  /\ DOMAIN TypeSize \subseteq Nat /\ \A t \in DOMAIN TypeSize : TypeSize[t] \in {1, 4, 8}
  /\ 0 \notin Values /\ Counts \subseteq Nat /\ UpdateCounts \subseteq Nat
  /\ SortedIsFilled \in BOOLEAN

VARIABLE packet
vars == packet

Tags == DOMAIN TypeSize
DATA_ALIGNMENT == 8
Word(byte) == byte \div DATA_ALIGNMENT

\* calculate_camera_metadata_entry_data_size()
EntryDataSize(tag, count) ==
  LET bytes == count * TypeSize[tag]
  IN  IF bytes =< 4 THEN 0 ELSE DATA_ALIGNMENT * Word(bytes + DATA_ALIGNMENT - 1)

\* An entry; "raw" is the union data, read as an offset or as a value.
DataSize(e) == EntryDataSize(e.tag, e.count)
OutOfLine(e) == DataSize(e) > 0
PayloadEnd(e) == e.raw + DataSize(e)
Moved(e, by) == [e EXCEPT !.raw = @ + by]

\* calculate_camera_metadata_size(): a header of 48 bytes, entries of 16
MetadataSize(entries, bytes) ==
  DATA_ALIGNMENT * Word(48 + 16 * entries + bytes + DATA_ALIGNMENT - 1)

\* place_camera_metadata() in "memory" bytes
Placed(memory, entries, bytes) ==
  [entries |-> <<>>, entry_capacity |-> entries, data_count |-> 0, data_capacity |-> bytes,
   data |-> [w \in 0 .. Word(bytes) - 1 |-> <<0, 0>>], sorted |-> FALSE, memory |-> memory]

\* allocate_camera_metadata()
Allocated(entries, bytes) == Placed(MetadataSize(entries, bytes), entries, bytes)

Init == packet = [p \in Packets |-> Allocated(EntryCapacity[p], DataCapacity[p])]

Becomes(p, content) == packet' = [packet EXCEPT ![p] = content]

\* The data area with the words of value v from byte "at" on.
Stored(data, at, bytes, v) ==
  [w \in DOMAIN data |->
     IF w \in Word(at) .. Word(at + bytes) - 1 THEN <<v, w - Word(at)>> ELSE data[w]]

-----------------------------------------------------------------------------
(* Making packets *)

\* free_camera_metadata() and allocate_camera_metadata()
Allocate(p) == Becomes(p, Allocated(EntryCapacity[p], DataCapacity[p]))

\* memcpy of the data of src to byte "at"
Joined(data, at, src) ==
  [w \in DOMAIN data |->
     IF w \in Word(at) .. Word(at + src.data_count) - 1
     THEN src.data[w - Word(at)] ELSE data[w]]

\* A packet of just the room that src needs, with what is in src
Copied(memory, src) ==
  [Placed(memory, Len(src.entries), src.data_count) EXCEPT
     !.entries = src.entries, !.data_count = src.data_count,
     !.data = Joined(@, 0, src), !.sorted = src.sorted]

\* copy_camera_metadata() of q, into the memory of p
Copy(p, q) ==
  /\ MetadataSize(Len(packet[q].entries), packet[q].data_count) =< packet[p].memory
  /\ Becomes(p, Copied(packet[p].memory, packet[q]))

\* Slip: the offsets are copied as they are.
RelocatedNowhere(src, by) == src.entries

\* The entries of src, when its data goes to byte "by" of another packet.
Relocated(src, by) ==
  [i \in DOMAIN src.entries |->
     IF OutOfLine(src.entries[i]) THEN Moved(src.entries[i], by) ELSE src.entries[i]]

\* Slip: the flag of dst is kept.
SortedAfterKept(dst, src) == dst.sorted

\* What append leaves of FLAG_SORTED.
SortedAfter(dst, src) ==
  IF dst.entries = <<>> THEN dst.sorted \/ src.sorted
  ELSE dst.sorted /\ src.entries = <<>>

Fits(dst, src) ==
  /\ Len(src.entries) + Len(dst.entries) =< dst.entry_capacity
  /\ src.data_count + dst.data_count =< dst.data_capacity

Appended(dst, src) ==
  [dst EXCEPT
     !.entries = @ \o Relocated(src, dst.data_count),
     !.data = Joined(@, dst.data_count, src),
     !.data_count = @ + src.data_count,
     !.sorted = SortedAfter(dst, src)]

\* append_camera_metadata(); src may be dst itself.
AppendTo(p, q) ==
  /\ Fits(packet[p], packet[q])
  /\ (SortedIsFilled /\ packet[p].sorted /\ packet[p].entries = <<>>) => packet[q].sorted
  /\ Becomes(p, Appended(packet[p], packet[q]))

\* clone_camera_metadata(); the packet gives way to its clone.
Clone(p) ==
  LET src == packet[p]
  IN  Becomes(p, Appended(Allocated(Len(src.entries), src.data_count), src))

-----------------------------------------------------------------------------
(* Changing entries *)

\* A new entry at the end, and its payload at the end of the data.
Added(m, tag, count, v) ==
  LET bytes == EntryDataSize(tag, count)
      raw   == IF bytes > 0 THEN m.data_count ELSE IF count > 0 THEN v ELSE 0
  IN  [m EXCEPT
         !.entries = Append(@, [tag |-> tag, count |-> count, raw |-> raw]),
         !.data = Stored(@, m.data_count, bytes, v),
         !.data_count = @ + bytes,
         !.sorted = FALSE]

\* add_camera_metadata_entry() of a known tag
Add(p) ==
  \E tag \in Tags, count \in Counts, v \in Values :
    LET m == packet[p]
    IN  /\ Len(m.entries) < m.entry_capacity
        /\ EntryDataSize(tag, count) + m.data_count =< m.data_capacity
        /\ Becomes(p, Added(m, tag, count, v))

\* The entries in the order f.
Permuted(m, f) ==
  [m EXCEPT !.entries = [i \in DOMAIN @ |-> m.entries[f[i]]], !.sorted = TRUE]

\* sort_camera_metadata(): qsort leaves the entries of one tag in any order.
Sort(p) ==
  LET m == packet[p]
      n == DOMAIN m.entries
  IN  /\ ~ m.sorted
      /\ \E f \in [n -> n] :
           /\ \A i, j \in n : i < j => /\ f[i] # f[j]
                                       /\ m.entries[f[i]].tag =< m.entries[f[j]].tag
           /\ Becomes(p, Permuted(m, f))

\* memmove() of the data behind "words" words at "from" to their place.  What it
\* leaves at the end is never read, and taken as cleared.
ShiftedOut(m, from, words) ==
  [w \in DOMAIN m.data |->
     IF w < from THEN m.data[w]
     ELSE IF w < Word(m.data_count) - words THEN m.data[w + words] ELSE <<0, 0>>]

\* Slip: offsets are compared with the end of the data that went.
DataRemovedAfterEnd(m, i) ==
  LET gone == m.entries[i]
      size == DataSize(gone)
  IN  [m EXCEPT
         !.data = ShiftedOut(m, Word(gone.raw), Word(size)),
         !.entries = [j \in DOMAIN @ |->
                        IF OutOfLine(@[j]) /\ @[j].raw > gone.raw + size
                        THEN Moved(@[j], - size) ELSE @[j]],
         !.data_count = @ - size]

\* The data of entry i shifted out, and the offsets behind it corrected.
DataRemoved(m, i) ==
  LET gone == m.entries[i]
      size == DataSize(gone)
  IN  [m EXCEPT
         !.data = ShiftedOut(m, Word(gone.raw), Word(size)),
         !.entries = [j \in DOMAIN @ |->
                        IF OutOfLine(@[j]) /\ @[j].raw > gone.raw
                        THEN Moved(@[j], - size) ELSE @[j]],
         !.data_count = @ - size]

\* Entry i without its payload.
Emptied(m, i) == IF OutOfLine(m.entries[i]) THEN DataRemoved(m, i) ELSE m

\* delete_camera_metadata_entry()
Delete(p) ==
  \E i \in DOMAIN packet[p].entries :
    Becomes(p, [Emptied(packet[p], i) EXCEPT !.entries = RemoveAt(@, i)])

\* Slip: a value that becomes shorter keeps its place, and the rest of it is lost.
UpdatedInPlace(m, i, count, v) ==
  LET old   == m.entries[i]
      bytes == EntryDataSize(old.tag, count)
      grows == bytes > DataSize(old)
      room  == IF grows /\ OutOfLine(old) THEN DataRemoved(m, i) ELSE m
      raw   == IF grows THEN room.data_count
               ELSE IF bytes > 0 THEN old.raw ELSE IF count > 0 THEN v ELSE old.raw
  IN  [room EXCEPT
         !.data = Stored(@, IF bytes > 0 THEN raw ELSE 0, bytes, v),
         !.data_count = IF grows THEN @ + bytes ELSE @,
         !.entries[i] = [@ EXCEPT !.count = count, !.raw = raw]]

\* Entry i with a new payload: in the same place when it has the same size, else
\* at the end of the data.
Updated(m, i, count, v) ==
  LET old   == m.entries[i]
      bytes == EntryDataSize(old.tag, count)
      moves == bytes # DataSize(old)
      room  == IF moves THEN Emptied(m, i) ELSE m
      raw   == IF bytes = 0 THEN (IF count > 0 THEN v ELSE old.raw)
               ELSE IF moves THEN room.data_count ELSE old.raw
  IN  [room EXCEPT
         !.data = Stored(@, IF bytes > 0 THEN raw ELSE 0, bytes, v),
         !.data_count = IF moves THEN @ + bytes ELSE @,
         !.entries[i] = [@ EXCEPT !.count = count, !.raw = raw]]

\* update_camera_metadata_entry()
Update(p) ==
  \E i \in DOMAIN packet[p].entries, count \in UpdateCounts, v \in Values :
    LET m     == packet[p]
        bytes == EntryDataSize(m.entries[i].tag, count)
    IN  /\ m.data_count + bytes - DataSize(m.entries[i]) =< m.data_capacity
        /\ Becomes(p, Updated(m, i, count, v))

Next ==
  \E p \in Packets :
    \/ Allocate(p) \/ Add(p) \/ Sort(p) \/ Delete(p) \/ Update(p)
    \/ Clone(p) \/ \E q \in Packets : AppendTo(p, q) \/ (p # q /\ Copy(p, q))

Spec == Init /\ [][Next]_vars

-----------------------------------------------------------------------------
(* Reading *)

\* What get_camera_metadata_entry() finds: the value, or 0 for an empty payload
\* and for bytes that are not those of one value.
ValueOf(m, e) ==
  IF e.count * TypeSize[e.tag] =< 4 THEN (IF e.count = 0 THEN 0 ELSE e.raw)
  ELSE LET word(k) == m.data[Word(e.raw) + k]
           size == Word(DataSize(e))
       IN  IF \A k \in 0 .. size - 1 : word(k) = <<word(0)[1], k>> THEN word(0)[1] ELSE 0

Content(m) ==
  [i \in DOMAIN m.entries |->
     [tag |-> m.entries[i].tag, count |-> m.entries[i].count,
      value |-> ValueOf(m, m.entries[i])]]

\* <<base, n>>: the n places after place "base" of a table of "length" entries
Ranges(length) == {r \in (0 .. length) \X (0 .. length) : r[1] + r[2] =< length}

\* bsearch() of the C library, on n entries from the one after "base" on: the index
\* of an entry with this tag, or 0.
BinarySearch(entries, tag) ==
  LET search[r \in Ranges(Len(entries))] ==
        LET base  == r[1]
            n     == r[2]
            probe == base + n \div 2 + 1
        IN  IF n = 0 THEN 0
            ELSE IF entries[probe].tag = tag THEN probe
            ELSE IF entries[probe].tag < tag THEN search[<<probe, (n - 1) \div 2>>]
            ELSE search[<<base, n \div 2>>]
  IN  search[<<0, Len(entries)>>]

\* find_camera_metadata_entry(): an index, or 0 for NOT_FOUND
Find(m, tag) ==
  IF m.sorted THEN BinarySearch(m.entries, tag)
  ELSE LET found == {i \in DOMAIN m.entries : m.entries[i].tag = tag}
       IN  IF found = {} THEN 0 ELSE CHOOSE i \in found : \A j \in found : i =< j

-----------------------------------------------------------------------------
\* Type invariant, with what the layout of struct camera_metadata leaves no room
\* for: an offset is a number, and the data area has its size for ever.
Entry == [tag : Tags, count : Counts \cup UpdateCounts, raw : Nat \cup Values]
Packet(words) ==
  [entries : Seq(Entry), entry_capacity : Nat, data_count : Nat, data_capacity : Nat,
   data : [0 .. words - 1 -> (Values \cup {0}) \X Nat], sorted : BOOLEAN, memory : Nat]

TypeOK ==
  /\ DOMAIN packet = Packets
  /\ \A p \in Packets : packet[p] \in Packet(Word(packet[p].data_capacity))

\* validate_camera_metadata_structure() returns OK, as every operation asserts
\* at its end (camera_metadata.c:440-607): counts within capacities, data
\* aligned and within the data area, no offset left in an empty entry.
StructureValid ==
  \A p \in Packets :
    LET m == packet[p]
    IN  /\ Len(m.entries) =< m.entry_capacity /\ m.data_count =< m.data_capacity
        /\ \A i \in DOMAIN m.entries :
             LET e == m.entries[i]
             IN  IF OutOfLine(e)
                 THEN e.raw % DATA_ALIGNMENT = 0 /\ PayloadEnd(e) =< m.data_capacity
                 ELSE e.count = 0 => e.raw = 0

\* The data area has no holes and no sharing: the payloads of the entries tile the
\* first data_count bytes, so that deleting and replacing give back all they took
\* (camera_metadata.c:843-862, 900-926).
DataPacked ==
  \A p \in Packets :
    LET m   == packet[p]
        out == {i \in DOMAIN m.entries : OutOfLine(m.entries[i])}
    IN  /\ \A i \in out : PayloadEnd(m.entries[i]) =< m.data_count
        /\ \A i, j \in out :
             i # j => \/ PayloadEnd(m.entries[i]) =< m.entries[j].raw
                      \/ PayloadEnd(m.entries[j]) =< m.entries[i].raw
        /\ \A byte \in 0 .. m.data_count - 1 :
             \E i \in out : m.entries[i].raw =< byte /\ byte < PayloadEnd(m.entries[i])

\* A tag is found if and only if it is there, whatever the flag that selects the
\* binary search has been through (camera_metadata.c:650-658, 705, 753, 798-818).
FindIsExact ==
  \A p \in Packets, tag \in Tags :
    LET m == packet[p]
        i == Find(m, tag)
    IN  IF i = 0 THEN \A j \in DOMAIN m.entries : m.entries[j].tag # tag
                 ELSE m.entries[i].tag = tag

\* Whatever moves inside, a packet reads as the list of what was added to it
\* (camera_metadata.h, "Functions for manipulating camera metadata").
Listed == INSTANCE TagList WITH
  list <- [p \in Packets |-> Content(packet[p])],
  Entries <- {e \in [tag : Tags, count : Counts \cup UpdateCounts, value : Values \cup {0}] :
                e.value = 0 <=> e.count = 0}

ListSpec == Listed!Spec
=============================================================================
