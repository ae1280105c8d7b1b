-------------------------- MODULE MCCameraMetadata --------------------------
(* Two packets.  Tag 1 is an int32: one is kept in its entry, three take 16   *)
(* bytes with padding.  Tag 2 is an int64: one takes 8 bytes, three take 24.    *)
(* The larger packet has room for 16 + 8 or 8 + 8 + 8 bytes of data, the other  *)
(* one only for values that are kept in their entries.                         *)
EXTENDS CameraMetadata, TLC

CONSTANTS a, b
MCSymmetry == Permutations(Values)
MCPackets == {a, b}
MCEntryCapacity == [p \in MCPackets |-> IF p = a THEN 3 ELSE 2]
MCDataCapacity  == [p \in MCPackets |-> IF p = a THEN 24 ELSE 4]
MCTypeSize == <<4, 8>>

\* Not more than four entries at a time.
MCFewEntries == Len(packet[a].entries) + Len(packet[b].entries) =< 4
=============================================================================
