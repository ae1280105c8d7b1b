----------------------------- MODULE RadioList -----------------------------
(* What radio metadata is to its clients (radio_metadata.h): a list of        *)
(* entries that only grows, until it is deallocated.                          *)
EXTENDS Naturals, Sequences, SequencesExt

CONSTANTS
  Buffers,
  Entries,   \* what may be listed: [key, size, value]
  Nothing    \* no buffer has been allocated
VARIABLE list

\* An append that runs out of memory stops after some of the entries.
AppendedPart(old, new, source) ==
  \E n \in 0 .. Len(source) : new = old \o SubSeq(source, 1, n)

Change(old, new) ==
  \/ new = Nothing
  \/ old = Nothing /\ new = <<>>
  \/ old # Nothing /\ Len(new) = Len(old) + 1 /\ Front(new) = old /\ Last(new) \in Entries
  \/ \E q \in Buffers : /\ list[q] # Nothing
                        /\ AppendedPart(IF old = Nothing THEN <<>> ELSE old, new, list[q])

Init == list = [p \in Buffers |-> Nothing]

Next ==
  \E p \in Buffers :
    /\ \A q \in Buffers \ {p} : list'[q] = list[q]
    /\ Change(list[p], list'[p])

Spec == Init /\ [][Next]_list
=============================================================================
