------------------------------ MODULE TagList ------------------------------
(* What packets of camera metadata are to their clients: lists of entries, in *)
(* which one tag may occur several times (camera_metadata.h, the comment of   *)
(* struct camera_metadata).  Each kind of step relates a list to the next one. *)
EXTENDS Naturals, Sequences, SequencesExt

CONSTANTS
  Packets,
  Entries    \* what may be listed: [tag, count, value]
VARIABLE
  list       \* the entries of each packet

Added(old, new) ==
  Len(new) = Len(old) + 1 /\ Front(new) = old /\ Last(new) \in Entries

Deleted(old, new) == \E i \in DOMAIN old : new = RemoveAt(old, i)

Updated(old, new) ==
  /\ DOMAIN new = DOMAIN old
  /\ \E i \in DOMAIN old : /\ new[i] \in Entries /\ new[i].tag = old[i].tag
                           /\ new = [old EXCEPT ![i] = new[i]]

\* The entries of one tag may come in any order.
Sorted(old, new) ==
  /\ DOMAIN new = DOMAIN old
  /\ \A i, j \in DOMAIN new : i < j => new[i].tag =< new[j].tag
  /\ \E f \in [DOMAIN old -> DOMAIN old] :
       /\ \A i, j \in DOMAIN old : i # j => f[i] # f[j]
       /\ new = [i \in DOMAIN old |-> old[f[i]]]

Concatenated(old, new) == \E q \in Packets : new = old \o list[q]
Copied(new)            == \E q \in Packets : new = list[q]

Change(old, new) ==
  \/ new = <<>> \/ Added(old, new) \/ Deleted(old, new) \/ Updated(old, new)
  \/ Sorted(old, new) \/ Concatenated(old, new) \/ Copied(new)

Init == list = [p \in Packets |-> <<>>]

Next ==
  \E p \in Packets :
    /\ \A q \in Packets \ {p} : list'[q] = list[q]
    /\ Change(list[p], list'[p])

Spec == Init /\ [][Next]_list
=============================================================================
