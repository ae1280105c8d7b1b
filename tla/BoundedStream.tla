--------------------------- MODULE BoundedStream ---------------------------
(* What the FIFO with a throttling reader promises to its two clients: a     *)
(* stream of numbered frames of which at most Capacity are in flight, handed *)
(* over in order, none lost and none repeated.                               *)
EXTENDS Naturals, Sequences

CONSTANT Capacity

VARIABLES
  queue,   \* the frames released by the writer and not yet by the reader
  next     \* the number of the next frame

Init == queue = <<>> /\ next = 0

Put(n) ==
  /\ Len(queue) + n =< Capacity
  /\ queue' = queue \o [i \in 1 .. n |-> next + i - 1]
  /\ next' = next + n

Get(n) ==
  /\ n =< Len(queue)
  /\ queue' = SubSeq(queue, n + 1, Len(queue))
  /\ UNCHANGED next

Next == \E n \in 1 .. Capacity : Put(n) \/ Get(n)

Spec == Init /\ [][Next]_<<queue, next>>
=============================================================================
