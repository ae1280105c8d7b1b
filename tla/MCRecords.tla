----------------------------- MODULE MCRecords -----------------------------
(* Two kinds of packed records, a FIFO whose readers the writer overtakes, and  *)
(* audio routes, checked in one run: a behaviour is one of them alone, chosen   *)
(* by "part".  The camera packets are those of MCCameraMetadata, the routes     *)
(* those of MCAudioRoute.  A radio buffer has a key of every type and grows     *)
(* twice; texts of nine bytes are too long.  Sixteen index values make two      *)
(* trips round the buffer of the FIFO; its clients also release too much.       *)
EXTENDS MCCameraMetadata, RadioMetadata, Fifo, MCAudioRoute

VARIABLE part

MCVars == <<part, vars, metadata, fifoVars, routeVars>>

MCKeyType == <<"int", "text", "raw", "clock">>

\* The clients of the overtaken readers do not block; one reader flushes.
MCStreamWriter == {<<"obtain", 3, "none">>}
MCLappedReader == {<<"obtain", 2, "none">>, <<"flush", 9, "none">>}

MCInit ==
  /\ part \in {"camera", "radio", "fifo", "route"}
  /\ Init /\ RadioInit /\ FifoInit /\ RouteInit

OnlyCamera == part = "camera" /\ UNCHANGED <<part, metadata, fifoVars, routeVars>>
OnlyRadio  == part = "radio"  /\ UNCHANGED <<part, vars, fifoVars, routeVars>>
OnlyFifo   == part = "fifo"   /\ UNCHANGED <<part, vars, metadata, routeVars>>
OnlyRoute  == part = "route"  /\ UNCHANGED <<part, vars, metadata, fifoVars>>

MCNext ==
  \/ OnlyCamera /\ Next
  \/ OnlyRadio /\ RadioNext
  \/ OnlyFifo /\ FifoNext
  \/ OnlyRoute /\ RouteNext

MCSpec == MCInit /\ [][MCNext]_MCVars

\* Not more than three entries in all radio buffers at a time, and one of the
\* FIFO's readers, constructed with or without flush.
MCCount(p) == IF metadata[p] = NoBuffer THEN 0 ELSE metadata[p].count
MCFew ==
  /\ MCFewEntries
  /\ FoldSet(LAMBDA p, n : n + MCCount(p), 0, Buffers) =< 3
  /\ Cardinality({r \in Readers : rd[r].pc # "absent"}) =< 1

\* The same two model values are values of entries and payloads, and another two are
\* names of paths and buffers: a part is symmetric in both, and only in its own.
MCAllSymmetry == Permutations(Values \cup Payloads) \cup Permutations(Names \cup Buffers)
=============================================================================
