------------------------------ MODULE MCFifo ------------------------------
(* Instances of Fifo for TLC.  Three frames in a buffer of four indices is   *)
(* the smallest capacity with a wasted index; eight index values make the    *)
(* indices wrap within a behaviour.                                          *)
EXTENDS Fifo

\* Mixed clients: blocking and non-blocking calls, whole and partial releases.
MCMixedWriter == {<<"obtain", 3, "finite">>, <<"write", 2, "forever">>}
MCMixedReader == {<<"obtain", 3, "none">>, <<"flush", 2, "forever">>, <<"available", 9, "none">>}

\* The plain loops of read() and write() with an infinite timeout.
MCLoopWriter == {<<"write", 2, "forever">>}
MCLoopReader == {<<"read", 2, "forever">>}

\* Hysteresis as fifo.h:432 asks for: armLevel =< triggerLevel + 1.
MCWakeOnNonEmpty == {<<1, 0>>}
\* ... and as fifo.h:585 does: armLevel >= triggerLevel - 1.
MCWakeOnNonFull == {<<2, 3>>}

\* Bound of the model: with levels other than the default ones, only the first frames
\* are followed.  No property of the runs that use it depends on the levels.
MCLevelsEarly ==
  Written > 2 =>
    /\ <<wr.armLevel, wr.triggerLevel>> \notin WriterLevels
    /\ \A r \in Readers : <<rd[r].armLevel, rd[r].triggerLevel>> \notin ReaderLevels
=============================================================================
