---------------------------- MODULE MCAudioMutex ----------------------------
(* Three threads and three mutexes of different order, one more than the       *)
(* stack of a thread has places.                                               *)
EXTENDS AudioMutex, TLC

CONSTANTS outer, middle, inner
MCOrder == (outer :> 0) @@ (middle :> 1) @@ (inner :> 2)
\* Bounds of the model.  The watchdog changes nothing; its calls count where there is a
\* deadlock to find.  One thread at a time is in a call with a timeout, and none during
\* a call of the watchdog.
MCDeadlockOnly ==
  LET timed == {t \in Threads : limited[t]}
  IN  /\ Cardinality(timed) =< 1
      /\ dog.pc # "idle" => dog.doomed /\ timed = {}
MCMutexSymmetry == Permutations(Threads)
=============================================================================
