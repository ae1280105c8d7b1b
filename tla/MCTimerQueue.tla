---------------------------- MODULE MCTimerQueue ----------------------------
(* Requests for TLC.  Times lie around the starting time, so that events are *)
(* due at once, later, and at the same time as another one.                  *)
EXTENDS TimerQueue

At(t) == [both |-> FALSE, soft |-> t, hard |-> t, priority |-> t]
Between(s, h, p) == [both |-> TRUE, soft |-> s, hard |-> h, priority |-> p]

MCDeadlines == {At(2), Between(1, 3, 0)}
=============================================================================
