---------------------------- MODULE ReportQueue ----------------------------
(* What MelWorker promises to the thread that computes: a report is queued, or  *)
(* refused when the queue is full, and the reports queued are made one by one.  *)
EXTENDS Naturals, Sequences

CONSTANTS
  Capacity,
  NoReport
VARIABLES
  offer,    \* the report that is about to be queued
  queue     \* those that were queued; the first one may be under way

Init == offer = NoReport /\ queue = <<>>

Offer == offer = NoReport /\ UNCHANGED queue

\* The same call may offer another report at once.
Accept == offer # NoReport /\ queue' = Append(queue, offer)
Refuse == offer # NoReport /\ Len(queue) = Capacity /\ UNCHANGED queue

Report == queue # <<>> /\ queue' = Tail(queue) /\ UNCHANGED offer

Next == Offer \/ Accept \/ Refuse \/ Report

Spec == Init /\ [][Next]_<<offer, queue>>
=============================================================================
