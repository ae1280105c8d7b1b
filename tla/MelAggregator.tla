--------------------------- MODULE MelAggregator ---------------------------
(* The sound dose of several streams (audio_utils/MelAggregator.cpp): levels of *)
(* the same second are added up, and enough of them become records of the dose  *)
(* (CSD) of a rolling window.  A level is the dose that it gives in one second, *)
(* so that levels of one second just add up (melToCsd() and aggregateMels()).   *)
EXTENDS Integers, Sequences, SequencesExt, FiniteSetsExt, TLC

CONSTANTS
  mCsdWindowSeconds,
  MinRecord,     \* kMinCsdRecordToStore
  Doses,         \* bound of the model
  Seconds,       \* when a record may start; bound of the model
  MaxLength,     \* of a record; bound of the model
  MaxCalls       \* since the last reset(); bound of the model

VARIABLES
  mMelRecords,             \* by start: the levels from there on
  mCsdRecords,             \* by timestamp: duration and value
  mCurrentMelRecordsCsd,
  mCurrentCsd,
  calls,
  pending        \* the dose of each second that has not become CSD: for the properties

vars == <<mMelRecords, mCsdRecords, mCurrentMelRecordsCsd, mCurrentCsd, calls, pending>>

Total(s) == FoldLeft(LAMBDA x, y : x + y, 0, s)
None == [t \in {} |-> <<>>]
Lower(x, y)   == IF x < y THEN x ELSE y
Greater(x, y) == IF x < y THEN y ELSE x
InOrder(s)    == SetToSortSeq(s, LAMBDA x, y : x < y)

AllSeconds == 0 .. Max(Seconds) + MaxLength
Nothing == [t \in AllSeconds |-> 0]

Init ==
  /\ mMelRecords = None /\ mCsdRecords = None
  /\ mCurrentMelRecordsCsd = 0 /\ mCurrentCsd = 0
  /\ calls = 0 /\ pending = Nothing

-----------------------------------------------------------------------------
(* aggregateAndAddNewMelRecord_l(): a new record is merged with those it meets. *)

End(t) == t + Len(mMelRecords[t])

\* Where the merge begins: the record before the new one if it reaches into it
\* (overlapsEnd()), otherwise the one found by lower_bound().
FirstToMerge(start) ==
  LET before == {t \in DOMAIN mMelRecords : t < start}
      from   == {t \in DOMAIN mMelRecords : t >= start}
  IN  IF before # {} /\ End(Max(before)) > start THEN {Max(before)}
      ELSE IF from # {} THEN {Min(from)} ELSE {}

\* The records that are merged: from the first one on, as long as they intersect
\* the new one (intersectRegion()).
Merged(start, mels) ==
  LET end == start + Len(mels)
  IN  {t \in DOMAIN mMelRecords :
         \E f \in FirstToMerge(start) :
           /\ f =< t
           /\ \A u \in DOMAIN mMelRecords :
                f =< u /\ u =< t => Greater(u, start) < Lower(End(u), end)}

\* Slip: the offset of a head put before is forgotten.
WithRecordMisplaced(merge, t, start, mels) ==
  LET record == mMelRecords[t]
      from   == Greater(t, start)
      to     == Lower(End(t), start + Len(mels))
      offset(i) == i - 1
      sums   == [i \in DOMAIN merge.mels |->
                   IF offset(i) \in from - start .. to - start - 1
                   THEN record[start + offset(i) - t + 1] + mels[offset(i) + 1]
                   ELSE merge.mels[i]]
  IN  [timestamp |-> Lower(t, merge.timestamp), overlapStart |-> 0,
       mels |-> SubSeq(record, 1, from - t) \o sums \o SubSeq(record, to - t + 1, Len(record))]

\* One turn of the merge with the record at t: its head goes before the levels
\* merged so far, the seconds of both are added, and its tail goes behind.
WithRecord(merge, t, start, mels) ==
  LET record == mMelRecords[t]
      from   == Greater(t, start)
      to     == Lower(End(t), start + Len(mels))
      overlapStart == IF t < from THEN from - t ELSE merge.overlapStart
      newMels      == SubSeq(record, 1, from - t) \o merge.mels
      offsetNew(i) == i - 1 - overlapStart
      sums   == [i \in DOMAIN newMels |->
                   IF offsetNew(i) \in from - start .. to - start - 1
                   THEN record[start + offsetNew(i) - t + 1] + mels[offsetNew(i) + 1]
                   ELSE newMels[i]]
  IN  [timestamp |-> Lower(t, merge.timestamp), overlapStart |-> overlapStart,
       mels |-> sums \o SubSeq(record, to - t + 1, Len(record))]

Merge(start, mels) ==
  FoldLeft(LAMBDA merge, t : WithRecord(merge, t, start, mels),
           [timestamp |-> start, overlapStart |-> 0, mels |-> mels],
           InOrder(Merged(start, mels)))

\* mMelRecords after the merge.
Aggregated(start, mels) ==
  LET merge == Merge(start, mels)
      kept  == DOMAIN mMelRecords \ Merged(start, mels)
  IN  (merge.timestamp :> merge.mels) @@ [t \in kept |-> mMelRecords[t]]

-----------------------------------------------------------------------------
(* updateCsdRecords_l() *)

\* addNewestCsdRecord_l(): emplace_hint() keeps a record of the same timestamp.
Stored(csd) ==
  csd.records @@ (csd.timestamp :> [duration |-> csd.duration, value |-> csd.value])

\* The next second of the loop over all levels, when collected is the dose of them
\* all: a record is due when it and the rest are both worth storing.
WithSecond(csd, second, collected) ==
  LET now == [csd EXCEPT !.value = @ + second.dose, !.duration = @ + 1]
  IN  IF now.value >= MinRecord /\ collected - now.converted - now.value >= MinRecord
      THEN [timestamp |-> second.time, duration |-> 0, value |-> 0,
            converted |-> now.converted + now.value, records |-> Stored(now)]
      ELSE now

\* The levels of all records in the order of time.
Levels(records) ==
  FoldLeft(LAMBDA s, t : s \o [i \in 1 .. Len(records[t]) |->
                                 [time |-> t + i - 1, dose |-> records[t][i]]],
           <<>>, InOrder(DOMAIN records))

\* All levels as records, and the dose of these.
Converted(records, collected) ==
  LET levels == Levels(records)
      loop   == FoldLeft(LAMBDA csd, second : WithSecond(csd, second, collected),
                         [timestamp |-> levels[1].time, duration |-> 0, value |-> 0,
                          converted |-> 0, records |-> mCsdRecords], levels)
  IN  [records |-> IF loop.value > 0 THEN Stored(loop) ELSE loop.records,
       dose    |-> loop.converted + loop.value]

\* removeOldCsdRecords_l(): what begins too long before the end of the last one.
Old(records) ==
  {t \in DOMAIN records :
     Max(DOMAIN records) + records[Max(DOMAIN records)].duration - t > mCsdWindowSeconds}

ValueOf(records, s) == FoldSet(LAMBDA t, sum : sum + records[t].value, 0, s)

\* removeOldCsdRecords_l() with the sum to take it from.
Expire(records, csd) ==
  /\ mCsdRecords' = [t \in DOMAIN records \ Old(records) |-> records[t]]
  /\ mCurrentCsd' = csd - ValueOf(records, Old(records))

Convert(records, collected, seconds) ==
  IF collected < MinRecord
  THEN /\ Expire(mCsdRecords, mCurrentCsd)
       /\ mCurrentMelRecordsCsd' = collected /\ mMelRecords' = records /\ pending' = seconds
  ELSE LET csd == Converted(records, collected)
       IN  /\ Expire(csd.records, mCurrentCsd + csd.dose)
           /\ mCurrentMelRecordsCsd' = 0 /\ mMelRecords' = None /\ pending' = Nothing

-----------------------------------------------------------------------------
(* The calls *)

aggregateAndAddNewMelRecord(start, mels) ==
  /\ calls < MaxCalls /\ calls' = calls + 1
  /\ Convert(Aggregated(start, mels), mCurrentMelRecordsCsd + Total(mels),
             [t \in AllSeconds |->
                pending[t] + IF t - start \in 0 .. Len(mels) - 1 THEN mels[t - start + 1] ELSE 0])

\* reset() with records that were stored, and their sum.  It leaves
\* mCurrentMelRecordsCsd as it is, though mMelRecords is empty now.
reset(records) ==
  /\ mCsdRecords' = records
  /\ mMelRecords' = None
  /\ mCurrentCsd' = ValueOf(records, DOMAIN records)
  /\ calls' = 0 /\ pending' = Nothing
  /\ UNCHANGED mCurrentMelRecordsCsd

NewMels == UNION {[1 .. n -> Doses] : n \in 1 .. MaxLength}
Restored == {None} \cup {t :> [duration |-> MaxLength, value |-> MinRecord] : t \in {Min(Seconds)}}

Next ==
  \/ \E start \in Seconds, mels \in NewMels : aggregateAndAddNewMelRecord(start, mels)
  \/ \E records \in Restored : reset(records)

Spec == Init /\ [][Next]_vars

-----------------------------------------------------------------------------
(* Properties *)

\* The stored levels are those of the seconds with a dose that has not become CSD yet,
\* each second in one record and with the sum of all streams, in whatever order the
\* streams come and however they overlap (aggregateAndAddNewMelRecord_l()).
LevelsAreSums ==
  LET seconds == InOrder({t \in AllSeconds : pending[t] > 0})
  IN  Levels(mMelRecords) =
        [i \in 1 .. Len(seconds) |-> [time |-> seconds[i], dose |-> pending[seconds[i]]]]

\* The current CSD is the sum of all records stored (MelAggregator.h, the comment
\* on mCurrentCsd): what has left the window no longer counts.
CurrentCsdIsSum == mCurrentCsd = ValueOf(mCsdRecords, DOMAIN mCsdRecords)
=============================================================================
