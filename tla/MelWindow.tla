----------------------------- MODULE MelWindow -----------------------------
(* How MelProcessor::process() cuts audio into windows of one second, each of   *)
(* which gives a level (audio_utils/MelProcessor.cpp), while the format of the *)
(* audio may change.                                                           *)
EXTENDS Integers

CONSTANTS
  Rates,        \* frames in a window, for each sample rate
  Channels,     \* channel counts
  Calls,        \* how many frames a call may bring; bound of the model
  SizeMod,      \* 2^w for a w-bit size_t
  MaxUpdates    \* bound of the model

VARIABLES
  mFramesPerMelValue, mChannelCount,
  mCurrentSamples,
  values,       \* how many levels the last call has computed
  updates

vars == <<mFramesPerMelValue, mChannelCount, mCurrentSamples, values, updates>>

Window == mFramesPerMelValue * mChannelCount

Init ==
  /\ mFramesPerMelValue \in Rates /\ mChannelCount \in Channels
  /\ mCurrentSamples = 0 /\ values = 0 /\ updates = 0

Aligned(samples) == samples - (samples % mChannelCount)

\* The loop of process(): its first turn completes the window that was begun, the
\* others begin and complete one each, and what is left begins the next one.  A
\* turn that cannot take whole frames up to the end of its window ends the call.
Loop(samples) ==
  LET required == (Window - mCurrentSamples) % SizeMod
      first    == Aligned(IF samples < required THEN samples ELSE required)
      rest     == samples - first
  IN  IF first < required
      THEN [values |-> 0, current |-> (mCurrentSamples + first) % SizeMod]
      ELSE [values |-> 1 + rest \div Window, current |-> Aligned(rest % Window)]

\* process() is given whole frames.
Process ==
  \E frames \in Calls :
    LET loop == Loop(frames * mChannelCount)
    IN  /\ mCurrentSamples' = loop.current
        /\ values' = loop.values
        /\ UNCHANGED <<mFramesPerMelValue, mChannelCount, updates>>

\* updateAudioFormat() keeps mCurrentSamples.
UpdateAudioFormat ==
  /\ updates < MaxUpdates
  /\ mFramesPerMelValue' \in Rates /\ mChannelCount' \in Channels
  /\ updates' = updates + 1
  /\ UNCHANGED <<mCurrentSamples, values>>

Next == Process \/ UpdateAudioFormat

\* The client keeps playing.
FairSpec == Init /\ [][Next]_vars /\ WF_vars(Process)

\* As long as audio comes in levels come out, one for each second (MelProcessor.h,
\* the comment of process()): a change of format does not stop that.
LevelsKeepComing == []<>(values > 0)
=============================================================================
