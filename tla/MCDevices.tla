----------------------------- MODULE MCDevices -----------------------------
(* Four parts of an audio HAL that share no state, checked in one run: a        *)
(* behaviour is one of them alone, chosen by "part".  The mutexes are those of  *)
(* MCAudioMutex.  The FIFO has a throttling reader that blocks, as in MCFifo;   *)
(* the S/PDIF link carries E-AC3; a dose is measured over four seconds.         *)
EXTENDS MCAudioMutex, MCFifo

CONSTANTS
  Eac3, Substreams, BlocksPerFrame, BlocksPerBurst, BurstWords, BufferWords, HeaderWords,
  FrameSizes, ReadSizes, InputCounts, LinkFrames,
  mCsdWindowSeconds, MinRecord, Doses, Seconds, MaxLength, MaxCalls

VARIABLES
  part,
  mBurstBuffer, mPayloadBytesPending, mScanning, blocks, frame, wire, decoder, call,
  received, taken, stale, sent, bursts,
  mMelRecords, mCsdRecords, mCurrentMelRecordsCsd, mCurrentCsd, doseCalls, pending

linkVars == <<mBurstBuffer, mPayloadBytesPending, mScanning, blocks, frame, wire, decoder, call,
              received, taken, stale, sent, bursts>>
doseVars == <<mMelRecords, mCsdRecords, mCurrentMelRecordsCsd, mCurrentCsd, doseCalls, pending>>
MCVars == <<part, mutexVars, fifoVars, linkVars, doseVars>>

Link == INSTANCE SpdifLink WITH MaxFrames <- LinkFrames
Dose == INSTANCE MelAggregator WITH calls <- doseCalls

MCInit ==
  /\ part \in {"mutex", "fifo", "spdif", "dose"}
  /\ MutexInit /\ FifoInit /\ Link!Init /\ Dose!Init

OnlyMutex == part = "mutex" /\ UNCHANGED <<part, fifoVars, linkVars, doseVars>>
OnlyFifo  == part = "fifo"  /\ UNCHANGED <<part, mutexVars, linkVars, doseVars>>
OnlyLink  == part = "spdif" /\ UNCHANGED <<part, mutexVars, fifoVars, doseVars>>
OnlyDose  == part = "dose"  /\ UNCHANGED <<part, mutexVars, fifoVars, linkVars>>

MCNext ==
  \/ OnlyMutex /\ MutexNext
  \/ OnlyFifo /\ FifoNext
  \/ OnlyLink /\ Link!Next
  \/ OnlyDose /\ Dose!Next

MCSpec == MCInit /\ [][MCNext]_MCVars

\* The decoder takes out of the bursts what the encoder put in, however they are cut,
\* and only whole sets of blocks go into a burst.
LinkDelivers == Link!LinkDelivers

\* Each second is in one record of the levels, with the sum of all streams.
LevelsAreSums == Dose!LevelsAreSums
=============================================================================
