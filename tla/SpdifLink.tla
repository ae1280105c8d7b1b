----------------------------- MODULE SpdifLink -----------------------------
(* SPDIFEncoder and SPDIFDecoder (audio_utils/spdif) at the two ends of a wire: *)
(* frames of AC3 or E-AC3 go into bursts of a fixed size, with a preamble, and  *)
(* padding behind; the decoder takes the payload out again.  All lengths are    *)
(* in 16-bit words.  A word is what it stands for: of the preamble only the     *)
(* sync and the length code.                                                   *)
EXTENDS Integers, Sequences, SequencesExt, FiniteSetsExt

CONSTANTS
  Eac3,            \* is it E-AC3, or AC3?
  Substreams,      \* that take turns in an E-AC3 stream
  BlocksPerFrame,
  BlocksPerBurst,  \* AC3_MAX_BLOCKS_PER_SYNC_FRAME_BLOCK
  BurstWords,      \* the size of a burst
  BufferWords,     \* the size of the largest one: mBurstBuffer, mBurstDataBuffer
  HeaderWords,
  FrameSizes,
  ReadSizes,
  InputCounts,     \* how much readInput() may return, and 0 if it may fail
  MaxFrames        \* bound of the model

VARIABLES
  mBurstBuffer,          \* up to mByteCursor; zero from there on
  mPayloadBytesPending,
  mScanning,
  blocks,                \* mSubstreamBlockCounts[0]
  frame,                 \* the last header: number, substream, size; frames so far
  wire,                  \* what writeOutput() was given and readInput() has not taken
  decoder,               \* SPDIFDecoder, its ring and its scanner
  call,                  \* read() under way
  received,              \* what read() has returned
  taken,                 \* all payload that read() took from the ring: for the properties
  stale,                 \* reset() of the decoder has met words in the ring: likewise
  sent,                  \* all words of frames, but for those reset() has dropped: likewise
  bursts                 \* all bursts, as lists of frames: likewise

encoder == <<mBurstBuffer, mPayloadBytesPending, mScanning, blocks, frame>>
reader  == <<decoder, call, received, taken, stale>>
vars == <<encoder, reader, wire, sent, bursts>>

Sync      == <<-1, 0>>
Length(n) == <<-2, n>>
Zero      == <<0, 0>>
Preamble  == <<Sync, Length(0)>>
Words(f, from, n) == [i \in 1 .. n |-> <<f, from + i>>]

NoCall == [numBytes |-> 0, bytesRead |-> 0, buf |-> 0, memory |-> <<>>]

Init ==
  /\ mBurstBuffer = <<>> /\ mPayloadBytesPending = 0 /\ mScanning = TRUE /\ blocks = 0
  /\ frame = [number |-> 0, substream |-> Substreams - 1, size |-> 0]
  /\ wire = <<>> /\ received = <<>> /\ sent = <<>> /\ bursts = <<>>
  /\ taken = <<>> /\ stale = FALSE
  /\ decoder = [ring |-> <<>>, cursor |-> 0, pending |-> 0, scanning |-> TRUE]
  /\ call = NoCall

-----------------------------------------------------------------------------
(* The encoder *)

\* writeBurstBufferBytes(), writeBurstBufferShorts(): overflow clears the buffer.
Written(buffer, words) ==
  IF Len(buffer) + Len(words) > BufferWords THEN <<>> ELSE buffer \o words

\* flushBurstBuffer(): what goes to the wire, with the length code and padding.
Burst(buffer) ==
  IF Len(buffer) =< Len(Preamble) \/ Len(buffer) > BurstWords THEN <<>>
  ELSE [i \in 1 .. BurstWords |->
          IF i = Len(Preamble) THEN Length(Len(buffer) - Len(Preamble))
          ELSE IF i =< Len(buffer) THEN buffer[i] ELSE Zero]

\* Slip: the burst begins anew, with the blocks of the frame that ends it.
AfterResetToZero(n) == 0

\* resetBurst(): blocks of the next burst have been counted already.
AfterReset(n) == IF n >= BlocksPerBurst THEN n - BlocksPerBurst ELSE 0

\* The frames in a burst.
FramesOf(buffer) == {buffer[i][1] : i \in {j \in DOMAIN buffer : buffer[j][1] > 0}}

Flush(buffer) ==
  /\ wire' = wire \o Burst(buffer)
  /\ bursts' = IF Burst(buffer) = <<>> THEN bursts ELSE Append(bursts, FramesOf(buffer))

\* isFirstInBurst(): the first frame of substream 0 with more blocks than a burst
\* has shows that the burst is complete.
IsFirstInBurst(substream, n) == Eac3 /\ substream = 0 /\ n > BlocksPerBurst

\* scan() has found the next header, and startSyncFrame() puts it into the buffer.
\* In an E-AC3 stream it may show that the burst before is complete.
WriteHeader(size) ==
  LET substream == (frame.substream + 1) % Substreams
      number    == frame.number + 1
      parsed    == IF Eac3 /\ substream = 0 THEN blocks + BlocksPerFrame ELSE blocks
      first     == mBurstBuffer # <<>> /\ IsFirstInBurst(substream, parsed)
      started   == IF mBurstBuffer = <<>> \/ first THEN Written(<<>>, Preamble) ELSE mBurstBuffer
      header    == Words(number, 0, HeaderWords)
  IN  /\ mScanning /\ number =< MaxFrames
      /\ IF first THEN Flush(mBurstBuffer) ELSE UNCHANGED <<wire, bursts>>
      /\ blocks' = IF first THEN AfterReset(parsed) ELSE parsed
      /\ frame' = [number |-> number, substream |-> substream, size |-> size]
      /\ mBurstBuffer' = Written(started, header)
      /\ mPayloadBytesPending' = size - HeaderWords
      /\ mScanning' = FALSE
      /\ sent' = sent \o header
      /\ UNCHANGED reader

\* A turn of write() with payload: up to the end of the buffer of the client, or of
\* the frame.  An AC3 frame is a burst (isLastInBurst()).
WritePayload(n) ==
  LET words  == Words(frame.number, frame.size - mPayloadBytesPending, n)
      buffer == Written(mBurstBuffer, words)
      ends   == n = mPayloadBytesPending
  IN  /\ ~ mScanning
      /\ mPayloadBytesPending' = mPayloadBytesPending - n
      /\ mScanning' = ends
      /\ IF ends /\ ~ Eac3
         THEN Flush(buffer) /\ mBurstBuffer' = <<>> /\ blocks' = AfterReset(blocks)
         ELSE mBurstBuffer' = buffer /\ UNCHANGED <<wire, bursts, blocks>>
      /\ sent' = sent \o words
      /\ UNCHANGED <<frame, reader>>

\* reset(): the client goes to another place in the stream, at substream 0.
Reset ==
  /\ sent' = SubSeq(sent, 1, Len(sent) - Max({0, Len(mBurstBuffer) - Len(Preamble)}))
  /\ mBurstBuffer' = <<>> /\ mPayloadBytesPending' = 0 /\ mScanning' = TRUE
  /\ blocks' = AfterReset(blocks)
  /\ frame' = [frame EXCEPT !.substream = Substreams - 1]
  /\ UNCHANGED <<wire, reader, bursts>>

-----------------------------------------------------------------------------
(* The decoder *)

Read(n) ==
  /\ call = NoCall
  /\ call' = [NoCall EXCEPT !.numBytes = n, !.memory = [i \in 1 .. n |-> Zero]]
  /\ UNCHANGED <<encoder, decoder, received, taken, stale, wire, sent, bursts>>

\* The loop of read() goes on.
Reading == call.bytesRead < call.numBytes

\* The call returns n words.
Return(n) == received' = received \o SubSeq(call.memory, 1, n) /\ call' = NoCall

\* fillBurstDataBuffer() gets the next n words, as many or as few as readInput() has,
\* up to the size of the ring.  A call that has payload already returns it.
Fill(n) ==
  /\ Reading /\ decoder.ring = <<>> /\ n \in 1 .. Min({BufferWords, Len(wire)})
  /\ decoder' = [decoder EXCEPT !.ring = SubSeq(wire, 1, n)]
  /\ wire' = SubSeq(wire, n + 1, Len(wire))
  /\ IF call.bytesRead > 0 THEN Return(call.bytesRead) ELSE UNCHANGED <<call, received>>
  /\ UNCHANGED <<encoder, taken, stale, sent, bursts>>

\* readInput() fails, or has nothing: read() returns -1, whatever it has taken.
FillFails ==
  /\ 0 \in InputCounts /\ Reading /\ decoder.ring = <<>>
  /\ call' = NoCall
  /\ UNCHANGED <<encoder, decoder, received, taken, stale, wire, sent, bursts>>

\* FrameScanner::scan() of the next word, for the preamble of a burst.
Scan ==
  LET word == Head(decoder.ring)
      rest == [decoder EXCEPT !.ring = Tail(@)]
  IN  /\ Reading /\ decoder.ring # <<>> /\ decoder.scanning
      /\ decoder' = IF decoder.cursor = 0
                    THEN [rest EXCEPT !.cursor = IF word = Sync THEN 1 ELSE 0]
                    ELSE [rest EXCEPT !.cursor = 0, !.pending = word[2], !.scanning = FALSE]
      /\ UNCHANGED <<encoder, call, received, taken, stale, wire, sent, bursts>>

\* Slip: a turn may take what belongs to the next burst.
TakenIgnoringEnd == Min({call.numBytes, Len(decoder.ring)})

\* How much a turn takes: numBytes is what the call was asked for.
Taken == Min({call.numBytes, Len(decoder.ring), decoder.pending})

\* A turn of read() with payload.  buf moves by all that was read in the call, and
\* is indexed with it as well.
ReadPayload ==
  LET memory == [i \in 1 .. Max({Len(call.memory), call.buf + call.bytesRead + Taken}) |->
                   IF i - call.buf - call.bytesRead \in 1 .. Taken
                   THEN decoder.ring[i - call.buf - call.bytesRead]
                   ELSE IF i =< Len(call.memory) THEN call.memory[i] ELSE Zero]
      read   == call.bytesRead + Taken
      left   == decoder.pending - Taken
  IN  /\ Reading /\ decoder.ring # <<>> /\ ~ decoder.scanning
      /\ decoder' = [decoder EXCEPT !.ring = SubSeq(@, Taken + 1, Len(@)),
                                    !.pending = left, !.scanning = left = 0]
      /\ call' = [call EXCEPT !.bytesRead = read, !.buf = @ + read, !.memory = memory]
      /\ taken' = taken \o SubSeq(decoder.ring, 1, Taken)
      /\ UNCHANGED <<encoder, received, stale, wire, sent, bursts>>

\* read() has got all it was asked for.
Done ==
  /\ call # NoCall /\ ~ Reading
  /\ Return(call.numBytes)
  /\ UNCHANGED <<encoder, decoder, taken, stale, wire, sent, bursts>>

\* SPDIFDecoder::reset() between calls: the rest of the payload is skipped.  The ring
\* keeps what it has, though it is said to be discarded (SPDIFDecoder.h:66).
DecoderReset ==
  /\ call = NoCall
  /\ decoder' = [decoder EXCEPT !.pending = 0, !.scanning = TRUE]
  /\ sent' = SubSeq(sent, 1, Len(taken))
             \o SubSeq(sent, Len(taken) + decoder.pending + 1, Len(sent))
  /\ stale' = (stale \/ decoder.ring # <<>>)
  /\ UNCHANGED <<encoder, call, received, taken, wire, bursts>>

Next ==
  \/ \E size \in FrameSizes : WriteHeader(size)
  \/ \E n \in 0 .. mPayloadBytesPending : WritePayload(n)
  \/ Reset
  \/ \E n \in ReadSizes : Read(n)
  \/ (\E n \in InputCounts : Fill(n)) \/ FillFails
  \/ Scan \/ ReadPayload \/ Done \/ DecoderReset

Spec == Init /\ [][Next]_vars

-----------------------------------------------------------------------------
(* Properties *)

\* The payload of what is between the end points: the rest of a payload, then bursts.
PayloadOf(words, pending, cursor) ==
  FoldLeft(LAMBDA p, w :
             IF p.pending > 0 THEN [p EXCEPT !.pending = @ - 1, !.payload = Append(@, w)]
             ELSE IF p.cursor = 1 THEN [p EXCEPT !.cursor = 0, !.pending = w[2]]
             ELSE [p EXCEPT !.cursor = IF w = Sync THEN 1 ELSE 0],
           [pending |-> pending, cursor |-> cursor, payload |-> <<>>], words).payload

\* No word of a frame is lost, repeated or moved between the client of the encoder and
\* the ring of the decoder, whatever the sizes of writes, reads and inputs: a burst may
\* come in several refills, and a refill have parts of two bursts.
PayloadConserved ==
  taken \o PayloadOf(decoder.ring \o wire, decoder.pending, decoder.cursor)
        \o SubSeq(mBurstBuffer, Len(Preamble) + 1, Len(mBurstBuffer)) = sent

\* buf is where the call began to write its payload, and past it once the call has met
\* a second burst.
OneBurst == call.buf =< call.bytesRead

\* The client's buffer begins with the payload that the call has taken.
CallIntact ==
  SubSeq(call.memory, 1, call.bytesRead)
    = SubSeq(taken, Len(taken) - call.bytesRead + 1, Len(taken))

\* A burst of E-AC3 has the frames of BlocksPerBurst blocks of each substream, one
\* of AC3 a frame (the comment on isFirstInBurst()).
BurstsComplete ==
  \A i \in DOMAIN bursts :
    Cardinality(bursts[i]) = IF Eac3 THEN Substreams * (BlocksPerBurst \div BlocksPerFrame) ELSE 1

\* Bursts are complete, their payload is taken as it was sent, and a call that meets
\* one burst has it in its buffer.  Nothing is said once the decoder was reset with words
\* in its ring: the header and the code disagree about them.
LinkDelivers ==
  /\ BurstsComplete
  /\ ~ stale => PayloadConserved
  /\ OneBurst => CallIntact

\* What read() returns is what was sent, in order (SPDIFDecoder.h, the comment on
\* the class).
FramesArriveIntact == IsPrefix(received, sent)
=============================================================================
