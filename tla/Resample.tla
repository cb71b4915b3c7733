------------------------------ MODULE Resample ------------------------------
(***************************************************************************)
(* The conversion of the sample rate before the DAC:                       *)
(* components/codec/utility/audio_resample.c, and duer_audio_dac_start_play *)
(* and duer_audio_dac_write of components/player/bds_player.c, which call  *)
(* it block by block.  RESAMPLE keeps, between two blocks, how many frames *)
(* came in and went out, and the last frames that came in.                 *)
(*                                                                         *)
(* A sample is <<frame, channel>>: which sample of the stream it is.  A    *)
(* sample that was put out is the set of the samples it is the mean of,    *)
(* each with its weight; its value, and that the mean is cut off at the    *)
(* limits of a short, are left out.  The place of an output frame, which   *)
(* the code computes in single precision, is the exact quotient: for rates *)
(* from 8 to 48 kHz into 48 kHz its integer part is exact as long as the   *)
(* counters stay below 60000 (CountersBounded).                            *)
(*                                                                         *)
(* One task plays.  The tests of this firmware play at 48 kHz in mono, that *)
(* is without interpolation; the driver takes any other rate.              *)
(***************************************************************************)
EXTENDS Integers, Sequences

CONSTANTS
    Streams,     \* streams: [via, src, tar, idx, heard]
    Sizes,       \* samples that one call is given
    MaxFrames    \* bound: frames of a stream that come in

\* Entry points: resampling_process for one and for two channels, one channel
\* made two, and channel idx out of two.
Vias == {"mono", "dual", "up_channel", "down_channel"}

InChannels(s)  == IF s.via \in {"dual", "down_channel"} THEN 2 ELSE 1
OutChannels(s) == IF s.via \in {"dual", "up_channel"} THEN 2 ELSE 1
Heard(s)       == IF s.via = "dual" THEN {0, 1} ELSE {s.idx}

ASSUME StreamAssumption ==
    \A s \in Streams :
        /\ s.via \in Vias
        /\ s.src \in Nat \ {0}
        /\ s.tar \in Nat \ {0}
        /\ s.idx \in 0 .. InChannels(s) - 1
        /\ s.heard = Heard(s)

\* A block is not longer than a second of sound.
ASSUME SizeAssumption ==
    /\ MaxFrames \in Nat
    /\ Sizes \subseteq Nat \ {0}
    /\ \A s \in Streams, size \in Sizes : size \div InChannels(s) <= s.src

VARIABLES
    stream,          \* channels and rates of the last start_play
    innum, outnum,   \* counters of RESAMPLE
    inpcm,           \* delay line of RESAMPLE
    hp,              \* hp_mem of RESAMPLE: samples that went through each filter
    pc,              \* place in the call
    frames,          \* frames of the block under way
    done,            \* frames put out of it
    left,            \* frames that are still to be made two
    outpcm,          \* what the call has put out
    fed, emitted,    \* history: frames of the stream that came in and went out
    last             \* history: what the last frame put out was made of

rvars == <<stream, innum, outnum, inpcm, hp, pc, frames, done, left, outpcm,
           fed, emitted, last>>

INPCM_DELAY_SIZE == 6

-----------------------------------------------------------------------------
\* A sample of no stream: the delay line after a memset holds silence, and the
\* memory before a block, or a buffer not yet written, holds anything.
Zero == <<-1, 0>>
Junk == <<-2, 0>>

Cells == 0 .. 2 * INPCM_DELAY_SIZE - 1
LineChannels(s) == IF s.via = "dual" THEN 2 ELSE 1
Silence == [j \in Cells |-> Zero]

NothingHeard(s) == [c \in s.heard |-> {}]

ResampleInit ==
    /\ stream \in Streams
    /\ innum = 0 /\ outnum = 0
    /\ inpcm = Silence
    /\ hp = [c \in stream.heard |-> 0]
    /\ pc = "idle"
    /\ frames = 0 /\ done = 0 /\ left = 0
    /\ outpcm = <<>>
    /\ fed = 0 /\ emitted = 0
    /\ last = NothingHeard(stream)

\* The whole of RESAMPLE is cleared.
duer_audio_dac_start_play(s) ==
    /\ pc = "idle"
    /\ stream' = s
    /\ innum' = 0 /\ outnum' = 0
    /\ inpcm' = Silence
    /\ hp' = [c \in s.heard |-> 0]
    /\ fed' = 0 /\ emitted' = 0
    /\ last' = NothingHeard(s)
    /\ frames' = 0 /\ done' = 0 /\ outpcm' = <<>>
    /\ UNCHANGED <<pc, left>>

-----------------------------------------------------------------------------
(* A call: duer_audio_dac_write, and the entry point that it goes to. *)

\* Two channels need an even number of samples: otherwise nothing is put out.
Refuse(size) ==
    /\ pc = "idle"
    /\ size % InChannels(stream) # 0
    /\ frames' = 0 /\ done' = 0 /\ outpcm' = <<>>
    /\ UNCHANGED <<stream, innum, outnum, inpcm, hp, pc, left, fed, emitted, last>>

Call(size) ==
    /\ pc = "idle"
    /\ size % InChannels(stream) = 0
    /\ frames' = size \div InChannels(stream)
    /\ done' = 0 /\ outpcm' = <<>>
    /\ fed' = fed + frames'
    /\ fed' <= MaxFrames
    /\ pc' = IF stream.src = stream.tar THEN "copy" ELSE "interpolate"
    /\ UNCHANGED <<stream, innum, outnum, inpcm, hp, left, emitted, last>>

\* Cell k of the block that is given.
In(k) == IF k < 0 THEN Junk
         ELSE <<fed - frames + k \div InChannels(stream), k % InChannels(stream)>>

\* The cell of the block with channel c of its frame m.
BlockCell(m, c) == InChannels(stream) * m + IF InChannels(stream) = 2 THEN c ELSE 0

\* A frame goes to the end of what was put out, channel by channel.
Put(frame) ==
    /\ outpcm' = outpcm \o IF stream.via = "dual" THEN <<frame[0], frame[1]>>
                           ELSE <<frame[stream.idx]>>
    /\ done' = done + 1
    /\ emitted' = emitted + 1
    /\ last' = frame

\* Where a call goes on when the block is converted.
GoOn ==
    /\ pc' = IF stream.via = "up_channel" THEN "double" ELSE "idle"
    /\ left' = IF stream.via = "up_channel" THEN done ELSE left

\* Equal rates: the samples are copied, and RESAMPLE is left alone.
Copy ==
    /\ pc = "copy"
    /\ \/ /\ done < frames
          /\ Put([c \in stream.heard |-> {In(BlockCell(done, c)) \o <<stream.tar>>}])
          /\ UNCHANGED <<pc, left>>
       \/ /\ done = frames
          /\ GoOn
          /\ UNCHANGED <<done, outpcm, emitted, last>>
    /\ UNCHANGED <<stream, innum, outnum, inpcm, hp, frames, fed>>

-----------------------------------------------------------------------------
(* resampling_mono, resampling_dual and resampling_dual_down_ch. *)

\* Place of the next output frame: its frame n in the block, and the weight of
\* the frame after that one.
Scaled == stream.src * (outnum + done)
n    == Scaled \div stream.tar - innum
Rest == Scaled % stream.tar

\* Channel c of frame m: from the delay line or from the block.
SampleAt(m, c) ==
    IF m < 0
    THEN inpcm[LineChannels(stream) * (INPCM_DELAY_SIZE + m)
               + IF stream.via = "dual" THEN c ELSE 0]
    ELSE In(BlockCell(m, c))

Interpolated ==
    [c \in stream.heard |->
        {SampleAt(n, c) \o <<stream.tar - Rest>>}
            \cup IF Rest = 0 THEN {} ELSE {SampleAt(n + 1, c) \o <<Rest>>}]

\* Broken variant for testing WithinOutput: the last frame is taken twice.
BlockReadLate == n > frames

BlockRead == n + 1 >= frames

Interpolate ==
    /\ pc = "interpolate"
    /\ ~BlockRead
    /\ Put(Interpolated)
    /\ UNCHANGED <<stream, innum, outnum, inpcm, hp, pc, frames, left, fed>>

\* Broken variant for testing SoundGoesThrough: the first frames of the block are kept.
KeptFirst ==
    [j \in Cells |->
        CASE stream.via = "dual"  -> In(j)
          [] stream.via # "dual" /\ j < INPCM_DELAY_SIZE -> In(BlockCell(j, stream.idx))
          [] OTHER -> inpcm[j]]

\* The last frames of the block, as the delay line keeps them.
Kept ==
    [j \in Cells |->
        CASE stream.via = "dual"  -> In(2 * (frames - INPCM_DELAY_SIZE) + j)
          [] stream.via # "dual" /\ j < INPCM_DELAY_SIZE ->
                 In(BlockCell(frames - INPCM_DELAY_SIZE + j, stream.idx))
          [] OTHER -> inpcm[j]]

\* Broken variant for testing ResampleTypeOK: one counter is looked at.
WrapsEarly(in, out) == in >= stream.src

\* Broken variant for testing CountersBounded: the counters must be past a second.
WrapsLate(in, out) == in > stream.src /\ out > stream.tar

\* Both counters are taken back by one second of sound.
Wraps(in, out) == in >= stream.src /\ out >= stream.tar

\* The end of the block: resampling_process_mono and its two likes.
EndOfBlock ==
    /\ pc = "interpolate"
    /\ BlockRead
    /\ inpcm' = Kept
    /\ LET in   == innum + frames
           out  == outnum + done
           wrap == Wraps(in, out)
       IN  /\ innum' = IF wrap THEN in - stream.src ELSE in
           /\ outnum' = IF wrap THEN out - stream.tar ELSE out
    /\ pc' = "filter"
    /\ UNCHANGED <<stream, hp, frames, done, left, outpcm, fed, emitted, last>>

\* Broken variant for testing FilterKeepsUp: frames are taken for samples.
FilterHalf ==
    /\ pc = "filter"
    /\ hp' = [c \in stream.heard |-> hp[c] + done \div LineChannels(stream)]
    /\ GoOn
    /\ UNCHANGED <<stream, innum, outnum, inpcm, frames, done, outpcm, fed, emitted, last>>

\* dc_reject_mono and dc_reject_dual: the samples put out go through the filter
\* of their channel, in place.
Filter ==
    /\ pc = "filter"
    /\ hp' = [c \in stream.heard |-> hp[c] + done]
    /\ GoOn
    /\ UNCHANGED <<stream, innum, outnum, inpcm, frames, done, outpcm, fed, emitted, last>>

-----------------------------------------------------------------------------
(* resampling_process_up_channel: each sample is made two, in place. *)

Doubled(pcm, at) ==
    [k \in 1 .. IF Len(pcm) < 2 * at + 2 THEN 2 * at + 2 ELSE Len(pcm) |->
        CASE k \in {2 * at + 1, 2 * at + 2} -> pcm[at + 1]
          [] k \notin {2 * at + 1, 2 * at + 2} /\ k <= Len(pcm) -> pcm[k]
          [] OTHER -> {Junk}]

\* Broken variant for testing OutputWhole: beginning with the first sample.
DoubleUp ==
    /\ pc = "double"
    /\ \/ left > 0 /\ outpcm' = Doubled(outpcm, done - left) /\ left' = left - 1 /\ UNCHANGED pc
       \/ left = 0 /\ pc' = "idle" /\ UNCHANGED <<outpcm, left>>
    /\ UNCHANGED <<stream, innum, outnum, inpcm, hp, frames, done, fed, emitted, last>>

\* The last sample is the first to be doubled.
Double ==
    /\ pc = "double"
    /\ \/ left > 0 /\ outpcm' = Doubled(outpcm, left - 1) /\ left' = left - 1 /\ UNCHANGED pc
       \/ left = 0 /\ pc' = "idle" /\ UNCHANGED <<outpcm, left>>
    /\ UNCHANGED <<stream, innum, outnum, inpcm, hp, frames, done, fed, emitted, last>>

ResampleNext ==
    \/ \E s \in Streams : duer_audio_dac_start_play(s)
    \/ \E size \in Sizes : Refuse(size) \/ Call(size)
    \/ Copy \/ Interpolate \/ EndOfBlock \/ Filter \/ Double

ResampleSpec == ResampleInit /\ [][ResampleNext]_rvars

-----------------------------------------------------------------------------
\* Every variable keeps its type; the delay line always has a sample, or
\* something else, in every cell.
ResampleTypeOK ==
    /\ stream \in Streams
    /\ innum \in Nat /\ outnum \in Nat
    /\ inpcm \in [Cells -> Int \X {0, 1}]
    /\ hp \in [stream.heard -> Nat]
    /\ pc \in {"idle", "copy", "interpolate", "filter", "double"}
    /\ frames \in Nat /\ done \in Nat /\ left \in 0 .. done
    /\ fed \in frames .. MaxFrames /\ emitted \in Nat
    /\ DOMAIN last = stream.heard

Stream == INSTANCE SampleStream

\* However the sound is cut into blocks, each frame that is put out is the mean
\* of the two frames of the stream around its place (or the one at it), rightly
\* weighted and of its own channel, with none left out or repeated at the end
\* of a block, when the counters are taken back, or when another stream begins:
\* the conversion implements SampleStream.
SoundGoesThrough == Stream!StreamSpec

\* The samples of a call fit in what the ratio of the rates gives, rounded up:
\* the size of output_buf_16 rests on it.  A block that is doubled also fits.
WithinOutput ==
    stream.src * Len(outpcm) <=
        OutChannels(stream) * (stream.tar * frames + stream.src - 1)

\* When a call returns, the buffer holds every frame it put out, in order, each
\* with as many samples as there are output channels: one sample made two in
\* place has destroyed no other.
OutputWhole ==
    pc = "idle" =>
        /\ Len(outpcm) = OutChannels(stream) * done
        /\ \A k \in 1 .. Len(outpcm) :
               outpcm[k] = Stream!HeardAt(stream,
                               emitted - done + (k - 1) \div OutChannels(stream))
                               [IF stream.via = "dual" THEN (k - 1) % 2 ELSE stream.idx]

\* The counters are taken back before they are more than a second, so that a
\* stream of any length keeps the places of its frames exact, and nothing but
\* the last frame of a block waits for the next one.
CountersBounded ==
    pc = "idle" =>
        /\ innum <= stream.src
        /\ outnum <= stream.tar
        /\ stream.src = stream.tar => emitted = fed
        /\ stream.src # stream.tar => stream.tar * (fed - 1) <= stream.src * emitted

\* When a call returns, the filter of each channel has seen every frame that
\* was interpolated once: no channel is behind the other.
FilterKeepsUp ==
    pc = "idle" => \A c \in stream.heard :
        hp[c] = IF stream.src = stream.tar THEN 0 ELSE emitted

=============================================================================
