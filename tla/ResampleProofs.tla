--------------------------- MODULE ResampleProofs ---------------------------
(***************************************************************************)
(* What the conversion of Resample keeps for any rates, any sizes of the   *)
(* blocks and streams of any length: a block never yields more than the    *)
(* ratio of the rates allows, the counters stay within a second, and the   *)
(* sound that goes in comes out.                                           *)
(***************************************************************************)
EXTENDS Resample, TLAPS, SequenceTheorems

-----------------------------------------------------------------------------
(* Arithmetic of two rates: products of a rate and a counter.              *)

LEMMA TimesMono ==
    ASSUME NEW t \in Nat, NEW a \in Int, NEW b \in Int, a <= b
    PROVE  t * a <= t * b
<1>1. t * b = t * a + t * (b - a)
  OBVIOUS
<1>2. t * (b - a) >= 0
  OBVIOUS
<1> QED
  BY <1>1, <1>2

LEMMA TimesCancel ==
    ASSUME NEW t \in Nat \ {0}, NEW a \in Int, NEW b \in Int, t * a < t * b
    PROVE  a < b
<1> SUFFICES ASSUME b <= a PROVE FALSE
  OBVIOUS
<1> QED
  BY TimesMono

\* A place and its remainder, by the division that the code does in floats.
LEMMA DivMod ==
    ASSUME NEW a \in Int, NEW t \in Nat \ {0}
    PROVE  /\ a \div t \in Int /\ a % t \in 0 .. t - 1
           /\ a = t * (a \div t) + (a % t)
OBVIOUS

\* Which places lie before frame m.
LEMMA PlaceBefore ==
    ASSUME NEW a \in Int, NEW t \in Nat \ {0}, NEW m \in Int
    PROVE  (a \div t < m) <=> (a < t * m)
<1> DEFINE q == a \div t
           r == a % t
<1>1. q \in Int /\ r \in 0 .. t - 1 /\ a = t * q + r
  BY DivMod
<1> HIDE DEF q, r
<1>2. ASSUME q < m PROVE a < t * m
  <2>1. t * (q + 1) <= t * m
    BY <1>1, <1>2, TimesMono
  <2>2. t * (q + 1) = t * q + t
    BY <1>1
  <2> QED
    BY <1>1, <2>1, <2>2
<1>3. ASSUME a < t * m PROVE q < m
  <2>1. t * q < t * m
    <3>1. t * q \in Int /\ t * m \in Int
      BY <1>1
    <3> QED
      BY <1>1, <1>3, <3>1
  <2> QED
    BY <1>1, <2>1, TimesCancel
<1> QED
  BY <1>2, <1>3 DEF q

\* Whole seconds move a place by whole frames.
LEMMA PlaceShift ==
    ASSUME NEW a \in Int, NEW t \in Nat \ {0}, NEW z \in Int
    PROVE  /\ (a + t * z) \div t = a \div t + z
           /\ (a + t * z) % t = a % t
<1> DEFINE q == a \div t
           r == a % t
           b == a + t * z
           p == b \div t
<1>1. q \in Int /\ r \in 0 .. t - 1 /\ a = t * q + r
  BY DivMod
<1>2. b \in Int /\ p \in Int /\ b % t \in 0 .. t - 1 /\ b = t * p + (b % t)
  BY DivMod
<1>3. b = t * (q + z) + r
  BY <1>1
<1>4. p = q + z
  <2>1. b < t * (q + z + 1)
    BY <1>1, <1>3
  <2>2. p < q + z + 1
    <3>1. q + z + 1 \in Int
      BY <1>1
    <3> QED
      BY <1>2, <2>1, <3>1, PlaceBefore
  <2>3. ~(b < t * (q + z))
    BY <1>1, <1>3
  <2>4. ~(p < q + z)
    <3>1. q + z \in Int
      BY <1>1
    <3> QED
      BY <1>2, <2>3, <3>1, PlaceBefore
  <2> QED
    BY <1>1, <1>2, <2>2, <2>4
<1>5. b % t = r
  BY <1>1, <1>2, <1>3, <1>4
<1> QED
  BY <1>4, <1>5

-----------------------------------------------------------------------------
(* The counters.                                                           *)

\* What is known of a stream.
LEMMA StreamFacts ==
    ASSUME NEW s \in Streams
    PROVE  /\ s.src \in Nat \ {0} /\ s.tar \in Nat \ {0}
           /\ s.via \in Vias /\ s.idx \in 0 .. InChannels(s) - 1
           /\ InChannels(s) \in {1, 2} /\ OutChannels(s) \in {1, 2}
           /\ s.heard = (IF s.via = "dual" THEN {0, 1} ELSE {s.idx})
           /\ s.heard \subseteq 0 .. InChannels(s) - 1
BY StreamAssumption DEF InChannels, OutChannels, Heard

Ints == /\ innum \in Nat /\ outnum \in Nat
        /\ frames \in Nat /\ done \in Nat /\ left \in 0 .. done
        /\ pc # "double" => left = 0
        /\ fed \in frames .. MaxFrames /\ emitted \in Nat
        /\ stream \in Streams
        /\ pc \in {"idle", "copy", "interpolate", "filter", "double"}

\* Frames of the stream that the counters stand for: the block under way is
\* counted at its end.
Came == IF pc = "interpolate" THEN fed - frames ELSE fed
Went == IF pc = "interpolate" THEN emitted - done ELSE emitted

\* The counters differ from the frames that came and went by whole seconds, and
\* nothing but the last frame waits; the last frame put out was complete.
Places ==
    stream.src # stream.tar =>
        /\ stream.tar * (Came - innum) = stream.src * (Went - outnum)
        /\ stream.tar * (innum - 1) <= stream.src * outnum
        /\ innum <= stream.src
        /\ outnum <= stream.tar
        /\ pc = "interpolate" /\ done > 0 =>
               stream.src * (outnum + done - 1) < stream.tar * (innum + frames - 1)

\* A copy keeps no counters.
Copied ==
    /\ stream.src = stream.tar =>
           /\ innum = 0 /\ outnum = 0 /\ pc \notin {"interpolate", "filter"}
           /\ emitted = IF pc = "copy" THEN fed - frames + done ELSE fed
           /\ done <= frames
    /\ pc = "copy" => stream.src = stream.tar
    /\ pc # "idle" => frames \in 1 .. stream.src

\* What a block yields.
Yield == stream.src * done <= stream.tar * frames + stream.src - 1

CounterInv == Ints /\ Places /\ Copied /\ Yield

\* A block of a stream.
LEMMA BlockSize ==
    ASSUME NEW s \in Streams, NEW size \in Sizes, size % InChannels(s) = 0
    PROVE  size \div InChannels(s) \in 1 .. s.src
<1>1. size \in Nat \ {0} /\ size \div InChannels(s) <= s.src
  BY SizeAssumption
<1>2. CASE InChannels(s) = 1
  BY <1>1, <1>2, StreamFacts
<1>3. CASE InChannels(s) = 2
  BY <1>1, <1>3, StreamFacts
<1> QED
  BY <1>2, <1>3, StreamFacts

\* A stream begins, or a block is refused.
LEMMA CountBegin ==
    ASSUME CounterInv
    PROVE  /\ \A s \in Streams : duer_audio_dac_start_play(s) => CounterInv'
           /\ \A size \in Sizes : Refuse(size) => CounterInv'
<1>1. ASSUME NEW s \in Streams, duer_audio_dac_start_play(s) PROVE CounterInv'
  <2>1. /\ pc = "idle" /\ pc' = "idle" /\ stream' = s /\ innum' = 0 /\ outnum' = 0
        /\ fed' = 0 /\ emitted' = 0 /\ frames' = 0 /\ done' = 0 /\ left' = left
    BY <1>1 DEF duer_audio_dac_start_play
  <2>2. s.src \in Nat \ {0} /\ s.tar \in Nat \ {0} /\ MaxFrames \in Nat
    BY StreamFacts, SizeAssumption
  <2> QED
    BY <2>1, <2>2 DEF CounterInv, Ints, Places, Copied, Yield, Came, Went
<1>2. ASSUME NEW size \in Sizes, Refuse(size) PROVE CounterInv'
  <2>1. /\ pc = "idle" /\ frames' = 0 /\ done' = 0
        /\ UNCHANGED <<stream, innum, outnum, pc, left, fed, emitted>>
    BY <1>2 DEF Refuse
  <2>2. stream.src \in Nat \ {0} /\ stream.tar \in Nat \ {0} /\ MaxFrames \in Nat
    BY StreamFacts, SizeAssumption DEF CounterInv, Ints
  <2> QED
    BY <2>1, <2>2 DEF CounterInv, Ints, Places, Copied, Yield, Came, Went
<1> QED
  BY <1>1, <1>2

\* Frames that came in before a block of g frames, and with it.
LEMMA FedGrows ==
    ASSUME NEW f \in Nat, NEW g \in Nat, NEW m \in Nat, f + g <= m
    PROVE  /\ f + g \in g .. m /\ f + g \in Nat
           /\ (f + g) - g = f /\ (f + g) - g + 0 = f
OBVIOUS

LEMMA PlusMinus ==
    ASSUME NEW f \in Nat, NEW g \in Nat
    PROVE  (f + g) - g = f /\ (g # 0 => f + g > f)
OBVIOUS

\* A call begins.
LEMMA CountCall ==
    ASSUME CounterInv, NEW size \in Sizes, Call(size)
    PROVE  CounterInv'
<1>1. stream.src \in Nat \ {0} /\ stream.tar \in Nat \ {0} /\ MaxFrames \in Nat
  BY StreamFacts, SizeAssumption DEF CounterInv, Ints
<1>2. frames' \in 1 .. stream.src
  <2>1. size \div InChannels(stream) \in 1 .. stream.src
    BY BlockSize DEF Call, CounterInv, Ints
  <2> QED
    BY <1>1, <2>1 DEF Call
<1>3. frames' \in Nat \ {0} /\ MaxFrames \in Nat
  BY <1>1, <1>2
<1>4. /\ pc = "idle" /\ done' = 0 /\ fed' = fed + frames' /\ fed' <= MaxFrames
      /\ stream' = stream /\ innum' = innum /\ outnum' = outnum
      /\ left' = left /\ emitted' = emitted
  BY DEF Call
<1>5. /\ stream.src = stream.tar => pc' = "copy"
      /\ stream.src # stream.tar => pc' = "interpolate"
  BY DEF Call
<1>6. pc' \in {"copy", "interpolate"}
  BY <1>5
<1>b. fed \in Nat /\ emitted \in Nat /\ left = 0
  BY <1>1, <1>4 DEF CounterInv, Ints
<1>c. /\ fed' \in frames' .. MaxFrames
      /\ fed' - frames' = fed /\ fed' - frames' + 0 = fed
  <2>1. fed + frames' <= MaxFrames
    BY ONLY <1>4, Zenon
  <2>2. /\ fed + frames' \in frames' .. MaxFrames
        /\ (fed + frames') - frames' = fed /\ (fed + frames') - frames' + 0 = fed
    BY ONLY <1>3, <1>b, <2>1, FedGrows, Zenon
  <2> QED
    BY ONLY <1>4, <2>2, Zenon
<1>7. Ints'
  <2>1. left' \in 0 .. done' /\ frames' \in Nat /\ done' \in Nat /\ left' = 0
    BY <1>3, <1>4, <1>b
  <2>2. /\ innum' \in Nat /\ outnum' \in Nat /\ emitted' \in Nat /\ stream' \in Streams
        /\ pc' \in {"idle", "copy", "interpolate", "filter", "double"}
    BY <1>4, <1>6 DEF CounterInv, Ints
  <2> QED
    BY ONLY <1>c, <2>1, <2>2, Zenon DEF Ints
<1>8. pc' = "interpolate" => Came' = Came /\ Went' = Went
  <2>1. emitted' - done' = emitted
    BY ONLY <1>4, <1>b
  <2> QED
    BY <1>4, <1>c, <2>1, Zenon DEF Came, Went
<1>9. Places'
  BY <1>4, <1>5, <1>8 DEF CounterInv, Places
<1>10. Copied'
  <2>1. pc' # "idle" => frames' \in 1 .. stream'.src
    BY <1>2, <1>4
  <2>2. pc' = "copy" => stream'.src = stream'.tar
    BY <1>4, <1>5
  <2>3. ASSUME stream.src = stream.tar
        PROVE  /\ innum' = 0 /\ outnum' = 0 /\ pc' = "copy"
               /\ emitted' = fed' - frames' + done'
               /\ done' <= frames'
    <3>1. innum = 0 /\ outnum = 0 /\ emitted = fed
      BY <1>4, <2>3 DEF CounterInv, Copied
    <3>2. 0 <= frames'
      BY <1>3
    <3> QED
      BY <1>4, <1>5, <1>c, <2>3, <3>1, <3>2, Zenon
  <2> QED
    BY <1>4, <2>1, <2>2, <2>3 DEF Copied
<1>11. Yield'
  <2>1. stream.tar * frames' >= 0
    BY <1>1, <1>3
  <2> QED
    BY <1>1, <1>3, <1>4, <2>1 DEF Yield
<1> QED
  BY <1>7, <1>9, <1>10, <1>11 DEF CounterInv

\* A frame is put out: when it is complete, the block does not yield too much.
LEMMA CountPut ==
    ASSUME CounterInv, Copy \/ Interpolate
    PROVE  CounterInv'
<1>1. stream.src \in Nat \ {0} /\ stream.tar \in Nat \ {0} /\ MaxFrames \in Nat
  BY StreamFacts, SizeAssumption DEF CounterInv, Ints
<1>2. CASE Copy /\ done < frames
  <2>1. /\ pc = "copy" /\ pc' = "copy" /\ done' = done + 1 /\ emitted' = emitted + 1
        /\ UNCHANGED <<stream, innum, outnum, frames, left, fed>>
    <3>1. done # frames
      BY <1>2 DEF CounterInv, Ints
    <3> QED
      BY <1>2, <3>1, Zenon DEF Copy, Put
  <2>2. stream.src = stream.tar
    BY <2>1 DEF CounterInv, Copied
  <2>3. Yield'
    <3>1. stream.src * (done + 1) <= stream.tar * frames
      BY <1>1, <1>2, <2>2, TimesMono DEF CounterInv, Ints
    <3>2. stream.tar * frames \in Int /\ stream.src * (done + 1) \in Int
      BY <1>1 DEF CounterInv, Ints
    <3> QED
      BY <1>1, <2>1, <3>1, <3>2 DEF Yield
  <2>4. Ints'
    BY <1>2, <2>1 DEF CounterInv, Ints
  <2>5. Copied'
    BY <1>2, <2>1, <2>2 DEF CounterInv, Copied, Ints
  <2> QED
    BY <2>1, <2>2, <2>3, <2>4, <2>5 DEF CounterInv, Places
<1>3. CASE Copy /\ done = frames
  <2>1. /\ pc = "copy" /\ pc' \in {"double", "idle"} /\ left' \in 0 .. done
        /\ pc' # "double" => left' = left
        /\ UNCHANGED <<stream, innum, outnum, frames, done, fed, emitted>>
    <3>1. ~(done < frames) /\ done \in 0 .. done /\ left \in 0 .. done
      BY <1>3 DEF CounterInv, Ints
    <3>2. /\ pc = "copy" /\ GoOn
          /\ UNCHANGED <<stream, innum, outnum, frames, done, fed, emitted>>
      BY <1>3, <3>1, Zenon DEF Copy
    <3> QED
      BY <3>1, <3>2 DEF GoOn
  <2>2. stream.src = stream.tar
    BY <2>1 DEF CounterInv, Copied
  <2>3. Ints' /\ Copied' /\ Yield'
    BY <1>3, <2>1, <2>2 DEF CounterInv, Ints, Copied, Yield
  <2> QED
    BY <2>1, <2>2, <2>3 DEF CounterInv, Places
<1>4. CASE Interpolate
  <2>1. /\ pc = "interpolate" /\ done' = done + 1 /\ emitted' = emitted + 1
        /\ UNCHANGED <<stream, innum, outnum, pc, frames, left, fed>>
        /\ n + 1 < frames
    <3>1. n \in Int /\ frames \in Nat
      <4>1. Scaled \in Int /\ innum \in Nat /\ frames \in Nat
        BY <1>1 DEF Scaled, CounterInv, Ints
      <4> QED
        BY <1>1, <4>1, DivMod DEF n
    <3> QED
      BY <1>4, <3>1 DEF Interpolate, Put, BlockRead
  <2>2. stream.src # stream.tar
    BY <2>1 DEF CounterInv, Copied
  <2>3. stream.src * (outnum + done) < stream.tar * (innum + frames - 1)
    <3> DEFINE m == innum + frames - 1
    <3>1. m \in Int /\ Scaled \in Int
      BY <1>1 DEF Scaled, CounterInv, Ints
    <3>2. Scaled \div stream.tar < m
      <4>1. Scaled \div stream.tar \in Int
        BY <1>1, <3>1, DivMod
      <4> QED
        BY <2>1, <4>1 DEF n, CounterInv, Ints
    <3>3. Scaled < stream.tar * m
      BY <1>1, <3>1, <3>2, PlaceBefore
    <3> QED
      BY <3>3 DEF Scaled
  <2>4. Ints'
    BY <2>1 DEF CounterInv, Ints
  <2>5. Places'
    <3>1. Came' = Came /\ Went' = Went
      BY <2>1 DEF Came, Went, CounterInv, Ints
    <3> QED
      BY <2>1, <2>3, <3>1 DEF CounterInv, Places, Ints
  <2>6. Yield'
    <3> DEFINE a == stream.src * outnum
               b == stream.src * done
               c == stream.tar * (innum - 1)
               d == stream.tar * frames
    <3>1. a \in Int /\ b \in Int /\ c \in Int /\ d \in Int
      BY <1>1 DEF CounterInv, Ints
    <3>2. a + b < c + d
      BY <1>1, <2>3 DEF CounterInv, Ints
    <3>3. c <= a
      BY <2>2 DEF CounterInv, Places
    <3>4. stream.src * (done + 1) = b + stream.src
      BY <1>1 DEF CounterInv, Ints
    <3> HIDE DEF a, b, c
    <3>5. b + stream.src <= d + stream.src - 1
      BY <1>1, <3>1, <3>2, <3>3
    <3> QED
      BY <2>1, <3>4, <3>5 DEF Yield
  <2> QED
    BY <2>1, <2>2, <2>4, <2>5, <2>6 DEF CounterInv, Copied
<1> QED
  BY <1>2, <1>3, <1>4 DEF Copy

\* Counters of which one or both are past a second, and what is left of them.
LEMMA SecondTaken ==
    ASSUME NEW S \in Nat \ {0}, NEW T \in Nat \ {0}, NEW in \in Nat, NEW out \in Nat,
           in <= 2 * S, T * (in - 1) <= S * out,
           out <= T \/ S * (out - 1) < T * (in - 1)
    PROVE  /\ ~(in >= S /\ out >= T) => in <= S /\ out <= T
           /\ (in >= S /\ out >= T) =>
                  /\ in - S \in Nat /\ in - S <= S
                  /\ out - T \in Nat /\ out - T <= T
                  /\ T * ((in - S) - 1) <= S * (out - T)
<1>1. ASSUME out < T PROVE in <= S
  <2>1. S * out <= S * (T - 1)
    BY <1>1, TimesMono
  <2>2. S * (T - 1) = S * T - S /\ T * S = S * T
    OBVIOUS
  <2>3. T * (in - 1) < T * S
    <3>1. S * T \in Int /\ S * out \in Int /\ T * (in - 1) \in Int
      OBVIOUS
    <3> QED
      BY <2>1, <2>2, <3>1
  <2>4. in - 1 < S
    BY <2>3, TimesCancel
  <2> QED
    BY <2>4
<1>2. ASSUME in < S PROVE out <= T
  <2> SUFFICES ASSUME S * (out - 1) < T * (in - 1) PROVE out <= T
    OBVIOUS
  <2>1. T * (in - 1) <= T * S
    BY <1>2, TimesMono
  <2>2. S * (out - 1) < S * T
    <3>1. S * T \in Int /\ T * S = S * T /\ S * (out - 1) \in Int /\ T * (in - 1) \in Int
      OBVIOUS
    <3> QED
      BY <2>1, <3>1
  <2>3. out - 1 < T
    BY <2>2, TimesCancel
  <2> QED
    BY <2>3
<1>3. out <= 2 * T
  <2> SUFFICES ASSUME S * (out - 1) < T * (in - 1) PROVE out <= 2 * T
    OBVIOUS
  <2>1. T * (in - 1) <= T * (2 * S)
    BY TimesMono
  <2>2. S * (out - 1) < S * (2 * T)
    <3>1. S * (2 * T) \in Int /\ T * (2 * S) = S * (2 * T)
          /\ S * (out - 1) \in Int /\ T * (in - 1) \in Int
      OBVIOUS
    <3> QED
      BY <2>1, <3>1
  <2>3. out - 1 < 2 * T
    BY <2>2, TimesCancel
  <2> QED
    BY <2>3
<1>4. T * ((in - S) - 1) <= S * (out - T)
  <2>1. /\ T * ((in - S) - 1) = T * (in - 1) - T * S
        /\ S * (out - T) = S * out - S * T
        /\ T * S = S * T
        /\ T * (in - 1) \in Int /\ S * out \in Int /\ S * T \in Int
    OBVIOUS
  <2> QED
    BY <2>1
<1> QED
  BY <1>1, <1>2, <1>3, <1>4

\* A block ends: the counters take its frames, and a second is taken off.
LEMMA CountEnd ==
    ASSUME CounterInv, EndOfBlock
    PROVE  CounterInv'
<1> DEFINE S == stream.src
           T == stream.tar
           in == innum + frames
           out == outnum + done
<1>1. S \in Nat \ {0} /\ T \in Nat \ {0} /\ MaxFrames \in Nat
  BY StreamFacts, SizeAssumption DEF CounterInv, Ints
<1>2. /\ pc = "interpolate" /\ pc' = "filter"
      /\ UNCHANGED <<stream, frames, done, left, fed, emitted>>
      /\ innum' = IF Wraps(in, out) THEN in - S ELSE in
      /\ outnum' = IF Wraps(in, out) THEN out - T ELSE out
      /\ ~(n + 1 < frames)
  <2>1. n \in Int /\ frames \in Nat
    <3>1. Scaled \in Int /\ innum \in Nat /\ frames \in Nat
      BY <1>1 DEF Scaled, CounterInv, Ints
    <3> QED
      BY <1>1, <3>1, DivMod DEF n
  <2> QED
    BY <2>1 DEF EndOfBlock, BlockRead
<1>3. S # T
  BY <1>2 DEF CounterInv, Copied
<1>4. /\ innum \in Nat /\ outnum \in Nat /\ frames \in Nat /\ done \in Nat
      /\ fed \in Nat /\ emitted \in Nat /\ fed \in frames .. MaxFrames
  BY <1>1 DEF CounterInv, Ints
<1>5. innum <= S /\ outnum <= T /\ frames \in 1 .. S
  BY <1>2, <1>3 DEF CounterInv, Places, Copied
<1>6. in \in Nat /\ out \in Nat /\ in <= 2 * S
  BY <1>1, <1>4, <1>5
<1>7. T * (in - 1) <= S * out
  <2>1. in - 1 \in Int /\ Scaled \in Int /\ T * (in - 1) \in Int /\ Scaled = S * out
    BY <1>1, <1>6 DEF Scaled
  <2>2. ~(Scaled \div T < in - 1)
    <3>1. Scaled \div T \in Int
      BY <1>1, <2>1, DivMod
    <3> QED
      BY <1>2, <1>4, <3>1 DEF n
  <2>3. ~(Scaled < T * (in - 1))
    BY <1>1, <2>1, <2>2, PlaceBefore
  <2> QED
    BY <2>1, <2>3
<1>8. out <= T \/ S * (out - 1) < T * (in - 1)
  <2>1. CASE done = 0
    BY <1>4, <1>5, <2>1
  <2>2. CASE done > 0
    <3>1. S * (outnum + done - 1) < T * (innum + frames - 1)
      BY <1>2, <1>3, <2>2, Zenon DEF CounterInv, Places
    <3>2. outnum + done - 1 = out - 1 /\ innum + frames - 1 = in - 1
      BY ONLY <1>4
    <3> QED
      BY ONLY <3>1, <3>2, Zenon
  <2> QED
    BY <1>4, <2>1, <2>2
<1>9. T * (fed - in) = S * (emitted - out)
  <2>1. T * ((fed - frames) - innum) = S * ((emitted - done) - outnum)
    BY <1>2, <1>3 DEF CounterInv, Places, Came, Went
  <2>2. (fed - frames) - innum = fed - in /\ (emitted - done) - outnum = emitted - out
    BY <1>4
  <2> QED
    BY <2>1, <2>2
<1> HIDE DEF in, out
<1>10. /\ innum' \in Nat /\ outnum' \in Nat /\ innum' <= S /\ outnum' <= T
       /\ T * (innum' - 1) <= S * outnum'
       /\ T * (fed - innum') = S * (emitted - outnum')
  <2>1. CASE Wraps(in, out)
    <3>1. /\ in - S \in Nat /\ in - S <= S /\ out - T \in Nat /\ out - T <= T
          /\ T * ((in - S) - 1) <= S * (out - T)
      BY <1>1, <1>6, <1>7, <1>8, <2>1, SecondTaken DEF Wraps
    <3>2. T * (fed - (in - S)) = S * (emitted - (out - T))
      <4>1. /\ T * (fed - (in - S)) = T * (fed - in) + T * S
            /\ S * (emitted - (out - T)) = S * (emitted - out) + S * T
            /\ T * S = S * T
        BY <1>1, <1>4, <1>6
      <4> QED
        BY <1>9, <4>1
    <3>3. innum' = in - S /\ outnum' = out - T
      BY <1>2, <2>1
    <3> QED
      BY ONLY <3>1, <3>2, <3>3, Zenon
  <2>2. CASE ~Wraps(in, out)
    <3>1. in <= S /\ out <= T
      BY <1>1, <1>6, <1>7, <1>8, <2>2, SecondTaken DEF Wraps
    <3>3. innum' = in /\ outnum' = out
      BY <1>2, <2>2
    <3> QED
      BY ONLY <1>6, <1>7, <1>9, <3>1, <3>3, Zenon
  <2> QED
    BY <2>1, <2>2
<1>11. Ints'
  BY <1>2, <1>10 DEF CounterInv, Ints
<1>12. Places'
  BY <1>2, <1>10, Zenon DEF Places, Came, Went
<1>13. Copied' /\ Yield'
  BY <1>2, <1>3 DEF CounterInv, Copied, Yield
<1> QED
  BY <1>11, <1>12, <1>13 DEF CounterInv

\* The filter and the doubling leave the counters.
LEMMA CountRest ==
    ASSUME CounterInv, Filter \/ Double
    PROVE  CounterInv'
<1>1. CASE Filter
  <2>1. /\ pc = "filter" /\ pc' \in {"double", "idle"} /\ left' \in 0 .. done
        /\ pc' # "double" => left' = left
        /\ UNCHANGED <<stream, innum, outnum, frames, done, fed, emitted>>
    BY <1>1 DEF Filter, GoOn, CounterInv, Ints
  <2> QED
    BY <2>1 DEF CounterInv, Ints, Places, Came, Went, Copied, Yield
<1>2. CASE Double
  <2>1. /\ pc = "double" /\ pc' \in {"double", "idle"} /\ left' \in 0 .. done
        /\ pc' # "double" => left' = 0
        /\ UNCHANGED <<stream, innum, outnum, frames, done, fed, emitted>>
    BY <1>2 DEF Double, CounterInv, Ints
  <2> QED
    BY <2>1 DEF CounterInv, Ints, Places, Came, Went, Copied, Yield
<1> QED
  BY <1>1, <1>2

\* The counters of RESAMPLE and the frames that came and went never part by
\* more than whole seconds and the frame that waits (resampling_process_mono and
\* its likes).
THEOREM CountersInvariant == ResampleSpec => []CounterInv
<1>1. ResampleInit => CounterInv
  <2> SUFFICES ASSUME ResampleInit PROVE CounterInv
    OBVIOUS
  <2>1. stream.src \in Nat \ {0} /\ stream.tar \in Nat \ {0} /\ MaxFrames \in Nat
    BY StreamFacts, SizeAssumption DEF ResampleInit
  <2> QED
    BY <2>1 DEF ResampleInit, CounterInv, Ints, Places, Came, Went, Copied, Yield
<1>2. CounterInv /\ [ResampleNext]_rvars => CounterInv'
  <2>1. ASSUME CounterInv, UNCHANGED rvars PROVE CounterInv'
    BY <2>1 DEF rvars, CounterInv, Ints, Places, Came, Went, Copied, Yield
  <2> QED
    BY <2>1, CountBegin, CountCall, CountPut, CountEnd, CountRest DEF ResampleNext
<1> QED
  BY <1>1, <1>2, PTL DEF ResampleSpec

\* What waits by the counters waits by the frames that came and went.
LEMMA WaitingFrame ==
    ASSUME NEW S \in Nat, NEW T \in Nat, NEW f \in Nat, NEW e \in Nat,
           NEW in \in Nat, NEW out \in Nat,
           T * (f - in) = S * (e - out), T * (in - 1) <= S * out
    PROVE  T * (f - 1) <= S * e
<1>1. T * (f - 1) = T * (f - in) + T * (in - 1)
  OBVIOUS
<1>2. S * e = S * (e - out) + S * out
  OBVIOUS
<1> QED
  BY <1>1, <1>2

\* The counters are taken back in time, for a stream of any length: between two
\* calls each is at most a second, and only the last frame of a block waits
\* (the wrap at the end of resampling_process_mono and its likes).
THEOREM CountersStay == ResampleSpec => []CountersBounded
<1>1. CounterInv => CountersBounded
  <2> SUFFICES ASSUME CounterInv, pc = "idle"
               PROVE  /\ innum <= stream.src /\ outnum <= stream.tar
                      /\ stream.src = stream.tar => emitted = fed
                      /\ stream.src # stream.tar =>
                             stream.tar * (fed - 1) <= stream.src * emitted
    BY DEF CountersBounded
  <2>1. stream.src \in Nat \ {0} /\ stream.tar \in Nat \ {0} /\ MaxFrames \in Nat
    BY StreamFacts, SizeAssumption DEF CounterInv, Ints
  <2>2. ASSUME stream.src = stream.tar
        PROVE  innum <= stream.src /\ outnum <= stream.tar /\ emitted = fed
    BY <2>1, <2>2 DEF CounterInv, Copied
  <2>3. ASSUME stream.src # stream.tar
        PROVE  /\ innum <= stream.src /\ outnum <= stream.tar
               /\ stream.tar * (fed - 1) <= stream.src * emitted
    <3> DEFINE S == stream.src
               T == stream.tar
    <3>1. /\ T * (fed - innum) = S * (emitted - outnum)
          /\ T * (innum - 1) <= S * outnum
          /\ innum <= S /\ outnum <= T
      BY <2>3 DEF CounterInv, Places, Came, Went
    <3>2. innum \in Nat /\ outnum \in Nat /\ fed \in Nat /\ emitted \in Nat
      BY <2>1 DEF CounterInv, Ints
    <3> QED
      BY <2>1, <3>1, <3>2, WaitingFrame
  <2> QED
    BY <2>2, <2>3
<1> QED
  BY <1>1, CountersInvariant, PTL

-----------------------------------------------------------------------------
(* The sound.                                                              *)

\* Cell of the delay line with channel c of the frame before the block.
LastCell(c) == LineChannels(stream) * (INPCM_DELAY_SIZE - 1)
                   + IF stream.via = "dual" THEN c ELSE 0

\* The delay line ends with the frame before the block; only a stream of which
\* nothing was counted has none.
LineInv ==
    stream.src # stream.tar =>
        /\ Came = 0 => innum = 0 /\ outnum = 0
        /\ Came > 0 => \A c \in stream.heard : inpcm[LastCell(c)] = <<Came - 1, c>>

LEMMA Weighted ==
    ASSUME NEW a \in Int, NEW c \in Int, NEW w \in Int
    PROVE  <<a, c>> \o <<w>> = <<a, c, w>>
<1> DEFINE s == <<a, c>>
           r == <<w>>
           q == <<a, c, w>>
<1>1. s \in Seq(Int) /\ r \in Seq(Int) /\ q \in Seq(Int)
  OBVIOUS
<1>2. Len(s) = 2 /\ Len(r) = 1 /\ Len(q) = 3
  OBVIOUS
<1>3. s[1] = a /\ s[2] = c /\ r[1] = w /\ q[1] = a /\ q[2] = c /\ q[3] = w
  OBVIOUS
<1> HIDE DEF s, r, q
<1>4. /\ s \o r \in Seq(Int)
      /\ Len(s \o r) = 3
      /\ (s \o r)[1] = s[1] /\ (s \o r)[2] = s[2] /\ (s \o r)[3] = r[1]
  <2>1. /\ s \o r \in Seq(Int)
        /\ Len(s \o r) = Len(s) + Len(r)
        /\ \A i \in 1 .. Len(s) + Len(r) :
               (s \o r)[i] = IF i <= Len(s) THEN s[i] ELSE r[i - Len(s)]
    BY <1>1, ConcatProperties
  <2>2. Len(s \o r) = 3
    BY <1>2, <2>1
  <2>3. \A i \in 1 .. 3 : (s \o r)[i] = IF i <= 2 THEN s[i] ELSE r[i - 2]
    BY <1>2, <2>1
  <2> QED
    BY <2>1, <2>2, <2>3
<1>5. s \o r = q
  <2>1. (s \o r)[1] = q[1] /\ (s \o r)[2] = q[2] /\ (s \o r)[3] = q[3]
    BY ONLY <1>3, <1>4, Zenon
  <2>2. \A i \in 1 .. 3 : i = 1 \/ i = 2 \/ i = 3
    OBVIOUS
  <2>3. \A i \in 1 .. 3 : (s \o r)[i] = q[i]
    BY ONLY <2>1, <2>2, Zenon
  <2>4. Len(s \o r) = Len(q) /\ \A i \in 1 .. Len(q) : (s \o r)[i] = q[i]
    BY ONLY <1>2, <1>4, <2>3, Zenon
  <2> QED
    BY ONLY <1>1, <1>4, <2>4, SeqEqual
<1> QED
  BY <1>5 DEF s, r, q

LEMMA OfOne ==
    ASSUME NEW at, NEW w, NEW c
    PROVE  {<<f[1], c, f[2]>> : f \in {<<at, w>>}} = {<<at, c, w>>}
<1> DEFINE Of(f) == <<f[1], c, f[2]>>
<1>1. Of(<<at, w>>) = <<at, c, w>>
  OBVIOUS
<1> HIDE DEF Of
<1>2. {Of(f) : f \in {<<at, w>>}} = {Of(<<at, w>>)}
  OBVIOUS
<1> QED
  BY <1>1, <1>2 DEF Of

\* A sample of each neighbour, in channel c.
LEMMA OfChannel ==
    ASSUME NEW at, NEW next, NEW w, NEW rest, NEW c
    PROVE  {<<f[1], c, f[2]>> : f \in {<<at, w>>} \cup IF rest = 0 THEN {} ELSE {<<next, rest>>}}
               = {<<at, c, w>>} \cup IF rest = 0 THEN {} ELSE {<<next, c, rest>>}
<1> DEFINE Of(f) == <<f[1], c, f[2]>>
<1>1. Of(<<at, w>>) = <<at, c, w>> /\ Of(<<next, rest>>) = <<next, c, rest>>
  OBVIOUS
<1> HIDE DEF Of
<1>2. {Of(f) : f \in {<<at, w>>} \cup IF rest = 0 THEN {} ELSE {<<next, rest>>}}
          = {Of(<<at, w>>)} \cup IF rest = 0 THEN {} ELSE {Of(<<next, rest>>)}
  OBVIOUS
<1> QED
  BY <1>1, <1>2 DEF Of

\* Frame and channel of a cell.
LEMMA CellOf ==
    ASSUME NEW ch \in {1, 2}, NEW m \in Int, NEW c \in 0 .. ch - 1
    PROVE  /\ (ch * m + IF ch = 2 THEN c ELSE 0) \div ch = m
           /\ (ch * m + IF ch = 2 THEN c ELSE 0) % ch = c
<1>1. CASE ch = 1
  BY <1>1
<1>2. CASE ch = 2
  BY <1>2
<1> QED
  BY <1>1, <1>2

\* Frame m of the block.
LEMMA InBlock ==
    ASSUME Ints, NEW m \in Nat, NEW c \in stream.heard
    PROVE  In(BlockCell(m, c)) = <<fed - frames + m, c>>
<1> DEFINE ch == InChannels(stream)
           k == BlockCell(m, c)
<1>1. ch \in {1, 2} /\ c \in 0 .. ch - 1
  BY StreamFacts DEF Ints
<1>2. k = ch * m + (IF ch = 2 THEN c ELSE 0)
  BY DEF BlockCell
<1>3. k \div ch = m /\ k % ch = c
  BY <1>1, <1>2, CellOf
<1>4. k \in Nat
  BY <1>1, <1>2
<1> HIDE DEF ch, k
<1>5. In(k) = <<fed - frames + k \div ch, k % ch>>
  BY <1>4 DEF In, ch
<1> QED
  BY <1>3, <1>5 DEF k

\* What the code interpolates is what the stream has at the next place.
LEMMA FrameMade ==
    ASSUME CounterInv, LineInv, Interpolate
    PROVE  /\ Interpolated = Stream!HeardAt(stream, emitted)
           /\ \A f \in Stream!Neighbours(stream, emitted) : f[1] \in 0 .. fed - 1
<1> DEFINE S == stream.src
           T == stream.tar
           b == fed - frames
           at == (S * emitted) \div T
           rest == (S * emitted) % T
<1>1. S \in Nat \ {0} /\ T \in Nat \ {0} /\ MaxFrames \in Nat
  BY StreamFacts, SizeAssumption DEF CounterInv, Ints
<1>2. /\ innum \in Nat /\ outnum \in Nat /\ frames \in Nat /\ done \in Nat
      /\ fed \in Nat /\ emitted \in Nat /\ b \in Nat /\ Ints
  BY <1>1 DEF CounterInv, Ints
<1>3. pc = "interpolate" /\ ~(n + 1 >= frames)
  BY DEF Interpolate, BlockRead
<1>4. S # T /\ Came = b /\ Went = emitted - done
  BY <1>3 DEF CounterInv, Copied, Came, Went
<1>5. /\ T * (b - innum) = S * ((emitted - done) - outnum)
      /\ T * (innum - 1) <= S * outnum
  BY <1>4 DEF CounterInv, Places
<1>6. Scaled \in Nat /\ Scaled = S * (outnum + done)
      /\ n = Scaled \div T - innum /\ n \in Int /\ Rest = Scaled % T
      /\ Scaled \div T \in Int /\ Rest \in 0 .. T - 1
  <2>1. Scaled \in Nat /\ Scaled = S * (outnum + done)
    BY <1>1, <1>2 DEF Scaled
  <2>2. Scaled \div T \in Int /\ Scaled % T \in 0 .. T - 1
    <3>1. Scaled \in Int
      BY <2>1
    <3> QED
      BY ONLY <1>1, <3>1, DivMod
  <2>3. n = Scaled \div T - innum /\ Rest = Scaled % T
    BY Zenon DEF n, Rest
  <2>4. n \in Int
    BY <1>2, <2>2, <2>3
  <2> QED
    BY <2>1, <2>2, <2>3, <2>4
<1>7. at = n + b /\ rest = Rest
  <2>1. S * emitted = Scaled + T * (b - innum)
    <3>1. S * emitted = S * (outnum + done) + S * ((emitted - done) - outnum)
      BY <1>1, <1>2
    <3> QED
      BY <1>5, <1>6, <3>1
  <2>2. b - innum \in Int
    BY <1>2
  <2>3. at = Scaled \div T + (b - innum) /\ rest = Scaled % T
    <3>1. /\ (Scaled + T * (b - innum)) \div T = Scaled \div T + (b - innum)
          /\ (Scaled + T * (b - innum)) % T = Scaled % T
      <4>1. Scaled \in Int
        BY <1>6
      <4> QED
        BY <1>1, <2>2, <4>1, PlaceShift
    <3> QED
      BY ONLY <2>1, <3>1, Zenon
  <2> QED
    BY <1>2, <1>6, <2>3
<1>8. n >= -1 /\ (b = 0 => n >= 0)
  <2>1. ~(Scaled < T * (innum - 1))
    <3>1. S * outnum <= S * (outnum + done)
      BY <1>1, <1>2, TimesMono
    <3>2. S * outnum \in Int /\ T * (innum - 1) \in Int
      BY <1>1, <1>2
    <3> QED
      BY <1>5, <1>6, <3>1, <3>2
  <2>2. ~(Scaled \div T < innum - 1)
    BY <1>1, <1>2, <1>6, <2>1, PlaceBefore
  <2>3. ASSUME b = 0 PROVE n >= 0
    <3>1. innum = 0
      BY <1>4, <2>3 DEF LineInv
    <3>2. ~(Scaled < T * 0)
      BY <1>1, <1>6
    <3>3. ~(Scaled \div T < 0)
      BY <1>1, <1>6, <3>2, PlaceBefore
    <3> QED
      BY <1>6, <3>1, <3>3
  <2> QED
    BY <1>2, <1>6, <2>2, <2>3
<1> HIDE DEF at, rest
<1>9. ASSUME NEW c \in stream.heard, NEW m \in {n, n + 1}
      PROVE  SampleAt(m, c) = <<b + m, c>>
  <2>1. m \in Int /\ m >= -1 /\ (b = 0 => m >= 0)
    BY <1>6, <1>8
  <2>2. CASE m < 0
    <3>1. m = -1 /\ b > 0
      BY <1>2, <2>1, <2>2
    <3>2. SampleAt(m, c) = inpcm[LastCell(c)]
      BY <3>1 DEF SampleAt, LastCell, INPCM_DELAY_SIZE, LineChannels
    <3>3. inpcm[LastCell(c)] = <<b - 1, c>>
      BY <1>4, <3>1 DEF LineInv
    <3>4. b - 1 = b + m
      BY <1>2, <3>1
    <3> QED
      BY <3>2, <3>3, <3>4
  <2>3. CASE ~(m < 0)
    BY <1>2, <2>1, <2>3, InBlock DEF SampleAt
  <2> QED
    BY <2>2, <2>3
<1>10. ASSUME NEW c \in stream.heard
       PROVE  Interpolated[c] = {<<f[1], c, f[2]>> : f \in Stream!Neighbours(stream, emitted)}
  <2>1. c \in Int
    <3>1. c \in 0 .. InChannels(stream) - 1 /\ InChannels(stream) \in {1, 2}
      BY <1>2, StreamFacts DEF Ints
    <3> QED
      BY <3>1
  <2>2. /\ SampleAt(n, c) \o <<T - Rest>> = <<at, c, T - rest>>
        /\ SampleAt(n + 1, c) \o <<Rest>> = <<at + 1, c, rest>>
    <3>1. /\ at \in Int /\ rest \in Int /\ T - rest \in Int
          /\ b + n = at /\ b + (n + 1) = at + 1
      BY <1>1, <1>2, <1>6, <1>7
    <3>2. SampleAt(n, c) = <<at, c>> /\ SampleAt(n + 1, c) = <<at + 1, c>>
      BY <1>9, <3>1
    <3>3. /\ <<at, c>> \o <<T - rest>> = <<at, c, T - rest>>
          /\ <<at + 1, c>> \o <<rest>> = <<at + 1, c, rest>>
      BY <2>1, <3>1, Weighted
    <3> QED
      BY <1>7, <3>2, <3>3
  <2>3. Interpolated[c] =
            {<<at, c, T - rest>>} \cup IF rest = 0 THEN {} ELSE {<<at + 1, c, rest>>}
    BY <1>7, <2>2 DEF Interpolated
  <2>4. Stream!Neighbours(stream, emitted) =
            {<<at, T - rest>>} \cup IF rest = 0 THEN {} ELSE {<<at + 1, rest>>}
    BY DEF Stream!Neighbours, at, rest
  <2> QED
    BY <2>3, <2>4, OfChannel
<1>11. Interpolated = Stream!HeardAt(stream, emitted)
  BY <1>10 DEF Interpolated, Stream!HeardAt
<1>12. ASSUME NEW f \in Stream!Neighbours(stream, emitted)
       PROVE  f[1] \in 0 .. fed - 1
  <2>1. f[1] = at \/ f[1] = at + 1
    BY <1>12 DEF Stream!Neighbours, at, rest
  <2>2. at \in 0 .. fed - 1 /\ at + 1 \in 0 .. fed - 1
    BY <1>2, <1>3, <1>6, <1>7, <1>8
  <2> QED
    BY <2>1, <2>2
<1> QED
  BY <1>11, <1>12

\* What the code copies is what the stream has at the next place.
LEMMA FrameCopied ==
    ASSUME CounterInv, pc = "copy", done < frames
    PROVE  /\ [c \in stream.heard |-> {In(BlockCell(done, c)) \o <<stream.tar>>}]
                  = Stream!HeardAt(stream, emitted)
           /\ \A f \in Stream!Neighbours(stream, emitted) : f[1] \in 0 .. fed - 1
<1> DEFINE T == stream.tar
           at == (stream.src * emitted) \div T
           rest == (stream.src * emitted) % T
<1>1. T \in Nat \ {0} /\ MaxFrames \in Nat
  BY StreamFacts, SizeAssumption DEF CounterInv, Ints
<1>2. /\ frames \in Nat /\ done \in Nat /\ fed \in Nat /\ emitted \in Nat
      /\ fed - frames \in Nat /\ Ints
  BY <1>1 DEF CounterInv, Ints
<1>3. stream.src = T /\ emitted = fed - frames + done
  BY DEF CounterInv, Copied
<1>4. at = emitted /\ rest = 0
  <2>1. /\ (0 + T * emitted) \div T = 0 \div T + emitted
        /\ (0 + T * emitted) % T = 0 % T
    <3>1. 0 \in Int /\ emitted \in Int
      BY <1>2
    <3> QED
      BY ONLY <1>1, <3>1, PlaceShift
  <2>2. 0 \div T = 0 /\ 0 % T = 0 /\ 0 + T * emitted = T * emitted
    BY <1>1, <1>2
  <2> QED
    BY <1>2, <1>3, <2>1, <2>2
<1>5. Stream!Neighbours(stream, emitted) = {<<emitted, T>>}
  <2>1. T - 0 = T
    BY <1>1
  <2> QED
    BY <1>4, <2>1 DEF Stream!Neighbours
<1>6. ASSUME NEW c \in stream.heard
      PROVE  In(BlockCell(done, c)) \o <<T>> = <<emitted, c, T>>
  <2>1. c \in Int
    <3>1. c \in 0 .. InChannels(stream) - 1 /\ InChannels(stream) \in {1, 2}
      BY <1>2, StreamFacts DEF Ints
    <3> QED
      BY <3>1
  <2>2. In(BlockCell(done, c)) = <<emitted, c>>
    BY <1>2, <1>3, InBlock
  <2>3. <<emitted, c>> \o <<T>> = <<emitted, c, T>>
    BY <1>1, <1>2, <2>1, Weighted
  <2> QED
    BY <2>2, <2>3
<1> HIDE DEF T
<1>7. ASSUME NEW c \in stream.heard
      PROVE  {In(BlockCell(done, c)) \o <<T>>}
                 = {<<f[1], c, f[2]>> : f \in Stream!Neighbours(stream, emitted)}
  BY <1>5, <1>6, OfOne
<1>8. emitted \in 0 .. fed - 1
  BY <1>2, <1>3
<1> QED
  BY <1>5, <1>7, <1>8 DEF T, Stream!HeardAt

SoundInv == CounterInv /\ LineInv

\* The delay line is kept at the end of a block, and matters to no other step.
LEMMA LineKept ==
    ASSUME SoundInv, [ResampleNext]_rvars
    PROVE  LineInv'
<1>1. /\ innum \in Nat /\ outnum \in Nat /\ frames \in Nat /\ done \in Nat
      /\ fed \in Nat /\ emitted \in Nat /\ fed - frames \in Nat /\ Ints
  BY SizeAssumption DEF SoundInv, CounterInv, Ints
<1>2. ASSUME NEW s \in Streams, duer_audio_dac_start_play(s) PROVE LineInv'
  BY <1>2 DEF duer_audio_dac_start_play, LineInv, Came
<1>3. ASSUME NEW size \in Sizes, Refuse(size) PROVE LineInv'
  BY <1>3 DEF Refuse, SoundInv, LineInv, Came, LastCell, LineChannels
<1>4. ASSUME NEW size \in Sizes, Call(size) PROVE LineInv'
  <2>1. /\ pc = "idle" /\ UNCHANGED <<stream, innum, outnum, inpcm>>
        /\ fed' = fed + frames'
        /\ pc' = IF stream.src = stream.tar THEN "copy" ELSE "interpolate"
    BY <1>4 DEF Call
  <2>2. frames' \in Nat
    BY <1>4, CountCall DEF SoundInv, CounterInv, Ints
  <2>3. fed' - frames' = fed
    <3>1. (fed + frames') - frames' = fed
      BY ONLY <1>1, <2>2, PlusMinus, Zenon
    <3> QED
      BY ONLY <2>1, <3>1, Zenon
  <2>4. stream.src # stream.tar => Came' = Came
    BY <2>1, <2>3, Zenon DEF Came
  <2> QED
    BY <2>1, <2>4, Zenon DEF SoundInv, LineInv, LastCell, LineChannels
<1>5. ASSUME EndOfBlock PROVE LineInv'
  <2>1. /\ pc = "interpolate" /\ pc' = "filter" /\ inpcm' = Kept
        /\ UNCHANGED <<stream, frames, fed>>
    BY <1>5 DEF EndOfBlock
  <2>2. frames >= 1 /\ fed > 0 /\ Came' = fed
    <3>1. frames \in 1 .. stream.src
      BY <2>1 DEF SoundInv, CounterInv, Copied
    <3>2. stream.src \in Nat
      BY <1>1, StreamFacts DEF Ints
    <3>3. frames >= 1
      BY <3>1, <3>2
    <3> QED
      BY <1>1, <2>1, <3>3 DEF Came
  <2>3. ASSUME NEW c \in stream.heard
        PROVE  Kept[LastCell(c)] = In(BlockCell(frames - 1, c))
    <3>1. CASE stream.via = "dual"
      <4>1. c \in {0, 1} /\ LastCell(c) = 10 + c /\ LastCell(c) \in Cells
        <5>1. c \in {0, 1}
          BY <1>1, <3>1, StreamFacts DEF Ints
        <5>2. LastCell(c) = 2 * (6 - 1) + c
          BY <3>1 DEF LastCell, LineChannels, INPCM_DELAY_SIZE
        <5> QED
          BY <5>1, <5>2 DEF Cells, INPCM_DELAY_SIZE
      <4>2. Kept[LastCell(c)] = In(2 * (frames - INPCM_DELAY_SIZE) + LastCell(c))
        BY <3>1, <4>1 DEF Kept
      <4>3. 2 * (frames - INPCM_DELAY_SIZE) + LastCell(c) = 2 * (frames - 1) + c
        BY <1>1, <4>1 DEF INPCM_DELAY_SIZE
      <4>4. BlockCell(frames - 1, c) = 2 * (frames - 1) + c
        BY <3>1 DEF BlockCell, InChannels
      <4> QED
        BY <4>2, <4>3, <4>4
    <3>2. CASE stream.via # "dual"
      <4>1. c = stream.idx /\ LastCell(c) = 5
        <5>1. c = stream.idx
          BY <1>1, <3>2, StreamFacts DEF Ints
        <5>2. LastCell(c) = 1 * (6 - 1) + 0
          BY <3>2 DEF LastCell, LineChannels, INPCM_DELAY_SIZE
        <5> QED
          BY <5>1, <5>2
      <4>2. 5 \in Cells /\ 5 < INPCM_DELAY_SIZE /\ frames - INPCM_DELAY_SIZE + 5 = frames - 1
        BY <1>1 DEF Cells, INPCM_DELAY_SIZE
      <4>3. Kept[5] = In(BlockCell(frames - INPCM_DELAY_SIZE + 5, stream.idx))
        BY <3>2, <4>2 DEF Kept
      <4> QED
        BY <4>1, <4>2, <4>3
    <3> QED
      BY <3>1, <3>2
  <2>4. ASSUME NEW c \in stream.heard
        PROVE  Kept[LastCell(c)] = <<fed - 1, c>>
    <3>1. frames - 1 \in Nat /\ fed - frames + (frames - 1) = fed - 1
      BY <1>1, <2>2
    <3> QED
      BY <1>1, <2>3, <3>1, InBlock
  <2>5. stream' = stream /\ \A c : LastCell(c)' = LastCell(c)
    BY <2>1 DEF LastCell, LineChannels
  <2>6. Came' # 0 /\ Came' = fed
    BY <1>1, <2>2
  <2> QED
    BY <2>1, <2>4, <2>5, <2>6 DEF LineInv
<1>6. ASSUME Copy \/ Interpolate \/ Filter \/ Double \/ UNCHANGED rvars PROVE LineInv'
  <2>1. /\ UNCHANGED <<stream, innum, outnum, inpcm, frames, fed>>
        /\ pc' = "interpolate" <=> pc = "interpolate"
    BY <1>6 DEF Copy, Interpolate, Filter, Double, GoOn, rvars
  <2> QED
    BY <2>1, Zenon DEF SoundInv, LineInv, Came, LastCell, LineChannels
<1> QED
  BY <1>2, <1>3, <1>4, <1>5, <1>6 DEF ResampleNext

\* The delay line always ends with the frame before the block under way, as
\* long as the counters are right (memcpy to inpcm at the end of a block).
THEOREM SoundInvariant == ResampleSpec => []SoundInv
<1>1. ResampleInit => LineInv
  BY DEF ResampleInit, LineInv, Came
<1>2. CounterInv /\ LineInv /\ [ResampleNext]_rvars => LineInv'
  BY LineKept DEF SoundInv
<1>3. CounterInv /\ LineInv <=> SoundInv
  BY DEF SoundInv
<1> QED
  BY <1>1, <1>2, <1>3, CountersInvariant, PTL DEF ResampleSpec

\* Every step of the conversion is a step of the stream, or none.
LEMMA StepOfSound ==
    ASSUME SoundInv, [ResampleNext]_rvars
    PROVE  [Stream!StreamNext]_(Stream!svars)
<1> USE DEF Stream!svars
<1>1. ASSUME NEW s \in Streams, duer_audio_dac_start_play(s) PROVE Stream!Begin(s)
  BY <1>1 DEF duer_audio_dac_start_play, Stream!Begin, NothingHeard, Stream!Silent
<1>2. ASSUME NEW size \in Sizes, Call(size) PROVE Stream!Feed
  <2>1. fed' = fed + frames' /\ UNCHANGED <<stream, emitted, last>>
    BY <1>2 DEF Call
  <2>2. fed' \in Nat /\ frames' \in 1 .. stream'.src /\ stream'.src \in Nat
    <3>1. CounterInv' /\ pc' # "idle"
      BY <1>2, CountCall DEF SoundInv, Call
    <3>2. fed' \in frames' .. MaxFrames /\ frames' \in Nat /\ stream' \in Streams
          /\ frames' \in 1 .. stream'.src
      BY <3>1, Zenon DEF CounterInv, Ints, Copied
    <3>3. stream'.src \in Nat
      BY <3>2, StreamFacts
    <3>4. fed' \in Nat
      BY ONLY <3>2, SizeAssumption
    <3> QED
      BY <3>2, <3>3, <3>4
  <2>3. fed \in Nat
    BY SizeAssumption DEF SoundInv, CounterInv, Ints
  <2>4. frames' \in Nat /\ frames' # 0
    BY ONLY <2>2
  <2>5. fed + frames' > fed
    BY ONLY <2>3, <2>4, PlusMinus, Zenon
  <2> QED
    BY <2>1, <2>2, <2>5, Zenon DEF Stream!Feed
<1>3. ASSUME Interpolate PROVE Stream!Emit
  BY <1>3, FrameMade DEF Interpolate, Put, SoundInv, Stream!Emit
<1>4. ASSUME Copy PROVE Stream!Emit \/ UNCHANGED Stream!svars
  BY <1>4, FrameCopied DEF Copy, Put, SoundInv, Stream!Emit
<1>5. ASSUME \/ \E size \in Sizes : Refuse(size)
             \/ EndOfBlock \/ Filter \/ Double \/ UNCHANGED rvars
      PROVE  UNCHANGED Stream!svars
  BY <1>5 DEF Refuse, EndOfBlock, Filter, Double, rvars
<1> QED
  BY <1>1, <1>2, <1>3, <1>4, <1>5 DEF ResampleNext, Stream!StreamNext

\* The sound that goes in comes out, for any rates and blocks: each frame put out
\* is the weighted mean of its neighbours in the stream, none left out and none
\* repeated (resampling_process and its likes implement SampleStream).
THEOREM SoundImplemented == ResampleSpec => SoundGoesThrough
<1>1. ResampleInit => Stream!StreamInit
  BY DEF ResampleInit, Stream!StreamInit, NothingHeard, Stream!Silent
<1>2. SoundInv /\ [ResampleNext]_rvars => [Stream!StreamNext]_(Stream!svars)
  BY StepOfSound
<1> QED
  BY <1>1, <1>2, SoundInvariant, PTL
  DEF ResampleSpec, SoundGoesThrough, Stream!StreamSpec

-----------------------------------------------------------------------------
(* The filter.                                                             *)

\* Frames that each filter has seen.
Filtered == IF stream.src = stream.tar THEN 0
            ELSE IF pc \in {"interpolate", "filter"} THEN emitted - done ELSE emitted

FilterInv == \A c \in stream.heard : hp[c] = Filtered

\* What the filter sees is what was put out since the last block.
LEMMA FilterStep ==
    ASSUME CounterInv, FilterInv, [ResampleNext]_rvars
    PROVE  FilterInv'
<1>1. /\ done \in Nat /\ emitted \in Nat /\ stream \in Streams
      /\ stream.src = stream.tar => pc \notin {"interpolate", "filter"}
      /\ pc = "copy" => stream.src = stream.tar
  BY SizeAssumption DEF CounterInv, Ints, Copied
<1>2. ASSUME NEW s \in Streams, duer_audio_dac_start_play(s) PROVE FilterInv'
  BY <1>1, <1>2 DEF duer_audio_dac_start_play, FilterInv, Filtered
<1>3. ASSUME NEW size \in Sizes, Refuse(size) PROVE FilterInv'
  BY <1>1, <1>3 DEF Refuse, FilterInv, Filtered
<1>4. ASSUME NEW size \in Sizes, Call(size) PROVE FilterInv'
  <2>1. /\ pc = "idle" /\ UNCHANGED <<stream, hp, emitted>> /\ done' = 0
        /\ emitted - 0 = emitted
    BY <1>1, <1>4 DEF Call
  <2> QED
    BY <2>1, Zenon DEF FilterInv, Filtered
<1>5. ASSUME Copy \/ Double PROVE FilterInv'
  <2>1. CASE Copy
    BY <1>1, <2>1 DEF Copy, Put, GoOn, FilterInv, Filtered
  <2>2. CASE Double
    BY <2>2 DEF Double, FilterInv, Filtered
  <2> QED
    BY <1>5, <2>1, <2>2
<1>6. ASSUME Interpolate PROVE FilterInv'
  <2>1. /\ pc = "interpolate" /\ UNCHANGED <<stream, hp, pc>>
        /\ emitted' = emitted + 1 /\ done' = done + 1
        /\ (emitted + 1) - (done + 1) = emitted - done
    BY <1>1, <1>6 DEF Interpolate, Put
  <2> QED
    BY <2>1, Zenon DEF FilterInv, Filtered
<1>7. ASSUME EndOfBlock PROVE FilterInv'
  BY <1>7 DEF EndOfBlock, FilterInv, Filtered
<1>8. ASSUME Filter PROVE FilterInv'
  <2>1. /\ pc = "filter" /\ pc' \in {"double", "idle"}
        /\ hp' = [c \in stream.heard |-> hp[c] + done]
        /\ UNCHANGED <<stream, done, emitted>> /\ stream.src # stream.tar
    BY <1>1, <1>8 DEF Filter, GoOn
  <2>2. ASSUME NEW c \in stream.heard PROVE hp'[c] = emitted
    <3>1. hp[c] = emitted - done
      BY <2>1 DEF FilterInv, Filtered
    <3>2. hp'[c] = hp[c] + done
      BY <2>1
    <3>3. (emitted - done) + done = emitted
      BY <1>1
    <3> QED
      BY ONLY <3>1, <3>2, <3>3, Zenon
  <2> QED
    BY <2>1, <2>2 DEF FilterInv, Filtered
<1>9. ASSUME UNCHANGED rvars PROVE FilterInv'
  BY <1>9 DEF rvars, FilterInv, Filtered
<1> QED
  BY <1>2, <1>3, <1>4, <1>5, <1>6, <1>7, <1>8, <1>9 DEF ResampleNext

\* The filter of each channel has seen every interpolated frame once when a call
\* returns (dc_reject_mono, dc_reject_dual).
THEOREM FilterComplete == ResampleSpec => []FilterKeepsUp
<1>1. ResampleInit => FilterInv
  BY DEF ResampleInit, FilterInv, Filtered
<1>2. FilterInv => FilterKeepsUp
  BY DEF FilterInv, Filtered, FilterKeepsUp
<1> QED
  BY <1>1, <1>2, FilterStep, CountersInvariant, PTL DEF ResampleSpec

-----------------------------------------------------------------------------
(* The buffer.                                                             *)

\* All that a buffer may hold.
Made == {Stream!HeardAt(s, e)[c] : s \in Streams, e \in Nat, c \in {0, 1}} \cup {{Junk}}

\* Sample k of the call, when each frame has w samples in the buffer.
Sample(k, w) ==
    Stream!HeardAt(stream, (emitted - done) + (k - 1) \div w)
        [IF stream.via = "dual" THEN (k - 1) % 2 ELSE stream.idx]

\* Samples of a frame: before the doubling, and when the call returns.
Width == IF pc = "idle" THEN OutChannels(stream) ELSE IF stream.via = "dual" THEN 2 ELSE 1

\* The buffer of a call holds its frames; under the doubling, the frames that
\* are still to be doubled at its beginning, the others, doubled, at its end.
Buffer ==
    IF pc # "double"
    THEN /\ Len(outpcm) = Width * done
         /\ \A k \in 1 .. Len(outpcm) : outpcm[k] = Sample(k, Width)
    ELSE /\ stream.via = "up_channel"
         /\ Len(outpcm) = IF left = done THEN done ELSE 2 * done
         /\ \A k \in 1 .. Len(outpcm) :
                /\ k <= left => outpcm[k] = Sample(k, 1)
                /\ k > 2 * left => outpcm[k] = Sample(k, 2)

BufferInv == outpcm \in Seq(Made) /\ Buffer

\* A frame goes to the end of a sequence of whole frames.
LEMMA PutSamples ==
    ASSUME NEW M, NEW q \in Seq(M), NEW f \in Seq(M), NEW w \in Nat, NEW d \in Nat,
           Len(q) = w * d, Len(f) = w
    PROVE  /\ q \o f \in Seq(M)
           /\ Len(q \o f) = w * (d + 1)
           /\ \A k \in 1 .. w * d : (q \o f)[k] = q[k]
           /\ \A j \in 1 .. w : (q \o f)[w * d + j] = f[j]
<1>1. /\ q \o f \in Seq(M)
      /\ Len(q \o f) = w * d + w
      /\ \A i \in 1 .. w * d + w :
             (q \o f)[i] = IF i <= w * d THEN q[i] ELSE f[i - w * d]
  BY ConcatProperties
<1>2. w * d \in Nat /\ w \in Nat /\ w * d + w = w * (d + 1)
  OBVIOUS
<1>3. ASSUME NEW k \in 1 .. w * d PROVE (q \o f)[k] = q[k]
  BY <1>1, <1>2
<1>4. ASSUME NEW j \in 1 .. w PROVE (q \o f)[w * d + j] = f[j]
  <2>1. w * d + j \in 1 .. w * d + w /\ ~(w * d + j <= w * d) /\ (w * d + j) - w * d = j
    BY <1>2
  <2>2. (q \o f)[w * d + j] =
            IF w * d + j <= w * d THEN q[w * d + j] ELSE f[(w * d + j) - w * d]
    BY <1>1, <2>1
  <2> QED
    BY <2>1, <2>2, Zenon
<1> QED
  BY <1>1, <1>2, <1>3, <1>4

\* Sample j of frame d.
LEMMA PlaceInBuffer ==
    ASSUME NEW w \in {1, 2}, NEW d \in Nat, NEW j \in 1 .. w
    PROVE  /\ ((w * d + j) - 1) \div w = d
           /\ w = 2 => ((w * d + j) - 1) % 2 = j - 1
<1>1. CASE w = 1
  BY <1>1
<1>2. CASE w = 2
  BY <1>2
<1> QED
  BY <1>1, <1>2

\* A frame of the stream is put out.
LEMMA BufferPut ==
    ASSUME SoundInv, BufferInv, pc \in {"copy", "interpolate"}, pc' = pc, stream' = stream,
           Put(Stream!HeardAt(stream, emitted))
    PROVE  BufferInv'
<1> DEFINE F == Stream!HeardAt(stream, emitted)
           f == IF stream.via = "dual" THEN <<F[0], F[1]>> ELSE <<F[stream.idx]>>
           at(j) == IF stream.via = "dual" THEN j - 1 ELSE stream.idx
<1>1. /\ stream \in Streams /\ done \in Nat /\ emitted \in Nat
      /\ stream.idx \in {0, 1}
  <2>1. stream \in Streams /\ done \in Nat /\ emitted \in Nat
    BY SizeAssumption DEF SoundInv, CounterInv, Ints
  <2>2. stream.idx \in 0 .. InChannels(stream) - 1 /\ InChannels(stream) \in {1, 2}
    BY <2>1, StreamFacts
  <2> QED
    BY <2>1, <2>2
<1>w. PICK w \in {1, 2} : /\ w = IF stream.via = "dual" THEN 2 ELSE 1
                          /\ Width = w /\ Width' = w
  BY DEF Width
<1>2. /\ outpcm' = outpcm \o f /\ done' = done + 1 /\ emitted' = emitted + 1
      /\ w \in {1, 2} /\ Width = w /\ Width' = w
      /\ stream.via = "dual" => w = 2
  BY <1>w DEF Put
<1>3. /\ outpcm \in Seq(Made) /\ Len(outpcm) = w * done
      /\ \A k \in 1 .. Len(outpcm) : outpcm[k] = Sample(k, w)
  BY <1>2 DEF BufferInv, Buffer
<1>4. f \in Seq(Made) /\ Len(f) = w /\ \A j \in 1 .. w : f[j] = F[at(j)]
  <2>1. ASSUME NEW c \in {0, 1} PROVE F[c] \in Made
    BY <1>1 DEF Made
  <2>2. CASE stream.via = "dual"
    <3>1. F[0] \in Made /\ F[1] \in Made
      BY <2>1
    <3>2. <<F[0], F[1]>> \in Seq(Made) /\ Len(<<F[0], F[1]>>) = 2
      BY <3>1
    <3>3. \A j \in 1 .. 2 : <<F[0], F[1]>>[j] = F[j - 1]
      BY <3>1
    <3> QED
      BY <1>w, <2>2, <3>2, <3>3
  <2>3. CASE stream.via # "dual"
    <3>1. F[stream.idx] \in Made
      BY <1>1, <2>1
    <3>2. <<F[stream.idx]>> \in Seq(Made) /\ Len(<<F[stream.idx]>>) = 1
      BY <3>1
    <3> QED
      BY <1>w, <2>3, <3>2
  <2> QED
    BY <2>2, <2>3
<1> HIDE DEF F, f
<1>5. /\ outpcm' \in Seq(Made)
      /\ Len(outpcm') = w * done'
      /\ \A k \in 1 .. w * done : outpcm'[k] = outpcm[k]
      /\ \A j \in 1 .. w : outpcm'[w * done + j] = f[j]
  <2>1. /\ outpcm \o f \in Seq(Made)
        /\ Len(outpcm \o f) = w * (done + 1)
        /\ \A k \in 1 .. w * done : (outpcm \o f)[k] = outpcm[k]
        /\ \A j \in 1 .. w : (outpcm \o f)[w * done + j] = f[j]
    <3>1. /\ w \in Nat /\ done \in Nat /\ outpcm \in Seq(Made) /\ f \in Seq(Made)
          /\ Len(outpcm) = w * done /\ Len(f) = w
      BY <1>1, <1>3, <1>4
    <3> HIDE DEF at
    <3>2. \A q, g \in Seq(Made) : Len(q) = w * done /\ Len(g) = w =>
              /\ q \o g \in Seq(Made)
              /\ Len(q \o g) = w * (done + 1)
              /\ \A k \in 1 .. w * done : (q \o g)[k] = q[k]
              /\ \A j \in 1 .. w : (q \o g)[w * done + j] = g[j]
      <4> SUFFICES ASSUME NEW q \in Seq(Made), NEW g \in Seq(Made),
                          Len(q) = w * done, Len(g) = w
                   PROVE  /\ q \o g \in Seq(Made)
                          /\ Len(q \o g) = w * (done + 1)
                          /\ \A k \in 1 .. w * done : (q \o g)[k] = q[k]
                          /\ \A j \in 1 .. w : (q \o g)[w * done + j] = g[j]
        OBVIOUS
      <4> QED
        BY ONLY <3>1, Len(q) = w * done, Len(g) = w, q \in Seq(Made), g \in Seq(Made), PutSamples
    <3> QED
      BY ONLY <3>1, <3>2, Zenon
  <2> QED
    BY ONLY <1>2, <2>1, Zenon
<1>6. ASSUME NEW k PROVE Sample(k, w)' = Sample(k, w)
  <2>1. (emitted + 1) - (done + 1) = emitted - done
    BY <1>1
  <2> QED
    BY <1>2, <2>1, Zenon DEF Sample
<1>7. ASSUME NEW j \in 1 .. w PROVE f[j] = Sample(w * done + j, w)
  <2>1. /\ ((w * done + j) - 1) \div w = done
        /\ w = 2 => ((w * done + j) - 1) % 2 = j - 1
    BY ONLY <1>1, <1>2, <1>7, PlaceInBuffer, Zenon
  <2>2. (emitted - done) + done = emitted
    BY <1>1
  <2>3. Sample(w * done + j, w) = F[at(j)]
    <3>1. CASE stream.via = "dual"
      <4>1. at(j) = j - 1 /\ w = 2
        BY <1>2, <3>1
      <4>2. Sample(w * done + j, w) = F[((w * done + j) - 1) % 2]
        BY <2>1, <2>2, <3>1, Zenon DEF Sample, F
      <4> QED
        BY ONLY <2>1, <4>1, <4>2, Zenon
    <3>2. CASE stream.via # "dual"
      <4>1. at(j) = stream.idx
        BY <3>2
      <4>2. Sample(w * done + j, w) = F[stream.idx]
        BY <2>1, <2>2, <3>2, Zenon DEF Sample, F
      <4> QED
        BY ONLY <4>1, <4>2, Zenon
    <3> QED
      BY <3>1, <3>2
  <2> QED
    BY <1>4, <2>3
<1>8. ASSUME NEW k \in 1 .. Len(outpcm') PROVE outpcm'[k] = Sample(k, w)
  <2>1. k \in Int /\ w * done \in Nat /\ k <= w * done + w /\ k >= 1
    <3>1. w * (done + 1) = w * done + w /\ w * done \in Nat
      BY <1>1, <1>2
    <3>2. k \in 1 .. w * (done + 1)
      BY <1>2, <1>5, Zenon
    <3> QED
      BY ONLY <3>1, <3>2
  <2>2. CASE k <= w * done
    <3>1. k \in 1 .. w * done
      BY <2>1, <2>2
    <3> QED
      BY <1>3, <1>5, <3>1, Zenon
  <2>3. CASE ~(k <= w * done)
    <3> DEFINE j == k - w * done
    <3>1. j \in 1 .. w /\ k = w * done + j
      BY <1>2, <2>1, <2>3
    <3> HIDE DEF j
    <3> QED
      BY <1>5, <1>7, <3>1, Zenon
  <2> QED
    BY <2>2, <2>3
<1>9. pc' # "double"
  OBVIOUS
<1> QED
  BY ONLY <1>2, <1>5, <1>6, <1>8, <1>9, Zenon DEF BufferInv, Buffer

\* A block is ready: it is given back, or doubled.
LEMMA BufferReady ==
    ASSUME SoundInv, BufferInv, pc \in {"copy", "filter"}, GoOn,
           UNCHANGED <<stream, done, emitted, outpcm>>
    PROVE  BufferInv'
<1>1. done \in Nat
  BY DEF SoundInv, CounterInv, Ints
<1>2. stream.via \in Vias
  BY StreamFacts DEF SoundInv, CounterInv, Ints
<1>3. ASSUME NEW k, NEW w PROVE Sample(k, w)' = Sample(k, w)
  BY DEF Sample
<1>4. CASE stream.via = "up_channel"
  <2>1. pc' = "double" /\ left' = done /\ stream'.via = "up_channel"
    BY <1>4 DEF GoOn
  <2>2. Len(outpcm) = done /\ \A k \in 1 .. Len(outpcm) : outpcm[k] = Sample(k, 1)
    BY <1>1, <1>4 DEF BufferInv, Buffer, Width
  <2>3. \A k \in 1 .. Len(outpcm) : ~(k > 2 * done)
    BY <1>1, <2>2
  <2> QED
    BY <1>3, <2>1, <2>2, <2>3 DEF BufferInv, Buffer
<1>5. CASE stream.via # "up_channel"
  <2>1. pc' = "idle"
    BY <1>5 DEF GoOn
  <2>2. Width' = Width
    BY <1>2, <1>5, <2>1 DEF Width, OutChannels, Vias
  <2> QED
    BY <1>3, <2>1, <2>2 DEF BufferInv, Buffer
<1> QED
  BY <1>4, <1>5

\* The last sample that is not doubled is doubled: no other is lost.
LEMMA BufferDouble ==
    ASSUME SoundInv, BufferInv, Double
    PROVE  BufferInv'
<1>1. /\ done \in Nat /\ left \in Nat /\ left <= done /\ pc = "double"
      /\ UNCHANGED <<stream, done, emitted>>
  BY DEF SoundInv, CounterInv, Ints, Double
<1>2. ASSUME NEW k, NEW w PROVE Sample(k, w)' = Sample(k, w)
  BY <1>1 DEF Sample
<1>3. /\ outpcm \in Seq(Made) /\ stream.via = "up_channel"
      /\ Len(outpcm) = IF left = done THEN done ELSE 2 * done
      /\ \A k \in 1 .. Len(outpcm) : k <= left => outpcm[k] = Sample(k, 1)
      /\ \A k \in 1 .. Len(outpcm) : k > 2 * left => outpcm[k] = Sample(k, 2)
  BY <1>1 DEF BufferInv, Buffer
<1>4. CASE left = 0
  <2>1. pc' = "idle" /\ outpcm' = outpcm
    BY <1>4 DEF Double
  <2>2. Width' = 2
    BY <1>1, <1>3, <2>1 DEF Width, OutChannels
  <2>3. Len(outpcm) = 2 * done
    BY <1>1, <1>3, <1>4
  <2>4. \A k \in 1 .. Len(outpcm) : outpcm[k] = Sample(k, 2)
    BY <1>3, <1>4
  <2> QED
    BY <1>1, <1>2, <1>3, <2>1, <2>2, <2>3, <2>4 DEF BufferInv, Buffer
<1>5. CASE left > 0
  <2>1. /\ outpcm' = Doubled(outpcm, left - 1) /\ left' = left - 1 /\ pc' = "double"
    BY <1>1, <1>5 DEF Double
  <2> DEFINE L == Len(outpcm)
             pair == {2 * left - 1, 2 * left}
             D == [k \in 1 .. 2 * done |->
                      CASE k \in pair -> outpcm[left]
                        [] k \notin pair /\ k <= L -> outpcm[k]
                        [] OTHER -> {Junk}]
  <2>2. L \in Nat /\ left <= L
    BY <1>1, <1>3
  <2>3. outpcm' = D
    <3>1. (IF L < 2 * (left - 1) + 2 THEN 2 * (left - 1) + 2 ELSE L) = 2 * done
      BY <1>1, <1>3, <1>5
    <3>2. 2 * (left - 1) + 1 = 2 * left - 1 /\ 2 * (left - 1) + 2 = 2 * left
          /\ (left - 1) + 1 = left
      BY <1>1
    <3> QED
      BY ONLY <2>1, <3>1, <3>2 DEF Doubled
  <2>4. outpcm[left] = Sample(left, 1) /\ outpcm[left] \in Made
    <3>1. left \in 1 .. L
      BY <1>1, <1>5, <2>2
    <3> QED
      BY <1>1, <1>3, <3>1
  <2>5. D \in Seq(Made) /\ Len(D) = 2 * done
    <3>1. ASSUME NEW k \in 1 .. 2 * done PROVE D[k] \in Made
      <4>1. k \notin pair /\ k <= L => outpcm[k] \in Made
        BY <1>3
      <4>2. {Junk} \in Made
        BY DEF Made
      <4> QED
        BY <2>4, <4>1, <4>2
    <3>2. 2 * done \in Nat
      BY <1>1
    <3> HIDE DEF D
    <3>3. D = [k \in 1 .. 2 * done |-> D[k]]
      BY DEF D
    <3> QED
      BY <3>1, <3>2, <3>3
  <2>6. ASSUME NEW k \in 1 .. 2 * done, k <= left - 1 PROVE D[k] = Sample(k, 1)
    <3>1. k \notin pair /\ k <= L /\ k \in 1 .. L /\ k <= left
      BY <1>1, <2>2, <2>6
    <3> QED
      BY <1>3, <3>1
  <2>7. ASSUME NEW k \in 1 .. 2 * done, k > 2 * (left - 1) PROVE D[k] = Sample(k, 2)
    <3>1. CASE k \in pair
      <4>1. (k - 1) \div 2 = left - 1 /\ (left - 1) \div 1 = left - 1
        BY <1>1, <3>1
      <4>2. Sample(k, 2) = Sample(left, 1)
        BY <1>3, <4>1, Zenon DEF Sample
      <4> QED
        BY <2>4, <3>1, <4>2
    <3>2. CASE k \notin pair
      <4>1. k > 2 * left
        BY <1>1, <2>7, <3>2
      <4>2. L = 2 * done
        BY <1>1, <1>3, <4>1
      <4> QED
        BY <1>3, <3>2, <4>1, <4>2
    <3> QED
      BY <3>1, <3>2
  <2>8. left - 1 # done
    BY <1>1
  <2> HIDE DEF D, L, pair
  <2> QED
    BY ONLY <1>1, <1>2, <1>3, <2>1, <2>3, <2>5, <2>6, <2>7, <2>8, Zenon DEF BufferInv, Buffer
<1> QED
  BY <1>1, <1>4, <1>5

\* Every step keeps the frames of the call in the buffer.
LEMMA BufferStep ==
    ASSUME SoundInv, BufferInv, [ResampleNext]_rvars
    PROVE  BufferInv'
<1>1. ASSUME outpcm' = <<>>, done' = 0, pc' # "double" PROVE BufferInv'
  <2>1. Width' \in {1, 2}
    BY DEF Width, OutChannels
  <2>2. Width' * 0 = 0
    <3>1. \A w \in {1, 2} : w * 0 = 0
      OBVIOUS
    <3> QED
      BY ONLY <2>1, <3>1, Zenon
  <2>3. outpcm' \in Seq(Made) /\ Len(outpcm') = 0
    BY <1>1
  <2>4. \A k \in 1 .. 0 : FALSE
    OBVIOUS
  <2> QED
    BY <1>1, <2>2, <2>3, <2>4, Zenon DEF BufferInv, Buffer
<1>2. ASSUME NEW s \in Streams, duer_audio_dac_start_play(s) PROVE BufferInv'
  BY <1>1, <1>2 DEF duer_audio_dac_start_play
<1>3. ASSUME NEW size \in Sizes, Refuse(size) \/ Call(size) PROVE BufferInv'
  BY <1>1, <1>3 DEF Refuse, Call
<1>4. CASE Copy
  <2>1. CASE done < frames
    <3>1. /\ pc = "copy" /\ pc' = pc /\ stream' = stream
          /\ Put([c \in stream.heard |-> {In(BlockCell(done, c)) \o <<stream.tar>>}])
      <4>1. done # frames
        BY <2>1 DEF SoundInv, CounterInv, Ints
      <4> QED
        BY <1>4, <4>1, Zenon DEF Copy
    <3>2. [c \in stream.heard |-> {In(BlockCell(done, c)) \o <<stream.tar>>}]
              = Stream!HeardAt(stream, emitted)
      BY <2>1, <3>1, FrameCopied DEF SoundInv
    <3>3. Put(Stream!HeardAt(stream, emitted))
      BY ONLY <3>1, <3>2, Zenon
    <3> QED
      BY <3>1, <3>3, BufferPut
  <2>2. CASE ~(done < frames)
    BY <1>4, <2>2, BufferReady DEF Copy
  <2> QED
    BY <2>1, <2>2
<1>5. CASE Interpolate
  <2>1. Interpolated = Stream!HeardAt(stream, emitted)
    BY <1>5, FrameMade DEF SoundInv
  <2> QED
    BY <1>5, <2>1, BufferPut DEF Interpolate
<1>6. CASE EndOfBlock
  <2>1. /\ pc = "interpolate" /\ pc' = "filter"
        /\ UNCHANGED <<stream, done, left, outpcm, emitted>>
    BY <1>6 DEF EndOfBlock
  <2> QED
    BY <2>1 DEF BufferInv, Buffer, Width, Sample
<1>7. CASE Filter
  BY <1>7, BufferReady DEF Filter
<1>8. CASE UNCHANGED rvars
  BY <1>8 DEF rvars, BufferInv, Buffer, Width, Sample
<1> QED
  BY <1>2, <1>3, <1>4, <1>5, <1>6, <1>7, <1>8, BufferDouble DEF ResampleNext

\* The buffer always holds the frames of the call, each whole and in its place,
\* also while samples are made two in it (resampling_process_up_channel).
THEOREM BufferInvariant == ResampleSpec => [](SoundInv /\ BufferInv)
<1>1. ResampleInit => BufferInv
  <2> SUFFICES ASSUME ResampleInit PROVE BufferInv
    OBVIOUS
  <2>1. outpcm = <<>> /\ done = 0 /\ pc = "idle" /\ Width \in {1, 2}
    BY DEF ResampleInit, Width, OutChannels
  <2>2. Width * 0 = 0
    BY <2>1
  <2>3. outpcm \in Seq(Made) /\ Len(outpcm) = 0
    BY <2>1
  <2> QED
    BY <2>1, <2>2, <2>3 DEF BufferInv, Buffer
<1>2. SoundInv /\ BufferInv /\ [ResampleNext]_rvars => BufferInv'
  BY BufferStep
<1> QED
  BY <1>1, <1>2, SoundInvariant, PTL DEF ResampleSpec

\* What a call returns is all its frames, in order, with each sample as often as
\* there are channels (resampling_process_up_channel and its likes).
THEOREM OutputComplete == ResampleSpec => []OutputWhole
<1>1. SoundInv /\ BufferInv => OutputWhole
  BY DEF BufferInv, Buffer, Width, Sample, OutputWhole
<1> QED
  BY <1>1, BufferInvariant, PTL

\* The ratio of the rates, rounded up, bounds what a call puts out, whatever the
\* earlier blocks left (output_buf_16 of duer_audio_dac_write).
THEOREM OutputFits == ResampleSpec => []WithinOutput
<1>1. ASSUME SoundInv, BufferInv PROVE WithinOutput
  <2> DEFINE S == stream.src
             R == stream.tar * frames + stream.src - 1
             w == OutChannels(stream)
             L == Len(outpcm)
  <2>1. S \in Nat \ {0} /\ stream.tar \in Nat \ {0} /\ done \in Nat /\ frames \in Nat
        /\ w \in {1, 2}
    <3>1. stream \in Streams /\ done \in Nat /\ frames \in Nat
      BY <1>1 DEF SoundInv, CounterInv, Ints
    <3> QED
      BY <3>1, StreamFacts
  <2>2. L \in Nat
    BY <1>1 DEF BufferInv
  <2>3. L <= w * done
    <3>1. CASE pc # "double"
      <4>1. L = Width * done /\ Width \in {1, 2} /\ Width <= w
        BY <1>1, <3>1 DEF BufferInv, Buffer, Width, OutChannels
      <4>2. Width = w \/ (Width = 1 /\ w = 2)
        BY <2>1, <4>1
      <4> QED
        BY <2>1, <4>1, <4>2
    <3>2. CASE pc = "double"
      <4>1. w = 2 /\ (L = done \/ L = 2 * done)
        BY <1>1, <3>2 DEF BufferInv, Buffer, OutChannels
      <4> QED
        BY <2>1, <4>1
    <3> QED
      BY <3>1, <3>2
  <2>4. S * done <= R /\ R \in Int
    BY <1>1, <2>1 DEF SoundInv, CounterInv, Yield
  <2> HIDE DEF S, R, w, L
  <2>5. S * L <= S * (w * done)
    BY <2>1, <2>2, <2>3, TimesMono
  <2>6. w * (S * done) <= w * R
    BY <2>1, <2>4, TimesMono
  <2>7. S * L <= w * R
    <3>1. S * (w * done) = w * (S * done) /\ S * (w * done) \in Int /\ S * L \in Int
          /\ w * R \in Int
      BY <2>1, <2>2, <2>4
    <3> QED
      BY <2>5, <2>6, <3>1
  <2> QED
    BY <2>7 DEF WithinOutput, S, R, w, L
<1> QED
  BY <1>1, BufferInvariant, PTL

-----------------------------------------------------------------------------
(* Types.                                                                  *)

\* What the counters say nothing of.
Held == /\ inpcm \in [Cells -> Int \X {0, 1}]
        /\ hp \in [stream.heard -> Nat]
        /\ DOMAIN last = stream.heard

\* A cell of the block, or what lies before it.
LEMMA InTyped ==
    ASSUME Ints, NEW k \in Int
    PROVE  In(k) \in Int \X {0, 1}
<1> DEFINE ch == InChannels(stream)
<1>1. ch \in {1, 2} /\ fed \in Nat /\ frames \in Nat
  BY SizeAssumption DEF Ints, InChannels
<1>2. CASE k < 0
  BY <1>2 DEF In, Junk
<1>3. CASE ~(k < 0)
  <2>1. k \div ch \in Int /\ k % ch \in {0, 1}
    <3>1. CASE ch = 1
      BY <3>1
    <3>2. CASE ch = 2
      BY <3>2
    <3> QED
      BY <1>1, <3>1, <3>2
  <2>2. In(k) = <<fed - frames + k \div ch, k % ch>>
    BY <1>3 DEF In
  <2>3. fed - frames + k \div ch \in Int
    BY <1>1, <2>1
  <2> QED
    BY ONLY <2>1, <2>2, <2>3
<1> QED
  BY <1>2, <1>3

\* Every step keeps them.
LEMMA HeldStep ==
    ASSUME CounterInv, Held, [ResampleNext]_rvars
    PROVE  Held'
<1>1. done \in Nat /\ frames \in Nat /\ stream \in Streams /\ Ints
  BY DEF CounterInv, Ints
<1>2. ASSUME NEW s \in Streams, duer_audio_dac_start_play(s) PROVE Held'
  <2>1. Silence \in [Cells -> Int \X {0, 1}]
    BY DEF Silence, Zero
  <2> QED
    BY <1>2, <2>1 DEF duer_audio_dac_start_play, Held, NothingHeard
<1>3. ASSUME NEW size \in Sizes, Refuse(size) \/ Call(size) PROVE Held'
  BY <1>3 DEF Refuse, Call, Held
<1>4. CASE Copy
  BY <1>4 DEF Copy, Put, Held
<1>5. CASE Interpolate
  BY <1>5 DEF Interpolate, Put, Interpolated, Held
<1>6. CASE EndOfBlock
  <2>1. ASSUME NEW j \in Cells PROVE Kept[j] \in Int \X {0, 1}
    <3>1. j \in Int
      BY <2>1 DEF Cells, INPCM_DELAY_SIZE
    <3>2. CASE stream.via = "dual"
      <4>1. 2 * (frames - INPCM_DELAY_SIZE) + j \in Int
        BY <1>1, <3>1 DEF INPCM_DELAY_SIZE
      <4>2. Kept[j] = In(2 * (frames - INPCM_DELAY_SIZE) + j)
        BY <2>1, <3>2 DEF Kept
      <4> QED
        BY <1>1, <4>1, <4>2, InTyped
    <3>3. CASE stream.via # "dual" /\ j < INPCM_DELAY_SIZE
      <4>1. BlockCell(frames - INPCM_DELAY_SIZE + j, stream.idx) \in Int
        <5>1. frames - INPCM_DELAY_SIZE + j \in Int /\ InChannels(stream) \in {1, 2}
          BY <1>1, <3>1 DEF INPCM_DELAY_SIZE, InChannels
        <5>2. stream.idx \in Int
          <6>1. stream.idx \in 0 .. InChannels(stream) - 1
            BY <1>1, StreamFacts
          <6> QED
            BY ONLY <5>1, <6>1
        <5> QED
          BY <5>1, <5>2 DEF BlockCell
      <4>2. Kept[j] = In(BlockCell(frames - INPCM_DELAY_SIZE + j, stream.idx))
        BY <2>1, <3>3 DEF Kept
      <4> QED
        BY <1>1, <4>1, <4>2, InTyped
    <3>4. CASE stream.via # "dual" /\ ~(j < INPCM_DELAY_SIZE)
      <4>1. Kept[j] = inpcm[j]
        BY <2>1, <3>4 DEF Kept
      <4> QED
        BY <2>1, <4>1 DEF Held
    <3> QED
      BY <3>2, <3>3, <3>4
  <2>2. Kept \in [Cells -> Int \X {0, 1}]
    BY <2>1 DEF Kept
  <2> QED
    BY <1>6, <2>2 DEF EndOfBlock, Held
<1>7. CASE Filter
  BY <1>1, <1>7 DEF Filter, Held
<1>8. CASE Double \/ UNCHANGED rvars
  BY <1>8 DEF Double, rvars, Held
<1> QED
  BY <1>2, <1>3, <1>4, <1>5, <1>6, <1>7, <1>8 DEF ResampleNext

\* Every variable keeps its type (RESAMPLE and the buffers of a call).
THEOREM ResampleTypes == ResampleSpec => []ResampleTypeOK
<1>1. ResampleInit => Held
  BY DEF ResampleInit, Held, NothingHeard, Silence, Zero
<1>2. CounterInv /\ Held => ResampleTypeOK
  BY DEF CounterInv, Ints, Held, ResampleTypeOK
<1> QED
  BY <1>1, <1>2, HeldStep, CountersInvariant, PTL DEF ResampleSpec
=============================================================================
