---------------------------- MODULE SampleStream ----------------------------
(***************************************************************************)
(* What a conversion of the sample rate promises: the sound that comes out *)
(* is the sound that went in, however it was cut into blocks.  A stream of *)
(* frames comes in at src frames for every tar that go out, so that output *)
(* frame e lies at the place e * src / tar of the input.  It is the input  *)
(* frame at that place or, between two of them, the mean of both weighted  *)
(* by how near they are.                                                   *)
(***************************************************************************)
EXTENDS Integers

CONSTANT Streams   \* records with rates src and tar, and the channels heard

VARIABLES
    stream,    \* the stream that is played
    fed,       \* frames of it that came in
    emitted,   \* frames that went out
    last       \* the samples that the last of them was computed from, by channel

svars == <<stream, fed, emitted, last>>

\* Input frames that output frame e of s is computed from, with their weights.
Neighbours(s, e) ==
    LET at   == (s.src * e) \div s.tar
        rest == (s.src * e) % s.tar
    IN  {<<at, s.tar - rest>>} \cup (IF rest = 0 THEN {} ELSE {<<at + 1, rest>>})

\* Every channel is computed from its own samples: <<frame, channel, weight>>.
HeardAt(s, e) == [c \in s.heard |-> {<<f[1], c, f[2]>> : f \in Neighbours(s, e)}]

Silent(s) == [c \in s.heard |-> {}]

StreamInit ==
    /\ stream \in Streams
    /\ fed = 0
    /\ emitted = 0
    /\ last = Silent(stream)

\* Another stream begins.
Begin(s) ==
    /\ stream' = s
    /\ fed' = 0
    /\ emitted' = 0
    /\ last' = Silent(s)

\* More of the stream comes in.
Feed ==
    /\ fed' \in Nat
    /\ fed' > fed
    /\ UNCHANGED <<stream, emitted, last>>

\* A frame that can be computed from what came in goes out.
Emit ==
    /\ \A f \in Neighbours(stream, emitted) : f[1] \in 0 .. fed - 1
    /\ emitted' = emitted + 1
    /\ last' = HeardAt(stream, emitted)
    /\ UNCHANGED <<stream, fed>>

StreamNext == (\E s \in Streams : Begin(s)) \/ Feed \/ Emit

StreamSpec == StreamInit /\ [][StreamNext]_svars

=============================================================================
