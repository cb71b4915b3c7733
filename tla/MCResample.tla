---------------------------- MODULE MCResample ----------------------------
(* Rates that stand for 8, 16, 44.1 and 48 kHz, and for 72 kHz, into 48 kHz:  *)
(* a second is 14 or 15 frames.  Blocks shorter and longer than the delay line *)
(* and, for two channels, an odd one.                                         *)
EXTENDS Resample

MCRates == {<<14, 84>>, <<14, 42>>, <<14, 15>>, <<14, 14>>, <<15, 10>>}

MCStreams ==
    {s \in {[via |-> via, src |-> rate[1], tar |-> rate[2], idx |-> idx,
             heard |-> IF via = "dual" THEN {0, 1} ELSE {idx}]
               : via \in Vias, rate \in MCRates, idx \in {0, 1}}
       : s.idx < (IF s.via = "down_channel" THEN 2 ELSE 1)}
=============================================================================
