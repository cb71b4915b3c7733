----------------------------- MODULE MCTas5805m -----------------------------
(* Instances of Tas5805m for TLC. *)
EXTENDS Tas5805m

\* What transmit_registers knows of and the firmware's table does not use: a
\* switch, bursts of an even and of an odd length, and an offset that begins
\* an end marker but is none.
OddTable ==
    Reg(CFG_META_SWITCH, 1) \o Select(\h8c, \h29)
    \o Reg(CFG_META_BURST, 4) \o << <<\h18, 1>>, <<2, 3>>, <<4, 0>> >>
    \o Reg(CFG_META_BURST, 3) \o << <<\h18, 1>>, <<2, 3>> >>
    \o Reg(CFG_END_1, 5) \o Select(0, 0) \o EndMarker

DemoTables == [odd |-> OddTable]

\* Complete lines, one that lacks a value, and one that is no command.
SomeLines ==
    { [kind |-> "w", vals |-> <<152, 0, 0>>],
      [kind |-> "w", vals |-> <<152, 76>>],
      [kind |-> ">", vals |-> <<7>>],
      [kind |-> "other", vals |-> <<>>] }

\* Every text of up to four lines.
SomeScripts == UNION {[1 .. n -> SomeLines] : n \in 0 .. 4}
=============================================================================
