---------------------------- MODULE MCAudioCase ----------------------------
(* Instances of AudioCase for TLC.  Slots are interchangeable, so safety    *)
(* runs use symmetry; liveness runs do not.                                 *)
EXTENDS AudioCaseInv, TLC

\* Every external call the tests make may fail.
AllFaults == {"i2s", "codec", "buf16", "buf32", "recorder_task", "player_task",
              "open", "malloc", "mic", "write", "frame"}

NoFaults == {}

SlotSymmetry == Permutations(Slots)
=============================================================================
