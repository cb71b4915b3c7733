-------------------------- MODULE MCCommandMonitor --------------------------
(* Instances of CommandMonitor for TLC. *)
EXTENDS CommandMonitor, TLC

\* Every external call may fail.
AllFaults == {"nvs_full", "nvs_init", "command_task", "nvs_write", "dsp_create",
              "dsp_start", "intr", "audio", "malloc", "partition", "erase", "write", "read"}

\* All failures but the one that profile_read does not report.
ReportedFaults == AllFaults \ {"partition", "read"}

NoFaults == {}

SharedHeader == {"pa_mic", "mic_seal"}
OneTest      == {"nolinear"}

\* Serial numbers of one length, and profiles, are interchangeable.
StoreSymmetry == Permutations(ShortSns) \cup Permutations(Profiles)
=============================================================================
