----------------------------- MODULE DacDriver -----------------------------
(***************************************************************************)
(* The playback driver of components/player/bds_player.c: the two         *)
(* conversion buffers that duer_audio_dac_load_driver allocates and        *)
(* duer_audio_dac_unload_driver frees, and the I2S driver they are         *)
(* written to.  These are plain globals without a lock: the command task   *)
(* loads the driver and the player tasks use and unload it.  Each operator *)
(* below is one step of those functions between two accesses that another  *)
(* task can observe.                                                       *)
(*                                                                         *)
(* A buffer pointer is "null", "live" (points at allocated memory) or      *)
(* "freed" (not NULL, but the memory was given back: the window between    *)
(* free() and the assignment of NULL that follows it).  health records     *)
(* undefined behaviour: "corrupt" once a freed buffer was used or freed    *)
(* again, "halted" once a NULL pointer was used and the panic handler      *)
(* stopped the chip.  No step follows either of them.                      *)
(***************************************************************************)
CONSTANT Faults   \* names of the external calls that may fail

VARIABLES output_buf_16, output_buf_32, i2s, health

dacVars == <<output_buf_16, output_buf_32, i2s, health>>

BufState == {"null", "live", "freed"}

DacTypeOK ==
    /\ output_buf_16 \in BufState
    /\ output_buf_32 \in BufState
    /\ i2s \in BOOLEAN
    /\ health \in {"ok", "corrupt", "halted"}

DacInit ==
    /\ output_buf_16 = "null"
    /\ output_buf_32 = "null"
    /\ i2s = FALSE
    /\ health = "ok"

DacLoaded   == output_buf_16 = "live" /\ output_buf_32 = "live" /\ i2s
DacUnloaded == output_buf_16 = "null" /\ output_buf_32 = "null" /\ ~i2s

-----------------------------------------------------------------------------
\* duer_audio_dac_load_driver.  Installing an installed I2S driver succeeds.
InstallI2s ==
    /\ i2s' = TRUE
    /\ UNCHANGED <<output_buf_16, output_buf_32, health>>

\* A buffer is allocated only when its pointer is NULL.
Allocated(buf) == IF buf = "null" THEN "live" ELSE buf

LoadBuf16 ==
    /\ output_buf_16' = Allocated(output_buf_16)
    /\ UNCHANGED <<output_buf_32, i2s, health>>

LoadBuf32 ==
    /\ output_buf_32' = Allocated(output_buf_32)
    /\ UNCHANGED <<output_buf_16, i2s, health>>

LoadFails(call) == call \in Faults /\ UNCHANGED dacVars

-----------------------------------------------------------------------------
\* duer_audio_dac_write: the NULL test of its first lines.
WriteHasBuffers == output_buf_16 # "null" /\ output_buf_32 # "null"

\* The resampling, the copy and the I2S write after that test read both
\* pointers again.  A NULL pointer or a missing I2S driver faults, a freed
\* buffer corrupts the heap.
UseBuffers ==
    /\ health' \in
         IF output_buf_16 = "null" \/ output_buf_32 = "null" THEN {"halted"}
         ELSE IF ~i2s THEN {"corrupt", "halted"}
         ELSE IF "freed" \in {output_buf_16, output_buf_32} THEN {"corrupt"}
         ELSE {health}
    /\ UNCHANGED <<output_buf_16, output_buf_32, i2s>>

\* duer_audio_dac_wait_play_end touches only the I2S driver.
DrainI2s ==
    /\ health' \in IF i2s THEN {health} ELSE {"corrupt", "halted"}
    /\ UNCHANGED <<output_buf_16, output_buf_32, i2s>>

-----------------------------------------------------------------------------
\* duer_audio_dac_unload_driver: free() and "= NULL" are separate steps, and
\* the pointer is read again after the test.  "busy" tells whether another
\* player is between the NULL test and the end of its write.
FreeOutcome(buf, busy) ==
    IF buf = "freed" THEN {"corrupt"}
    ELSE IF buf = "live" /\ busy THEN {health, "corrupt"}
    ELSE {health}

Released(buf) == IF buf = "live" THEN "freed" ELSE buf

FreeBuf16(busy) ==
    /\ health' \in FreeOutcome(output_buf_16, busy)
    /\ output_buf_16' = Released(output_buf_16)
    /\ UNCHANGED <<output_buf_32, i2s>>

\* Broken variant for testing DriverOutlivesPlayer: the pointer dangles.
NullBuf16Forgotten == UNCHANGED dacVars

NullBuf16 ==
    /\ output_buf_16' = "null"
    /\ UNCHANGED <<output_buf_32, i2s, health>>

FreeBuf32(busy) ==
    /\ health' \in FreeOutcome(output_buf_32, busy)
    /\ output_buf_32' = Released(output_buf_32)
    /\ UNCHANGED <<output_buf_16, i2s>>

NullBuf32 ==
    /\ output_buf_32' = "null"
    /\ UNCHANGED <<output_buf_16, i2s, health>>

\* Broken variant for testing ReleasedWhenIdle: the driver stays installed.
UninstallI2sForgotten(busy) == UNCHANGED dacVars

\* codec_uninit ignores the result of i2s_driver_uninstall.  A player that is
\* blocked in an I2S write loses the driver under its feet.
UninstallI2s(busy) ==
    /\ i2s' = FALSE
    /\ health' \in IF i2s /\ busy THEN {health, "corrupt"} ELSE {health}
    /\ UNCHANGED <<output_buf_16, output_buf_32>>

=============================================================================
