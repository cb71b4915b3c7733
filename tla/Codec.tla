-------------------------------- MODULE Codec -------------------------------
(***************************************************************************)
(* The codec chips behind the playback driver: codec_init and              *)
(* duer_audio_dac_set_volume of components/player/bds_player.c, the        *)
(* register scripts of the ES8156 (DAC) and of the ES7243E (ADC), and the  *)
(* volume parameter of an audio test, from its characters to the register. *)
(*                                                                         *)
(* Every register write is a step that may fail.  The chips keep their     *)
(* registers when only the ESP32 is reset and lose them with the power.    *)
(* AudioCase takes the whole of codec_init as one call that may fail; the   *)
(* flags by which the code refuses a test are there, too.  Here a test may  *)
(* start whenever no other one is being started, which allows every order   *)
(* of starts that the flags allow.                                         *)
(***************************************************************************)
EXTENDS Integers, Sequences, I2cBus

CONSTANTS
    Params,      \* volume parameters of the host: sequences of characters
    MaxFaults,   \* bound: calls that fail between two starts of a test
    Unset        \* a register after power-on; no volume yet

ASSUME CodecAssumption ==
    /\ Params \subseteq Seq(0 .. 255)
    /\ MaxFaults \in Nat
    /\ Unset \notin Int

VARIABLES
    board,     \* the board that the build is configured for
    cpc,       \* place of the main task, then of the command task
    step,      \* next line of the register script under way
    ret,       \* result of the load so far: 0 or an error
    vol,       \* the parsed volume of the last test
    loaded,    \* what the last test learned from the load
    dac, adc,  \* registers of the chips
    faults     \* calls that failed since the last start of a test

codecVars == <<board, cpc, step, ret, vol, loaded, dac, adc, faults>>
cvars == <<busVars, codecVars>>

-----------------------------------------------------------------------------
(* Register scripts.  The delays of the ADC's script are left out. *)

DacHalf == <<
    <<\h02, \h04>>, <<\h20, \h2a>>, <<\h21, \h3c>>, <<\h22, \h00>>,
    <<\h24, \h07>>, <<\h23, \h3a>>, <<\h0a, \h01>>, <<\h0b, \h01>>,
    <<\h14, \hbf>>, <<\h01, \h21>>, <<\h0d, \h14>>, <<\h18, \h00>>,
    <<\h08, \h3f>>, <<\h00, \h02>>, <<\h00, \h03>>, <<\h25, \h20>> >>

\* ES8156_codec_init writes the same lines twice.
DacScript == DacHalf \o DacHalf

\* es7243e_adc_init and, at boot, es7243e_init write the same lines.
AdcScript == <<
    <<\hf9, \h00>>, <<\h02, \h80>>, <<\h03, \h20>>, <<\h0d, \h00>>,
    <<\h04, \h03>>, <<\h05, \h00>>, <<\h09, \he0>>, <<\h0a, \ha0>>,
    <<\h0b, \h0c>>, <<\h0e, \hbf>>, <<\h0f, \h80>>, <<\h14, \h0c>>,
    <<\h15, \h0c>>, <<\h18, \h26>>, <<\h17, \h02>>, <<\h19, \h77>>,
    <<\h1a, \hf4>>, <<\h1b, \h66>>, <<\h1c, \h44>>, <<\h1e, \h00>>,
    <<\h1f, \h0c>>, <<\h20, \h18>>, <<\h21, \h18>>, <<\h00, \h80>>,
    <<\h01, \h3a>>, <<\h16, \h3f>>, <<\h16, \h00>>, <<\h16, \h03>>,
    <<\h16, \h00>> >>

VolumeReg == \h14

DacRegs == {DacScript[i][1] : i \in DOMAIN DacScript}
AdcRegs == {AdcScript[i][1] : i \in DOMAIN AdcScript}

Contents == (0 .. 255) \cup {Unset}

-----------------------------------------------------------------------------
(* The volume. *)

\* One to three characters are read as digits, whatever they are; any other
\* parameter stands for the default of the test.
ParsedVolume(param, default) ==
    LET digit(i) == param[i] - \h30
    IN  CASE Len(param) = 1 -> digit(1)
          [] Len(param) = 2 -> 10 * digit(1) + digit(2)
          [] Len(param) = 3 -> 100 * digit(1) + 10 * digit(2) + digit(3)
          [] OTHER -> default

\* The defaults of the mic tests and of nolinear.
DefaultVolumes == {70, 100}

g_vol_tbl == << \hff, \h9f, \h8f, \h7f, \h6f, \h5f, \h5c, \h5a, \h58, \h54, \h50,
                \h4c, \h4a, \h38, \h37, \h36, \h35, \h34, \h33, \h32, \h31 >>

AtLeast(low, x) == IF x < low THEN low ELSE x
AtMost(high, x) == IF x > high THEN high ELSE x

\* duer_audio_dac_set_volume.  C divides towards zero; TLA+ counts from 1.
TableEntry(v) ==
    LET fifth == IF v >= 0 THEN v \div 5 ELSE -((-v) \div 5)
    IN  g_vol_tbl[AtLeast(0, AtMost(20, fifth)) + 1]

\* Broken variant for testing VolumeInRange: only the low end is cut off.
DacLevelUncut(entry) == ((AtLeast(0, entry) * 1910) \div 1000) % 256

\* Broken variant for testing CodecTypeOK: nothing is cut off.
DacLevelWide(entry) == (entry * 1910) \div 1000

\* ES8156_codec_set_voice_volume, whose result is passed on as an uint8_t.
DacLevel(entry) == ((AtMost(100, AtLeast(0, entry)) * 1910) \div 1000) % 256

VolumeWrite(v) == <<VolumeReg, DacLevel(TableEntry(v))>>

-----------------------------------------------------------------------------
CodecInit ==
    /\ BusDown
    /\ board \in {"CUPID_BOARD_V2", "DU1906_MODULE"}
    /\ cpc = "boot"
    /\ step = 1
    /\ ret = 0
    /\ vol = Unset
    /\ loaded = "none"
    /\ dac = [r \in DacRegs |-> Unset]
    /\ adc = [r \in AdcRegs |-> Unset]
    /\ faults = 0

\* A call fails.
Fault == faults < MaxFaults /\ faults' = faults + 1
NoFault == UNCHANGED faults

\* The task goes to the first step of pc.
Goto(pc) == cpc' = pc /\ step' = 1

\* i2c_bus_create, for a caller that goes on at pc if the bus was not
\* created and at pcNext otherwise.  calloc may return NULL, which is used.
CreateBus(pc, pcNext) ==
    \/ BusFound /\ NoFault /\ Goto(pcNext)
    \/ BusCreated /\ NoFault /\ Goto(pcNext)
    \/ BusFails /\ Fault /\ Goto(pc)
    \/ i2c_bus = "null" /\ UNCHANGED busVars /\ Fault /\ Goto("halted")

\* One line of a script is written; the last one leads to pcNext.
NextLine(script, pcNext) ==
    IF step < Len(script) THEN step' = step + 1 /\ UNCHANGED cpc ELSE Goto(pcNext)

LineFails(chip, chipNext, write) ==
    /\ WriteFails(chip, chipNext, write)
    /\ IF Installed THEN Fault ELSE NoFault

-----------------------------------------------------------------------------
(* app_main: on CUPID_BOARD_V2 the ADC is initialised at boot. *)

BootBus ==
    /\ cpc = "boot"
    /\ IF board = "CUPID_BOARD_V2"
       THEN CreateBus("idle", "boot_adc")
       ELSE UNCHANGED busVars /\ NoFault /\ Goto("idle")
    /\ UNCHANGED <<board, ret, vol, loaded, dac, adc>>

\* The result of es7243e_init is ignored.
BootAdc ==
    /\ cpc = "boot_adc"
    /\ \/ WriteAcked(adc, adc', AdcScript[step]) /\ NoFault
       \/ LineFails(adc, adc', AdcScript[step])
    /\ NextLine(AdcScript, "idle")
    /\ UNCHANGED <<busVars, board, ret, vol, loaded, dac>>

-----------------------------------------------------------------------------
(* The start of an audio test. *)

\* The volume is parsed and the driver loaded.
Begin ==
    /\ cpc = "idle"
    /\ \E param \in Params, default \in DefaultVolumes :
           vol' = ParsedVolume(param, default)
    /\ loaded' = "none"
    /\ ret' = 0
    /\ faults' = 0
    /\ Goto("i2s")
    /\ UNCHANGED <<busVars, board, dac, adc>>

\* A failed load goes to the volume all the same.
LoadError == ret' = -1 /\ Goto("volume")

I2s ==
    /\ cpc = "i2s"
    /\ \/ NoFault /\ Goto("dac_bus") /\ UNCHANGED ret
       \/ Fault /\ LoadError
    /\ UNCHANGED <<busVars, board, vol, loaded, dac, adc>>

\* Broken variant for testing CleanStartConfigures: a chip that has a volume
\* is taken for initialised.
DacBusOnce ==
    /\ cpc = "dac_bus"
    /\ IF dac[VolumeReg] = Unset THEN CreateBus("dac", "dac")
                                 ELSE CreateBus("adc_bus", "adc_bus")
    /\ UNCHANGED <<board, ret, vol, loaded, dac, adc>>

\* i2c_init of both chips keeps the handle and does not look at it.
DacBus ==
    /\ cpc = "dac_bus"
    /\ CreateBus("dac", "dac")
    /\ UNCHANGED <<board, ret, vol, loaded, dac, adc>>

\* ES8156_codec_init collects the results of its writes and returns ESP_OK.
DacLine ==
    /\ cpc = "dac"
    /\ \/ WriteAcked(dac, dac', DacScript[step]) /\ NoFault
       \/ LineFails(dac, dac', DacScript[step])
    /\ NextLine(DacScript, "adc_bus")
    /\ UNCHANGED <<busVars, board, ret, vol, loaded, adc>>

AdcBus ==
    /\ cpc = "adc_bus"
    /\ CreateBus("adc", "adc")
    /\ UNCHANGED <<board, ret, vol, loaded, dac, adc>>

\* Broken variant for testing AdcReported: "ret =" in the place of "ret |=".
AdcLineLast ==
    /\ cpc = "adc"
    /\ \/ WriteAcked(adc, adc', AdcScript[step]) /\ NoFault /\ ret' = 0
       \/ LineFails(adc, adc', AdcScript[step]) /\ ret' = -1
    /\ NextLine(AdcScript, IF ret' = 0 THEN "bufs" ELSE "volume")
    /\ UNCHANGED <<busVars, board, vol, loaded, dac>>

\* es7243e_adc_init writes on after an error and returns it at the end.
AdcLine ==
    /\ cpc = "adc"
    /\ \/ WriteAcked(adc, adc', AdcScript[step]) /\ NoFault /\ UNCHANGED ret
       \/ LineFails(adc, adc', AdcScript[step]) /\ ret' = -1
    /\ NextLine(AdcScript, IF ret' = 0 THEN "bufs" ELSE "volume")
    /\ UNCHANGED <<busVars, board, vol, loaded, dac>>

\* The conversion buffers, which DacDriver models.
Bufs ==
    /\ cpc = "bufs"
    /\ \/ NoFault /\ Goto("volume") /\ UNCHANGED ret
       \/ Fault /\ LoadError
    /\ UNCHANGED <<busVars, board, vol, loaded, dac, adc>>

\* duer_audio_dac_set_volume, whose result is 0 whatever the chip took; then
\* the result of the load decides whether the test goes on.
SetVolume ==
    /\ cpc = "volume"
    /\ \/ WriteAcked(dac, dac', VolumeWrite(vol)) /\ NoFault
       \/ LineFails(dac, dac', VolumeWrite(vol))
    /\ loaded' = IF ret = 0 THEN "ok" ELSE "failed"
    /\ Goto("idle")
    /\ UNCHANGED <<busVars, board, ret, vol, adc>>

-----------------------------------------------------------------------------
\* The ESP32 is reset, by a command, a button or a loss of power, and the
\* chips keep their registers (chipsKept) or lose them.
Reset(chipsKept) ==
    /\ i2c_bus' = "null" /\ driver' = "none"
    /\ Goto("boot")
    /\ ret' = 0 /\ vol' = Unset /\ loaded' = "none" /\ faults' = 0
    /\ dac' = IF chipsKept THEN dac ELSE [r \in DacRegs |-> Unset]
    /\ adc' = IF chipsKept THEN adc ELSE [r \in AdcRegs |-> Unset]
    /\ UNCHANGED board

Restart  == Reset(TRUE)
PowerCut == Reset(FALSE)

CodecNext ==
    \/ BootBus \/ BootAdc
    \/ Begin \/ I2s \/ DacBus \/ DacLine \/ AdcBus \/ AdcLine \/ Bufs \/ SetVolume
    \/ Restart \/ PowerCut

CodecSpec == CodecInit /\ [][CodecNext]_cvars

-----------------------------------------------------------------------------
(* Properties. *)

\* The first n lines of script have taken effect: each register that they
\* write holds the last value they give it.
Settled(chip, script, n) ==
    \A i \in 1 .. n :
        (\A j \in i + 1 .. n : script[j][1] # script[i][1])
            => chip[script[i][1]] = script[i][2]

AdcConfigured == Settled(adc, AdcScript, Len(AdcScript))
DacConfigured == Settled(dac, DacScript, Len(DacScript))

\* The DAC as a start leaves it: the script, then the volume of the test.
DacAtVolume ==
    Settled(dac, Append(DacScript, VolumeWrite(vol)), Len(DacScript) + 1)

\* Variables keep their types.
CodecTypeOK ==
    /\ BusTypeOK
    /\ board \in {"CUPID_BOARD_V2", "DU1906_MODULE"}
    /\ cpc \in {"boot", "boot_adc", "idle", "i2s", "dac_bus", "dac", "adc_bus", "adc",
                "bufs", "volume", "halted"}
    /\ step \in 1 .. Len(DacScript)
    /\ ret \in {0, -1}
    /\ vol \in Int \cup {Unset}
    /\ loaded \in {"none", "ok", "failed"}
    /\ dac \in [DacRegs -> Contents]
    /\ adc \in [AdcRegs -> Contents]
    /\ faults \in Nat

\* A test goes on only with the ADC wholly configured: no lost write, in no
\* order of failures, resets and repeated tests, passes for a success
\* (es7243e_adc_init, "ret |=").
AdcReported == loaded = "ok" => AdcConfigured

\* bds_player.h says of duer_audio_dac_load_driver "0, if success": when it
\* returns 0, the DAC is configured too.
DacReported == cpc = "volume" /\ ret = 0 => DacConfigured

\* A start in which no call failed leaves both chips configured and the volume
\* of its own parameter set, whatever earlier starts, resets and failures left
\* in them (the order of codec_init and duer_audio_dac_set_volume).
CleanStartConfigures ==
    cpc = "idle" /\ loaded # "none" /\ Installed /\ faults = 0
        => loaded = "ok" /\ AdcConfigured /\ DacAtVolume

\* Whatever the host sends as a volume, the DAC's level stays between the two
\* ends that the table and the clamps leave, or at the level of the script.
VolumeInRange == dac[VolumeReg] \in {Unset, \hbf} \cup 93 .. 191

\* A bus whose creation failed stays dead although i2c_bus_create then returns
\* its pointer: no test goes on until the next reset.
DeadBusRefuses == i2c_bus = "freed" => ~Installed /\ loaded # "ok"

=============================================================================
