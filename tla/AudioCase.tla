----------------------------- MODULE AudioCase -----------------------------
(***************************************************************************)
(* The audio tests of the factory firmware: pa_mic, mic_seal               *)
(* (main/case/player_recorder_case.c) and nolinear                         *)
(* (main/case/nolinear_case.c).  The command task starts a test: it loads  *)
(* the playback driver (module DacDriver) and creates a recorder task and  *)
(* a player task.  The player writes a WAV to the DAC and unloads the      *)
(* driver; the recorder fills a buffer from the microphones and dumps it   *)
(* to the host as numbered frames (main/result_out.c).                     *)
(*                                                                         *)
(* All three kinds of task run at the same priority on two cores, so every *)
(* step between two accesses to shared state is an action of its own.      *)
(* Shared are the header pointer testcase_header, the frame counter g_idx, *)
(* the "testing" flags and the driver.  Slots names the tests that may     *)
(* have tasks at the same time; a slot is used again once its tasks ended. *)
(***************************************************************************)
EXTENDS DacDriver, Naturals, Sequences

CONSTANTS
    Slots,       \* concurrently existing pairs of recorder and player tasks
    NoSlot,
    Overlap,     \* TRUE: the host may start a test while another one runs
    Reuse,       \* FALSE bounds the model: each slot holds one test
    RecSize,     \* RECORDER_PCM_SIZE: bytes recorded and dumped
    MiniBuf,     \* mini_buffer_size: the most that one microphone read returns
    FrameLen,    \* UART_OUT_SIZE: bytes of one dumped frame
    PcmSize,     \* PLAYER_PCM_SIZE: bytes to play
    PlayFrame,   \* PLAYER_FRAME_SIZE: bytes of one write to the DAC
    WavSize      \* size of the embedded WAV

ASSUME SlotAssumption    == NoSlot \notin Slots /\ Overlap \in BOOLEAN /\ Reuse \in BOOLEAN
ASSUME RecordAssumption  == /\ RecSize \in Nat \ {0}
                            /\ MiniBuf \in Nat \ {0}
                            /\ FrameLen \in Nat \ {0}
\* The embedded files are longer than what is played: 197654 bytes for
\* 192000 + 1024 and 965654 bytes for 960000 + 1024.
ASSUME WavAssumption     == /\ PcmSize \in Nat
                            /\ PlayFrame \in Nat \ {0}
                            /\ WavSize \in Nat
                            /\ PcmSize + PlayFrame <= WavSize

VARIABLES
    cpc, cslot,        \* command task: where it is, and in which slot
    testing,           \* the two function-static flags, by source file
    testcase_header,   \* header of player_recorder_case.c, shared by its tests
    g_idx,             \* frame counter of result_out.c, shared by all dumps
    kase,              \* the test of each slot
    rec, handle, got, label, idx, sent,   \* recorder tasks
    ply, off,                             \* player tasks
    frames, told, dropped  \* history: what each test printed and dropped

cmdVars == <<cpc, cslot, testing, testcase_header, kase>>
recVars == <<rec, handle, got, label, idx, sent, g_idx>>
plyVars == <<ply, off>>
hisVars == <<frames, told, dropped>>
vars    == <<cmdVars, recVars, plyVars, hisVars, dacVars>>

Cases == {"pa_mic", "mic_seal", "nolinear"}

\* The flag "testing" is static in each of the two start functions.
Files == {"player_recorder", "nolinear"}
FileOf(c) == IF c = "nolinear" THEN "nolinear" ELSE "player_recorder"

Headers == Cases \cup {"NULL"}

CmdPcs == {"idle", "i2s", "codec", "buf16", "buf32", "recorder", "player"}
RecPcs == {"none", "open", "alloc", "read", "close", "index", "emit", "end"}
PlyPcs == {"none", "ready", "check", "use", "wait", "test16", "free16",
           "null16", "test32", "free32", "null32", "uninstall"}

Replies == {"driver_load", "recorder_task", "player_task", "open", "malloc",
            "mic_read", "write", "record_end"}

CmdTypeOK ==
    /\ cpc \in CmdPcs
    /\ cslot \in Slots \cup {NoSlot}
    /\ testing \in [Files -> {0, 1}]
    /\ testcase_header \in Headers
    /\ kase \in [Slots -> Cases \cup {"none"}]

RecTypeOK ==
    /\ rec \in [Slots -> RecPcs]
    /\ handle \in [Slots -> BOOLEAN]
    /\ got \in [Slots -> Nat]
    /\ label \in [Slots -> Headers]
    /\ idx \in [Slots -> Nat]
    /\ sent \in [Slots -> Nat]
    /\ g_idx \in Nat

PlyTypeOK ==
    /\ ply \in [Slots -> PlyPcs]
    /\ off \in [Slots -> Nat]

HisTypeOK ==
    /\ frames \in [Slots -> Seq([hdr : Headers, idx : Nat, at : Nat])]
    /\ told \in [Slots -> SUBSET (Headers \X Replies)]
    /\ dropped \in [Slots -> BOOLEAN]

TypeOK == DacTypeOK /\ CmdTypeOK /\ RecTypeOK /\ PlyTypeOK /\ HisTypeOK

Init ==
    /\ DacInit
    /\ cpc = "idle"
    /\ cslot = NoSlot
    /\ testing = [f \in Files |-> 0]
    /\ testcase_header = "NULL"
    /\ g_idx = 0
    /\ kase = [s \in Slots |-> "none"]
    /\ rec = [s \in Slots |-> "none"]
    /\ handle = [s \in Slots |-> FALSE]
    /\ got = [s \in Slots |-> 0]
    /\ label = [s \in Slots |-> "NULL"]
    /\ idx = [s \in Slots |-> 0]
    /\ sent = [s \in Slots |-> 0]
    /\ ply = [s \in Slots |-> "none"]
    /\ off = [s \in Slots |-> 0]
    /\ frames = [s \in Slots |-> <<>>]
    /\ told = [s \in Slots |-> {}]
    /\ dropped = [s \in Slots |-> FALSE]

-----------------------------------------------------------------------------
\* After a panic nothing runs any more (CONFIG_ESP32_PANIC_PRINT_HALT), and
\* once memory is corrupt the model claims nothing more.
Alive == health = "ok"

CmdAt(pc)    == Alive /\ cpc = pc
RecAt(s, pc) == Alive /\ rec[s] = pc
PlyAt(s, pc) == Alive /\ ply[s] = pc

Running(s) == rec[s] # "none" \/ ply[s] # "none"

\* When the host sends its next start command.  A patient host waits until
\* both tasks of the test that it started have ended.  record_end tells it
\* when the recorder has; nothing tells it when the player has, so that it can
\* only wait for longer than the player plays.
HostSends == CmdAt("idle") /\ (Overlap \/ \A s \in Slots : ~Running(s))

\* The tests of player_recorder_case.c read the shared pointer at the moment
\* they print; nolinear_case.c prints the literal RESULT_NOLINEAR.
HeaderNow(s) == IF kase[s] = "nolinear" THEN "nolinear" ELSE testcase_header

Tell(s, what) == told' = [told EXCEPT ![s] = @ \cup {<<HeaderNow(s), what>>}]

\* Broken variant for testing RepliesTrue: mic_seal forgets to set the header.
HeaderAfterPaMicOnly(c) == IF c = "pa_mic" THEN c ELSE testcase_header

\* The header is overwritten before the flag is tested.
HeaderAfter(c) == IF c = "nolinear" THEN testcase_header ELSE c

Goto(pc) == cpc' = pc /\ UNCHANGED <<cslot, testing, testcase_header, kase>>

-----------------------------------------------------------------------------
(* The command task: start_player_recorder_case and start_nolinear_case.   *)

\* "testing" is set: nothing is started.  Only nolinear prints "testing".
Refuse(c) ==
    /\ HostSends
    /\ testing[FileOf(c)] = 1
    /\ testcase_header' = HeaderAfter(c)
    /\ UNCHANGED <<cpc, cslot, testing, kase>>
    /\ UNCHANGED <<recVars, plyVars, hisVars, dacVars>>

Begin(c, s) ==
    /\ HostSends
    /\ ~Running(s)
    /\ Reuse \/ kase[s] = "none"
    /\ testing[FileOf(c)] = 0
    /\ testing' = [testing EXCEPT ![FileOf(c)] = 1]
    /\ testcase_header' = HeaderAfter(c)
    /\ cpc' = "i2s"
    /\ cslot' = s
    /\ kase' = [kase EXCEPT ![s] = c]
    /\ frames' = [frames EXCEPT ![s] = <<>>]
    /\ told' = [told EXCEPT ![s] = {}]
    /\ dropped' = [dropped EXCEPT ![s] = FALSE]
    /\ UNCHANGED <<recVars, plyVars, dacVars>>

\* A failed load leaves through "exit": the flag stays 1, and only nolinear
\* prints an error.
LoadError ==
    /\ Goto("idle")
    /\ IF kase[cslot] = "nolinear" THEN Tell(cslot, "driver_load")
                                   ELSE UNCHANGED told
    /\ UNCHANGED <<frames, dropped>>

LoadStep(call, from, to, Load) ==
    /\ CmdAt(from)
    /\ \/ Load /\ Goto(to) /\ UNCHANGED hisVars
       \/ LoadFails(call) /\ LoadError
    /\ UNCHANGED <<recVars, plyVars>>

CmdI2s   == LoadStep("i2s", "i2s", "codec", InstallI2s)
CmdCodec == LoadStep("codec", "codec", "buf16", UNCHANGED dacVars)
CmdBuf16 == LoadStep("buf16", "buf16", "buf32", LoadBuf16)
CmdBuf32 == LoadStep("buf32", "buf32", "recorder", LoadBuf32)

\* xTaskCreate of one of the two tasks fails: an error, and the flag stays 1.
TaskError(call, what) ==
    /\ call \in Faults
    /\ Tell(cslot, what)
    /\ Goto("idle")
    /\ UNCHANGED <<frames, dropped>>

CmdRecorder ==
    /\ CmdAt("recorder")
    /\ \/ /\ rec' = [rec EXCEPT ![cslot] = "open"]
          /\ Goto("player")
          /\ UNCHANGED hisVars
       \/ TaskError("recorder_task", "recorder_task") /\ UNCHANGED rec
    /\ UNCHANGED <<handle, got, label, idx, sent, g_idx, plyVars, dacVars>>

\* Broken variant for testing HostSeesProtocol: the flag stays set.
CmdPlayerLatches ==
    /\ CmdAt("player")
    /\ ply' = [ply EXCEPT ![cslot] = "ready"]
    /\ Goto("idle")
    /\ UNCHANGED <<off, recVars, hisVars, dacVars>>

\* The flag is cleared as soon as the tasks exist, not when they end.
CmdPlayer ==
    /\ CmdAt("player")
    /\ \/ /\ ply' = [ply EXCEPT ![cslot] = "ready"]
          /\ cpc' = "idle"
          /\ testing' = [testing EXCEPT ![FileOf(kase[cslot])] = 0]
          /\ UNCHANGED <<cslot, testcase_header, kase, hisVars>>
       \/ TaskError("player_task", "player_task") /\ UNCHANGED ply
    /\ UNCHANGED <<off, recVars, dacVars>>

CmdStep == CmdI2s \/ CmdCodec \/ CmdBuf16 \/ CmdBuf32 \/ CmdRecorder \/ CmdPlayer

-----------------------------------------------------------------------------
(* The recorder task: recorder_exec, data_out_exec, out_print_data and     *)
(* out_print_data_ctl.                                                     *)

RecGoto(s, pc) ==
    /\ rec' = [rec EXCEPT ![s] = pc]
    /\ UNCHANGED <<label, idx, sent>>

\* vTaskDelete: the variables of the task end with it.
RecExit(s) ==
    /\ rec' = [rec EXCEPT ![s] = "none"]
    /\ got' = [got EXCEPT ![s] = 0]
    /\ label' = [label EXCEPT ![s] = "NULL"]
    /\ idx' = [idx EXCEPT ![s] = 0]
    /\ sent' = [sent EXCEPT ![s] = 0]

RecOpen(s) ==
    /\ RecAt(s, "open")
    /\ \/ /\ RecGoto(s, "alloc")
          /\ handle' = [handle EXCEPT ![s] = TRUE]
          /\ UNCHANGED <<got, told>>
       \/ "open" \in Faults /\ RecExit(s) /\ Tell(s, "open") /\ UNCHANGED handle
    /\ UNCHANGED <<g_idx, frames, dropped, cmdVars, plyVars, dacVars>>

\* A failed allocation ends the task with the microphone open.
RecAlloc(s) ==
    /\ RecAt(s, "alloc")
    /\ \/ RecGoto(s, "read") /\ UNCHANGED <<got, told>>
       \/ "malloc" \in Faults /\ RecExit(s) /\ Tell(s, "malloc")
    /\ UNCHANGED <<handle, g_idx, frames, dropped, cmdVars, plyVars, dacVars>>

\* Broken variant for testing WithinBuffers: the next read is not allowed for.
NoRoomWhenFull(length) == length >= RecSize

\* The loop ends before a read that might not fit.
NoRoom(length) == length + MiniBuf > RecSize

RecRead(s) ==
    /\ RecAt(s, "read")
    /\ \/ NoRoom(got[s]) /\ RecGoto(s, "close") /\ UNCHANGED <<got, told>>
       \/ \E n \in 1..MiniBuf :
            /\ ~NoRoom(got[s])
            /\ got' = [got EXCEPT ![s] = @ + n]
            /\ RecGoto(s, IF got[s] + n >= RecSize THEN "close" ELSE "read")
            /\ UNCHANGED told
       \/ /\ ~NoRoom(got[s])
          /\ "mic" \in Faults
          /\ Tell(s, "mic_read")
          /\ RecGoto(s, "close")
          /\ UNCHANGED got
    /\ UNCHANGED <<handle, g_idx, frames, dropped, cmdVars, plyVars, dacVars>>

\* bds_pcm_close, then the call of data_out_exec: the header is an argument.
RecClose(s) ==
    /\ RecAt(s, "close")
    /\ rec' = [rec EXCEPT ![s] = "index"]
    /\ handle' = [handle EXCEPT ![s] = FALSE]
    /\ label' = [label EXCEPT ![s] = HeaderNow(s)]
    /\ UNCHANGED <<got, idx, sent, g_idx, cmdVars, plyVars, hisVars, dacVars>>

\* Broken variant for testing DumpKeepsHeader: each frame reads the header.
RecIndexRereads(s) ==
    /\ RecAt(s, "index")
    /\ rec' = [rec EXCEPT ![s] = "emit"]
    /\ idx' = [idx EXCEPT ![s] = g_idx]
    /\ label' = [label EXCEPT ![s] = HeaderNow(s)]
    /\ UNCHANGED <<handle, got, sent, g_idx>>
    /\ UNCHANGED <<cmdVars, plyVars, hisVars, dacVars>>

\* g_idx++ is a load and a store, and the other tasks increment it too.
RecIndex(s) ==
    /\ RecAt(s, "index")
    /\ rec' = [rec EXCEPT ![s] = "emit"]
    /\ idx' = [idx EXCEPT ![s] = g_idx]
    /\ UNCHANGED <<handle, got, label, sent, g_idx>>
    /\ UNCHANGED <<cmdVars, plyVars, hisVars, dacVars>>

\* A buffer shorter than a frame goes out as one short frame.
FrameBytes == IF RecSize < FrameLen THEN RecSize ELSE FrameLen

\* data_out_exec stops when no whole frame is left.
DumpDone(length) == length + FrameLen > RecSize

\* Broken variant for testing TypeOK: the counter runs backwards.
NextIndexDown(i) == i - 1

NextIndex(i) == i + 1

\* The frame is lost when its buffer cannot be allocated, but it was counted.
RecEmit(s) ==
    /\ RecAt(s, "emit")
    /\ g_idx' = NextIndex(idx[s])
    /\ sent' = [sent EXCEPT ![s] = @ + FrameBytes]
    /\ rec' = [rec EXCEPT ![s] =
                 IF DumpDone(sent[s] + FrameBytes) THEN "end" ELSE "index"]
    /\ \/ frames' = [frames EXCEPT ![s] =
                       Append(@, [hdr |-> label[s], idx |-> idx[s], at |-> sent[s]])]
       \/ "frame" \in Faults /\ UNCHANGED frames
    /\ UNCHANGED <<handle, got, label, idx, told, dropped>>
    /\ UNCHANGED <<cmdVars, plyVars, dacVars>>

\* Broken variant for testing FramesNumbered: the counter is not reset.
RecEndKeepsIndex(s) ==
    /\ RecAt(s, "end")
    /\ Tell(s, "record_end")
    /\ RecExit(s)
    /\ UNCHANGED <<handle, g_idx, frames, dropped, cmdVars, plyVars, dacVars>>

\* Broken variant for testing AnsweredOrRefused: record_end is not printed.
RecEndSilent(s) ==
    /\ RecAt(s, "end")
    /\ g_idx' = 0
    /\ RecExit(s)
    /\ UNCHANGED <<handle, hisVars, cmdVars, plyVars, dacVars>>

\* out_print_data_ctl resets the counter; the header is read a second time.
RecEnd(s) ==
    /\ RecAt(s, "end")
    /\ g_idx' = 0
    /\ Tell(s, "record_end")
    /\ RecExit(s)
    /\ UNCHANGED <<handle, frames, dropped, cmdVars, plyVars, dacVars>>

RecStep(s) ==
    \/ RecOpen(s) \/ RecAlloc(s) \/ RecRead(s) \/ RecClose(s)
    \/ RecIndex(s) \/ RecEmit(s) \/ RecEnd(s)

-----------------------------------------------------------------------------
(* The player task: player_exec and the duer_audio_dac functions it calls. *)

PlyGoto(s, pc) == ply' = [ply EXCEPT ![s] = pc]

\* Another player is inside duer_audio_dac_write or the final drain.
Busy(s) == \E t \in Slots \ {s} : ply[t] \in {"use", "wait"}

KeepOthers == UNCHANGED <<cmdVars, recVars>>

\* duer_audio_dac_start_play always succeeds.
PlyStart(s) ==
    /\ PlyAt(s, "ready")
    /\ PlyGoto(s, "check")
    /\ UNCHANGED <<off, hisVars, dacVars>>
    /\ KeepOthers

\* Broken variants: the length played is not limited (WithinBuffers), the
\* player does not advance (TasksEnd).
PlayedOnToEnd(s) ==
    LET o == off[s] + PlayFrame
    IN  /\ off' = [off EXCEPT ![s] = o]
        /\ PlyGoto(s, IF o > WavSize THEN "wait" ELSE "check")
PlayedOnSpot(s) ==
    /\ UNCHANGED off
    /\ PlyGoto(s, IF off[s] > PcmSize THEN "wait" ELSE "check")

\* The player goes on after what it played; it stops behind the limit.
PlayedOn(s) ==
    LET o == off[s] + PlayFrame
    IN  /\ off' = [off EXCEPT ![s] = o]
        /\ PlyGoto(s, IF o > PcmSize \/ o > WavSize THEN "wait" ELSE "check")

\* Without buffers duer_audio_dac_write returns 0, which is no error to the
\* player: the chunk is dropped.
PlyCheck(s) ==
    /\ PlyAt(s, "check")
    /\ IF WriteHasBuffers
       THEN PlyGoto(s, "use") /\ UNCHANGED <<off, dropped>>
       ELSE PlayedOn(s) /\ dropped' = [dropped EXCEPT ![s] = TRUE]
    /\ UNCHANGED <<frames, told, dacVars>>
    /\ KeepOthers

PlyUse(s) ==
    /\ PlyAt(s, "use")
    /\ UseBuffers
    /\ \/ PlayedOn(s) /\ UNCHANGED told
       \/ "write" \in Faults /\ Tell(s, "write") /\ PlyGoto(s, "wait") /\ UNCHANGED off
    /\ UNCHANGED <<frames, dropped>>
    /\ KeepOthers

PlyWait(s) ==
    /\ PlyAt(s, "wait")
    /\ DrainI2s
    /\ PlyGoto(s, "test16")
    /\ UNCHANGED <<off, hisVars>>
    /\ KeepOthers

PlyTest16(s) ==
    /\ PlyAt(s, "test16")
    /\ PlyGoto(s, IF output_buf_16 # "null" THEN "free16" ELSE "test32")
    /\ UNCHANGED <<off, hisVars, dacVars>>
    /\ KeepOthers

PlyTest32(s) ==
    /\ PlyAt(s, "test32")
    /\ PlyGoto(s, IF output_buf_32 # "null" THEN "free32" ELSE "uninstall")
    /\ UNCHANGED <<off, hisVars, dacVars>>
    /\ KeepOthers

UnloadStep(s, from, to, Unload) ==
    /\ PlyAt(s, from)
    /\ Unload
    /\ PlyGoto(s, to)
    /\ UNCHANGED <<off, hisVars>>
    /\ KeepOthers

\* The last step of duer_audio_dac_unload_driver, and vTaskDelete.
PlyUninstall(s) ==
    /\ PlyAt(s, "uninstall")
    /\ UninstallI2s(Busy(s))
    /\ PlyGoto(s, "none")
    /\ off' = [off EXCEPT ![s] = 0]
    /\ UNCHANGED hisVars
    /\ KeepOthers

PlyFree16(s) == UnloadStep(s, "free16", "null16", FreeBuf16(Busy(s)))
PlyNull16(s) == UnloadStep(s, "null16", "test32", NullBuf16)
PlyFree32(s) == UnloadStep(s, "free32", "null32", FreeBuf32(Busy(s)))
PlyNull32(s) == UnloadStep(s, "null32", "uninstall", NullBuf32)

PlyStep(s) ==
    \/ PlyStart(s) \/ PlyCheck(s) \/ PlyUse(s) \/ PlyWait(s)
    \/ PlyTest16(s) \/ PlyFree16(s) \/ PlyNull16(s)
    \/ PlyTest32(s) \/ PlyFree32(s) \/ PlyNull32(s) \/ PlyUninstall(s)

-----------------------------------------------------------------------------
Next ==
    \/ \E c \in Cases : Refuse(c)
    \/ \E c \in Cases, s \in Slots : Begin(c, s)
    \/ CmdStep
    \/ \E s \in Slots : RecStep(s) \/ PlyStep(s)

Spec == Init /\ [][Next]_vars

\* The scheduler runs every task that is ready (same priority, time slices,
\* and the loops sleep); the host owes nothing.
Fairness ==
    /\ WF_vars(CmdStep)
    /\ \A s \in Slots : WF_vars(RecStep(s)) /\ WF_vars(PlyStep(s))

FairSpec == Spec /\ Fairness

-----------------------------------------------------------------------------
(* Safety, whatever the host does.                                         *)

\* The recorder never stores past its buffer and the player never reads past
\* the embedded WAV (recorder_exec and player_exec loops).
WithinBuffers ==
    \A s \in Slots :
        /\ got[s] <= RecSize
        /\ ply[s] \in {"check", "use"} => off[s] + PlayFrame <= WavSize

\* Whatever runs beside it, what nolinear prints carries its own header, and
\* the frames of one dump all carry one header (the argument of data_out_exec).
DumpKeepsHeader ==
    \A s \in Slots :
        /\ \A i, j \in 1..Len(frames[s]) : frames[s][i].hdr = frames[s][j].hdr
        /\ kase[s] = "nolinear" =>
               \A i \in 1..Len(frames[s]) : frames[s][i].hdr = "nolinear"

-----------------------------------------------------------------------------
(* Safety when the host is patient: the tests then do not disturb each     *)
(* other, in any order and after any failure of earlier ones.              *)

\* No player uses a freed buffer or an uninstalled I2S driver, and none has a
\* chunk of its WAV dropped for want of buffers.
DriverOutlivesPlayer ==
    ~Overlap => health = "ok" /\ \A s \in Slots : ~dropped[s]

SlotNumbered(s) ==
    \A i \in 1..Len(frames[s]) :
        /\ frames[s][i].hdr = kase[s]
        /\ frames[s][i].idx * FrameBytes = frames[s][i].at
        /\ i > 1 => frames[s][i-1].idx < frames[s][i].idx
        /\ "frame" \notin Faults => frames[s][i].idx = i - 1

\* Frames carry the header of the test that records and ascending numbers, and
\* the number times the frame size is the place of the frame in the recording
\* (g_idx against pcm_length): the host can tell which frame was lost.
FramesNumbered == ~Overlap => \A s \in Slots : SlotNumbered(s)

\* Every reply carries the header of the test that gives it, and record_end
\* follows a dump of all whole frames of the buffer.
RepliesTrue ==
    ~Overlap =>
        \A s \in Slots :
            /\ \A r \in told[s] : r[1] = kase[s]
            /\ rec[s] = "end" =>
                 /\ DumpDone(sent[s])
                 /\ "frame" \notin Faults => Len(frames[s]) * FrameBytes = sent[s]

\* When no test runs, the microphone is closed (but for a failed malloc), the
\* frame counter is back at 0 and, unless a failed start left its flag set,
\* the playback driver is unloaded and its buffers are freed.
ReleasedWhenIdle ==
    (~Overlap /\ cpc = "idle" /\ \A s \in Slots : ~Running(s)) =>
        /\ g_idx = 0
        /\ "malloc" \notin Faults => \A s \in Slots : ~handle[s]
        /\ (\A f \in Files : testing[f] = 0) => DacUnloaded

-----------------------------------------------------------------------------
(* Liveness.                                                               *)

\* Every task that was started ends, unless the chip halted: the loops of
\* recorder_exec, player_exec and data_out_exec terminate.
TasksEnd == \A s \in Slots : Running(s) ~> (~Running(s) \/ ~Alive)

\* With a patient host every test that is started is answered on the UART, but
\* for one of player_recorder_case.c whose driver does not load: its file then
\* refuses every later test (the exit at the end of the start function).
AnsweredOrRefused ==
    \A s \in Slots : (~Overlap /\ cpc = "i2s" /\ cslot = s) ~>
        \/ told[s] # {}
        \/ cpc = "idle" /\ kase[s] # "nolinear" /\ testing["player_recorder"] = 1

-----------------------------------------------------------------------------
(* What the code and the README say of the tests, where the program does   *)
(* something else.                                                         *)

\* README: frame_idx is the number of the frame, starting at 0.
FramesFromZero ==
    \A s \in Slots : \A i \in 1..Len(frames[s]) : frames[s][i].idx = i - 1

\* The test for NULL in duer_audio_dac_write: the buffers that a player found
\* are there when it uses them.
CheckedBuffersHold == \A s \in Slots : ply[s] = "use" => WriteHasBuffers
=============================================================================
