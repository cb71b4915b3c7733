---------------------------- MODULE AudioCaseInv ----------------------------
(***************************************************************************)
(* Why the tests of AudioCase do not disturb each other when the host is   *)
(* patient: the inductive invariant behind DriverOutlivesPlayer,           *)
(* FramesNumbered, RepliesTrue and ReleasedWhenIdle, in three layers that  *)
(* AudioCaseProofs proves one after the other.                             *)
(***************************************************************************)
EXTENDS AudioCase

\* The command task is starting a test, or its tasks run.
Active(s) == Running(s) \/ (cpc # "idle" /\ cslot = s)

(* Layer 1, control: at most one test is active, its flag is set while it   *)
(* is being started, and testcase_header still is its own header.           *)
OneActive == \A s, t \in Slots : Active(s) /\ Active(t) => s = t

StartingOwnsFlag ==
    cpc # "idle" =>
        /\ cslot \in Slots
        /\ testing[FileOf(kase[cslot])] = 1
        /\ ply[cslot] = "none"
        /\ cpc # "player" => rec[cslot] = "none"

HeaderIsOwn ==
    \A s \in Slots :
        Active(s) => /\ kase[s] \in Cases
                     /\ kase[s] # "nolinear" => testcase_header = kase[s]

Control == ~Overlap => OneActive /\ StartingOwnsFlag /\ HeaderIsOwn

(* Layer 2, driver: what is loaded follows from where the command task or   *)
(* the one player is.                                                       *)
UsesBuf16  == {"ready", "check", "use", "wait", "test16", "free16"}
AfterBuf16 == {"test32", "free32", "null32", "uninstall"}
UsesBuf32  == UsesBuf16 \cup {"null16", "test32", "free32"}

LoadingOrder ==
    /\ cpc \in {"codec", "buf16", "buf32", "recorder", "player"} => i2s
    /\ cpc \in {"buf32", "recorder", "player"} => output_buf_16 = "live"
    /\ cpc \in {"recorder", "player"} => output_buf_32 = "live"

UnloadingOrder ==
    \A s \in Slots :
        /\ ply[s] # "none" => i2s
        /\ ply[s] \in UsesBuf16 => output_buf_16 = "live"
        /\ ply[s] = "null16" => output_buf_16 = "freed"
        /\ ply[s] \in AfterBuf16 => output_buf_16 = "null"
        /\ ply[s] \in UsesBuf32 => output_buf_32 = "live"
        /\ ply[s] = "null32" => output_buf_32 = "freed"
        /\ ply[s] = "uninstall" => output_buf_32 = "null"

NothingDangles ==
    /\ output_buf_16 = "freed" => \E s \in Slots : ply[s] = "null16"
    /\ output_buf_32 = "freed" => \E s \in Slots : ply[s] = "null32"

LoadedHasOwner ==
    \/ DacUnloaded
    \/ \E f \in Files : testing[f] = 1
    \/ \E s \in Slots : ply[s] # "none"

Driver ==
    ~Overlap =>
        /\ health = "ok"
        /\ \A s \in Slots : ~dropped[s]
        /\ LoadingOrder
        /\ UnloadingOrder
        /\ NothingDangles
        /\ LoadedHasOwner

(* Layer 3, dump: the frame counter belongs to the one recorder that dumps. *)
Dumping(s) == rec[s] \in {"index", "emit", "end"}

NotDumping == (\A s \in Slots : ~Dumping(s)) => g_idx = 0

LocalsFit(s) ==
    /\ ~Dumping(s) => sent[s] = 0
    /\ rec[s] \in {"index", "emit"} => label[s] = kase[s]
    /\ rec[s] = "emit" => idx[s] = g_idx
    /\ rec[s] = "end" => DumpDone(sent[s])
    /\ "malloc" \notin Faults /\ rec[s] \notin {"alloc", "read", "close"} => ~handle[s]

\* Before its dump a test has printed no frame.
BeforeDump(s) == \/ rec[s] \in {"open", "alloc", "read", "close"}
                 \/ cpc \notin {"idle", "player"} /\ cslot = s

FramesSoFar(s) ==
    /\ \A i \in 1..Len(frames[s]) : frames[s][i].idx < g_idx
    /\ g_idx * FrameBytes = sent[s]
    /\ "frame" \notin Faults => Len(frames[s]) = g_idx

OwnReplies(s) == \A r \in told[s] : r[1] = kase[s]

DumpOf(s) ==
    /\ LocalsFit(s)
    /\ BeforeDump(s) => frames[s] = <<>>
    /\ Dumping(s) => FramesSoFar(s)
    /\ SlotNumbered(s)
    /\ OwnReplies(s)

Dump == ~Overlap => NotDumping /\ \A s \in Slots : DumpOf(s)

\* The invariant that is inductive: a patient host's tests keep their types,
\* control, driver and dump in order, so none of them disturbs another
\* (player_exec, recorder_exec, load and unload of the driver, result_out.c).
PatientInv == TypeOK /\ Control /\ Driver /\ Dump

-----------------------------------------------------------------------------
(* What the host sees of the current test, the one that was started last.   *)
Seen(history, nothing) == IF cslot = NoSlot THEN nothing ELSE history[cslot]

PhaseSeen == CASE cpc # "idle" -> "starting"
               [] cpc = "idle" /\ (\E s \in Slots : Running(s)) -> "running"
               [] OTHER -> "idle"

Protocol ==
    INSTANCE AudioProtocol WITH
        Tests <- Cases, File <- FileOf, FrameSize <- FrameBytes,
        StartErrors <- {"driver_load", "recorder_task", "player_task"},
        SilentLoads <- {"pa_mic", "mic_seal"},
        TaskErrors <- {"open", "malloc", "mic_read", "write"},
        Lossless <- "frame" \notin Faults,
        phase <- PhaseSeen,
        test <- Seen(kase, "none"),
        refused <- {f \in Files : testing[f] = 1},
        dump <- Seen(frames, <<>>),
        heard <- Seen(told, {})

\* A patient host sees the protocol of AudioProtocol: whatever the tasks do in
\* whatever order, and whatever call fails, a test speaks only for itself, its
\* frames come in order, record_end comes once and after them, no test ends
\* unanswered but for a silent start, and only a failed start is refused later.
HostSeesProtocol == Protocol!ProtocolSpec
=============================================================================
