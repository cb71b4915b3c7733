------------------------- MODULE AudioOverlapProofs -------------------------
(* What AudioCase keeps whatever the host does, for every set of slots and  *)
(* faults and every size of the buffers: whose header a dump carries, and   *)
(* that its tasks come to an end.                                           *)
EXTENDS AudioCaseProofs

-----------------------------------------------------------------------------
(* The header of a dump.                                                    *)

\* Before its dump a test has printed no frame (Begin empties the history).
NothingPrinted(s) == \/ rec[s] \in {"open", "alloc", "read", "close"}
                     \/ cpc \notin {"idle", "player"} /\ cslot = s

OneHeader(s) ==
    /\ \A i, j \in 1..Len(frames[s]) : frames[s][i].hdr = frames[s][j].hdr
    /\ kase[s] = "nolinear" =>
           \A i \in 1..Len(frames[s]) : frames[s][i].hdr = "nolinear"

\* DumpKeepsHeader, and what it takes to keep it.
RecordingOf(s) ==
    /\ OneHeader(s)
    /\ NothingPrinted(s) => frames[s] = <<>>
    /\ rec[s] \in {"index", "emit"} =>
           /\ \A i \in 1..Len(frames[s]) : frames[s][i].hdr = label[s]
           /\ kase[s] = "nolinear" => label[s] = "nolinear"

Recordings == \A s \in Slots : RecordingOf(s)

\* A slot whose recorder a step does not touch keeps its part of Recordings.
LEMMA RecordingFrame ==
  ASSUME NEW t \in Slots, RecordingOf(t), kase'[t] = kase[t], rec'[t] = rec[t],
         label'[t] = label[t], frames'[t] = frames[t],
         NothingPrinted(t)' => NothingPrinted(t)
  PROVE  RecordingOf(t)'
<1>1. OneHeader(t)'
  BY DEF RecordingOf, OneHeader
<1> QED
  BY <1>1 DEF RecordingOf

\* A step of the command task before its last keeps Recordings.
LEMMA RecordingCmd ==
  ASSUME Recordings, cpc # "idle", UNCHANGED <<kase, cslot, rec, label, frames>>,
         \/ cpc' \in {"idle", "player"}
         \/ cpc \notin {"idle", "player"}
  PROVE  Recordings'
<1> SUFFICES ASSUME NEW t \in Slots PROVE RecordingOf(t)'
  BY DEF Recordings
<1>1. NothingPrinted(t)' => NothingPrinted(t)
  BY DEF NothingPrinted
<1> QED
  BY <1>1, RecordingFrame DEF Recordings

\* One step of duer_audio_dac_load_driver keeps Recordings.
LEMMA RecordingLoad ==
  ASSUME Recordings, NEW call, NEW from \in {"i2s", "codec", "buf16", "buf32"},
         NEW to \in {"codec", "buf16", "buf32", "recorder"}, NEW ACTION Load,
         LoadStep(call, from, to, Load)
  PROVE  Recordings'
<1>1. cpc = from /\ UNCHANGED <<recVars, kase, cslot>>
  BY DEF LoadStep, CmdAt, LoadError, Goto
<1>2. UNCHANGED frames
  BY DEF LoadStep, LoadError, hisVars
<1> QED
  BY <1>1, <1>2, RecordingCmd DEF recVars

\* The recorder's own steps: the frames get the header that the dump began with.
LEMMA RecordingOwnStep ==
  ASSUME TypeOK, Reserved, NEW s \in Slots, RecordingOf(s), RecStep(s)
  PROVE  RecordingOf(s)'
<1> USE DEF TypeOK, RecTypeOK
<1>1. /\ UNCHANGED <<cpc, cslot, kase>>
      /\ rec[s] # "none"
  BY RecStepShape DEF cmdVars
<1>2. ~(cpc \notin {"idle", "player"} /\ cslot = s)
  BY <1>1 DEF Reserved
<1>4. CASE RecOpen(s) \/ RecAlloc(s)
  <2>1. UNCHANGED frames /\ frames[s] = <<>> /\ rec'[s] \in {"none", "alloc", "read"}
    BY <1>4 DEF RecOpen, RecAlloc, RecAt, RecGoto, RecExit, RecordingOf, NothingPrinted
  <2> QED
    BY <1>1, <2>1 DEF RecordingOf, OneHeader
<1>5. CASE RecRead(s)
  <2>1. UNCHANGED frames /\ frames[s] = <<>> /\ rec'[s] \in {"read", "close"}
    BY <1>5 DEF RecRead, RecAt, RecGoto, RecordingOf, NothingPrinted
  <2> QED
    BY <1>1, <2>1 DEF RecordingOf, OneHeader
<1>6. CASE RecClose(s)
  <2>1. /\ UNCHANGED frames /\ frames[s] = <<>>
        /\ rec[s] = "close" /\ rec'[s] = "index" /\ label'[s] = HeaderNow(s)
    BY <1>6 DEF RecClose, RecAt, RecordingOf, NothingPrinted, hisVars
  <2>2. kase[s] = "nolinear" => label'[s] = "nolinear"
    BY <2>1 DEF HeaderNow
  <2> QED
    BY <1>1, <2>1, <2>2 DEF RecordingOf, OneHeader
<1>7. CASE RecIndex(s)
  <2>1. UNCHANGED <<frames, label>> /\ rec[s] = "index" /\ rec'[s] = "emit"
    BY <1>7 DEF RecIndex, RecAt, hisVars
  <2> QED
    BY <1>1, <1>2, <2>1 DEF RecordingOf, OneHeader, NothingPrinted
<1>8. CASE RecEmit(s)
  <2>1. UNCHANGED label /\ rec[s] = "emit" /\ rec'[s] \in {"end", "index"}
    BY <1>8 DEF RecEmit, RecAt
  <2>2. \/ frames'[s] = frames[s]
        \/ frames'[s] = Append(frames[s], [hdr |-> label[s], idx |-> idx[s], at |-> sent[s]])
    BY <1>8 DEF RecEmit, HisTypeOK
  <2>3. \A i \in 1..Len(frames'[s]) : frames'[s][i].hdr = label[s]
    <3>1. frames[s] \in Seq([hdr : Headers, idx : Nat, at : Nat])
      BY DEF HisTypeOK
    <3>2. \A i \in 1..Len(frames[s]) : frames[s][i].hdr = label[s]
      BY <2>1 DEF RecordingOf
    <3>3. CASE frames'[s] = frames[s]
      BY <3>2, <3>3
    <3>4. CASE frames'[s] = Append(frames[s], [hdr |-> label[s], idx |-> idx[s], at |-> sent[s]])
      <4> DEFINE F == [hdr |-> label[s], idx |-> idx[s], at |-> sent[s]]
                 R == [hdr : Headers, idx : Nat, at : Nat]
      <4>1. F.hdr = label[s]
        OBVIOUS
      <4>2. frames[s] \in Seq(R) /\ frames'[s] = Append(frames[s], F)
        BY <3>1, <3>4
      <4>3. \A i \in 1..Len(frames'[s]) :
              \/ i \in 1..Len(frames[s]) /\ frames'[s][i] = frames[s][i]
              \/ frames'[s][i] = F
        <5> HIDE DEF F, R
        <5> QED
          BY <4>2
      <4> QED
        BY <3>2, <4>1, <4>3
    <3> QED
      BY <2>2, <3>3, <3>4
  <2>4. kase[s] = "nolinear" => label[s] = "nolinear"
    BY <2>1 DEF RecordingOf
  <2>5. OneHeader(s)'
    BY <1>1, <2>3, <2>4 DEF OneHeader
  <2> QED
    BY <1>1, <1>2, <2>1, <2>3, <2>4, <2>5 DEF RecordingOf, NothingPrinted
<1>9. CASE RecEnd(s)
  <2>1. UNCHANGED frames /\ rec'[s] = "none"
    BY <1>9 DEF RecEnd, RecExit
  <2> QED
    BY <1>1, <1>2, <2>1 DEF RecordingOf, OneHeader, NothingPrinted
<1> QED
  BY <1>4, <1>5, <1>6, <1>7, <1>8, <1>9 DEF RecStep

\* A recorder's step touches no other slot's tests.
LEMMA RecordingRecStep ==
  ASSUME TypeOK, Reserved, Recordings, NEW s \in Slots, RecStep(s)
  PROVE  Recordings'
<1> SUFFICES ASSUME NEW t \in Slots PROVE RecordingOf(t)'
  BY DEF Recordings
<1>1. CASE t = s
  BY <1>1, RecordingOwnStep DEF Recordings
<1>2. CASE t # s
  <2>1. /\ UNCHANGED <<cpc, cslot, kase>> /\ rec'[t] = rec[t] /\ label'[t] = label[t]
        /\ frames'[t] = frames[t]
    BY <1>2, RecStepShape DEF cmdVars
  <2>2. NothingPrinted(t)' => NothingPrinted(t)
    BY <2>1 DEF NothingPrinted
  <2> QED
    BY <2>1, <2>2, RecordingFrame DEF Recordings
<1> QED
  BY <1>1, <1>2

\* A player touches no dump.
LEMMA RecordingPlyStep ==
  ASSUME TypeOK, Recordings, NEW s \in Slots, PlyStep(s)
  PROVE  Recordings'
<1> SUFFICES ASSUME NEW t \in Slots PROVE RecordingOf(t)'
  BY DEF Recordings
<1>1. UNCHANGED <<cpc, cslot, kase, rec, label, frames>>
  BY PlyStepShape DEF cmdVars, recVars
<1>2. NothingPrinted(t)' => NothingPrinted(t)
  BY <1>1 DEF NothingPrinted
<1> QED
  BY <1>1, <1>2, RecordingFrame DEF Recordings

\* Every step keeps Recordings.
LEMMA RecordingStep == TypeOK /\ InBounds /\ Recordings /\ [Next]_vars => Recordings'
<1> SUFFICES ASSUME TypeOK, Reserved, Recordings, [Next]_vars PROVE Recordings'
  BY DEF InBounds
<1>1. ASSUME NEW c \in Cases, Refuse(c) PROVE Recordings'
  <2>1. UNCHANGED <<cpc, cslot, kase, rec, label, frames>>
    BY <1>1 DEF Refuse, recVars, hisVars
  <2> QED
    BY <2>1, RecordingFrame DEF Recordings, NothingPrinted
<1>2. ASSUME NEW c \in Cases, NEW s \in Slots, Begin(c, s) PROVE Recordings'
  <2> SUFFICES ASSUME NEW t \in Slots PROVE RecordingOf(t)'
    BY DEF Recordings
  <2>1. /\ UNCHANGED <<rec, label>> /\ cpc = "idle" /\ cpc' = "i2s" /\ cslot' = s
        /\ rec[s] = "none"
        /\ kase' = [kase EXCEPT ![s] = c]
        /\ frames' = [frames EXCEPT ![s] = <<>>]
    BY <1>2 DEF Begin, HostSends, CmdAt, Running, recVars
  <2>2. CASE t = s
    <3>1. frames'[s] = <<>>
      BY <2>1 DEF TypeOK, HisTypeOK
    <3> QED
      BY <2>1, <2>2, <3>1 DEF RecordingOf, OneHeader
  <2>3. CASE t # s
    <3>1. kase'[t] = kase[t] /\ frames'[t] = frames[t]
      BY <2>1, <2>3 DEF TypeOK, CmdTypeOK, HisTypeOK
    <3>2. NothingPrinted(t)' => NothingPrinted(t)
      BY <2>1, <2>3 DEF NothingPrinted
    <3> QED
      BY <2>1, <3>1, <3>2, RecordingFrame DEF Recordings
  <2> QED
    BY <2>2, <2>3
<1>3. CASE CmdI2s
  BY <1>3, RecordingLoad DEF CmdI2s
<1>4. CASE CmdCodec
  BY <1>4, RecordingLoad DEF CmdCodec
<1>5. CASE CmdBuf16
  BY <1>5, RecordingLoad DEF CmdBuf16
<1>6. CASE CmdBuf32
  BY <1>6, RecordingLoad DEF CmdBuf32
<1>7. CASE CmdRecorder
  <2>1. CASE UNCHANGED rec
    <3>1. /\ cpc = "recorder" /\ cpc' \in {"idle", "player"}
          /\ UNCHANGED <<kase, cslot, label, frames>>
      BY <1>7 DEF CmdRecorder, CmdAt, Goto, TaskError, hisVars
    <3> QED
      BY <2>1, <3>1, RecordingCmd
  <2>2. CASE rec' = [rec EXCEPT ![cslot] = "open"] /\ Goto("player") /\ UNCHANGED hisVars
    <3>1. /\ cpc = "recorder" /\ cpc' = "player"
          /\ UNCHANGED <<kase, cslot, label, frames>>
      BY <1>7, <2>2 DEF CmdRecorder, CmdAt, Goto, hisVars
    <3> SUFFICES ASSUME NEW t \in Slots PROVE RecordingOf(t)'
      BY DEF Recordings
    <3>2. CASE t = cslot
      <4>1. NothingPrinted(t) /\ rec'[t] = "open"
        BY <2>2, <3>1, <3>2 DEF NothingPrinted, TypeOK, RecTypeOK
      <4> QED
        BY <3>1, <4>1 DEF Recordings, RecordingOf, OneHeader
    <3>3. CASE t # cslot
      <4>1. rec'[t] = rec[t]
        BY <2>2, <3>3 DEF TypeOK, RecTypeOK
      <4>2. NothingPrinted(t)' => NothingPrinted(t)
        BY <3>1, <4>1 DEF NothingPrinted
      <4> QED
        BY <3>1, <4>1, <4>2, RecordingFrame DEF Recordings
    <3> QED
      BY <3>2, <3>3
  <2> QED
    BY <1>7, <2>1, <2>2 DEF CmdRecorder
<1>8. CASE CmdPlayer
  <2>1. /\ cpc = "player" /\ cpc' = "idle"
        /\ UNCHANGED <<kase, cslot, rec, label, frames>>
    BY <1>8 DEF CmdPlayer, CmdAt, Goto, TaskError, recVars, hisVars
  <2> QED
    BY <2>1, RecordingCmd
<1>9. ASSUME NEW s \in Slots, RecStep(s) PROVE Recordings'
  BY <1>9, RecordingRecStep
<1>10. ASSUME NEW s \in Slots, PlyStep(s) PROVE Recordings'
  BY <1>10, RecordingPlyStep
<1>11. CASE UNCHANGED vars
  <2>1. UNCHANGED <<cpc, cslot, kase, rec, label, frames>>
    BY <1>11 DEF vars, cmdVars, recVars, hisVars
  <2> QED
    BY <2>1, RecordingFrame DEF Recordings, NothingPrinted
<1> QED
  BY <1>1, <1>2, <1>3, <1>4, <1>5, <1>6, <1>7, <1>8, <1>9, <1>10, <1>11 DEF Next, CmdStep

\* Recordings holds in every reachable state, tests overlapping or not.
LEMMA RecordingAlways == Spec => []Recordings
<1>1. Init => InBounds
  BY RecordAssumption, WavAssumption DEF Init, InBounds, Reserved, Progress
<1>2. Init => Recordings
  BY DEF Init, Recordings, RecordingOf, OneHeader, NothingPrinted
<1> QED
  BY <1>1, <1>2, BoundsStep, RecordingStep, TypeCorrect, PTL DEF Spec

\* All frames of a dump carry one header, and those of nolinear its own, even
\* when another test overwrites testcase_header (data_out_exec).
THEOREM HeaderKept == Spec => []DumpKeepsHeader
<1>1. Recordings => DumpKeepsHeader
  BY DEF Recordings, RecordingOf, OneHeader, DumpKeepsHeader
<1> QED
  BY <1>1, RecordingAlways, PTL

-----------------------------------------------------------------------------
(* The tasks come to an end: TasksEnd without its fairness.                 *)

\* The steps that a recorder task has left at most: reads, then two for each
\* frame (recorder_exec and data_out_exec).
RecWork(s) ==
    CASE rec[s] = "open"  -> 3 * RecSize + 6
      [] rec[s] = "alloc" -> 3 * RecSize + 5
      [] rec[s] = "read"  -> 3 * RecSize + 4 - got[s]
      [] rec[s] = "close" -> 2 * RecSize + 3
      [] rec[s] = "index" -> 2 * (RecSize - sent[s]) + 2
      [] rec[s] = "emit"  -> 2 * (RecSize - sent[s]) + 1
      [] rec[s] = "end"   -> 1
      [] OTHER -> 0

\* The steps that a player task has left at most: two for each chunk, then the
\* drain and the unload (player_exec and duer_audio_dac_unload_driver).
PlyWork(s) ==
    CASE ply[s] = "ready"     -> 2 * PcmSize + 12
      [] ply[s] = "check"     -> 2 * (PcmSize - off[s]) + 11
      [] ply[s] = "use"       -> 2 * (PcmSize - off[s]) + 10
      [] ply[s] = "wait"      -> 8
      [] ply[s] = "test16"    -> 7
      [] ply[s] = "free16"    -> 6
      [] ply[s] = "null16"    -> 5
      [] ply[s] = "test32"    -> 4
      [] ply[s] = "free32"    -> 3
      [] ply[s] = "null32"    -> 2
      [] ply[s] = "uninstall" -> 1
      [] OTHER -> 0

\* A task's own steps leave it less to do, and no other step leaves it more.
Advances(s) ==
    /\ RecStep(s) => RecWork(s)' < RecWork(s)
    /\ PlyStep(s) => PlyWork(s)' < PlyWork(s)
    /\ rec[s] # "none" => RecWork(s)' <= RecWork(s)
    /\ ply[s] # "none" => PlyWork(s)' <= PlyWork(s)
    /\ RecWork(s)' \in Nat /\ PlyWork(s)' \in Nat

\* How far a dump has come: it goes on only while another frame is left.
DumpSent(s) ==
    /\ rec[s] \notin {"index", "emit", "end"} => sent[s] = 0
    /\ rec[s] \in {"index", "emit"} => sent[s] = 0 \/ ~DumpDone(sent[s])

DumpsSent == \A s \in Slots : DumpSent(s)

\* Beside its own steps a recorder is only created (CmdRecorder).
LEMMA RecorderMoves ==
  ASSUME TypeOK, Reserved, [Next]_vars, NEW s \in Slots
  PROVE  \/ RecStep(s)
         \/ /\ rec'[s] = rec[s] \/ (rec[s] = "none" /\ rec'[s] = "open")
            /\ got'[s] = got[s] /\ sent'[s] = sent[s]
<1> DEFINE Left == /\ rec'[s] = rec[s] \/ (rec[s] = "none" /\ rec'[s] = "open")
                   /\ got'[s] = got[s] /\ sent'[s] = sent[s]
<1>1. CASE UNCHANGED recVars
  BY <1>1 DEF recVars
<1>2. CASE CmdRecorder
  <2>1. cpc = "recorder" /\ UNCHANGED <<got, sent>>
        /\ (UNCHANGED rec \/ rec' = [rec EXCEPT ![cslot] = "open"])
    BY <1>2 DEF CmdRecorder, CmdAt
  <2>2. cslot \in Slots /\ rec[cslot] = "none"
    BY <2>1 DEF Reserved
  <2> QED
    BY <2>1, <2>2 DEF TypeOK, RecTypeOK
<1>3. ASSUME NEW t \in Slots, RecStep(t), t # s PROVE Left
  <2>1. rec'[s] = rec[s] /\ sent'[s] = sent[s]
    BY <1>3, RecStepShape
  <2>2. UNCHANGED got \/ \E e : got' = [got EXCEPT ![t] = e]
    BY <1>3 DEF RecStep, RecOpen, RecAlloc, RecRead, RecClose, RecIndex, RecEmit, RecEnd, RecExit, RecGoto
  <2> QED
    BY <1>3, <2>1, <2>2 DEF TypeOK, RecTypeOK
<1>4. ASSUME NEW t \in Slots, PlyStep(t) PROVE UNCHANGED recVars
  BY <1>4, PlyStepShape
<1>5. CASE \/ \E c \in Cases : Refuse(c)
           \/ \E c \in Cases, t \in Slots : Begin(c, t)
           \/ CmdI2s \/ CmdCodec \/ CmdBuf16 \/ CmdBuf32 \/ CmdPlayer
  BY <1>1, <1>5 DEF Refuse, Begin, CmdI2s, CmdCodec, CmdBuf16, CmdBuf32, CmdPlayer, LoadStep
<1>6. CASE UNCHANGED vars
  BY <1>1, <1>6 DEF vars
<1> QED
  BY <1>1, <1>2, <1>3, <1>4, <1>5, <1>6 DEF Next, CmdStep

\* Beside its own steps a player is only created (CmdPlayer).
LEMMA PlayerMoves ==
  ASSUME TypeOK, Reserved, [Next]_vars, NEW s \in Slots
  PROVE  \/ PlyStep(s)
         \/ /\ ply'[s] = ply[s] \/ (ply[s] = "none" /\ ply'[s] = "ready")
            /\ off'[s] = off[s]
<1> DEFINE Left == /\ ply'[s] = ply[s] \/ (ply[s] = "none" /\ ply'[s] = "ready")
                   /\ off'[s] = off[s]
<1>1. CASE UNCHANGED plyVars
  BY <1>1 DEF plyVars
<1>2. CASE CmdPlayer
  <2>1. cpc = "player" /\ UNCHANGED off
        /\ (UNCHANGED ply \/ ply' = [ply EXCEPT ![cslot] = "ready"])
    BY <1>2 DEF CmdPlayer, CmdAt
  <2>2. cslot \in Slots /\ ply[cslot] = "none"
    BY <2>1 DEF Reserved
  <2> QED
    BY <2>1, <2>2 DEF TypeOK, PlyTypeOK
<1>3. ASSUME NEW t \in Slots, PlyStep(t), t # s PROVE Left
  <2>1. ply'[s] = ply[s]
    BY <1>3, PlyStepShape
  <2>2. UNCHANGED off \/ \E e : off' = [off EXCEPT ![t] = e]
    BY <1>3 DEF PlyStep, PlyStart, PlyCheck, PlyUse, PlyWait, PlyTest16, PlyFree16, PlyNull16,
                PlyTest32, PlyFree32, PlyNull32, PlyUninstall, UnloadStep, PlayedOn
  <2> QED
    BY <1>3, <2>1, <2>2 DEF TypeOK, PlyTypeOK
<1>4. ASSUME NEW t \in Slots, RecStep(t) PROVE UNCHANGED plyVars
  BY <1>4, RecStepShape
<1>5. CASE \/ \E c \in Cases : Refuse(c)
           \/ \E c \in Cases, t \in Slots : Begin(c, t)
           \/ CmdI2s \/ CmdCodec \/ CmdBuf16 \/ CmdBuf32 \/ CmdRecorder
  BY <1>1, <1>5 DEF Refuse, Begin, CmdI2s, CmdCodec, CmdBuf16, CmdBuf32, CmdRecorder, LoadStep
<1>6. CASE UNCHANGED vars
  BY <1>1, <1>6 DEF vars
<1> QED
  BY <1>1, <1>2, <1>3, <1>4, <1>5, <1>6 DEF Next, CmdStep

\* A recorder that is about to print a frame has one left in its buffer.
LEMMA FrameLeft ==
  ASSUME TypeOK, NEW s \in Slots, DumpSent(s), rec[s] \in {"index", "emit"}
  PROVE  /\ FrameBytes \in Nat \ {0}
         /\ sent[s] \in Nat /\ sent[s] + FrameBytes <= RecSize
<1>1. sent[s] \in Nat /\ (sent[s] = 0 \/ sent[s] + FrameLen <= RecSize)
  BY RecordAssumption DEF TypeOK, RecTypeOK, DumpSent, DumpDone
<1> QED
  BY <1>1, RecordAssumption DEF FrameBytes

\* Each step of a recorder leaves it less to do: a read brings a byte or more,
\* and a frame is printed only while one is left.
LEMMA RecorderAdvances ==
  ASSUME TypeOK, NEW s \in Slots, got[s] <= RecSize, got'[s] <= RecSize, TypeOK',
         DumpSent(s), RecStep(s)
  PROVE  DumpSent(s)' /\ RecWork(s)' \in Nat /\ RecWork(s)' < RecWork(s)
<1>1. /\ rec \in [Slots -> RecPcs] /\ sent \in [Slots -> Nat] /\ got \in [Slots -> Nat]
      /\ got[s] \in Nat /\ got'[s] \in Nat /\ RecSize \in Nat \ {0}
  BY RecordAssumption DEF TypeOK, RecTypeOK
<1>2. CASE RecOpen(s)
  <2>1. rec[s] = "open" /\ sent[s] = 0 /\ rec'[s] \in {"alloc", "none"} /\ sent'[s] = 0
    BY <1>1, <1>2 DEF RecOpen, RecAt, RecGoto, RecExit, DumpSent
  <2> QED
    BY <1>1, <2>1 DEF RecWork, DumpSent
<1>3. CASE RecAlloc(s)
  <2>1. rec[s] = "alloc" /\ sent[s] = 0 /\ rec'[s] \in {"read", "none"} /\ sent'[s] = 0
    BY <1>1, <1>3 DEF RecAlloc, RecAt, RecGoto, RecExit, DumpSent
  <2> QED
    BY <1>1, <2>1 DEF RecWork, DumpSent
<1>4. CASE RecRead(s)
  <2>1. rec[s] = "read" /\ sent[s] = 0 /\ sent'[s] = 0 /\ rec'[s] \in {"read", "close"}
    BY <1>1, <1>4 DEF RecRead, RecAt, RecGoto, DumpSent
  <2>2. rec'[s] = "close" \/ got'[s] > got[s]
    <3>1. ASSUME NEW n \in 1..MiniBuf, got' = [got EXCEPT ![s] = @ + n]
          PROVE  got'[s] > got[s]
      BY <1>1, <3>1, RecordAssumption
    <3> QED
      BY <1>1, <1>4, <3>1 DEF RecRead, RecGoto
  <2> QED
    BY <1>1, <2>1, <2>2 DEF RecWork, DumpSent
<1>5. CASE RecClose(s)
  <2>1. rec[s] = "close" /\ sent[s] = 0 /\ rec'[s] = "index" /\ sent'[s] = 0
    BY <1>1, <1>5 DEF RecClose, RecAt, DumpSent
  <2> QED
    BY <1>1, <2>1 DEF RecWork, DumpSent
<1>6. CASE RecIndex(s)
  <2>1. rec[s] = "index" /\ rec'[s] = "emit" /\ sent'[s] = sent[s]
    BY <1>1, <1>6 DEF RecIndex, RecAt
  <2>2. FrameBytes \in Nat \ {0} /\ sent[s] \in Nat /\ sent[s] + FrameBytes <= RecSize
    BY <2>1, FrameLeft
  <2> QED
    BY <1>1, <2>1, <2>2 DEF RecWork, DumpSent
<1>7. CASE RecEmit(s)
  <2>1. rec[s] = "emit" /\ sent'[s] = sent[s] + FrameBytes
        /\ rec'[s] = IF DumpDone(sent[s] + FrameBytes) THEN "end" ELSE "index"
    BY <1>1, <1>7 DEF RecEmit, RecAt
  <2>2. FrameBytes \in Nat \ {0} /\ sent[s] \in Nat /\ sent[s] + FrameBytes <= RecSize
    BY <2>1, FrameLeft
  <2>3. DumpSent(s)'
    BY <2>1 DEF DumpSent, DumpDone
  <2>4. RecWork(s) = 2 * (RecSize - sent[s]) + 1
    BY <2>1 DEF RecWork
  <2>5. RecWork(s)' = 1 \/ RecWork(s)' = 2 * (RecSize - (sent[s] + FrameBytes)) + 2
    BY <2>1 DEF RecWork
  <2> QED
    BY <1>1, <2>2, <2>3, <2>4, <2>5
<1>8. CASE RecEnd(s)
  <2>1. rec[s] = "end" /\ rec'[s] = "none" /\ sent'[s] = 0
    BY <1>1, <1>8 DEF RecEnd, RecAt, RecExit
  <2> QED
    BY <1>1, <2>1 DEF RecWork, DumpSent
<1> QED
  BY <1>2, <1>3, <1>4, <1>5, <1>6, <1>7, <1>8 DEF RecStep

\* Each step of a player leaves it less to do: a chunk is played or dropped, and
\* the unload goes from one step to a later one.
LEMMA PlayerAdvances ==
  ASSUME TypeOK, NEW s \in Slots, Progress(s), Progress(s)', TypeOK', PlyStep(s)
  PROVE  PlyWork(s)' \in Nat /\ PlyWork(s)' < PlyWork(s)
<1>1. /\ ply \in [Slots -> PlyPcs] /\ off \in [Slots -> Nat]
      /\ off[s] \in Nat /\ off'[s] \in Nat /\ PcmSize \in Nat /\ PlayFrame \in Nat \ {0}
      /\ ply[s] = "ready" => off[s] = 0
      /\ ply[s] \in {"check", "use"} => off[s] <= PcmSize
      /\ ply'[s] \in {"check", "use"} => off'[s] <= PcmSize
  BY WavAssumption DEF TypeOK, PlyTypeOK, Progress
<1>2. CASE PlyStart(s)
  <2>1. ply[s] = "ready" /\ ply'[s] = "check" /\ off'[s] = off[s]
    BY <1>1, <1>2 DEF PlyStart, PlyAt, PlyGoto
  <2> QED
    BY <1>1, <2>1 DEF PlyWork
<1>3. ASSUME PlayedOn(s), ply[s] \in {"check", "use"}
      PROVE  PlyWork(s)' \in Nat /\ PlyWork(s)' < PlyWork(s)
  <2>1. off'[s] = off[s] + PlayFrame /\ ply'[s] \in {"check", "wait"}
    BY <1>1, <1>3 DEF PlayedOn, PlyGoto
  <2> QED
    BY <1>1, <1>3, <2>1 DEF PlyWork
<1>4. ASSUME ply[s] = "check", ply'[s] = "use", off'[s] = off[s]
      PROVE  PlyWork(s)' \in Nat /\ PlyWork(s)' < PlyWork(s)
  BY <1>1, <1>4 DEF PlyWork
<1>5. CASE PlyCheck(s)
  <2>1. ply[s] = "check" /\ (PlayedOn(s) \/ (ply'[s] = "use" /\ off'[s] = off[s]))
    BY <1>1, <1>5 DEF PlyCheck, PlyAt, PlyGoto
  <2> QED
    BY <1>3, <1>4, <2>1
<1>6. CASE PlyUse(s)
  <2>1. ply[s] = "use" /\ (PlayedOn(s) \/ ply'[s] = "wait")
    BY <1>1, <1>6 DEF PlyUse, PlyAt, PlyGoto
  <2>2. CASE ply'[s] = "wait"
    BY <1>1, <2>1, <2>2 DEF PlyWork
  <2> QED
    BY <1>3, <2>1, <2>2
<1>7. CASE PlyWait(s) \/ PlyTest16(s) \/ PlyFree16(s) \/ PlyNull16(s)
  <2>1. \/ ply[s] = "wait" /\ ply'[s] = "test16"
        \/ ply[s] = "test16" /\ ply'[s] \in {"free16", "test32"}
        \/ ply[s] = "free16" /\ ply'[s] = "null16"
        \/ ply[s] = "null16" /\ ply'[s] = "test32"
    BY <1>1, <1>7 DEF PlyWait, PlyTest16, PlyFree16, PlyNull16, UnloadStep, PlyAt, PlyGoto
  <2> QED
    BY <2>1 DEF PlyWork
<1>8. CASE PlyTest32(s) \/ PlyFree32(s) \/ PlyNull32(s) \/ PlyUninstall(s)
  <2>1. \/ ply[s] = "test32" /\ ply'[s] \in {"free32", "uninstall"}
        \/ ply[s] = "free32" /\ ply'[s] = "null32"
        \/ ply[s] = "null32" /\ ply'[s] = "uninstall"
        \/ ply[s] = "uninstall" /\ ply'[s] = "none"
    BY <1>1, <1>8 DEF PlyTest32, PlyFree32, PlyNull32, PlyUninstall, UnloadStep, PlyAt, PlyGoto
  <2> QED
    BY <2>1 DEF PlyWork
<1> QED
  BY <1>2, <1>5, <1>6, <1>7, <1>8 DEF PlyStep

\* Every step keeps DumpsSent and is an advance of every task.
LEMMA AdvanceStep ==
  ASSUME TypeOK, TypeOK', InBounds, InBounds', DumpsSent, [Next]_vars, NEW s \in Slots
  PROVE  DumpSent(s)' /\ Advances(s)
<1>1. /\ got[s] \in Nat /\ got[s] <= RecSize /\ got'[s] <= RecSize /\ sent[s] \in Nat
      /\ off[s] \in Nat /\ PcmSize \in Nat /\ RecSize \in Nat \ {0}
      /\ Progress(s) /\ Progress(s)' /\ Reserved /\ DumpSent(s)
  BY RecordAssumption, WavAssumption DEF InBounds, Progress, TypeOK, RecTypeOK, PlyTypeOK, DumpsSent
<1>2. /\ DumpSent(s)' /\ RecWork(s)' \in Nat
      /\ RecStep(s) => RecWork(s)' < RecWork(s)
      /\ rec[s] # "none" => RecWork(s)' <= RecWork(s)
  <2>0. RecWork(s) \in Nat
    <3>1. rec[s] \in {"index", "emit"} => sent[s] <= RecSize
      BY <1>1, FrameLeft
    <3> QED
      BY <1>1, <3>1 DEF RecWork
  <2>1. CASE RecStep(s)
    <3>1. DumpSent(s)' /\ RecWork(s)' \in Nat /\ RecWork(s)' < RecWork(s)
      BY <1>1, <2>1, RecorderAdvances
    <3> QED
      BY <2>0, <3>1
  <2>2. CASE ~RecStep(s)
    <3>1. /\ rec'[s] = rec[s] \/ (rec[s] = "none" /\ rec'[s] = "open")
          /\ got'[s] = got[s] /\ sent'[s] = sent[s]
      BY <1>1, <2>2, RecorderMoves
    <3>2. DumpSent(s)'
      BY <1>1, <3>1 DEF DumpSent
    <3>3. rec'[s] = rec[s] => RecWork(s)' = RecWork(s)
      BY <3>1 DEF RecWork
    <3>4. rec'[s] = "open" => RecWork(s)' \in Nat
      BY <1>1 DEF RecWork
    <3> QED
      BY <2>0, <2>2, <3>1, <3>2, <3>3, <3>4
  <2> QED
    BY <2>1, <2>2
<1>3. /\ PlyWork(s)' \in Nat
      /\ PlyStep(s) => PlyWork(s)' < PlyWork(s)
      /\ ply[s] # "none" => PlyWork(s)' <= PlyWork(s)
  <2>1. PlyWork(s) \in Nat
    BY <1>1 DEF PlyWork, Progress
  <2>2. CASE PlyStep(s)
    <3>1. PlyWork(s)' \in Nat /\ PlyWork(s)' < PlyWork(s)
      BY <1>1, <2>2, PlayerAdvances
    <3> QED
      BY <2>1, <3>1
  <2>3. CASE ~PlyStep(s)
    <3>1. /\ ply'[s] = ply[s] \/ (ply[s] = "none" /\ ply'[s] = "ready")
          /\ off'[s] = off[s]
      BY <1>1, <2>3, PlayerMoves
    <3>2. ply'[s] = ply[s] => PlyWork(s)' = PlyWork(s)
      BY <3>1 DEF PlyWork
    <3>3. ply'[s] = "ready" => PlyWork(s)' \in Nat
      BY <1>1 DEF PlyWork
    <3> QED
      BY <2>1, <2>3, <3>1, <3>2, <3>3
  <2> QED
    BY <2>2, <2>3
<1> QED
  BY <1>2, <1>3 DEF Advances

\* Whatever the host does and whatever fails, each step of a recorder or player
\* task leaves it less to do, in a measure that no other step makes larger: no
\* task runs longer than the sizes of its buffers allow (recorder_exec,
\* data_out_exec, player_exec).  This is TasksEnd without its fairness.
THEOREM TasksAdvance == Spec => [][\A s \in Slots : Advances(s)]_vars
<1>1. Init => InBounds
  BY RecordAssumption, WavAssumption DEF Init, InBounds, Reserved, Progress
<1>2. Init => DumpsSent
  BY DEF Init, DumpsSent, DumpSent
<1>3. TypeOK /\ TypeOK' /\ InBounds /\ InBounds' /\ DumpsSent /\ [Next]_vars
      => DumpsSent' /\ [\A s \in Slots : Advances(s)]_vars
  BY AdvanceStep DEF DumpsSent
<1> QED
  BY <1>1, <1>2, <1>3, BoundsStep, TypeCorrect, PTL DEF Spec
=============================================================================
