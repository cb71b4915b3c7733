------------------------ MODULE AudioProtocolProofs ------------------------
(* With a patient host the tests of AudioCase implement AudioProtocol, for   *)
(* every set of slots and faults and every size of the buffers: what the     *)
(* host hears is told by one test at a time, in order, and is complete.      *)
EXTENDS AudioCaseProofs

\* The driver is being loaded for the test of this slot.
Loading(s) == cpc \notin {"idle", "player"} /\ cslot = s

Unended(s) == \A r \in told[s] : r[2] # "record_end"

\* What the host may rely on besides PatientInv, slot by slot: the active test
\* is the one that was started last, it has not told its end while it records,
\* a frame that is due fits in the recording, and a test without a recorder has
\* been answered.
HostOf(s) ==
    /\ Active(s) => cslot = s
    /\ rec[s] # "none" \/ Loading(s) => Unended(s)
    /\ rec[s] \in {"index", "emit"} => sent[s] + FrameBytes <= RecSize
    /\ rec[s] = "end" => sent[s] >= FrameBytes
    /\ (rec[s] = "none" /\ (ply[s] # "none" \/ (cpc = "player" /\ cslot = s))) => told[s] # {}

Host == ~Overlap => \A s \in Slots : HostOf(s)

-----------------------------------------------------------------------------
(* Host is an invariant.                                                     *)

\* A slot keeps its part of Host when its tasks stay and no end is told.
LEMMA HostFrame ==
  ASSUME NEW t \in Slots, HostOf(t), rec'[t] = rec[t], sent'[t] = sent[t],
         ply'[t] # "none" => ply[t] # "none",
         Active(t)' => Active(t), UNCHANGED cslot,
         \/ UNCHANGED cpc
         \/ cpc' = "idle"
         \/ Loading(t) => cpc \notin {"idle", "player"} /\ cpc' # "player",
         cpc' \notin {"idle", "player"} => cpc \notin {"idle", "player"},
         cpc' = "player" => cpc = "player" \/ cslot # t,
         told[t] \subseteq told'[t],
         \A r \in told'[t] : r \in told[t] \/ r[2] # "record_end"
  PROVE  HostOf(t)'
<1>1. FrameBytes' = FrameBytes
  BY DEF FrameBytes
<1>2. Unended(t) => Unended(t)'
  BY DEF Unended
<1>3. Loading(t)' => Loading(t)
  BY DEF Loading
<1>4. told[t] # {} => told'[t] # {}
  OBVIOUS
<1> QED
  BY <1>1, <1>2, <1>3, <1>4 DEF HostOf, Loading

\* What Tell adds.
LEMMA ToldMore ==
  ASSUME HisTypeOK, NEW s \in Slots, NEW what, Tell(s, what)
  PROVE  /\ told'[s] = told[s] \cup {<<HeaderNow(s), what>>}
         /\ \A t \in Slots : t # s => told'[t] = told[t]
BY DEF HisTypeOK, Tell

\* A step of the command task that creates no task keeps Host.
LEMMA HostCmd ==
  ASSUME TypeOK, Control, Host, cpc # "idle", UNCHANGED <<cslot, rec, sent, ply>>,
         cpc' = "idle" \/ (cpc # "player" /\ cpc' \in {"codec", "buf16", "buf32", "recorder"}),
         \/ UNCHANGED told
         \/ \E what \in {"driver_load", "recorder_task", "player_task"} : Tell(cslot, what)
  PROVE  Host'
<1> SUFFICES ASSUME ~Overlap, NEW t \in Slots PROVE HostOf(t)'
  BY DEF Host
<1>1. cslot \in Slots
  BY DEF Control, StartingOwnsFlag
<1>2. told[t] \subseteq told'[t] /\ \A r \in told'[t] : r \in told[t] \/ r[2] # "record_end"
  BY <1>1, ToldMore DEF TypeOK
<1>3. Active(t)' => Active(t)
  BY DEF Active, Running
<1> QED
  BY <1>2, <1>3, HostFrame DEF Host

\* One step of duer_audio_dac_load_driver keeps Host.
LEMMA HostLoad ==
  ASSUME TypeOK, Control, Host, NEW call, NEW from \in {"i2s", "codec", "buf16", "buf32"},
         NEW to \in {"codec", "buf16", "buf32", "recorder"}, NEW ACTION Load,
         LoadStep(call, from, to, Load)
  PROVE  Host'
<1>1. cpc = from /\ cpc' \in {"idle", to} /\ UNCHANGED <<cslot, recVars, plyVars>>
  BY DEF LoadStep, CmdAt, LoadError, Goto
<1>2. UNCHANGED told \/ Tell(cslot, "driver_load")
  BY DEF LoadStep, LoadError, hisVars
<1> QED
  BY <1>1, <1>2, HostCmd DEF recVars, plyVars

\* The recorder's own steps keep its part of Host.
LEMMA HostOwnStep ==
  ASSUME TypeOK, Control, Dump, ~Overlap, NEW s \in Slots, HostOf(s), RecStep(s)
  PROVE  HostOf(s)'
<1> USE DEF TypeOK, RecTypeOK
<1>1. UNCHANGED <<cpc, cslot, ply>> /\ rec[s] # "none" /\ Active(s)
  BY RecStepShape, LoneRecorder DEF cmdVars, plyVars
<1>2. ~Loading(s)' /\ cslot = s /\ Unended(s)
  BY <1>1, LoneRecorder DEF Loading, HostOf
<1>3. FrameBytes' = FrameBytes /\ FrameBytes \in Nat /\ FrameBytes <= RecSize
  BY RecordAssumption DEF FrameBytes
<1>4. CASE RecOpen(s) \/ RecAlloc(s)
  <2>1. CASE RecExit(s) /\ \E what \in {"open", "malloc"} : Tell(s, what)
    <3>1. rec'[s] = "none" /\ told'[s] # {}
      BY <2>1, ToldMore DEF RecExit
    <3> QED
      BY <1>1, <1>2, <3>1 DEF HostOf
  <2>2. CASE UNCHANGED told /\ rec'[s] \in {"alloc", "read"}
    BY <1>1, <1>2, <2>2 DEF HostOf, Unended
  <2> QED
    BY <1>4, <2>1, <2>2 DEF RecOpen, RecAlloc, RecGoto
<1>5. CASE RecRead(s)
  <2>1. rec'[s] \in {"read", "close"} /\ (UNCHANGED told \/ Tell(s, "mic_read"))
    BY <1>5 DEF RecRead, RecGoto
  <2>2. Unended(s)'
    BY <1>2, <2>1, ToldMore DEF Unended
  <2> QED
    BY <1>1, <1>2, <2>1, <2>2 DEF HostOf
<1>6. CASE RecClose(s)
  <2>1. rec[s] = "close" /\ rec'[s] = "index" /\ UNCHANGED <<told, sent>>
    BY <1>6 DEF RecClose, RecAt, hisVars
  <2>2. sent'[s] = 0
    BY <2>1 DEF Dump, DumpOf, LocalsFit, Dumping
  <2> QED
    BY <1>1, <1>2, <1>3, <2>1, <2>2 DEF HostOf, Unended
<1>7. CASE RecIndex(s)
  <2>1. rec[s] = "index" /\ rec'[s] = "emit" /\ UNCHANGED <<told, sent>>
    BY <1>7 DEF RecIndex, RecAt, hisVars
  <2> QED
    BY <1>1, <1>2, <1>3, <2>1 DEF HostOf, Unended
<1>8. CASE RecEmit(s)
  <2>1. /\ rec'[s] = IF DumpDone(sent[s] + FrameBytes) THEN "end" ELSE "index"
        /\ sent'[s] = sent[s] + FrameBytes
        /\ UNCHANGED told
    BY <1>8 DEF RecEmit
  <2>2. rec'[s] = "index" => sent'[s] + FrameBytes <= RecSize
    BY <1>3, <2>1, RecordAssumption DEF DumpDone, FrameBytes
  <2>3. sent'[s] >= FrameBytes
    BY <1>3, <2>1
  <2> QED
    BY <1>1, <1>2, <1>3, <2>1, <2>2, <2>3 DEF HostOf, Unended
<1>9. CASE RecEnd(s)
  <2>1. rec'[s] = "none" /\ told'[s] # {}
    BY <1>9, ToldMore DEF RecEnd, RecExit
  <2> QED
    BY <1>1, <1>2, <2>1 DEF HostOf
<1> QED
  BY <1>4, <1>5, <1>6, <1>7, <1>8, <1>9 DEF RecStep

\* Every step keeps Host.
LEMMA HostStep ==
  TypeOK /\ Control /\ Dump /\ Host /\ [Next]_vars => Host'
<1> SUFFICES ASSUME TypeOK, Control, Dump, Host, [Next]_vars, ~Overlap
             PROVE  \A t \in Slots : HostOf(t)'
  BY DEF Host
<1>1. ASSUME NEW c \in Cases, Refuse(c) PROVE \A t \in Slots : HostOf(t)'
  <2>1. UNCHANGED <<cpc, cslot, rec, sent, ply, told>>
    BY <1>1 DEF Refuse, recVars, plyVars, hisVars
  <2> QED
    BY <2>1, HostFrame DEF Host, Active, Running
<1>2. ASSUME NEW c \in Cases, NEW s \in Slots, Begin(c, s) PROVE \A t \in Slots : HostOf(t)'
  <2>1. /\ cpc' = "i2s" /\ cslot' = s /\ told'[s] = {}
        /\ \A t \in Slots : rec'[t] = "none" /\ ply'[t] = "none"
    BY <1>2 DEF Begin, HostSends, Running, recVars, plyVars, TypeOK, HisTypeOK
  <2> QED
    BY <2>1 DEF HostOf, Active, Running, Loading, Unended
<1>3. CASE CmdI2s
  BY <1>3, HostLoad DEF CmdI2s, Host
<1>4. CASE CmdCodec
  BY <1>4, HostLoad DEF CmdCodec, Host
<1>5. CASE CmdBuf16
  BY <1>5, HostLoad DEF CmdBuf16, Host
<1>6. CASE CmdBuf32
  BY <1>6, HostLoad DEF CmdBuf32, Host
<1>7. CASE CmdRecorder
  <2>1. cpc = "recorder" /\ UNCHANGED <<cslot, sent, ply>>
    BY <1>7 DEF CmdRecorder, CmdAt, TaskError, Goto, plyVars
  <2>2. CASE TaskError("recorder_task", "recorder_task") /\ UNCHANGED rec
    BY <2>1, <2>2, HostCmd DEF TaskError, Goto, Host
  <2>3. CASE rec' = [rec EXCEPT ![cslot] = "open"] /\ Goto("player") /\ UNCHANGED hisVars
    <3>1. cslot \in Slots /\ UNCHANGED told /\ cpc' = "player"
      BY <2>1, <2>3 DEF Control, StartingOwnsFlag, Goto, hisVars
    <3>2. rec'[cslot] = "open" /\ \A t \in Slots : t # cslot => rec'[t] = rec[t]
      BY <2>3, <3>1 DEF TypeOK, RecTypeOK
    <3>3. HostOf(cslot)'
      <4>1. Loading(cslot) /\ HostOf(cslot)
        BY <2>1, <3>1 DEF Loading, Host
      <4>2. Unended(cslot)'
        BY <2>1, <3>1, <4>1 DEF HostOf, Unended
      <4> QED
        BY <2>1, <3>2, <4>2 DEF HostOf
    <3>4. ASSUME NEW t \in Slots, t # cslot PROVE HostOf(t)'
      <4>1. Active(t)' => Active(t)
        BY <2>1, <3>2, <3>4 DEF Active, Running
      <4> QED
        BY <2>1, <3>1, <3>2, <3>4, <4>1, HostFrame DEF Host, Loading
    <3> QED
      BY <2>1, <3>3, <3>4
  <2> QED
    BY <1>7, <2>2, <2>3 DEF CmdRecorder
<1>8. CASE CmdPlayer
  <2>1. cpc = "player" /\ cpc' = "idle" /\ UNCHANGED <<cslot, rec, sent>> /\ cslot \in Slots
    BY <1>8 DEF CmdPlayer, CmdAt, TaskError, Goto, recVars, Control, StartingOwnsFlag
  <2>2. CASE TaskError("player_task", "player_task") /\ UNCHANGED ply
    BY <2>1, <2>2, HostCmd DEF TaskError, Host
  <2>3. CASE ply' = [ply EXCEPT ![cslot] = "ready"] /\ UNCHANGED hisVars
    <3>1. UNCHANGED told /\ \A t \in Slots : t # cslot => ply'[t] = ply[t]
      BY <2>3 DEF hisVars, TypeOK, PlyTypeOK
    <3>2. HostOf(cslot)'
      <4>1. HostOf(cslot)
        BY <2>1 DEF Host
      <4> QED
        BY <2>1, <3>1, <4>1 DEF HostOf, Loading, Unended, FrameBytes
    <3>3. ASSUME NEW t \in Slots, t # cslot PROVE HostOf(t)'
      <4>1. Active(t)' => Active(t)
        BY <2>1, <3>1, <3>3 DEF Active, Running
      <4> QED
        BY <2>1, <3>1, <3>3, <4>1, HostFrame DEF Host
    <3> QED
      BY <2>1, <3>2, <3>3
  <2> QED
    BY <1>8, <2>2, <2>3 DEF CmdPlayer
<1>9. ASSUME NEW s \in Slots, RecStep(s) PROVE \A t \in Slots : HostOf(t)'
  <2> SUFFICES ASSUME NEW t \in Slots PROVE HostOf(t)'
    OBVIOUS
  <2>1. CASE t = s
    BY <1>9, <2>1, HostOwnStep DEF Host
  <2>2. CASE t # s
    <3>1. /\ UNCHANGED <<cpc, cslot, ply>>
          /\ rec'[t] = rec[t] /\ sent'[t] = sent[t] /\ told'[t] = told[t]
      BY <1>9, <2>2, RecStepShape DEF cmdVars, plyVars
    <3> QED
      BY <3>1, HostFrame DEF Host, Active, Running
  <2> QED
    BY <2>1, <2>2
<1>10. ASSUME NEW s \in Slots, PlyStep(s) PROVE \A t \in Slots : HostOf(t)'
  <2> SUFFICES ASSUME NEW t \in Slots PROVE HostOf(t)'
    OBVIOUS
  <2>1. /\ UNCHANGED <<cpc, cslot, rec, sent>> /\ ply[s] # "none"
        /\ \A u \in Slots : u # s => ply'[u] = ply[u]
    BY <1>10, PlyStepShape DEF cmdVars, recVars
  <2>2. UNCHANGED told \/ Tell(s, "write")
    BY <1>10 DEF PlyStep, PlyStart, PlyCheck, PlyUse, PlyWait, PlyTest16, PlyFree16, PlyNull16,
                 PlyTest32, PlyFree32, PlyNull32, PlyUninstall, UnloadStep, hisVars
  <2>3. told[t] \subseteq told'[t] /\ \A r \in told'[t] : r \in told[t] \/ r[2] # "record_end"
    BY <2>2, ToldMore DEF TypeOK
  <2>4. ply'[t] # "none" => ply[t] # "none"
    BY <2>1
  <2> QED
    BY <2>1, <2>3, <2>4, HostFrame DEF Host, Active, Running
<1>11. CASE UNCHANGED vars
  <2>1. UNCHANGED <<cpc, cslot, rec, sent, ply, told>>
    BY <1>11 DEF vars, cmdVars, recVars, plyVars, hisVars
  <2> QED
    BY <2>1, HostFrame DEF Host, Active, Running
<1> QED
  BY <1>1, <1>2, <1>3, <1>4, <1>5, <1>6, <1>7, <1>8, <1>9, <1>10, <1>11 DEF Next, CmdStep

\* Together with PatientInv, Host holds in every reachable state.
LEMMA HostAlways == Spec => [](PatientInv /\ Host)
<1>1. Init => Host
  BY DEF Init, Host, HostOf, Active, Running, Loading, Unended
<1>2. PatientInv /\ Host /\ [Next]_vars => Host'
  BY HostStep DEF PatientInv
<1> QED
  BY <1>1, <1>2, PatientHostInvariant, PTL DEF Spec

-----------------------------------------------------------------------------
(* Every step maps to a step of AudioProtocol or to a stutter.               *)

\* What a patient host sees of the slot that was used last.
LEMMA SeenNow ==
  ASSUME TypeOK, cslot # NoSlot
  PROVE  /\ cslot \in Slots
         /\ Seen(kase, "none") = kase[cslot]
         /\ Seen(frames, <<>>) = frames[cslot]
         /\ Seen(told, {}) = told[cslot]
BY DEF Seen, TypeOK, CmdTypeOK

\* The same after a step.
LEMMA SeenNext ==
  ASSUME TypeOK', cslot' # NoSlot
  PROVE  /\ cslot' \in Slots
         /\ Seen(kase, "none")' = kase'[cslot']
         /\ Seen(frames, <<>>)' = frames'[cslot']
         /\ Seen(told, {})' = told'[cslot']
BY DEF Seen, TypeOK, CmdTypeOK

\* The phase of an idle command task is that of the tasks of the last slot.
LEMMA PhaseNow ==
  ASSUME ~Overlap, Host, cslot \in Slots
  PROVE  /\ cpc # "idle" => PhaseSeen = "starting"
         /\ cpc = "idle" /\ Running(cslot) => PhaseSeen = "running"
         /\ cpc = "idle" /\ ~Running(cslot) => PhaseSeen = "idle"
<1>1. \A s \in Slots : Running(s) => s = cslot
  BY DEF Host, HostOf, Active
<1> QED
  BY <1>1 DEF PhaseSeen

\* The same after a step.
LEMMA PhaseNext ==
  ASSUME ~Overlap, Host', cslot' \in Slots
  PROVE  /\ cpc' # "idle" => PhaseSeen' = "starting"
         /\ cpc' = "idle" /\ Running(cslot)' => PhaseSeen' = "running"
         /\ cpc' = "idle" /\ ~Running(cslot)' => PhaseSeen' = "idle"
<1>1. \A s \in Slots : Running(s)' => s = cslot'
  BY DEF Host, HostOf, Active
<1> QED
  BY <1>1 DEF PhaseSeen

\* A step that changes nothing the host sees is a stutter.
LEMMA SeenStutter ==
  ASSUME UNCHANGED <<cslot, kase, frames, told, testing>>, PhaseSeen' = PhaseSeen
  PROVE  UNCHANGED Protocol!pvars
BY DEF Protocol!pvars, Seen

\* The start functions: a test begins, its driver is loaded, or its start fails.
LEMMA BeginSeen ==
  ASSUME ~Overlap, PatientInv, PatientInv', Host', NEW c \in Cases, NEW s \in Slots, Begin(c, s)
  PROVE  Protocol!Start(c)
<1>1. /\ cpc = "idle" /\ (\A t \in Slots : ~Running(t)) /\ testing[FileOf(c)] = 0
      /\ testing' = [testing EXCEPT ![FileOf(c)] = 1]
      /\ cpc' = "i2s" /\ cslot' = s
      /\ kase' = [kase EXCEPT ![s] = c]
      /\ frames' = [frames EXCEPT ![s] = <<>>]
      /\ told' = [told EXCEPT ![s] = {}]
  BY DEF Begin, HostSends, CmdAt
<1>2. PhaseSeen = "idle" /\ PhaseSeen' = "starting"
  BY <1>1 DEF PhaseSeen
<1>3. cslot' # NoSlot
  BY <1>1, SlotAssumption
<1>4. /\ Seen(kase, "none")' = c
      /\ Seen(frames, <<>>)' = <<>>
      /\ Seen(told, {})' = {}
  <2>1. kase'[s] = c /\ frames'[s] = <<>> /\ told'[s] = {}
    BY <1>1 DEF PatientInv, TypeOK, CmdTypeOK, HisTypeOK
  <2> QED
    BY <1>1, <1>3, <2>1, SeenNext DEF PatientInv
<1>5. /\ FileOf(c) \notin {f \in Files : testing[f] = 1}
      /\ {f \in Files : testing'[f] = 1} = {f \in Files : testing[f] = 1} \cup {FileOf(c)}
  <2>1. FileOf(c) \in Files /\ testing \in [Files -> {0, 1}]
    BY DEF FileOf, Files, PatientInv, TypeOK, CmdTypeOK
  <2> QED
    BY <1>1, <2>1
<1> QED
  BY <1>2, <1>4, <1>5 DEF Protocol!Start

\* A start that fails while no player exists: the error is told, or the test
\* is one of player_recorder_case.c and nothing is.
LEMMA StartFailsSeen ==
  ASSUME ~Overlap, PatientInv, PatientInv', Host, Host', cpc # "idle", Goto("idle"),
         UNCHANGED <<rec, ply, frames>>,
         \/ \E what \in {"driver_load", "recorder_task", "player_task"} : Tell(cslot, what)
         \/ kase[cslot] # "nolinear" /\ UNCHANGED told
  PROVE  Protocol!StartFails
<1>1. /\ cslot \in Slots /\ cslot # NoSlot /\ Active(cslot)
      /\ cpc' = "idle" /\ UNCHANGED <<cslot, testing, kase>>
  BY SlotAssumption DEF PatientInv, Control, StartingOwnsFlag, Goto, Active
<1>2. PhaseSeen = "starting" /\ PhaseSeen' \in {"running", "idle"}
  BY <1>1, PhaseNow, PhaseNext
<1>3. /\ Seen(kase, "none") = kase[cslot] /\ Seen(kase, "none")' = kase[cslot]
      /\ Seen(frames, <<>>)' = Seen(frames, <<>>)
      /\ Seen(told, {}) = told[cslot] /\ Seen(told, {})' = told'[cslot]
  BY <1>1, SeenNow, SeenNext DEF PatientInv
<1>4. HeaderNow(cslot) = kase[cslot] /\ kase[cslot] \in Cases
  BY <1>1, HeaderNowOwn DEF PatientInv, Control, HeaderIsOwn
<1>5. CASE kase[cslot] # "nolinear" /\ UNCHANGED told
  <2>1. kase[cslot] \in {"pa_mic", "mic_seal"}
    BY <1>4, <1>5 DEF Cases
  <2> QED
    BY <1>1, <1>2, <1>3, <1>5, <2>1 DEF Protocol!StartFails
<1>6. ASSUME NEW what \in {"driver_load", "recorder_task", "player_task"}, Tell(cslot, what)
      PROVE  Protocol!StartFails
  <2>1. told'[cslot] = told[cslot] \cup {<<kase[cslot], what>>}
    BY <1>1, <1>4, <1>6, ToldMore DEF PatientInv, TypeOK
  <2> QED
    BY <1>1, <1>2, <1>3, <2>1 DEF Protocol!StartFails
<1> QED
  BY <1>5, <1>6

\* A step of the start functions that goes on is not seen.
LEMMA GoesOnSeen ==
  ASSUME cpc # "idle", NEW to, to # "idle", Goto(to), UNCHANGED <<frames, told>>
  PROVE  UNCHANGED Protocol!pvars
<1>1. PhaseSeen' = PhaseSeen
  BY DEF PhaseSeen, Goto
<1> QED
  BY <1>1, SeenStutter DEF Goto

\* One step of duer_audio_dac_load_driver.
LEMMA LoadSeen ==
  ASSUME ~Overlap, PatientInv, PatientInv', Host, Host', NEW call,
         NEW from \in {"i2s", "codec", "buf16", "buf32"},
         NEW to \in {"codec", "buf16", "buf32", "recorder"}, NEW ACTION Load,
         LoadStep(call, from, to, Load)
  PROVE  Protocol!StartFails \/ UNCHANGED Protocol!pvars
<1>1. cpc = from /\ UNCHANGED <<rec, ply>>
  BY DEF LoadStep, CmdAt, recVars, plyVars
<1>2. CASE Goto(to) /\ UNCHANGED hisVars
  BY <1>1, <1>2, GoesOnSeen DEF hisVars
<1>3. CASE LoadError
  BY <1>1, <1>3, StartFailsSeen DEF LoadError
<1> QED
  BY <1>2, <1>3 DEF LoadStep

\* The tasks are created: the last step of a start, or it fails.
LEMMA TasksSeen ==
  ASSUME ~Overlap, PatientInv, PatientInv', Host, Host', CmdRecorder \/ CmdPlayer
  PROVE  Protocol!Started \/ Protocol!StartFails \/ UNCHANGED Protocol!pvars
<1>1. CASE CmdRecorder
  <2>1. cpc = "recorder" /\ UNCHANGED ply
    BY <1>1 DEF CmdRecorder, CmdAt, plyVars
  <2>2. CASE TaskError("recorder_task", "recorder_task") /\ UNCHANGED rec
    BY <2>1, <2>2, StartFailsSeen DEF TaskError
  <2>3. CASE Goto("player") /\ UNCHANGED hisVars
    BY <2>1, <2>3, GoesOnSeen DEF hisVars
  <2> QED
    BY <1>1, <2>2, <2>3 DEF CmdRecorder
<1>2. CASE CmdPlayer
  <2>1. cpc = "player" /\ UNCHANGED rec
    BY <1>2 DEF CmdPlayer, CmdAt, recVars
  <2>2. CASE TaskError("player_task", "player_task") /\ UNCHANGED ply
    BY <2>1, <2>2, StartFailsSeen DEF TaskError
  <2>3. CASE /\ ply' = [ply EXCEPT ![cslot] = "ready"]
             /\ cpc' = "idle"
             /\ testing' = [testing EXCEPT ![FileOf(kase[cslot])] = 0]
             /\ UNCHANGED <<cslot, testcase_header, kase, hisVars>>
    <3>1. cslot \in Slots /\ cslot # NoSlot
      BY <2>1, SlotAssumption DEF PatientInv, Control, StartingOwnsFlag
    <3>2. Running(cslot)'
      BY <2>3, <3>1 DEF Running, PatientInv, TypeOK, PlyTypeOK
    <3>3. PhaseSeen = "starting" /\ PhaseSeen' = "running"
      BY <2>1, <2>3, <3>1, <3>2, PhaseNow, PhaseNext
    <3>4. /\ Seen(kase, "none") = kase[cslot] /\ Seen(kase, "none")' = Seen(kase, "none")
          /\ Seen(frames, <<>>)' = Seen(frames, <<>>)
          /\ Seen(told, {})' = Seen(told, {})
      BY <2>3, <3>1, SeenNow DEF Seen, PatientInv, hisVars
    <3>5. {f \in Files : testing'[f] = 1} = {f \in Files : testing[f] = 1} \ {FileOf(kase[cslot])}
      <4>1. testing \in [Files -> {0, 1}]
        BY DEF PatientInv, TypeOK, CmdTypeOK
      <4> QED
        BY <2>3, <4>1
    <3> QED
      BY <3>3, <3>4, <3>5 DEF Protocol!Started
  <2> QED
    BY <1>2, <2>2, <2>3 DEF CmdPlayer
<1> QED
  BY <1>1, <1>2

\* A task's step belongs to the current test, which is not idle before it.
LEMMA TaskSeen ==
  ASSUME ~Overlap, PatientInv, PatientInv', Host, Host', NEW s \in Slots,
         Running(s), UNCHANGED cmdVars
  PROVE  /\ cslot = s /\ cslot' = s /\ UNCHANGED <<cpc, testing, kase>>
         /\ Active(s) /\ HeaderNow(s) = kase[s]
         /\ PhaseSeen # "idle"
         /\ PhaseSeen' = PhaseSeen \/ (PhaseSeen = "running" /\ PhaseSeen' = "idle")
         /\ Running(s)' => PhaseSeen' = PhaseSeen
         /\ Seen(kase, "none") = kase[s] /\ Seen(kase, "none")' = kase[s]
         /\ Seen(frames, <<>>) = frames[s] /\ Seen(frames, <<>>)' = frames'[s]
         /\ Seen(told, {}) = told[s] /\ Seen(told, {})' = told'[s]
<1>1. Active(s) /\ cslot = s /\ cslot # NoSlot /\ UNCHANGED <<cpc, cslot, testing, kase>>
  BY SlotAssumption DEF Active, Host, HostOf, cmdVars
<1>2. HeaderNow(s) = kase[s]
  BY <1>1, HeaderNowOwn DEF PatientInv
<1>3. /\ PhaseSeen = IF cpc = "idle" THEN "running" ELSE "starting"
      /\ cpc # "idle" => PhaseSeen' = "starting"
      /\ cpc = "idle" => PhaseSeen' = IF Running(s)' THEN "running" ELSE "idle"
  BY <1>1, PhaseNow, PhaseNext
<1>4. /\ Seen(kase, "none") = kase[s] /\ Seen(kase, "none")' = kase[s]
      /\ Seen(frames, <<>>) = frames[s] /\ Seen(frames, <<>>)' = frames'[s]
      /\ Seen(told, {}) = told[s] /\ Seen(told, {})' = told'[s]
  BY <1>1, SeenNow, SeenNext DEF PatientInv
<1> QED
  BY <1>1, <1>2, <1>3, <1>4

\* A task gives a reply other than record_end.
LEMMA ErrorSeen ==
  ASSUME ~Overlap, PatientInv, PatientInv', Host, Host', NEW s \in Slots,
         Running(s), UNCHANGED <<cmdVars, frames>>,
         NEW what \in {"open", "malloc", "mic_read", "write"}, Tell(s, what)
  PROVE  Protocol!ErrorReply(what)
<1>1. told'[s] = told[s] \cup {<<kase[s], what>>}
  BY TaskSeen, ToldMore DEF PatientInv, TypeOK
<1>2. UNCHANGED testing /\ frames'[s] = frames[s]
  BY TaskSeen
<1> QED
  BY <1>1, <1>2, TaskSeen DEF Protocol!ErrorReply, Protocol!EndsOrNot

\* A task goes on and tells nothing.
LEMMA SilentSeen ==
  ASSUME ~Overlap, PatientInv, PatientInv', Host, Host', NEW s \in Slots,
         Running(s), Running(s)', UNCHANGED <<cmdVars, frames, told>>
  PROVE  UNCHANGED Protocol!pvars
BY TaskSeen, SeenStutter

\* A frame takes at least a byte (FrameBytes).
LEMMA NumberFits == \A n \in Nat, b \in Nat \ {0}, r \in Nat : (n + 1) * b <= r => n <= r
<1> SUFFICES ASSUME NEW n \in Nat, NEW b \in Nat \ {0}, NEW r \in Nat, (n + 1) * b <= r
             PROVE  n <= r
  OBVIOUS
<1>1. (n + 1) * b = n * b + b
  BY OneMoreFrame
<1>2. n * b >= n
  <2>1. n * b = n + n * (b - 1)
    OBVIOUS
  <2>2. n * (b - 1) >= 0
    OBVIOUS
  <2> QED
    BY <2>1, <2>2
<1> QED
  BY <1>1, <1>2

\* The frame that is printed has the next number; a lost one is not seen.
LEMMA FrameSeen ==
  ASSUME ~Overlap, PatientInv, PatientInv', Host, Host', NEW s \in Slots, RecEmit(s)
  PROVE  (\E number \in 0 .. RecSize : Protocol!Frame(number)) \/ UNCHANGED Protocol!pvars
<1> USE DEF PatientInv, TypeOK, RecTypeOK, HisTypeOK
<1>1. /\ rec[s] = "emit" /\ rec'[s] # "none" /\ UNCHANGED <<cmdVars, told>>
      /\ \/ frames' = [frames EXCEPT ![s] =
                         Append(@, [hdr |-> label[s], idx |-> idx[s], at |-> sent[s]])]
         \/ UNCHANGED frames
  BY DEF RecEmit, RecAt
<1>2. Running(s) /\ Running(s)'
  BY <1>1 DEF Running
<1>3. CASE UNCHANGED frames
  BY <1>1, <1>2, <1>3, SilentSeen
<1>4. CASE frames' = [frames EXCEPT ![s] =
                        Append(@, [hdr |-> label[s], idx |-> idx[s], at |-> sent[s]])]
  <2>1. /\ idx[s] = g_idx /\ label[s] = kase[s]
        /\ g_idx * FrameBytes = sent[s]
        /\ \A i \in 1 .. Len(frames[s]) : frames[s][i].idx < g_idx
        /\ "frame" \notin Faults => Len(frames[s]) = g_idx
    BY <1>1 DEF Dump, DumpOf, LocalsFit, FramesSoFar, Dumping
  <2>2. Unended(s) /\ sent[s] + FrameBytes <= RecSize
    BY <1>1 DEF Host, HostOf
  <2>3. FrameBytes \in Nat \ {0}
    BY RecordAssumption DEF FrameBytes
  <2>4. (g_idx + 1) * FrameBytes <= RecSize
    BY <2>1, <2>2, <2>3, OneMoreFrame
  <2>5. g_idx \in 0 .. RecSize
    <3>1. g_idx \in Nat /\ RecSize \in Nat
      BY RecordAssumption
    <3>2. g_idx <= RecSize
      BY ONLY <3>1, <2>3, <2>4, NumberFits
    <3> QED
      BY ONLY <3>1, <3>2
  <2>6. frames'[s] = Append(frames[s],
                        [hdr |-> kase[s], idx |-> g_idx, at |-> g_idx * FrameBytes])
    BY <1>4, <2>1
  <2>7. UNCHANGED testing /\ told'[s] = told[s]
    BY <1>1 DEF cmdVars
  <2>8. Protocol!Frame(g_idx)
    BY <1>1, <1>2, <2>1, <2>2, <2>4, <2>6, <2>7, TaskSeen DEF Protocol!Frame, Unended
  <2> QED
    BY <2>5, <2>8
<1> QED
  BY <1>1, <1>3, <1>4

\* record_end is told once, and not before the last whole frame.
LEMMA RecordEndSeen ==
  ASSUME ~Overlap, PatientInv, PatientInv', Host, Host', NEW s \in Slots, RecEnd(s)
  PROVE  Protocol!RecordEnd
<1> USE DEF PatientInv, TypeOK, RecTypeOK, HisTypeOK
<1>1. rec[s] = "end" /\ Tell(s, "record_end") /\ UNCHANGED <<cmdVars, frames>>
  BY DEF RecEnd, RecAt
<1>2. Running(s) /\ Unended(s)
  BY <1>1 DEF Running, Host, HostOf
<1>3. told'[s] = told[s] \cup {<<kase[s], "record_end">>}
  BY <1>1, <1>2, TaskSeen, ToldMore
<1>4. "frame" \notin Faults => (Len(frames[s]) + 1) * FrameBytes > RecSize
  <2> SUFFICES ASSUME "frame" \notin Faults
               PROVE  (g_idx + 1) * FrameBytes > RecSize
    BY <1>1 DEF Dump, DumpOf, FramesSoFar, Dumping
  <2>1. g_idx * FrameBytes = sent[s] /\ DumpDone(sent[s]) /\ sent[s] >= FrameBytes
    BY <1>1 DEF Dump, DumpOf, LocalsFit, FramesSoFar, Dumping, Host, HostOf
  <2>2. (g_idx + 1) * FrameBytes = sent[s] + FrameBytes
    BY <2>1, OneMoreFrame, RecordAssumption DEF FrameBytes
  <2> QED
    BY <2>1, <2>2, RecordAssumption DEF DumpDone, FrameBytes
<1>5. UNCHANGED testing
  BY <1>1 DEF cmdVars
<1> QED
  BY <1>1, <1>2, <1>3, <1>4, <1>5, TaskSeen DEF Protocol!RecordEnd, Protocol!EndsOrNot, Unended

\* The recorder task: frames, replies, or nothing that is seen.
LEMMA RecorderSeen ==
  ASSUME ~Overlap, PatientInv, PatientInv', Host, Host', NEW s \in Slots, RecStep(s)
  PROVE  [Protocol!ProtocolNext]_(Protocol!pvars)
<1>1. UNCHANGED cmdVars /\ Running(s)
  BY RecStepShape DEF PatientInv, Running
<1>2. CASE RecEmit(s)
  BY <1>2, FrameSeen DEF Protocol!ProtocolNext
<1>3. CASE RecEnd(s)
  BY <1>3, RecordEndSeen DEF Protocol!ProtocolNext
<1>4. ASSUME NEW what \in {"open", "malloc", "mic_read"}, Tell(s, what), UNCHANGED frames
      PROVE  [Protocol!ProtocolNext]_(Protocol!pvars)
  BY <1>1, <1>4, ErrorSeen DEF Protocol!ProtocolNext
<1>5. CASE UNCHANGED <<frames, told>> /\ rec'[s] # "none"
  BY <1>1, <1>5, SilentSeen DEF Running
<1>6. CASE RecOpen(s) \/ RecAlloc(s) \/ RecRead(s) \/ RecClose(s) \/ RecIndex(s)
  BY <1>4, <1>5, <1>6
  DEF RecOpen, RecAlloc, RecRead, RecClose, RecIndex, RecGoto, hisVars,
      PatientInv, TypeOK, RecTypeOK
<1> QED
  BY <1>2, <1>3, <1>6 DEF RecStep

\* The player task: a reply, the end of the test, or nothing that is seen.
LEMMA PlayerSeen ==
  ASSUME ~Overlap, PatientInv, PatientInv', Host, Host', NEW s \in Slots, PlyStep(s)
  PROVE  [Protocol!ProtocolNext]_(Protocol!pvars)
<1>1. UNCHANGED <<cmdVars, rec, frames>> /\ ply[s] # "none" /\ Running(s)
  BY PlyStepShape DEF PatientInv, Running, recVars
<1>2. CASE Tell(s, "write")
  BY <1>1, <1>2, ErrorSeen DEF Protocol!ProtocolNext
<1>3. CASE UNCHANGED told /\ Running(s)'
  BY <1>1, <1>3, SilentSeen
<1>4. CASE PlyUninstall(s) /\ ~Running(s)'
  <2>1. UNCHANGED told /\ rec[s] = "none"
    BY <1>1, <1>4 DEF PlyUninstall, Running, hisVars
  <2>2. told[s] # {}
    <3>1. HostOf(s)
      BY DEF Host
    <3> QED
      BY <1>1, <2>1, <3>1 DEF HostOf
  <2>3. cslot = s /\ cslot \in Slots
    BY <1>1, TaskSeen
  <2>4. cpc = "idle"
    BY <1>1, <2>3 DEF PatientInv, Control, StartingOwnsFlag
  <2>5. PhaseSeen = "running" /\ PhaseSeen' = "idle"
    <3>1. UNCHANGED <<cpc, cslot>>
      BY <1>1 DEF cmdVars
    <3> QED
      BY <1>1, <1>4, <2>3, <2>4, <3>1, PhaseNow, PhaseNext
  <2>6. UNCHANGED testing
    BY <1>1 DEF cmdVars
  <2>7. Protocol!Ends
    BY <1>1, <2>1, <2>2, <2>5, <2>6, TaskSeen DEF Protocol!Ends
  <2> QED
    BY <2>7 DEF Protocol!ProtocolNext
<1>5. CASE PlyUninstall(s)
  BY <1>3, <1>4, <1>5 DEF PlyUninstall, hisVars
<1>6. CASE UNCHANGED told /\ ply'[s] # "none"
  BY <1>3, <1>6 DEF Running
<1>7. CASE PlyStart(s) \/ PlyCheck(s) \/ PlyUse(s) \/ PlyWait(s)
  BY <1>2, <1>6, <1>7
  DEF PlyStart, PlyCheck, PlyUse, PlyWait, PlyGoto, PlayedOn, hisVars,
      PatientInv, TypeOK, PlyTypeOK
<1>8. CASE PlyTest16(s) \/ PlyFree16(s) \/ PlyNull16(s)
        \/ PlyTest32(s) \/ PlyFree32(s) \/ PlyNull32(s)
  BY <1>6, <1>8
  DEF PlyTest16, PlyFree16, PlyNull16, PlyTest32, PlyFree32, PlyNull32, UnloadStep,
      PlyGoto, hisVars, PatientInv, TypeOK, PlyTypeOK
<1> QED
  BY <1>5, <1>7, <1>8 DEF PlyStep

\* Every step is a step of the protocol or is not seen.
LEMMA ProtocolStep ==
  ASSUME ~Overlap, PatientInv, PatientInv', Host, Host', [Next]_vars
  PROVE  [Protocol!ProtocolNext]_(Protocol!pvars)
<1>1. ASSUME NEW c \in Cases, Refuse(c) PROVE UNCHANGED Protocol!pvars
  <2>1. UNCHANGED <<cpc, cslot, kase, testing, frames, told, rec, ply>>
    BY <1>1 DEF Refuse, recVars, plyVars, hisVars
  <2>2. PhaseSeen' = PhaseSeen
    BY <2>1 DEF PhaseSeen, Running
  <2> QED
    BY <2>1, <2>2, SeenStutter
<1>2. ASSUME NEW c \in Cases, NEW s \in Slots, Begin(c, s) PROVE Protocol!ProtocolNext
  BY <1>2, BeginSeen DEF Protocol!ProtocolNext
<1>3. CASE CmdI2s
  BY <1>3, LoadSeen DEF CmdI2s, Protocol!ProtocolNext
<1>4. CASE CmdCodec
  BY <1>4, LoadSeen DEF CmdCodec, Protocol!ProtocolNext
<1>5. CASE CmdBuf16
  BY <1>5, LoadSeen DEF CmdBuf16, Protocol!ProtocolNext
<1>6. CASE CmdBuf32
  BY <1>6, LoadSeen DEF CmdBuf32, Protocol!ProtocolNext
<1>7. CASE CmdRecorder \/ CmdPlayer
  BY <1>7, TasksSeen DEF Protocol!ProtocolNext
<1>8. ASSUME NEW s \in Slots, RecStep(s) PROVE [Protocol!ProtocolNext]_(Protocol!pvars)
  BY <1>8, RecorderSeen
<1>9. ASSUME NEW s \in Slots, PlyStep(s) PROVE [Protocol!ProtocolNext]_(Protocol!pvars)
  BY <1>9, PlayerSeen
<1>10. CASE UNCHANGED vars
  <2>1. UNCHANGED <<cpc, cslot, kase, testing, frames, told, rec, ply>>
    BY <1>10 DEF vars, cmdVars, recVars, plyVars, hisVars
  <2>2. PhaseSeen' = PhaseSeen
    BY <2>1 DEF PhaseSeen, Running
  <2> QED
    BY <2>1, <2>2, SeenStutter
<1> QED
  BY <1>1, <1>2, <1>3, <1>4, <1>5, <1>6, <1>7, <1>8, <1>9, <1>10 DEF Next, CmdStep

\* What a patient host sees of the audio tests is the protocol of AudioProtocol,
\* in every interleaving of the tasks and after any failure of any call.
THEOREM ProtocolImplemented ==
  ASSUME ~Overlap
  PROVE  Spec => HostSeesProtocol
<1>1. Init => Protocol!ProtocolInit
  BY DEF Init, Protocol!ProtocolInit, PhaseSeen, Seen, Running
<1>2. PatientInv /\ Host /\ PatientInv' /\ Host' /\ [Next]_vars
        => [Protocol!ProtocolNext]_(Protocol!pvars)
  BY ProtocolStep
<1> QED
  BY <1>1, <1>2, HostAlways, PTL DEF Spec, HostSeesProtocol, Protocol!ProtocolSpec
=============================================================================
