-------------------------- MODULE AudioCaseProofs --------------------------
(* Theorems about AudioCase for every set of slots, every set of faults and *)
(* every size of the buffers, with their proofs.                            *)
EXTENDS AudioCaseInv, TLAPS

-----------------------------------------------------------------------------
(* Types.                                                                   *)

\* Adding an element to one value of a set-valued function keeps its type
\* (the history of printed replies).
LEMMA AddElement ==
  ASSUME NEW S, NEW P, NEW f \in [S -> SUBSET P], NEW s, NEW e \in P
  PROVE  [f EXCEPT ![s] = @ \cup {e}] \in [S -> SUBSET P]
<1>1. CASE s \in S
  <2>1. f[s] \cup {e} \in SUBSET P
    BY <1>1
  <2> QED
    BY <1>1, <2>1
<1>2. CASE s \notin S
  <2>1. [f EXCEPT ![s] = @ \cup {e}] = f
    BY <1>2
  <2> QED
    BY <2>1
<1> QED
  BY <1>1, <1>2

\* A group of variables that a step leaves alone keeps its type.
LEMMA TypeFrame ==
  /\ DacTypeOK /\ UNCHANGED dacVars => DacTypeOK'
  /\ CmdTypeOK /\ UNCHANGED cmdVars => CmdTypeOK'
  /\ RecTypeOK /\ UNCHANGED recVars => RecTypeOK'
  /\ PlyTypeOK /\ UNCHANGED plyVars => PlyTypeOK'
  /\ HisTypeOK /\ UNCHANGED hisVars => HisTypeOK'
<1>1. DacTypeOK /\ UNCHANGED dacVars => DacTypeOK'
  BY DEF DacTypeOK, dacVars
<1>2. CmdTypeOK /\ UNCHANGED cmdVars => CmdTypeOK'
  BY DEF CmdTypeOK, cmdVars
<1>3. RecTypeOK /\ UNCHANGED recVars => RecTypeOK'
  BY DEF RecTypeOK, recVars
<1>4. PlyTypeOK /\ UNCHANGED plyVars => PlyTypeOK'
  BY DEF PlyTypeOK, plyVars
<1>5. HisTypeOK /\ UNCHANGED hisVars => HisTypeOK'
  BY DEF HisTypeOK, hisVars
<1> QED
  BY <1>1, <1>2, <1>3, <1>4, <1>5

\* A test prints one of the known headers (HeaderNow).
LEMMA HeaderNowType ==
  ASSUME CmdTypeOK, NEW s
  PROVE  HeaderNow(s) \in Headers
BY DEF CmdTypeOK, HeaderNow, Headers, Cases

\* Printing a reply keeps the history well typed (Tell).
LEMMA TellType ==
  ASSUME CmdTypeOK, HisTypeOK, NEW s, NEW what \in Replies, Tell(s, what),
         UNCHANGED <<frames, dropped>>
  PROVE  HisTypeOK'
<1> DEFINE P == Headers \X Replies
<1>1. <<HeaderNow(s), what>> \in P
  BY HeaderNowType
<1>2. told \in [Slots -> SUBSET P] /\ told' = [told EXCEPT ![s] = @ \cup {<<HeaderNow(s), what>>}]
  BY DEF HisTypeOK, Tell
<1>3. told' \in [Slots -> SUBSET P]
  <2> HIDE DEF P
  <2> QED
    BY <1>1, <1>2, AddElement
<1> QED
  BY <1>3 DEF HisTypeOK

\* The command task moves on (Goto).
LEMMA GotoType ==
  ASSUME CmdTypeOK, NEW pc \in CmdPcs, Goto(pc)
  PROVE  CmdTypeOK'
BY DEF CmdTypeOK, Goto

\* A recorder task ends (RecExit).
LEMMA RecExitType ==
  ASSUME RecTypeOK, NEW s, RecExit(s), handle' \in [Slots -> BOOLEAN], g_idx' \in Nat
  PROVE  RecTypeOK'
BY DEF RecTypeOK, RecExit, RecPcs, Headers

\* One step of duer_audio_dac_load_driver (LoadStep).
LEMMA LoadStepType ==
  ASSUME TypeOK, NEW call, NEW from, NEW to \in CmdPcs, NEW ACTION Load,
         LoadStep(call, from, to, Load), Load => DacTypeOK'
  PROVE  TypeOK'
<1>1. DacTypeOK'
  BY TypeFrame DEF TypeOK, LoadStep, LoadFails
<1>2. CmdTypeOK'
  BY GotoType DEF TypeOK, LoadStep, LoadError, CmdPcs
<1>3. RecTypeOK' /\ PlyTypeOK'
  BY TypeFrame DEF TypeOK, LoadStep
<1>4. HisTypeOK'
  BY TypeFrame, TellType DEF TypeOK, LoadStep, LoadError, Replies, hisVars
<1> QED
  BY <1>1, <1>2, <1>3, <1>4 DEF TypeOK

\* One step of player_exec: what it leaves alone (KeepOthers).
LEMMA PlyStepType ==
  ASSUME TypeOK, KeepOthers, DacTypeOK', PlyTypeOK', HisTypeOK'
  PROVE  TypeOK'
BY TypeFrame DEF TypeOK, KeepOthers, cmdVars, recVars

\* The player advances in its WAV (PlayedOn).
LEMMA PlayedOnType ==
  ASSUME PlyTypeOK, NEW s \in Slots, PlayedOn(s)
  PROVE  PlyTypeOK'
BY WavAssumption DEF PlyTypeOK, PlayedOn, PlyGoto, PlyPcs

\* One step of duer_audio_dac_unload_driver (UnloadStep).
LEMMA UnloadStepType ==
  ASSUME TypeOK, NEW s, NEW to \in PlyPcs, PlyGoto(s, to), KeepOthers,
         UNCHANGED <<off, hisVars>>, DacTypeOK'
  PROVE  TypeOK'
<1>1. PlyTypeOK'
  BY DEF TypeOK, PlyTypeOK, PlyGoto
<1>2. HisTypeOK'
  BY TypeFrame DEF TypeOK
<1> QED
  BY <1>1, <1>2, PlyStepType

\* Every step of AudioCase keeps the types.
LEMMA TypeStep == TypeOK /\ [Next]_vars => TypeOK'
<1> SUFFICES ASSUME TypeOK, [Next]_vars PROVE TypeOK'
  OBVIOUS
<1> USE DEF TypeOK
<1>1. ASSUME NEW c \in Cases, Refuse(c) PROVE TypeOK'
  <2>1. CmdTypeOK'
    BY <1>1 DEF Refuse, CmdTypeOK, HeaderAfter, Headers
  <2> QED
    BY <1>1, <2>1, TypeFrame DEF Refuse
<1>2. ASSUME NEW c \in Cases, NEW s \in Slots, Begin(c, s) PROVE TypeOK'
  <2>1. CmdTypeOK'
    BY <1>2 DEF Begin, CmdTypeOK, HeaderAfter, Headers, FileOf, Files, CmdPcs
  <2>2. HisTypeOK'
    <3> DEFINE F == Seq([hdr : Headers, idx : Nat, at : Nat])
               R == SUBSET (Headers \X Replies)
    <3>1. frames \in [Slots -> F] /\ told \in [Slots -> R] /\ dropped \in [Slots -> BOOLEAN]
      BY DEF HisTypeOK
    <3>2. <<>> \in F /\ {} \in R
      OBVIOUS
    <3>3. frames' \in [Slots -> F] /\ told' \in [Slots -> R] /\ dropped' \in [Slots -> BOOLEAN]
      <4> HIDE DEF F, R
      <4> QED
        BY <1>2, <3>1, <3>2 DEF Begin
    <3> QED
      BY <3>3 DEF HisTypeOK
  <2> QED
    BY <1>2, <2>1, <2>2, TypeFrame DEF Begin
<1>3. CASE CmdI2s
  <2>1. InstallI2s => DacTypeOK'
    BY DEF InstallI2s, DacTypeOK
  <2> QED
    BY <1>3, <2>1, LoadStepType DEF CmdI2s, CmdPcs
<1>4. CASE CmdCodec
  <2>1. UNCHANGED dacVars => DacTypeOK'
    BY TypeFrame
  <2> QED
    BY <1>4, <2>1, LoadStepType DEF CmdCodec, CmdPcs
<1>5. CASE CmdBuf16
  <2>1. LoadBuf16 => DacTypeOK'
    BY DEF LoadBuf16, Allocated, DacTypeOK, BufState
  <2> QED
    BY <1>5, <2>1, LoadStepType DEF CmdBuf16, CmdPcs
<1>6. CASE CmdBuf32
  <2>1. LoadBuf32 => DacTypeOK'
    BY DEF LoadBuf32, Allocated, DacTypeOK, BufState
  <2> QED
    BY <1>6, <2>1, LoadStepType DEF CmdBuf32, CmdPcs
<1>7. CASE CmdRecorder
  <2>1. CmdTypeOK'
    BY <1>7, GotoType DEF CmdRecorder, TaskError, CmdPcs
  <2>2. RecTypeOK'
    BY <1>7 DEF CmdRecorder, RecTypeOK, RecPcs
  <2>3. HisTypeOK'
    BY <1>7, TellType, TypeFrame DEF CmdRecorder, TaskError, Replies
  <2> QED
    BY <1>7, <2>1, <2>2, <2>3, TypeFrame DEF CmdRecorder
<1>8. CASE CmdPlayer
  <2>1. CmdTypeOK'
    <3>1. CASE UNCHANGED <<cslot, testcase_header, kase>>
               /\ cpc' = "idle" /\ testing' = [testing EXCEPT ![FileOf(kase[cslot])] = 0]
      BY <3>1 DEF CmdTypeOK, CmdPcs
    <3> QED
      BY <1>8, <3>1, GotoType DEF CmdPlayer, TaskError, CmdPcs
  <2>2. PlyTypeOK'
    BY <1>8 DEF CmdPlayer, PlyTypeOK, PlyPcs
  <2>3. HisTypeOK'
    BY <1>8, TellType, TypeFrame DEF CmdPlayer, TaskError, Replies
  <2> QED
    BY <1>8, <2>1, <2>2, <2>3, TypeFrame DEF CmdPlayer
<1>9. ASSUME NEW s \in Slots, RecOpen(s) PROVE TypeOK'
  <2>1. RecTypeOK'
    BY <1>9, RecExitType DEF RecOpen, RecGoto, RecTypeOK, RecPcs
  <2>2. HisTypeOK'
    BY <1>9, TellType, TypeFrame DEF RecOpen, Replies, hisVars
  <2> QED
    BY <1>9, <2>1, <2>2, TypeFrame DEF RecOpen
<1>10. ASSUME NEW s \in Slots, RecAlloc(s) PROVE TypeOK'
  <2>1. RecTypeOK'
    BY <1>10, RecExitType DEF RecAlloc, RecGoto, RecTypeOK, RecPcs
  <2>2. HisTypeOK'
    BY <1>10, TellType, TypeFrame DEF RecAlloc, Replies, hisVars
  <2> QED
    BY <1>10, <2>1, <2>2, TypeFrame DEF RecAlloc
<1>11. ASSUME NEW s \in Slots, RecRead(s) PROVE TypeOK'
  <2>1. RecTypeOK'
    <3>1. UNCHANGED <<handle, g_idx, label, idx, sent>> /\ rec' \in [Slots -> RecPcs]
      BY <1>11 DEF RecRead, RecGoto, RecTypeOK, RecPcs
    <3>2. got' = got \/ \E n \in 1..MiniBuf : got' = [got EXCEPT ![s] = @ + n]
      BY <1>11 DEF RecRead
    <3>3. got' \in [Slots -> Nat]
      BY <3>2, RecordAssumption DEF RecTypeOK
    <3> QED
      BY <3>1, <3>3 DEF RecTypeOK
  <2>2. HisTypeOK'
    BY <1>11, TellType, TypeFrame DEF RecRead, Replies, hisVars
  <2> QED
    BY <1>11, <2>1, <2>2, TypeFrame DEF RecRead
<1>12. ASSUME NEW s \in Slots, RecClose(s) PROVE TypeOK'
  <2>1. RecTypeOK'
    BY <1>12, HeaderNowType DEF RecClose, RecTypeOK, RecPcs
  <2> QED
    BY <1>12, <2>1, TypeFrame DEF RecClose
<1>13. ASSUME NEW s \in Slots, RecIndex(s) PROVE TypeOK'
  <2>1. RecTypeOK'
    BY <1>13 DEF RecIndex, RecTypeOK, RecPcs
  <2> QED
    BY <1>13, <2>1, TypeFrame DEF RecIndex
<1>14. ASSUME NEW s \in Slots, RecEmit(s) PROVE TypeOK'
  <2>1. RecTypeOK'
    BY <1>14, RecordAssumption DEF RecEmit, NextIndex, FrameBytes, RecTypeOK, RecPcs
  <2>2. HisTypeOK'
    <3> DEFINE R == [hdr : Headers, idx : Nat, at : Nat]
               e == [hdr |-> label[s], idx |-> idx[s], at |-> sent[s]]
    <3>1. e \in R
      BY DEF RecTypeOK
    <3>2. frames \in [Slots -> Seq(R)]
      BY DEF HisTypeOK
    <3>3. frames' = frames \/ frames' = [frames EXCEPT ![s] = Append(@, e)]
      BY <1>14 DEF RecEmit
    <3>4. frames' \in [Slots -> Seq(R)]
      <4> HIDE DEF R, e
      <4>1. Append(frames[s], e) \in Seq(R)
        BY <3>1, <3>2
      <4> QED
        BY <3>2, <3>3, <4>1
    <3> QED
      BY <1>14, <3>4 DEF RecEmit, HisTypeOK
  <2> QED
    BY <1>14, <2>1, <2>2, TypeFrame DEF RecEmit
<1>15. ASSUME NEW s \in Slots, RecEnd(s) PROVE TypeOK'
  <2>1. RecTypeOK'
    BY <1>15, RecExitType DEF RecEnd, RecTypeOK
  <2>2. HisTypeOK'
    BY <1>15, TellType DEF RecEnd, Replies
  <2> QED
    BY <1>15, <2>1, <2>2, TypeFrame DEF RecEnd
<1>16. ASSUME NEW s \in Slots, PlyStart(s) PROVE TypeOK'
  <2>1. DacTypeOK'
    BY <1>16, TypeFrame DEF PlyStart
  <2> QED
    BY <1>16, <2>1, UnloadStepType DEF PlyStart, PlyPcs
<1>17. ASSUME NEW s \in Slots, PlyCheck(s) PROVE TypeOK'
  <2>1. PlyTypeOK'
    BY <1>17, PlayedOnType DEF PlyCheck, PlyGoto, PlyTypeOK, PlyPcs
  <2>2. HisTypeOK'
    BY <1>17 DEF PlyCheck, HisTypeOK
  <2> QED
    BY <1>17, <2>1, <2>2, TypeFrame, PlyStepType DEF PlyCheck
<1>18. ASSUME NEW s \in Slots, PlyUse(s) PROVE TypeOK'
  <2>1. PlyTypeOK'
    BY <1>18, PlayedOnType DEF PlyUse, PlyGoto, PlyTypeOK, PlyPcs
  <2>2. HisTypeOK'
    BY <1>18, TellType, TypeFrame DEF PlyUse, Replies, hisVars
  <2>3. DacTypeOK'
    BY <1>18 DEF PlyUse, UseBuffers, DacTypeOK
  <2> QED
    BY <1>18, <2>1, <2>2, <2>3, PlyStepType DEF PlyUse
<1>19. ASSUME NEW s \in Slots, PlyWait(s) PROVE TypeOK'
  <2>1. DacTypeOK'
    BY <1>19 DEF PlyWait, DrainI2s, DacTypeOK
  <2> QED
    BY <1>19, <2>1, UnloadStepType DEF PlyWait, PlyPcs
<1>20. ASSUME NEW s \in Slots, PlyTest16(s) PROVE TypeOK'
  <2>1. DacTypeOK'
    BY <1>20, TypeFrame DEF PlyTest16
  <2> QED
    BY <1>20, <2>1, UnloadStepType DEF PlyTest16, PlyPcs
<1>21. ASSUME NEW s \in Slots, PlyFree16(s) PROVE TypeOK'
  <2>1. DacTypeOK'
    BY <1>21 DEF PlyFree16, UnloadStep, FreeBuf16, FreeOutcome, Released, DacTypeOK, BufState
  <2> QED
    BY <1>21, <2>1, UnloadStepType DEF PlyFree16, UnloadStep, PlyPcs
<1>22. ASSUME NEW s \in Slots, PlyNull16(s) PROVE TypeOK'
  <2>1. DacTypeOK'
    BY <1>22 DEF PlyNull16, UnloadStep, NullBuf16, DacTypeOK, BufState
  <2> QED
    BY <1>22, <2>1, UnloadStepType DEF PlyNull16, UnloadStep, PlyPcs
<1>23. ASSUME NEW s \in Slots, PlyTest32(s) PROVE TypeOK'
  <2>1. DacTypeOK'
    BY <1>23, TypeFrame DEF PlyTest32
  <2> QED
    BY <1>23, <2>1, UnloadStepType DEF PlyTest32, PlyPcs
<1>24. ASSUME NEW s \in Slots, PlyFree32(s) PROVE TypeOK'
  <2>1. DacTypeOK'
    BY <1>24 DEF PlyFree32, UnloadStep, FreeBuf32, FreeOutcome, Released, DacTypeOK, BufState
  <2> QED
    BY <1>24, <2>1, UnloadStepType DEF PlyFree32, UnloadStep, PlyPcs
<1>25. ASSUME NEW s \in Slots, PlyNull32(s) PROVE TypeOK'
  <2>1. DacTypeOK'
    BY <1>25 DEF PlyNull32, UnloadStep, NullBuf32, DacTypeOK, BufState
  <2> QED
    BY <1>25, <2>1, UnloadStepType DEF PlyNull32, UnloadStep, PlyPcs
<1>26. ASSUME NEW s \in Slots, PlyUninstall(s) PROVE TypeOK'
  <2>1. DacTypeOK'
    BY <1>26 DEF PlyUninstall, UninstallI2s, DacTypeOK
  <2>2. PlyTypeOK'
    BY <1>26 DEF PlyUninstall, PlyGoto, PlyTypeOK, PlyPcs
  <2> QED
    BY <1>26, <2>1, <2>2, TypeFrame, PlyStepType DEF PlyUninstall
<1>27. CASE UNCHANGED vars
  BY <1>27, TypeFrame DEF vars
<1> HIDE DEF TypeOK
<1> QED
  BY <1>1, <1>2, <1>3, <1>4, <1>5, <1>6, <1>7, <1>8, <1>9, <1>10, <1>11, <1>12,
     <1>13, <1>14, <1>15, <1>16, <1>17, <1>18, <1>19, <1>20, <1>21, <1>22, <1>23,
     <1>24, <1>25, <1>26, <1>27
  DEF Next, CmdStep, RecStep, PlyStep

\* The initial state has the types.
LEMMA TypeInit == Init => TypeOK
<1>1. Init => DacTypeOK
  BY DEF Init, DacInit, DacTypeOK, BufState
<1>2. Init => CmdTypeOK
  BY DEF Init, CmdTypeOK, CmdPcs, Headers
<1>3. Init => RecTypeOK
  BY DEF Init, RecTypeOK, RecPcs, Headers
<1>4. Init => PlyTypeOK
  BY DEF Init, PlyTypeOK, PlyPcs
<1>5. Init => HisTypeOK
  BY DEF Init, HisTypeOK
<1> QED
  BY <1>1, <1>2, <1>3, <1>4, <1>5 DEF TypeOK

\* Every variable keeps its type, whatever the host does and whatever fails.
THEOREM TypeCorrect == Spec => []TypeOK
BY TypeInit, TypeStep, PTL DEF Spec

-----------------------------------------------------------------------------
(* What a step of a recorder or a player task can touch.                    *)

\* A step of recorder_exec works for an existing task and leaves the command
\* task, the players and the driver alone.
LEMMA RecStepShape ==
  ASSUME TypeOK, NEW s \in Slots, RecStep(s)
  PROVE  /\ UNCHANGED <<cmdVars, plyVars, dacVars, dropped>>
         /\ rec[s] # "none"
         /\ \A t \in Slots : t # s => /\ rec'[t] = rec[t]
                                      /\ handle'[t] = handle[t]
                                      /\ label'[t] = label[t]
                                      /\ idx'[t] = idx[t]
                                      /\ sent'[t] = sent[t]
                                      /\ frames'[t] = frames[t]
                                      /\ told'[t] = told[t]
<1> USE DEF TypeOK, RecTypeOK, HisTypeOK
<1>1. CASE RecOpen(s)
  BY <1>1 DEF RecOpen, RecAt, RecGoto, RecExit, Tell
<1>2. CASE RecAlloc(s)
  BY <1>2 DEF RecAlloc, RecAt, RecGoto, RecExit, Tell
<1>3. CASE RecRead(s)
  BY <1>3 DEF RecRead, RecAt, RecGoto, Tell
<1>4. CASE RecClose(s)
  BY <1>4 DEF RecClose, RecAt, hisVars
<1>5. CASE RecIndex(s)
  BY <1>5 DEF RecIndex, RecAt, hisVars
<1>6. CASE RecEmit(s)
  BY <1>6 DEF RecEmit, RecAt
<1>7. CASE RecEnd(s)
  BY <1>7 DEF RecEnd, RecAt, RecExit, Tell
<1> QED
  BY <1>1, <1>2, <1>3, <1>4, <1>5, <1>6, <1>7 DEF RecStep

\* A step of player_exec works for an existing task and leaves the command
\* task and the recorders alone.
LEMMA PlyStepShape ==
  ASSUME TypeOK, NEW s \in Slots, PlyStep(s)
  PROVE  /\ UNCHANGED <<cmdVars, recVars, frames>>
         /\ ply[s] # "none"
         /\ \A t \in Slots : t # s => /\ ply'[t] = ply[t]
                                      /\ told'[t] = told[t]
<1> USE DEF TypeOK, PlyTypeOK, HisTypeOK, KeepOthers, hisVars
<1>1. CASE PlyStart(s)
  BY <1>1 DEF PlyStart, PlyAt, PlyGoto
<1>2. CASE PlyCheck(s)
  BY <1>2 DEF PlyCheck, PlyAt, PlyGoto, PlayedOn
<1>3. CASE PlyUse(s)
  BY <1>3 DEF PlyUse, PlyAt, PlyGoto, PlayedOn, Tell
<1>4. CASE PlyWait(s)
  BY <1>4 DEF PlyWait, PlyAt, PlyGoto
<1>5. CASE PlyTest16(s)
  BY <1>5 DEF PlyTest16, PlyAt, PlyGoto
<1>6. CASE PlyFree16(s)
  BY <1>6 DEF PlyFree16, UnloadStep, PlyAt, PlyGoto
<1>7. CASE PlyNull16(s)
  BY <1>7 DEF PlyNull16, UnloadStep, PlyAt, PlyGoto
<1>8. CASE PlyTest32(s)
  BY <1>8 DEF PlyTest32, PlyAt, PlyGoto
<1>9. CASE PlyFree32(s)
  BY <1>9 DEF PlyFree32, UnloadStep, PlyAt, PlyGoto
<1>10. CASE PlyNull32(s)
  BY <1>10 DEF PlyNull32, UnloadStep, PlyAt, PlyGoto
<1>11. CASE PlyUninstall(s)
  BY <1>11 DEF PlyUninstall, PlyAt, PlyGoto
<1> QED
  BY <1>1, <1>2, <1>3, <1>4, <1>5, <1>6, <1>7, <1>8, <1>9, <1>10, <1>11 DEF PlyStep

-----------------------------------------------------------------------------
(* Layer 1: control.                                                        *)

\* A step that leaves the command task alone and creates no task keeps Control.
LEMMA ControlFrame ==
  ASSUME Control, UNCHANGED cmdVars,
         \A t \in Slots : /\ rec[t] = "none" => rec'[t] = "none"
                          /\ ply[t] = "none" => ply'[t] = "none"
  PROVE  Control'
<1> SUFFICES ASSUME ~Overlap PROVE OneActive' /\ StartingOwnsFlag' /\ HeaderIsOwn'
  BY DEF Control
<1>1. \A t \in Slots : Active(t)' => Active(t)
  BY DEF Active, Running, cmdVars
<1>2. OneActive'
  BY <1>1 DEF Control, OneActive
<1>3. StartingOwnsFlag'
  BY DEF Control, StartingOwnsFlag, cmdVars, FileOf
<1>4. HeaderIsOwn'
  BY <1>1 DEF Control, HeaderIsOwn, cmdVars
<1> QED
  BY <1>2, <1>3, <1>4

\* While the command task starts a test it changes only where it is.
LEMMA ControlGoto ==
  ASSUME TypeOK, Control, cpc # "idle", NEW pc \in CmdPcs, Goto(pc),
         UNCHANGED ply, pc \notin {"idle", "player"} => cpc # "player" /\ UNCHANGED rec,
         \A t \in Slots : rec'[t] = rec[t] \/ t = cslot
  PROVE  Control'
<1> SUFFICES ASSUME ~Overlap PROVE OneActive' /\ StartingOwnsFlag' /\ HeaderIsOwn'
  BY DEF Control
<1>1. \A t \in Slots : Active(t)' => Active(t)
  BY DEF Active, Running, Goto
<1>2. OneActive'
  BY <1>1 DEF Control, OneActive
<1>3. StartingOwnsFlag'
  BY DEF Control, StartingOwnsFlag, Goto
<1>4. HeaderIsOwn'
  BY <1>1 DEF Control, HeaderIsOwn, Goto
<1> QED
  BY <1>2, <1>3, <1>4

\* One step of duer_audio_dac_load_driver keeps Control.
LEMMA ControlLoad ==
  ASSUME TypeOK, Control, NEW call, NEW from \in {"i2s", "codec", "buf16", "buf32"},
         NEW to \in {"codec", "buf16", "buf32", "recorder"}, NEW ACTION Load,
         LoadStep(call, from, to, Load)
  PROVE  Control'
<1>1. cpc = from /\ UNCHANGED <<recVars, plyVars>> /\ (Goto(to) \/ Goto("idle"))
  BY DEF LoadStep, CmdAt, LoadError
<1>2. UNCHANGED <<rec, ply>> /\ cpc \notin {"idle", "player"}
  BY <1>1 DEF recVars, plyVars
<1>3. rec[cslot] = "none" \/ Overlap
  BY <1>2 DEF Control, StartingOwnsFlag
<1> QED
  BY <1>1, <1>2, ControlGoto DEF CmdPcs

\* Control holds in the initial state.
LEMMA ControlInit == Init => Control
BY DEF Init, Control, OneActive, StartingOwnsFlag, HeaderIsOwn, Active, Running

\* Every step keeps Control.
LEMMA ControlStep == TypeOK /\ Control /\ [Next]_vars => Control'
<1> SUFFICES ASSUME TypeOK, Control, [Next]_vars PROVE Control'
  OBVIOUS
<1>1. ASSUME NEW c \in Cases, Refuse(c) PROVE Control'
  <2>1. ~Overlap => \A t \in Slots : ~Active(t)'
    BY <1>1 DEF Refuse, HostSends, CmdAt, Active, Running, recVars, plyVars
  <2> QED
    BY <1>1, <2>1 DEF Refuse, HostSends, CmdAt, Control, OneActive, StartingOwnsFlag, HeaderIsOwn
<1>2. ASSUME NEW c \in Cases, NEW s \in Slots, Begin(c, s) PROVE Control'
  <2> SUFFICES ASSUME ~Overlap PROVE OneActive' /\ StartingOwnsFlag' /\ HeaderIsOwn'
    BY DEF Control
  <2>1. \A t \in Slots : rec'[t] = "none" /\ ply'[t] = "none"
    BY <1>2 DEF Begin, HostSends, Running, recVars, plyVars
  <2>2. \A t \in Slots : Active(t)' => t = s
    BY <1>2, <2>1 DEF Begin, Active, Running
  <2>3. kase'[s] = c /\ cslot' = s /\ testing'[FileOf(c)] = 1
    BY <1>2 DEF Begin, TypeOK, CmdTypeOK, Files, FileOf
  <2>4. OneActive'
    BY <2>2 DEF OneActive
  <2>5. StartingOwnsFlag'
    BY <2>1, <2>3 DEF StartingOwnsFlag, FileOf
  <2>6. HeaderIsOwn'
    BY <1>2, <2>2, <2>3 DEF HeaderIsOwn, Begin, HeaderAfter
  <2> QED
    BY <2>4, <2>5, <2>6
<1>3. CASE CmdI2s
  BY <1>3, ControlLoad DEF CmdI2s
<1>4. CASE CmdCodec
  BY <1>4, ControlLoad DEF CmdCodec
<1>5. CASE CmdBuf16
  BY <1>5, ControlLoad DEF CmdBuf16
<1>6. CASE CmdBuf32
  BY <1>6, ControlLoad DEF CmdBuf32
<1>7. CASE CmdRecorder
  <2>1. cpc = "recorder" /\ UNCHANGED ply /\ (Goto("player") \/ Goto("idle"))
    BY <1>7 DEF CmdRecorder, CmdAt, TaskError, plyVars
  <2>2. \A t \in Slots : rec'[t] = rec[t] \/ t = cslot
    BY <1>7 DEF CmdRecorder, TypeOK, RecTypeOK
  <2> QED
    BY <2>1, <2>2, ControlGoto DEF CmdPcs
<1>8. CASE CmdPlayer
  <2>1. CASE "player_task" \in Faults /\ TaskError("player_task", "player_task") /\ UNCHANGED ply
    <3>1. cpc = "player" /\ UNCHANGED <<rec, ply>> /\ Goto("idle")
      BY <1>8, <2>1 DEF CmdPlayer, CmdAt, TaskError, recVars
    <3> QED
      BY <3>1, ControlGoto DEF CmdPcs
  <2>2. CASE cpc' = "idle" /\ ply' = [ply EXCEPT ![cslot] = "ready"]
             /\ UNCHANGED <<testcase_header, kase>>
    <3> SUFFICES ASSUME ~Overlap PROVE OneActive' /\ StartingOwnsFlag' /\ HeaderIsOwn'
      BY DEF Control
    <3>1. cpc = "player" /\ cslot \in Slots /\ UNCHANGED rec
      BY <1>8 DEF CmdPlayer, CmdAt, recVars, Control, StartingOwnsFlag
    <3>2. \A t \in Slots : Active(t)' => Active(t)
      BY <2>2, <3>1 DEF Active, Running, TypeOK, PlyTypeOK
    <3>3. OneActive'
      BY <3>2 DEF Control, OneActive
    <3>4. StartingOwnsFlag'
      BY <2>2 DEF StartingOwnsFlag
    <3>5. HeaderIsOwn'
      BY <2>2, <3>2 DEF Control, HeaderIsOwn
    <3> QED
      BY <3>3, <3>4, <3>5
  <2> QED
    BY <1>8, <2>1, <2>2 DEF CmdPlayer, TaskError
<1>9. ASSUME NEW s \in Slots, RecStep(s) PROVE Control'
  <2>1. UNCHANGED <<cmdVars, ply>>
    BY <1>9, RecStepShape DEF plyVars
  <2>2. \A t \in Slots : rec[t] = "none" => rec'[t] = "none"
    BY <1>9, RecStepShape
  <2> QED
    BY <2>1, <2>2, ControlFrame
<1>10. ASSUME NEW s \in Slots, PlyStep(s) PROVE Control'
  <2>1. UNCHANGED <<cmdVars, rec>>
    BY <1>10, PlyStepShape DEF recVars
  <2>2. \A t \in Slots : ply[t] = "none" => ply'[t] = "none"
    BY <1>10, PlyStepShape
  <2> QED
    BY <2>1, <2>2, ControlFrame
<1>11. CASE UNCHANGED vars
  <2>1. UNCHANGED <<cmdVars, rec, ply>>
    BY <1>11 DEF vars, recVars, plyVars
  <2> QED
    BY <2>1, ControlFrame
<1> QED
  BY <1>1, <1>2, <1>3, <1>4, <1>5, <1>6, <1>7, <1>8, <1>9, <1>10, <1>11 DEF Next, CmdStep

-----------------------------------------------------------------------------
(* Layer 2: the driver.                                                     *)

\* A player of a patient host is the only one, and no test is being started.
LEMMA LonePlayer ==
  ASSUME ~Overlap, Control, NEW s \in Slots, ply[s] # "none"
  PROVE  /\ cpc = "idle"
         /\ \A t \in Slots : t # s => ply[t] = "none"
         /\ ~Busy(s)
<1>1. Active(s)
  BY DEF Active, Running
<1>2. cpc = "idle"
  <2>1. cpc # "idle" => Active(cslot) /\ cslot \in Slots /\ ply[cslot] = "none"
    BY DEF Control, StartingOwnsFlag, Active
  <2> QED
    BY <1>1, <2>1 DEF Control, OneActive
<1>3. \A t \in Slots : t # s => ply[t] = "none"
  BY <1>1 DEF Control, OneActive, Active, Running
<1> QED
  BY <1>2, <1>3 DEF Busy

\* While a test is being started for a patient host no player exists.
LEMMA NoPlayerYet ==
  ASSUME ~Overlap, Control, cpc # "idle"
  PROVE  cslot \in Slots /\ \A t \in Slots : ply[t] = "none"
<1>1. cslot \in Slots /\ ply[cslot] = "none" /\ Active(cslot)
  BY DEF Control, StartingOwnsFlag, Active
<1> QED
  BY <1>1 DEF Control, OneActive, Active, Running

\* A step that touches neither the driver, the players nor the flags, and does
\* not advance the loading, keeps Driver.
LEMMA DriverFrame ==
  ASSUME Driver, UNCHANGED <<dacVars, ply, testing, dropped>>, cpc' = cpc \/ cpc' = "idle"
  PROVE  Driver'
<1> SUFFICES ASSUME ~Overlap PROVE Driver'
  BY DEF Driver
<1>1. LoadingOrder'
  BY DEF Driver, LoadingOrder, dacVars
<1>2. UnloadingOrder'
  BY DEF Driver, UnloadingOrder, dacVars
<1>3. NothingDangles' /\ LoadedHasOwner'
  BY DEF Driver, NothingDangles, LoadedHasOwner, DacUnloaded, dacVars
<1> QED
  BY <1>1, <1>2, <1>3 DEF Driver, dacVars

\* Starting goes on: no player exists, so only the order of loading matters.
LEMMA DriverLoading ==
  ASSUME TypeOK, Control, Driver, cpc # "idle",
         UNCHANGED <<ply, testing, dropped, health, cslot, kase>>,
         ~Overlap => LoadingOrder',
         output_buf_16' \in {output_buf_16, "live"}, output_buf_32' \in {output_buf_32, "live"}
  PROVE  Driver'
<1> SUFFICES ASSUME ~Overlap PROVE Driver'
  BY DEF Driver
<1>1. \A t \in Slots : ply'[t] = "none" /\ ply[t] = "none"
  BY NoPlayerYet
<1>2. UnloadingOrder'
  BY <1>1 DEF UnloadingOrder, UsesBuf16, UsesBuf32, AfterBuf16
<1>3. NothingDangles'
  BY <1>1 DEF Driver, NothingDangles
<1>4. LoadedHasOwner'
  <2>1. testing[FileOf(kase[cslot])] = 1 /\ FileOf(kase[cslot]) \in Files
    BY DEF Control, StartingOwnsFlag, FileOf, Files
  <2> QED
    BY <2>1 DEF LoadedHasOwner
<1> QED
  BY <1>2, <1>3, <1>4 DEF Driver

\* One step of duer_audio_dac_load_driver keeps Driver.
LEMMA DriverLoad ==
  ASSUME TypeOK, Control, Driver, NEW call, NEW from \in {"i2s", "codec", "buf16", "buf32"},
         NEW to \in {"codec", "buf16", "buf32", "recorder"}, NEW ACTION Load,
         LoadStep(call, from, to, Load),
         (~Overlap /\ Load /\ cpc' = to) =>
            /\ LoadingOrder'
            /\ health' = health
            /\ output_buf_16' \in {output_buf_16, "live"}
            /\ output_buf_32' \in {output_buf_32, "live"}
  PROVE  Driver'
<1> SUFFICES ASSUME ~Overlap PROVE Driver'
  BY DEF Driver
<1>1. cpc # "idle" /\ UNCHANGED <<ply, cslot, kase, testing, dropped>>
  BY DEF LoadStep, CmdAt, LoadError, Goto, plyVars, hisVars
<1>2. CASE Load /\ Goto(to)
  BY <1>1, <1>2, DriverLoading DEF Goto
<1>3. CASE LoadFails(call) /\ LoadError
  BY <1>1, <1>3, DriverFrame DEF LoadFails, LoadError, Goto
<1> QED
  BY <1>2, <1>3 DEF LoadStep

\* A step of the only player: the driver must fit where it goes.
LEMMA DriverPlayer ==
  ASSUME TypeOK, Control, Driver, ~Overlap, NEW s \in Slots, ply[s] # "none",
         NEW pc \in PlyPcs, ply' = [ply EXCEPT ![s] = pc],
         UNCHANGED <<cmdVars, dropped>>, health' = "ok",
         pc # "none" => i2s',
         pc \in UsesBuf16 => output_buf_16' = "live",
         output_buf_16' = "freed" <=> pc = "null16",
         pc \in AfterBuf16 => output_buf_16' = "null",
         pc \in UsesBuf32 => output_buf_32' = "live",
         output_buf_32' = "freed" <=> pc = "null32",
         pc = "uninstall" => output_buf_32' = "null",
         pc = "none" => DacUnloaded'
  PROVE  Driver'
<1>1. cpc' = "idle" /\ (\A t \in Slots : t # s => ply'[t] = "none") /\ ply'[s] = pc
  BY LonePlayer DEF cmdVars, TypeOK, PlyTypeOK
<1>2. LoadingOrder'
  BY <1>1 DEF LoadingOrder
<1>3. UnloadingOrder'
  BY <1>1 DEF UnloadingOrder, UsesBuf16, UsesBuf32, AfterBuf16
<1>4. NothingDangles'
  BY <1>1 DEF NothingDangles
<1>5. LoadedHasOwner'
  BY <1>1 DEF LoadedHasOwner
<1> QED
  BY <1>2, <1>3, <1>4, <1>5 DEF Driver

\* Driver holds in the initial state.
LEMMA DriverInit == Init => Driver
<1> USE DEF Init, DacInit
<1>1. Init => LoadingOrder /\ LoadedHasOwner /\ NothingDangles
  BY DEF LoadingOrder, LoadedHasOwner, NothingDangles, DacUnloaded
<1>2. Init => UnloadingOrder
  BY DEF UnloadingOrder, UsesBuf16, UsesBuf32, AfterBuf16
<1> QED
  BY <1>1, <1>2 DEF Driver

\* Every step of the only player keeps Driver.
LEMMA DriverPlyStep ==
  ASSUME TypeOK, Control, Driver, NEW s \in Slots, PlyStep(s)
  PROVE  Driver'
<1> SUFFICES ASSUME ~Overlap PROVE Driver'
  BY DEF Driver
<1> USE DEF KeepOthers, PlyPcs, hisVars, dacVars
<1>1. health = "ok" /\ ply[s] # "none" /\ ~Busy(s) /\ i2s /\ ~dropped[s] /\ UNCHANGED cmdVars
  BY PlyStepShape, LonePlayer DEF Driver, UnloadingOrder
<1>2. /\ ply[s] \in UsesBuf16 => output_buf_16 = "live"
      /\ ply[s] = "null16" => output_buf_16 = "freed"
      /\ ply[s] \in AfterBuf16 => output_buf_16 = "null"
      /\ ply[s] \in UsesBuf32 => output_buf_32 = "live"
      /\ ply[s] = "null32" => output_buf_32 = "freed"
      /\ ply[s] = "uninstall" => output_buf_32 = "null"
  BY DEF Driver, UnloadingOrder
<1> USE <1>1, <1>2 DEF UsesBuf16, UsesBuf32, AfterBuf16
<1>3. CASE PlyStart(s)
  BY <1>3, DriverPlayer DEF PlyStart, PlyAt, PlyGoto
<1>4. CASE PlyCheck(s)
  BY <1>4, DriverPlayer DEF PlyCheck, PlyAt, PlyGoto, WriteHasBuffers
<1>5. CASE PlyUse(s)
  <2>1. UNCHANGED <<output_buf_16, output_buf_32, i2s, dropped>> /\ health' = "ok"
    BY <1>5 DEF PlyUse, PlyAt, UseBuffers
  <2>2. \E pc \in {"wait", "check"} : PlyGoto(s, pc)
    BY <1>5 DEF PlyUse, PlayedOn
  <2>3. ply[s] = "use"
    BY <1>5 DEF PlyUse, PlyAt
  <2> QED
    BY <2>1, <2>2, <2>3, DriverPlayer DEF PlyGoto
<1>6. CASE PlyWait(s)
  BY <1>6, DriverPlayer DEF PlyWait, PlyAt, PlyGoto, DrainI2s
<1>7. CASE PlyTest16(s)
  BY <1>7, DriverPlayer DEF PlyTest16, PlyAt, PlyGoto
<1>8. CASE PlyFree16(s)
  BY <1>8, DriverPlayer DEF PlyFree16, UnloadStep, PlyAt, PlyGoto, FreeBuf16, FreeOutcome, Released
<1>9. CASE PlyNull16(s)
  BY <1>9, DriverPlayer DEF PlyNull16, UnloadStep, PlyAt, PlyGoto, NullBuf16
<1>10. CASE PlyTest32(s)
  BY <1>10, DriverPlayer DEF PlyTest32, PlyAt, PlyGoto
<1>11. CASE PlyFree32(s)
  BY <1>11, DriverPlayer DEF PlyFree32, UnloadStep, PlyAt, PlyGoto, FreeBuf32, FreeOutcome, Released
<1>12. CASE PlyNull32(s)
  BY <1>12, DriverPlayer DEF PlyNull32, UnloadStep, PlyAt, PlyGoto, NullBuf32
<1>13. CASE PlyUninstall(s)
  BY <1>13, DriverPlayer DEF PlyUninstall, PlyAt, PlyGoto, UninstallI2s, DacUnloaded
<1> QED
  BY <1>3, <1>4, <1>5, <1>6, <1>7, <1>8, <1>9, <1>10, <1>11, <1>12, <1>13, PlyStep(s) DEF PlyStep

\* Every step keeps Driver.
LEMMA DriverStep == TypeOK /\ Control /\ Driver /\ [Next]_vars => Driver'
<1> SUFFICES ASSUME TypeOK, Control, Driver, [Next]_vars PROVE Driver'
  OBVIOUS
<1>1. ASSUME NEW c \in Cases, Refuse(c) PROVE Driver'
  BY <1>1, DriverFrame DEF Refuse, plyVars, hisVars
<1>2. ASSUME NEW c \in Cases, NEW s \in Slots, Begin(c, s) PROVE Driver'
  <2> SUFFICES ASSUME ~Overlap PROVE Driver'
    BY DEF Driver
  <2>1. cpc' = "i2s" /\ UNCHANGED <<dacVars, ply>> /\ \A t \in Slots : ply[t] = "none"
    BY <1>2 DEF Begin, HostSends, Running, plyVars
  <2>2. LoadingOrder'
    BY <2>1 DEF LoadingOrder
  <2>3. UnloadingOrder' /\ NothingDangles'
    BY <2>1 DEF Driver, UnloadingOrder, NothingDangles, dacVars
  <2>4. LoadedHasOwner'
    BY <1>2 DEF Begin, LoadedHasOwner, TypeOK, CmdTypeOK, FileOf, Files
  <2>5. health' = "ok" /\ \A t \in Slots : ~dropped'[t]
    BY <1>2, <2>1 DEF Begin, Driver, dacVars, TypeOK, HisTypeOK
  <2> QED
    BY <2>2, <2>3, <2>4, <2>5 DEF Driver
<1>3. CASE CmdI2s
  <2>1. InstallI2s /\ cpc' = "codec" =>
           LoadingOrder' /\ UNCHANGED <<health, output_buf_16, output_buf_32>>
    BY DEF InstallI2s, LoadingOrder
  <2> QED
    BY <1>3, <2>1, DriverLoad DEF CmdI2s
<1>4. CASE CmdCodec
  <2>1. UNCHANGED dacVars /\ cpc = "codec" /\ cpc' = "buf16" /\ ~Overlap =>
           LoadingOrder' /\ UNCHANGED <<health, output_buf_16, output_buf_32>>
    BY DEF Driver, LoadingOrder, dacVars
  <2>2. cpc = "codec"
    BY <1>4 DEF CmdCodec, LoadStep, CmdAt
  <2> QED
    BY <1>4, <2>1, <2>2, DriverLoad DEF CmdCodec
<1>5. CASE CmdBuf16
  <2>1. cpc = "buf16"
    BY <1>5 DEF CmdBuf16, LoadStep, CmdAt
  <2>2. ~Overlap => output_buf_16 # "freed"
    BY <2>1, NoPlayerYet DEF Driver, NothingDangles
  <2>3. LoadBuf16 /\ cpc' = "buf32" /\ ~Overlap =>
           LoadingOrder' /\ output_buf_16' = "live" /\ UNCHANGED <<health, output_buf_32>>
    BY <2>1, <2>2 DEF LoadBuf16, Allocated, Driver, LoadingOrder, TypeOK, DacTypeOK, BufState
  <2> QED
    BY <1>5, <2>3, DriverLoad DEF CmdBuf16
<1>6. CASE CmdBuf32
  <2>1. cpc = "buf32"
    BY <1>6 DEF CmdBuf32, LoadStep, CmdAt
  <2>2. ~Overlap => output_buf_32 # "freed"
    BY <2>1, NoPlayerYet DEF Driver, NothingDangles
  <2>3. LoadBuf32 /\ cpc' = "recorder" /\ ~Overlap =>
           LoadingOrder' /\ output_buf_32' = "live" /\ UNCHANGED <<health, output_buf_16>>
    BY <2>1, <2>2 DEF LoadBuf32, Allocated, Driver, LoadingOrder, TypeOK, DacTypeOK, BufState
  <2> QED
    BY <1>6, <2>3, DriverLoad DEF CmdBuf32
<1>7. CASE CmdRecorder
  <2>1. /\ cpc = "recorder" /\ cpc' \in {"player", "idle"}
        /\ UNCHANGED <<dacVars, ply, testing, dropped, cslot, kase>>
    BY <1>7 DEF CmdRecorder, CmdAt, TaskError, Goto, plyVars, hisVars
  <2>2. ~Overlap => LoadingOrder'
    BY <2>1 DEF Driver, LoadingOrder, dacVars
  <2> QED
    BY <2>1, <2>2, DriverLoading DEF dacVars
<1>8. CASE CmdPlayer
  <2>1. CASE UNCHANGED ply /\ Goto("idle")
    <3>1. UNCHANGED <<dacVars, ply, testing, dropped>> /\ cpc' = "idle"
      BY <1>8, <2>1 DEF CmdPlayer, TaskError, Goto, hisVars
    <3> QED
      BY <3>1, DriverFrame
  <2>2. CASE cpc' = "idle" /\ ply' = [ply EXCEPT ![cslot] = "ready"]
             /\ UNCHANGED <<cslot, testcase_header, kase, hisVars>>
    <3> SUFFICES ASSUME ~Overlap PROVE Driver'
      BY DEF Driver
    <3>1. cpc = "player" /\ UNCHANGED <<dacVars, dropped>>
      BY <1>8, <2>2 DEF CmdPlayer, CmdAt, hisVars
    <3>2. cslot \in Slots /\ \A t \in Slots : ply[t] = "none"
      BY <3>1, NoPlayerYet
    <3>3. ply'[cslot] = "ready" /\ \A t \in Slots : t # cslot => ply'[t] = "none"
      BY <2>2, <3>2 DEF TypeOK, PlyTypeOK
    <3>4. output_buf_16 = "live" /\ output_buf_32 = "live" /\ i2s
      BY <3>1 DEF Driver, LoadingOrder
    <3>5. UnloadingOrder'
      BY <3>1, <3>3, <3>4 DEF UnloadingOrder, UsesBuf16, UsesBuf32, AfterBuf16, dacVars
    <3>6. LoadingOrder' /\ NothingDangles' /\ LoadedHasOwner'
      BY <2>2, <3>1, <3>2, <3>3, <3>4 DEF LoadingOrder, NothingDangles, LoadedHasOwner, dacVars
    <3> QED
      BY <3>1, <3>5, <3>6 DEF Driver, dacVars
  <2> QED
    BY <1>8, <2>1, <2>2 DEF CmdPlayer, TaskError
<1>9. ASSUME NEW s \in Slots, RecStep(s) PROVE Driver'
  <2>1. UNCHANGED <<dacVars, ply, testing, dropped, cpc>>
    BY <1>9, RecStepShape DEF cmdVars, plyVars
  <2> QED
    BY <2>1, DriverFrame
<1>10. ASSUME NEW s \in Slots, PlyStep(s) PROVE Driver'
  BY <1>10, DriverPlyStep
<1>11. CASE UNCHANGED vars
  BY <1>11, DriverFrame DEF vars, cmdVars, plyVars, hisVars
<1> QED
  BY <1>1, <1>2, <1>3, <1>4, <1>5, <1>6, <1>7, <1>8, <1>9, <1>10, <1>11 DEF Next, CmdStep

-----------------------------------------------------------------------------
(* Layer 3: the dump.                                                       *)

\* An active test prints its own header when the host is patient (HeaderNow).
LEMMA HeaderNowOwn ==
  ASSUME ~Overlap, Control, NEW s \in Slots, Active(s)
  PROVE  HeaderNow(s) = kase[s]
BY DEF Control, HeaderIsOwn, HeaderNow

\* A reply of an active test carries its own header (Tell).
LEMMA TellOwn ==
  ASSUME TypeOK, ~Overlap, Control, NEW s \in Slots, Active(s), NEW what, Tell(s, what),
         UNCHANGED kase, OwnReplies(s)
  PROVE  OwnReplies(s)' /\ \A t \in Slots : t # s => told'[t] = told[t]
<1>1. told'[s] = told[s] \cup {<<kase[s], what>>}
  BY HeaderNowOwn DEF Tell, TypeOK, HisTypeOK
<1>2. OwnReplies(s)'
  BY <1>1 DEF OwnReplies
<1> QED
  BY <1>2 DEF Tell, TypeOK, HisTypeOK

\* A slot that a step does not touch keeps its part of Dump.
LEMMA DumpFrame ==
  ASSUME NEW t \in Slots, DumpOf(t), rec'[t] = rec[t], handle'[t] = handle[t],
         label'[t] = label[t], idx'[t] = idx[t], sent'[t] = sent[t],
         frames'[t] = frames[t], OwnReplies(t)', kase'[t] = kase[t],
         g_idx' = g_idx \/ ~Dumping(t),
         BeforeDump(t)' => BeforeDump(t)
  PROVE  DumpOf(t)'
<1>1. LocalsFit(t)'
  BY DEF DumpOf, LocalsFit, Dumping, DumpDone
<1>2. Dumping(t)' => FramesSoFar(t)'
  BY DEF DumpOf, Dumping, FramesSoFar, FrameBytes
<1>3. SlotNumbered(t)'
  BY DEF DumpOf, SlotNumbered
<1> QED
  BY <1>1, <1>2, <1>3 DEF DumpOf

\* A step that leaves the recorders alone keeps Dump, when the replies stay
\* under their own headers and no test is begun.
LEMMA DumpCmd ==
  ASSUME Dump, UNCHANGED <<recVars, frames, kase>>, cpc' # cpc => cpc' \in {"idle", "player"} \/ cpc \notin {"idle", "player"},
         UNCHANGED cslot,
         ~Overlap => \A t \in Slots : OwnReplies(t)'
  PROVE  Dump'
<1> SUFFICES ASSUME ~Overlap PROVE Dump'
  BY DEF Dump
<1>1. NotDumping'
  BY DEF Dump, NotDumping, Dumping, recVars
<1>2. ASSUME NEW t \in Slots PROVE DumpOf(t)'
  <2>1. BeforeDump(t)' => BeforeDump(t)
    BY DEF BeforeDump, recVars
  <2> QED
    BY <2>1, DumpFrame DEF Dump, recVars
<1> QED
  BY <1>1, <1>2 DEF Dump

\* A step of the command task that may report an error keeps Dump.
LEMMA DumpTell ==
  ASSUME TypeOK, Control, Dump, cpc # "idle", UNCHANGED <<recVars, frames, kase, cslot>>,
         cpc' # cpc => cpc' \in {"idle", "player"} \/ cpc \notin {"idle", "player"},
         UNCHANGED told \/ \E what \in Replies : Tell(cslot, what)
  PROVE  Dump'
<1>1. ASSUME ~Overlap, NEW t \in Slots PROVE OwnReplies(t)'
  <2>1. OwnReplies(t) /\ OwnReplies(cslot) /\ cslot \in Slots /\ Active(cslot)
    BY <1>1 DEF Dump, DumpOf, Control, StartingOwnsFlag, Active
  <2>2. CASE UNCHANGED told
    BY <2>1, <2>2 DEF OwnReplies
  <2>3. ASSUME NEW what \in Replies, Tell(cslot, what) PROVE OwnReplies(t)'
    BY <1>1, <2>1, <2>3, TellOwn DEF OwnReplies
  <2> QED
    BY <2>2, <2>3
<1> QED
  BY <1>1, DumpCmd

\* One step of duer_audio_dac_load_driver keeps Dump.
LEMMA DumpLoad ==
  ASSUME TypeOK, Control, Dump, NEW call, NEW from \in {"i2s", "codec", "buf16", "buf32"},
         NEW to \in {"codec", "buf16", "buf32", "recorder"}, NEW ACTION Load,
         LoadStep(call, from, to, Load)
  PROVE  Dump'
<1>1. cpc = from /\ UNCHANGED <<recVars, frames, kase, cslot>>
  BY DEF LoadStep, CmdAt, LoadError, Goto, hisVars
<1>2. UNCHANGED told \/ \E what \in Replies : Tell(cslot, what)
  BY DEF LoadStep, LoadError, hisVars, Replies
<1> QED
  BY <1>1, <1>2, DumpTell

\* Of a patient host's recorders only one exists, and while it does no other
\* test is being started.
LEMMA LoneRecorder ==
  ASSUME ~Overlap, Control, NEW s \in Slots, rec[s] # "none"
  PROVE  /\ Active(s)
         /\ \A t \in Slots : t # s => rec[t] = "none" /\ ~Active(t)
         /\ cpc \notin {"idle", "player"} => FALSE
<1>1. Active(s)
  BY DEF Active, Running
<1>2. \A t \in Slots : t # s => ~Active(t)
  BY <1>1 DEF Control, OneActive
<1>3. cpc \notin {"idle", "player"} => FALSE
  <2>1. cpc # "idle" => Active(cslot) /\ cslot \in Slots
    BY DEF Control, StartingOwnsFlag, Active
  <2> QED
    BY <1>1, <2>1 DEF Control, OneActive, StartingOwnsFlag
<1> QED
  BY <1>1, <1>2, <1>3 DEF Active, Running

\* A printed frame has a number (HisTypeOK).
LEMMA FrameType ==
  ASSUME HisTypeOK, NEW s \in Slots
  PROVE  /\ Len(frames[s]) \in Nat
         /\ \A i \in 1..Len(frames[s]) : frames[s][i].idx \in Nat
<1> DEFINE R == [hdr : Headers, idx : Nat, at : Nat]
<1>1. frames[s] \in Seq(R)
  BY DEF HisTypeOK
<1>2. Len(frames[s]) \in Nat /\ \A i \in 1..Len(frames[s]) : frames[s][i] \in R
  <2> HIDE DEF R
  <2> QED
    BY <1>1
<1> QED
  BY <1>2

\* One more frame adds its bytes (sent against the number of frames).
LEMMA OneMoreFrame == \A n, b \in Nat : (n + 1) * b = n * b + b
OBVIOUS

\* The dump starts, goes on and ends in order: a step of the only recorder
\* keeps its own part of Dump and the meaning of g_idx.
LEMMA DumpOwnStep ==
  ASSUME TypeOK, Control, Dump, ~Overlap, NEW s \in Slots, RecStep(s)
  PROVE  DumpOf(s)' /\ NotDumping' /\ (g_idx' = g_idx \/ Dumping(s))
<1> USE DEF TypeOK, RecTypeOK, HisTypeOK
<1>1. /\ UNCHANGED <<cmdVars, plyVars, dacVars, dropped>> /\ rec[s] # "none"
      /\ \A t \in Slots : t # s => rec'[t] = rec[t] /\ rec[t] = "none"
  BY RecStepShape, LoneRecorder
<1>2. HeaderNow(s) = kase[s] /\ Active(s)
  BY <1>1, LoneRecorder, HeaderNowOwn
<1>3. UNCHANGED <<kase, cpc, cslot>> /\ cpc \in {"idle", "player"}
  BY <1>1, LoneRecorder DEF cmdVars
<1>4. DumpOf(s) /\ NotDumping
  BY DEF Dump
<1>5. OwnReplies(s)'
  <2>1. UNCHANGED told \/ \E what \in Replies : Tell(s, what)
    BY DEF RecStep, RecOpen, RecAlloc, RecRead, RecClose, RecIndex, RecEmit, RecEnd, Replies, hisVars
  <2> QED
    BY <1>2, <1>3, <1>4, <2>1, TellOwn DEF DumpOf, OwnReplies
<1>6. CASE RecExit(s) /\ UNCHANGED <<handle, g_idx, frames>> /\ rec[s] = "open"
  BY <1>1, <1>3, <1>4, <1>5, <1>6
  DEF RecExit, DumpOf, LocalsFit, BeforeDump, Dumping, NotDumping, SlotNumbered
<1>7. CASE RecExit(s) /\ UNCHANGED <<handle, g_idx, frames>> /\ "malloc" \in Faults /\ rec[s] = "alloc"
  BY <1>1, <1>3, <1>4, <1>5, <1>7
  DEF RecExit, DumpOf, LocalsFit, BeforeDump, Dumping, NotDumping, SlotNumbered
<1>8. ASSUME NEW pc \in {"alloc", "read", "close"}, RecGoto(s, pc), UNCHANGED <<g_idx, frames>>,
             rec[s] \in {"open", "alloc", "read"}
      PROVE  DumpOf(s)' /\ NotDumping' /\ g_idx' = g_idx
  BY <1>1, <1>3, <1>4, <1>5, <1>8
  DEF RecGoto, DumpOf, LocalsFit, BeforeDump, Dumping, NotDumping, SlotNumbered
<1>9. CASE RecClose(s)
  <2>1. g_idx = 0 /\ g_idx' = 0
    BY <1>1, <1>4, <1>9 DEF RecClose, RecAt, NotDumping, Dumping
  <2>2. frames'[s] = <<>> /\ sent'[s] = 0
    BY <1>4, <1>9 DEF RecClose, RecAt, DumpOf, BeforeDump, LocalsFit, Dumping, hisVars
  <2>3. rec'[s] = "index" /\ label'[s] = kase'[s] /\ ~handle'[s]
    BY <1>2, <1>3, <1>9 DEF RecClose
  <2>4. FramesSoFar(s)' /\ SlotNumbered(s)'
    BY <2>1, <2>2, RecordAssumption DEF FramesSoFar, SlotNumbered, FrameBytes
  <2> QED
    BY <1>3, <1>5, <2>1, <2>3, <2>4 DEF DumpOf, LocalsFit, BeforeDump, Dumping, NotDumping
<1>10. CASE RecIndex(s)
  <2>1. /\ rec[s] = "index" /\ rec'[s] = "emit" /\ idx'[s] = g_idx
        /\ UNCHANGED <<g_idx, label, sent, frames, handle>>
    BY <1>10 DEF RecIndex, RecAt, hisVars
  <2>2. FramesSoFar(s)' /\ SlotNumbered(s)'
    BY <1>3, <1>4, <2>1 DEF DumpOf, Dumping, FramesSoFar, SlotNumbered, FrameBytes
  <2> QED
    BY <1>3, <1>4, <1>5, <2>1, <2>2 DEF DumpOf, LocalsFit, BeforeDump, Dumping, NotDumping
<1>11. CASE RecEmit(s)
  <2>1. /\ rec[s] = "emit" /\ rec'[s] \in {"end", "index"} /\ g_idx' = g_idx + 1
        /\ rec'[s] = "end" => DumpDone(sent'[s])
        /\ sent'[s] = sent[s] + FrameBytes /\ UNCHANGED <<label, handle>>
    BY <1>4, <1>11 DEF RecEmit, RecAt, NextIndex, DumpOf, LocalsFit, DumpDone
  <2>2. /\ FramesSoFar(s) /\ SlotNumbered(s) /\ label[s] = kase[s] /\ idx[s] = g_idx
        /\ "malloc" \notin Faults => ~handle[s]
    BY <1>4, <2>1 DEF DumpOf, LocalsFit, Dumping
  <2> DEFINE e == [hdr |-> label[s], idx |-> idx[s], at |-> sent[s]]
  <2>3. CASE frames' = [frames EXCEPT ![s] = Append(@, e)]
    <3>1. /\ Len(frames'[s]) = Len(frames[s]) + 1 /\ Len(frames[s]) \in Nat
          /\ \A i \in 1..Len(frames[s]) : frames'[s][i] = frames[s][i]
          /\ frames'[s][Len(frames[s]) + 1] = e
      BY <2>3
    <3>2. e.hdr = kase'[s] /\ e.idx = g_idx /\ e.at = sent[s]
      BY <1>3, <2>2
    <3>3. FrameBytes \in Nat /\ (g_idx + 1) * FrameBytes = g_idx * FrameBytes + FrameBytes
      <4>1. FrameBytes \in Nat
        BY RecordAssumption DEF FrameBytes
      <4> QED
        BY <4>1, OneMoreFrame
    <3>4. \A i \in 1..Len(frames[s]) : frames[s][i].idx \in Nat
      BY FrameType
    <3>5. FramesSoFar(s)'
      <4>1. \A i \in 1..Len(frames'[s]) : frames'[s][i].idx < g_idx'
        <5> SUFFICES ASSUME NEW i \in 1..Len(frames'[s]) PROVE frames'[s][i].idx < g_idx + 1
          BY <2>1
        <5>1. CASE i \in 1..Len(frames[s])
          <6>1. frames'[s][i] = frames[s][i] /\ frames[s][i].idx \in Nat
            BY <3>1, <3>4, <5>1
          <6>2. frames[s][i].idx < g_idx
            BY <2>2, <5>1 DEF FramesSoFar
          <6> QED
            BY <6>1, <6>2
        <5>2. CASE i = Len(frames[s]) + 1
          BY <3>1, <3>2, <5>2
        <5> QED
          BY <3>1, <5>1, <5>2
      <4>2. "frame" \notin Faults => Len(frames'[s]) = g_idx'
        BY <2>1, <2>2, <3>1 DEF FramesSoFar
      <4>3. g_idx' * FrameBytes = sent'[s]
        BY <2>1, <2>2, <3>3 DEF FramesSoFar
      <4> QED
        BY <4>1, <4>2, <4>3 DEF FramesSoFar, FrameBytes
    <3>6. SlotNumbered(s)'
      <4> SUFFICES ASSUME NEW i \in 1..Len(frames'[s])
                   PROVE  /\ frames'[s][i].hdr = kase'[s]
                          /\ frames'[s][i].idx * FrameBytes = frames'[s][i].at
                          /\ i > 1 => frames'[s][i-1].idx < frames'[s][i].idx
                          /\ "frame" \notin Faults => frames'[s][i].idx = i - 1
        BY DEF SlotNumbered, FrameBytes
      <4>1. CASE i \in 1..Len(frames[s])
        <5>1. frames'[s][i] = frames[s][i] /\ (i > 1 => frames'[s][i-1] = frames[s][i-1])
          <6>1. i > 1 => i - 1 \in 1..Len(frames[s])
            BY <3>1, <4>1
          <6> QED
            BY <3>1, <4>1, <6>1
        <5> QED
          BY <1>3, <2>2, <4>1, <5>1 DEF SlotNumbered
      <4>2. CASE i = Len(frames[s]) + 1
        <5>1. frames'[s][i] = e
          BY <3>1, <4>2
        <5>2. i - 1 = Len(frames[s]) /\ (i > 1 => i - 1 \in 1..Len(frames[s]))
          BY <3>1, <4>2
        <5>3. i > 1 => frames'[s][i-1].idx < g_idx
          BY <2>2, <3>1, <5>2 DEF FramesSoFar
        <5> QED
          BY <2>2, <3>2, <5>1, <5>2, <5>3 DEF FramesSoFar
      <4> QED
        BY <3>1, <4>1, <4>2
    <3> QED
      BY <1>3, <1>5, <2>1, <2>2, <3>5, <3>6
      DEF DumpOf, LocalsFit, BeforeDump, Dumping, NotDumping
  <2>4. CASE "frame" \in Faults /\ UNCHANGED frames
    <3>1. \A i \in 1..Len(frames[s]) : frames[s][i].idx \in Nat
      BY FrameType
    <3>2. FramesSoFar(s)'
      <4>1. \A i \in 1..Len(frames[s]) : frames[s][i].idx < g_idx + 1
        BY <2>2, <3>1 DEF FramesSoFar
      <4>2. g_idx' * FrameBytes = sent'[s]
        <5>1. FrameBytes \in Nat
          BY RecordAssumption DEF FrameBytes
        <5>2. (g_idx + 1) * FrameBytes = g_idx * FrameBytes + FrameBytes
          BY <5>1, OneMoreFrame
        <5> QED
          BY <2>1, <2>2, <5>2 DEF FramesSoFar
      <4> QED
        BY <2>1, <2>4, <4>1, <4>2 DEF FramesSoFar, FrameBytes
    <3>3. SlotNumbered(s)'
      BY <1>3, <2>2, <2>4 DEF SlotNumbered, FrameBytes
    <3> QED
      BY <1>3, <1>5, <2>1, <2>2, <3>2, <3>3 DEF DumpOf, LocalsFit, BeforeDump, Dumping, NotDumping
  <2>5. Dumping(s)
    BY <2>1 DEF Dumping
  <2> QED
    BY <1>11, <2>3, <2>4, <2>5 DEF RecEmit
<1>12. CASE RecEnd(s)
  <2>1. /\ rec[s] = "end" /\ rec'[s] = "none" /\ g_idx' = 0 /\ sent'[s] = 0
        /\ UNCHANGED <<handle, frames>>
    BY <1>12 DEF RecEnd, RecAt, RecExit
  <2> QED
    BY <1>3, <1>4, <1>5, <2>1 DEF DumpOf, LocalsFit, BeforeDump, Dumping, NotDumping, SlotNumbered
<1> QED
  BY <1>6, <1>7, <1>8, <1>9, <1>10, <1>11, <1>12
  DEF RecStep, RecOpen, RecAlloc, RecRead, RecAt

\* Dump holds in the initial state.
LEMMA DumpInit == Init => Dump
BY DEF Init, Dump, NotDumping, Dumping, DumpOf, LocalsFit, BeforeDump, SlotNumbered, OwnReplies

\* Every step keeps Dump.
LEMMA DumpStep == TypeOK /\ Control /\ Dump /\ [Next]_vars => Dump'
<1> SUFFICES ASSUME TypeOK, Control, Dump, [Next]_vars PROVE Dump'
  OBVIOUS
<1>1. ASSUME NEW c \in Cases, Refuse(c) PROVE Dump'
  <2>1. UNCHANGED <<recVars, frames, told, kase, cpc, cslot>>
    BY <1>1 DEF Refuse, hisVars
  <2>2. ~Overlap => \A t \in Slots : OwnReplies(t)'
    BY <2>1 DEF Dump, DumpOf, OwnReplies
  <2> QED
    BY <2>1, <2>2, DumpCmd
<1>2. ASSUME NEW c \in Cases, NEW s \in Slots, Begin(c, s) PROVE Dump'
  <2> SUFFICES ASSUME ~Overlap PROVE Dump'
    BY DEF Dump
  <2>1. UNCHANGED recVars /\ \A t \in Slots : rec[t] = "none" /\ rec'[t] = "none"
    BY <1>2 DEF Begin, HostSends, Running, recVars
  <2>2. cslot' = s
    BY <1>2 DEF Begin
  <2>3. /\ frames'[s] = <<>> /\ told'[s] = {}
        /\ \A t \in Slots : t # s => /\ frames'[t] = frames[t]
                                     /\ told'[t] = told[t]
                                     /\ kase'[t] = kase[t]
    BY <1>2 DEF Begin, TypeOK, CmdTypeOK, HisTypeOK
  <2>4. DumpOf(s)'
    BY <2>1, <2>3 DEF recVars, Dump, DumpOf, LocalsFit, Dumping, SlotNumbered, OwnReplies
  <2>5. ASSUME NEW t \in Slots, t # s PROVE DumpOf(t)'
    <3>1. OwnReplies(t)' /\ ~BeforeDump(t)'
      BY <2>1, <2>2, <2>3, <2>5 DEF Dump, DumpOf, OwnReplies, BeforeDump
    <3> QED
      BY <2>1, <2>3, <2>5, <3>1, DumpFrame DEF Dump, recVars
  <2>6. NotDumping'
    BY <2>1 DEF Dump, NotDumping, Dumping, recVars
  <2> QED
    BY <2>4, <2>5, <2>6 DEF Dump
<1>3. CASE CmdI2s
  BY <1>3, DumpLoad DEF CmdI2s
<1>4. CASE CmdCodec
  BY <1>4, DumpLoad DEF CmdCodec
<1>5. CASE CmdBuf16
  BY <1>5, DumpLoad DEF CmdBuf16
<1>6. CASE CmdBuf32
  BY <1>6, DumpLoad DEF CmdBuf32
<1>7. CASE CmdRecorder
  <2>1. cpc = "recorder" /\ UNCHANGED <<frames, kase, cslot, handle, got, label, idx, sent, g_idx>>
    BY <1>7 DEF CmdRecorder, CmdAt, TaskError, Goto, hisVars
  <2>2. CASE TaskError("recorder_task", "recorder_task") /\ UNCHANGED rec
    BY <2>1, <2>2, DumpTell DEF TaskError, Goto, Replies, recVars
  <2>3. CASE rec' = [rec EXCEPT ![cslot] = "open"] /\ Goto("player") /\ UNCHANGED hisVars
    <3> SUFFICES ASSUME ~Overlap PROVE Dump'
      BY DEF Dump
    <3>1. cslot \in Slots /\ rec[cslot] = "none"
      BY <2>1 DEF Control, StartingOwnsFlag
    <3>2. rec'[cslot] = "open" /\ \A t \in Slots : t # cslot => rec'[t] = rec[t]
      BY <2>3, <3>1 DEF TypeOK, RecTypeOK
    <3>3. \A t \in Slots : OwnReplies(t)'
      BY <2>1, <2>3 DEF Dump, DumpOf, OwnReplies, hisVars
    <3>4. ASSUME NEW t \in Slots, t = cslot PROVE DumpOf(t)'
      <4>1. DumpOf(cslot) /\ BeforeDump(cslot)
        BY <2>1, <3>1 DEF Dump, BeforeDump
      <4> QED
        BY <2>1, <3>1, <3>2, <3>3, <3>4, <4>1
        DEF DumpOf, LocalsFit, Dumping, SlotNumbered
    <3>5. ASSUME NEW t \in Slots, t # cslot PROVE DumpOf(t)'
      <4>1. BeforeDump(t)' => BeforeDump(t)
        BY <2>1, <3>2, <3>5 DEF BeforeDump
      <4> QED
        BY <2>1, <3>2, <3>3, <3>5, <4>1, DumpFrame DEF Dump
    <3>6. NotDumping'
      BY <2>1, <3>1, <3>2 DEF Dump, NotDumping, Dumping
    <3> QED
      BY <3>4, <3>5, <3>6 DEF Dump
  <2> QED
    BY <1>7, <2>2, <2>3 DEF CmdRecorder
<1>8. CASE CmdPlayer
  <2>1. cpc = "player" /\ cpc' = "idle" /\ UNCHANGED <<recVars, frames, kase, cslot>>
    BY <1>8 DEF CmdPlayer, CmdAt, TaskError, Goto, hisVars
  <2>2. UNCHANGED told \/ \E what \in Replies : Tell(cslot, what)
    BY <1>8 DEF CmdPlayer, TaskError, hisVars, Replies
  <2> QED
    BY <2>1, <2>2, DumpTell
<1>9. ASSUME NEW s \in Slots, RecStep(s) PROVE Dump'
  <2> SUFFICES ASSUME ~Overlap PROVE Dump'
    BY DEF Dump
  <2>1. DumpOf(s)' /\ NotDumping' /\ (g_idx' = g_idx \/ Dumping(s))
    BY <1>9, DumpOwnStep
  <2>2. ASSUME NEW t \in Slots, t # s PROVE DumpOf(t)'
    <3>1. /\ rec[t] = "none"
          /\ rec'[t] = rec[t] /\ handle'[t] = handle[t] /\ label'[t] = label[t]
          /\ idx'[t] = idx[t] /\ sent'[t] = sent[t] /\ frames'[t] = frames[t]
          /\ told'[t] = told[t] /\ UNCHANGED cmdVars
      BY <1>9, <2>2, RecStepShape, LoneRecorder
    <3>2. OwnReplies(t)' /\ (BeforeDump(t)' => BeforeDump(t)) /\ ~Dumping(t)
      BY <3>1 DEF Dump, DumpOf, OwnReplies, BeforeDump, Dumping, cmdVars
    <3> QED
      BY <3>1, <3>2, DumpFrame DEF Dump, cmdVars
  <2> QED
    BY <2>1, <2>2 DEF Dump
<1>10. ASSUME NEW s \in Slots, PlyStep(s) PROVE Dump'
  <2>1. UNCHANGED <<recVars, frames, kase, cpc, cslot>> /\ ply[s] # "none"
        /\ \A t \in Slots : t # s => told'[t] = told[t]
    BY <1>10, PlyStepShape DEF cmdVars
  <2>2. UNCHANGED told \/ \E what \in Replies : Tell(s, what)
    BY <1>10 DEF PlyStep, PlyStart, PlyCheck, PlyUse, PlyWait, PlyTest16, PlyFree16, PlyNull16,
                 PlyTest32, PlyFree32, PlyNull32, PlyUninstall, UnloadStep, hisVars, Replies
  <2>3. Active(s)
    BY <2>1 DEF Active, Running
  <2>4. ASSUME ~Overlap, NEW t \in Slots PROVE OwnReplies(t)'
    <3>1. OwnReplies(t) /\ OwnReplies(s)
      BY <2>4 DEF Dump, DumpOf
    <3> QED
      BY <2>1, <2>2, <2>3, <2>4, <3>1, TellOwn DEF OwnReplies
  <2> QED
    BY <2>1, <2>4, DumpCmd
<1>11. CASE UNCHANGED vars
  <2>1. UNCHANGED <<recVars, frames, told, kase, cpc, cslot>>
    BY <1>11 DEF vars, hisVars, cmdVars
  <2>2. ~Overlap => \A t \in Slots : OwnReplies(t)'
    BY <2>1 DEF Dump, DumpOf, OwnReplies
  <2> QED
    BY <2>1, <2>2, DumpCmd
<1> QED
  BY <1>1, <1>2, <1>3, <1>4, <1>5, <1>6, <1>7, <1>8, <1>9, <1>10, <1>11 DEF Next, CmdStep

-----------------------------------------------------------------------------
(* What a patient host can rely on.                                         *)

\* The inductive invariant of the three layers holds in every state.
THEOREM PatientHostInvariant == Spec => []PatientInv
<1>1. Init => PatientInv
  BY TypeInit, ControlInit, DriverInit, DumpInit DEF PatientInv
<1>2. PatientInv /\ [Next]_vars => PatientInv'
  BY TypeStep, ControlStep, DriverStep, DumpStep DEF PatientInv
<1> QED
  BY <1>1, <1>2, PTL DEF Spec

\* No player of a patient host uses a freed buffer or an uninstalled driver,
\* and none has a chunk dropped, whatever failed before (bds_player.c).
THEOREM DriverOutlives == Spec => []DriverOutlivesPlayer
<1>1. PatientInv => DriverOutlivesPlayer
  BY DEF PatientInv, Driver, DriverOutlivesPlayer
<1> QED
  BY <1>1, PatientHostInvariant, PTL

\* The frames of a patient host's test carry its header and count from 0, for
\* every number of frames (out_print_data, out_print_data_ctl).
THEOREM Numbered == Spec => []FramesNumbered
<1>1. PatientInv => FramesNumbered
  BY DEF PatientInv, Dump, DumpOf, FramesNumbered
<1> QED
  BY <1>1, PatientHostInvariant, PTL

\* Every reply of a patient host's test carries its header, and record_end
\* comes after every whole frame of the buffer (data_out_exec).
THEOREM Replied == Spec => []RepliesTrue
<1>1. PatientInv => RepliesTrue
  BY DEF PatientInv, Dump, DumpOf, OwnReplies, LocalsFit, FramesSoFar, Dumping, RepliesTrue
<1> QED
  BY <1>1, PatientHostInvariant, PTL

\* Between a patient host's tests the counter is 0, the microphone is closed
\* and the driver is unloaded, unless a start failed and left its flag set.
THEOREM ReleasedBetweenTests == Spec => []ReleasedWhenIdle
<1>1. PatientInv => ReleasedWhenIdle
  <2> SUFFICES ASSUME PatientInv, ~Overlap, \A s \in Slots : rec[s] = "none" /\ ply[s] = "none"
               PROVE  /\ g_idx = 0
                      /\ "malloc" \notin Faults => \A s \in Slots : ~handle[s]
                      /\ (\A f \in Files : testing[f] = 0) => DacUnloaded
    BY DEF ReleasedWhenIdle, Running
  <2>1. g_idx = 0
    BY DEF PatientInv, Dump, NotDumping, Dumping
  <2>2. "malloc" \notin Faults => \A s \in Slots : ~handle[s]
    BY DEF PatientInv, Dump, DumpOf, LocalsFit
  <2>3. (\A f \in Files : testing[f] = 0) => DacUnloaded
    BY DEF PatientInv, Driver, LoadedHasOwner
  <2> QED
    BY <2>1, <2>2, <2>3
<1> QED
  BY <1>1, PatientHostInvariant, PTL

-----------------------------------------------------------------------------
(* What holds whatever the host does.                                       *)

\* The slot of a test that is being started has no player yet, and no recorder
\* before its last step, whatever else runs.
Reserved ==
    cpc # "idle" => /\ cslot \in Slots
                    /\ ply[cslot] = "none"
                    /\ cpc # "player" => rec[cslot] = "none"

\* How far the loops have come: WithinBuffers and what it takes to keep it.
Progress(s) ==
    /\ got[s] <= RecSize
    /\ rec[s] = "none" => got[s] = 0
    /\ ply[s] \in {"none", "ready"} => off[s] = 0
    /\ ply[s] \in {"check", "use"} => off[s] <= PcmSize

InBounds == Reserved /\ \A s \in Slots : Progress(s)

\* A step that moves no loop and creates no player keeps InBounds.
LEMMA BoundsFrame ==
  ASSUME InBounds, UNCHANGED <<cslot, got, ply, off>>, cpc' = cpc \/ cpc' = "idle",
         \A t \in Slots : rec'[t] = "none" <=> rec[t] = "none"
  PROVE  InBounds'
<1>1. Reserved'
  BY DEF InBounds, Reserved
<1>2. \A t \in Slots : Progress(t)'
  BY DEF InBounds, Progress
<1> QED
  BY <1>1, <1>2 DEF InBounds

\* A step of the load keeps InBounds.
LEMMA BoundsLoad ==
  ASSUME InBounds, NEW call, NEW from \in {"i2s", "codec", "buf16", "buf32"},
         NEW to \in {"codec", "buf16", "buf32", "recorder"}, NEW ACTION Load,
         LoadStep(call, from, to, Load)
  PROVE  InBounds'
<1>1. cpc = from /\ cpc' \in {"idle", to} /\ UNCHANGED <<cslot, rec, got, ply, off>>
  BY DEF LoadStep, CmdAt, LoadError, Goto, recVars, plyVars
<1>2. Reserved'
  BY <1>1 DEF InBounds, Reserved
<1>3. \A t \in Slots : Progress(t)'
  BY <1>1 DEF InBounds, Progress
<1> QED
  BY <1>2, <1>3 DEF InBounds

\* A step of recorder_exec keeps InBounds: a read only takes place when
\* MiniBuf bytes fit.
LEMMA BoundsRecStep ==
  ASSUME TypeOK, InBounds, NEW s \in Slots, RecStep(s)
  PROVE  InBounds'
<1> USE DEF TypeOK, RecTypeOK
<1>1. /\ UNCHANGED <<cpc, cslot, ply, off>> /\ rec[s] # "none"
      /\ \A t \in Slots : t # s => rec'[t] = rec[t]
  BY RecStepShape DEF cmdVars, plyVars
<1>2. Reserved'
  BY <1>1 DEF InBounds, Reserved
<1>3. got' = got \/ \E n \in Nat : got' = [got EXCEPT ![s] = n]
  <2>1. CASE RecRead(s)
    <3>1. UNCHANGED got \/ \E n \in 1..MiniBuf : got' = [got EXCEPT ![s] = got[s] + n]
      BY <2>1 DEF RecRead
    <3>2. \A n \in 1..MiniBuf : got[s] + n \in Nat
      BY RecordAssumption
    <3> QED
      BY <3>1, <3>2
  <2>2. CASE ~RecRead(s)
    BY <2>2 DEF RecStep, RecOpen, RecAlloc, RecClose, RecIndex, RecEmit, RecEnd, RecExit, RecGoto
  <2> QED
    BY <2>1, <2>2
<1>4. got'[s] <= RecSize
  <2>1. CASE RecRead(s)
    <3>1. UNCHANGED got \/ \E n \in 1..MiniBuf : ~NoRoom(got[s]) /\ got'[s] = got[s] + n
      BY <2>1 DEF RecRead
    <3> QED
      BY <3>1, RecordAssumption DEF NoRoom, InBounds, Progress
  <2>2. CASE ~RecRead(s)
    <3>1. got'[s] = got[s] \/ got'[s] = 0
      BY <2>2 DEF RecStep, RecOpen, RecAlloc, RecClose, RecIndex, RecEmit, RecEnd, RecExit, RecGoto
    <3> QED
      BY <3>1, RecordAssumption DEF InBounds, Progress
  <2> QED
    BY <2>1, <2>2
<1>5. rec'[s] = "none" => got'[s] = 0
  BY <1>1 DEF RecStep, RecOpen, RecAlloc, RecRead, RecClose, RecIndex, RecEmit, RecEnd,
              RecExit, RecGoto
<1>6. \A t \in Slots : Progress(t)'
  <2> SUFFICES ASSUME NEW t \in Slots PROVE Progress(t)'
    OBVIOUS
  <2>1. CASE t = s
    BY <1>1, <1>4, <1>5, <2>1 DEF InBounds, Progress
  <2>2. CASE t # s
    BY <1>1, <1>3, <2>2 DEF InBounds, Progress
  <2> QED
    BY <2>1, <2>2
<1> QED
  BY <1>2, <1>6 DEF InBounds

\* A step of player_exec keeps InBounds: the loop is left once more than
\* PcmSize bytes were played.
LEMMA BoundsPlyStep ==
  ASSUME TypeOK, InBounds, NEW s \in Slots, PlyStep(s)
  PROVE  InBounds'
<1> USE DEF TypeOK, PlyTypeOK
<1>1. /\ UNCHANGED <<cpc, cslot, rec, got>> /\ ply[s] # "none"
      /\ \A t \in Slots : t # s => ply'[t] = ply[t]
  BY PlyStepShape DEF cmdVars, recVars
<1>2. Reserved'
  BY <1>1 DEF InBounds, Reserved
<1>3. CASE PlayedOn(s)
  <2>1. /\ off' = [off EXCEPT ![s] = off[s] + PlayFrame]
        /\ ply'[s] = "check" \/ ply'[s] = "wait"
        /\ ply'[s] = "check" => off[s] + PlayFrame <= PcmSize
    BY <1>3, WavAssumption DEF PlayedOn, PlyGoto
  <2>2. off'[s] = off[s] + PlayFrame /\ \A t \in Slots : t # s => off'[t] = off[t]
    BY <2>1
  <2>3. \A t \in Slots : Progress(t)'
    BY <1>1, <2>1, <2>2 DEF InBounds, Progress
  <2> QED
    BY <1>2, <2>3 DEF InBounds
<1>4. CASE UNCHANGED off /\ ply'[s] \notin {"none", "ready"}
           /\ (ply'[s] \in {"check", "use"} => ply[s] \in {"ready", "check"})
  <2>1. \A t \in Slots : Progress(t)'
    BY <1>1, <1>4, WavAssumption DEF InBounds, Progress
  <2> QED
    BY <1>2, <2>1 DEF InBounds
<1>5. CASE off' = [off EXCEPT ![s] = 0] /\ ply'[s] = "none"
  <2>1. \A t \in Slots : Progress(t)'
    BY <1>1, <1>5 DEF InBounds, Progress
  <2> QED
    BY <1>2, <2>1 DEF InBounds
<1>6. CASE PlyStart(s)
  BY <1>4, <1>6 DEF PlyStart, PlyAt, PlyGoto
<1>7. CASE PlyCheck(s)
  BY <1>3, <1>4, <1>7 DEF PlyCheck, PlyAt, PlyGoto
<1>8. CASE PlyUse(s)
  BY <1>3, <1>4, <1>8 DEF PlyUse, PlyGoto
<1>9. CASE PlyWait(s) \/ PlyTest16(s) \/ PlyTest32(s)
  BY <1>4, <1>9 DEF PlyWait, PlyTest16, PlyTest32, PlyGoto
<1>10. CASE PlyFree16(s) \/ PlyNull16(s) \/ PlyFree32(s) \/ PlyNull32(s)
  BY <1>4, <1>10 DEF PlyFree16, PlyNull16, PlyFree32, PlyNull32, UnloadStep, PlyGoto
<1>11. CASE PlyUninstall(s)
  BY <1>5, <1>11 DEF PlyUninstall, PlyGoto
<1> QED
  BY <1>6, <1>7, <1>8, <1>9, <1>10, <1>11 DEF PlyStep

\* Every step keeps InBounds.
LEMMA BoundsStep == TypeOK /\ InBounds /\ [Next]_vars => InBounds'
<1> SUFFICES ASSUME TypeOK, InBounds, [Next]_vars PROVE InBounds'
  OBVIOUS
<1>1. ASSUME NEW c \in Cases, Refuse(c) PROVE InBounds'
  BY <1>1, BoundsFrame DEF Refuse, recVars, plyVars
<1>2. ASSUME NEW c \in Cases, NEW s \in Slots, Begin(c, s) PROVE InBounds'
  <2>1. UNCHANGED <<rec, got, ply, off>> /\ cslot' = s /\ rec[s] = "none" /\ ply[s] = "none"
    BY <1>2 DEF Begin, Running, recVars, plyVars
  <2>2. Reserved' /\ \A t \in Slots : Progress(t)'
    BY <2>1 DEF Reserved, InBounds, Progress
  <2> QED
    BY <2>2 DEF InBounds
<1>3. CASE CmdI2s
  BY <1>3, BoundsLoad DEF CmdI2s
<1>4. CASE CmdCodec
  BY <1>4, BoundsLoad DEF CmdCodec
<1>5. CASE CmdBuf16
  BY <1>5, BoundsLoad DEF CmdBuf16
<1>6. CASE CmdBuf32
  BY <1>6, BoundsLoad DEF CmdBuf32
<1>7. CASE CmdRecorder
  <2>1. /\ cpc = "recorder" /\ UNCHANGED <<cslot, got, ply, off>>
        /\ cpc' \in {"idle", "player"}
        /\ UNCHANGED rec \/ rec' = [rec EXCEPT ![cslot] = "open"]
    BY <1>7 DEF CmdRecorder, CmdAt, TaskError, Goto, plyVars
  <2>2. Reserved'
    BY <2>1 DEF InBounds, Reserved
  <2>3. \A t \in Slots : Progress(t)'
    BY <2>1 DEF InBounds, Progress, TypeOK, RecTypeOK
  <2> QED
    BY <2>2, <2>3 DEF InBounds
<1>8. CASE CmdPlayer
  <2>1. /\ cpc = "player" /\ cpc' = "idle" /\ UNCHANGED <<rec, got, off>>
        /\ UNCHANGED ply \/ ply' = [ply EXCEPT ![cslot] = "ready"]
    BY <1>8 DEF CmdPlayer, CmdAt, TaskError, Goto, recVars
  <2>2. Reserved'
    BY <2>1 DEF Reserved
  <2>3. \A t \in Slots : Progress(t)'
    BY <2>1 DEF InBounds, Reserved, Progress, TypeOK, PlyTypeOK
  <2> QED
    BY <2>2, <2>3 DEF InBounds
<1>9. ASSUME NEW s \in Slots, RecStep(s) PROVE InBounds'
  BY <1>9, BoundsRecStep
<1>10. ASSUME NEW s \in Slots, PlyStep(s) PROVE InBounds'
  BY <1>10, BoundsPlyStep
<1>11. CASE UNCHANGED vars
  BY <1>11, BoundsFrame DEF vars, cmdVars, recVars, plyVars
<1> QED
  BY <1>1, <1>2, <1>3, <1>4, <1>5, <1>6, <1>7, <1>8, <1>9, <1>10, <1>11 DEF Next, CmdStep

\* The recorder never stores past its buffer and the player never reads past
\* the embedded WAV, for every size that WavAssumption admits and even when
\* tests overlap (recorder_exec, player_exec).
THEOREM BuffersRespected == Spec => []WithinBuffers
<1>1. Init => InBounds
  BY RecordAssumption, WavAssumption DEF Init, InBounds, Reserved, Progress
<1>2. TypeOK /\ InBounds => WithinBuffers
  BY WavAssumption DEF TypeOK, PlyTypeOK, InBounds, Progress, WithinBuffers
<1> QED
  BY <1>1, <1>2, BoundsStep, TypeCorrect, PTL DEF Spec
=============================================================================
