------------------------ MODULE CommandMonitorProofs ------------------------
(***************************************************************************)
(* What CommandMonitor keeps through every interleaving of host, command   *)
(* task and losses of power, for any serial numbers, profiles, buffer and  *)
(* heap sizes, host and set of failing calls.                              *)
(***************************************************************************)
EXTENDS CommandMonitor, TLAPS

\* What a handler relies on between its steps: it goes on only with a legal
\* parameter, and "success" is recorded only for what was stored.
SnUnderWay ==
    /\ cpc \in {"sn_write", "sn_reply"} => cmd.arg \in LegalSns
    /\ cpc = "sn_reply" /\ ret = "success" => nvs = cmd.arg

ProfileUnderWay ==
    /\ cpc \in {"prof_erase", "prof_write"} => cmd.arg \in Profiles /\ packed = None
    /\ cpc = "prof_reply" /\ ret = "success" =>
           cmd.arg \in Profiles /\ flash = cmd.arg

\* Tasks of player_recorder_case.c have a header to print under.
HeaderSet == "player_recorder" \in audio => testcase_header \in Audio

\* The inductive invariant.
MonInv == MonTypeOK /\ HeaderSet /\ SnUnderWay /\ ProfileUnderWay /\ SnKept /\ ProfileKept

-----------------------------------------------------------------------------
(* Types.                                                                  *)

\* A reply adds to what was said only a name and a result.
LEMMA ReplyType ==
    ASSUME NEW name \in Names, NEW result \in Results \cup {"record_end"},
           said \in Reports, Reply(name, result)
    PROVE  said' \in Reports
  BY DEF Reports, Reply

\* The commands that the device runs on its own are commands too.
LEMMA TaskType ==
    /\ Task \in Commands
    /\ Nothing = [name |-> "unknown", arg |-> None]
    /\ \A n \in Simple : n \in Names
    /\ \A n \in Exact : Cmd(n, None) \in Commands
    /\ {"set_sn", "profile"} \subseteq Names
  BY MonitorAssumption DEF Task, Cmd, Commands, Simple, Exact, Nothing, Names

\* A chunk that leaves the buffer, or one that enters it, leaves chunks.
LEMMA ChunkType ==
    ASSUME rx \in Chunks
    PROVE  /\ rx # <<>> => /\ Tail(rx) \in Chunks
                           /\ Head(rx)[1] \in Commands
           /\ \A c \in Commands, e \in {"head", "tail"} :
                  Append(rx, <<c, e>>) \in Chunks
           /\ <<>> \in Chunks
<1> DEFINE Chunk == Commands \X {"head", "tail"}
<1>1. \A x \in Chunk : x[1] \in Commands
  OBVIOUS
<1>2. \A c \in Commands, e \in {"head", "tail"} : <<c, e>> \in Chunk
  OBVIOUS
<1>3. rx \in Seq(Chunk)
  BY DEF Chunks
<1>4. rx # <<>> => Tail(rx) \in Seq(Chunk) /\ Head(rx) \in Chunk
  <2> HIDE DEF Chunk
  <2> QED
    BY <1>3
<1>5. \A x \in Chunk : Append(rx, x) \in Seq(Chunk)
  <2> HIDE DEF Chunk
  <2> QED
    BY <1>3
<1>6. <<>> \in Seq(Chunk)
  <2> HIDE DEF Chunk
  <2> QED
    OBVIOUS
<1> QED
  BY <1>1, <1>2, <1>4, <1>5, <1>6 DEF Chunks

-----------------------------------------------------------------------------
(* Steps that leave the stores alone.                                      *)

\* Where no store is under way.
Calm == /\ cpc \notin {"sn_write", "sn_reply", "prof_erase", "prof_write"}
        /\ cpc = "prof_reply" => ret = "error"

DevType == /\ cpc \in Pcs
           /\ cmd \in Commands \cup {Nothing}
           /\ ret \in Results
           /\ line \in Commands \cup {Nothing}
           /\ heap \in 0..Heap
           /\ health \in {"ok", "halted"}

\* The types of the wire, of what the host remembers and of the running tests.
WireType == /\ rx \in Chunks
            /\ sending \in Commands \cup {Nothing}
            /\ asked \in Commands \cup {Nothing}
            /\ late \subseteq Audio
            /\ audio \subseteq Files
            /\ testcase_header \in Audio \cup {"NULL"}
            /\ HeaderSet

\* A step that ends calm and leaves stores and confirmations alone keeps the
\* invariant, if it keeps the types of what it changes.
LEMMA CalmStep ==
    ASSUME MonInv, Stores, Calm', DevType', said' \in Reports, WireType'
    PROVE  MonInv'
  BY DEF MonInv, MonTypeOK, SnTypeOK, FlashTypeOK, SnUnderWay, ProfileUnderWay,
         SnKept, ProfileKept, Stores, Calm, DevType, WireType

\* The three ways to go on from a step of a handler keep the types.
LEMMA GoOn ==
    ASSUME MonInv
    PROVE  /\ Return => DevType' /\ Calm'
           /\ \A pc \in Pcs : Goto(pc) => DevType' /\ cpc' = pc /\ ret' = ret /\ cmd' = cmd
           /\ \A r \in Results, pc \in Pcs :
                  Record(r, pc) => DevType' /\ cpc' = pc /\ ret' = r /\ cmd' = cmd
           /\ Halt => DevType' /\ cpc' = cpc /\ cmd' = cmd /\ ret' = ret
           /\ Outside => WireType'
           /\ UNCHANGED said => said' \in Reports
  BY DEF MonInv, MonTypeOK, DevType, Return, Goto, Record, Halt, Outside, hostVars,
         taskVars, WireType, HeaderSet, Calm, Pcs, Results

\* Every task that runs has a name to print under, that of an audio test.
LEMMA HeaderNames ==
    ASSUME MonInv
    PROVE  \A f \in audio : HeaderOf(f) \in Audio
  BY DEF MonInv, MonTypeOK, HeaderSet, HeaderOf, Files, Audio

\* The audio tests: their start, and what their tasks print.
LEMMA AudioSteps ==
    ASSUME MonInv, RunAudio \/ \E f \in Files : AudioTask(f)
    PROVE  MonInv'
<1>1. said \in Reports /\ Audio \subseteq Names
      /\ {"error", "record_end"} \subseteq Results \cup {"record_end"}
  BY DEF MonInv, MonTypeOK, Names, Results
<1>2. CASE RunAudio
  <2>1. DevType' /\ Calm' /\ Stores /\ UNCHANGED <<rx, sending, asked, late>>
    BY <1>2, GoOn DEF RunAudio, hostVars
  <2>2. said' \in Reports
    BY <1>1, <1>2, ReplyType DEF RunAudio
  <2>3. /\ cmd.name \in Audio
        /\ testcase_header' = IF cmd.name = "nolinear" THEN testcase_header ELSE cmd.name
        /\ audio' = audio \/ audio' = audio \cup {FileOf(cmd.name)}
    BY <1>2 DEF RunAudio
  <2>4. audio' \subseteq Files /\ testcase_header' \in Audio \cup {"NULL"} /\ HeaderSet'
    BY <2>3 DEF MonInv, MonTypeOK, HeaderSet, FileOf, Files, Audio
  <2>5. WireType'
    BY <2>1, <2>4 DEF WireType, MonInv, MonTypeOK
  <2> QED
    BY <2>1, <2>2, <2>5, CalmStep
<1>3. ASSUME NEW f \in Files, AudioTask(f) PROVE MonInv'
  <2>1. Stores /\ UNCHANGED <<cpc, cmd, ret, line, heap, health, testcase_header, rx, sending, asked, late>>
    BY <1>3 DEF AudioTask, devVars, hostVars
  <2>2. HeaderOf(f) \in Audio
    BY <1>3, HeaderNames DEF AudioTask
  <2>3. said' \in Reports
    BY <1>1, <1>3, <2>2, ReplyType DEF AudioTask
  <2>4. audio' \subseteq audio
    BY <1>3 DEF AudioTask
  <2> QED
    BY <2>1, <2>3, <2>4
    DEF MonInv, MonTypeOK, SnTypeOK, FlashTypeOK, HeaderSet, SnUnderWay, ProfileUnderWay,
        SnKept, ProfileKept, Stores
<1> QED
  BY <1>2, <1>3

\* Handlers that store nothing: one reply, or none.
LEMMA ReplyingHandlers ==
    ASSUME MonInv,
           RunUnknown \/ RunPlain \/ RunGetSn \/ TaskReply \/ DspReply
             \/ RunIntr \/ RunOff
    PROVE  MonInv'
<1>1. ret \in Results /\ said \in Reports
  BY DEF MonInv, MonTypeOK
<1>2. said' \in Reports
  <2>1. GetSnResult \in Results /\ {"success", "error"} \subseteq Results
    BY DEF GetSnResult, Results
  <2>2. {"get_sn", "task", "dsp", "intr", "off"} \cup Plain \subseteq Names
    BY DEF Names, Exact
  <2>3. CASE RunUnknown
    BY <2>3, <1>1 DEF RunUnknown
  <2>4. CASE RunPlain
    BY <2>4, <1>1, <2>1, <2>2, ReplyType DEF RunPlain
  <2>6. CASE RunGetSn
    BY <2>6, <1>1, <2>1, <2>2, ReplyType DEF RunGetSn
  <2>7. CASE TaskReply
    BY <2>7, <1>1, <2>1, <2>2, ReplyType DEF TaskReply
  <2>8. CASE DspReply
    BY <2>8, <1>1, <2>1, <2>2, ReplyType DEF DspReply
  <2>9. CASE RunIntr
    BY <2>9, <1>1, <2>1, <2>2, ReplyType DEF RunIntr
  <2>10. CASE RunOff
    BY <2>10, <1>1, <2>1, <2>2, ReplyType DEF RunOff
  <2> QED
    BY <2>3, <2>4, <2>6, <2>7, <2>8, <2>9, <2>10
<1>3. Stores /\ Outside /\ Return
  BY DEF RunUnknown, RunPlain, RunGetSn, TaskReply, DspReply, RunIntr, RunOff
<1> QED
  BY <1>2, <1>3, GoOn, CalmStep

\* Handlers that store nothing and go on to another step.
LEMMA SteppingHandlers ==
    ASSUME MonInv, CheckTaskStatus \/ RunDsp \/ DspStart \/ RunReset \/ RunFail
    PROVE  MonInv'
<1>1. said \in Reports
  BY DEF MonInv, MonTypeOK
<1>2. GetSnResult \in Results /\ {"success", "error"} \subseteq Results
  BY DEF GetSnResult, Results
<1>3. {"get_sn", "dsp", "reset", "fail"} \subseteq Names
  BY DEF Names, Exact
<1>4. {"task_reply", "dsp_start", "dsp_reply", "restart", "stuck"} \subseteq Pcs
  BY DEF Pcs
<1>5. CASE CheckTaskStatus
  BY <1>1, <1>2, <1>3, <1>4, <1>5, ReplyType, GoOn, CalmStep DEF CheckTaskStatus, Calm
<1>6. CASE RunDsp
  BY <1>1, <1>2, <1>3, <1>4, <1>6, ReplyType, GoOn, CalmStep DEF RunDsp, Calm
<1>7. CASE DspStart
  BY <1>1, <1>2, <1>3, <1>4, <1>7, ReplyType, GoOn, CalmStep DEF DspStart, Calm
<1>8. CASE RunReset
  BY <1>1, <1>2, <1>3, <1>4, <1>8, ReplyType, GoOn, CalmStep DEF RunReset, Calm
<1>9. CASE RunFail
  BY <1>1, <1>2, <1>3, <1>4, <1>9, ReplyType, GoOn, CalmStep DEF RunFail, Calm
<1> QED
  BY <1>5, <1>6, <1>7, <1>8, <1>9

\* profile_read leaks a block only if there was one.
LEMMA ReadingHandler ==
    ASSUME MonInv, ProfileRead
    PROVE  MonInv'
<1>1. /\ said \in Reports
      /\ DevType
      /\ Heap \in Nat
  BY MonitorAssumption DEF MonInv, MonTypeOK, DevType
<1>2. "profile" \in Names /\ "success" \in Results
  BY DEF Names, Results
<1>3. Stores /\ Outside
  BY DEF ProfileRead
<1>4. CASE Return /\ UNCHANGED said
  BY <1>3, <1>4, GoOn, CalmStep
<1>5. CASE At("run") /\ Halt /\ UNCHANGED said
  BY <1>3, <1>5, GoOn, CalmStep DEF Calm, At
<1>6. CASE HasHeap /\ heap' = heap - 1 /\ Reply("profile", "success")
           /\ cpc' = "flush" /\ cmd' = Nothing /\ UNCHANGED <<ret, line, health>>
  <2>1. DevType' /\ Calm'
    BY <1>1, <1>6 DEF DevType, Calm, HasHeap, Pcs
  <2> QED
    BY <1>1, <1>2, <1>3, <1>6, <2>1, ReplyType, GoOn, CalmStep
<1> QED
  BY <1>4, <1>5, <1>6 DEF ProfileRead, Runs

-----------------------------------------------------------------------------
(* Steps that store, and the rest of the task.                             *)

\* set_sn: a number is confirmed only after it was written.
LEMMA SetSnHandlers ==
    ASSUME MonInv, SetSnCase \/ SetSnWrite \/ SetSnReply
    PROVE  MonInv'
<1>1. /\ said \in Reports
      /\ ret \in Results
      /\ {"success", "error"} \subseteq Results
      /\ "set_sn" \in Names
      /\ {"sn_write", "sn_reply"} \subseteq Pcs
  BY DEF MonInv, MonTypeOK, Results, Names, Pcs
<1>2. CASE SetSnCase
  <2>1. CASE cmd.arg \in LegalSns
    <3>1. Goto("sn_write") /\ UNCHANGED said /\ Stores /\ Outside
      BY <1>2, <2>1 DEF SetSnCase
    <3>2. /\ DevType'
          /\ cpc' = "sn_write"
          /\ cmd' = cmd
          /\ said' \in Reports
          /\ WireType'
      BY <1>1, <3>1, GoOn
    <3> QED
      BY <2>1, <3>1, <3>2
      DEF MonInv, MonTypeOK, SnTypeOK, FlashTypeOK, HeaderSet, WireType, SnUnderWay,
          ProfileUnderWay, SnKept, ProfileKept, Stores, DevType
  <2>2. CASE cmd.arg \notin LegalSns
    BY <1>1, <1>2, <2>2, ReplyType, GoOn, CalmStep DEF SetSnCase
  <2> QED
    BY <2>1, <2>2
<1>3. CASE SetSnWrite
  <2>1. PICK r \in Results : Record(r, "sn_reply") /\ (r = "success" => WriteSn(cmd.arg))
                             /\ (r # "success" => UNCHANGED nvs)
    BY <1>1, <1>3 DEF SetSnWrite
  <2>2. /\ cmd.arg \in LegalSns
        /\ acked' = None /\ wiped' = FALSE
        /\ UNCHANGED <<said, packed, flash>>
        /\ Outside
    BY <1>3 DEF SetSnWrite, At, MonInv, SnUnderWay
  <2>3. /\ DevType'
        /\ cpc' = "sn_reply"
        /\ cmd' = cmd
        /\ ret' = r
        /\ said' \in Reports
        /\ WireType'
    BY <1>1, <2>1, <2>2, GoOn
  <2> QED
    BY <2>1, <2>2, <2>3
    DEF MonInv, MonTypeOK, SnTypeOK, FlashTypeOK, HeaderSet, WireType, SnUnderWay,
        ProfileUnderWay, SnKept, ProfileKept, DevType, WriteSn
<1>4. CASE SetSnReply
  <2>1. /\ Return
        /\ Outside
        /\ Reply("set_sn", ret)
        /\ acked' = IF ret = "success" THEN cmd.arg ELSE acked
        /\ UNCHANGED <<wiped, packed, nvs, flash>>
        /\ cmd.arg \in LegalSns
        /\ ret = "success" => nvs = cmd.arg
    BY <1>4 DEF SetSnReply, At, MonInv, SnUnderWay
  <2>2. /\ DevType'
        /\ Calm'
        /\ said' \in Reports
        /\ WireType'
    BY <1>1, <2>1, GoOn, ReplyType
  <2> QED
    BY <2>1, <2>2
    DEF MonInv, MonTypeOK, SnTypeOK, FlashTypeOK, HeaderSet, WireType, SnUnderWay,
        ProfileUnderWay, SnKept, ProfileKept, DevType, Calm
<1> QED
  BY <1>2, <1>3, <1>4

\* profile: what was promised before is withdrawn before the sector is erased,
\* and a profile is confirmed only after it was written.
LEMMA ProfileHandlers ==
    ASSUME MonInv, RunProfile \/ ProfileErase \/ ProfileWrite \/ ProfileReply
    PROVE  MonInv'
<1>1. /\ said \in Reports
      /\ ret \in Results
      /\ {"success", "error"} \subseteq Results
      /\ "profile" \in Names
      /\ {"prof_erase", "prof_write", "prof_reply"} \subseteq Pcs
  BY DEF MonInv, MonTypeOK, Results, Names, Pcs
<1>2. CASE RunProfile
  <2>0. UNCHANGED <<said, acked, wiped, nvs, flash>> /\ Outside /\ cpc = "run"
    BY <1>2 DEF RunProfile, Runs, At
  <2>1. CASE cmd.arg \in Profiles /\ packed' = None /\ Goto("prof_erase")
    <3>1. /\ DevType'
          /\ cpc' = "prof_erase"
          /\ cmd' = cmd
          /\ said' \in Reports
          /\ WireType'
      BY <1>1, <2>0, <2>1, GoOn
    <3> QED
      BY <2>0, <2>1, <3>1
      DEF MonInv, MonTypeOK, SnTypeOK, FlashTypeOK, HeaderSet, WireType, SnUnderWay,
          ProfileUnderWay, SnKept, ProfileKept, DevType
  <2>2. CASE UNCHANGED packed /\ Record("error", "prof_reply")
    BY <1>1, <2>0, <2>2, GoOn, CalmStep DEF Calm, Stores
  <2>3. CASE UNCHANGED packed /\ Halt
    BY <1>1, <2>0, <2>3, GoOn, CalmStep DEF Calm, Stores
  <2> QED
    BY <1>2, <2>1, <2>2, <2>3 DEF RunProfile
<1>3. CASE ProfileErase
  <2>0. /\ UNCHANGED <<acked, wiped, packed, nvs>>
        /\ Outside
        /\ cmd.arg \in Profiles
        /\ packed = None
    BY <1>3 DEF ProfileErase, At, MonInv, ProfileUnderWay
  <2>1. /\ DevType'
        /\ \/ cpc' = "prof_write"
           \/ cpc' = "prof_reply" /\ ret' = "error"
        /\ cmd' = cmd
        /\ flash' \in {flash, "erased", "torn"}
        /\ said' \in Reports
    BY <1>1, <1>3, GoOn, ReplyType
    DEF ProfileErase, EraseSector, EraseSectorFails, FlashError
  <2> QED
    BY <2>0, <2>1, GoOn
    DEF MonInv, MonTypeOK, SnTypeOK, FlashTypeOK, HeaderSet, WireType, SnUnderWay,
        ProfileUnderWay, SnKept, ProfileKept, DevType
<1>4. CASE ProfileWrite
  <2>0. /\ UNCHANGED <<acked, wiped, packed, nvs>>
        /\ Outside
        /\ cmd.arg \in Profiles
        /\ packed = None
    BY <1>4 DEF ProfileWrite, At, MonInv, ProfileUnderWay
  <2>1. /\ DevType'
        /\ cpc' = "prof_reply"
        /\ \/ ret' = "success" /\ flash' = cmd.arg
           \/ ret' = "error" /\ flash' \in {flash, "torn"}
        /\ cmd' = cmd
        /\ said' \in Reports
    BY <1>1, <1>4, GoOn, ReplyType
    DEF ProfileWrite, WriteSector, WriteSectorFails, FlashError
  <2> QED
    BY <2>0, <2>1, GoOn
    DEF MonInv, MonTypeOK, SnTypeOK, FlashTypeOK, HeaderSet, WireType, SnUnderWay,
        ProfileUnderWay, SnKept, ProfileKept, DevType
<1>5. CASE ProfileReply
  <2>1. /\ Return
        /\ Outside
        /\ Reply("profile", ret)
        /\ packed' = IF ret = "success" THEN cmd.arg ELSE packed
        /\ UNCHANGED <<acked, wiped, nvs, flash>>
        /\ ret = "success" => cmd.arg \in Profiles /\ flash = cmd.arg
    BY <1>5 DEF ProfileReply, At, MonInv, ProfileUnderWay
  <2>2. /\ DevType'
        /\ Calm'
        /\ said' \in Reports
    BY <1>1, <2>1, GoOn, ReplyType
  <2> QED
    BY <2>1, <2>2, GoOn
    DEF MonInv, MonTypeOK, SnTypeOK, FlashTypeOK, HeaderSet, WireType, SnUnderWay,
        ProfileUnderWay, SnKept, ProfileKept, DevType, Calm
<1> QED
  BY <1>2, <1>3, <1>4, <1>5

\* The loop of command_task and app_main.
LEMMA LoopSteps ==
    ASSUME MonInv, Boot \/ Flush \/ Read
    PROVE  MonInv'
<1>1. /\ said \in Reports
      /\ rx \in Chunks
      /\ DevType
      /\ WireType
      /\ {"run", "read", "stuck"} \subseteq Pcs
  BY DEF MonInv, MonTypeOK, DevType, WireType, Pcs
<1>2. CASE Boot
  <2>1. DevType' /\ Calm' /\ UNCHANGED <<said, acked, packed, flash>> /\ Outside
    BY <1>1, <1>2, GoOn, TaskType DEF Boot, DevType, Calm, At
  <2>2. UNCHANGED <<nvs, wiped>> \/ (nvs' = None /\ wiped' = TRUE)
    BY <1>2 DEF Boot, NvsOpened, EraseNvs
  <2> QED
    BY <1>1, <2>1, <2>2, GoOn
    DEF MonInv, MonTypeOK, SnTypeOK, FlashTypeOK, HeaderSet, WireType, SnUnderWay,
        ProfileUnderWay, SnKept, ProfileKept, DevType, Calm
<1>3. CASE Flush
  <2>1. Stores /\ UNCHANGED <<hostVars, taskVars, said>>
    BY <1>3 DEF Flush
  <2>2. rx' \in Chunks
    BY <1>1, <1>3, ChunkType DEF Flush, WireType
  <2>3. DevType' /\ Calm' /\ WireType'
    BY <1>1, <1>3, <2>1, <2>2, GoOn
    DEF Flush, DevType, Calm, At, devVars, WireType, HeaderSet, hostVars, taskVars
  <2> QED
    BY <1>1, <2>1, <2>3, CalmStep
<1>4. CASE Read
  <2>1. Stores /\ UNCHANGED <<hostVars, taskVars, said, ret, heap, health>>
    BY <1>4 DEF Read
  <2>2. rx' \in Chunks /\ Head(rx)[1] \in Commands
    BY <1>1, <1>4, ChunkType DEF Read, WireType
  <2>3. FragmentReads(Head(rx)[1]) \subseteq Commands \cup {Nothing}
    BY TaskType DEF FragmentReads
  <2>4. /\ line' \in Commands \cup {Nothing}
        /\ cmd' \in Commands \cup {Nothing}
        /\ cpc' \in {"read", "run"}
    BY <1>1, <1>4, <2>2, <2>3 DEF Read, DevType, At
  <2>5. DevType' /\ Calm' /\ WireType'
    BY <1>1, <2>1, <2>2, <2>4 DEF DevType, Calm, WireType, HeaderSet, hostVars, taskVars
  <2> QED
    BY <1>1, <2>1, <2>2, <2>5, CalmStep
<1> QED
  BY <1>2, <1>3, <1>4

\* A reset and a loss of power forget everything but the stores.
LEMMA RebootSteps ==
    ASSUME MonInv, Restart \/ PowerCut
    PROVE  MonInv'
<1>1. DevType' /\ Calm' /\ rx' \in Chunks /\ cpc' = "boot" /\ audio' = {} /\ testcase_header' = "NULL"
  <2>1. "boot" \in Pcs /\ "success" \in Results /\ Heap \in 0..Heap /\ <<>> \in Chunks
    BY MonitorAssumption, ChunkType DEF Pcs, Results, MonInv, MonTypeOK
  <2> QED
    BY <2>1 DEF Restart, PowerCut, Reboots, DevType, Calm
<1>2. UNCHANGED <<sending, acked, wiped, packed, nvs>>
  BY DEF Restart, PowerCut, Stores, hostVars
<1>3. asked' \in Commands \cup {Nothing} /\ said' \in Reports /\ late' \subseteq Audio
  BY DEF Restart, PowerCut, hostVars, MonInv, MonTypeOK, Reports
<1>4. flash' = flash \/ (cpc \in {"prof_erase", "prof_write"} /\ flash' = "torn")
  BY DEF Restart, PowerCut, Stores
<1> QED
  BY <1>1, <1>2, <1>3, <1>4
  DEF MonInv, MonTypeOK, SnTypeOK, FlashTypeOK, HeaderSet, WireType, SnUnderWay,
      ProfileUnderWay, SnKept, ProfileKept, DevType, Calm

\* The host only fills the buffer.
LEMMA HostSteps ==
    ASSUME MonInv, (\E c \in Commands : HostHead(c)) \/ HostTail
    PROVE  MonInv'
<1>1. UNCHANGED <<devVars, taskVars, acked, wiped, packed, nvs, flash>>
  BY DEF HostHead, HostTail, hisVars
<1>2. said' \in Reports
  <2>1. {} \in Reports
    BY DEF Reports
  <2> QED
    BY <2>1 DEF HostHead, HostTail, hisVars, MonInv, MonTypeOK
<1>3. WireType'
  <2>1. rx' \in Chunks
    BY ChunkType DEF HostHead, HostTail, MonInv, MonTypeOK
  <2>2. late' \subseteq Audio
    BY HeaderNames DEF HostHead, HostTail, MonInv, MonTypeOK
  <2>3. sending' \in Commands \cup {Nothing} /\ asked' \in Commands \cup {Nothing}
    BY DEF HostHead, HostTail, MonInv, MonTypeOK
  <2> QED
    BY <1>1, <2>1, <2>2, <2>3 DEF WireType, taskVars, HeaderSet, MonInv, MonTypeOK
<1> QED
  BY <1>1, <1>2, <1>3
  DEF MonInv, MonTypeOK, SnTypeOK, FlashTypeOK, HeaderSet, WireType, SnUnderWay,
      ProfileUnderWay, SnKept, ProfileKept, devVars

-----------------------------------------------------------------------------
(* The theorems.                                                           *)

\* Every step keeps the invariant.
LEMMA MonStep == MonInv /\ [Next]_vars => MonInv'
<1> SUFFICES ASSUME MonInv, [Next]_vars
             PROVE  MonInv'
  OBVIOUS
<1>1. CASE UNCHANGED vars
  BY <1>1 DEF vars, devVars, taskVars, hostVars, hisVars, MonInv, MonTypeOK, SnTypeOK,
              FlashTypeOK, HeaderSet,
              SnUnderWay, ProfileUnderWay, SnKept, ProfileKept
<1>2. CASE (\E c \in Commands : HostHead(c)) \/ HostTail
  BY <1>2, HostSteps
<1>3. CASE Boot \/ Flush \/ Read
  BY <1>3, LoopSteps
<1>4. CASE Restart \/ PowerCut
  BY <1>4, RebootSteps
<1>5. CASE Handler
  BY <1>5, AudioSteps, ReplyingHandlers, SteppingHandlers, ReadingHandler, SetSnHandlers,
     ProfileHandlers DEF Handler
<1>6. CASE \E f \in Files : AudioTask(f)
  BY <1>6, AudioSteps
<1> QED
  BY <1>1, <1>2, <1>3, <1>4, <1>5, <1>6 DEF Next, TaskStep

\* The device starts in it.
LEMMA MonStart == Init => MonInv
<1> SUFFICES ASSUME Init
             PROVE  MonInv
  OBVIOUS
<1>1. <<>> \in Chunks /\ {} \in Reports /\ "boot" \in Pcs /\ "success" \in Results
  BY DEF Chunks, Reports, Pcs, Results
<1>2. Heap \in 0..Heap
  BY MonitorAssumption
<1>3. MonTypeOK
  BY <1>1, <1>2 DEF Init, SnInit, FlashInit, MonTypeOK, SnTypeOK, FlashTypeOK
<1>4. HeaderSet /\ SnUnderWay /\ ProfileUnderWay /\ SnKept /\ ProfileKept
  BY DEF Init, HeaderSet, SnUnderWay, ProfileUnderWay, SnKept, ProfileKept
<1> QED
  BY <1>3, <1>4 DEF MonInv

\* The invariant holds in every behaviour of the console (command_task and
\* its handlers, losses of power at any time).
THEOREM ConsoleInvariant == Spec => []MonInv
  BY MonStart, MonStep, PTL DEF Spec

\* Every variable keeps its type, for every host and every failing call.
THEOREM ConsoleTypes == Spec => []MonTypeOK
  BY ConsoleInvariant, PTL DEF MonInv

\* A confirmed serial number is the stored one (set_sn_case), whatever the host
\* sends in between and whenever the power goes; only app_main, when it erases a
\* full NVS at a boot, loses it.
THEOREM SerialNumberKept == Spec => []SnKept
  BY ConsoleInvariant, PTL DEF MonInv

\* A confirmed profile is complete in flash (start_profile_case), whatever the
\* host sends in between and whenever the power goes.
THEOREM ConfirmedProfileKept == Spec => []ProfileKept
  BY ConsoleInvariant, PTL DEF MonInv
=============================================================================
