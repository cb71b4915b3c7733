--------------------------- MODULE CommandMonitor ---------------------------
(***************************************************************************)
(* The console of the factory firmware: command_task                       *)
(* (main/command_monitor.c) reads one line after the other from the UART   *)
(* and runs its handler to the end (main/case/sn_case.c, system_control.c, *)
(* dsp_check_case.c, dsp_intr.c), started by app_main (main/main.c).  The  *)
(* audio tests only start here and leave tasks behind that print on the    *)
(* same UART when they please; module AudioCase models those.              *)
(*                                                                         *)
(* What the host sends waits in the RX buffer of the UART.  Before it      *)
(* reads a line the command task throws away what is there, so a line can  *)
(* lose its head: a line travels as two chunks, its head and its tail with *)
(* the newline, and a tail that arrives alone is a fragment.  The power    *)
(* may go at any time; flash and NVS survive.                              *)
(***************************************************************************)
EXTENDS SnStore, ProfilePartition, Naturals, Sequences

CONSTANTS
    Host,      \* "slow" waits until the device reads, "prompt" until it was
               \* answered, "eager" does not wait at all
    MaxRx,     \* bounds the chunks in the RX buffer
    Heap,      \* 4096-byte blocks that malloc can give before it returns NULL
    Tests,     \* the audio tests that the host uses
    Faults     \* names of the external calls that may fail

\* The audio tests, and the files that hold their tasks.
Audio == {"pa_mic", "mic_seal", "nolinear"}
Files == {"player_recorder", "nolinear"}
FileOf(name) == IF name = "nolinear" THEN "nolinear" ELSE "player_recorder"

ASSUME MonitorAssumption == /\ Host \in {"slow", "prompt", "eager"}
                            /\ Tests \subseteq Audio
                            /\ MaxRx \in Nat
                            /\ Heap \in Nat

VARIABLES
    cpc,       \* where the command task is
    cmd, ret,  \* the command it runs and the result to be printed
    line,      \* cmdline: the head that was read, or Nothing
    rx,        \* the RX buffer of the UART
    heap,      \* 4096-byte blocks left
    health,    \* "halted" once a NULL or unterminated string was used
    audio,     \* the files whose tasks may still print
    testcase_header,  \* what the tasks of player_recorder_case.c print under
    sending,   \* host: the line of which only the head was sent
    asked,     \* host: the command it sent last since the device booted
    said,      \* history: the replies since then
    late,      \* history: the tests that could still print at that time
    acked,     \* history: the serial number that was last confirmed
    wiped,     \* history: NVS was erased at a boot since then
    packed     \* history: the profile that was last confirmed

devVars  == <<cpc, cmd, ret, line, heap, health>>
taskVars == <<audio, testcase_header>>
hostVars == <<sending, asked, late>>
hisVars  == <<said, acked, wiped, packed>>
vars     == <<devVars, taskVars, rx, hostVars, hisVars, nvs, flash>>

\* Handlers without parameter and the ones with one; "bad" is a parameter that
\* the handler rejects (length of a serial number, quotes of a profile).
Plain == {"quit1", "quit2", "version"}
Exact == Plain \cup {"task", "get_sn", "dsp", "intr", "reset", "off", "fail", "rdprof"}
Simple == Exact \cup Tests

Cmd(name, arg) == [name |-> name, arg |-> arg]

Commands == {Cmd(n, None) : n \in Simple}
            \cup {Cmd("set_sn", sn) : sn \in LegalSns \cup {"bad"}}
            \cup {Cmd("profile", p) : p \in Profiles \cup {"bad"}}

Task    == Cmd("task", None)
Nothing == Cmd("unknown", None)

Results == {"success", "error"}
Names   == Exact \cup Audio \cup {"set_sn", "profile"}
Reports == SUBSET (Names \X (Results \cup {"record_end"}))
Chunks  == Seq(Commands \X {"head", "tail"})

Pcs == {"boot", "flush", "read", "run", "task_reply", "sn_write", "sn_reply",
        "dsp_start", "dsp_reply", "prof_erase", "prof_write", "prof_reply",
        "restart", "stuck"}

MonTypeOK ==
    /\ SnTypeOK
    /\ FlashTypeOK
    /\ cpc \in Pcs
    /\ cmd \in Commands \cup {Nothing}
    /\ ret \in Results
    /\ line \in Commands \cup {Nothing}
    /\ rx \in Chunks
    /\ heap \in 0..Heap
    /\ health \in {"ok", "halted"}
    /\ audio \subseteq Files
    /\ testcase_header \in Audio \cup {"NULL"}
    /\ sending \in Commands \cup {Nothing}
    /\ asked \in Commands \cup {Nothing}
    /\ said \in Reports
    /\ late \subseteq Audio
    /\ acked \in LegalSns \cup {None}
    /\ wiped \in BOOLEAN
    /\ packed \in Profiles \cup {None}

Init ==
    /\ SnInit
    /\ FlashInit
    /\ cpc = "boot"
    /\ cmd = Nothing
    /\ ret = "success"
    /\ line = Nothing
    /\ rx = <<>>
    /\ heap = Heap
    /\ health = "ok"
    /\ audio = {}
    /\ testcase_header = "NULL"
    /\ sending = Nothing
    /\ asked = Nothing
    /\ said = {}
    /\ late = {}
    /\ acked = None
    /\ wiped = FALSE
    /\ packed = None

-----------------------------------------------------------------------------
(* The host.                                                               *)

\* What a reply may be called that follows the command c.  A reset device
\* reports itself, and so does one that was switched on.
RepliesTo(c) ==
    CASE c.name \in {"task", "unknown"} -> {"get_sn", "task"}
      [] c.name = "reset" -> {"reset", "get_sn", "task"}
      [] c.name = "rdprof" -> {"profile"}
      [] OTHER -> {c.name}

Replied == \E r \in said : r[1] \in RepliesTo(asked)

\* The device is in UartRxString and has nothing to read.
Listening == cpc = "read" /\ rx = <<>> /\ line = Nothing

HostSends ==
    /\ sending = Nothing
    /\ Len(rx) < MaxRx
    /\ Host = "prompt" => Replied
    /\ Host = "slow" => Listening

\* Under which name the tasks of a file print: the literal RESULT_NOLINEAR, or
\* what the shared pointer names at that moment.
HeaderOf(f) == IF f = "nolinear" THEN "nolinear" ELSE testcase_header

HostHead(c) ==
    /\ HostSends
    /\ rx' = Append(rx, <<c, "head">>)
    /\ sending' = c
    /\ asked' = c
    /\ said' = {}
    /\ late' = {HeaderOf(f) : f \in audio}
    /\ UNCHANGED <<devVars, taskVars, acked, wiped, packed, nvs, flash>>

HostTail ==
    /\ sending # Nothing
    /\ rx' = Append(rx, <<sending, "tail">>)
    /\ sending' = Nothing
    /\ UNCHANGED <<devVars, taskVars, asked, late, hisVars, nvs, flash>>

-----------------------------------------------------------------------------
(* The command task.                                                       *)

At(pc)    == health = "ok" /\ cpc = pc
Runs(name) == At("run") /\ cmd.name = name
Goto(pc)  == cpc' = pc /\ UNCHANGED <<cmd, ret, line, heap, health>>

Halt == health' = "halted" /\ UNCHANGED <<cpc, cmd, ret, line, heap>>

\* The handler returns, its variables end, and the loop of command_task starts
\* again.
Return ==
    /\ cpc' = "flush"
    /\ cmd' = Nothing
    /\ ret' = "success"
    /\ UNCHANGED <<line, heap, health>>

\* out_print_result
Reply(name, result) == said' = said \cup {<<name, result>>}

Outside == UNCHANGED <<rx, hostVars, taskVars>>
Stores  == UNCHANGED <<nvs, flash, acked, wiped, packed>>

\* The result of a call goes into ret, which a later step prints.
Record(result, pc) ==
    ret' = result /\ cpc' = pc /\ UNCHANGED <<cmd, line, heap, health>>

\* Broken variant for testing SnKept: NVS is erased without being noted as full.
NvsErased == EraseNvs /\ UNCHANGED wiped

\* app_main: nvs_flash_init, which a full NVS refuses until it was erased.
NvsOpened ==
    \/ UNCHANGED <<nvs, wiped>>
    \/ "nvs_full" \in Faults /\ EraseNvs /\ wiped' = TRUE

\* Any other error aborts, the second nvs_flash_init included.
Boot ==
    /\ At("boot")
    /\ NvsOpened
    /\ \/ cpc' = "run" /\ cmd' = Task /\ UNCHANGED <<ret, line, heap, health>>
       \/ "nvs_init" \in Faults /\ Halt
       \/ "command_task" \in Faults /\ Goto("stuck")
    /\ UNCHANGED <<said, acked, packed, flash>>
    /\ Outside

\* uart_rx_one_char until the buffer is empty.
Flush ==
    /\ At("flush")
    /\ IF rx = <<>> THEN Goto("read") /\ UNCHANGED rx
                    ELSE rx' = Tail(rx) /\ UNCHANGED devVars
    /\ UNCHANGED <<taskVars, hostVars, said>>
    /\ Stores

\* What string_equal and string_content make of a line without its head: no
\* command, but for two cases.  The last letter of "prod_test dsp" is a prefix
\* of CMD_TASK; and what was typed as a serial number, or as a profile without
\* its quotes, may end like any command that has no parameter.
FragmentReads(c) ==
    {Nothing} \cup (IF c.name = "dsp" THEN {Task} ELSE {})
              \cup (IF c.name = "set_sn" \/ c.arg = "bad"
                    THEN {Cmd(n, None) : n \in Exact} ELSE {})

\* UartRxString: the head is kept until the newline arrives.
Read ==
    /\ At("read")
    /\ rx # <<>>
    /\ rx' = Tail(rx)
    /\ LET chunk == Head(rx)
       IN  IF chunk[2] = "head"
           THEN line' = chunk[1] /\ UNCHANGED <<cpc, cmd>>
           ELSE /\ line' = Nothing
                /\ cpc' = "run"
                /\ cmd' \in IF line = chunk[1] THEN {line}
                            ELSE FragmentReads(chunk[1])
    /\ UNCHANGED <<ret, heap, health, taskVars, hostVars, said>>
    /\ Stores

-----------------------------------------------------------------------------
(* The handlers.                                                           *)

RunUnknown == Runs("unknown") /\ Return /\ UNCHANGED said /\ Stores /\ Outside

\* Handlers that print one fixed result.
RunPlain ==
    /\ At("run")
    /\ cmd.name \in Plain
    /\ Reply(cmd.name, "success")
    /\ Return
    /\ Stores
    /\ Outside

\* What an audio test does before its command returns (module AudioCase): the
\* shared header is overwritten in any case, tasks are left behind or not, and
\* a start that fails prints an error or nothing.
RunAudio ==
    /\ At("run")
    /\ cmd.name \in Audio
    /\ testcase_header' = IF cmd.name = "nolinear" THEN testcase_header ELSE cmd.name
    /\ \/ audio' = audio \cup {FileOf(cmd.name)} /\ UNCHANGED said
       \/ /\ "audio" \in Faults
          /\ audio' \in {audio, audio \cup {FileOf(cmd.name)}}
          /\ UNCHANGED said \/ Reply(cmd.name, "error")
    /\ Return
    /\ Stores
    /\ UNCHANGED <<rx, hostVars>>

\* A recorder or player prints an error or the end of its dump, ends, or both,
\* whatever the command task is doing.  Several tests of one file are one here.
AudioTask(f) ==
    /\ health = "ok"
    /\ f \in audio
    /\ audio' \in {audio, audio \ {f}}
    /\ \/ UNCHANGED said
       \/ Reply(HeaderOf(f), "record_end")
       \/ "audio" \in Faults /\ Reply(HeaderOf(f), "error")
    /\ UNCHANGED <<devVars, testcase_header, rx, hostVars>>
    /\ Stores

RunGetSn ==
    /\ Runs("get_sn")
    /\ Reply("get_sn", GetSnResult)
    /\ Return
    /\ Stores
    /\ Outside

\* check_task_status calls get_sn_case, then prints its own result.
CheckTaskStatus ==
    /\ Runs("task")
    /\ Reply("get_sn", GetSnResult)
    /\ Goto("task_reply")
    /\ Stores
    /\ Outside

\* The result is success even if there is no serial number.
TaskReply ==
    /\ At("task_reply")
    /\ Reply("task", "success")
    /\ Return
    /\ Stores
    /\ Outside

SetSnCase ==
    /\ Runs("set_sn")
    /\ IF cmd.arg \in LegalSns THEN Goto("sn_write") /\ UNCHANGED said
                               ELSE Reply("set_sn", "error") /\ Return
    /\ Stores
    /\ Outside

SetSnWrite ==
    /\ At("sn_write")
    /\ acked' = None
    /\ \/ WriteSn(cmd.arg) /\ Record("success", "sn_reply")
       \/ "nvs_write" \in Faults /\ UNCHANGED nvs /\ Record("error", "sn_reply")
    /\ wiped' = FALSE
    /\ UNCHANGED <<said, packed, flash>>
    /\ Outside

SetSnReply ==
    /\ At("sn_reply")
    /\ Reply("set_sn", ret)
    /\ IF ret = "success" THEN acked' = cmd.arg ELSE UNCHANGED acked
    /\ Return
    /\ UNCHANGED <<wiped, packed, nvs, flash>>
    /\ Outside

\* dsp_sdk_init.  A client that cannot be created prints two errors.
RunDsp ==
    /\ Runs("dsp")
    /\ \/ Goto("dsp_start") /\ UNCHANGED said
       \/ "dsp_create" \in Faults /\ Reply("dsp", "error") /\ Record("error", "dsp_reply")
    /\ Stores
    /\ Outside

\* A client that does not start prints an error, but its handle is returned.
DspStart ==
    /\ At("dsp_start")
    /\ Record("success", "dsp_reply")
    /\ UNCHANGED said \/ ("dsp_start" \in Faults /\ Reply("dsp", "error"))
    /\ Stores
    /\ Outside

DspReply == At("dsp_reply") /\ Reply("dsp", ret) /\ Return /\ Stores /\ Outside

\* Broken variant for testing Answered: only the failure is printed.
RunIntrSilent ==
    /\ Runs("intr")
    /\ UNCHANGED said \/ ("intr" \in Faults /\ Reply("intr", "error"))
    /\ Return
    /\ Stores
    /\ Outside

RunIntr ==
    /\ Runs("intr")
    /\ Reply("intr", "success") \/ ("intr" \in Faults /\ Reply("intr", "error"))
    /\ Return
    /\ Stores
    /\ Outside

\* Broken variant for testing RepliesAttributable: the reset is called off.
RunResetOff ==
    /\ Runs("reset")
    /\ Reply("off", "success")
    /\ Goto("restart")
    /\ Stores
    /\ Outside

RunReset ==
    /\ Runs("reset")
    /\ Reply("reset", "success")
    /\ Goto("restart")
    /\ Stores
    /\ Outside

\* The supply may hold: after ten seconds the handler returns.
RunOff ==
    /\ Runs("off")
    /\ Reply("off", "success")
    /\ Return
    /\ Stores
    /\ Outside

\* start_test_fail blinks for ever.
RunFail ==
    /\ Runs("fail")
    /\ Reply("fail", "success")
    /\ Goto("stuck")
    /\ Stores
    /\ Outside

-----------------------------------------------------------------------------
(* start_profile_case and profile_read.                                    *)

\* Broken variant for testing MonTypeOK: the blocks are not counted.
HasHeapAlways == TRUE

\* malloc of the size of the partition succeeds.
HasHeap == heap > 0

\* A malloc may fail: once the heap is used up, small blocks may be left or not.
MallocFails == "malloc" \in Faults \/ ~HasHeap

\* A parameter without its quotes, or no memory for a copy of it, ends in
\* "param error!"; without memory for the whole string strcpy faults.
RunProfile ==
    /\ Runs("profile")
    /\ \/ cmd.arg \in Profiles /\ packed' = None /\ Goto("prof_erase")
       \/ cmd.arg = "bad" /\ UNCHANGED packed /\ Record("error", "prof_reply")
       \/ /\ MallocFails \/ "partition" \in Faults
          /\ UNCHANGED packed
          /\ Record("error", "prof_reply")
       \/ cmd.arg \in Profiles /\ MallocFails /\ UNCHANGED packed /\ Halt
    /\ UNCHANGED <<said, acked, wiped, nvs, flash>>
    /\ Outside

\* Broken variant for testing VerdictStands: the end does not know of the error.
FlashErrorForgiven == Reply("profile", "error") /\ Record("success", "prof_reply")

\* A call that fails prints its error, and the end prints "param error!" too.
FlashError == Reply("profile", "error") /\ Record("error", "prof_reply")

ProfileErase ==
    /\ At("prof_erase")
    /\ \/ EraseSector /\ Goto("prof_write") /\ UNCHANGED said
       \/ "erase" \in Faults /\ EraseSectorFails /\ FlashError
    /\ UNCHANGED <<acked, wiped, packed, nvs>>
    /\ Outside

\* Broken variant for testing ProfileKept: success is assumed before the write.
ProfileWriteBlind ==
    /\ At("prof_write")
    /\ WriteSector(cmd.arg) \/ ("write" \in Faults /\ WriteSectorFails)
    /\ Record("success", "prof_reply")
    /\ UNCHANGED <<said, acked, wiped, packed, nvs>>
    /\ Outside

ProfileWrite ==
    /\ At("prof_write")
    /\ \/ WriteSector(cmd.arg) /\ Record("success", "prof_reply") /\ UNCHANGED said
       \/ "write" \in Faults /\ WriteSectorFails /\ FlashError
    /\ UNCHANGED <<acked, wiped, packed, nvs>>
    /\ Outside

ProfileReply ==
    /\ At("prof_reply")
    /\ Reply("profile", ret)
    /\ IF ret = "success" THEN packed' = cmd.arg ELSE UNCHANGED packed
    /\ Return
    /\ UNCHANGED <<acked, wiped, nvs, flash>>
    /\ Outside

\* profile_read: the block is never freed and a NULL is not looked for.  What was
\* read is printed as a string whether or not it ends: without its end the
\* print may run into what memory cannot be read, or print what is there and go on.
ProfileRead ==
    /\ Runs("rdprof")
    /\ \/ {"partition", "read"} \cap Faults # {} /\ Return /\ UNCHANGED said
       \/ MallocFails /\ Halt /\ UNCHANGED said
       \/ HasHeap /\ ~Terminated /\ Halt /\ UNCHANGED said
       \/ /\ HasHeap
          /\ heap' = heap - 1
          /\ Reply("profile", "success")
          /\ cpc' = "flush"
          /\ cmd' = Nothing
          /\ UNCHANGED <<ret, line, health>>
    /\ Stores
    /\ Outside

-----------------------------------------------------------------------------
(* Restarts.                                                               *)

\* Everything in memory is gone, and the UART with it.
Reboots ==
    /\ cpc' = "boot"
    /\ cmd' = Nothing
    /\ ret' = "success"
    /\ line' = Nothing
    /\ rx' = <<>>
    /\ heap' = Heap
    /\ health' = "ok"
    /\ audio' = {}
    /\ testcase_header' = "NULL"

\* esp_restart
Restart ==
    /\ At("restart")
    /\ Reboots
    /\ UNCHANGED <<hostVars, said>>
    /\ Stores

\* The supply goes and comes back.  A flash operation under way is cut short;
\* the host waits for the device to report again.
PowerCut ==
    /\ Reboots
    /\ IF cpc \in {"prof_erase", "prof_write"} THEN flash' \in {flash, "torn"}
                                               ELSE UNCHANGED flash
    /\ asked' = Nothing
    /\ said' = {}
    /\ late' = {}
    /\ UNCHANGED <<sending, acked, wiped, packed, nvs>>

-----------------------------------------------------------------------------
Handler ==
    \/ RunUnknown \/ RunPlain \/ RunAudio
    \/ RunGetSn \/ CheckTaskStatus \/ TaskReply
    \/ SetSnCase \/ SetSnWrite \/ SetSnReply
    \/ RunDsp \/ DspStart \/ DspReply \/ RunIntr
    \/ RunReset \/ RunOff \/ RunFail
    \/ RunProfile \/ ProfileErase \/ ProfileWrite \/ ProfileReply \/ ProfileRead

TaskStep == Boot \/ Flush \/ Read \/ Handler \/ Restart

Next ==
    \/ \E c \in Commands : HostHead(c)
    \/ HostTail
    \/ TaskStep
    \/ \E f \in Files : AudioTask(f)
    \/ PowerCut

Spec == Init /\ [][Next]_vars

\* The command task runs whenever it can, and a host that began a line ends it.
FairSpec == Spec /\ WF_vars(TaskStep) /\ WF_vars(HostTail)

-----------------------------------------------------------------------------
(* Safety.                                                                 *)

\* A serial number that was confirmed by "set_sn success" is the one in NVS,
\* through resets and losses of power, until the next set_sn is carried out;
\* nothing but the erasure of a full NVS at a boot loses it, and then no other
\* number takes its place.
SnKept == acked # None => nvs = acked \/ (wiped /\ nvs = None)

\* A profile that was confirmed by "profile success" is complete in flash,
\* through resets and losses of power, until the next one is carried out.
ProfileKept == packed # None => flash = packed

\* A slow host can tell what each reply answers: after one of its commands it
\* hears replies to that command, and otherwise only what an audio test prints
\* that was still running when it sent the command.
RepliesAttributable ==
    (Host = "slow" /\ asked # Nothing) =>
        \A r \in said : r[1] \in RepliesTo(asked) \cup late

\* The replies to one command do not contradict each other, but for dsp.
VerdictStands ==
    (Host = "slow" /\ asked # Nothing) =>
        \A n \in Names \ {"dsp"} : ~({n} \X Results \subseteq said)

-----------------------------------------------------------------------------
(* Liveness.                                                               *)

Waits == asked # Nothing /\ asked.name \notin Audio /\ ~Replied

\* Every command other than an audio test is answered, or the device halts or
\* is switched off.
Answered == Waits ~> (~Waits \/ health = "halted")

-----------------------------------------------------------------------------
(* What the code says, where the program does something else.              *)

\* "sn length should be between 1 and 31": a serial number that was accepted
\* can be read back.
SnReadable == acked # None => <<"get_sn", "error">> \notin said
=============================================================================
