------------------------- MODULE MonitorReplyProofs -------------------------
(***************************************************************************)
(* What the host of CommandMonitor hears, for any serial numbers, profiles, *)
(* buffer and heap sizes, audio tests and any set of failing calls: to a   *)
(* host that waits until the device listens, every reply answers its last  *)
(* command or comes from an audio test that ran before, and no two replies *)
(* to a command contradict each other.                                     *)
(***************************************************************************)
EXTENDS CommandMonitorProofs, SequenceTheorems

-----------------------------------------------------------------------------
(* What a slow host may rely on, beside MonInv.                            *)

\* What was said by the handlers of the command task.
Answers == {r \in said : r[1] \notin Audio}

\* The wire is quiet; or it holds the tail of a line whose head a reset threw
\* away; or it holds the host's last line, which nothing has answered yet.
CutLine ==
    /\ asked = Nothing
    /\ line = Nothing
    /\ \/ sending # Nothing /\ rx = <<>>
       \/ sending = Nothing /\ \E c \in Commands : rx = << <<c, "tail">> >>

WholeLine ==
    /\ asked # Nothing
    /\ cpc = "read"
    /\ Answers = {}
    /\ \/ sending = asked /\ line = Nothing /\ rx = << <<asked, "head">> >>
       \/ sending = asked /\ line = asked /\ rx = <<>>
       \/ sending = Nothing /\ line = Nothing /\ rx = << <<asked, "head">>, <<asked, "tail">> >>
       \/ sending = Nothing /\ line = asked /\ rx = << <<asked, "tail">> >>

Wire ==
    \/ sending = Nothing /\ rx = <<>> /\ line = Nothing
    \/ CutLine
    \/ WholeLine

\* No command runs where none is kept.
Resting == cpc \in {"boot", "flush", "read"} => cmd = Nothing

\* Since the host sent a command the device runs that, or the check of its
\* tasks after the start that the host asked for.
Job ==
    /\ cpc = "boot" => asked.name = "reset"
    /\ cmd = Nothing \/ cmd = asked \/ (cmd = Task /\ asked.name = "reset")
    /\ cpc = "task_reply" => cmd = Task
    /\ cpc \in {"sn_write", "sn_reply"} => cmd.name = "set_sn"
    /\ cpc \in {"dsp_start", "dsp_reply"} => cmd.name = "dsp"
    /\ cpc \in {"prof_erase", "prof_write", "prof_reply"} => cmd.name = "profile"
    /\ cpc = "restart" => cmd.name = "reset"

\* What was said so far, by where the device is.
Heard ==
    /\ \A r \in Answers : r[1] \in RepliesTo(asked)
    /\ \A result \in Results : <<"get_sn", result>> \in Answers => result = GetSnResult
    /\ cpc \in {"boot", "restart"} => \A result \in Results : <<"get_sn", result>> \notin Answers
    /\ \A n \in {"task", "reset"} : <<n, "error">> \notin Answers
    /\ cpc = "run" /\ cmd.name \notin {"unknown", "task"} => Answers = {}
    /\ cpc \in {"sn_write", "sn_reply", "prof_erase", "prof_write"} => Answers = {}
    /\ cpc = "prof_reply" => Answers \subseteq {<<"profile", ret>>}
    /\ \A n \in Names \ {"dsp"} : ~({n} \X Results \subseteq Answers)

ReplyInv ==
    Host = "slow" => Wire /\ Resting /\ (asked # Nothing => Job /\ Heard)

\* What audio tests printed since then is theirs, and not that they succeeded.
Beside ==
    (Host = "slow" /\ asked # Nothing) =>
        /\ \A f \in audio : HeaderOf(f) \in late \cup RepliesTo(asked)
        /\ \A r \in said : r[1] \in Audio => /\ r[1] \in late \cup RepliesTo(asked)
                                             /\ r[2] # "success"

\* How a reply changes what the handlers said.
LEMMA Answering ==
    /\ UNCHANGED said => Answers' = Answers
    /\ said' = {} => Answers' = {}
    /\ \A name, result :
           Reply(name, result) =>
               Answers' = IF name \in Audio THEN Answers ELSE Answers \cup {<<name, result>>}
BY DEF Answers, Reply

\* The names of the other commands.
LEMMA Unheard ==
    /\ Exact \cap Audio = {}
    /\ {"set_sn", "profile", "unknown"} \cap Audio = {}
    /\ Names = Exact \cup Audio \cup {"set_sn", "profile"}
    /\ Exact = Plain \cup {"task", "get_sn", "dsp", "intr", "reset", "off", "fail", "rdprof"}
    /\ Plain = {"quit1", "quit2", "version"}
    /\ Audio = {"pa_mic", "mic_seal", "nolinear"}
BY DEF Exact, Plain, Audio, Names

\* How names and commands go together.
LEMMA CommandNames ==
    /\ Task \in Commands
    /\ Nothing.name = "unknown"
    /\ \A c \in Commands : /\ c.name \in Names
                           /\ c.name = "task" => c = Task
                           /\ c # Nothing /\ c.name # "unknown"
BY MonitorAssumption DEF Task, Nothing, Cmd, Commands, Simple, Exact, Plain, Audio, Names

\* RepliesTo, case by case.
LEMMA Replies ==
    ASSUME NEW c
    PROVE  /\ c.name \in {"task", "unknown"} => RepliesTo(c) = {"get_sn", "task"}
           /\ c.name = "reset" => RepliesTo(c) = {"reset", "get_sn", "task"}
           /\ c.name = "rdprof" => RepliesTo(c) = {"profile"}
           /\ c.name \notin {"task", "unknown", "reset", "rdprof"} => RepliesTo(c) = {c.name}
BY DEF RepliesTo

\* Who was told nothing was told no contradiction.
LEMMA NothingHeard == \A n \in Names : ~({n} \X Results \subseteq {})
<1> SUFFICES ASSUME NEW n \in Names PROVE <<n, "success">> \in {n} \X Results
  OBVIOUS
<1> QED
  BY DEF Results

\* Buffers of one and two chunks.
LEMMA ShortBuffers ==
    ASSUME NEW a, NEW b
    PROVE  /\ Head(<<a>>) = a /\ Tail(<<a>>) = <<>> /\ <<a>> # <<>>
           /\ Head(<<a, b>>) = a /\ Tail(<<a, b>>) = <<b>> /\ <<a, b>> # <<>>
           /\ Append(<<>>, a) = <<a>> /\ Append(<<a>>, b) = <<a, b>>
<1>1. Head(<<a>>) = a /\ Tail(<<a>>) = <<>> /\ <<a>> # <<>>
  OBVIOUS
<1>2. Head(<<a, b>>) = a /\ <<a, b>> # <<>>
  OBVIOUS
<1>3. Tail(<<a, b>>) = <<b>>
  OBVIOUS
<1>4. Append(<<>>, a) = <<a>>
  OBVIOUS
<1>5. Append(<<a>>, b) = <<a, b>>
  <2> DEFINE E == {a, b}
  <2>1. <<a>> \in Seq(E) /\ <<a, b>> \in Seq(E) /\ b \in E
    OBVIOUS
  <2>2. Len(<<a>>) = 1 /\ <<a>>[1] = a
    OBVIOUS
  <2>3. Len(<<a, b>>) = 2 /\ <<a, b>>[1] = a /\ <<a, b>>[2] = b
    OBVIOUS
  <2> HIDE DEF E
  <2>4. /\ Append(<<a>>, b) \in Seq(E)
        /\ Len(Append(<<a>>, b)) = 2
        /\ Append(<<a>>, b)[1] = a
        /\ Append(<<a>>, b)[2] = b
    BY <2>1, <2>2, AppendProperties
  <2>5. \A i \in 1 .. 2 : Append(<<a>>, b)[i] = <<a, b>>[i]
    BY <2>3, <2>4
  <2> QED
    BY <2>1, <2>3, <2>4, <2>5, SeqEqual
<1> QED
  BY <1>1, <1>2, <1>3, <1>4, <1>5

\* The handler returns (Return, but for what profile_read leaves in heap and ret).
Back == cpc' = "flush" /\ cmd' = Nothing /\ UNCHANGED line

\* A command that has its first and only reply.
LEMMA OneReply ==
    ASSUME ReplyInv, Host = "slow", asked # Nothing, cpc # "read",
           UNCHANGED <<rx, hostVars>>, Back,
           cmd.name \notin {"task", "unknown"},
           NEW name, NEW result, Answers' \subseteq {<<name, result>>},
           result \in Results, name \in RepliesTo(asked),
           name = "get_sn" => result = GetSnResult',
           name \in {"task", "reset"} => result = "success"
    PROVE  ReplyInv'
<1>1. Wire' /\ Resting' /\ Job'
  BY DEF ReplyInv, Wire, CutLine, WholeLine, Resting, Job, Outside, Back, hostVars
<1>2. Heard'
  <2>1. RepliesTo(asked)' = RepliesTo(asked)
    BY DEF Outside, hostVars, RepliesTo
  <2>2. \A n \in Names : ~({n} \X Results \subseteq Answers')
    <3> SUFFICES ASSUME NEW n \in Names, {n} \X Results \subseteq Answers' PROVE FALSE
      OBVIOUS
    <3>1. <<n, "success">> \in Answers' /\ <<n, "error">> \in Answers'
      BY DEF Results
    <3> QED
      BY <3>1
  <2> QED
    BY <2>1, <2>2 DEF Heard, Back, Nothing, Cmd
<1> QED
  BY <1>1, <1>2 DEF ReplyInv

\* Handlers that end with their only reply, or without any.
LEMMA SingleReplies ==
    ASSUME MonInv, ReplyInv, Host = "slow", asked # Nothing,
           RunPlain \/ RunGetSn \/ RunIntr \/ RunOff \/ SetSnReply
             \/ ProfileReply \/ (SetSnCase /\ Return) \/ (ProfileRead /\ Back)
    PROVE  ReplyInv'
<1>1. /\ cpc # "read" /\ Outside /\ Back
      /\ cmd.name \notin {"task", "unknown", "reset"}
      /\ cpc = "prof_reply" => Answers \subseteq {<<"profile", ret>>}
      /\ cpc # "prof_reply" => Answers = {}
      /\ UNCHANGED nvs
  <2>1. Outside /\ Back /\ UNCHANGED nvs
    BY DEF RunPlain, RunGetSn, RunIntr, RunOff, SetSnReply, ProfileReply, SetSnCase,
           ProfileRead, Stores, Return, Back
  <2>2. \/ /\ cpc = "run"
           /\ cmd.name \in Plain \cup {"get_sn", "intr", "off", "set_sn", "rdprof"}
        \/ cpc \in {"sn_reply", "prof_reply"}
    BY DEF RunPlain, RunGetSn, RunIntr, RunOff, SetSnReply, ProfileReply, SetSnCase,
           ProfileRead, Runs, At
  <2>3. cmd.name \notin {"task", "unknown", "reset"}
    BY <2>2 DEF Plain, Audio, ReplyInv, Resting, Job
  <2>4. /\ cpc = "prof_reply" => Answers \subseteq {<<"profile", ret>>}
        /\ cpc # "prof_reply" => Answers = {}
    BY <2>2, <2>3 DEF ReplyInv, Heard
  <2> QED
    BY <2>1, <2>2, <2>3, <2>4
<1>2. cmd = asked
  BY <1>1, CommandNames DEF ReplyInv, Resting, Job, Task, Cmd
<1>3. /\ ret \in Results /\ GetSnResult \in Results /\ {"success", "error"} \subseteq Results
      /\ GetSnResult' = GetSnResult
  BY <1>1 DEF MonInv, MonTypeOK, GetSnResult, SnFits, Results
<1>4. \A name, result :
          /\ Answers' \subseteq {<<name, result>>}
          /\ result \in Results
          /\ name \in RepliesTo(cmd)
          /\ name = "get_sn" => result = GetSnResult
          /\ name \notin {"task", "reset"}
          => ReplyInv'
  BY <1>1, <1>2, <1>3, OneReply DEF Outside
<1>5. CASE cmd.name = "rdprof"
  <2>1. ProfileRead
    BY <1>5
    DEF RunPlain, RunGetSn, RunIntr, RunOff, SetSnReply, ProfileReply, SetSnCase,
        Runs, At, Plain, Audio, ReplyInv, Resting, Job
  <2>2. cpc = "run" /\ Answers' \subseteq Answers \cup {<<"profile", "success">>}
    BY <2>1, Answering, Unheard DEF ProfileRead, Runs, At
  <2>3. "profile" \in RepliesTo(cmd)
    BY <1>5, Replies
  <2> QED
    BY <1>1, <1>3, <1>4, <2>2, <2>3
<1>6. CASE cmd.name # "rdprof"
  <2>1. cmd.name \in RepliesTo(cmd) /\ cmd.name \notin {"task", "reset"}
    BY <1>1, <1>6, Replies
  <2>2. CASE RunGetSn
    <3>1. Answers' \subseteq {<<cmd.name, GetSnResult>>}
      BY <1>1, <2>2, Answering, Unheard DEF RunGetSn, Runs, At
    <3> QED
      BY <1>3, <1>4, <2>1, <3>1
  <2>3. CASE SetSnReply \/ ProfileReply
    <3>1. Answers' \subseteq {<<cmd.name, ret>>} /\ cmd.name # "get_sn"
      BY <1>1, <2>3, Answering, Unheard
      DEF SetSnReply, ProfileReply, At, ReplyInv, Job
    <3> QED
      BY <1>3, <1>4, <2>1, <3>1
  <2>4. CASE RunPlain \/ RunIntr \/ RunOff \/ (SetSnCase /\ Return)
    <3>1. /\ Answers' \subseteq {<<cmd.name, "success">>} \/ Answers' \subseteq {<<cmd.name, "error">>}
          /\ cmd.name # "get_sn"
      BY <1>1, <2>4, Answering, Unheard
      DEF RunPlain, RunIntr, RunOff, SetSnCase, Runs, At, Return, Goto
    <3> QED
      BY <1>3, <1>4, <2>1, <3>1
  <2> QED
    BY <1>6, <2>2, <2>3, <2>4 DEF ProfileRead, Runs
<1> QED
  BY <1>5, <1>6

\* Steps of a handler that leave the wire and the command alone and go on.
LEMMA GoesOn ==
    ASSUME ReplyInv, Host = "slow", asked # Nothing, cpc \notin {"boot", "flush", "read"}, Outside,
           UNCHANGED <<cmd, line>>, cpc' \notin {"boot", "flush", "read"},
           cpc' = "task_reply" => cmd = Task,
           cpc' \in {"sn_write", "sn_reply"} => cmd.name = "set_sn",
           cpc' \in {"dsp_start", "dsp_reply"} => cmd.name = "dsp",
           cpc' \in {"prof_erase", "prof_write", "prof_reply"} => cmd.name = "profile",
           cpc' = "restart" => cmd.name = "reset"
    PROVE  Wire' /\ Resting' /\ Job'
BY DEF ReplyInv, Wire, CutLine, WholeLine, Resting, Job, Outside, hostVars

\* Halting leaves everything where it is.
LEMMA HaltReplies ==
    ASSUME ReplyInv, Host = "slow", asked # Nothing, Halt, Outside, UNCHANGED <<said, nvs>>
    PROVE  ReplyInv'
BY Answering DEF ReplyInv, Wire, CutLine, WholeLine, Resting, Job, Heard, Halt, Outside, hostVars, RepliesTo,
       GetSnResult, SnFits

\* set_sn and profile say nothing before their last step but the errors of the
\* flash, which the last step repeats.
LEMMA StoringReplies ==
    ASSUME MonInv, ReplyInv, Host = "slow", asked # Nothing,
           SetSnCase \/ SetSnWrite \/ RunProfile \/ ProfileErase \/ ProfileWrite
    PROVE  ReplyInv'
<1>1. /\ Answers = {} /\ cpc \notin {"boot", "flush", "read"} /\ Outside
      /\ cmd.name \in {"set_sn", "profile"} /\ cmd = asked
  <2>1. cmd.name \in {"set_sn", "profile"} /\ cpc \in {"run", "sn_write", "prof_erase", "prof_write"}
    BY DEF SetSnCase, SetSnWrite, RunProfile, ProfileErase, ProfileWrite, Runs, At,
           ReplyInv, Resting, Job
  <2>2. Answers = {}
    BY <2>1 DEF ReplyInv, Heard
  <2>3. cmd = asked
    BY <2>1, CommandNames DEF ReplyInv, Resting, Job, Task, Cmd
  <2>4. Outside
    BY DEF SetSnCase, SetSnWrite, RunProfile, ProfileErase, ProfileWrite
  <2> QED
    BY <2>1, <2>2, <2>3, <2>4
<1>2. CASE SetSnCase /\ Return
  BY <1>2, SingleReplies
<1>3. CASE RunProfile /\ Halt
  BY <1>1, <1>3, HaltReplies DEF RunProfile, Return, Record, Goto
<1>4. CASE /\ UNCHANGED <<cmd, line>>
           /\ \/ cpc' \in {"sn_write", "sn_reply"} /\ cmd.name = "set_sn" /\ Answers' = {}
              \/ cpc' \in {"prof_erase", "prof_write"} /\ cmd.name = "profile" /\ Answers' = {}
              \/ /\ cpc' = "prof_reply" /\ cmd.name = "profile"
                 /\ Answers' = {} \/ (Answers' = {<<"profile", "error">>} /\ ret' = "error")
  <2>1. Wire' /\ Resting' /\ Job'
    BY <1>1, <1>4, GoesOn
  <2>2. \A r \in Answers' : r[1] \in RepliesTo(asked)'
    BY <1>1, <1>4, Replies DEF Outside, hostVars, RepliesTo
  <2>3. \A n \in Names : ~({n} \X Results \subseteq Answers')
    <3> SUFFICES ASSUME NEW n \in Names, {n} \X Results \subseteq Answers' PROVE FALSE
      OBVIOUS
    <3>1. <<n, "success">> \in Answers' /\ <<n, "error">> \in Answers'
      BY DEF Results
    <3> QED
      BY <1>4, <3>1
  <2>4. Heard'
    BY <1>4, <2>2, <2>3 DEF Heard
  <2> QED
    BY <2>1, <2>4 DEF ReplyInv
<1> QED
  BY <1>1, <1>2, <1>3, <1>4, Answering, Unheard
  DEF SetSnCase, SetSnWrite, RunProfile, ProfileErase, ProfileWrite, Goto, Record, FlashError,
      Runs, At, ReplyInv, Job

\* Steps of the dsp handler: its replies may contradict each other.
LEMMA DspReplies ==
    ASSUME MonInv, ReplyInv, Host = "slow", asked # Nothing, RunDsp \/ DspStart \/ DspReply
    PROVE  ReplyInv'
<1>1. /\ cpc \in {"run", "dsp_start", "dsp_reply"} /\ cmd.name = "dsp"
      /\ Outside /\ UNCHANGED nvs
  BY DEF RunDsp, DspStart, DspReply, Runs, At, Stores, ReplyInv, Resting, Job
<1>2. cmd = asked /\ RepliesTo(asked) = {"dsp"}
  BY <1>1, CommandNames, Replies DEF ReplyInv, Resting, Job, Task, Cmd
<1>3. \A r \in Answers' : r[1] = "dsp"
  BY <1>2, Answering, Unheard DEF RunDsp, DspStart, DspReply, ReplyInv, Heard
<1>4. Wire' /\ Resting' /\ Job'
  <2>1. CASE UNCHANGED <<cmd, line>> /\ cpc' \in {"dsp_start", "dsp_reply"}
    BY <1>1, <2>1, GoesOn
  <2>2. CASE Return
    BY <1>1, <2>2 DEF ReplyInv, Wire, CutLine, WholeLine, Resting, Job, Outside, Return, hostVars
  <2> QED
    BY <2>1, <2>2 DEF RunDsp, DspStart, DspReply, Goto, Record
<1>5. RepliesTo(asked)' = {"dsp"}
  BY <1>1, <1>2 DEF Outside, hostVars, RepliesTo
<1>6. cpc' \in {"dsp_start", "dsp_reply", "flush"}
  BY DEF RunDsp, DspStart, DspReply, Goto, Record, Return
<1>7. \A n \in Names \ {"dsp"} : ~({n} \X Results \subseteq Answers')
  <2> SUFFICES ASSUME NEW n \in Names \ {"dsp"}, {n} \X Results \subseteq Answers' PROVE FALSE
    OBVIOUS
  <2>1. <<n, "success">> \in Answers'
    BY DEF Results
  <2> QED
    BY <1>3, <2>1
<1>8. Heard'
  BY <1>3, <1>5, <1>6, <1>7 DEF Heard
<1> QED
  BY <1>4, <1>8 DEF ReplyInv

\* check_task_status prints two results, which are the same whenever it is run
\* again before the host sends its next line.
LEMMA TaskReplies ==
    ASSUME MonInv, ReplyInv, Host = "slow", asked # Nothing, CheckTaskStatus \/ TaskReply
    PROVE  ReplyInv'
<1>1. cmd = Task /\ cpc \in {"run", "task_reply"} /\ Outside /\ UNCHANGED nvs
  BY CommandNames DEF CheckTaskStatus, TaskReply, Runs, At, Stores, MonInv, MonTypeOK,
     ReplyInv, Resting, Job
<1>2. asked.name \in {"task", "reset"} /\ Task.name = "task"
  BY <1>1 DEF ReplyInv, Resting, Job, Task, Cmd, Nothing
<1>3. {"get_sn", "task"} \subseteq RepliesTo(asked)
  BY <1>2, Replies
<1>4. RepliesTo(asked)' = RepliesTo(asked) /\ GetSnResult' = GetSnResult
  BY <1>1 DEF Outside, hostVars, RepliesTo, GetSnResult, SnFits
<1>5. GetSnResult \in Results /\ "success" # "error" /\ "success" \in Results
  BY DEF GetSnResult, Results
<1>6. Wire' /\ Resting' /\ Job'
  <2>1. CASE UNCHANGED <<cmd, line>> /\ cpc' = "task_reply"
    BY <1>1, <2>1, GoesOn
  <2>2. CASE Return
    BY <1>1, <2>2 DEF ReplyInv, Wire, CutLine, WholeLine, Resting, Job, Outside, Return, hostVars
  <2> QED
    BY <2>1, <2>2 DEF CheckTaskStatus, TaskReply, Goto
<1>7. \/ Answers' = Answers \cup {<<"get_sn", GetSnResult>>}
      \/ Answers' = Answers \cup {<<"task", "success">>}
  BY Answering, Unheard DEF CheckTaskStatus, TaskReply
<1>8. \A n \in Names \ {"dsp"} : ~({n} \X Results \subseteq Answers')
  <2> SUFFICES ASSUME NEW n \in Names \ {"dsp"}, {n} \X Results \subseteq Answers' PROVE FALSE
    OBVIOUS
  <2>1. <<n, "success">> \in Answers' /\ <<n, "error">> \in Answers'
    BY DEF Results
  <2>2. CASE n = "get_sn"
    BY <1>5, <1>7, <2>1, <2>2 DEF ReplyInv, Heard, Results
  <2>3. CASE n = "task"
    BY <1>5, <1>7, <2>1, <2>3 DEF ReplyInv, Heard, Results
  <2>4. CASE n \notin {"get_sn", "task"}
    <3>1. <<n, "success">> \in Answers /\ <<n, "error">> \in Answers
      BY <1>7, <2>1, <2>4
    <3>2. {n} \X Results \subseteq Answers
      BY <3>1 DEF Results
    <3> QED
      BY <3>2 DEF ReplyInv, Heard
  <2> QED
    BY <2>2, <2>3, <2>4
<1>9. /\ cpc' \in {"task_reply", "flush"}
      /\ \A r \in Answers' : r[1] \in RepliesTo(asked)'
      /\ \A result \in Results : <<"get_sn", result>> \in Answers' => result = GetSnResult'
      /\ \A n \in {"task", "reset"} : <<n, "error">> \notin Answers'
  <2>1. cpc' \in {"task_reply", "flush"}
    BY DEF CheckTaskStatus, TaskReply, Goto, Return
  <2>2. \A r \in Answers' : r[1] \in RepliesTo(asked)'
    BY <1>3, <1>4, <1>7 DEF ReplyInv, Heard
  <2>3. \A result \in Results : <<"get_sn", result>> \in Answers' => result = GetSnResult'
    BY <1>4, <1>7 DEF ReplyInv, Heard
  <2>4. \A n \in {"task", "reset"} : <<n, "error">> \notin Answers'
    BY <1>7 DEF ReplyInv, Heard
  <2> QED
    BY <2>1, <2>2, <2>3, <2>4
<1>10. Heard'
  BY <1>8, <1>9 DEF Heard
<1> QED
  BY <1>6, <1>10 DEF ReplyInv

\* Steps that say nothing and leave NVS, host and wire alone.
LEMMA SilentReplies ==
    ASSUME MonInv, ReplyInv, Host = "slow", asked # Nothing, RunUnknown \/ (ProfileRead /\ Halt)
    PROVE  ReplyInv'
<1>1. CASE ProfileRead /\ Halt
  <2>1. UNCHANGED <<said, nvs>> /\ Outside
    BY <1>1 DEF ProfileRead, Halt, Stores, Runs, At, Return
  <2> QED
    BY <1>1, <2>1, HaltReplies
<1>2. CASE RunUnknown
  <2>1. cpc = "run" /\ Return /\ UNCHANGED <<Answers, nvs>> /\ Outside
    BY <1>2, Answering DEF RunUnknown, Runs, At, Stores
  <2>2. Wire' /\ Resting' /\ Job'
    BY <2>1 DEF ReplyInv, Wire, CutLine, WholeLine, Resting, Job, Outside, Return, hostVars
  <2>3. RepliesTo(asked)' = RepliesTo(asked) /\ GetSnResult' = GetSnResult
    BY <2>1 DEF Outside, hostVars, RepliesTo, GetSnResult, SnFits
  <2>4. Heard'
    BY <2>1, <2>3 DEF ReplyInv, Heard, Return
  <2> QED
    BY <2>2, <2>4 DEF ReplyInv
<1> QED
  BY <1>1, <1>2

\* reset and fail say that they succeeded and do not come back.
LEMMA LastReplies ==
    ASSUME MonInv, ReplyInv, Host = "slow", asked # Nothing, RunReset \/ RunFail
    PROVE  ReplyInv'
<1>1. /\ cpc = "run" /\ cmd.name \in {"reset", "fail"} /\ Outside /\ UNCHANGED <<nvs, cmd, line>>
      /\ Answers' = Answers \cup {<<cmd.name, "success">>}
      /\ \/ cpc' = "restart" /\ cmd.name = "reset"
         \/ cpc' = "stuck"
  BY Answering, Unheard DEF RunReset, RunFail, Runs, At, Stores, Goto
<1>2. Answers' = {<<cmd.name, "success">>}
  BY <1>1 DEF ReplyInv, Heard
<1>3. cmd = asked
  BY <1>1, CommandNames DEF ReplyInv, Resting, Job, Task, Cmd
<1>4. cmd.name \in RepliesTo(asked)'
  BY <1>1, <1>3, Replies DEF Outside, hostVars, RepliesTo
<1>5. \A n \in Names : ~({n} \X Results \subseteq Answers')
  <2> SUFFICES ASSUME NEW n \in Names, {n} \X Results \subseteq Answers' PROVE FALSE
    OBVIOUS
  <2>1. <<n, "error">> \in Answers'
    BY DEF Results
  <2> QED
    BY <1>2, <2>1
<1>6. Wire' /\ Resting' /\ Job'
  BY <1>1, GoesOn
<1>7. Heard'
  BY <1>1, <1>2, <1>4, <1>5 DEF Heard
<1> QED
  BY <1>6, <1>7 DEF ReplyInv

\* The loop of the command task: what it reads is the host's last line, or the
\* tail of a cut one.
LEMMA LoopReplies ==
    ASSUME MonInv, ReplyInv, Host = "slow", Flush \/ Read
    PROVE  ReplyInv'
<1>1. /\ cpc \in {"flush", "read"} /\ cmd = Nothing
      /\ UNCHANGED <<hostVars, Answers, nvs>>
  BY Answering DEF Flush, Read, At, Stores, ReplyInv, Resting
<1>2. RepliesTo(asked)' = RepliesTo(asked) /\ GetSnResult' = GetSnResult
  BY <1>1 DEF hostVars, RepliesTo, GetSnResult, SnFits
<1>3. CASE Flush
  <2>1. /\ cmd' = Nothing /\ line' = line /\ cpc' \in {"flush", "read"}
        /\ \/ rx' = rx
           \/ rx # <<>> /\ rx' = Tail(rx)
        /\ cpc = "flush"
    BY <1>1, <1>3 DEF Flush, Goto, devVars, At
  <2>2. \/ sending = Nothing /\ line = Nothing /\ rx' = <<>>
        \/ CutLine /\ rx' = rx
    BY <2>1, ShortBuffers DEF ReplyInv, Wire, CutLine, WholeLine
  <2>3. Wire'
    BY <1>1, <2>1, <2>2 DEF Wire, CutLine, hostVars
  <2>4. Resting' /\ (asked # Nothing => Job')
    BY <1>1, <2>1 DEF ReplyInv, Resting, Job, hostVars
  <2>5. asked # Nothing => Heard'
    BY <1>1, <1>2, <2>1 DEF ReplyInv, Heard
  <2>6. asked' = asked
    BY <1>1 DEF hostVars
  <2> QED
    BY <2>3, <2>4, <2>5, <2>6 DEF ReplyInv
<1>4. CASE Read /\ CutLine
  <2>1. PICK c \in Commands : rx = << <<c, "tail">> >> /\ sending = Nothing
    BY <1>4 DEF CutLine, Read
  <2>2. /\ rx' = <<>> /\ line' = Nothing /\ cpc' = "run"
        /\ asked = Nothing
    BY <1>4, <2>1, CommandNames DEF CutLine, Read
  <2> QED
    BY <1>1, <2>1, <2>2 DEF ReplyInv, Wire, Resting, hostVars
<1>5. CASE Read /\ WholeLine
  <2>1. Answers' = {} /\ asked' = asked /\ sending' = sending /\ asked # Nothing
    BY <1>1, <1>5 DEF WholeLine, hostVars
  <2>2. \/ /\ rx = << <<asked, "head">> >> /\ sending = asked
           /\ rx' = <<>> /\ line' = asked /\ UNCHANGED <<cpc, cmd>>
        \/ /\ rx = << <<asked, "head">>, <<asked, "tail">> >> /\ sending = Nothing
           /\ rx' = << <<asked, "tail">> >> /\ line' = asked /\ UNCHANGED <<cpc, cmd>>
        \/ /\ rx = << <<asked, "tail">> >> /\ sending = Nothing
           /\ rx' = <<>> /\ line' = Nothing /\ cpc' = "run" /\ cmd' = asked
    <3>1. CASE line = Nothing /\ sending = asked /\ rx = << <<asked, "head">> >>
      BY <1>5, <3>1, ShortBuffers DEF Read
    <3>2. CASE line = asked /\ sending = asked /\ rx = <<>>
      BY <1>5, <3>2 DEF Read
    <3>3. CASE /\ line = Nothing /\ sending = Nothing
               /\ rx = << <<asked, "head">>, <<asked, "tail">> >>
      BY <1>5, <3>3, ShortBuffers DEF Read
    <3>4. CASE line = asked /\ sending = Nothing /\ rx = << <<asked, "tail">> >>
      BY <1>5, <3>4, ShortBuffers DEF Read
    <3> QED
      BY <1>5, <3>1, <3>2, <3>3, <3>4 DEF WholeLine
  <2>3. cpc = "read"
    BY <1>5 DEF WholeLine
  <2>4. Wire' /\ Resting' /\ Job'
    BY <1>1, <2>1, <2>2, <2>3 DEF Wire, WholeLine, Resting, Job
  <2>5. cpc' \in {"read", "run"}
    BY <2>2, <2>3
  <2>6. \A n \in Names : ~({n} \X Results \subseteq {})
    BY NothingHeard
  <2>7. Heard'
    BY <2>1, <2>5, <2>6 DEF Heard
  <2> QED
    BY <2>4, <2>7 DEF ReplyInv
<1> QED
  BY <1>3, <1>4, <1>5 DEF ReplyInv, Wire, Read

\* Starts: the device forgets what was on the wire, and nothing it said before
\* was about its serial number.
LEMMA StartReplies ==
    ASSUME MonInv, ReplyInv, Host = "slow", Boot \/ Restart \/ PowerCut
    PROVE  ReplyInv'
<1>2. CASE PowerCut
  <2>1. /\ cpc' = "boot" /\ cmd' = Nothing /\ line' = Nothing /\ rx' = <<>>
        /\ asked' = Nothing
    BY <1>2 DEF PowerCut, Reboots
  <2> QED
    BY <2>1 DEF ReplyInv, Wire, CutLine, Resting
<1>3. CASE Restart
  <2>1. /\ cpc = "restart" /\ UNCHANGED <<sending, asked, Answers, nvs>>
        /\ cpc' = "boot" /\ cmd' = Nothing /\ line' = Nothing /\ rx' = <<>>
    BY <1>3, Answering DEF Restart, Reboots, At, hostVars, Stores
  <2>2. CASE asked = Nothing
    BY <2>1, <2>2 DEF ReplyInv, Wire, CutLine, Resting
  <2>3. CASE asked # Nothing
    <3>1. asked.name = "reset"
      BY <2>1, <2>3, CommandNames DEF ReplyInv, Job, Task, Cmd
    <3>2. sending = Nothing
      BY <2>1, <2>3 DEF ReplyInv, Wire, CutLine, WholeLine
    <3>3. Wire' /\ Resting' /\ Job'
      BY <2>1, <3>1, <3>2 DEF Wire, Resting, Job
    <3>4. RepliesTo(asked)' = RepliesTo(asked) /\ GetSnResult' = GetSnResult
      BY <2>1 DEF RepliesTo, GetSnResult, SnFits
    <3>5. Heard'
      BY <2>1, <2>3, <3>4 DEF ReplyInv, Heard
    <3> QED
      BY <3>3, <3>5 DEF ReplyInv
  <2> QED
    BY <2>2, <2>3
<1>4. CASE Boot
  <2>1. /\ cpc = "boot" /\ cmd = Nothing /\ UNCHANGED <<rx, hostVars, Answers, line>>
        /\ \/ cpc' = "run" /\ cmd' = Task
           \/ cpc' \in {"boot", "stuck"} /\ cmd' = Nothing
    BY <1>4, Answering DEF Boot, At, Halt, Goto, Outside, ReplyInv, Resting
  <2>2. Wire' /\ Resting'
    BY <2>1 DEF ReplyInv, Wire, CutLine, WholeLine, Resting, hostVars
  <2>3. asked' = asked
    BY <2>1 DEF hostVars
  <2>4. ASSUME asked # Nothing PROVE Job' /\ Heard'
    <3>1. Task.name = "task" /\ RepliesTo(asked)' = RepliesTo(asked)
      BY <2>3 DEF Task, Cmd, RepliesTo
    <3>2. Job'
      BY <2>1, <2>3, <2>4, <3>1 DEF ReplyInv, Job
    <3>3. \A result \in Results : <<"get_sn", result>> \notin Answers'
      BY <2>1, <2>4 DEF ReplyInv, Heard
    <3>4. Heard'
      BY <2>1, <2>4, <3>1, <3>3 DEF ReplyInv, Heard
    <3> QED
      BY <3>2, <3>4
  <2> QED
    BY <2>2, <2>3, <2>4 DEF ReplyInv
<1> QED
  BY <1>2, <1>3, <1>4

\* A slow host begins a line only when nothing is on the wire and nothing runs.
LEMMA HostReplies ==
    ASSUME MonInv, ReplyInv, Host = "slow", (\E c \in Commands : HostHead(c)) \/ HostTail
    PROVE  ReplyInv'
<1>1. UNCHANGED <<cpc, cmd, ret, line, nvs>>
  BY DEF HostHead, HostTail, devVars
<1>2. ASSUME NEW c \in Commands, HostHead(c) PROVE ReplyInv'
  <2>1. /\ sending = Nothing /\ rx = <<>> /\ line = Nothing /\ cpc = "read"
        /\ rx' = << <<c, "head">> >> /\ sending' = c /\ asked' = c /\ Answers' = {}
    BY <1>2, Answering DEF HostHead, HostSends, Listening
  <2>2. cmd = Nothing
    BY <2>1 DEF ReplyInv, Resting
  <2>5. Wire' /\ Resting' /\ Job'
    BY <1>1, <2>1, <2>2, CommandNames DEF Wire, WholeLine, Resting, Job
  <2>3. \A n \in Names : ~({n} \X Results \subseteq {})
    BY NothingHeard
  <2>4. Heard'
    BY <1>1, <2>1, <2>3 DEF Heard
  <2> QED
    BY <2>4, <2>5 DEF ReplyInv
<1>3. CASE HostTail
  <2>1. /\ sending # Nothing /\ sending' = Nothing /\ UNCHANGED <<asked, Answers>>
        /\ rx' = Append(rx, <<sending, "tail">>)
    BY <1>3, Answering DEF HostTail, hisVars
  <2>2. sending \in Commands
    BY <2>1 DEF MonInv, MonTypeOK
  <2>3. Wire'
    <3>1. CASE CutLine
      <4>1. rx = <<>> /\ line = Nothing /\ asked = Nothing
        BY <2>1, <3>1 DEF CutLine
      <4>2. rx' = << <<sending, "tail">> >>
        BY <2>1, <4>1, ShortBuffers
      <4>3. \E c \in Commands : rx' = << <<c, "tail">> >>
        BY ONLY <2>2, <4>2, Zenon
      <4> QED
        BY <1>1, <2>1, <4>1, <4>3, Zenon DEF Wire, CutLine
    <3>2. CASE WholeLine
      <4>1. sending = asked /\ cpc = "read" /\ asked # Nothing /\ Answers = {}
        BY <2>1, <3>2 DEF WholeLine
      <4>2. CASE line = Nothing /\ rx = << <<asked, "head">> >>
        <5>1. rx' = << <<asked, "head">>, <<asked, "tail">> >>
          BY <2>1, <4>1, <4>2, ShortBuffers
        <5> QED
          BY <1>1, <2>1, <4>1, <4>2, <5>1 DEF Wire, WholeLine
      <4>3. CASE line = asked /\ rx = <<>>
        <5>1. rx' = << <<asked, "tail">> >>
          BY <2>1, <4>1, <4>3, ShortBuffers
        <5> QED
          BY <1>1, <2>1, <4>1, <4>3, <5>1 DEF Wire, WholeLine
      <4> QED
        BY <2>1, <3>2, <4>2, <4>3 DEF WholeLine
    <3> QED
      BY <2>1, <3>1, <3>2 DEF ReplyInv, Wire
  <2>4. Resting' /\ (asked # Nothing => Job')
    BY <1>1, <2>1 DEF ReplyInv, Resting, Job
  <2>5. RepliesTo(asked)' = RepliesTo(asked) /\ GetSnResult' = GetSnResult
    BY <1>1, <2>1 DEF RepliesTo, GetSnResult, SnFits
  <2>6. asked # Nothing => Heard'
    BY <1>1, <2>1, <2>5 DEF ReplyInv, Heard
  <2> QED
    BY <2>1, <2>3, <2>4, <2>6 DEF ReplyInv
<1> QED
  BY <1>2, <1>3

\* A step that the command task and the host have no part in.
LEMMA OtherReplies ==
    ASSUME ReplyInv, UNCHANGED <<devVars, rx, hostVars, nvs, Answers>>
    PROVE  ReplyInv'
BY DEF devVars, hostVars, ReplyInv, Wire, CutLine, WholeLine, Resting, Job, Heard,
       RepliesTo, GetSnResult, SnFits

\* A handler leaves the wire alone, and keeps its command until it returns.
LEMMA HandlerShape ==
    ASSUME Handler
    PROVE  /\ UNCHANGED <<rx, hostVars, line>>
           /\ cpc \notin {"boot", "flush", "read"}
           /\ cpc' \notin {"boot", "read"}
           /\ cpc' = "flush" => cmd' = Nothing
BY DEF Handler, RunUnknown, RunPlain, RunAudio, RunGetSn, CheckTaskStatus, TaskReply,
       SetSnCase, SetSnWrite, SetSnReply, RunDsp, DspStart, DspReply, RunIntr, RunReset,
       RunOff, RunFail, RunProfile, ProfileErase, ProfileWrite, ProfileReply, ProfileRead,
       FlashError, Record, Return, Goto, Halt, Outside, Runs, At

\* An audio test is started, and prints beside what the handlers say.
LEMMA AudioReplies ==
    ASSUME MonInv, ReplyInv, Host = "slow", asked # Nothing, RunAudio
    PROVE  ReplyInv'
<1>1. cpc = "run" /\ cmd.name \in Audio /\ Back /\ UNCHANGED <<rx, hostVars>>
  BY DEF RunAudio, At, Return, Back
<1>2. Answers' = {}
  <2>1. Answers = {}
    BY <1>1, Unheard DEF ReplyInv, Heard
  <2> QED
    BY <1>1, <2>1, Answering DEF RunAudio
<1>3. cmd = asked
  BY <1>1, Unheard, CommandNames DEF ReplyInv, Job, Task, Cmd
<1>4. cmd.name \in RepliesTo(asked)
  BY <1>1, <1>3, Unheard, Replies
<1>5. "success" \in Results
  BY DEF Results
<1> QED
  BY <1>1, <1>2, <1>4, <1>5, Unheard, OneReply

\* Whoever runs a handler, the host may still rely on it.
LEMMA HandlerReplies ==
    ASSUME MonInv, ReplyInv, Host = "slow", Handler
    PROVE  ReplyInv'
<1>1. CASE asked # Nothing
  <2>1. ProfileRead => Back \/ Halt
    BY DEF ProfileRead, Return, Back
  <2> QED
    BY <1>1, <2>1, SingleReplies, StoringReplies, DspReplies, TaskReplies, SilentReplies,
       LastReplies, AudioReplies DEF Handler
<1>2. CASE asked = Nothing
  BY <1>2, HandlerShape DEF ReplyInv, Wire, CutLine, WholeLine, Resting, hostVars
<1> QED
  BY <1>1, <1>2

-----------------------------------------------------------------------------
(* What the audio tests print.                                             *)

\* The other handlers answer under names of their own, and the rest of the
\* command task prints nothing.
LEMMA OtherPrints ==
    ASSUME TaskStep, ~RunAudio
    PROVE  /\ UNCHANGED hostVars
           /\ UNCHANGED taskVars \/ audio' = {}
           /\ \A r \in said' : r \in said \/ r[1] \notin Audio
<1>1. CASE Boot \/ Flush \/ Read \/ Restart
  BY <1>1 DEF Boot, Flush, Read, Restart, Reboots, Outside
<1>2. CASE Handler
  <2>1. UNCHANGED hostVars /\ UNCHANGED taskVars
    BY <1>2
    DEF Handler, RunUnknown, RunPlain, RunGetSn, CheckTaskStatus, TaskReply,
        SetSnCase, SetSnWrite, SetSnReply, RunDsp, DspStart, DspReply, RunIntr, RunReset,
        RunOff, RunFail, RunProfile, ProfileErase, ProfileWrite, ProfileReply, ProfileRead,
        Outside
  <2>2. CASE UNCHANGED said
    BY <2>1, <2>2
  <2>3. ASSUME NEW name, NEW result, name \notin Audio, Reply(name, result)
        PROVE  \A r \in said' : r \in said \/ r[1] \notin Audio
    BY <2>3 DEF Reply
  <2>4. CASE RunPlain
    BY <2>1, <2>3, <2>4, Unheard DEF RunPlain
  <2>5. CASE RunUnknown \/ RunProfile \/ SetSnWrite
    BY <2>2, <2>5 DEF RunUnknown, RunProfile, SetSnWrite
  <2>6. CASE RunGetSn \/ CheckTaskStatus \/ TaskReply \/ SetSnCase \/ SetSnReply
    <3>1. \/ UNCHANGED said
          \/ Reply("get_sn", GetSnResult) \/ Reply("task", "success")
          \/ Reply("set_sn", "error") \/ Reply("set_sn", ret)
      BY <2>6 DEF RunGetSn, CheckTaskStatus, TaskReply, SetSnCase, SetSnReply
    <3> QED
      BY <2>1, <2>2, <2>3, <3>1, Unheard
  <2>7. CASE RunDsp \/ DspStart \/ DspReply \/ RunIntr
    <3>1. \/ UNCHANGED said
          \/ \E result : Reply("dsp", result) \/ Reply("intr", result)
      BY <2>7 DEF RunDsp, DspStart, DspReply, RunIntr
    <3> QED
      BY <2>1, <2>2, <2>3, <3>1, Unheard
  <2>8. CASE RunReset \/ RunOff \/ RunFail
    <3>1. Reply("reset", "success") \/ Reply("off", "success") \/ Reply("fail", "success")
      BY <2>8 DEF RunReset, RunOff, RunFail
    <3> QED
      BY <2>1, <2>3, <3>1, Unheard
  <2>9. CASE ProfileErase \/ ProfileWrite \/ ProfileReply \/ ProfileRead
    <3>1. UNCHANGED said \/ \E result : Reply("profile", result)
      BY <2>9 DEF ProfileErase, ProfileWrite, ProfileReply, ProfileRead, FlashError
    <3> QED
      BY <2>1, <2>2, <2>3, <3>1, Unheard
  <2> QED
    BY <1>2, <2>4, <2>5, <2>6, <2>7, <2>8, <2>9 DEF Handler
<1> QED
  BY <1>1, <1>2 DEF TaskStep

\* A test prints under the name of the host's last command, or under one that
\* could be heard before.
LEMMA BesideStep ==
    ASSUME MonInv, ReplyInv, Beside, [Next]_vars
    PROVE  Beside'
<1> SUFFICES ASSUME Host = "slow", asked' # Nothing PROVE Beside'
  BY DEF Beside
<1>1. CASE HostTail \/ UNCHANGED vars
  BY <1>1 DEF HostTail, vars, taskVars, hostVars, hisVars, Beside, HeaderOf, RepliesTo
<1>2. ASSUME NEW c \in Commands, HostHead(c) PROVE Beside'
  BY <1>2 DEF HostHead, taskVars, Beside, HeaderOf
<1>3. CASE PowerCut
  BY <1>3 DEF PowerCut
<1>4. CASE TaskStep /\ ~RunAudio
  <2>1. UNCHANGED <<asked, late>> /\ RepliesTo(asked)' = RepliesTo(asked)
    BY <1>4, OtherPrints DEF hostVars, RepliesTo
  <2>2. audio' = {} \/ UNCHANGED <<audio, testcase_header>>
    BY <1>4, OtherPrints DEF taskVars
  <2>3. \A r \in said' : r \in said \/ r[1] \notin Audio
    BY <1>4, OtherPrints
  <2> QED
    BY <2>1, <2>2, <2>3 DEF Beside, HeaderOf
<1>5. CASE RunAudio
  <2>1. UNCHANGED <<asked, late>> /\ RepliesTo(asked)' = RepliesTo(asked)
    BY <1>5 DEF RunAudio, hostVars, RepliesTo
  <2>2. cmd = asked /\ cmd.name \in Audio
    BY <1>5, <2>1, Unheard, CommandNames DEF RunAudio, At, ReplyInv, Job, Task, Cmd
  <2>3. RepliesTo(asked) = {cmd.name}
    BY <2>2, Unheard, Replies
  <2>4. \A f \in audio' : \/ f \in audio /\ HeaderOf(f)' = HeaderOf(f)
                          \/ HeaderOf(f)' = cmd.name
    BY <1>5, <2>2, Unheard DEF RunAudio, HeaderOf, FileOf
  <2>5. \A r \in said' : r \in said \/ r = <<cmd.name, "error">>
    BY <1>5 DEF RunAudio, Reply
  <2> QED
    BY <2>1, <2>3, <2>4, <2>5 DEF Beside
<1>6. ASSUME NEW f \in Files, AudioTask(f) PROVE Beside'
  <2>1. /\ UNCHANGED <<asked, late, testcase_header>> /\ f \in audio /\ audio' \subseteq audio
        /\ RepliesTo(asked)' = RepliesTo(asked)
    BY <1>6 DEF AudioTask, hostVars, RepliesTo
  <2>2. \A r \in said' : r \in said \/ (r[1] = HeaderOf(f) /\ r[2] # "success")
    BY <1>6 DEF AudioTask, Reply
  <2> QED
    BY <2>1, <2>2 DEF Beside, HeaderOf
<1> QED
  BY <1>1, <1>2, <1>3, <1>4, <1>5, <1>6 DEF Next

-----------------------------------------------------------------------------
(* The theorems.                                                           *)

\* To a slow host the wire, the running command and what was said fit together
\* in every behaviour (command_task and its handlers, the tasks that audio tests
\* leave behind, resets and power cuts).
THEOREM ConversationInvariant == Spec => [](ReplyInv /\ Beside)
<1>1. Init => ReplyInv /\ Beside
  BY DEF Init, ReplyInv, Wire, Resting, Beside
<1>2. MonInv /\ ReplyInv /\ [Next]_vars => ReplyInv'
  <2> SUFFICES ASSUME MonInv, ReplyInv, [Next]_vars, Host = "slow" PROVE ReplyInv'
    BY DEF ReplyInv
  <2>1. CASE Handler
    BY <2>1, HandlerReplies
  <2>2. CASE Boot \/ Flush \/ Read \/ Restart \/ PowerCut
    BY <2>2, LoopReplies, StartReplies
  <2>3. CASE (\E c \in Commands : HostHead(c)) \/ HostTail
    BY <2>3, HostReplies
  <2>4. ASSUME NEW f \in Files, AudioTask(f) PROVE ReplyInv'
    <3>1. Answers' = Answers
      <4>1. HeaderOf(f) \in Audio
        BY <2>4, HeaderNames DEF AudioTask
      <4> QED
        BY <2>4, <4>1, Answering DEF AudioTask
    <3> QED
      BY <2>4, <3>1, OtherReplies DEF AudioTask, Stores
  <2>5. CASE UNCHANGED vars
    BY <2>5, OtherReplies DEF vars, hisVars, Answers
  <2> QED
    BY <2>1, <2>2, <2>3, <2>4, <2>5 DEF Next, TaskStep
<1>3. MonInv /\ ReplyInv /\ Beside /\ [Next]_vars => Beside'
  BY BesideStep
<1> QED
  BY <1>1, <1>2, <1>3, ConsoleInvariant, PTL DEF Spec

\* Between two commands of a slow host all replies are to the first, but for
\* those of audio tests that ran when it was sent (out_print_result, whoever
\* calls it).
THEOREM RepliesBelong == Spec => []RepliesAttributable
<1>1. ReplyInv /\ Beside => RepliesAttributable
  <2> SUFFICES ASSUME ReplyInv, Beside, Host = "slow", asked # Nothing, NEW r \in said
               PROVE  r[1] \in RepliesTo(asked) \cup late
    BY DEF RepliesAttributable
  <2>1. CASE r[1] \in Audio
    BY <2>1 DEF Beside
  <2>2. CASE r[1] \notin Audio
    BY <2>2 DEF ReplyInv, Heard, Answers
  <2> QED
    BY <2>1, <2>2
<1> QED
  BY <1>1, ConversationInvariant, PTL

\* No command but dsp is reported as failed and as successful to a slow host
\* (the error paths of the handlers).
THEOREM NoContradiction == Spec => []VerdictStands
<1>1. ReplyInv /\ Beside => VerdictStands
  <2> SUFFICES ASSUME ReplyInv, Beside, Host = "slow", asked # Nothing,
                      NEW n \in Names \ {"dsp"}, {n} \X Results \subseteq said
               PROVE  FALSE
    BY DEF VerdictStands
  <2>1. CASE n \in Audio
    <3>1. <<n, "success">> \in said
      BY DEF Results
    <3> QED
      BY <2>1, <3>1 DEF Beside
  <2>2. CASE n \notin Audio
    <3>1. {n} \X Results \subseteq Answers
      BY <2>2 DEF Answers
    <3> QED
      BY <3>1 DEF ReplyInv, Heard
  <2> QED
    BY <2>1, <2>2
<1> QED
  BY <1>1, ConversationInvariant, PTL
=============================================================================
