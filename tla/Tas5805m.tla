------------------------------ MODULE Tas5805m ------------------------------
(***************************************************************************)
(* The driver of the TAS5805M amplifier: tas5805m.c, and pa_config.c, which *)
(* sends a configuration to the chip.  The configuration is one of         *)
(*   "table"  a table of registers (transmit_registers),                   *)
(*   "code"   lines of text in memory, and                                 *)
(*   "file"   lines of text on the SD card;                                *)
(* tas5805mInit is built with one of them.  The firmware of this           *)
(* repository is built with the table, and its calls of tas5805mInit are   *)
(* comments: the amplifier of its boards needs no configuration.           *)
(*                                                                         *)
(* Nobody looks at the result of the writes that configure the chip.  Each  *)
(* may be lost, up to MaxLost of them in one configuration.                *)
(***************************************************************************)
EXTENDS AmpTable, I2cBus

CONSTANTS
    OtherTables,  \* tables beside tas5805m_registers: a function of names
    Scripts,      \* texts: sequences of lines [kind, vals]
    CmdMax,       \* PA_CMD_MAX_LEN: size of the command buffer
    Volumes,      \* arguments of tas5805mSetVolume
    MaxLost       \* bound: writes that fail in one configuration

Byte    == 0 .. 255
Content == Byte \cup {Unknown}

\* heads holds the entries of t that the loop over the table comes to: the
\* length of a burst is a byte, and its data lie in the table.
StaysInside(t, heads) ==
    /\ heads \subseteq 1 .. Len(t) + 1
    /\ 1 \in heads
    /\ \A k \in heads \ {Len(t) + 1} :
           IF t[k][1] = CFG_META_BURST
           THEN t[k][2] \in Byte /\ k + t[k][2] \div 2 + 2 \in heads
           ELSE k + 1 \in heads

\* An entry of a table is two bytes, and no burst reaches past the table; a
\* line of a text has bytes.  The length of a command is not checked: 3 bytes
\* for a line "w", and one for each line ">" after it.
ASSUME AmpAssumption ==
    /\ \A t \in DOMAIN OtherTables :
           /\ OtherTables[t] \in Seq(Byte \X Content)
           /\ \E heads \in SUBSET (1 .. Len(OtherTables[t]) + 1) :
                  StaysInside(OtherTables[t], heads)
    /\ \A s \in Scripts :
           /\ s \in Seq([kind : STRING, vals : Seq(Byte)])
           /\ Len(s) + 2 <= CmdMax
    /\ CmdMax \in Nat
    /\ Volumes \subseteq Int
    /\ MaxLost \in Nat \ {0}

VARIABLES
    config,    \* the build: source, table, script, and whether the chip takes
               \* register numbers above \h7f for those without bit 7
    apc,       \* place of the task that initialises the amplifier
    i,         \* next entry of the table, or line of the text
    status, cmd, cmd_data_len,   \* command that the text is building up
    sent,      \* history: commands of the text that were sent
    chip,      \* the amplifier
    inited,    \* the last tas5805mInit returned 0
    asked,     \* the last volume set successfully since
    reading,   \* result of the last tas5805mGetVolume
    lost       \* writes that failed since the last tas5805mInit

textVars == <<status, cmd, cmd_data_len, sent>>
ampVars == <<config, apc, i, textVars, chip, inited, asked, reading, lost>>
avars == <<busVars, ampVars>>

Configs ==
    [source : {"table"}, table : Boards \cup DOMAIN OtherTables, script : { <<>> }, alias : {"yes", "no"}]
    \cup [source : {"code", "file"}, table : {"none"}, script : Scripts, alias : {"no"}]

-----------------------------------------------------------------------------
(* The chip, of which the control registers of state and volume are kept.  *)
(* wild tells that a coefficient may have gone to a control register.      *)

Chips == [page : Content, book : Content, state : Content, volume : Content,
          wild : {"yes", "no"}]

ChipReset == [page |-> 0, book |-> 0, state |-> 0, volume |-> Unknown, wild |-> "no"]

OnControls(c)      == c.page = 0 /\ c.book = 0
MaybeOnControls(c) == c.page \in {0, Unknown} /\ c.book \in {0, Unknown}

Take(c, v) == IF OnControls(c) THEN v ELSE Unknown

\* The register that the chip takes for the number reg.
Register(alias, reg) == IF alias = "yes" THEN reg % 128 ELSE reg

TakeByte(c, register, v) ==
    IF register = 0 THEN [c EXCEPT !.page = v]
    ELSE IF register = \h7f /\ c.page \in {0, Unknown}
    THEN [c EXCEPT !.book = IF c.page = 0 THEN v ELSE Unknown,
                   !.wild = IF v = Unknown /\ MaybeOnControls(c) THEN "yes" ELSE @]
    ELSE IF ~MaybeOnControls(c) THEN c
    ELSE IF v = Unknown THEN [c EXCEPT !.wild = "yes"]
    ELSE IF register = \h03 THEN [c EXCEPT !.state = Take(c, v)]
    ELSE IF register = \h4c THEN [c EXCEPT !.volume = Take(c, v)]
    ELSE c

\* A write of several bytes goes to ascending registers.
TakeBytes(c, reg, data) ==
    LET after[k \in 0 .. Len(data)] ==
            IF k = 0 THEN c
            ELSE TakeByte(after[k - 1], Register(config.alias, reg + k - 1), data[k])
    IN  after[Len(data)]

\* i2c_bus_write_bytes succeeds ...
WriteDone(reg, data) ==
    /\ Installed
    /\ chip' = TakeBytes(chip, reg, data)
    /\ UNCHANGED lost

\* ... or fails after some of the bytes, or for want of a driver.
WriteLost(reg, data) ==
    IF Installed
    THEN /\ lost < MaxLost
         /\ lost' = lost + 1
         /\ \E n \in 0 .. Len(data) : chip' = TakeBytes(chip, reg, SubSeq(data, 1, n))
    ELSE /\ lost' = IF lost < MaxLost THEN lost + 1 ELSE lost
         /\ UNCHANGED chip

Write(reg, data) == WriteDone(reg, data) \/ WriteLost(reg, data)
NoWrite          == UNCHANGED <<chip, lost>>

-----------------------------------------------------------------------------
AmpInit ==
    /\ BusDown
    /\ config \in Configs
    /\ apc = "idle"
    /\ i = 1
    /\ status = "NOTHING"
    /\ cmd = [k \in 0 .. CmdMax - 1 |-> Unknown]
    /\ cmd_data_len = 0
    /\ sent = <<>>
    /\ chip = ChipReset
    /\ inited = "no"
    /\ asked = Unknown
    /\ reading = Unknown
    /\ lost = 0

Goto(pc) == apc' = pc

(* tas5805mInit. *)

\* The chip is reset by its pin.
InitReset ==
    /\ apc = "idle"
    /\ Goto("bus")
    /\ chip' = ChipReset
    /\ inited' = "no"
    /\ asked' = Unknown
    /\ lost' = 0
    /\ UNCHANGED <<busVars, config, i, textVars, reading>>

\* Without a bus nothing is configured, and -1 is returned.
InitBus ==
    /\ apc = "bus"
    /\ \/ BusFound /\ Goto("load")
       \/ BusCreated /\ Goto("load")
       \/ BusFails /\ Goto("idle")
       \/ i2c_bus = "null" /\ UNCHANGED busVars /\ Goto("halted")
    /\ UNCHANGED <<config, i, textVars, chip, inited, asked, reading, lost>>

\* The configuration returns nothing, and tas5805mInit 0.
InitDone == Goto("idle") /\ inited' = "yes"

LoadTable ==
    /\ apc = "load"
    /\ config.source = "table"
    /\ Goto("table")
    /\ i' = 1
    /\ UNCHANGED <<busVars, config, textVars, chip, inited, asked, reading, lost>>

\* The command buffer is allocated and not cleared.
LoadText ==
    /\ apc = "load"
    /\ config.source # "table"
    /\ Goto("text")
    /\ i' = 1
    /\ status' = "NOTHING"
    /\ cmd' = [k \in 0 .. CmdMax - 1 |-> Unknown]
    /\ cmd_data_len' = 0
    /\ sent' = <<>>
    /\ UNCHANGED <<busVars, config, chip, inited, asked, reading, lost>>

\* No memory for the buffer, or no file.
LoadFails ==
    /\ apc = "load"
    /\ config.source # "table"
    /\ InitDone
    /\ UNCHANGED <<busVars, config, i, textVars, chip, asked, reading, lost>>

-----------------------------------------------------------------------------
(* transmit_registers. *)

Table ==
    IF config.table \in Boards THEN tas5805m_registers[config.table]
                               ELSE OtherTables[config.table]

Offset(k) == Table[k][1]
Value(k)  == Table[k][2]

\* The bytes of a burst: from the value of the entry after it, in the order
\* in which the table lies in memory.
BurstData(k) ==
    [b \in 1 .. Value(k) |-> Table[k + 1 + b \div 2][IF b % 2 = 0 THEN 1 ELSE 2]]

IsEnd(k) ==
    Offset(k) = CFG_END_1 /\ Offset(k + 1) = CFG_END_2 /\ Offset(k + 2) = CFG_END_3

\* Broken variant for testing InitReturns: the entry after a burst is not reached.
AfterBurstStuck(k) == k

AfterBurst(k) == k + Value(k) \div 2 + 1 + 1

\* The end marker breaks out of the switch, not out of the loop: the two
\* entries behind it are written like any other.
TableStep ==
    /\ apc = "table"
    /\ i <= Len(Table)
    /\ \/ /\ Offset(i) \in {CFG_META_SWITCH, CFG_META_DELAY} \/ IsEnd(i)
          /\ NoWrite
          /\ i' = i + 1
       \/ /\ Offset(i) = CFG_META_BURST
          /\ Write(Offset(i + 1), BurstData(i))
          /\ i' = AfterBurst(i)
       \/ /\ Offset(i) \notin {CFG_META_SWITCH, CFG_META_DELAY, CFG_META_BURST}
          /\ ~IsEnd(i)
          /\ Write(Offset(i), <<Value(i)>>)
          /\ i' = i + 1
    /\ UNCHANGED <<busVars, config, apc, textVars, inited, asked, reading>>

TableEnd ==
    /\ apc = "table"
    /\ i > Len(Table)
    /\ InitDone
    /\ UNCHANGED <<busVars, config, i, textVars, chip, asked, reading, lost>>

-----------------------------------------------------------------------------
(* tas5805m_pa_set_config_from_code and tas5805m_pa_set_config_from_file. *)

Line == config.script[i]

\* get_val_from_string stores up to n values of the line at cmd[at].  When the
\* line has less, the rest keeps what it was; in a line of a file, the search
\* goes on behind the end of the text and may find anything.
GetValues(at, n) ==
    LET given == IF Len(Line.vals) < n THEN Len(Line.vals) ELSE n
    IN  \E found \in IF config.source = "file" THEN given .. n ELSE {given} :
            cmd' = [k \in DOMAIN cmd |->
                       IF k \in at .. at + given - 1 THEN Line.vals[k - at + 1]
                       ELSE IF k \in at + given .. at + found - 1 THEN Unknown
                       ELSE cmd[k]]

Command == [k \in 1 .. cmd_data_len - 1 |-> cmd[k]]

\* Broken variant for testing SentAsWritten: a line "w" does not send the
\* command before it.
FlushForgotten == NoWrite /\ UNCHANGED sent

\* The command that was built up is sent: its register and its data.
Flush ==
    IF status = "W_PREPARING" /\ cmd_data_len >= 3
    THEN Write(cmd[1], Tail(Command)) /\ sent' = Append(sent, Command)
    ELSE NoWrite /\ UNCHANGED sent

NewCommand ==
    /\ Line.kind = "w"
    /\ Flush
    /\ GetValues(0, 3)
    /\ status' = "W_PREPARING"
    /\ cmd_data_len' = 3

MoreData ==
    /\ Line.kind = ">"
    /\ IF status = "W_PREPARING"
       THEN GetValues(cmd_data_len, 1) /\ cmd_data_len' = cmd_data_len + 1
       ELSE UNCHANGED <<cmd, cmd_data_len>>
    /\ NoWrite
    /\ UNCHANGED <<status, sent>>

OtherLine ==
    /\ Line.kind \notin {"w", ">"}
    /\ Flush
    /\ IF status = "W_PREPARING"
       THEN status' = "NOTHING" /\ cmd_data_len' = 0
       ELSE UNCHANGED <<status, cmd_data_len>>
    /\ UNCHANGED cmd

TextLine ==
    /\ apc = "text"
    /\ i <= Len(config.script)
    /\ NewCommand \/ MoreData \/ OtherLine
    /\ i' = i + 1
    /\ UNCHANGED <<busVars, config, apc, inited, asked, reading>>

\* After the last line, or when a line of the file cannot be read.  The
\* command under way is dropped.
TextEnd ==
    /\ apc = "text"
    /\ i > Len(config.script) \/ config.source = "file"
    /\ InitDone
    /\ UNCHANGED <<busVars, config, i, textVars, chip, asked, reading, lost>>

-----------------------------------------------------------------------------
\* Broken variants: the value is not cut to a byte (AmpTypeOK), the result is
\* not looked at (VolumeTaken).
tas5805mSetVolumeWide(v) ==
    /\ apc = "idle"
    /\ \/ WriteDone(\h4c, <<v>>) /\ asked' = v
       \/ WriteLost(\h4c, <<v>>) /\ asked' = Unknown
    /\ UNCHANGED <<busVars, config, apc, i, textVars, inited, reading>>
tas5805mSetVolumeBlind(v) ==
    /\ apc = "idle"
    /\ Write(\h4c, <<v % 256>>)
    /\ asked' = v % 256
    /\ UNCHANGED <<busVars, config, apc, i, textVars, inited, reading>>

\* The volume is written, and some registers are read and not used.
tas5805mSetVolume(v) ==
    /\ apc = "idle"
    /\ \/ WriteDone(\h4c, <<v % 256>>) /\ asked' = v % 256
       \/ WriteLost(\h4c, <<v % 256>>) /\ asked' = Unknown
    /\ UNCHANGED <<busVars, config, apc, i, textVars, inited, reading>>

\* The result is 0 even if the chip could not be read; the volume is then
\* what the memory held.
tas5805mGetVolume ==
    /\ apc = "idle"
    /\ reading' \in {Unknown} \cup IF Installed THEN {Take(chip, chip.volume)} ELSE {}
    /\ UNCHANGED <<busVars, config, apc, i, textVars, chip, inited, asked, lost>>

\* The ESP32 is reset at any time; the amplifier is not.
Restart ==
    /\ i2c_bus' = "null" /\ driver' = "none"
    /\ Goto("idle")
    /\ inited' = "no"
    /\ asked' = Unknown
    /\ reading' = Unknown
    /\ UNCHANGED <<config, i, textVars, chip, lost>>

-----------------------------------------------------------------------------
InitStep == InitBus \/ LoadTable \/ LoadText \/ LoadFails
            \/ TableStep \/ TableEnd \/ TextLine \/ TextEnd

AmpNext ==
    \/ InitReset \/ InitStep
    \/ (\E v \in Volumes : tas5805mSetVolume(v)) \/ tas5805mGetVolume
    \/ Restart

AmpSpec == AmpInit /\ [][AmpNext]_avars

\* The task that initialises the chip runs on; nobody has to start it.
AmpFairSpec == AmpSpec /\ WF_avars(InitStep)

-----------------------------------------------------------------------------
(* Properties. *)

\* Variables keep their types.
AmpTypeOK ==
    /\ BusTypeOK
    /\ config \in Configs
    /\ apc \in {"idle", "bus", "load", "table", "text", "halted"}
    /\ i \in Nat \ {0}
    /\ status \in {"NOTHING", "W_PREPARING"}
    /\ cmd \in [0 .. CmdMax - 1 -> Content]
    /\ cmd_data_len \in 0 .. CmdMax
    /\ chip \in Chips
    /\ inited \in {"yes", "no"}
    /\ asked \in Content
    /\ reading \in Content
    /\ lost \in 0 .. MaxLost

FirmwareTable == config.source = "table" /\ config.table \in Boards

\* However the firmware's table goes to and fro between books and pages, and
\* whichever single one of its writes is lost, no coefficient is written over
\* the control registers (the order of the lines that select).
CoefsOffControls == FirmwareTable /\ lost <= 1 => chip.wild = "no"

\* Whichever single write is lost, the table leaves the chip on the page of
\* the control registers, where tas5805mSetVolume expects it to be
\* (the closing lines of the table, which repeat a selection just made).
ControlReached ==
    FirmwareTable /\ inited = "yes" /\ lost <= 1 => OnControls(chip)

\* After an initialisation without a lost write the amplifier plays.  Its
\* volume is the one of the table or the one set since; or it is the value of
\* an end marker (transmit_registers, CFG_END_1), if the chip takes register
\* \hcc for \h4c.
PlaysWhenClean ==
    FirmwareTable /\ inited = "yes" /\ lost = 0 =>
        /\ chip.state = 3
        /\ chip.volume =
               IF asked # Unknown THEN asked
               ELSE IF config.alias = "yes" THEN \hdd ELSE \h30

\* A volume that was set successfully is the chip's volume, even after an
\* initialisation that lost one write.
VolumeTaken ==
    FirmwareTable /\ inited = "yes" /\ lost <= 1 /\ asked # Unknown =>
        chip.volume = asked

Complete(script) ==
    \A k \in DOMAIN script :
        /\ script[k].kind = "w" => Len(script[k].vals) >= 3
        /\ script[k].kind = ">" => Len(script[k].vals) >= 1

\* The lines "w" of which line b shows that the command is complete: at most
\* one, with the lines ">" that follow it.
Starts(script, b) ==
    {a \in 1 .. b - 1 :
        /\ script[a].kind = "w" /\ script[b].kind # ">"
        /\ \A k \in a + 1 .. b - 1 : script[k].kind = ">"}

\* The command of the lines from a to the one before b.
CommandAt(script, a, b) ==
    [k \in 1 .. b - a + 1 |->
        IF k <= 2 THEN script[a].vals[k + 1] ELSE script[a + k - 2].vals[1]]

\* The commands of the first n lines of a text, by what the text means.
CommandsOf(script, n) ==
    LET ended[b \in 0 .. Len(script)] ==
            IF b = 0 THEN <<>>
            ELSE IF Starts(script, b) = {} THEN ended[b - 1]
            ELSE Append(ended[b - 1], CommandAt(script, CHOOSE a \in Starts(script, b) : TRUE, b))
    IN  ended[n]

\* At each line of a text, the commands that it has completed so far were sent,
\* each once, in order and with its data; the last command of a text without
\* a line behind it is not among them.
SentAsWritten ==
    config.source # "table" /\ Complete(config.script) =>
        sent = CommandsOf(config.script, i - 1)

\* tas5805mInit returns, unless calloc's NULL halted the ESP32 or it was reset:
\* the loops over the table and over the text come to their end, past bursts
\* and markers, too.
InitReturns == apc = "bus" ~> apc \in {"idle", "halted"}

=============================================================================
