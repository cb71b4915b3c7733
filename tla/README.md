# Verification of the acoustic factory test firmware

TLA+ models of the production test firmware in this repository (an ESP32
application on FreeRTOS), TLC configurations that check them on small
instances, and theorems about them that the TLAPS proof system checks.

A host program on a PC sends one-line commands over the UART
(`prod_test <case> <params>`), the firmware answers
`prod_test <case> success|error <params>`, and the audio cases stream the
microphone recording back as numbered binary frames.

## 1. Inventory

| Part | Source | State it keeps | Operations | Talks to |
|---|---|---|---|---|
| Command monitor | `main/command_monitor.c` | line buffer | flush RX, read a line, dispatch by prefix or substring, run the handler to its end | every handler; the host through the UART |
| Audio tests | `main/case/player_recorder_case.c`, `nolinear_case.c` | `testing` (one static flag per file), `testcase_header` | start (command task), `recorder_exec`, `player_exec` (a task each) | playback driver, SDK microphone, frame output |
| Frame output | `main/result_out.c` | `g_idx` | print a result, number and print a frame, dump a buffer, end a dump | UART |
| Playback driver | `components/player/bds_player.c` | `output_buf_16`, `output_buf_32`, the I2S driver, sample format, `s_resample` | load, write, drain, unload, volume | codecs, I2S, sample conversion |
| Serial number | `main/case/sn_case.c` | one string in NVS | get, set | NVS |
| System control, profile | `main/case/system_control.c` | one flash sector | reset, power off, fail, quit, version, write and read the profile | flash, GPIO |
| DSP tests | `main/case/dsp_check_case.c`, `dsp_intr.c` | none (the SDK client is lost) | start the SDK client, test the interrupt line | binary SDK |
| Boot | `main/main.c` | none | initialise NVS, start the command task | NVS |
| I2C bus | `components/codec/utility/i2c_bus.c` | bus pointer per port, one lock | create, write (read and delete have no caller) | both codecs |
| ES8156, ES7243E | `components/codec/TAS5805M/es8156.c`, `es7243e.c`, `es7243e/es7243e_driver.c` | registers of the chips | initialise, volume (mute, suspend and reads have no caller) | I2C bus |
| TAS5805M | `components/codec/TAS5805M/tas5805m.c`, `pa_config.c`, `tas5805_agc_drc3_eq0.h` | registers of the chip, in books of pages; the command a text builds up | send a table or a text of register writes, volume | I2C bus |
| Sample conversion | `components/codec/utility/audio_resample.c` | delay line, counters, filter memory | convert a block between rates and channels | playback driver |
| Volume | `bds_player.c` 319-369 and the parsers in the audio cases | the codec's register | parse, clamp, look up, set | ES8156 |
| SDK, ESP-IDF | `components/bds_light` (binary), outside | - | external | - |

**Where behaviour is hard.**

* *Concurrency.* The command task, a recorder and a player run at the same
  priority on two cores and share plain globals without a lock: the driver's
  buffers, `testcase_header`, `g_idx`, the flags. The flags are cleared when the
  tasks have been created, not when they have ended.
* *Failure.* Every `malloc`, task creation, codec and flash call can fail, and
  the error paths leave flags set, handles open or replies unsent.
* *Ordering.* A reply is printed before the command task is back at its flush;
  a command that arrives in between is lost, whole or in part.
* *Restarts.* The power may go at any point; NVS and the profile partition
  survive, and the sector of the profile is erased before it is written.
* *Boundaries.* Buffer loops over reads of varying size, the serial number's
  length limits, the heap that `profile_read` leaks; the border between two blocks
  of a stream, where a converted frame needs samples of both.
* *Silent loss.* Nobody looks at the result of the nearly 1700 writes that configure
  the amplifier, and the meaning of each depends on the page selected before it.

**What makes each part correct.** Audio tests: tests that do not overlap do not
disturb each other; whatever overlaps stays within its buffers and ends. Frame
output: a dump is complete, ordered and labelled with its own test. Driver: no
use after free, everything released. Console: each command is answered once
and truthfully. Serial number and profile: what was confirmed is what is stored.
Codecs: a test runs with configured chips and at its own volume, or not at all.
Amplifier: what is meant for one page never goes to another, and each command of
a table or text is sent once. Conversion: the sound that goes in comes out,
however it was cut into blocks, in buffers of the size it was given.

## 2. Modules

| Module | Models |
|---|---|
| `DacDriver` | load, write, drain and unload of the playback driver, one operator per step between two accesses to its globals |
| `AudioCase` | the three audio tests: command task, recorder and player tasks, shared state; composes `DacDriver` |
| `AudioProtocol` | abstract: what a host that waits sees of the audio tests |
| `AudioCaseInv` | the inductive invariant of `AudioCase`, and its refinement of `AudioProtocol` |
| `AudioCaseProofs`, `AudioOverlapProofs`, `AudioProtocolProofs` | theorems about `AudioCase`: with a patient host; with any host; the refinement |
| `MCAudioCase` | instances of `AudioCase` for TLC |
| `SnStore` | the serial number in NVS |
| `ProfilePartition` | the sector of the profile |
| `CommandMonitor` | the console and its handlers with host, resets and losses of power; composes `SnStore` and `ProfilePartition` |
| `CommandMonitorProofs`, `MonitorReplyProofs` | theorems about `CommandMonitor`: what it stores; what it says |
| `MCCommandMonitor` | instances of `CommandMonitor` for TLC |
| `I2cBus` | creation and writes of the I2C bus |
| `Codec` | boot and load as the codec chips see them, and the volume; composes `I2cBus` |
| `CodecProofs`, `MCCodec` | theorems about `Codec`, and its instances for TLC |
| `AmpTable` | the register table of the amplifier, entry by entry |
| `Tas5805m` | initialisation from a table or a text, and volume; composes `AmpTable` and `I2cBus` |
| `Tas5805mProofs`, `MCTas5805m` | theorems about `Tas5805m` (the chip under the firmware's whole table, any text), and its instances for TLC |
| `SampleStream` | abstract: what a conversion of the sample rate promises |
| `Resample` | the conversion block by block, and the driver functions that call it |
| `ResampleProofs`, `MCResample` | theorems about `Resample`, and its instances for TLC |

### 2.1 DacDriver and AudioCase

A buffer pointer is `"null"`, `"live"` or `"freed"`; the last one is the window
between `free(p)` and `p = NULL` in `duer_audio_dac_unload_driver`. `health`
becomes `"corrupt"` when a freed buffer is used or freed again (or memory is
freed under a player that uses it) and `"halted"` when a NULL pointer is used:
the panic handler of this build prints and halts (`sdkconfig`,
`CONFIG_ESP32_PANIC_PRINT_HALT`). No step follows either of them, so nothing is
claimed about a program whose behaviour is undefined.

In `AudioCase` a *slot* is a pair of recorder and player task. `cpc` is the place
of the command task in a start function, `rec[s]` and `ply[s]` are the places of the
tasks of slot `s`; each action is the code between two accesses to shared state:

| Action | Code |
|---|---|
| `Refuse`, `Begin` | `start_player_recorder_case`, `start_nolinear_case` up to the load. The header is overwritten before the flag is tested |
| `CmdI2s`, `CmdCodec`, `CmdBuf16`, `CmdBuf32` | `duer_audio_dac_load_driver`, each call with its failure |
| `CmdRecorder`, `CmdPlayer` | the two `xTaskCreate`, the second followed by `testing = 0` |
| `RecOpen` ... `RecClose` | `recorder_exec` |
| `RecIndex`, `RecEmit` | `out_print_data`: `g_idx++` is a load and a store; `RecEmit` also holds the loop of `data_out_exec` |
| `RecEnd` | `out_print_data_ctl` |
| `PlyStart`, `PlyCheck`, `PlyUse`, `PlyWait` | `player_exec` and `duer_audio_dac_write`, split between its NULL test and its use of the buffers |
| `PlyTest16` ... `PlyUninstall` | `duer_audio_dac_unload_driver` |

Left out: the branch of `player_exec` for a failed `duer_audio_dac_start_play`,
which always returns 0, and the volume (see `Codec`). The history
variables `frames`, `told` and `dropped` record what a test printed and lost.
`Overlap = TRUE` is a host that sends its next test whenever it likes; `Overlap = FALSE`
is a *patient* host, which waits until both tasks of a test have ended. No real host can
observe the end of the player, which prints nothing when it succeeds: a real one can only
wait for as long as a test may take. The patient host says what the firmware owes to a
host that does so.

**The protocol.** `AudioProtocol` has no tasks, driver or shared variables: a test
starts, prints frames of its own in order, gives replies of its own and ends, and
a file whose start failed refuses further tests. `AudioCase` with a patient host
implements it under this mapping (`AudioCaseInv!Protocol`), in which `cslot` is
the slot of the test started last:

| Protocol | AudioCase |
|---|---|
| `phase` | "starting" while `cpc` is inside a start function, "running" while one of the two tasks exists, "idle" otherwise |
| `test` | `kase[cslot]` |
| `refused` | the files whose `testing` is 1 |
| `dump`, `heard` | `frames[cslot]`, `told[cslot]` |

The abstract guards are what the shared globals of the code must amount to: a
frame carries the header of the one test there is although `testcase_header` is
shared, is numbered above the ones before it although `g_idx` is, never comes
after `record_end`, and no test ends unanswered but for a silent start.

### 2.2 CommandMonitor

The line travels as two chunks, its head and its tail with the newline, because
the flush can discard a head and leave the tail. `Flush` takes one chunk a step;
`Read` keeps a head in `line` until its tail arrives and then dispatches. A tail
without its head matches no command, with two exceptions (`FragmentReads`): the last letter
of `prod_test dsp` is a prefix of `prod_test task`, which `string_equal` accepts; and
what was typed as a serial number, or as a profile without its quotes, may end in whatever
`string_equal` takes for a command without parameter. Handlers that store something are split at every call that
can fail or be cut short: `SetSnCase`, `SetSnWrite`, `SetSnReply`;
`RunProfile`, `ProfileErase`, `ProfileWrite`, `ProfileReply`; `RunDsp`, `DspStart`,
`DspReply`. `PowerCut` is enabled in every state: memory and the RX buffer are
gone, a flash call under way may leave the sector torn, NVS entries are atomic.

Serial numbers are `ShortSns` (1 to 30 characters) and `LongSns` (31); `"bad"`
stands for parameters the handler rejects. What a parameter contains is not
modelled further: a serial number or profile that holds the text of another command, which
`string_content` finds anywhere in a line, is left out.

An audio command returns when its tasks exist. `RunAudio` overwrites `testcase_header`, as
the code does before it looks at its flag, and adds the file to `audio`, the files whose
tasks may still print; `AudioTask` is such a task, which prints an error or the end of its
dump at any time while the command task runs other commands, under the name
`HeaderOf` gives at that moment. How many tasks there are, and what they do with the
driver, is in `AudioCase`.

`said` collects the replies since the host began its last command and `late` the names
under which tasks could still print when it did; `acked` and `packed` are what the last
confirmation promised, and `wiped` tells that NVS was erased at a boot since. `Boot` is
`nvs_flash_init`, the erasure if NVS was full (`NvsOpened`), and then, after either, the
abort for any other error. `ProfileRead` on a partition that is not terminated halts the
device or prints what is there and answers. `MallocFails` covers small blocks as well, so that an
exhausted heap also reaches `profile_write`, where one missing block gives "param error!"
and another halts the device.

### 2.3 Codec

`cpc` is the place of the one task that uses the bus: the main task at boot
(on the board that initialises the ADC there), then the command task in
`codec_init` and `duer_audio_dac_set_volume`. `step` is the line of the register
script under way; `BootAdc`, `DacLine`, `AdcLine` and `SetVolume` write one register
each. A write may be acknowledged, or be lost with or without the chip having
taken the value. `Restart` keeps the registers of the chips, `PowerCut` does not; both
are enabled everywhere, in the middle of a script too. `i2c_bus` is `"freed"` after a
failed creation, as the code leaves it: a pointer that is not NULL, to freed memory,
which nothing dereferences. `ParsedVolume`, `TableEntry` and `DacLevel` take the
characters of the parameter to the register: what is not a digit is read as one,
so that negative volumes and volumes up to some thousands reach the table.

Left out: the flags that refuse a test (they are in `AudioCase`; any order of
starts is possible here), delays, GPIOs, the lock of the bus (one task at a time
uses it), and functions of the codecs that nothing calls. `AudioCase` sees
`codec_init` as one call that may fail.

### 2.4 AmpTable and Tas5805m

`AmpTable` is the table of `tas5805_agc_drc3_eq0.h`, nearly 1700 entries, with its order and every
address as in the code, and the coefficient values abstracted to `Unknown`.
`Tas5805m` runs `tas5805mInit`: the reset pin, the bus, then the configuration,
one action per entry of a table (`TableStep`) or line of a text (`TextLine`). The
build chooses table, text in memory or text in a file; `config` is that choice, so
one run covers the three. Texts are sequences of lines: `w` begins a command, `>` adds
to it, anything else ends it. A line too short leaves in the command buffer what
was there, and in a file finds anything behind the end of the text (`GetValues`).

The chip is modelled as far as the properties need it: page, book, the two control
registers of state and volume, and `wild`, set when a coefficient may have gone
to the control registers. A write is done, or lost after any number of its bytes
(`WriteLost`), up to `MaxLost` times in one configuration. Whether the chip
takes register numbers above 0x7f for the ones without bit 7 is not known to the code;
`config.alias` has both.

What the model made visible about this code, beside the properties:

* After a lost write `tas5805mInit` still returns 0, and the amplifier may be in
  another state than the playing one. With two lost writes `CoefsOffControls` and
  `ControlReached` fail: one lost selection of a page alone is harmless because the
  table selects page and book again each time.
* The `break` at the end marker leaves the `switch` only: the two entries behind it
  are written as registers 0xcc and 0xee. If the chip drops bit 7, the first is
  the volume.
* The length of a burst, by the example in the table's header, counts the register among
  the bytes that are sent; the code sends the register and that many bytes behind it, one
  more, which would go to the register behind a burst of an even number of data. No table
  of the repository has a burst.
* The last command of a text without another line behind it is never sent, and
  the number of `>` lines is not held against `PA_CMD_MAX_LEN` (`AmpAssumption`
  states what the code takes for granted).

The firmware's calls of `tas5805mInit` are commented out (`bds_player.c`): the model is
of the driver as it stands in the tree, not of a step of the boot.

### 2.5 SampleStream and Resample

`SampleStream` is the promise: frame `e` that goes out lies at place `e * src / tar` of the
input and is the frame there or the mean of its two neighbours, weighted by how
near they are. `Resample` is the code: `Call` is `duer_audio_dac_write` with a block of
any size, `Interpolate` a turn of the loops in `resampling_mono`, `resampling_dual` and
`resampling_dual_down_ch` (frames before the block come from the delay line
`inpcm`), `EndOfBlock` the new delay line and the counters, which are taken back by
a second when both have passed one, `Filter` the filter of each channel, `Double`
a turn of the loop that makes mono stereo in place, from the end. A sample is its place
in the stream (`<<frame, channel>>`) and a sample put out the set of those it is the mean
of, with weights: equality of sets is equality of sound, whatever the values.
`Resample` implements `SampleStream` under the identity on `stream`, `fed`, `emitted` and `last`.

The quotient that the code computes in single precision is exact here: for rates from 8
to 48 kHz into 48 kHz its integer part is right while the counters are below
60000, which `CountersBounded` keeps them. Before the first block and behind a short
one there is other memory (`Junk`); the theorem shows it is never heard, since the
code reads at most one frame before the block. `output_buf_16` has
`CODEC_OUTPUT_BUFSIZE` = 24 KiB, which is 12288 samples: `WithinOutput` says which blocks
fit (4096 bytes of 8 kHz stereo exactly; of 8 kHz mono made stereo, 2048). The tests
of this firmware play 48 kHz mono, the path of `Copy`; the other paths
are the driver's for any other caller.

## 3. Runs

All passing runs finish within two minutes on two workers.

### 3.1 Audio tests

| Run | Instance | Question and result |
|---|---|---|
| `AudioPatient` | 1 slot reused, a patient host, all eleven calls fail at will; record 8 bytes, reads of up to 3, frames of 2, play 5 in chunks of 2; fair tasks | After any history of failed and successful tests: no use after free, no dropped chunk (`DriverOutlivesPlayer`); frames labelled and numbered (`FramesNumbered`); replies labelled, dumps complete (`RepliesTrue`); recorder and player within their buffers (`WithinBuffers`); everything released between tests (`ReleasedWhenIdle`); the protocol (`HostSeesProtocol`); every test is answered but for a silent start (`AnsweredOrRefused`) and all tasks end (`TasksEnd`). The inductive invariant of the proofs (`PatientInv`). Holds |
| `AudioOverlap` | 2 slots, one test each, any overlap, no failures; record 2 bytes, reads of up to 2, play 3 in chunks of 2 | buffer bounds of recorder and player (`WithinBuffers`), one header per dump (`DumpKeepsHeader`). Holds |
| `AudioFrameIndex` | 2 slots, overlap | **violated**: README line 27 says that frame numbers start at 0; overlapping dumps share `g_idx` |
| `AudioFreed` | 2 slots, overlap | **violated**: `duer_audio_dac_write` tests its buffers so that they are there when it uses them (`CheckedBuffersHold`); the player of another test frees them in between |

Beside these two, the model shows the following, in behaviours that a reader finds by
following its actions; the properties above hold with them:

* The reply "testing" means neither of what it says. The flag is cleared when the tasks are
  created (`CmdPlayer`), so it refuses no test because another one runs; a start that
  failed leaves it set until the next reset (`AudioProtocol` states this as `refused`).
* `pa_mic` and `mic_seal` leave without a reply when the driver does not load (the exception
  in `AnsweredOrRefused`), although README line 26 promises a response.
* With overlapping tests a reply may bear the name of the later one: `testcase_header` is
  overwritten before the flag is looked at. Only the frames of a dump keep one name.

Why the bounds are enough: the sizes give a recording of several reads whose last
one may or may not fit, a dump of several frames, a play of more than one chunk and a
limit that is passed inside a chunk, as in the code (192000 bytes in chunks of
1024). A patient host has one test at a time, so one reused slot reaches every
remainder of a previous test; the theorems are for any number. With a guard that is off
by one, a read of up to 3 bytes passes the end of the record in `AudioPatient`, and a read
of 2 in `AudioOverlap`. Two slots are all that is needed for one task to disturb
another, and three concurrent tests add no new pair of steps. `Reuse = FALSE` (each slot holds one test) bounds the
overlapping runs, whose counter `g_idx` would otherwise grow.

Deadlock is not checked where `Reuse = FALSE`: there the system ends.

### 3.2 Console

| Run | Instance | Question and result |
|---|---|---|
| `MonitorEager` | a host that pipelines, 2 chunks in the RX buffer, 2 serial numbers, 2 profiles, an audio test, all calls fail, losses of power | a confirmed serial number stays stored, unless a full NVS was erased at a boot, and then there is none (`SnKept`); a confirmed profile stays stored (`ProfileKept`). Holds |
| `MonitorSlow` | a host that sends when the device reads, the two audio tests that share a header, all failures but those of `profile_read`, losses of power | every command but an audio test is answered, or the device halts (`Answered`); what the host hears answers its last command or comes from an audio test that was running when it sent that (`RepliesAttributable`); no command but dsp is both confirmed and reported as failed (`VerdictStands`). Holds |
| `MonitorPrompt` | a host that sends once it was answered | **violated**: the flush eats the next command (README line 26) |
| `MonitorLongSn` | a serial number of 31 characters | **violated**: accepted ("between 1 and 31") but unreadable (`SnReadable`) |

`VerdictStands` excludes dsp because of `DspStart`: a client that does not start is
reported as failed and, by `start_dsp_check_case`, as a success as well. A read
of the profile that fails is the one command without any reply of its own
(`ProfileRead`), so `MonitorSlow` leaves these two failures to `MonitorEager`.
`Answered` excuses a device that halts, and `profile_read` may halt it: each call leaks its
block, and what was never written, or was torn, is printed as a string. A serial number that
was written is confirmed by its own reply only: the line `prod_test task success` of
README line 32 comes with a boot or a task command.
Replies of an audio test do arrive during later commands, and a slow host cannot keep them
away; what it can rely on is that they bear a name it has started a test of.
That this name is the right one of two tests with a shared header is not so.

Bounds: two chunks hold one line, so a second one meets a full buffer and the
flush meets every cut of a line; two values tell an old one from a new one; a
heap of one block reaches exhaustion after one read. The constant `Tests` names the audio tests
the host uses: `pa_mic` and `mic_seal` in the runs that attribute replies, `nolinear` alone in
`MonitorEager`, whose properties do not look at replies. Serial numbers
and profiles are interchangeable there (`StoreSymmetry`). Counters are not needed: a loss of
power brings the state back.

### 3.3 Codec

| Run | Instance | Question and result |
|---|---|---|
| `CodecStart` | both boards, three volume parameters and two defaults, one failing call in each start, resets and losses of power | a lost write to the ADC never passes for a success (`AdcReported`); a start without failures repairs both chips and sets its own volume (`CleanStartConfigures`); the level stays in range (`VolumeInRange`); a dead bus lets no test go on (`DeadBusRefuses`). Holds |
| `CodecDac` | the same | **violated**: the load returns 0 ("0, if success", `bds_player.h`) with a DAC that is not configured |

One failure in each start is enough to lose any line of a script and to meet what
an earlier start left; two failures in one start add nothing, because `ret |=`
never goes back. The parameters are no volume, one below 0 and one at the upper end;
`LevelRange` and `LevelFalls` prove what they say for every integer. `MaxFaults` and `Params` are
the only bounds, and the proofs do without them.

### 3.4 Amplifier and sample conversion

| Run | Instance | Question and result |
|---|---|---|
| `AmpInit` | the whole table of both boards, a table with bursts of even and odd length and a false end marker, every text of up to four lines, from memory and from a file; up to 2 lost writes, resets, both kinds of chip | after one lost write, whichever it is, no coefficient was written over the control registers (`CoefsOffControls`) and they are selected in the end (`ControlReached`), so that a volume set successfully is the chip's (`VolumeTaken`); without one the amplifier plays (`PlaysWhenClean`); each complete command of a text is sent once, in order and with its data (`SentAsWritten`); the initialisation returns (`InitReturns`). Holds |
| `Resample` | mono, stereo, one made two, one of two; five pairs of rates, blocks of 1, 2, 5 and 14 samples, up to 32 frames | the conversion implements `SampleStream` (`SoundGoesThrough`); output within its bound (`WithinOutput`) and whole (`OutputWhole`); counters (`CountersBounded`) and filters (`FilterKeepsUp`) keep up. Holds |

Bounds: the table is the real one. `MaxLost = 2` is one more than the properties
allow for; what two lost writes can do is told in 2.4. Four lines make a command of
two lines between two others. In `Resample` a second is 14 or 15 frames instead of 8000 and
more: the properties depend on the ratio of the rates only (up by 6, by 3, and by
15/14 with no common places, equal, and down by 3/2), blocks are shorter and longer than
the delay line of 6 frames, and 32 frames take the counters back twice. The proofs
are for all rates, and those of the amplifier for all texts and any number of lost writes.

### 3.5 Fairness

`AudioCase!FairSpec` has weak fairness of the command task and of every recorder
and player: FreeRTOS runs tasks of equal priority in time slices, and each loop
sleeps or blocks on an I/O call that returns. `CommandMonitor!FairSpec` has weak
fairness of the command task and of the tail of a line the host began. The host owes no
command, and the tasks of audio tests owe no print. `Tas5805m!AmpFairSpec` has weak fairness of the steps inside an initialisation,
which one task carries out; nobody has to begin one. An `I2S` write and a
microphone read are assumed to return, the latter with at least one byte.

## 4. Proofs

`AudioCaseProofs`, for any slots, sizes, failing calls and hosts, from
`SlotAssumption`, `RecordAssumption` and `WavAssumption` (the embedded files are
a chunk longer than what is played; measured on the files of the repository):

* `TypeCorrect`: `Spec => []TypeOK`.
* `PatientHostInvariant`: `Spec => []PatientInv`, and from it `DriverOutlives`,
  `Numbered`, `Replied`, `ReleasedBetweenTests`.
* `BuffersRespected`: `Spec => []WithinBuffers`, overlap included.

None of the safety properties is inductive. `PatientInv` is built in layers,
each proved inductive relative to the ones below: **control** (at most one test is
active, it owns the flag while it starts, and the shared header is its own),
**driver** (what is loaded follows from where the command task or the one player
is, a freed pointer has a player about to clear it, and an unloaded driver is
the only one without an owner), **dump** (the counter belongs to the one recorder
that dumps, and what it has printed is numbered below it). The buffer bounds have
an invariant of their own (`InBounds`), because they need no control.

`CommandMonitorProofs`, for any host, buffer, heap and set of failing calls, from
`SnAssumption`, `ProfileAssumption` and `MonitorAssumption`: `ConsoleInvariant`,
and from it `ConsoleTypes`, `SerialNumberKept` and `ConfirmedProfileKept`. A
confirmed serial number is there through any resets and losses of power until the next
`set_sn`, with the one exception that the theorem states: `app_main` erased a full NVS, and
then no other number has taken its place. The
invariant adds what a handler relies on between its steps: it goes on only with
a legal parameter, "success" is recorded only for what was stored, and an old
confirmation is withdrawn before the sector is touched.

`CodecProofs`, for any volume parameters and any number of failing calls, from
`CodecAssumption`: `CodecInvariant`, and from it `AdcFailuresReported`, `CleanStart`,
`VolumeBounded`, `DeadBus` and `CodecTypes`. The lemma they rest on is `SettledStep`: if
the first n lines of a script have taken effect, and line n + 1 is written, then
n + 1 lines have, although lines may write the same register again. The invariant
says that a load without an error so far has settled the lines it has passed.
`LevelRange` covers every integer.

`LevelFalls`, that the larger of two volumes never gives a higher level, is the same case
split over the places of the table. It is hardly wanted behaviour: the volume that
`ES8156_codec_get_voice_volume` reports rises with the level (`es8156.c` 562-589), and the table,
written for the amplifier, turns every louder request into the same or a lower one.

`AudioOverlapProofs`, for any host, overlap included: `HeaderKept`, which rests on an
invariant of its own that says nothing of other tests: which header a dump took.

`TasksAdvance`, in the same module and for any host, is what the prover can do of
`TasksEnd`: every step of a recorder or player leaves it less to do, in a number of
steps computed from the sizes (`RecWork`, `PlyWork`) that no other step of the system
makes larger. It needs that a dump goes on only while another frame is left
(`DumpSent`) and the bounds of the loops (`InBounds`).

`AudioProtocolProofs`: `ProtocolImplemented`, that `Spec` with a patient host implements
`AudioProtocol`. Beside `PatientInv` it needs that a test that left its start has
answered or runs on, and that nothing was said or printed after `record_end`; then
there is one lemma per action: what the host sees of it is one step of the
protocol or none.

`MonitorReplyProofs`, for a slow host: `ConversationInvariant`, from which `RepliesBelong` and
`NoContradiction` follow. `ReplyInv` is about the command task: it ties the chunks on the
wire to the host's last command (nothing of an older one is left when a handler runs) and each
place of a handler to what the handlers may have said before. `Beside` is about the tasks
of audio tests: under which names they can print now, and that they never print a
success.

`ResampleProofs`, for all rates, blocks and lengths, from `StreamAssumption` and
`SizeAssumption`, in three layers. `CountersInvariant`: the counters differ from the
frames that came and went by the same number of seconds, and the end of a block
leaves at most its last frame for the next; this gives `CountersStay` and
`OutputFits`, and that the next frame lies at or behind the last frame before the
block. `SoundInvariant`: the last cell of the delay line is that frame; this gives
`SoundImplemented`, the step simulation of `SampleStream`. `BufferInvariant`: at each step of
the doubling the front of the buffer is not yet touched and its back is done; this gives
`OutputComplete`. `FilterComplete` and `ResampleTypes` complete the list.

`Tas5805mProofs`, for any other tables, texts, volumes and number of lost writes, from
`AmpAssumption`: an entry of a table is two bytes and no burst reaches past the
table (`StaysInside`, which the firmware's table is proved to do: lemma
`TablesStayInside`), a line of a text has bytes, and the text has no more lines than
the command buffer has room for. Three invariants, one on top of the other:

* `AmpInv`: types, and that both loops stay inside: the place in a table is one of its
  `heads`, the length of a command is bounded by the line. It gives `AmpTypes`.
* `ChipInv`, for `CoefsStayOff`, `ControlLeft`, `PlaysWhenInited` and `VolumeKept`. The
  four properties speak of the end of nearly 1700 writes, so that what is needed is
  an assertion about the chip between any two entries (`OnTheWay`), for the case that no
  write was lost so far and for the case that one was. `Follows` is the rule for one
  entry: from each chip of the assertion before it, the entry written leads to the
  assertion behind it, and the entry lost to the one behind it for one loss.
  `Leads(alias, A, B)` is the set of tables that can be annotated in this way from A to B, and
  `LeadsJoin` composes them, so that the table is proved row by row. Five kinds of
  places are enough until the closing lines (`Sane`, `OnPage0`, `OnBook`, `OnCoefs`,
  `Away`): what one lost selection leaves is always either another page than 0,
  or page 0 of a book of coefficients, because page 0 and the book are selected again
  each time; `RegisterTuning` selects twice, so that either selection may be lost. The result is
  `FirmwareLeads`, of which `ChipInv` follows one entry at a time.
* On `AmpInv` also rests `InitAdvances`: every step of an initialisation leaves less to do
  (`InitWork`), whatever the bursts, lines and lost writes.
* `TextInv`, for `CommandsSent`: at most one command is open at a line, and the buffer holds
  exactly what the lines from its beginning gave.

`TakeBytes` and `CommandsOf` are recursive functions. That such a definition has a solution
is proved without an induction rule: the least length for which there were none
(`LeastNumber`, from the well-foundedness of the naturals) is neither 0 nor the
successor of one (`RunExists`, `EndedExists`).

Only model-checked: liveness (`AnsweredOrRefused`, `TasksEnd`, `Answered`, `InitReturns`),
which is out of reach of the prover; of `TasksEnd` and `InitReturns` the decreasing
measure is proved, and what is left is that the scheduler gives the tasks their turn. Every other property of a passing run is
the statement of a theorem.

## 5. Not modelled

* The binary SDK, ESP-IDF and the UART hardware, except as calls with outcomes.
* In `components/codec` and `bds_player.c`, functions that nothing calls: deletion, reads and raw
  commands of the bus, mute, suspend and standby of the codecs, reading and adjusting
  the volume, the backup functions of the player.
* The values of samples and of coefficients, and rounding: a sample is which
  samples it was computed from. The filter after a conversion is only counted.
* What the codec's levels mean to the ear. The table of volumes is the one of another
  amplifier; `LevelFalls` is about the number in the register only.
* `string_equal` and `string_content` as loops over characters: which commands a
  whole line or its rest matches is in the dispatch of `CommandMonitor`. A parameter that
  contains the text of another command is left out.
* How many clients the SDK bears: `dsp_sdk_init` is given the handle by value, so that every
  dsp command creates another one, and what happens then is inside the binary.
* The wording of messages. The firmware prints "error" where README line 26 says
  "fail"; the models only tell success from failure.
* `build/`, generated headers, scripts.

## 6. Plan

1. *Done*: `DacDriver`, `AudioCase`; `SnStore`, `ProfilePartition`, `CommandMonitor`;
   `I2cBus`, `Codec`; `AmpTable`, `Tas5805m`; `Resample`, each with runs and proofs.
2. *Done*: the abstract specifications `AudioProtocol` and `SampleStream` with their
   refinements, checked and proved.
3. Possible next steps: the full composition of `CommandMonitor` and `AudioCase` (today the
   console sees of a running test only what it prints); single precision in `Resample` beyond the
   range argued for above; the functions that have no caller, when they get one.
