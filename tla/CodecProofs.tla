----------------------------- MODULE CodecProofs ----------------------------
(***************************************************************************)
(* Theorems about Codec: what holds of the chips for every volume          *)
(* parameter and any number of failing calls.                              *)
(***************************************************************************)
EXTENDS Codec, SequenceTheorems, TLAPS

-----------------------------------------------------------------------------
(* The inductive invariant. *)

\* A test is being started.
Starting == {"i2s", "dac_bus", "dac", "adc_bus", "adc", "bufs", "volume"}

Typed ==
    /\ CodecTypeOK
    /\ cpc \in {"adc", "boot_adc"} => step <= Len(AdcScript)
    /\ cpc \in Starting => vol \in Int

\* The driver is there as long as the bus is, and a start that has passed the
\* creation of the bus finds it again.
BusShape ==
    /\ Installed <=> i2c_bus = "live"
    /\ cpc \in {"dac", "adc_bus", "adc", "bufs"} => i2c_bus # "null"
    /\ loaded # "none" => cpc = "idle"

\* A load without an error so far has written the lines of the ADC, and over
\* a live bus.
AdcProgress ==
    /\ cpc = "adc" /\ ret = 0 => Settled(adc, AdcScript, step - 1)
    /\ cpc = "adc" /\ ret = 0 /\ step > 1 => Installed
    /\ cpc = "bufs" => ret = 0
    /\ cpc = "bufs" \/ (cpc = "volume" /\ ret = 0) => Installed /\ AdcConfigured
    /\ loaded = "ok" => Installed /\ AdcConfigured

\* No call of this start has failed.
Clean == Installed /\ faults = 0

\* A start without failures has written the lines of the DAC, too.
DacProgress ==
    /\ cpc \in {"i2s", "dac_bus", "dac", "adc_bus"} => ret = 0
    /\ cpc \in Starting /\ Clean => ret = 0
    /\ cpc = "dac" /\ Clean => Settled(dac, DacScript, step - 1)
    /\ cpc \in {"adc_bus", "adc", "bufs", "volume"} /\ Clean => DacConfigured
    /\ loaded # "none" /\ Clean => loaded = "ok" /\ DacAtVolume

CodecInv == Typed /\ BusShape /\ AdcProgress /\ DacProgress /\ VolumeInRange

-----------------------------------------------------------------------------
(* The scripts and the volume. *)

Line == (0 .. 255) \X (0 .. 255)

LEMMA AdcLines ==
    /\ Len(AdcScript) = 29
    /\ \A i \in 1 .. 29 : AdcScript[i] \in Line /\ AdcScript[i][1] \in AdcRegs
<1>1. AdcScript \in Seq(Line) /\ Len(AdcScript) = 29
  BY SMTT(60) DEF AdcScript, Line
<1>2. DOMAIN AdcScript = 1 .. 29 /\ \A i \in 1 .. 29 : AdcScript[i] \in Line
  <2>1. DOMAIN AdcScript = 1 .. Len(AdcScript)
    BY <1>1, LenProperties
  <2>2. \A i \in 1 .. Len(AdcScript) : AdcScript[i] \in Line
    BY <1>1, ElementOfSeq
  <2> QED BY ONLY <1>1, <2>1, <2>2, Zenon
<1>3. \A i \in DOMAIN AdcScript : AdcScript[i][1] \in AdcRegs
  BY Zenon DEF AdcRegs
<1> QED BY ONLY <1>1, <1>2, <1>3, Zenon

LEMMA Twice ==
    ASSUME NEW S, NEW h \in Seq(S), Len(h) = 16
    PROVE  \A i \in 1 .. 32 : (h \o h)[i] = IF i <= 16 THEN h[i] ELSE h[i - 16]
<1>1. \A i \in 1 .. Len(h) + Len(h) : (h \o h)[i] =
          IF i <= Len(h) THEN h[i] ELSE h[i - Len(h)]
  BY ConcatProperties
<1>2. PICK n \in Nat : n = 16 /\ Len(h) = n
  OBVIOUS
<1>3. \A i \in 1 .. n + n : (h \o h)[i] = IF i <= n THEN h[i] ELSE h[i - n]
  BY ONLY <1>1, <1>2, Zenon
<1>4. \A i \in 1 .. 32 : i \in 1 .. n + n
  BY ONLY <1>2
<1> QED
  BY ONLY <1>2, <1>3, <1>4

LEMMA DacLines ==
    /\ DacScript \in Seq(Line)
    /\ Len(DacScript) = 32
    /\ \A i \in 1 .. 32 : DacScript[i] \in Line /\ DacScript[i][1] \in DacRegs
    /\ \A i \in 1 .. 32 : DacScript[i][1] = VolumeReg => DacScript[i][2] = \hbf
    /\ VolumeReg \in DacRegs
<1>1. DacHalf \in Seq(Line) /\ Len(DacHalf) = 16
  BY DEF DacHalf, Line
<1>2. DacScript \in Seq(Line) /\ Len(DacScript) = 32
  <2>1. DacHalf \o DacHalf \in Seq(Line)
    BY <1>1, ConcatProperties
  <2>2. Len(DacHalf \o DacHalf) = Len(DacHalf) + Len(DacHalf)
    BY <1>1, ConcatProperties
  <2> QED BY <1>1, <2>1, <2>2 DEF DacScript
<1>x. \A i \in 1 .. 32 : DacScript[i] = IF i <= 16 THEN DacHalf[i] ELSE DacHalf[i - 16]
  <2>1. \A i \in 1 .. 32 : (DacHalf \o DacHalf)[i] =
            IF i <= 16 THEN DacHalf[i] ELSE DacHalf[i - 16]
    BY ONLY <1>1, Twice
  <2> QED BY ONLY <2>1, Zenon DEF DacScript
<1>3. /\ \A i \in 1 .. 32 : DacScript[i] \in Line /\ DacScript[i][1] \in DacRegs
      /\ \A i \in 1 .. 32 : DacScript[i][1] = VolumeReg => DacScript[i][2] = \hbf
  <2>1. DOMAIN DacScript = 1 .. 32 /\ \A i \in 1 .. 32 : DacScript[i] \in Line
    <3>1. DOMAIN DacScript = 1 .. Len(DacScript)
      BY <1>2, LenProperties
    <3>2. \A i \in 1 .. Len(DacScript) : DacScript[i] \in Line
      BY <1>2, ElementOfSeq
    <3> QED BY ONLY <1>2, <3>1, <3>2, Zenon
  <2>2. \A i \in DOMAIN DacScript : DacScript[i][1] \in DacRegs
    BY Zenon DEF DacRegs
  <2>3. \A i \in 1 .. 16 : DacHalf[i][1] = VolumeReg => DacHalf[i][2] = \hbf
    BY SMTT(60) DEF DacHalf, VolumeReg
  <2>4. ASSUME NEW i \in 1 .. 32, DacScript[i][1] = VolumeReg
        PROVE  DacScript[i][2] = \hbf
    <3>1. CASE i <= 16
      BY <1>x, <2>3, <2>4, <3>1
    <3>2. CASE ~(i <= 16)
      <4>1. i - 16 \in 1 .. 16
        BY <3>2
      <4> QED BY <1>x, <2>3, <2>4, <3>2, <4>1
    <3> QED BY <3>1, <3>2
  <2>5. \A i \in 1 .. 32 : DacScript[i][1] \in DacRegs
    BY ONLY <2>1, <2>2, Zenon
  <2>6. \A i \in 1 .. 32 : DacScript[i] \in Line
    BY ONLY <2>1, Zenon
  <2> QED BY <2>4, <2>5, <2>6
<1>4. DacScript[9][1] = VolumeReg
  <2>1. DacScript[9] = DacHalf[9]
    BY <1>x
  <2>2. DacHalf[9][1] = VolumeReg
    BY DEF DacHalf, VolumeReg
  <2> QED BY ONLY <2>1, <2>2, Zenon
<1>5. VolumeReg \in DacRegs
  BY <1>3, <1>4
<1> QED BY <1>2, <1>3, <1>5

\* Every volume a host can ask for, and any other integer, gives a level
\* between those of the table's ends.
THEOREM LevelRange == \A v \in Int : DacLevel(TableEntry(v)) \in 93 .. 191
<1> SUFFICES ASSUME NEW v \in Int
             PROVE  DacLevel(TableEntry(v)) \in 93 .. 191
  OBVIOUS
<1>1. PICK i \in 1 .. 21 : TableEntry(v) = g_vol_tbl[i]
  <2> DEFINE fifth == IF v >= 0 THEN v \div 5 ELSE -((-v) \div 5)
  <2>1. fifth \in Int
    OBVIOUS
  <2> HIDE DEF fifth
  <2>2. AtLeast(0, AtMost(20, fifth)) + 1 \in 1 .. 21
    BY <2>1 DEF AtLeast, AtMost
  <2> QED BY <2>2 DEF TableEntry, fifth
<1>2. \A j \in 1 .. 21 : g_vol_tbl[j] \in 49 .. 255
  BY DEF g_vol_tbl
<1>3. TableEntry(v) \in 49 .. 255
  BY <1>1, <1>2
<1>4. \A e \in 49 .. 255 : DacLevel(e) \in 93 .. 191
  BY DEF DacLevel, AtLeast, AtMost
<1> QED BY <1>3, <1>4

\* The larger of two volumes is the same place in the table or a later one, and
\* the table falls: no integer is answered with a higher level than a smaller one,
\* although the volume that ES8156_codec_get_voice_volume reports rises with the
\* level (duer_audio_dac_set_volume).
THEOREM LevelFalls ==
    \A v, w \in Int : v <= w => DacLevel(TableEntry(w)) <= DacLevel(TableEntry(v))
<1> SUFFICES ASSUME NEW v \in Int, NEW w \in Int, v <= w
             PROVE  DacLevel(TableEntry(w)) <= DacLevel(TableEntry(v))
  OBVIOUS
<1> DEFINE Fifth(x) == IF x >= 0 THEN x \div 5 ELSE -((-x) \div 5)
           Place(x) == AtLeast(0, AtMost(20, Fifth(x))) + 1
<1>1. Fifth(v) \in Int /\ Fifth(w) \in Int /\ Fifth(v) <= Fifth(w)
  OBVIOUS
<1>2. TableEntry(v) = g_vol_tbl[Place(v)] /\ TableEntry(w) = g_vol_tbl[Place(w)]
  BY DEF TableEntry
<1> HIDE DEF Fifth
<1>3. Place(v) \in 1 .. 21 /\ Place(w) \in 1 .. 21 /\ Place(v) <= Place(w)
  BY <1>1 DEF AtLeast, AtMost
<1> HIDE DEF Place
<1>4. /\ \A i \in 1 .. 21 : g_vol_tbl[i] \in 49 .. 255
      /\ \A i, j \in 1 .. 21 : i <= j => g_vol_tbl[j] <= g_vol_tbl[i]
  BY DEF g_vol_tbl
<1>5. /\ TableEntry(v) \in 49 .. 255 /\ TableEntry(w) \in 49 .. 255
      /\ TableEntry(w) <= TableEntry(v)
  BY <1>2, <1>3, <1>4
<1>6. \A a, b \in 49 .. 255 : a <= b => DacLevel(a) <= DacLevel(b)
  BY DEF DacLevel, AtLeast, AtMost
<1> QED BY <1>5, <1>6

LEMMA ParsedInt ==
    ASSUME NEW param \in Params, NEW default \in DefaultVolumes
    PROVE  ParsedVolume(param, default) \in Int
<1>1. param \in Seq(0 .. 255)
  BY CodecAssumption
<1>2. \A i \in 1 .. Len(param) : param[i] \in Int
  <2>1. \A i \in 1 .. Len(param) : param[i] \in 0 .. 255
    BY <1>1, ElementOfSeq
  <2>2. \A x \in 0 .. 255 : x \in Int
    OBVIOUS
  <2> QED BY <2>1, <2>2
<1>3. CASE Len(param) = 1
  BY <1>2, <1>3 DEF ParsedVolume
<1>4. CASE Len(param) = 2
  BY <1>2, <1>4 DEF ParsedVolume
<1>5. CASE Len(param) = 3
  BY <1>2, <1>5 DEF ParsedVolume
<1>6. CASE Len(param) \notin {1, 2, 3}
  BY <1>6 DEF ParsedVolume, DefaultVolumes
<1> QED BY <1>3, <1>4, <1>5, <1>6

-----------------------------------------------------------------------------
(* What one more line does to a chip. *)

LEMMA SettledStart ==
    ASSUME NEW chip, NEW script, NEW n, n = 0
    PROVE  Settled(chip, script, n)
BY DEF Settled

LEMMA SettledStep ==
    ASSUME NEW chip, NEW script, NEW n \in Nat,
           \A i \in 1 .. n + 1 : script[i][1] \in DOMAIN chip,
           Settled(chip, script, n)
    PROVE  Settled([chip EXCEPT ![script[n + 1][1]] = script[n + 1][2]], script, n + 1)
<1> DEFINE next == [chip EXCEPT ![script[n + 1][1]] = script[n + 1][2]]
<1> SUFFICES ASSUME NEW i \in 1 .. n + 1,
                    \A j \in i + 1 .. n + 1 : script[j][1] # script[i][1]
             PROVE  next[script[i][1]] = script[i][2]
  BY DEF Settled
<1>1. CASE i = n + 1
  BY <1>1
<1>2. CASE i # n + 1
  <2>1. script[n + 1][1] # script[i][1] /\ i \in 1 .. n
    BY <1>2
  <2>2. chip[script[i][1]] = script[i][2]
    BY <2>1 DEF Settled
  <2> QED BY <2>1, <2>2
<1> QED BY <1>1, <1>2

LEMMA SettledAppend ==
    ASSUME NEW S, NEW script \in Seq(S), NEW w \in S, NEW chip,
           \A i \in 1 .. Len(script) : script[i][1] \in DOMAIN chip,
           w[1] \in DOMAIN chip,
           Settled(chip, script, Len(script))
    PROVE  Settled([chip EXCEPT ![w[1]] = w[2]], Append(script, w), Len(script) + 1)
<1> DEFINE n == Len(script)
           longer == Append(script, w)
<1>1. n \in Nat
  OBVIOUS
<1>2. /\ \A i \in 1 .. n : longer[i] = script[i]
      /\ longer[n + 1] = w
  BY AppendProperties
<1> HIDE DEF longer
<1>3. \A i \in 1 .. n + 1 : longer[i][1] \in DOMAIN chip
  <2> TAKE i \in 1 .. n + 1
  <2>1. CASE i = n + 1
    BY <1>2, <2>1
  <2>2. CASE i # n + 1
    BY <1>1, <1>2, <2>2
  <2> QED BY <2>1, <2>2
<1>4. Settled(chip, longer, n)
  <2> HIDE DEF n
  <2> SUFFICES ASSUME NEW i \in 1 .. n,
                      \A j \in i + 1 .. n : longer[j][1] # longer[i][1]
               PROVE  chip[longer[i][1]] = longer[i][2]
    BY DEF Settled
  <2>1. \A j \in i + 1 .. n : j \in 1 .. n
    BY <1>1
  <2>2. \A j \in i + 1 .. n : script[j][1] # script[i][1]
    BY <1>2, <2>1
  <2> QED BY <1>2, <2>2 DEF Settled, n
<1> HIDE DEF n
<1>5. Settled([chip EXCEPT ![longer[n + 1][1]] = longer[n + 1][2]], longer, n + 1)
  BY <1>1, <1>3, <1>4, SettledStep
<1> QED BY <1>2, <1>5 DEF n, longer

LEMMA VolumeLine ==
    ASSUME NEW v \in Int
    PROVE  VolumeWrite(v) \in Line /\ VolumeWrite(v)[1] = VolumeReg
<1>1. DacLevel(TableEntry(v)) \in 0 .. 255
  <2>1. DacLevel(TableEntry(v)) \in 93 .. 191
    BY LevelRange
  <2> QED BY <2>1
<1>2. VolumeReg \in 0 .. 255
  BY DEF VolumeReg
<1> QED BY <1>1, <1>2 DEF VolumeWrite, Line

\* The volume is one more line behind the script.
LEMMA VolumeSettles ==
    ASSUME NEW chip \in [DacRegs -> Contents], NEW v \in Int,
           Settled(chip, DacScript, Len(DacScript))
    PROVE  Settled([chip EXCEPT ![VolumeWrite(v)[1]] = VolumeWrite(v)[2]],
                   Append(DacScript, VolumeWrite(v)), Len(DacScript) + 1)
<1>1. DOMAIN chip = DacRegs
  OBVIOUS
<1>2. \A i \in 1 .. Len(DacScript) : DacScript[i][1] \in DOMAIN chip
  BY <1>1, DacLines
<1>3. VolumeReg \in DacRegs /\ DacScript \in Seq(Line)
  BY DacLines
<1>4. VolumeWrite(v) \in Line /\ VolumeWrite(v)[1] = VolumeReg
  BY VolumeLine
<1>5. VolumeWrite(v)[1] \in DOMAIN chip
  BY <1>1, <1>3, <1>4
<1> QED BY <1>2, <1>3, <1>4, <1>5, SettledAppend

\* A write keeps the types of a chip, whatever its outcome.
LEMMA WriteTyped ==
    ASSUME NEW R, NEW chip \in [R -> Contents], NEW next,
           NEW write \in Line, write[1] \in R,
           WriteAcked(chip, next, write) \/ WriteFails(chip, next, write)
    PROVE  next \in [R -> Contents]
<1>1. write[2] \in Contents
  BY DEF Line, Contents
<1> QED BY <1>1 DEF WriteAcked, WriteFails, Installed

-----------------------------------------------------------------------------
(* The invariant is inductive. *)

LEMMA Lengths == Len(AdcScript) = 29 /\ Len(DacScript) = 32
BY AdcLines, DacLines

LEMMA InitInv == CodecInit => CodecInv
<1> SUFFICES ASSUME CodecInit PROVE CodecInv
  OBVIOUS
<1> USE Lengths DEF CodecInit, BusDown, Installed
<1>1. Typed
  BY DEF Typed, CodecTypeOK, BusTypeOK, Contents, Starting
<1>2. BusShape /\ AdcProgress /\ DacProgress
  BY DEF BusShape, AdcProgress, DacProgress, Clean, Starting
<1>3. VolumeInRange
  BY DacLines DEF VolumeInRange
<1> QED BY <1>1, <1>2, <1>3 DEF CodecInv

\* The steps that write no register.
LEMMA QuietSteps ==
    CodecInv /\ (BootBus \/ I2s \/ DacBus \/ AdcBus \/ Bufs) => CodecInv'
<1> SUFFICES ASSUME CodecInv, BootBus \/ I2s \/ DacBus \/ AdcBus \/ Bufs
             PROVE  CodecInv'
  OBVIOUS
<1> USE Lengths DEF CodecInv, Typed, CodecTypeOK, BusTypeOK, Installed, busVars,
                    Goto, NoFault
<1>1. /\ UNCHANGED <<dac, adc, vol, loaded, board>>
      /\ loaded = "none"
      /\ cpc \in Starting \cup {"boot"}
      /\ cpc' \in Starting \cup {"idle", "boot_adc", "halted"}
      /\ cpc' \in Starting => cpc \in Starting
  BY DEF BusShape, BootBus, I2s, DacBus, AdcBus, Bufs, CreateBus, LoadError, Starting
<1>2. /\ ret' \in {0, -1} /\ step' = 1
      /\ i2c_bus' \in {"null", "live", "freed"} /\ driver' \in {"none", "installed"}
  BY DEF BootBus, I2s, DacBus, AdcBus, Bufs, CreateBus, BusFound, BusCreated, BusFails,
         LoadError
<1>3. faults' \in Nat /\ (faults' = faults \/ (faults' = faults + 1 /\ faults' # 0))
  <2>1. NoFault \/ Fault
    BY DEF BootBus, I2s, DacBus, AdcBus, Bufs, CreateBus
  <2>2. faults \in Nat
    OBVIOUS
  <2>3. CASE NoFault
    BY <2>2, <2>3
  <2>4. CASE Fault
    BY <2>2, <2>4 DEF Fault
  <2> QED BY <2>1, <2>3, <2>4
<1>4. Typed'
  <2>1. step' \in 1 .. Len(DacScript) /\ step' <= Len(AdcScript)
    BY <1>2
  <2>2. cpc' \in Starting => vol' \in Int
    BY <1>1
  <2>3. cpc' \in {"boot", "boot_adc", "idle", "i2s", "dac_bus", "dac", "adc_bus", "adc",
                  "bufs", "volume", "halted"}
    BY <1>1 DEF Starting
  <2>4. /\ board' \in {"CUPID_BOARD_V2", "DU1906_MODULE"}
        /\ vol' \in Int \cup {Unset}
        /\ loaded' \in {"none", "ok", "failed"}
    BY <1>1
  <2>5. dac' \in [DacRegs -> Contents] /\ adc' \in [AdcRegs -> Contents]
    BY <1>1
  <2> QED BY <1>2, <1>3, <2>1, <2>2, <2>3, <2>4, <2>5
<1>5. BusShape'
  BY <1>1 DEF BusShape, BootBus, I2s, DacBus, AdcBus, Bufs, CreateBus, BusFound,
              BusCreated, BusFails, LoadError
<1>6. AdcProgress'
  <2>1. AdcConfigured' <=> AdcConfigured
    BY <1>1 DEF AdcConfigured, Settled
  <2>2. Settled(adc', AdcScript, step' - 1)
    <3>1. step' - 1 = 0
      BY <1>2
    <3> QED BY <3>1, SettledStart
  <2> QED BY <1>1, <1>2, <2>1, <2>2
    DEF AdcProgress, BusShape, BootBus, I2s, DacBus, AdcBus, Bufs, CreateBus, LoadError
<1>7. DacProgress'
  <2>1. DacConfigured' <=> DacConfigured
    BY <1>1 DEF DacConfigured, Settled
  <2>2. Settled(dac', DacScript, step' - 1)
    <3>1. step' - 1 = 0
      BY <1>2
    <3> QED BY <3>1, SettledStart
  <2>3. cpc' \in {"i2s", "dac_bus", "dac", "adc_bus"} => ret' = 0
    BY DEF DacProgress, BootBus, I2s, DacBus, AdcBus, Bufs, CreateBus, LoadError
  <2>4. cpc' \in {"adc_bus", "adc", "bufs", "volume"} /\ Clean'
            => Clean /\ ret' = ret /\ cpc \in {"adc_bus", "adc", "bufs", "volume"}
    BY <1>1, <1>3 DEF Clean, BusShape, BootBus, I2s, DacBus, AdcBus, Bufs, CreateBus,
         BusFound, BusCreated, BusFails, LoadError, Fault
  <2>5. cpc' \in Starting /\ Clean' => ret' = 0
    BY <2>3, <2>4 DEF DacProgress, Starting
  <2> QED BY <1>1, <2>1, <2>2, <2>3, <2>4, <2>5 DEF DacProgress
<1>8. VolumeInRange'
  BY <1>1 DEF VolumeInRange
<1> QED BY <1>4, <1>5, <1>6, <1>7, <1>8

LEMMA BeginStep == CodecInv /\ Begin => CodecInv'
<1> SUFFICES ASSUME CodecInv, Begin PROVE CodecInv'
  OBVIOUS
<1> USE Lengths DEF Begin, Goto, Installed
<1>1. vol' \in Int
  BY ParsedInt
<1>2. Typed'
  BY <1>1 DEF CodecInv, Typed, CodecTypeOK, BusTypeOK, Starting, busVars
<1>3. BusShape' /\ AdcProgress' /\ VolumeInRange'
  BY DEF CodecInv, BusShape, AdcProgress, VolumeInRange, busVars
<1>4. DacProgress'
  BY DEF DacProgress, Starting
<1> QED BY <1>2, <1>3, <1>4 DEF CodecInv

LEMMA ResetStep == CodecInv /\ (Restart \/ PowerCut) => CodecInv'
<1> SUFFICES ASSUME CodecInv, Restart \/ PowerCut PROVE CodecInv'
  OBVIOUS
<1> USE Lengths DEF Restart, PowerCut, Reset, Goto, Installed
<1>1. Typed'
  BY DEF CodecInv, Typed, CodecTypeOK, BusTypeOK, Contents, Starting
<1>2. BusShape' /\ AdcProgress' /\ DacProgress'
  BY DEF BusShape, AdcProgress, DacProgress, Clean, Starting
<1>3. VolumeInRange'
  <2>1. VolumeReg \in DacRegs
    BY DacLines
  <2>2. dac'[VolumeReg] = dac[VolumeReg] \/ dac'[VolumeReg] = Unset
    BY <2>1
  <2> QED BY <2>2 DEF CodecInv, VolumeInRange
<1> QED BY <1>1, <1>2, <1>3 DEF CodecInv
\* A line of a script goes on to the next one or leaves it.
LEMMA BootAdcStep == CodecInv /\ BootAdc => CodecInv'
<1> SUFFICES ASSUME CodecInv, BootAdc PROVE CodecInv'
  OBVIOUS
<1> USE Lengths DEF CodecInv, Typed, CodecTypeOK, BusTypeOK, Installed, busVars, Goto,
                    NextLine, NoFault
<1>1. /\ UNCHANGED <<i2c_bus, driver, board, ret, vol, loaded, dac>>
      /\ cpc = "boot_adc" /\ loaded = "none" /\ step \in 1 .. 29
      /\ \/ cpc' = "boot_adc" /\ step' \in 1 .. 29
         \/ cpc' = "idle" /\ step' = 1
  BY DEF BootAdc, BusShape
<1>2. faults' \in Nat
  BY DEF BootAdc, LineFails, Fault
<1>3. adc' \in [AdcRegs -> Contents]
  BY <1>1, AdcLines, WriteTyped DEF BootAdc, LineFails
<1>4. Typed'
  BY <1>1, <1>2, <1>3 DEF Starting
<1>5. BusShape' /\ AdcProgress' /\ DacProgress' /\ VolumeInRange'
  BY <1>1 DEF BusShape, AdcProgress, DacProgress, Starting, VolumeInRange
<1> QED BY <1>4, <1>5

LEMMA DacLineStep == CodecInv /\ DacLine => CodecInv'
<1> SUFFICES ASSUME CodecInv, DacLine PROVE CodecInv'
  OBVIOUS
<1> USE Lengths DEF CodecInv, Typed, CodecTypeOK, BusTypeOK, Installed, busVars, Goto,
                    NextLine, NoFault
<1> DEFINE line == DacScript[step]
<1>1. /\ UNCHANGED <<i2c_bus, driver, board, ret, vol, loaded, adc>>
      /\ cpc = "dac" /\ loaded = "none" /\ step \in 1 .. 32 /\ ret = 0
      /\ \/ cpc' = "dac" /\ step' = step + 1 /\ step < 32
         \/ cpc' = "adc_bus" /\ step' = 1 /\ step = 32
  BY DEF DacLine, BusShape, DacProgress
<1>2. faults' \in Nat
  BY DEF DacLine, LineFails, Fault
<1>3. WriteAcked(dac, dac', line) \/ WriteFails(dac, dac', line)
  BY DEF DacLine, LineFails
<1>4. /\ line \in Line /\ line[1] \in DacRegs
      /\ line[1] = VolumeReg => line[2] = \hbf
      /\ VolumeReg \in DacRegs
  BY <1>1, DacLines
<1>5. dac' \in [DacRegs -> Contents]
  BY <1>3, <1>4, WriteTyped
<1>6. Typed'
  BY <1>1, <1>2, <1>5 DEF Starting
<1>7. BusShape' /\ AdcProgress'
  BY <1>1 DEF BusShape, AdcProgress
<1>8. ASSUME Clean' PROVE Settled(dac', DacScript, step)
  <2>1. Clean /\ WriteAcked(dac, dac', line)
    BY <1>1, <1>8 DEF Clean, DacLine, LineFails, Fault
  <2>2. Settled(dac, DacScript, step - 1)
    BY <1>1, <2>1 DEF DacProgress
  <2>3. \A i \in 1 .. (step - 1) + 1 : DacScript[i][1] \in DOMAIN dac
    <3>1. DOMAIN dac = DacRegs
      OBVIOUS
    <3>2. \A i \in 1 .. (step - 1) + 1 : i \in 1 .. 32
      BY <1>1
    <3> QED BY <3>1, <3>2, DacLines
  <2>4. step - 1 \in Nat /\ (step - 1) + 1 = step
    BY <1>1
  <2>5. Settled([dac EXCEPT ![DacScript[(step - 1) + 1][1]] = DacScript[(step - 1) + 1][2]],
                DacScript, (step - 1) + 1)
    BY <2>2, <2>3, <2>4, SettledStep
  <2> QED BY <2>1, <2>4, <2>5 DEF WriteAcked
<1>9. DacProgress'
  <2>1. ASSUME Clean' PROVE cpc' = "dac" => Settled(dac', DacScript, step' - 1)
    <3>1. cpc' = "dac" => step' - 1 = step
      BY <1>1
    <3> QED BY <1>8, <2>1, <3>1
  <2>2. ASSUME Clean' PROVE cpc' = "adc_bus" => DacConfigured'
    <3>1. cpc' = "adc_bus" => step = Len(DacScript)
      BY <1>1
    <3> QED BY <1>8, <2>2, <3>1 DEF DacConfigured
  <2> QED BY <1>1, <2>1, <2>2 DEF DacProgress
<1>10. VolumeInRange'
  BY <1>3, <1>4 DEF VolumeInRange, WriteAcked, WriteFails
<1> QED BY <1>6, <1>7, <1>9, <1>10

LEMMA AdcLineStep == CodecInv /\ AdcLine => CodecInv'
<1> SUFFICES ASSUME CodecInv, AdcLine PROVE CodecInv'
  OBVIOUS
<1> USE Lengths DEF CodecInv, Typed, CodecTypeOK, BusTypeOK, Installed, busVars, Goto,
                    NextLine, NoFault
<1> DEFINE line == AdcScript[step]
<1>1. /\ UNCHANGED <<i2c_bus, driver, board, vol, loaded, dac>>
      /\ cpc = "adc" /\ loaded = "none" /\ step \in 1 .. 29
      /\ \/ cpc' = "adc" /\ step' = step + 1 /\ step < 29
         \/ cpc' = "bufs" /\ step' = 1 /\ step = 29 /\ ret' = 0
         \/ cpc' = "volume" /\ step' = 1 /\ step = 29 /\ ret' = -1
      /\ ret' \in {0, -1}
  BY DEF AdcLine, BusShape
<1>2. faults' \in Nat
  BY DEF AdcLine, LineFails, Fault
<1>3. /\ WriteAcked(adc, adc', line) \/ WriteFails(adc, adc', line)
      /\ ret' = 0 => WriteAcked(adc, adc', line) /\ ret = 0
      /\ Clean' => Clean /\ WriteAcked(adc, adc', line) /\ ret' = ret
  BY <1>1 DEF AdcLine, LineFails, Fault, Clean
<1>4. line \in Line /\ line[1] \in AdcRegs
  BY <1>1, AdcLines
<1>5. adc' \in [AdcRegs -> Contents]
  BY <1>3, <1>4, WriteTyped
<1>6. Typed'
  BY <1>1, <1>2, <1>5 DEF Starting
<1>7. ASSUME ret' = 0 PROVE Settled(adc', AdcScript, step) /\ Installed
  <2>1. ret = 0 /\ WriteAcked(adc, adc', line)
    BY <1>3, <1>7
  <2>2. Settled(adc, AdcScript, step - 1)
    BY <1>1, <2>1 DEF AdcProgress
  <2>3. \A i \in 1 .. (step - 1) + 1 : AdcScript[i][1] \in DOMAIN adc
    <3>1. DOMAIN adc = AdcRegs
      OBVIOUS
    <3>2. \A i \in 1 .. (step - 1) + 1 : i \in 1 .. 29
      BY <1>1
    <3> QED BY <3>1, <3>2, AdcLines
  <2>4. step - 1 \in Nat /\ (step - 1) + 1 = step
    BY <1>1
  <2>5. Settled([adc EXCEPT ![AdcScript[(step - 1) + 1][1]] = AdcScript[(step - 1) + 1][2]],
                AdcScript, (step - 1) + 1)
    BY <2>2, <2>3, <2>4, SettledStep
  <2> QED BY <2>1, <2>4, <2>5 DEF WriteAcked
<1>8. AdcProgress'
  <2>1. ASSUME ret' = 0, cpc' = "adc" PROVE Settled(adc', AdcScript, step' - 1)
    <3>1. step' - 1 = step
      BY <1>1, <2>1
    <3> QED BY <1>7, <2>1, <3>1
  <2>2. ASSUME ret' = 0, cpc' = "bufs" PROVE AdcConfigured'
    <3>1. step = Len(AdcScript)
      BY <1>1, <2>2
    <3> QED BY <1>7, <2>2, <3>1 DEF AdcConfigured
  <2> QED BY <1>1, <1>7, <2>1, <2>2 DEF AdcProgress
<1>9. BusShape' /\ VolumeInRange'
  BY <1>1 DEF BusShape, VolumeInRange
<1>10. DacProgress'
  <2>1. DacConfigured' <=> DacConfigured
    BY <1>1 DEF DacConfigured, Settled
  <2> QED BY <1>1, <1>3, <2>1 DEF DacProgress, Starting
<1> QED BY <1>6, <1>8, <1>9, <1>10

LEMMA SetVolumeStep == CodecInv /\ SetVolume => CodecInv'
<1> SUFFICES ASSUME CodecInv, SetVolume PROVE CodecInv'
  OBVIOUS
<1> USE Lengths DEF CodecInv, Typed, CodecTypeOK, BusTypeOK, Installed, busVars,
                    Goto, NoFault
<1> DEFINE line == VolumeWrite(vol)
<1>1. /\ UNCHANGED <<i2c_bus, driver, board, ret, vol, adc>>
      /\ cpc = "volume" /\ cpc' = "idle" /\ step' = 1
      /\ loaded' = IF ret = 0 THEN "ok" ELSE "failed"
      /\ vol \in Int
  BY DEF SetVolume, Starting
<1>2. faults' \in Nat
  BY DEF SetVolume, LineFails, Fault
<1>3. /\ WriteAcked(dac, dac', line) \/ WriteFails(dac, dac', line)
      /\ Clean' => Clean /\ WriteAcked(dac, dac', line)
  BY <1>1 DEF SetVolume, LineFails, Fault, Clean
<1>4. line \in Line /\ line[1] = VolumeReg /\ VolumeReg \in DacRegs
  BY <1>1, VolumeLine, DacLines
<1>5. line[2] \in 93 .. 191
  BY <1>1, LevelRange DEF VolumeWrite
<1> HIDE DEF line
<1>6. dac' \in [DacRegs -> Contents]
  BY <1>3, <1>4, WriteTyped
<1>7. Typed'
  BY <1>1, <1>2, <1>6 DEF Starting
<1>8. BusShape'
  BY <1>1 DEF BusShape
<1>9. AdcProgress'
  <2>1. AdcConfigured' <=> AdcConfigured
    BY <1>1 DEF AdcConfigured, Settled
  <2> QED BY <1>1, <2>1 DEF AdcProgress
<1>10. ASSUME Clean' PROVE loaded' = "ok" /\ DacAtVolume'
  <2>1. ret = 0 /\ DacConfigured /\ dac' = [dac EXCEPT ![line[1]] = line[2]]
    BY <1>1, <1>3, <1>10 DEF DacProgress, Starting, WriteAcked
  <2>2. Settled([dac EXCEPT ![VolumeWrite(vol)[1]] = VolumeWrite(vol)[2]],
                Append(DacScript, VolumeWrite(vol)), Len(DacScript) + 1)
    BY <1>1, <2>1, VolumeSettles DEF DacConfigured
  <2>3. vol' = vol
    BY <1>1
  <2> QED BY <1>1, <2>1, <2>2, <2>3 DEF DacAtVolume, line
<1>11. DacProgress'
  BY <1>1, <1>10 DEF DacProgress, Starting
<1>12. VolumeInRange'
  BY <1>3, <1>4, <1>5 DEF VolumeInRange, WriteAcked, WriteFails
<1> QED BY <1>7, <1>8, <1>9, <1>11, <1>12

\* For any volume parameters and any number of failing calls, the invariant
\* above holds in every reachable state.
THEOREM CodecInvariant == CodecSpec => []CodecInv
<1>1. CodecInv /\ UNCHANGED cvars => CodecInv'
  BY DEF cvars, codecVars, busVars, CodecInv, Typed, CodecTypeOK, BusTypeOK, BusShape,
         AdcProgress, DacProgress, VolumeInRange, Clean, Installed, AdcConfigured,
         DacConfigured, DacAtVolume, Settled, Starting
<1>2. CodecInv /\ [CodecNext]_cvars => CodecInv'
  BY <1>1, QuietSteps, BootAdcStep, BeginStep, DacLineStep, AdcLineStep, SetVolumeStep,
     ResetStep DEF CodecNext
<1> QED BY <1>2, InitInv, PTL DEF CodecSpec

\* A test goes on only with the ADC wholly configured (es7243e_adc_init).
THEOREM AdcFailuresReported == CodecSpec => []AdcReported
<1>1. CodecInv => AdcReported
  BY DEF CodecInv, AdcProgress, AdcReported
<1> QED BY <1>1, CodecInvariant, PTL

\* A start without failures configures both chips and sets its own volume,
\* whatever came before it (codec_init, duer_audio_dac_set_volume).
THEOREM CleanStart == CodecSpec => []CleanStartConfigures
<1>1. CodecInv => CleanStartConfigures
  BY DEF CodecInv, AdcProgress, DacProgress, Clean, CleanStartConfigures
<1> QED BY <1>1, CodecInvariant, PTL

\* The level of the DAC stays in the range of its table
\* (ES8156_codec_set_voice_volume).
THEOREM VolumeBounded == CodecSpec => []VolumeInRange
<1>1. CodecInv => VolumeInRange
  BY DEF CodecInv
<1> QED BY <1>1, CodecInvariant, PTL

\* A bus whose creation failed lets no test go on (i2c_bus_create).
THEOREM DeadBus == CodecSpec => []DeadBusRefuses
<1>1. CodecInv => DeadBusRefuses
  BY DEF CodecInv, BusShape, AdcProgress, DeadBusRefuses, Installed
<1> QED BY <1>1, CodecInvariant, PTL

\* The variables keep their types.
THEOREM CodecTypes == CodecSpec => []CodecTypeOK
<1>1. CodecInv => CodecTypeOK
  BY DEF CodecInv, Typed
<1> QED BY <1>1, CodecInvariant, PTL
=============================================================================
