--------------------------- MODULE Tas5805mProofs ---------------------------
(***************************************************************************)
(* Theorems about Tas5805m, for any tables, scripts and number of lost     *)
(* writes.                                                                 *)
(***************************************************************************)
EXTENDS Tas5805m, TLAPS, SequenceTheorems, WellFoundedInduction

-----------------------------------------------------------------------------
(* A write of several bytes is a recursive function of them.  That its     *)
(* definition has a solution, and of what type, follows from the least     *)
(* number for which it would not.                                          *)

\* A set of numbers that is not empty has a least one.
LEMMA LeastNumber ==
    ASSUME NEW T, T \subseteq Nat, T # {}
    PROVE  \E m \in T : \A n \in T : m <= n
<1> DEFINE R == {ss \in Nat \X Nat : ss[1] < ss[2]}
<1>1. IsWellFoundedOn(R, Nat)
  BY NatLessThanWellFounded, Zenon DEF OpToRel
<1>2. PICK m \in T : \A n \in T : <<n, m>> \notin R
  BY <1>1, WFMin, Zenon
<1>3. ASSUME NEW n \in T PROVE m <= n
  <2>1. m \in Nat /\ n \in Nat
    BY <1>2
  <2>2. <<n, m>> \in Nat \X Nat /\ <<n, m>>[1] = n /\ <<n, m>>[2] = m
    BY <2>1
  <2>3. <<n, m>> \notin R
    BY <1>2
  <2>4. ~(n < m)
    BY <2>2, <2>3
  <2> QED
    BY <2>1, <2>4
<1> QED
  BY <1>2, <1>3

\* a tells what the chip is after each of the first n bytes.
Run(a, alias, c, reg, data, n) ==
    a = [k \in 0 .. n |->
            IF k = 0 THEN c
            ELSE TakeByte(a[k - 1], Register(alias, reg + k - 1), data[k])]

\* There is such a function for any bytes.
LEMMA RunExists ==
    ASSUME NEW alias, NEW c, NEW reg, NEW data, NEW n \in Nat
    PROVE  \E a : Run(a, alias, c, reg, data, n)
<1> DEFINE T == {k \in Nat : ~ \E a : Run(a, alias, c, reg, data, k)}
           Next(b, k) == TakeByte(b[k - 1], Register(alias, reg + k - 1), data[k])
<1>1. SUFFICES ASSUME T # {} PROVE FALSE
  OBVIOUS
<1>2. PICK m \in T : \A k \in T : m <= k
  BY <1>1, LeastNumber
<1>3. CASE m = 0
  <2> DEFINE a == [k \in 0 .. 0 |-> c]
  <2>1. a = [k \in 0 .. 0 |-> IF k = 0 THEN c ELSE Next(a, k)]
    OBVIOUS
  <2>2. Run(a, alias, c, reg, data, 0)
    BY <2>1 DEF Run
  <2> QED
    BY <1>2, <1>3, <2>2
<1>4. CASE m # 0
  <2>1. m - 1 \in Nat /\ m - 1 \notin T
    BY <1>2, <1>4
  <2>2. PICK b : Run(b, alias, c, reg, data, m - 1)
    BY <2>1
  <2> DEFINE a == [k \in 0 .. m |-> IF k = 0 THEN c ELSE Next(b, k)]
  <2>3. \A k \in 0 .. m - 1 : a[k] = b[k]
    BY <2>1, <2>2 DEF Run
  <2>4. a = [k \in 0 .. m |-> IF k = 0 THEN c ELSE Next(b, k)]
    OBVIOUS
  <2> HIDE DEF a
  <2>5. \A k \in 0 .. m : k # 0 => a[k - 1] = b[k - 1]
    BY <2>1, <2>3
  <2>6. a = [k \in 0 .. m |-> IF k = 0 THEN c ELSE Next(a, k)]
    BY <2>4, <2>5
  <2>7. Run(a, alias, c, reg, data, m)
    BY <2>6 DEF Run
  <2> QED
    BY <1>2, <2>7
<1> QED
  BY <1>2, <1>3, <1>4

\* It gives what the model's TakeBytes computes.
LEMMA TakeBytesRun ==
    ASSUME NEW c, NEW reg, NEW data, Len(data) \in Nat
    PROVE  \E a : /\ Run(a, config.alias, c, reg, data, Len(data))
                  /\ TakeBytes(c, reg, data) = a[Len(data)]
<1>1. \E a : Run(a, config.alias, c, reg, data, Len(data))
  BY RunExists
<1>2. \E a : a = [k \in 0 .. Len(data) |->
                     IF k = 0 THEN c
                     ELSE TakeByte(a[k - 1], Register(config.alias, reg + k - 1), data[k])]
  BY <1>1, Zenon DEF Run
<1> QED
  BY <1>2, Zenon DEF TakeBytes, Run

\* A byte makes of a chip a chip.
LEMMA TakeByteType ==
    ASSUME NEW c \in Chips, NEW register \in Int, NEW v \in Content
    PROVE  TakeByte(c, register, v) \in Chips
<1>1. Unknown \in Content
  BY DEF Content
<1>2. /\ [c EXCEPT !.page = v] \in Chips
      /\ \A x \in Content, y \in {"yes", "no"} : [c EXCEPT !.book = x, !.wild = y] \in Chips
      /\ c.wild \in {"yes", "no"}
  BY DEF Chips
<1>3. /\ [c EXCEPT !.wild = "yes"] \in Chips
      /\ \A x \in Content : [c EXCEPT !.state = x] \in Chips /\ [c EXCEPT !.volume = x] \in Chips
  BY DEF Chips
<1>4. Take(c, v) \in Content
  BY <1>1 DEF Take
<1> QED
  BY <1>1, <1>2, <1>3, <1>4, Zenon DEF TakeByte

\* Bytes make of a chip a chip, too.
LEMMA TakeBytesType ==
    ASSUME NEW c \in Chips, NEW reg \in Int, NEW data \in Seq(Content)
    PROVE  TakeBytes(c, reg, data) \in Chips
<1> DEFINE n == Len(data)
           alias == config.alias
<1>1. PICK a : Run(a, alias, c, reg, data, n) /\ TakeBytes(c, reg, data) = a[n]
  BY TakeBytesRun
<1> DEFINE T == {k \in Nat : k <= n /\ a[k] \notin Chips}
<1>2. SUFFICES ASSUME T # {} PROVE FALSE
  BY <1>1
<1>3. PICK m \in T : \A k \in T : m <= k
  BY <1>2, LeastNumber
<1>4. m # 0
  BY <1>1, <1>3 DEF Run
<1>5. m - 1 \in 0 .. n /\ m \in 1 .. n /\ a[m - 1] \in Chips /\ data[m] \in Content
  BY <1>3, <1>4
<1>6. a[m] = TakeByte(a[m - 1], Register(alias, reg + m - 1), data[m])
  <2>1. Run(a, alias, c, reg, data, n) /\ m \in 0 .. n
    BY <1>1, <1>5
  <2> HIDE DEF n, alias
  <2> QED
    BY <1>4, <2>1 DEF Run
<1>7. Register(alias, reg + m - 1) \in Int
  BY <1>5 DEF Register
<1> QED
  BY <1>3, <1>5, <1>6, <1>7, TakeByteType

\* A write of one byte, and of none.
LEMMA TakeOneByte ==
    ASSUME NEW c, NEW reg \in Int, NEW v
    PROVE  /\ TakeBytes(c, reg, <<v>>) = TakeByte(c, Register(config.alias, reg), v)
           /\ TakeBytes(c, reg, <<>>) = c
<1>0. Len(<<v>>) = 1 /\ Len(<<>>) = 0
  OBVIOUS
<1>1. PICK a : Run(a, config.alias, c, reg, <<v>>, 1) /\ TakeBytes(c, reg, <<v>>) = a[1]
  <2>1. Len(<<v>>) \in Nat
    BY <1>0
  <2> QED
    BY <1>0, <2>1, TakeBytesRun, Zenon
<1>2. PICK b : Run(b, config.alias, c, reg, <<>>, 0) /\ TakeBytes(c, reg, <<>>) = b[0]
  <2>1. Len(<<>>) \in Nat
    BY <1>0
  <2> QED
    BY <1>0, <2>1, TakeBytesRun, Zenon
<1>3. a[0] = c /\ a[1] = TakeByte(a[0], Register(config.alias, reg + 1 - 1), v)
  BY <1>1 DEF Run
<1>4. b[0] = c
  BY <1>2 DEF Run
<1>5. reg + 1 - 1 = reg
  OBVIOUS
<1> QED
  BY <1>1, <1>2, <1>3, <1>4, <1>5

\* What a write may do to the chip, for one byte.
LEMMA WriteOneByte ==
    ASSUME NEW reg \in Int, NEW v, Write(reg, <<v>>)
    PROVE  LET d == TakeByte(chip, Register(config.alias, reg), v)
           IN  IF Installed
               THEN \/ chip' = d /\ lost' = lost
                    \/ chip' \in {chip, d} /\ lost < MaxLost /\ lost' = lost + 1
               ELSE chip' = chip /\ lost' = IF lost < MaxLost THEN lost + 1 ELSE lost
<1>1. SubSeq(<<v>>, 1, 0) = <<>> /\ SubSeq(<<v>>, 1, 1) = <<v>>
  <2>1. <<v>> \in Seq({v}) /\ Len(<<v>>) = 1
    OBVIOUS
  <2>2. SubSeq(<<v>>, 1, 1) = <<v>>
    BY <2>1, SubSeqFull
  <2>3. SubSeq(<<v>>, 1, 0) = <<>>
    BY SubSeqEmpty
  <2> QED
    BY <2>2, <2>3
<1>2. 0 .. Len(<<v>>) = {0, 1}
  OBVIOUS
<1> DEFINE d == TakeByte(chip, Register(config.alias, reg), v)
<1>3. TakeBytes(chip, reg, <<v>>) = d /\ TakeBytes(chip, reg, <<>>) = chip
  BY TakeOneByte
<1> HIDE DEF d
<1>4. CASE WriteDone(reg, <<v>>)
  BY <1>3, <1>4 DEF WriteDone, d
<1>5. CASE WriteLost(reg, <<v>>)
  <2>1. CASE Installed
    <3>1. PICK n \in 0 .. Len(<<v>>) : chip' = TakeBytes(chip, reg, SubSeq(<<v>>, 1, n))
      BY <1>5, <2>1 DEF WriteLost
    <3>2. chip' \in {chip, d}
      BY <1>1, <1>2, <1>3, <3>1, Zenon
    <3> QED
      BY <1>5, <2>1, <3>2 DEF WriteLost, d
  <2>2. CASE ~Installed
    BY <1>5, <2>2 DEF WriteLost
  <2> QED
    BY <2>1, <2>2
<1> QED
  BY <1>4, <1>5 DEF Write

-----------------------------------------------------------------------------
(* What the bytes that a table writes do to the chip, by register.         *)

\* Fields of the chip that a write to another register leaves alone.
Rest(c) == <<c.state, c.volume, c.wild>>

\* A page is selected.
LEMMA TakePage ==
    ASSUME NEW c \in Chips, NEW p \in Content
    PROVE  LET d == TakeByte(c, 0, p)
           IN  d \in Chips /\ d.page = p /\ d.book = c.book /\ Rest(d) = Rest(c)
<1>1. TakeByte(c, 0, p) = [c EXCEPT !.page = p]
  BY DEF TakeByte
<1> QED
  BY <1>1 DEF Chips, Rest

\* A book is selected on page 0, and nothing elsewhere.
LEMMA TakeBook ==
    ASSUME NEW c \in Chips, c.page # Unknown, NEW b \in Byte
    PROVE  LET d == TakeByte(c, \h7f, b)
           IN  /\ d \in Chips /\ d.page = c.page /\ Rest(d) = Rest(c)
               /\ d.book = IF c.page = 0 THEN b ELSE c.book
<1>1. b \in Content /\ b # Unknown
  BY DEF Content, Byte, Unknown
<1>2. CASE c.page = 0
  <2>1. TakeByte(c, \h7f, b) = [c EXCEPT !.book = b, !.wild = @]
    BY <1>1, <1>2 DEF TakeByte, Unknown
  <2>2. [c EXCEPT !.book = b, !.wild = @] = [c EXCEPT !.book = b]
    BY DEF Chips
  <2> QED
    BY <1>1, <1>2, <2>1, <2>2 DEF Chips, Rest
<1>3. CASE c.page # 0
  <2>1. TakeByte(c, \h7f, b) = c
    BY <1>3 DEF TakeByte, MaybeOnControls
  <2> QED
    BY <1>3, <2>1
<1> QED
  BY <1>2, <1>3

\* A coefficient that goes to a page of coefficients; the last register of a
\* page 0 holds the number of the book.
LEMMA TakeCoef ==
    ASSUME NEW c \in Chips, ~MaybeOnControls(c), NEW r \in 1 .. \h7f
    PROVE  LET d == TakeByte(c, r, Unknown)
           IN  /\ d \in Chips /\ d.page = c.page /\ Rest(d) = Rest(c)
               /\ r = \h7f \/ d.book = c.book
               /\ d.page # 0 => d.book = c.book \/ d.page = Unknown
<1>1. Unknown \in Content
  BY DEF Content
<1>2. CASE r = \h7f /\ c.page \in {0, Unknown}
  <2>1. TakeByte(c, r, Unknown) = [c EXCEPT !.book = Unknown, !.wild = @]
    BY <1>2 DEF TakeByte, Unknown
  <2>2. [c EXCEPT !.book = Unknown, !.wild = @] = [c EXCEPT !.book = Unknown]
    BY DEF Chips
  <2> QED
    BY <1>1, <1>2, <2>1, <2>2 DEF Chips, Rest
<1>3. CASE ~(r = \h7f /\ c.page \in {0, Unknown})
  <2>1. TakeByte(c, r, Unknown) = c
    BY <1>3 DEF TakeByte
  <2> QED
    BY <2>1
<1> QED
  BY <1>2, <1>3

\* d is what the chip c becomes when a control register gets a known byte.
Controlled(c, d, r, v) ==
    /\ d \in Chips /\ d.page = c.page /\ d.book = c.book /\ d.wild = c.wild
    /\ d.state = IF r = \h03 /\ OnControls(c) THEN v
                 ELSE IF r = \h03 /\ MaybeOnControls(c) THEN Unknown ELSE c.state
    /\ d.volume = IF r = \h4c /\ OnControls(c) THEN v
                  ELSE IF r = \h4c /\ MaybeOnControls(c) THEN Unknown ELSE c.volume

\* Registers that select nothing.
LEMMA TakeControl ==
    ASSUME NEW c \in Chips, NEW r \in 1 .. 255, r # \h7f, NEW v \in Byte
    PROVE  Controlled(c, TakeByte(c, r, v), r, v)
<1>1. v \in Content /\ v # Unknown /\ Unknown \in Content /\ Take(c, v) \in Content
  BY DEF Content, Byte, Unknown, Take
<1>2. TakeByte(c, r, v) = IF ~MaybeOnControls(c) THEN c
                          ELSE IF r = \h03 THEN [c EXCEPT !.state = Take(c, v)]
                          ELSE IF r = \h4c THEN [c EXCEPT !.volume = Take(c, v)]
                          ELSE c
  BY <1>1 DEF TakeByte
<1>3. OnControls(c) => MaybeOnControls(c)
  BY DEF OnControls, MaybeOnControls
<1> QED
  BY <1>1, <1>2, <1>3 DEF Controlled, Take, Chips

-----------------------------------------------------------------------------
(* Assertions between the entries of a table.  An assertion tells the chips *)
(* that are possible after l lost writes, for l = 0 and l = 1.             *)

Entry == Byte \X Content

\* No coefficient went astray in A, and from each of its chips the entry e
\* leads to one of B, written or lost.  An entry that begins an end marker may be skipped.
Follows(alias, A, e, B) ==
    LET d(c) == TakeByte(c, Register(alias, e[1]), e[2])
        skipped == e[1] \in {CFG_META_SWITCH, CFG_META_DELAY}
    IN  /\ e[1] # CFG_META_BURST
        /\ \A l \in {0, 1} : \A c \in A[l] :
               /\ c.wild = "no"
               /\ skipped \/ e[1] = CFG_END_1 => c \in B[l]
               /\ skipped \/ d(c) \in B[l]
               /\ skipped \/ l = 1 \/ {c, d(c)} \subseteq B[1]

\* f assigns an assertion to each place of the table s.
Annotates(alias, f, s) == \A k \in 1 .. Len(s) : Follows(alias, f[k], s[k], f[k + 1])

\* The tables that lead from A to B.
Leads(alias, A, B) ==
    {s \in Seq(Entry) : \E f : f[1] = A /\ f[Len(s) + 1] = B /\ Annotates(alias, f, s)}

\* Two tables that fit, one after the other.
LEMMA LeadsJoin ==
    ASSUME NEW alias, NEW A, NEW B, NEW C,
           NEW s \in Leads(alias, A, B), NEW t \in Leads(alias, B, C)
    PROVE  s \o t \in Leads(alias, A, C)
<1> DEFINE m == Len(s)
           n == Len(t)
<1>1. s \in Seq(Entry) /\ t \in Seq(Entry) /\ m \in Nat /\ n \in Nat
  BY DEF Leads
<1>2. PICK f : f[1] = A /\ f[m + 1] = B /\ Annotates(alias, f, s)
  BY DEF Leads
<1>3. PICK g : g[1] = B /\ g[n + 1] = C /\ Annotates(alias, g, t)
  BY DEF Leads
<1>4. /\ s \o t \in Seq(Entry) /\ Len(s \o t) = m + n
      /\ \A k \in 1 .. m + n : (s \o t)[k] = IF k <= m THEN s[k] ELSE t[k - m]
  BY <1>1, ConcatProperties
<1> DEFINE h == [k \in 1 .. m + n + 1 |-> IF k <= m THEN f[k] ELSE g[k - m]]
<1>5. h[1] = A /\ h[m + n + 1] = C
  BY <1>1, <1>2, <1>3
<1>6. \A k \in 1 .. m : h[k] = f[k] /\ h[k + 1] = f[k + 1]
  BY <1>1, <1>2, <1>3
<1>7. \A k \in m + 1 .. m + n : h[k] = g[k - m] /\ h[k + 1] = g[k - m + 1]
  BY <1>1
<1> HIDE DEF h, m, n
<1>8. ASSUME NEW k \in 1 .. m + n
      PROVE  Follows(alias, h[k], (s \o t)[k], h[k + 1])
  <2>1. CASE k <= m
    <3>1. k \in 1 .. m
      BY <1>1, <2>1
    <3>2. Follows(alias, f[k], s[k], f[k + 1])
      BY <1>2, <3>1 DEF Annotates, m
    <3>3. (s \o t)[k] = s[k] /\ h[k] = f[k] /\ h[k + 1] = f[k + 1]
      BY <1>4, <1>6, <2>1, <3>1
    <3> QED
      BY <3>2, <3>3
  <2>2. CASE ~(k <= m)
    <3>1. k \in m + 1 .. m + n /\ k - m \in 1 .. n
      BY <1>1, <2>2
    <3>2. Follows(alias, g[k - m], t[k - m], g[k - m + 1])
      BY <1>3, <3>1 DEF Annotates, n
    <3>3. (s \o t)[k] = t[k - m] /\ h[k] = g[k - m] /\ h[k + 1] = g[k - m + 1]
      BY <1>4, <1>7, <2>2, <3>1
    <3> QED
      BY <3>2, <3>3
  <2> QED
    BY <2>1, <2>2
<1>9. Annotates(alias, h, s \o t)
  BY <1>4, <1>8 DEF Annotates
<1> QED
  BY <1>4, <1>5, <1>9 DEF Leads

\* A table of one entry.
LEMMA LeadsOne ==
    ASSUME NEW alias, NEW A, NEW B, NEW offset \in Byte, NEW value \in Content,
           Follows(alias, A, <<offset, value>>, B)
    PROVE  Reg(offset, value) \in Leads(alias, A, B)
<1> DEFINE e == <<offset, value>>
           s == <<e>>
           f == [k \in 1 .. 2 |-> IF k = 1 THEN A ELSE B]
<1>1. e \in Entry
  BY DEF Entry
<1>2. s \in Seq(Entry) /\ Len(s) = 1 /\ s[1] = e
  BY <1>1
<1>3. f[1] = A /\ f[2] = B
  OBVIOUS
<1> HIDE DEF f, s
<1>4. Annotates(alias, f, s)
  <2>1. ASSUME NEW k \in 1 .. Len(s) PROVE Follows(alias, f[k], s[k], f[k + 1])
    <3>1. k = 1
      BY <1>2
    <3> QED
      BY <1>2, <1>3, <3>1
  <2> QED
    BY <2>1 DEF Annotates
<1>5. Len(s) + 1 = 2
  BY <1>2
<1>6. s \in Leads(alias, A, B)
  BY <1>2, <1>3, <1>4, <1>5 DEF Leads
<1> QED
  BY <1>6 DEF s, Reg

-----------------------------------------------------------------------------
(* The assertions of the firmware's table, and its single entries.         *)

\* Nothing went wrong so far, and the page is one that the table selected.
Sane == [l \in {0, 1} |-> {c \in Chips : c.wild = "no" /\ c.page # Unknown}]

\* Selecting a page of another book: on page 0 of any book ...
OnPage0 == [l \in {0, 1} |-> {c \in Sane[l] : l = 0 => c.page = 0}]

\* ... on page 0 of the book of coefficients ...
OnBook == [l \in {0, 1} |-> {c \in Sane[l] : l = 0 => c.page = 0 /\ c.book \notin {0, Unknown}}]

\* ... and on the page, or on page 0 if this is the line that was lost.
OnCoefs == [l \in {0, 1} |->
               {c \in Sane[l] : c.page # 0 \/ (l = 1 /\ c.book \notin {0, Unknown})}]

\* Behind the coefficients.  If they went to page 0, then the last one may have
\* selected any book.
Away == [l \in {0, 1} |-> {c \in Sane[l] : l = 0 => c.page # 0}]

\* Register numbers without bit 7 are what they are.
LEMMA RegisterBelow128 ==
    ASSUME NEW alias, NEW r \in 0 .. 127
    PROVE  Register(alias, r) = r
BY DEF Register

\* Bytes of known values go anywhere without harm.
LEMMA SaneEntry ==
    ASSUME NEW alias, NEW r \in Byte, r # CFG_META_BURST, NEW v \in Byte
    PROVE  Reg(r, v) \in Leads(alias, Sane, Sane)
<1> DEFINE e == <<r, v>>
           rr == Register(alias, r)
<1>1. rr \in 0 .. 255 /\ v \in Content /\ v # Unknown
  BY DEF Register, Byte, Content, Unknown
<1>2. ASSUME NEW c \in Sane[0] PROVE TakeByte(c, rr, v) \in Sane[0]
  <2>1. c \in Chips /\ c.wild = "no" /\ c.page # Unknown
    BY DEF Sane
  <2> DEFINE d == TakeByte(c, rr, v)
  <2> HIDE DEF rr
  <2>2. d \in Chips /\ d.wild = c.wild /\ d.page \in {c.page, v}
    <3>1. CASE rr = 0
      BY <1>1, <2>1, <3>1, TakePage DEF Rest
    <3>2. CASE rr = \h7f
      BY <1>1, <2>1, <3>2, TakeBook DEF Rest
    <3>3. CASE rr # 0 /\ rr # \h7f
      <4>1. rr \in 1 .. 255
        BY <1>1, <3>3
      <4> HIDE DEF d
      <4>2. d \in Chips /\ d.page = c.page /\ d.wild = c.wild
        BY <2>1, <3>3, <4>1, TakeControl DEF Controlled, d
      <4> QED
        BY <4>2
    <3> QED
      BY <3>1, <3>2, <3>3
  <2> QED
    BY <1>1, <2>1, <2>2 DEF Sane
<1>3. Sane[1] = Sane[0]
  BY DEF Sane
<1>4. e[1] = r /\ e[2] = v
  OBVIOUS
<1> HIDE DEF e
<1>5. \A c \in Sane[0] : c.wild = "no"
  BY DEF Sane
<1>6. Follows(alias, Sane, e, Sane)
  BY <1>2, <1>3, <1>4, <1>5 DEF Follows
<1> QED
  BY <1>1, <1>6, LeadsOne DEF e

\* Selections of a page ...
LEMMA PageEntry ==
    ASSUME NEW alias, NEW p \in Byte \ {0}
    PROVE  /\ Page(0) \in Leads(alias, Sane, OnPage0)
           /\ Page(0) \in Leads(alias, Away, OnPage0)
           /\ Page(p) \in Leads(alias, OnBook, OnCoefs)
           /\ Page(p) \in Leads(alias, Away, OnCoefs)
<1>1. ASSUME NEW c \in Chips, NEW q \in Byte
      PROVE  LET d == TakeByte(c, Register(alias, 0), q)
             IN  d \in Chips /\ d.page = q /\ d.book = c.book /\ d.wild = c.wild
  BY RegisterBelow128, TakePage DEF Content, Rest
<1>2. 0 \in Byte /\ p # 0 /\ \A q \in Byte : q \in Content /\ q # Unknown
  BY DEF Byte, Content, Unknown
<1>3. ASSUME NEW q PROVE <<0, q>>[1] = 0 /\ <<0, q>>[2] = q
  OBVIOUS
<1>4. /\ Follows(alias, Sane, <<0, 0>>, OnPage0)
      /\ Follows(alias, Away, <<0, 0>>, OnPage0)
  BY <1>1, <1>2, <1>3 DEF Follows, Sane, OnPage0, Away, CFG_META_SWITCH, CFG_META_DELAY, CFG_META_BURST, CFG_END_1
<1>5. Follows(alias, OnBook, <<0, p>>, OnCoefs)
  BY <1>1, <1>2, <1>3 DEF Follows, Sane, OnBook, OnCoefs, CFG_META_SWITCH, CFG_META_DELAY, CFG_META_BURST, CFG_END_1
<1>6. Follows(alias, Away, <<0, p>>, OnCoefs)
  BY <1>1, <1>2, <1>3 DEF Follows, Sane, Away, OnCoefs, CFG_META_SWITCH, CFG_META_DELAY, CFG_META_BURST, CFG_END_1
<1> QED
  BY <1>2, <1>4, <1>5, <1>6, LeadsOne DEF Page

\* ... and of a book.
LEMMA BookEntry ==
    ASSUME NEW alias, NEW b \in Byte \ {0}
    PROVE  /\ Book(0) \in Leads(alias, OnPage0, OnPage0)
           /\ Book(b) \in Leads(alias, OnPage0, OnBook)
<1>1. ASSUME NEW c \in Chips, c.page # Unknown, NEW q \in Byte
      PROVE  LET d == TakeByte(c, Register(alias, \h7f), q)
             IN  /\ d \in Chips /\ d.page = c.page /\ d.wild = c.wild
                 /\ d.book = IF c.page = 0 THEN q ELSE c.book
  BY <1>1, RegisterBelow128, TakeBook DEF Rest
<1>2. 0 \in Byte /\ \h7f \in Byte /\ b # 0 /\ \A q \in Byte : q \in Content /\ q # Unknown
  BY DEF Byte, Content, Unknown
<1>3. ASSUME NEW q PROVE <<\h7f, q>>[1] = \h7f /\ <<\h7f, q>>[2] = q
  OBVIOUS
<1>4. Follows(alias, OnPage0, <<\h7f, 0>>, OnPage0)
  BY <1>1, <1>2, <1>3 DEF Follows, Sane, OnPage0, CFG_META_SWITCH, CFG_META_DELAY, CFG_META_BURST, CFG_END_1
<1>5. Follows(alias, OnPage0, <<\h7f, b>>, OnBook)
  BY <1>1, <1>2, <1>3 DEF Follows, Sane, OnPage0, OnBook, CFG_META_SWITCH, CFG_META_DELAY, CFG_META_BURST, CFG_END_1
<1> QED
  BY <1>2, <1>4, <1>5, LeadsOne DEF Book

\* Coefficients of ascending registers.
LEMMA CoefEntries ==
    ASSUME NEW alias, NEW first \in 1 .. 127, NEW last \in first .. 127
    PROVE  /\ Coefs(first, last) \in Leads(alias, OnCoefs, Away)
           /\ last # 127 => Coefs(first, last) \in Leads(alias, OnCoefs, OnCoefs)
<1> DEFINE E(r) == <<r, Unknown>>
<1>1. ASSUME NEW c \in Chips, NEW r \in 1 .. 127, ~MaybeOnControls(c)
      PROVE  LET d == TakeByte(c, Register(alias, r), Unknown)
             IN  /\ d \in Chips /\ d.page = c.page /\ d.wild = c.wild
                 /\ r = 127 \/ d.book = c.book
  BY <1>1, RegisterBelow128, TakeCoef DEF Rest
<1>2. ASSUME NEW c, c \in OnCoefs[0] \/ c \in OnCoefs[1]
      PROVE  c \in Chips /\ c.wild = "no" /\ ~MaybeOnControls(c)
  BY <1>2 DEF OnCoefs, Sane, MaybeOnControls
<1>3. ASSUME NEW r \in 1 .. 127, NEW l \in {0, 1}, NEW c \in OnCoefs[l]
      PROVE  LET d == TakeByte(c, Register(alias, r), Unknown)
             IN  /\ {c, d} \subseteq Away[1] /\ d \in Away[l]
                 /\ r # 127 => d \in OnCoefs[l] /\ {c, d} \subseteq OnCoefs[1]
  <2> DEFINE d == TakeByte(c, Register(alias, r), Unknown)
  <2>1. c \in Chips /\ c.wild = "no" /\ ~MaybeOnControls(c) /\ c \in OnCoefs[l]
    BY <1>2
  <2>2. d \in Chips /\ d.page = c.page /\ d.wild = c.wild /\ (r = 127 \/ d.book = c.book)
    BY <1>1, <2>1
  <2> HIDE DEF d
  <2>3. {c, d} \subseteq Away[1] /\ d \in Away[l]
    BY <2>1, <2>2 DEF Away, Sane, OnCoefs
  <2>4. r # 127 => d \in OnCoefs[l] /\ {c, d} \subseteq OnCoefs[1]
    BY <2>1, <2>2 DEF Sane, OnCoefs, MaybeOnControls
  <2> QED
    BY <2>3, <2>4 DEF d
<1>4. ASSUME NEW r \in 1 .. 127
      PROVE  /\ Follows(alias, OnCoefs, E(r), Away)
             /\ r # 127 => Follows(alias, OnCoefs, E(r), OnCoefs)
  <2>1. E(r)[1] = r /\ E(r)[2] = Unknown
    OBVIOUS
  <2>2. r \notin {CFG_META_SWITCH, CFG_META_DELAY, CFG_META_BURST, CFG_END_1}
    BY DEF CFG_META_SWITCH, CFG_META_DELAY, CFG_META_BURST, CFG_END_1
  <2> HIDE DEF E
  <2> QED
    BY <1>2, <1>3, <2>1, <2>2 DEF Follows
<1> DEFINE L == last - first + 1
           s == Coefs(first, last)
<1>5. L \in Nat /\ L >= 1 /\ first - 1 + L = last
  OBVIOUS
<1>6. s \in Seq(Entry) /\ Len(s) = L /\ \A n \in 1 .. L : s[n] = E(first + n - 1)
  <2>1. s = [n \in 1 .. L |-> E(first + n - 1)]
    BY DEF Coefs
  <2>2. \A n \in 1 .. L : E(first + n - 1) \in Entry
    BY DEF Entry, Content, Byte
  <2> HIDE DEF E, L
  <2>3. [n \in 1 .. L |-> E(first + n - 1)] \in Seq(Entry)
    BY <1>5, <2>2
  <2> QED
    BY <1>5, <2>1, <2>3
<1> HIDE DEF s, E
<1>7. ASSUME NEW B, Follows(alias, OnCoefs, E(last), B) PROVE s \in Leads(alias, OnCoefs, B)
  <2> DEFINE f == [k \in 1 .. L + 1 |-> IF k <= L THEN OnCoefs ELSE B]
  <2>1. f[1] = OnCoefs /\ f[Len(s) + 1] = B
    BY <1>5, <1>6
  <2>2. ASSUME NEW k \in 1 .. Len(s) PROVE Follows(alias, f[k], s[k], f[k + 1])
    <3>1. k \in 1 .. L /\ s[k] = E(first + k - 1)
      BY <1>6
    <3>2. CASE k = L
      <4>1. first + k - 1 = last /\ f[k] = OnCoefs /\ f[k + 1] = B
        BY <1>5, <3>1, <3>2
      <4> QED
        BY <1>7, <3>1, <4>1
    <3>3. CASE k # L
      <4>1. first + k - 1 \in 1 .. 127 /\ first + k - 1 # 127 /\ f[k] = OnCoefs /\ f[k + 1] = OnCoefs
        BY <1>5, <3>1, <3>3
      <4> QED
        BY <1>4, <3>1, <4>1
    <3> QED
      BY <3>2, <3>3
  <2> HIDE DEF f
  <2>3. Annotates(alias, f, s)
    BY <2>2 DEF Annotates
  <2> QED
    BY <1>6, <2>1, <2>3 DEF Leads
<1>8. s \in Leads(alias, OnCoefs, Away)
  BY <1>4, <1>7
<1>9. last # 127 => s \in Leads(alias, OnCoefs, OnCoefs)
  BY <1>4, <1>7
<1> QED
  BY <1>8, <1>9 DEF s

\* The same, for bounds that are bytes.
LEMMA CoefBlock ==
    ASSUME NEW alias, NEW first \in Byte, NEW last \in Byte,
           0 < first, first <= last, last <= 127
    PROVE  /\ Coefs(first, last) \in Leads(alias, OnCoefs, Away)
           /\ last # 127 => Coefs(first, last) \in Leads(alias, OnCoefs, OnCoefs)
<1>1. first \in 1 .. 127 /\ last \in first .. 127
  BY DEF Byte
<1> QED
  BY <1>1, CoefEntries

\* From behind the coefficients of a page to those of another book.
LEMMA SelectEntries ==
    ASSUME NEW alias, NEW b \in Byte \ {0}, NEW p \in Byte \ {0}
    PROVE  Select(b, p) \in Leads(alias, Away, OnCoefs)
<1>1. Page(0) \o Book(b) \in Leads(alias, Away, OnBook)
  BY PageEntry, BookEntry, LeadsJoin
<1>2. Page(p) \in Leads(alias, OnBook, OnCoefs)
  BY PageEntry
<1> QED
  BY <1>1, <1>2, LeadsJoin DEF Select

\* Whatever leads behind the coefficients goes on with pages and coefficients.
LEMMA RowsJoin ==
    ASSUME NEW alias, NEW A
    PROVE  /\ \A s \in Leads(alias, A, Away) :
                  /\ \A t \in Leads(alias, Away, OnCoefs) : s \o t \in Leads(alias, A, OnCoefs)
                  /\ \A t \in Leads(alias, Away, Away) : s \o t \in Leads(alias, A, Away)
           /\ \A s \in Leads(alias, A, OnCoefs) :
                  /\ \A t \in Leads(alias, OnCoefs, OnCoefs) : s \o t \in Leads(alias, A, OnCoefs)
                  /\ \A t \in Leads(alias, OnCoefs, Away) : s \o t \in Leads(alias, A, Away)
BY LeadsJoin

\* A control register that is neither the state nor the volume.
LEMMA ControlEntry ==
    ASSUME NEW alias, NEW r \in 1 .. 127, r \notin {\h03, \h4c, \h7f}, NEW v \in Byte
    PROVE  Reg(r, v) \in Leads(alias, OnPage0, OnPage0)
<1>1. Register(alias, r) = r /\ r \in 1 .. 255 /\ r # \h7f /\ r \in Byte
  BY RegisterBelow128 DEF Byte
<1>2. ASSUME NEW c \in Chips, NEW d, d = TakeByte(c, r, v)
      PROVE  d \in Chips /\ d.page = c.page /\ d.wild = c.wild
  BY <1>1, <1>2, TakeControl DEF Controlled
<1>3. ASSUME NEW l \in {0, 1}, NEW c \in OnPage0[l]
      PROVE  /\ c.wild = "no"
             /\ TakeByte(c, r, v) \in OnPage0[l] /\ {c, TakeByte(c, r, v)} \subseteq OnPage0[1]
  BY <1>2 DEF OnPage0, Sane
<1>4. r \notin {CFG_META_SWITCH, CFG_META_DELAY, CFG_META_BURST, CFG_END_1}
  BY DEF CFG_META_SWITCH, CFG_META_DELAY, CFG_META_BURST, CFG_END_1
<1>5. <<r, v>>[1] = r /\ <<r, v>>[2] = v
  OBVIOUS
<1>6. Follows(alias, OnPage0, <<r, v>>, OnPage0)
  BY <1>1, <1>3, <1>4, <1>5 DEF Follows
<1>7. v \in Content
  BY DEF Content
<1> QED
  BY <1>1, <1>6, <1>7, LeadsOne

-----------------------------------------------------------------------------
(* The way of the firmware's table through the books, and its end.         *)

\* The start of the table, up to the first coefficients.
LEMMA StartUpLeads ==
    ASSUME NEW alias, NEW board
    PROVE  StartUp(board) \in Leads(alias, Sane, Sane)
<1> DEFINE SS == Leads(alias, Sane, Sane)
<1>1. \A s, t \in SS : s \o t \in SS
  BY LeadsJoin
<1>2. ASSUME NEW r \in Byte, r # CFG_META_BURST, NEW v \in Byte PROVE Reg(r, v) \in SS
  BY <1>2, SaneEntry
<1> HIDE DEF SS
<1> DEFINE Plain == Byte \ {CFG_META_BURST}
<1>3. \A r \in Plain, v \in Byte : Reg(r, v) \in SS
  BY <1>2
<1>4. {\h00, \h01, \h02, \h03, \h46, \h51, \h53, \h54} \subseteq Plain
  BY DEF Byte, CFG_META_BURST
<1>5. {\h60, \h61, \h78, \h7d, \h7e, \h7f, CFG_META_DELAY} \subseteq Plain
  BY DEF Byte, CFG_META_BURST, CFG_META_DELAY
<1>6. {\h00, \h01, \h02, \h05, \h0b, \h10, \h11, \h13, \h14, \h80, \hff} \subseteq Byte
  BY DEF Byte
<1> HIDE DEF Plain
<1>7. /\ Page(0) \in SS /\ Page(1) \in SS /\ Book(0) \in SS
      /\ Reg(\h03, \h00) \in SS /\ Reg(\h03, \h02) \in SS
      /\ Reg(\h01, \h11) \in SS /\ Reg(CFG_META_DELAY, 5) \in SS
      /\ Reg(\h46, \h11) \in SS
  BY <1>3, <1>4, <1>5, <1>6 DEF Page, Book
<1>8. /\ Reg(\h78, \h80) \in SS /\ Reg(\h61, \h0b) \in SS
      /\ Reg(\h60, \h01) \in SS /\ Reg(\h7d, \h11) \in SS
  BY <1>3, <1>4, <1>5, <1>6
<1>9. /\ Reg(\h7e, \hff) \in SS /\ Reg(\h51, \h05) \in SS
      /\ Reg(\h53, \h00) \in SS /\ Reg(\h54, \h13) \in SS
  BY <1>3, <1>4, <1>5, <1>6
<1>10. Reg(\h02, \h14) \in SS /\ Reg(\h02, \h10) \in SS
  BY <1>3, <1>4, <1>6
<1>11. Reg(\h02, IF board = "CUPID_BOARD_V2" THEN \h14 ELSE \h10) \in SS
  BY <1>10, Zenon
<1> DEFINE Resets == Page(0) \o Book(0) \o Reg(\h03, \h02) \o Reg(\h01, \h11)
                     \o Page(0) \o Page(0) \o Page(0) \o Page(0) \o Page(0)
                     \o Book(0) \o Reg(\h03, \h02) \o Reg(CFG_META_DELAY, 5)
           Wakes == Resets
                     \o Page(0) \o Book(0) \o Reg(\h03, \h00)
                     \o Page(0) \o Book(0) \o Reg(\h46, \h11)
           Sets == Wakes
                     \o Page(0) \o Book(0) \o Reg(\h03, \h02)
                     \o Page(0) \o Book(0) \o Reg(\h78, \h80)
<1>12. Resets \in SS
  BY <1>1, <1>7
<1> HIDE DEF Resets
<1>13. Sets \in SS
  <2>1. Wakes \in SS
    BY <1>1, <1>7, <1>12
  <2> HIDE DEF Wakes
  <2> QED
    BY <1>1, <1>7, <1>8, <2>1
<1> HIDE DEF Sets
<1>14. /\ Sets \o Page(0) \o Book(0) \o Reg(\h61, \h0b) \o Reg(\h60, \h01)
         \o Reg(\h7d, \h11) \o Reg(\h7e, \hff) \o Page(1) \o Reg(\h51, \h05)
         \o Page(0) \o Reg(\h02, IF board = "CUPID_BOARD_V2" THEN \h14 ELSE \h10)
         \o Reg(\h53, \h00) \o Reg(\h54, \h13)
         \o Page(0) \o Page(0) \o Page(0) \o Page(0) \in SS
  BY <1>1, <1>7, <1>8, <1>9, <1>11, <1>13
<1> QED
  BY <1>14 DEF StartUp, Sets, Resets, SS

\* The first rows of coefficients.
LEMMA FirstBookLeads ==
    ASSUME NEW alias
    PROVE  Book8cPages29To2e \in Leads(alias, Sane, Away)
<1> DEFINE ToCoefs == Leads(alias, Sane, OnCoefs)
           ToAway == Leads(alias, Sane, Away)
           P == Leads(alias, Away, OnCoefs)
           C == Leads(alias, OnCoefs, Away)
           CC == Leads(alias, OnCoefs, OnCoefs)
           To0 == Leads(alias, Sane, OnPage0)
<1>1. Page(0) \o Book(0) \o Reg(\h66, \h86) \o Book(\h8c) \o Page(\h29) \in ToCoefs
  <2>1. \h8c \in Byte \ {0} /\ \h29 \in Byte \ {0} /\ \h66 \in Byte /\ \h86 \in Byte
    BY DEF Byte
  <2>2. Reg(\h66, \h86) \in Leads(alias, OnPage0, OnPage0)
    BY <2>1, ControlEntry
  <2>3. Page(0) \o Book(0) \in To0
    BY <2>1, PageEntry, BookEntry, LeadsJoin
  <2>4. Page(0) \o Book(0) \o Reg(\h66, \h86) \in To0
    BY <2>2, <2>3, LeadsJoin
  <2>5. Page(0) \o Book(0) \o Reg(\h66, \h86) \o Book(\h8c) \in Leads(alias, Sane, OnBook)
    BY <2>1, <2>4, BookEntry, LeadsJoin
  <2> QED
    BY <2>1, <2>5, PageEntry, LeadsJoin
<1>0. {\h0c, \h18, \h23, \h24, \h27, \h28, \h2b, \h2f, \h30, \h33, \h34, \h3b,
       \h48, \h4f, \h5c, \h6f, \h74, \h77} \subseteq Byte
  BY DEF Byte
<1>2. /\ \A s \in ToAway : \A t \in P : s \o t \in ToCoefs
      /\ \A s \in ToCoefs : \A t \in CC : s \o t \in ToCoefs
      /\ \A s \in ToCoefs : \A t \in C : s \o t \in ToAway
  BY RowsJoin
<1>3. Page(\h2a) \in P /\ Page(\h2c) \in P /\ Page(\h2d) \in P /\ Page(\h2e) \in P
  BY PageEntry DEF Byte
<1>4. Coefs(\h18, \h27) \in C /\ Coefs(\h24, \h2b) \in CC /\ Coefs(\h30, \h33) \in C
  BY <1>0, CoefBlock
<1>5. Coefs(\h0c, \h23) \in CC /\ Coefs(\h28, \h2f) \in CC /\ Coefs(\h34, \h3b) \in CC
  BY <1>0, CoefBlock
<1>6. Coefs(\h48, \h4f) \in CC /\ Coefs(\h5c, \h6f) \in CC /\ Coefs(\h74, \h77) \in C
  BY <1>0, CoefBlock
<1>7. Coefs(\h18, \h2f) \in C /\ Coefs(\h24, \h27) \in C
  BY <1>0, CoefBlock
<1> HIDE DEF ToCoefs, ToAway, P, C, CC
<1> DEFINE Way == Page(0) \o Book(0) \o Reg(\h66, \h86) \o Book(\h8c) \o Page(\h29)
           Way2 == Way \o Coefs(\h18, \h27)
                     \o Page(\h2a) \o Coefs(\h24, \h2b) \o Coefs(\h30, \h33) \o Page(\h2c)
           Way3 == Way2 \o Coefs(\h0c, \h23) \o Coefs(\h28, \h2f) \o Coefs(\h34, \h3b)
                     \o Coefs(\h48, \h4f) \o Coefs(\h5c, \h6f) \o Coefs(\h74, \h77)
<1>8. Way \in ToCoefs
  BY <1>1
<1> HIDE DEF Way
<1>9. Way2 \in ToCoefs
  BY <1>2, <1>3, <1>4, <1>8
<1> HIDE DEF Way2
<1>10. Way3 \in ToAway
  BY <1>2, <1>5, <1>6, <1>9
<1> HIDE DEF Way3
<1>11. Way3 \o Page(\h2d) \o Coefs(\h18, \h2f) \o Page(\h2e) \o Coefs(\h24, \h27) \in ToAway
  BY <1>2, <1>3, <1>7, <1>10
<1> QED
  BY <1>11 DEF Book8cPages29To2e, Way3, Way2, Way, ToAway

\* The other rows of coefficients, each from behind one to behind the next.
LEMMA RowsLead ==
    ASSUME NEW alias, NEW AA, AA = Leads(alias, Away, Away)
    PROVE  /\ Book8cPage31 \in AA /\ Book8cPage32 \in AA /\ Book8cPage33 \in AA
           /\ Book8cPage34 \in AA /\ Book8cPage35 \in AA
           /\ BookAaPage24 \in AA /\ BookAaPage25 \in AA /\ BookAaPage26 \in AA
           /\ BookAaPage27 \in AA /\ BookAaPage28 \in AA /\ BookAaPages29To2f \in AA
           /\ MixedBooks \in AA /\ MixedBooksGoOn \in AA /\ MixedBooksEnd \in AA
<1> DEFINE P == Leads(alias, Away, OnCoefs)
           C == Leads(alias, OnCoefs, Away)
           CC == Leads(alias, OnCoefs, OnCoefs)
           Pages == Byte \ {0}
<1>1. /\ \A s \in P : (\A t \in C : s \o t \in AA) /\ (\A t \in CC : s \o t \in P)
      /\ \A s \in AA : \A t \in P : s \o t \in P
  BY RowsJoin
<1>2. /\ \A p \in Pages : Page(p) \in P
      /\ \A b \in Pages, p \in Pages : Select(b, p) \in P
  BY PageEntry, SelectEntries
<1>3. \A first \in Byte, last \in Byte : 0 < first /\ first <= last /\ last <= 127 =>
          Coefs(first, last) \in C /\ (last # 127 => Coefs(first, last) \in CC)
  BY CoefBlock
<1>4. {\h24, \h25, \h26, \h27, \h28, \h29, \h2a, \h2b, \h2d, \h2e, \h2f} \subseteq Pages
  BY DEF Byte
<1>5. {\h31, \h32, \h33, \h34, \h35, \h8c, \haa} \subseteq Pages
  BY DEF Byte
<1> HIDE DEF P, C, CC, Pages
<1>6. /\ Book8cPage31 \in AA /\ Book8cPage32 \in AA /\ Book8cPage33 \in AA
      /\ Book8cPage34 \in AA /\ Book8cPage35 \in AA
  <2>1. {\h08, \h48, \h67, \h7f} \subseteq Byte
    BY DEF Byte
  <2>2. Coefs(\h48, \h7f) \in C /\ Coefs(\h08, \h7f) \in C /\ Coefs(\h08, \h67) \in C
    BY <1>3, <2>1
  <2> QED
    BY <1>1, <1>2, <1>5, <2>2
    DEF Book8cPage31, Book8cPage32, Book8cPage33, Book8cPage34, Book8cPage35
<1>7. /\ BookAaPage24 \in AA /\ BookAaPage25 \in AA /\ BookAaPage26 \in AA
      /\ BookAaPage27 \in AA /\ BookAaPage28 \in AA
  <2>1. {\h08, \h18, \h7f} \subseteq Byte
    BY DEF Byte
  <2>2. Coefs(\h18, \h7f) \in C /\ Coefs(\h08, \h7f) \in C
    BY <1>3, <2>1
  <2> QED
    BY <1>1, <1>2, <1>4, <1>5, <2>2
    DEF BookAaPage24, BookAaPage25, BookAaPage26, BookAaPage27, BookAaPage28
<1>8. BookAaPages29To2f \in AA
  <2>1. {\h08, \h17, \h1c, \h2f, \h48, \h5b, \h7c, \h7f} \subseteq Byte
    BY DEF Byte
  <2>2. /\ Coefs(\h08, \h17) \in C /\ Coefs(\h08, \h17) \in CC /\ Coefs(\h7c, \h7f) \in C
        /\ Coefs(\h1c, \h2f) \in C /\ Coefs(\h48, \h5b) \in C
    BY <1>3, <2>1
  <2> QED
    BY <1>1, <1>2, <1>4, <2>2 DEF BookAaPages29To2f
<1>9. MixedBooks \in AA
  <2>1. {\h0c, \h1f, \h20, \h33, \h34, \h40, \h53, \h58, \h5b, \h7f} \subseteq Byte
    BY DEF Byte
  <2>2. /\ Coefs(\h34, \h5b) \in C /\ Coefs(\h58, \h7f) \in C /\ Coefs(\h40, \h53) \in C
        /\ Coefs(\h20, \h33) \in CC /\ Coefs(\h0c, \h1f) \in C
    BY <1>3, <2>1
  <2> QED
    BY <1>1, <1>2, <1>4, <1>5, <2>2 DEF MixedBooks
<1>10. MixedBooksGoOn \in AA
  <2>1. {\h08, \h0b, \h30, \h34, \h47, \h57, \h5c, \h7f} \subseteq Byte
    BY DEF Byte
  <2>2. /\ Coefs(\h34, \h47) \in C /\ Coefs(\h30, \h57) \in C
        /\ Coefs(\h5c, \h7f) \in C /\ Coefs(\h08, \h0b) \in C
    BY <1>3, <2>1
  <2> QED
    BY <1>1, <1>2, <1>4, <1>5, <2>2 DEF MixedBooksGoOn
<1>11. MixedBooksEnd \in AA
  <2>1. {\h08, \h0b, \h0c, \h0f, \h10, \h13, \h18, \h23, \h54, \h67} \subseteq Byte
    BY DEF Byte
  <2>2. /\ Coefs(\h54, \h67) \in C /\ Coefs(\h10, \h13) \in CC /\ Coefs(\h0c, \h0f) \in CC
        /\ Coefs(\h08, \h0b) \in CC /\ Coefs(\h18, \h23) \in C
    BY <1>3, <2>1
  <2> DEFINE Half == Page(\h2e) \o Coefs(\h54, \h67) \o Select(\h8c, \h2e)
  <2>3. Half \in P
    BY <1>1, <1>2, <1>4, <1>5, <2>2
  <2> HIDE DEF Half
  <2>4. Half \o Coefs(\h10, \h13) \o Coefs(\h0c, \h0f)
             \o Coefs(\h08, \h0b) \o Coefs(\h18, \h23) \in AA
    BY <1>1, <2>2, <2>3
  <2> QED
    BY <2>4 DEF MixedBooksEnd, Half
<1> QED
  BY <1>6, <1>7, <1>8, <1>9, <1>10, <1>11

\* The closing lines: the control registers are selected, and then again.
OnControls0 == [l \in {0, 1} |-> {c \in OnPage0[l] : l = 0 => c.book = 0}]

Loud == [l \in {0, 1} |-> {c \in OnControls0[l] : l = 0 => c.volume = \h30}]

Playing == [l \in {0, 1} |-> {c \in Loud[l] : l = 0 => c.state = 3}]

OnPage0Again == [l \in {0, 1} |-> {c \in Playing[l] : c.page = 0}]

Closed == [l \in {0, 1} |-> {c \in OnPage0Again[l] : c.book = 0}]

\* Behind the end marker, whose second entry may have set the volume.
VolumeOfTable(alias) == IF alias = "yes" THEN \hdd ELSE \h30

Finished(alias) ==
    [l \in {0, 1} |-> {c \in Chips : /\ c.wild = "no" /\ OnControls(c)
                                     /\ l = 0 => c.state = 3 /\ c.volume = VolumeOfTable(alias)}]

\* An entry for a control register, between any two assertions.
LEMMA FollowsControl ==
    ASSUME NEW alias, NEW A, NEW B, NEW r \in 1 .. 126, NEW v \in Byte,
           \A l \in {0, 1} : A[l] \subseteq Chips,
           ASSUME NEW l \in {0, 1}, NEW c \in A[l], NEW d, Controlled(c, d, r, v)
           PROVE  c.wild = "no" /\ d \in B[l] /\ (l = 1 \/ {c, d} \subseteq B[1])
    PROVE  Reg(r, v) \in Leads(alias, A, B)
<1>1. /\ Register(alias, r) = r
      /\ r \notin {CFG_META_SWITCH, CFG_META_DELAY, CFG_META_BURST, CFG_END_1}
  BY RegisterBelow128 DEF CFG_META_SWITCH, CFG_META_DELAY, CFG_META_BURST, CFG_END_1
<1>2. <<r, v>>[1] = r /\ <<r, v>>[2] = v
  OBVIOUS
<1>3. r \in Byte /\ v \in Content /\ r \in 1 .. 255 /\ r # \h7f
  BY DEF Byte, Content
<1> DEFINE D(c) == TakeByte(c, r, v)
<1>4. ASSUME NEW l \in {0, 1}, NEW c \in A[l]
      PROVE  c.wild = "no" /\ D(c) \in B[l] /\ (l = 1 \/ {c, D(c)} \subseteq B[1])
  <2>1. c \in Chips
    OBVIOUS
  <2>2. Controlled(c, D(c), r, v)
    BY <1>3, <2>1, TakeControl
  <2> HIDE DEF D
  <2> QED
    BY <2>2
<1>5. Follows(alias, A, <<r, v>>, B)
  BY <1>1, <1>2, <1>4 DEF Follows
<1> QED
  BY <1>3, <1>5, LeadsOne

\* The closing lines, which repeat the selection of the control registers.
LEMMA TuningLeads ==
    ASSUME NEW alias
    PROVE  RegisterTuning \in Leads(alias, Away, Closed)
<1>1. Page(0) \in Leads(alias, Away, OnPage0)
  BY PageEntry DEF Byte
<1>2. /\ Book(0) \in Leads(alias, OnPage0, OnControls0)
      /\ Book(0) \in Leads(alias, OnPage0Again, Closed)
  <2>1. ASSUME NEW c \in Chips, c.page # Unknown
        PROVE  LET d == TakeByte(c, Register(alias, \h7f), 0)
               IN  /\ d \in Chips /\ d.page = c.page /\ Rest(d) = Rest(c)
                   /\ d.book = IF c.page = 0 THEN 0 ELSE c.book
    BY <2>1, RegisterBelow128, TakeBook DEF Byte
  <2>2. <<\h7f, 0>>[1] = \h7f /\ <<\h7f, 0>>[2] = 0 /\ 0 \in Content /\ \h7f \in Byte
    BY DEF Byte, Content
  <2>3. Follows(alias, OnPage0, <<\h7f, 0>>, OnControls0)
    BY <2>1, <2>2 DEF Follows, OnControls0, OnPage0, Sane, Rest,
                      CFG_META_SWITCH, CFG_META_DELAY, CFG_META_BURST, CFG_END_1
  <2>4. Follows(alias, OnPage0Again, <<\h7f, 0>>, Closed)
    BY <2>1, <2>2 DEF Follows, Closed, OnPage0Again, Playing, Loud, OnControls0, OnPage0, Sane, Rest,
                      Unknown, CFG_META_SWITCH, CFG_META_DELAY, CFG_META_BURST, CFG_END_1
  <2> QED
    BY <2>2, <2>3, <2>4, LeadsOne DEF Book
<1>3. Page(0) \in Leads(alias, Playing, OnPage0Again)
  <2>1. ASSUME NEW c \in Chips
        PROVE  LET d == TakeByte(c, Register(alias, 0), 0)
               IN  d \in Chips /\ d.page = 0 /\ d.book = c.book /\ Rest(d) = Rest(c)
    BY RegisterBelow128, TakePage DEF Content, Byte
  <2>2. <<0, 0>>[1] = 0 /\ <<0, 0>>[2] = 0 /\ 0 \in Content /\ 0 \in Byte
    BY DEF Byte, Content
  <2>3. Follows(alias, Playing, <<0, 0>>, OnPage0Again)
    BY <2>1, <2>2 DEF Follows, OnPage0Again, Playing, Loud, OnControls0, OnPage0, Sane, Rest,
                      Unknown, CFG_META_SWITCH, CFG_META_DELAY, CFG_META_BURST, CFG_END_1
  <2> QED
    BY <2>2, <2>3, LeadsOne DEF Page
<1>5. /\ Reg(\h30, \h00) \in Leads(alias, OnControls0, OnControls0)
      /\ Reg(\h4c, \h30) \in Leads(alias, OnControls0, Loud)
      /\ Reg(\h03, \h03) \in Leads(alias, Loud, Playing)
      /\ Reg(\h78, \h80) \in Leads(alias, Closed, Closed)
  <2>1. ASSUME NEW r \in 1 .. 126, r = \h30, NEW v \in Byte, v = \h00
        PROVE  Reg(r, v) \in Leads(alias, OnControls0, OnControls0)
    <3>1. \A l \in {0, 1} : OnControls0[l] \subseteq Chips
      BY DEF OnControls0, OnPage0, Sane
    <3>2. ASSUME NEW l \in {0, 1}, NEW c \in OnControls0[l], NEW d, Controlled(c, d, r, v)
          PROVE  c.wild = "no" /\ d \in OnControls0[l] /\ (l = 1 \/ {c, d} \subseteq OnControls0[1])
      BY <2>1, <3>2 DEF Controlled, OnControls0, OnPage0, Sane
    <3> QED
      BY <3>1, <3>2, FollowsControl
  <2>2. ASSUME NEW r \in 1 .. 126, r = \h4c, NEW v \in Byte, v = \h30
        PROVE  Reg(r, v) \in Leads(alias, OnControls0, Loud)
    <3>1. \A l \in {0, 1} : OnControls0[l] \subseteq Chips
      BY DEF Loud, OnControls0, OnPage0, Sane, OnControls
    <3>2. ASSUME NEW l \in {0, 1}, NEW c \in OnControls0[l], NEW d, Controlled(c, d, r, v)
          PROVE  c.wild = "no" /\ d \in Loud[l] /\ (l = 1 \/ {c, d} \subseteq Loud[1])
      BY <2>2, <3>2 DEF Controlled, Loud, OnControls0, OnPage0, Sane, OnControls
    <3> QED
      BY <3>1, <3>2, FollowsControl
  <2>3. ASSUME NEW r \in 1 .. 126, r = \h03, NEW v \in Byte, v = \h03
        PROVE  Reg(r, v) \in Leads(alias, Loud, Playing)
    <3>1. \A l \in {0, 1} : Loud[l] \subseteq Chips
      BY DEF Playing, Loud, OnControls0, OnPage0, Sane, OnControls
    <3>2. ASSUME NEW l \in {0, 1}, NEW c \in Loud[l], NEW d, Controlled(c, d, r, v)
          PROVE  c.wild = "no" /\ d \in Playing[l] /\ (l = 1 \/ {c, d} \subseteq Playing[1])
      BY <2>3, <3>2 DEF Controlled, Playing, Loud, OnControls0, OnPage0, Sane, OnControls
    <3> QED
      BY <3>1, <3>2, FollowsControl
  <2>4. ASSUME NEW r \in 1 .. 126, r = \h78, NEW v \in Byte, v = \h80
        PROVE  Reg(r, v) \in Leads(alias, Closed, Closed)
    <3>1. \A l \in {0, 1} : Closed[l] \subseteq Chips
      BY DEF Closed, OnPage0Again, Playing, Loud, OnControls0, OnPage0, Sane
    <3>2. ASSUME NEW l \in {0, 1}, NEW c \in Closed[l], NEW d, Controlled(c, d, r, v)
          PROVE  c.wild = "no" /\ d \in Closed[l] /\ (l = 1 \/ {c, d} \subseteq Closed[1])
      BY <2>4, <3>2 DEF Controlled, Closed, OnPage0Again, Playing, Loud, OnControls0, OnPage0, Sane
    <3> QED
      BY <3>1, <3>2, FollowsControl
  <2>5. {\h00, \h03, \h30, \h80} \subseteq Byte /\ {\h03, \h30, \h4c, \h78} \subseteq 1 .. 126
    BY DEF Byte
  <2> QED
    BY <2>1, <2>2, <2>3, <2>4, <2>5
<1>6. Page(0) \o Book(0) \in Leads(alias, Away, OnControls0)
  BY <1>1, <1>2, LeadsJoin
<1>7. Page(0) \o Book(0) \o Reg(\h30, \h00) \in Leads(alias, Away, OnControls0)
  BY <1>5, <1>6, LeadsJoin
<1>8. Page(0) \o Book(0) \o Reg(\h30, \h00) \o Reg(\h4c, \h30) \in Leads(alias, Away, Loud)
  BY <1>5, <1>7, LeadsJoin
<1>9. Page(0) \o Book(0) \o Reg(\h30, \h00) \o Reg(\h4c, \h30) \o Reg(\h03, \h03)
      \in Leads(alias, Away, Playing)
  BY <1>5, <1>8, LeadsJoin
<1>10. Page(0) \o Book(0) \o Reg(\h30, \h00) \o Reg(\h4c, \h30) \o Reg(\h03, \h03) \o Page(0)
       \in Leads(alias, Away, OnPage0Again)
  BY <1>3, <1>9, LeadsJoin
<1>11. Page(0) \o Book(0) \o Reg(\h30, \h00) \o Reg(\h4c, \h30) \o Reg(\h03, \h03) \o Page(0) \o Book(0)
       \in Leads(alias, Away, Closed)
  BY <1>2, <1>10, LeadsJoin
<1> QED
  BY <1>5, <1>11, LeadsJoin DEF RegisterTuning

\* The end marker is skipped or written: its first entry in neither case reaches
\* a register of note, its second may set the volume.
LEMMA EndMarkerLeads ==
    ASSUME NEW alias \in {"yes", "no"}
    PROVE  EndMarker \in Leads(alias, Closed, Finished(alias))
<1>1. /\ Register(alias, \haa) \in {\haa, \h2a} /\ Register(alias, \hee) \in {\hee, \h6e}
      /\ Register(alias, \hcc) = IF alias = "yes" THEN \h4c ELSE \hcc
  BY DEF Register
<1>2. \A l \in {0, 1} : \A c \in Closed[l] :
          /\ c \in Chips /\ c.wild = "no" /\ OnControls(c)
          /\ l = 0 => c.state = 3 /\ c.volume = \h30
  BY DEF Closed, OnPage0Again, Playing, Loud, OnControls0, OnPage0, Sane, OnControls
<1>3. \A c \in Chips : \A l \in {0, 1} :
          /\ c.wild = "no" /\ OnControls(c)
          /\ l = 0 => c.state = 3 /\ c.volume = \h30
          => c \in Closed[l]
  BY DEF Closed, OnPage0Again, Playing, Loud, OnControls0, OnPage0, Sane, OnControls, Unknown
<1>4. ASSUME NEW r \in 1 .. 255, r \notin {\h7f, \h03, \h4c}, NEW v \in Byte, NEW c \in Chips,
             NEW d, d = TakeByte(c, r, v)
      PROVE  /\ d \in Chips /\ d.page = c.page /\ d.book = c.book /\ d.wild = c.wild
             /\ d.state = c.state /\ d.volume = c.volume
  <2>1. Controlled(c, d, r, v)
    <3>1. r # \h7f
      BY <1>4
    <3> QED
      BY <1>4, <3>1, TakeControl
  <2> QED
    BY <1>4, <2>1 DEF Controlled
<1>5. ASSUME NEW v \in Byte, NEW c \in Chips, OnControls(c), NEW d, d = TakeByte(c, \h4c, v)
      PROVE  /\ d \in Chips /\ d.page = c.page /\ d.book = c.book /\ d.wild = c.wild
             /\ d.state = c.state /\ d.volume = v
  <2>1. PICK r \in 1 .. 255 : r = \h4c
    OBVIOUS
  <2>2. d = TakeByte(c, r, v) /\ r # \h7f /\ r # \h03
    BY <1>5, <2>1
  <2>3. Controlled(c, d, r, v)
    BY <2>2, TakeControl
  <2> QED
    BY <1>5, <2>1, <2>2, <2>3 DEF Controlled
<1>6. /\ {\haa, \hbb, \hcc, \hdd, \hee, \hff} \subseteq Byte /\ Byte \subseteq Content
      /\ {\haa, \h2a, \hcc, \hee, \h6e} \subseteq 1 .. 255 \ {\h7f, \h03, \h4c}
  BY DEF Byte, Content
<1>7. Reg(\haa, \hbb) \in Leads(alias, Closed, Closed)
  <2> DEFINE r == Register(alias, \haa)
             e == <<\haa, \hbb>>
  <2>1. ASSUME NEW l \in {0, 1}, NEW c \in Closed[l]
        PROVE  c.wild = "no" /\ c \in Closed[1] /\ TakeByte(c, r, \hbb) \in Closed[l] /\ TakeByte(c, r, \hbb) \in Closed[1]
    BY <1>1, <1>2, <1>3, <1>4, <1>6 DEF OnControls
  <2>2. e[1] = \haa /\ e[2] = \hbb
    OBVIOUS
  <2> HIDE DEF e
  <2>3. Follows(alias, Closed, e, Closed)
    BY <2>1, <2>2 DEF Follows, CFG_META_SWITCH, CFG_META_DELAY, CFG_META_BURST
  <2> QED
    BY <1>6, <2>3, LeadsOne DEF e
<1>8. Reg(\hcc, \hdd) \in Leads(alias, Closed, Finished(alias))
  <2> DEFINE r == Register(alias, \hcc)
             e == <<\hcc, \hdd>>
  <2>1. ASSUME NEW l \in {0, 1}, NEW c \in Closed[l]
        PROVE  /\ c.wild = "no" /\ c \in Finished(alias)[1]
               /\ TakeByte(c, r, \hdd) \in Finished(alias)[l]
               /\ TakeByte(c, r, \hdd) \in Finished(alias)[1]
    <3>1. c \in Chips /\ c.wild = "no" /\ OnControls(c) /\ (l = 0 => c.state = 3 /\ c.volume = \h30)
      BY <1>2
    <3> DEFINE d == TakeByte(c, r, \hdd)
    <3>2. /\ d \in Chips /\ d.page = c.page /\ d.book = c.book /\ d.wild = c.wild
          /\ d.state = c.state /\ d.volume = IF alias = "yes" THEN \hdd ELSE c.volume
      <4>1. CASE alias = "yes"
        BY <1>1, <1>5, <1>6, <3>1, <4>1
      <4>2. CASE alias # "yes"
        BY <1>1, <1>4, <1>6, <3>1, <4>2
      <4> QED
        BY <4>1, <4>2
    <3> HIDE DEF d
    <3> QED
      BY <3>1, <3>2 DEF Finished, VolumeOfTable, OnControls, d
  <2>2. e[1] = \hcc /\ e[2] = \hdd
    OBVIOUS
  <2> HIDE DEF e
  <2>3. Follows(alias, Closed, e, Finished(alias))
    BY <2>1, <2>2 DEF Follows, CFG_META_SWITCH, CFG_META_DELAY, CFG_META_BURST, CFG_END_1
  <2> QED
    BY <1>6, <2>3, LeadsOne DEF e
<1>9. Reg(\hee, \hff) \in Leads(alias, Finished(alias), Finished(alias))
  <2> DEFINE r == Register(alias, \hee)
             e == <<\hee, \hff>>
  <2>1. ASSUME NEW l \in {0, 1}, NEW c \in Finished(alias)[l]
        PROVE  /\ c.wild = "no" /\ c \in Finished(alias)[1]
               /\ TakeByte(c, r, \hff) \in Finished(alias)[l]
               /\ TakeByte(c, r, \hff) \in Finished(alias)[1]
    <3>1. c \in Chips
      BY DEF Finished
    <3> DEFINE d == TakeByte(c, r, \hff)
    <3>2. /\ d \in Chips /\ d.page = c.page /\ d.book = c.book /\ d.wild = c.wild
          /\ d.state = c.state /\ d.volume = c.volume
      BY <1>1, <1>4, <1>6, <3>1
    <3> HIDE DEF d
    <3> QED
      BY <3>1, <3>2 DEF Finished, OnControls, d
  <2>2. e[1] = \hee /\ e[2] = \hff
    OBVIOUS
  <2> HIDE DEF e
  <2>3. Follows(alias, Finished(alias), e, Finished(alias))
    BY <2>1, <2>2 DEF Follows, CFG_META_SWITCH, CFG_META_DELAY, CFG_META_BURST, CFG_END_1
  <2> QED
    BY <1>6, <2>3, LeadsOne DEF e
<1>10. Reg(\haa, \hbb) \o Reg(\hcc, \hdd) \in Leads(alias, Closed, Finished(alias))
  BY <1>7, <1>8, LeadsJoin
<1> QED
  BY <1>9, <1>10, LeadsJoin DEF EndMarker, CFG_END_1, CFG_END_2, CFG_END_3

\* From any chip on a known page, the table of each board leads to one that
\* plays, if no write is lost; whichever single one is lost, the control
\* registers are selected in the end and no coefficient went there
\* (tas5805m_registers).
THEOREM FirmwareLeads ==
    ASSUME NEW alias \in {"yes", "no"}, NEW board \in Boards
    PROVE  tas5805m_registers[board] \in Leads(alias, Sane, Finished(alias))
<1> DEFINE AA == Leads(alias, Away, Away)
           To == Leads(alias, Sane, Away)
<1>1. StartUp(board) \o Book8cPages29To2e \in To
  BY StartUpLeads, FirstBookLeads, LeadsJoin
<1>2. \A s \in To : \A t \in AA : s \o t \in To
  BY LeadsJoin
<1> DEFINE Rows == StartUp(board) \o Book8cPages29To2e \o Book8cPage31 \o Book8cPage32
                   \o Book8cPage33 \o Book8cPage34 \o Book8cPage35
                   \o BookAaPage24 \o BookAaPage25 \o BookAaPage26 \o BookAaPage27
                   \o BookAaPage28 \o BookAaPages29To2f
                   \o MixedBooks \o MixedBooksGoOn \o MixedBooksEnd
<1>3. Rows \in To
  <2>1. /\ Book8cPage31 \in AA /\ Book8cPage32 \in AA /\ Book8cPage33 \in AA
        /\ Book8cPage34 \in AA /\ Book8cPage35 \in AA
        /\ BookAaPage24 \in AA /\ BookAaPage25 \in AA /\ BookAaPage26 \in AA
        /\ BookAaPage27 \in AA /\ BookAaPage28 \in AA /\ BookAaPages29To2f \in AA
        /\ MixedBooks \in AA /\ MixedBooksGoOn \in AA /\ MixedBooksEnd \in AA
    BY RowsLead
  <2> HIDE DEF To, AA
  <2> QED
    BY <1>1, <1>2, <2>1
<1> HIDE DEF Rows
<1>4. Rows \o RegisterTuning \in Leads(alias, Sane, Closed)
  BY <1>3, TuningLeads, LeadsJoin
<1>5. Rows \o RegisterTuning \o EndMarker \in Leads(alias, Sane, Finished(alias))
  BY <1>4, EndMarkerLeads, LeadsJoin
<1>6. Registers(board) \in Leads(alias, Sane, Finished(alias))
  BY <1>5 DEF Registers, Rows
<1>7. tas5805m_registers[board] = Registers(board)
  BY DEF tas5805m_registers, Boards
<1> QED
  BY <1>6, <1>7

-----------------------------------------------------------------------------
(* Types.                                                                  *)

\* A write, done or lost, keeps the types.
LEMMA WriteType ==
    ASSUME chip \in Chips, lost \in 0 .. MaxLost,
           NEW reg \in Int, NEW data \in Seq(Content), Write(reg, data)
    PROVE  chip' \in Chips /\ lost' \in 0 .. MaxLost
<1>1. MaxLost \in Nat
  BY AmpAssumption
<1>2. TakeBytes(chip, reg, data) \in Chips
  BY TakeBytesType
<1>3. ASSUME NEW n \in 0 .. Len(data) PROVE TakeBytes(chip, reg, SubSeq(data, 1, n)) \in Chips
  <2>1. \A k \in 1 .. n : data[k] \in Content
    OBVIOUS
  <2>2. SubSeq(data, 1, n) \in Seq(Content)
    BY <2>1, SubSeqProperties
  <2> QED
    BY <2>2, TakeBytesType
<1>4. CASE WriteDone(reg, data)
  BY <1>2, <1>4 DEF WriteDone
<1>5. CASE WriteLost(reg, data) /\ Installed
  <2>1. chip' \in Chips
    BY <1>3, <1>5 DEF WriteLost
  <2>2. lost < MaxLost /\ lost' = lost + 1
    BY <1>5 DEF WriteLost
  <2> QED
    BY <1>1, <2>1, <2>2
<1>6. CASE WriteLost(reg, data) /\ ~Installed
  <2>1. chip' = chip /\ lost' = IF lost < MaxLost THEN lost + 1 ELSE lost
    BY <1>6 DEF WriteLost
  <2> QED
    BY <1>1, <2>1
<1> QED
  BY <1>4, <1>5, <1>6 DEF Write

\* The table of the firmware has no bursts, so that the loop comes to each
\* entry of it; the other tables stay inside by assumption.
LEMMA TablesStayInside ==
    ASSUME config \in Configs, config.source = "table"
    PROVE  Table \in Seq(Entry) /\ \E heads : StaysInside(Table, heads)
<1>1. config.table \in Boards \cup DOMAIN OtherTables
  BY DEF Configs
<1>2. CASE config.table \in Boards
  <2>1. Table \in Leads("yes", Sane, Finished("yes"))
    BY <1>2, FirmwareLeads DEF Table
  <2>2. Table \in Seq(Entry)
    BY <2>1 DEF Leads
  <2>3. \A k \in 1 .. Len(Table) : Table[k][1] # CFG_META_BURST
    BY <2>1 DEF Leads, Annotates, Follows
  <2>4. StaysInside(Table, 1 .. Len(Table) + 1)
    <3> DEFINE n == Len(Table)
               heads == 1 .. n + 1
    <3>1. n \in Nat
      BY <2>2
    <3> HIDE DEF n
    <3>2. 1 \in heads /\ \A k \in heads \ {n + 1} : k \in 1 .. n /\ k + 1 \in heads
      BY <3>1
    <3> HIDE DEF heads
    <3> QED
      BY <2>3, <3>2 DEF Controlled, StaysInside, n, heads
  <2> QED
    BY <2>2, <2>4
<1>3. CASE config.table \notin Boards
  BY <1>1, <1>3, AmpAssumption DEF Table, Entry
<1> QED
  BY <1>2, <1>3

\* What the burst at a head sends, and where the next head is.
LEMMA BurstsInside ==
    ASSUME NEW heads, StaysInside(Table, heads), Table \in Seq(Entry),
           NEW k \in heads, k <= Len(Table)
    PROVE  /\ k \in 1 .. Len(Table) /\ Offset(k) \in Byte /\ Value(k) \in Content
           /\ Offset(k) # CFG_META_BURST => k + 1 \in heads
           /\ Offset(k) = CFG_META_BURST =>
                 /\ AfterBurst(k) \in heads /\ Offset(k + 1) \in Byte
                 /\ BurstData(k) \in Seq(Content)
<1> DEFINE n == Len(Table)
<1>1. n \in Nat /\ heads \subseteq 1 .. n + 1
  BY DEF StaysInside
<1>2. k \in 1 .. n /\ k # n + 1
  BY <1>1
<1>3. \A m \in 1 .. n : Table[m] \in Entry /\ Table[m][1] \in Byte /\ Table[m][2] \in Content
  BY ElementOfSeq DEF Entry
<1>4. IF Offset(k) = CFG_META_BURST
      THEN Value(k) \in Byte /\ k + Value(k) \div 2 + 2 \in heads
      ELSE k + 1 \in heads
  BY <1>2 DEF StaysInside, Offset, Value
<1>5. ASSUME Offset(k) = CFG_META_BURST
      PROVE  /\ AfterBurst(k) \in heads /\ Offset(k + 1) \in Byte
             /\ BurstData(k) \in Seq(Content)
  <2>0. PICK v \in 0 .. 255 : v = Value(k)
    BY <1>4, <1>5 DEF Byte
  <2>1. k + v \div 2 + 2 \in heads /\ k + v \div 2 + 2 <= n + 1
    <3> DEFINE q == k + v \div 2 + 2
    <3>1. q \in heads
      BY <1>4, <1>5, <2>0
    <3> HIDE DEF q, n
    <3>2. q <= n + 1
      BY <1>1, <3>1
    <3> QED
      BY <3>1, <3>2 DEF q
  <2> HIDE DEF n
  <2>2. AfterBurst(k) = k + v \div 2 + 2
    <3>1. k \in Int /\ k + v \div 2 + 1 + 1 = k + v \div 2 + 2
      BY <1>1, <1>2
    <3> QED
      BY <2>0, <3>1 DEF AfterBurst
  <2>3. k + 1 \in 1 .. n
    BY <1>1, <1>2, <2>1
  <2>4. ASSUME NEW b \in 1 .. v PROVE k + 1 + b \div 2 \in 1 .. n
    <3>1. b \div 2 <= v \div 2 /\ b \div 2 \in Nat /\ v \div 2 \in Nat
      BY <2>1
    <3> QED
      BY <1>1, <1>2, <2>1, <3>1
  <2> DEFINE E(b) == Table[k + 1 + b \div 2][IF b % 2 = 0 THEN 1 ELSE 2]
  <2>5. \A b \in 1 .. v : E(b) \in Content
    <3>1. Byte \subseteq Content
      BY DEF Content
    <3>2. \A m \in 1 .. n : {Table[m][1], Table[m][2]} \subseteq Content
      BY <1>3, <3>1 DEF n
    <3> QED
      BY <2>4, <3>2
  <2>6. BurstData(k) = [b \in 1 .. v |-> E(b)]
    BY <2>0 DEF BurstData
  <2> HIDE DEF E
  <2>7. BurstData(k) \in Seq(Content)
    BY <2>1, <2>5, <2>6
  <2>8. Offset(k + 1) \in Byte
    BY <1>3, <2>3 DEF Offset, n
  <2> QED
    BY <2>1, <2>2, <2>7, <2>8
<1> QED
  BY <1>2, <1>3, <1>4, <1>5 DEF Offset, Value

-----------------------------------------------------------------------------
\* The loops over the table and over the text stay inside; the command that a
\* text builds up is no longer than the lines so far.
InTable ==
    apc = "table" =>
        config.source = "table" /\ \E heads : StaysInside(Table, heads) /\ i \in heads

InText ==
    apc = "text" =>
        /\ config.source # "table"
        /\ i <= Len(config.script) + 1
        /\ cmd_data_len <= i + 1

AmpInv == AmpTypeOK /\ InTable /\ InText

\* A text has bytes, and the command buffer is long enough for it.
LEMMA ScriptType ==
    ASSUME config \in Configs, config.source # "table"
    PROVE  /\ config.script \in Seq([kind : STRING, vals : Seq(Byte)])
           /\ Len(config.script) \in Nat /\ Len(config.script) + 2 <= CmdMax
<1>1. config.script \in Scripts
  BY DEF Configs
<1>2. /\ config.script \in Seq([kind : STRING, vals : Seq(Byte)])
      /\ Len(config.script) + 2 <= CmdMax
  BY <1>1, AmpAssumption, Zenon
<1>3. Len(config.script) \in Nat
  BY <1>2, LenProperties
<1> QED
  BY <1>2, <1>3

\* One entry of a table, or one burst.
LEMMA TableStepInv ==
    ASSUME AmpInv, TableStep
    PROVE  AmpInv'
<1>1. /\ apc = "table" /\ config.source = "table" /\ i <= Len(Table)
      /\ UNCHANGED <<busVars, config, apc, textVars, inited, asked, reading>>
  BY DEF TableStep, AmpInv, InTable
<1>2. PICK heads : StaysInside(Table, heads) /\ i \in heads
  BY <1>1 DEF AmpInv, InTable
<1>3. Table \in Seq(Entry)
  BY <1>1, TablesStayInside DEF AmpInv, AmpTypeOK
<1>4. /\ i \in 1 .. Len(Table) /\ Offset(i) \in Byte /\ Value(i) \in Content
      /\ Offset(i) # CFG_META_BURST => i + 1 \in heads
      /\ Offset(i) = CFG_META_BURST =>
            /\ AfterBurst(i) \in heads /\ Offset(i + 1) \in Byte
            /\ BurstData(i) \in Seq(Content)
  BY <1>1, <1>2, <1>3, BurstsInside
<1>5. chip \in Chips /\ lost \in 0 .. MaxLost
  BY DEF AmpInv, AmpTypeOK
<1>6. /\ chip' \in Chips /\ lost' \in 0 .. MaxLost /\ i' \in heads
  <2>1. CASE NoWrite /\ i' = i + 1 /\ Offset(i) # CFG_META_BURST
    BY <1>4, <1>5, <2>1 DEF NoWrite
  <2>2. CASE /\ Offset(i) = CFG_META_BURST
             /\ Write(Offset(i + 1), BurstData(i))
             /\ i' = AfterBurst(i)
    <3>1. chip' \in Chips /\ lost' \in 0 .. MaxLost
      <4>1. Byte \subseteq Int
        BY DEF Byte
      <4>2. Offset(i + 1) \in Int /\ BurstData(i) \in Seq(Content)
        BY <1>4, <2>2, <4>1, Zenon
      <4> QED
        BY <1>5, <2>2, <4>2, WriteType
    <3> QED
      BY <1>4, <2>2, <3>1
  <2>3. CASE /\ Offset(i) # CFG_META_BURST
             /\ Write(Offset(i), <<Value(i)>>)
             /\ i' = i + 1
    <3>0. Byte \subseteq Int /\ \A v \in Content : <<v>> \in Seq(Content)
      BY DEF Byte
    <3>1. Offset(i) \in Int /\ <<Value(i)>> \in Seq(Content)
      BY <1>4, <3>0, Zenon
    <3>2. chip' \in Chips /\ lost' \in 0 .. MaxLost
      BY <1>5, <2>3, <3>1, WriteType
    <3> QED
      BY <1>4, <2>3, <3>2
  <2>4. IsEnd(i) => Offset(i) # CFG_META_BURST
    BY DEF IsEnd, CFG_END_1, CFG_META_BURST
  <2>5. Offset(i) \in {CFG_META_SWITCH, CFG_META_DELAY} => Offset(i) # CFG_META_BURST
    BY DEF CFG_META_SWITCH, CFG_META_DELAY, CFG_META_BURST
  <2> QED
    BY <2>1, <2>2, <2>3, <2>4, <2>5 DEF TableStep
<1>7. i' \in Nat \ {0}
  <2>1. Len(Table) \in Nat
    BY <1>3, LenProperties
  <2> QED
    BY <1>2, <1>6, <2>1 DEF StaysInside
<1>8. InTable'
  <2>1. Table' = Table
    BY <1>1 DEF Table
  <2> QED
    BY <1>1, <1>2, <1>6, <2>1 DEF InTable
<1> QED
  BY <1>1, <1>6, <1>7, <1>8
  DEF AmpInv, AmpTypeOK, InText, BusTypeOK, busVars, textVars

\* The commands that a text sends, and what its lines leave in the buffer.
LEMMA FlushType ==
    ASSUME AmpTypeOK, Flush
    PROVE  chip' \in Chips /\ lost' \in 0 .. MaxLost
<1>1. CASE status = "W_PREPARING" /\ cmd_data_len >= 3
  <2>1. CmdMax \in Nat /\ cmd_data_len \in 3 .. CmdMax
    BY <1>1, AmpAssumption DEF AmpTypeOK
  <2>2. \A k \in 1 .. cmd_data_len - 1 : cmd[k] \in Content
    BY <2>1 DEF AmpTypeOK
  <2>3. Command \in Seq(Content) /\ Command # <<>>
    <3>1. Command = [k \in 1 .. cmd_data_len - 1 |-> cmd[k]]
      BY DEF Command
    <3>2. cmd_data_len - 1 \in Nat /\ cmd_data_len - 1 # 0
      BY <2>1
    <3>3. Command \in Seq(Content) /\ Len(Command) = cmd_data_len - 1
      BY <2>2, <3>1, <3>2
    <3> QED
      BY <3>2, <3>3
  <2>4. Tail(Command) \in Seq(Content)
    BY <2>3
  <2>5. cmd[1] \in Int
    BY <2>1, <2>2 DEF Content, Byte, Unknown
  <2>6. Write(cmd[1], Tail(Command))
    BY <1>1 DEF Flush
  <2> QED
    BY <2>4, <2>5, <2>6, WriteType DEF AmpTypeOK
<1>2. CASE ~(status = "W_PREPARING" /\ cmd_data_len >= 3)
  BY <1>2 DEF Flush, NoWrite, AmpTypeOK
<1> QED
  BY <1>1, <1>2

\* A line of a text.
LEMMA GetValuesType ==
    ASSUME cmd \in [0 .. CmdMax - 1 -> Content], Line.vals \in Seq(Byte),
           NEW at \in Nat, NEW n \in Nat, GetValues(at, n)
    PROVE  cmd' \in [0 .. CmdMax - 1 -> Content]
<1> DEFINE given == IF Len(Line.vals) < n THEN Len(Line.vals) ELSE n
<1>1. given \in Nat /\ given <= Len(Line.vals)
  OBVIOUS
<1>2. PICK found : cmd' = [k \in DOMAIN cmd |->
                              IF k \in at .. at + given - 1 THEN Line.vals[k - at + 1]
                              ELSE IF k \in at + given .. at + found - 1 THEN Unknown
                              ELSE cmd[k]]
  BY DEF GetValues
<1> HIDE DEF given
<1>3. \A k \in at .. at + given - 1 : Line.vals[k - at + 1] \in Content
  <2>1. \A k \in at .. at + given - 1 : k - at + 1 \in 1 .. Len(Line.vals)
    BY <1>1
  <2> QED
    BY <2>1 DEF Content
<1>4. Unknown \in Content
  BY DEF Content
<1> QED
  BY <1>2, <1>3, <1>4

\* Any line of a text.
LEMMA TextLineInv ==
    ASSUME AmpInv, TextLine
    PROVE  AmpInv'
<1>1. /\ apc = "text" /\ config.source # "table" /\ i <= Len(config.script)
      /\ cmd_data_len <= i + 1 /\ i' = i + 1
      /\ UNCHANGED <<busVars, config, apc, inited, asked, reading>>
  BY DEF TextLine, AmpInv, InText
<1>2. /\ config.script \in Seq([kind : STRING, vals : Seq(Byte)])
      /\ Len(config.script) \in Nat /\ Len(config.script) + 2 <= CmdMax /\ CmdMax \in Nat
  BY <1>1, ScriptType, AmpAssumption DEF AmpInv, AmpTypeOK
<1>3. i \in 1 .. Len(config.script)
  BY <1>1, <1>2 DEF AmpInv, AmpTypeOK
<1>4. Line.vals \in Seq(Byte)
  <2>1. Line \in [kind : STRING, vals : Seq(Byte)]
    BY <1>2, <1>3, ElementOfSeq DEF Line
  <2> QED
    BY <2>1
<1>5. AmpTypeOK /\ cmd_data_len \in Nat
  BY <1>2 DEF AmpInv, AmpTypeOK
<1>6. /\ chip' \in Chips /\ lost' \in 0 .. MaxLost
      /\ status' \in {"NOTHING", "W_PREPARING"}
      /\ cmd' \in [0 .. CmdMax - 1 -> Content]
      /\ cmd_data_len' \in Nat /\ cmd_data_len' <= i + 2
  <2>1. CASE NewCommand
    <3>1. chip' \in Chips /\ lost' \in 0 .. MaxLost
      BY <1>5, <2>1, FlushType DEF NewCommand
    <3>2. cmd' \in [0 .. CmdMax - 1 -> Content]
      BY <1>4, <1>5, <2>1, GetValuesType DEF NewCommand, AmpTypeOK
    <3> QED
      BY <1>3, <2>1, <3>1, <3>2 DEF NewCommand
  <2>2. CASE MoreData
    <3>1. chip' \in Chips /\ lost' \in 0 .. MaxLost /\ status' = status
      BY <1>5, <2>2 DEF MoreData, NoWrite, AmpTypeOK
    <3>2. CASE status = "W_PREPARING"
      <4>1. cmd' \in [0 .. CmdMax - 1 -> Content]
        BY <1>4, <1>5, <2>2, <3>2, GetValuesType DEF MoreData, AmpTypeOK
      <4>2. cmd_data_len' = cmd_data_len + 1
        BY <2>2, <3>2 DEF Controlled, MoreData
      <4> QED
        BY <1>1, <1>3, <1>5, <3>1, <4>1, <4>2 DEF AmpTypeOK
    <3>3. CASE status # "W_PREPARING"
      BY <1>1, <1>3, <1>5, <2>2, <3>1, <3>3 DEF MoreData, AmpTypeOK
    <3> QED
      BY <3>2, <3>3
  <2>3. CASE OtherLine
    <3>1. chip' \in Chips /\ lost' \in 0 .. MaxLost
      BY <1>5, <2>3, FlushType DEF OtherLine
    <3> QED
      BY <1>1, <1>3, <1>5, <2>3, <3>1 DEF OtherLine, AmpTypeOK
  <2> QED
    BY <2>1, <2>2, <2>3 DEF TextLine
<1>7. cmd_data_len' \in 0 .. CmdMax /\ i' \in Nat \ {0} /\ i' <= Len(config'.script) + 1
  BY <1>1, <1>2, <1>3, <1>6
<1>8. AmpTypeOK'
  BY <1>1, <1>5, <1>6, <1>7 DEF AmpTypeOK, BusTypeOK, busVars
<1>9. InText'
  BY <1>1, <1>3, <1>6, <1>7 DEF InText
<1> QED
  BY <1>1, <1>8, <1>9 DEF AmpInv, InTable

\* A volume is a byte.
LEMMA SetVolumeInv ==
    ASSUME AmpInv, NEW v \in Volumes, tas5805mSetVolume(v)
    PROVE  AmpInv'
<1>1. v \in Int
  BY AmpAssumption
<1>2. PICK b \in Byte : b = v % 256
  BY <1>1 DEF Byte
<1>3. b \in Content /\ Unknown \in Content /\ <<b>> \in Seq(Content) /\ \h4c \in Int
  BY DEF Content
<1>4. Write(\h4c, <<b>>) /\ asked' \in {b, Unknown}
  BY <1>2 DEF tas5805mSetVolume, Write
<1>5. chip' \in Chips /\ lost' \in 0 .. MaxLost /\ asked' \in Content
  BY <1>3, <1>4, WriteType DEF AmpInv, AmpTypeOK
<1> QED
  BY <1>5 DEF tas5805mSetVolume, AmpInv, AmpTypeOK, InTable, InText,
              BusTypeOK, busVars, textVars

\* AmpInv holds at first ...
LEMMA AmpInvInit == AmpInit => AmpInv
<1> SUFFICES ASSUME AmpInit PROVE AmpInv
  OBVIOUS
<1>1. MaxLost \in Nat /\ CmdMax \in Nat
  BY AmpAssumption
<1>2. Unknown \in Content /\ 0 \in Content /\ ChipReset \in Chips
  BY DEF Content, Byte, Chips, ChipReset
<1>3. cmd \in [0 .. CmdMax - 1 -> Content]
  BY <1>2 DEF AmpInit
<1> QED
  BY <1>1, <1>2, <1>3 DEF AmpInit, AmpInv, AmpTypeOK, InTable, InText,
                          BusTypeOK, BusDown

\* ... is kept by every step ...
LEMMA AmpInvNext ==
    ASSUME AmpInv, [AmpNext]_avars
    PROVE  AmpInv'
<1>1. MaxLost \in Nat /\ CmdMax \in Nat
  BY AmpAssumption
<1>2. Unknown \in Content /\ 0 \in Content /\ ChipReset \in Chips
  BY DEF Content, Byte, Chips, ChipReset
<1>3. CASE InitReset
  BY <1>1, <1>2, <1>3
  DEF InitReset, Goto, AmpInv, AmpTypeOK, InTable, InText, BusTypeOK, busVars, textVars
<1>4. CASE InitBus
  BY <1>4
  DEF InitBus, Goto, BusFound, BusCreated, BusFails, AmpInv, AmpTypeOK, InTable, InText,
      BusTypeOK, busVars, textVars
<1>5. CASE LoadTable
  <2>1. apc' = "table" /\ config' = config /\ i' = 1 /\ config.source = "table"
    BY <1>5 DEF LoadTable, Goto
  <2>2. \E heads : StaysInside(Table, heads)
    BY <2>1, TablesStayInside DEF AmpInv, AmpTypeOK
  <2>3. Table' = Table
    BY <2>1 DEF Table
  <2>4. InTable'
    BY <2>1, <2>2, <2>3 DEF InTable, StaysInside
  <2> QED
    BY <1>5, <2>1, <2>4
    DEF LoadTable, AmpInv, AmpTypeOK, InText, BusTypeOK, busVars, textVars
<1>6. CASE LoadText
  <2>1. /\ apc' = "text" /\ config' = config /\ i' = 1 /\ cmd_data_len' = 0
        /\ config.source # "table"
    BY <1>6 DEF LoadText, Goto
  <2>2. cmd' \in [0 .. CmdMax - 1 -> Content]
    BY <1>2, <1>6 DEF LoadText
  <2>3. InText'
    BY <2>1, ScriptType DEF InText, AmpInv, AmpTypeOK
  <2> QED
    BY <1>1, <1>6, <2>1, <2>2, <2>3
    DEF LoadText, AmpInv, AmpTypeOK, InTable, BusTypeOK, busVars
<1>7. CASE LoadFails \/ TableEnd \/ TextEnd
  BY <1>7
  DEF LoadFails, TableEnd, TextEnd, InitDone, Goto, AmpInv, AmpTypeOK, InTable, InText,
      BusTypeOK, busVars, textVars
<1>8. CASE TableStep
  BY <1>8, TableStepInv
<1>9. CASE TextLine
  BY <1>9, TextLineInv
<1>10. CASE \E v \in Volumes : tas5805mSetVolume(v)
  BY <1>10, SetVolumeInv
<1>11. CASE tas5805mGetVolume
  <2>1. Take(chip, chip.volume) \in Content
    BY <1>2 DEF Take, AmpInv, AmpTypeOK, Chips
  <2>2. reading' \in Content
    BY <1>2, <1>11, <2>1 DEF tas5805mGetVolume
  <2> QED
    BY <1>11, <2>2
    DEF tas5805mGetVolume, AmpInv, AmpTypeOK, InTable, InText, BusTypeOK,
        busVars, textVars
<1>12. CASE Restart
  BY <1>2, <1>12
  DEF Restart, Goto, AmpInv, AmpTypeOK, InTable, InText, BusTypeOK, textVars
<1>13. CASE UNCHANGED avars
  <2>1. Table' = Table
    BY <1>13 DEF avars, ampVars, Table
  <2> QED
    BY <1>13, <2>1
    DEF avars, ampVars, busVars, textVars, AmpInv, AmpTypeOK, InTable, InText,
        BusTypeOK
<1> QED
  BY <1>3, <1>4, <1>5, <1>6, <1>7, <1>8, <1>9, <1>10, <1>11, <1>12, <1>13 DEF AmpNext, InitStep

\* ... and holds always.
LEMMA AmpInvAlways == AmpSpec => []AmpInv
BY AmpInvInit, AmpInvNext, PTL DEF AmpSpec

\* The variables keep their types, for any tables and texts that stay inside the
\* buffer: the place in a table, the length of a command and the bytes of the
\* chip (transmit_registers, tas5805m_pa_set_config_from_code).
THEOREM AmpTypes == AmpSpec => []AmpTypeOK
<1>1. AmpInv => AmpTypeOK
  BY DEF AmpInv
<1> QED
  BY <1>1, AmpInvAlways, PTL

-----------------------------------------------------------------------------
(* The chip under the firmware's table.                                    *)

\* f assigns an assertion to each place of the table, and that of the place
\* reached holds of the chip, unless two writes were lost.
OnTheWay(f) ==
    /\ Annotates(config.alias, f, Table)
    /\ f[Len(Table) + 1] = Finished(config.alias)
    /\ lost = 0 => chip \in f[i][0]
    /\ Installed /\ lost = 1 => chip \in f[i][1]

BeforeTable == apc \in {"bus", "load"} => chip = ChipReset /\ lost = 0

DuringTable ==
    apc = "table" =>
        /\ \E f : OnTheWay(f)
        /\ Installed \/ chip = ChipReset

NotYet == apc # "idle" => inited = "no" /\ asked = Unknown

AfterTable ==
    inited = "yes" =>
        /\ lost <= 1 => OnControls(chip) /\ (asked # Unknown => chip.volume = asked)
        /\ lost = 0 =>
              /\ chip.state = 3
              /\ asked = Unknown => chip.volume = VolumeOfTable(config.alias)

ChipInv ==
    FirmwareTable =>
        /\ BeforeTable /\ DuringTable /\ NotYet /\ AfterTable
        /\ CoefsOffControls

\* The chip was reset before the table is sent.
LEMMA LoadTableChip ==
    ASSUME AmpInv, ChipInv, LoadTable, FirmwareTable
    PROVE  ChipInv'
<1>1. /\ apc = "load" /\ apc' = "table" /\ i' = 1
      /\ UNCHANGED <<driver, config, chip, inited, asked, lost>>
  BY DEF LoadTable, Goto, busVars
<1>2. chip = ChipReset /\ lost = 0 /\ inited = "no" /\ asked = Unknown
  BY <1>1 DEF ChipInv, BeforeTable, NotYet
<1>3. config.alias \in {"yes", "no"}
  BY DEF AmpInv, AmpTypeOK, Configs
<1>4. Table \in Leads(config.alias, Sane, Finished(config.alias))
  BY <1>3, FirmwareLeads DEF FirmwareTable, Table
<1>5. PICK f : /\ f[1] = Sane /\ f[Len(Table) + 1] = Finished(config.alias)
               /\ Annotates(config.alias, f, Table)
  BY <1>4 DEF Leads
<1>6. ChipReset \in Sane[0]
  BY DEF ChipReset, Sane, Chips, Content, Byte, Unknown
<1>7. Table' = Table
  BY <1>1 DEF Table
<1>8. OnTheWay(f)'
  BY <1>1, <1>2, <1>5, <1>6, <1>7 DEF OnTheWay
<1>9. ChipReset.wild = "no"
  BY DEF ChipReset
<1> QED
  BY <1>1, <1>2, <1>8, <1>9
  DEF ChipInv, BeforeTable, DuringTable, NotYet, AfterTable, CoefsOffControls, FirmwareTable

\* One entry of the table, written or skipped or lost.
LEMMA TableStepChip ==
    ASSUME AmpInv, ChipInv, TableStep, FirmwareTable
    PROVE  ChipInv'
<1>1. /\ apc = "table" /\ i <= Len(Table)
      /\ UNCHANGED <<driver, config, apc, inited, asked>>
  BY DEF TableStep, busVars
<1>2. /\ inited = "no" /\ asked = Unknown
      /\ Installed \/ chip = ChipReset
  BY <1>1 DEF ChipInv, NotYet, DuringTable
<1>3. PICK f : OnTheWay(f)
  BY <1>1 DEF ChipInv, DuringTable
<1>4. config.source = "table"
  BY DEF FirmwareTable
<1>5. Table \in Seq(Entry) /\ Len(Table) \in Nat
  BY <1>4, TablesStayInside DEF AmpInv, AmpTypeOK
<1>6. i \in 1 .. Len(Table)
  BY <1>1, <1>5 DEF AmpInv, AmpTypeOK
<1>7. Follows(config.alias, f[i], Table[i], f[i + 1])
  BY <1>3, <1>6 DEF OnTheWay, Annotates
<1>8. lost \in Nat /\ MaxLost \in Nat /\ MaxLost # 0
  BY AmpAssumption DEF AmpInv, AmpTypeOK
<1> DEFINE d == TakeByte(chip, Register(config.alias, Offset(i)), Value(i))
           skipped == Offset(i) \in {CFG_META_SWITCH, CFG_META_DELAY}
           Reached == /\ i' = i + 1
                      /\ lost' = 0 => chip' \in f[i'][0]
                      /\ Installed /\ lost' = 1 => chip' \in f[i'][1]
                      /\ Installed \/ chip' = ChipReset
<1>9. ASSUME NEW l \in {0, 1}, chip \in f[i][l]
      PROVE  /\ skipped \/ Offset(i) = CFG_END_1 => chip \in f[i + 1][l]
             /\ skipped \/ d \in f[i + 1][l]
             /\ skipped \/ l = 1 \/ (chip \in f[i + 1][1] /\ d \in f[i + 1][1])
  <2>1. /\ Table[i][1] \in {CFG_META_SWITCH, CFG_META_DELAY} \/ Table[i][1] = CFG_END_1 => chip \in f[i + 1][l]
        /\ \/ Table[i][1] \in {CFG_META_SWITCH, CFG_META_DELAY}
           \/ TakeByte(chip, Register(config.alias, Table[i][1]), Table[i][2]) \in f[i + 1][l]
        /\ \/ Table[i][1] \in {CFG_META_SWITCH, CFG_META_DELAY}
           \/ l = 1
           \/ {chip, TakeByte(chip, Register(config.alias, Table[i][1]), Table[i][2])} \subseteq f[i + 1][1]
    BY <1>7, <1>9 DEF Follows
  <2> QED
    BY <2>1 DEF Offset, Value
<1>10. Offset(i) # CFG_META_BURST
  BY <1>7 DEF Follows, Offset
<1>11. ASSUME skipped \/ IsEnd(i), NoWrite, i' = i + 1
       PROVE  Reached
  <2>1. chip' = chip /\ lost' = lost /\ (skipped \/ Offset(i) = CFG_END_1)
    BY <1>11 DEF NoWrite, IsEnd
  <2> HIDE DEF d, skipped
  <2> QED
    BY <1>2, <1>3, <1>9, <1>11, <2>1 DEF OnTheWay
<1>12. ASSUME ~skipped, Write(Offset(i), <<Value(i)>>), i' = i + 1
       PROVE  Reached
  <2>1. Offset(i) \in Int
    <3>1. Table[i] \in Entry
      BY <1>5, <1>6, ElementOfSeq
    <3> QED
      BY <3>1 DEF Entry, Byte, Offset
  <2>2. IF Installed
        THEN \/ chip' = d /\ lost' = lost
             \/ chip' \in {chip, d} /\ lost < MaxLost /\ lost' = lost + 1
        ELSE chip' = chip /\ lost' = IF lost < MaxLost THEN lost + 1 ELSE lost
    BY <1>12, <2>1, WriteOneByte
  <2> HIDE DEF d, skipped
  <2>3. CASE Installed
    <3>1. /\ lost = 0 => chip \in f[i][0]
          /\ lost = 1 => chip \in f[i][1]
      BY <1>3, <2>3 DEF OnTheWay
    <3> QED
      BY <1>8, <1>9, <1>12, <2>2, <2>3, <3>1
  <2>4. CASE ~Installed
    <3>1. chip' = chip /\ lost' # 0
      BY <1>8, <2>2, <2>4
    <3> QED
      BY <1>2, <1>12, <2>4, <3>1
  <2> QED
    BY <2>3, <2>4
<1>13. Reached
  BY <1>10, <1>11, <1>12 DEF TableStep
<1>14. Table' = Table /\ Installed' = Installed
  BY <1>1 DEF Table, Installed
<1>15. OnTheWay(f)'
  BY <1>1, <1>3, <1>13, <1>14 DEF OnTheWay
<1>16. lost' <= 1 => chip'.wild = "no"
  <2>1. lost' \in Nat
    BY AmpInvNext DEF AmpInv, AmpTypeOK, AmpNext, InitStep
  <2>2. ASSUME NEW l \in {0, 1}, chip' \in f[i + 1][l] PROVE chip'.wild = "no"
    <3>1. CASE i = Len(Table)
      BY <1>3, <2>2, <3>1 DEF OnTheWay, Finished
    <3>2. CASE i # Len(Table)
      <4>1. i + 1 \in 1 .. Len(Table)
        BY <1>5, <1>6, <3>2
      <4>2. Follows(config.alias, f[i + 1], Table[i + 1], f[i + 1 + 1])
        BY <1>3, <4>1 DEF OnTheWay, Annotates
      <4> QED
        BY <2>2, <4>2 DEF Follows
    <3> QED
      BY <3>1, <3>2
  <2>3. ChipReset.wild = "no"
    BY DEF ChipReset
  <2> QED
    BY <1>13, <2>1, <2>2, <2>3
<1> QED
  BY <1>1, <1>2, <1>13, <1>14, <1>15, <1>16
  DEF ChipInv, BeforeTable, DuringTable, NotYet, AfterTable, CoefsOffControls, FirmwareTable

\* Behind the table its last assertion holds.
LEMMA TableEndChip ==
    ASSUME AmpInv, ChipInv, TableEnd, FirmwareTable
    PROVE  ChipInv'
<1>1. /\ apc = "table" /\ apc' = "idle" /\ i > Len(Table) /\ inited' = "yes"
      /\ UNCHANGED <<config, chip, asked, lost>>
  BY DEF TableEnd, InitDone, Goto
<1>2. asked = Unknown /\ (Installed \/ chip = ChipReset)
  BY <1>1 DEF ChipInv, NotYet, DuringTable
<1>3. PICK f : OnTheWay(f)
  BY <1>1 DEF ChipInv, DuringTable
<1>4. i = Len(Table) + 1
  <2>1. PICK heads : StaysInside(Table, heads) /\ i \in heads
    BY <1>1 DEF AmpInv, InTable
  <2>2. config.source = "table"
    BY DEF FirmwareTable
  <2>3. Table \in Seq(Entry) /\ Len(Table) \in Nat
    BY <2>2, TablesStayInside DEF AmpInv, AmpTypeOK
  <2>4. i \in 1 .. Len(Table) + 1
    BY <2>1 DEF StaysInside
  <2> QED
    BY <1>1, <2>3, <2>4
<1>5. /\ lost = 0 => chip \in Finished(config.alias)[0]
      /\ Installed /\ lost = 1 => chip \in Finished(config.alias)[1]
  BY <1>3, <1>4 DEF OnTheWay
<1>6. lost \in Nat
  BY AmpAssumption DEF AmpInv, AmpTypeOK
<1>7. OnControls(ChipReset)
  BY DEF OnControls, ChipReset
<1>8. lost <= 1 => OnControls(chip)
  <2>1. lost <= 1 => lost = 0 \/ lost = 1
    BY <1>6
  <2> QED
    BY <1>2, <1>5, <1>7, <2>1 DEF Finished
<1>9. lost = 0 => chip.state = 3 /\ chip.volume = VolumeOfTable(config.alias)
  BY <1>5 DEF Finished
<1> QED
  BY <1>1, <1>2, <1>8, <1>9
  DEF ChipInv, BeforeTable, DuringTable, NotYet, AfterTable, CoefsOffControls, FirmwareTable,
      OnControls

\* A volume, taken or lost.
LEMMA SetVolumeChip ==
    ASSUME AmpInv, ChipInv, FirmwareTable, NEW v \in Volumes, tas5805mSetVolume(v)
    PROVE  ChipInv'
<1>1. apc = "idle" /\ UNCHANGED <<driver, config, apc, inited>>
  BY DEF tas5805mSetVolume, busVars
<1>2. v \in Int
  BY AmpAssumption
<1>3. PICK b \in Byte : b = v % 256
  BY <1>2 DEF Byte
<1>4. b # Unknown
  BY DEF Byte, Unknown
<1>5. chip \in Chips /\ lost \in Nat /\ MaxLost \in Nat /\ MaxLost # 0
  BY AmpAssumption DEF AmpInv, AmpTypeOK
<1> DEFINE d == TakeByte(chip, \h4c, b)
<1>6. d.wild = chip.wild /\ (OnControls(chip) => OnControls(d) /\ d.volume = b /\ d.state = chip.state)
  <2>1. PICK r \in 1 .. 255 : r = \h4c
    OBVIOUS
  <2>2. d = TakeByte(chip, r, b) /\ r # \h7f /\ r # \h03
    BY <2>1
  <2> HIDE DEF d
  <2>3. Controlled(chip, d, r, b)
    BY <1>5, <2>2, TakeControl
  <2>4. OnControls(chip) => OnControls(d)
    BY <2>3 DEF Controlled, OnControls
  <2> QED
    BY <2>1, <2>2, <2>3, <2>4 DEF Controlled
<1>7. TakeByte(chip, Register(config.alias, \h4c), b) = d
  BY DEF Register
<1> HIDE DEF d
<1>8. \/ chip' = d /\ lost' = lost /\ asked' = b
      \/ /\ asked' = Unknown /\ chip' \in {chip, d}
         /\ lost' \in Nat /\ lost' >= lost /\ lost' # 0
  <2>1. CASE WriteDone(\h4c, <<b>>) /\ asked' = b
    <3>1. TakeBytes(chip, \h4c, <<b>>) = d
      BY <1>7, TakeOneByte
    <3> QED
      BY <2>1, <3>1 DEF WriteDone
  <2>2. CASE WriteLost(\h4c, <<b>>) /\ asked' = Unknown
    <3>1. Write(\h4c, <<b>>)
      BY <2>2 DEF Write
    <3>2. IF Installed
          THEN \/ chip' = d /\ lost' = lost
               \/ chip' \in {chip, d} /\ lost < MaxLost /\ lost' = lost + 1
          ELSE chip' = chip /\ lost' = IF lost < MaxLost THEN lost + 1 ELSE lost
      BY <1>7, <3>1, WriteOneByte
    <3>3. Installed => lost' = lost + 1
      BY <2>2 DEF WriteLost
    <3>4. lost \in 0 .. MaxLost
      BY DEF AmpInv, AmpTypeOK
    <3>5. CASE Installed
      BY <1>5, <2>2, <3>2, <3>3, <3>5
    <3>6. CASE ~Installed
      BY <1>5, <2>2, <3>2, <3>4, <3>6
    <3> QED
      BY <3>5, <3>6
  <2> QED
    BY <1>3, <2>1, <2>2 DEF tas5805mSetVolume
<1>9. (lost' <= 1 => lost <= 1) /\ (lost' = 0 => lost = 0 /\ asked' # Unknown)
  BY <1>4, <1>5, <1>8
<1>10. CoefsOffControls'
  BY <1>1, <1>6, <1>8, <1>9 DEF ChipInv, CoefsOffControls, FirmwareTable
<1>11. AfterTable'
  <2>1. ASSUME inited = "yes"
        PROVE  /\ lost' <= 1 => OnControls(chip') /\ (asked' # Unknown => chip'.volume = asked')
               /\ lost' = 0 => chip'.state = 3 /\ asked' # Unknown
    <3>1. lost <= 1 => OnControls(chip)
      BY <2>1 DEF ChipInv, AfterTable
    <3>2. lost = 0 => chip.state = 3
      BY <1>5, <2>1 DEF ChipInv, AfterTable
    <3> QED
      BY <1>4, <1>6, <1>8, <1>9, <3>1, <3>2
  <2>2. OnControls(chip)' <=> OnControls(chip')
    BY DEF OnControls
  <2> QED
    BY <1>1, <2>1, <2>2 DEF AfterTable, OnControls
<1> QED
  BY <1>1, <1>10, <1>11 DEF ChipInv, BeforeTable, DuringTable, NotYet, FirmwareTable

\* ChipInv holds at first ...
LEMMA ChipInvInit == AmpInit => ChipInv
BY DEF AmpInit, ChipInv, BeforeTable, DuringTable, NotYet, AfterTable, CoefsOffControls, ChipReset

\* ... is kept by every step ...
LEMMA ChipInvNext ==
    ASSUME AmpInv, ChipInv, [AmpNext]_avars
    PROVE  ChipInv'
<1>1. SUFFICES ASSUME FirmwareTable, config' = config PROVE ChipInv'
  <2>1. config' = config
    BY DEF AmpNext, InitStep, InitReset, InitBus, LoadTable, LoadText, LoadFails, TableStep, TableEnd,
           TextLine, TextEnd, tas5805mSetVolume, tas5805mGetVolume, Restart, avars, ampVars
  <2>2. ~FirmwareTable => ChipInv'
    BY <2>1 DEF ChipInv, FirmwareTable
  <2> QED
    BY <1>1, <2>1, <2>2
<1>2. config.source = "table"
  BY <1>1 DEF FirmwareTable
<1>3. CASE InitReset
  <2>1. ChipReset.wild = "no"
    BY DEF ChipReset
  <2> QED
    BY <1>3, <2>1
    DEF InitReset, Goto, ChipInv, BeforeTable, DuringTable, NotYet, AfterTable, CoefsOffControls,
        FirmwareTable
<1>4. CASE InitBus
  <2>1. /\ apc = "bus" /\ apc' \in {"load", "idle", "halted"}
        /\ UNCHANGED <<chip, inited, asked, lost>>
    BY <1>4 DEF InitBus, Goto
  <2>2. inited = "no" /\ asked = Unknown /\ chip = ChipReset /\ lost = 0
    BY <1>1, <2>1 DEF ChipInv, NotYet, BeforeTable
  <2>3. ChipReset.wild = "no"
    BY DEF ChipReset
  <2> QED
    BY <2>1, <2>2, <2>3
    DEF ChipInv, BeforeTable, DuringTable, NotYet, AfterTable, CoefsOffControls, FirmwareTable
<1>5. CASE LoadTable
  BY <1>1, <1>5, LoadTableChip
<1>6. CASE TableStep
  BY <1>1, <1>6, TableStepChip
<1>7. CASE TableEnd
  BY <1>1, <1>7, TableEndChip
<1>8. CASE LoadText \/ LoadFails \/ TextLine \/ TextEnd
  <2>1. apc # "text"
    BY <1>2 DEF AmpInv, InText
  <2> QED
    BY <1>2, <1>8, <2>1 DEF LoadText, LoadFails, TextLine, TextEnd
<1>9. CASE \E v \in Volumes : tas5805mSetVolume(v)
  BY <1>1, <1>9, SetVolumeChip
<1>10. CASE tas5805mGetVolume
  <2>1. apc = "idle" /\ UNCHANGED <<config, apc, chip, inited, asked, lost>>
    BY <1>10 DEF tas5805mGetVolume
  <2> QED
    BY <1>1, <2>1
    DEF ChipInv, BeforeTable, DuringTable, NotYet, AfterTable, CoefsOffControls, FirmwareTable,
        OnControls
<1>11. CASE Restart
  <2>1. apc' = "idle" /\ inited' = "no" /\ UNCHANGED <<config, chip, lost>>
    BY <1>11 DEF Restart, Goto
  <2> QED
    BY <1>1, <2>1
    DEF ChipInv, BeforeTable, DuringTable, NotYet, AfterTable, CoefsOffControls, FirmwareTable
<1>12. CASE UNCHANGED avars
  <2>1. UNCHANGED <<driver, config, apc, i, chip, inited, asked, lost>>
    BY <1>12 DEF avars, ampVars, busVars
  <2>2. Table' = Table /\ Installed' = Installed
    BY <2>1 DEF Table, Installed
  <2>3. \A f : OnTheWay(f) => OnTheWay(f)'
    BY <2>1, <2>2 DEF OnTheWay
  <2> QED
    BY <1>1, <2>1, <2>2, <2>3
    DEF ChipInv, BeforeTable, DuringTable, NotYet, AfterTable, CoefsOffControls, FirmwareTable,
        OnControls
<1> QED
  BY <1>3, <1>4, <1>5, <1>6, <1>7, <1>8, <1>9, <1>10, <1>11, <1>12 DEF AmpNext, InitStep

\* ... and holds always.
LEMMA ChipInvAlways == AmpSpec => []ChipInv
BY AmpInvAlways, ChipInvInit, ChipInvNext, PTL DEF AmpSpec

\* Whichever single write of the firmware's table is lost, no coefficient is
\* written over the control registers (the order of the lines that select).
THEOREM CoefsStayOff == AmpSpec => []CoefsOffControls
<1>1. ChipInv => CoefsOffControls
  BY DEF ChipInv, CoefsOffControls
<1> QED
  BY <1>1, ChipInvAlways, PTL

\* ... and the chip is left on the page of the control registers (the closing
\* lines of the table, which repeat a selection).
THEOREM ControlLeft == AmpSpec => []ControlReached
<1>1. ChipInv => ControlReached
  BY DEF ChipInv, AfterTable, ControlReached
<1> QED
  BY <1>1, ChipInvAlways, PTL

\* After an initialisation without a lost write the amplifier plays at the
\* volume of the table, or at the one set since.
THEOREM PlaysWhenInited == AmpSpec => []PlaysWhenClean
<1>1. ChipInv => PlaysWhenClean
  BY DEF ChipInv, AfterTable, PlaysWhenClean, VolumeOfTable
<1> QED
  BY <1>1, ChipInvAlways, PTL

\* A volume that was set successfully is the chip's volume, even after an
\* initialisation that lost one write (tas5805mSetVolume).
THEOREM VolumeKept == AmpSpec => []VolumeTaken
<1>1. ChipInv => VolumeTaken
  BY DEF ChipInv, AfterTable, VolumeTaken
<1> QED
  BY <1>1, ChipInvAlways, PTL

-----------------------------------------------------------------------------
(* The commands that a text sends.  What they should be is a recursive      *)
(* function of the lines.                                                  *)

\* The commands with line b, from those before it.
WithLine(s, b, before) ==
    IF Starts(s, b) = {} THEN before
    ELSE Append(before, CommandAt(s, CHOOSE a \in Starts(s, b) : TRUE, b))

NoCommands == <<>>

Ended(g, s, n) ==
    g = [b \in 0 .. n |-> IF b = 0 THEN NoCommands ELSE WithLine(s, b, g[b - 1])]

\* There is such a function for any text.
LEMMA EndedExists ==
    ASSUME NEW s, NEW n \in Nat
    PROVE  \E g : Ended(g, s, n)
<1> DEFINE T == {k \in Nat : ~ \E g : Ended(g, s, k)}
<1>1. SUFFICES ASSUME T # {} PROVE FALSE
  OBVIOUS
<1>2. PICK m \in T : \A k \in T : m <= k
  BY <1>1, LeastNumber
<1>3. CASE m = 0
  <2> DEFINE g == [b \in 0 .. 0 |-> NoCommands]
  <2>1. g = [b \in 0 .. 0 |-> IF b = 0 THEN NoCommands ELSE WithLine(s, b, g[b - 1])]
    OBVIOUS
  <2>2. Ended(g, s, 0)
    BY <2>1 DEF Ended
  <2> QED
    BY <1>2, <1>3, <2>2
<1>4. CASE m # 0
  <2>1. m - 1 \in Nat /\ m - 1 \notin T
    BY <1>2, <1>4
  <2>2. PICK h : Ended(h, s, m - 1)
    BY <2>1
  <2> DEFINE g == [b \in 0 .. m |-> IF b = 0 THEN NoCommands ELSE WithLine(s, b, h[b - 1])]
  <2>3. \A b \in 0 .. m - 1 : g[b] = h[b]
    BY <2>1, <2>2 DEF Ended
  <2>4. g = [b \in 0 .. m |-> IF b = 0 THEN NoCommands ELSE WithLine(s, b, h[b - 1])]
    OBVIOUS
  <2> HIDE DEF g
  <2>5. \A b \in 0 .. m : b # 0 => g[b - 1] = h[b - 1]
    BY <2>1, <2>3
  <2>6. g = [b \in 0 .. m |-> IF b = 0 THEN NoCommands ELSE WithLine(s, b, g[b - 1])]
    BY <2>4, <2>5
  <2>7. Ended(g, s, m)
    BY <2>6 DEF Ended
  <2> QED
    BY <1>2, <2>7
<1> QED
  BY <1>2, <1>3, <1>4

\* It gives what the property's CommandsOf computes.
LEMMA CommandsByLine ==
    ASSUME NEW s, Len(s) \in Nat
    PROVE  /\ CommandsOf(s, 0) = <<>>
           /\ \A b \in 1 .. Len(s) : CommandsOf(s, b) = WithLine(s, b, CommandsOf(s, b - 1))
<1> DEFINE n == Len(s)
           F(g) == [b \in 0 .. n |-> IF b = 0 THEN NoCommands ELSE WithLine(s, b, g[b - 1])]
           ended == CHOOSE g : g = F(g)
<1>1. \E g : g = F(g)
  BY EndedExists DEF Ended
<1>2. ended = F(ended)
  BY <1>1, Zenon
<1>3. \A m : CommandsOf(s, m) = ended[m]
  BY Zenon DEF CommandsOf, WithLine, NoCommands
<1> HIDE DEF ended
<1>4. ended[0] = NoCommands /\ \A b \in 1 .. n : ended[b] = WithLine(s, b, ended[b - 1])
  <2>1. ended = [b \in 0 .. n |-> IF b = 0 THEN NoCommands ELSE WithLine(s, b, ended[b - 1])]
    BY <1>2
  <2> HIDE DEF F
  <2> QED
    BY <2>1
<1> QED
  BY <1>3, <1>4 DEF NoCommands

\* The line a began a command that is still open before line i.
Open(a) ==
    /\ a \in 1 .. i - 1 /\ config.script[a].kind = "w"
    /\ \A k \in a + 1 .. i - 1 : config.script[k].kind = ">"

\* The buffer holds what the lines from a gave.
Holds(a) ==
    /\ cmd_data_len = i + 2 - a
    /\ \A k \in 0 .. 2 : cmd[k] = config.script[a].vals[k + 1]
    /\ \A k \in 1 .. i - 1 - a : cmd[k + 2] = config.script[a + k].vals[1]

Building ==
    apc = "text" =>
        IF status = "W_PREPARING" THEN \E a : Open(a) /\ Holds(a) ELSE \A a : ~Open(a)

TextInv ==
    config.source # "table" /\ Complete(config.script) =>
        /\ i <= Len(config.script) + 1
        /\ sent = CommandsOf(config.script, i - 1)
        /\ Building

\* At most one command is open at a line, and the line ends it unless it is ">".
LEMMA OpenStarts ==
    ASSUME i \in Nat
    PROVE  /\ config.script[i].kind = ">" => Starts(config.script, i) = {}
           /\ (\A a : ~Open(a)) => Starts(config.script, i) = {}
           /\ \A a : Open(a) /\ config.script[i].kind # ">" => Starts(config.script, i) = {a}
<1>1. \A a \in Starts(config.script, i) : Open(a) /\ config.script[i].kind # ">"
  BY DEF Starts, Open
<1>2. \A a : Open(a) /\ config.script[i].kind # ">" => a \in Starts(config.script, i)
  BY DEF Starts, Open
<1>3. ASSUME NEW a, NEW b, Open(a), Open(b) PROVE a = b
  <2>1. a \in Int /\ b \in Int /\ a \in 1 .. i - 1 /\ b \in 1 .. i - 1
    BY <1>3 DEF Open
  <2>2. "w" # ">"
    OBVIOUS
  <2>3. ~(a < b) /\ ~(b < a)
    BY <1>3, <2>1, <2>2 DEF Open
  <2> QED
    BY <2>1, <2>3
<1> QED
  BY <1>1, <1>2, <1>3

\* What the lines of a text leave in the buffer, if they have their values.
LEMMA GetAllValues ==
    ASSUME cmd \in [0 .. CmdMax - 1 -> Content], CmdMax \in Nat, Line.vals \in Seq(Byte),
           NEW at \in Nat, NEW n \in Nat, n <= Len(Line.vals), GetValues(at, n)
    PROVE  \A k \in 0 .. CmdMax - 1 :
               cmd'[k] = IF k \in at .. at + n - 1 THEN Line.vals[k - at + 1] ELSE cmd[k]
<1> DEFINE given == IF Len(Line.vals) < n THEN Len(Line.vals) ELSE n
<1>1. given = n
  OBVIOUS
<1>2. PICK found \in IF config.source = "file" THEN given .. n ELSE {given} :
          cmd' = [k \in DOMAIN cmd |->
                     IF k \in at .. at + given - 1 THEN Line.vals[k - at + 1]
                     ELSE IF k \in at + given .. at + found - 1 THEN Unknown
                     ELSE cmd[k]]
  BY DEF GetValues
<1> HIDE DEF given
<1>3. found = n
  BY <1>1, <1>2
<1>4. at + n .. at + n - 1 = {}
  OBVIOUS
<1>5. DOMAIN cmd = 0 .. CmdMax - 1
  OBVIOUS
<1> QED
  BY <1>1, <1>2, <1>3, <1>4, <1>5

\* The command under way is sent as the text says, and nothing is sent
\* without one.
LEMMA FlushSends ==
    ASSUME AmpInv, apc = "text", Building, Flush, config.script[i].kind # ">"
    PROVE  sent' = WithLine(config.script, i, sent)
<1>1. i \in Nat \ {0}
  BY DEF AmpInv, AmpTypeOK
<1>2. CASE status = "W_PREPARING"
  <2>1. PICK a : Open(a) /\ Holds(a)
    BY <1>2 DEF Building
  <2>2. a \in 1 .. i - 1 /\ cmd_data_len = i + 2 - a /\ cmd_data_len >= 3
    BY <1>1, <2>1 DEF Open, Holds
  <2>3. sent' = Append(sent, Command)
    BY <1>2, <2>2 DEF Flush
  <2>4. Starts(config.script, i) = {a} /\ (CHOOSE b \in {a} : TRUE) = a
    BY <1>1, <2>1, OpenStarts
  <2>5. Command = CommandAt(config.script, a, i)
    <3>1. Command = [k \in 1 .. i - a + 1 |-> cmd[k]]
      <4>1. cmd_data_len - 1 = i - a + 1
        BY <1>1, <2>2
      <4> QED
        BY <4>1 DEF Command
    <3>2. ASSUME NEW k \in 1 .. i - a + 1
          PROVE  cmd[k] = IF k <= 2 THEN config.script[a].vals[k + 1]
                                    ELSE config.script[a + k - 2].vals[1]
      <4>1. CASE k <= 2
        BY <2>1, <4>1 DEF Holds
      <4>2. CASE ~(k <= 2)
        <5>1. k - 2 \in 1 .. i - 1 - a /\ k - 2 + 2 = k /\ a + (k - 2) = a + k - 2
          BY <1>1, <2>2, <4>2
        <5>2. cmd[k - 2 + 2] = config.script[a + (k - 2)].vals[1]
          BY <2>1, <5>1 DEF Holds
        <5> QED
          BY <4>2, <5>1, <5>2
      <4> QED
        BY <4>1, <4>2
    <3> QED
      BY <3>1, <3>2 DEF CommandAt
  <2> QED
    BY <2>3, <2>4, <2>5 DEF WithLine
<1>3. CASE status # "W_PREPARING"
  <2>1. Starts(config.script, i) = {}
    BY <1>1, <1>3, OpenStarts DEF Building
  <2>2. sent' = sent
    BY <1>3 DEF Flush
  <2> QED
    BY <2>1, <2>2 DEF WithLine
<1> QED
  BY <1>2, <1>3

\* A line of a text sends what it completes, and leaves the buffer right.
LEMMA TextLineSends ==
    ASSUME AmpInv, TextInv, TextLine, Complete(config.script)
    PROVE  TextInv'
<1> DEFINE s == config.script
<1>1. /\ apc = "text" /\ config.source # "table" /\ i <= Len(s) /\ i' = i + 1
      /\ UNCHANGED <<config, apc>>
  BY DEF TextLine, AmpInv, InText
<1>2. /\ i \in Nat \ {0} /\ cmd \in [0 .. CmdMax - 1 -> Content]
      /\ cmd_data_len <= i + 1 /\ cmd_data_len \in Nat
  <2>1. CmdMax \in Nat
    BY AmpAssumption
  <2> QED
    BY <1>1, <2>1 DEF AmpInv, AmpTypeOK, InText
<1>3. /\ s \in Seq([kind : STRING, vals : Seq(Byte)])
      /\ Len(s) \in Nat /\ Len(s) + 2 <= CmdMax /\ CmdMax \in Nat
  BY <1>1, ScriptType, AmpAssumption DEF AmpInv, AmpTypeOK
<1>4. i \in 1 .. Len(s)
  BY <1>1, <1>2, <1>3
<1>5. Line = s[i] /\ Line.vals \in Seq(Byte)
  <2>1. s[i] \in [kind : STRING, vals : Seq(Byte)]
    BY <1>3, <1>4, ElementOfSeq
  <2> QED
    BY <2>1 DEF Line
<1>6. /\ s[i].kind = "w" => Len(Line.vals) >= 3
      /\ s[i].kind = ">" => Len(Line.vals) >= 1
  <2>1. i \in DOMAIN s
    BY <1>3, <1>4
  <2> QED
    BY <1>5, <2>1 DEF Complete
<1>7. Building /\ sent = CommandsOf(s, i - 1)
  BY <1>1 DEF TextInv
<1>8. CommandsOf(s, i) = WithLine(s, i, CommandsOf(s, i - 1))
  BY <1>3, <1>4, CommandsByLine
<1> HIDE DEF s
<1>9. sent' = WithLine(s, i, sent)
  <2>1. CASE NewCommand \/ OtherLine
    <3>1. Flush /\ s[i].kind # ">"
      BY <1>5, <2>1 DEF NewCommand, OtherLine
    <3> QED
      BY <1>1, <1>7, <3>1, FlushSends DEF s
  <2>2. CASE MoreData
    <3>1. s[i].kind = ">" /\ sent' = sent
      BY <1>5, <2>2 DEF MoreData
    <3>2. Starts(s, i) = {}
      BY <1>2, <3>1, OpenStarts DEF s
    <3> QED
      BY <3>1, <3>2 DEF WithLine
  <2> QED
    BY <2>1, <2>2 DEF TextLine
<1>10. sent' = CommandsOf(s, i' - 1) /\ i' <= Len(s) + 1
  <2>1. i' - 1 = i
    BY <1>1, <1>2
  <2> QED
    BY <1>1, <1>2, <1>3, <1>7, <1>8, <1>9, <2>1
<1>11. s' = s
  BY <1>1 DEF s
<1>12. IF status' = "W_PREPARING" THEN \E a : (Open(a) /\ Holds(a))' ELSE \A a : ~Open(a)'
  <2>1. CASE NewCommand
    <3>0. PICK b : b = i
      OBVIOUS
    <3>1. Open(b)'
      BY <1>1, <1>2, <1>5, <1>11, <2>1, <3>0 DEF NewCommand, Open, s
    <3>2. GetValues(0, 3) /\ cmd_data_len' = 3 /\ status' = "W_PREPARING" /\ 3 <= Len(Line.vals)
      BY <1>5, <1>6, <2>1 DEF NewCommand
    <3>3. \A k \in 0 .. 2 : cmd'[k] = s[i].vals[k + 1]
      <4>1. \A k \in 0 .. CmdMax - 1 :
                cmd'[k] = IF k \in 0 .. 0 + 3 - 1 THEN Line.vals[k - 0 + 1] ELSE cmd[k]
        BY <1>2, <1>3, <1>5, <3>2, GetAllValues
      <4>2. \A k \in 0 .. 2 : k \in 0 .. CmdMax - 1 /\ k \in 0 .. 0 + 3 - 1 /\ k - 0 + 1 = k + 1
        BY <1>3, <1>4
      <4> QED
        BY <1>5, <4>1, <4>2
    <3>4. Holds(b)'
      <4>1. 3 = i' + 2 - b /\ 1 .. i' - 1 - b = {}
        BY <1>1, <1>2, <3>0
      <4> QED
        BY <1>11, <3>0, <3>2, <3>3, <4>1 DEF Holds, s
    <3> QED
      BY <3>1, <3>2, <3>4
  <2>2. CASE MoreData /\ status = "W_PREPARING"
    <3>1. PICK a : Open(a) /\ Holds(a)
      BY <1>1, <1>7, <2>2 DEF Building
    <3>2. /\ s[i].kind = ">" /\ GetValues(cmd_data_len, 1) /\ status' = status
          /\ cmd_data_len' = cmd_data_len + 1 /\ 1 <= Len(Line.vals)
      BY <1>5, <1>6, <2>2 DEF MoreData
    <3>3. a \in 1 .. i - 1 /\ cmd_data_len = i + 2 - a
      BY <3>1 DEF Open, Holds
    <3>4. Open(a)'
      <4>1. \A k \in a + 1 .. i' - 1 : k \in a + 1 .. i - 1 \/ k = i
        BY <1>1, <1>2, <3>3
      <4>2. a \in 1 .. i' - 1
        BY <1>1, <1>2, <3>3
      <4> QED
        BY <1>1, <1>11, <3>1, <3>2, <4>1, <4>2 DEF Open, s
    <3>5. \A k \in 0 .. CmdMax - 1 :
              cmd'[k] = IF k = cmd_data_len THEN s[i].vals[1] ELSE cmd[k]
      <4>1. \A k \in 0 .. CmdMax - 1 :
                cmd'[k] = IF k \in cmd_data_len .. cmd_data_len + 1 - 1
                          THEN Line.vals[k - cmd_data_len + 1] ELSE cmd[k]
        BY <1>2, <1>3, <1>5, <3>2, GetAllValues
      <4>2. \A k \in 0 .. CmdMax - 1 :
                /\ k \in cmd_data_len .. cmd_data_len + 1 - 1 <=> k = cmd_data_len
                /\ cmd_data_len - cmd_data_len + 1 = 1
        BY <1>2
      <4> QED
        BY <1>5, <4>1, <4>2
    <3>6. \A k \in 0 .. 2 : cmd'[k] = s[a].vals[k + 1]
      <4>1. \A k \in 0 .. 2 : k \in 0 .. CmdMax - 1 /\ k # cmd_data_len
        BY <1>2, <1>3, <1>4, <3>3
      <4>2. \A k \in 0 .. 2 : cmd[k] = s[a].vals[k + 1]
        BY <3>1 DEF Holds, s
      <4> QED
        BY <3>5, <4>1, <4>2
    <3>7. \A k \in 1 .. i - a : cmd'[k + 2] = s[a + k].vals[1]
      <4>1. ASSUME NEW k \in 1 .. i - a PROVE cmd'[k + 2] = s[a + k].vals[1]
        <5>1. k + 2 \in 0 .. CmdMax - 1
          BY <1>2, <1>3, <1>4, <3>3
        <5>2. CASE k = i - a
          <6>1. k + 2 = cmd_data_len /\ a + k = i
            BY <1>2, <3>3, <5>2
          <6> QED
            BY <3>5, <5>1, <6>1
        <5>3. CASE k # i - a
          <6>1. k \in 1 .. i - 1 - a /\ k + 2 # cmd_data_len
            BY <1>2, <3>3, <5>3
          <6>2. cmd[k + 2] = s[a + k].vals[1]
            BY <3>1, <6>1 DEF Holds, s
          <6> QED
            BY <3>5, <5>1, <6>1, <6>2
        <5> QED
          BY <5>2, <5>3
      <4> QED
        BY <4>1
    <3>8. Holds(a)'
      <4>1. cmd_data_len + 1 = i' + 2 - a /\ i' - 1 - a = i - a
        BY <1>1, <1>2, <3>3
      <4> QED
        BY <1>11, <3>2, <3>6, <3>7, <4>1 DEF Holds, s
    <3> QED
      BY <2>2, <3>2, <3>4, <3>8
  <2>3. CASE (MoreData /\ status # "W_PREPARING") \/ OtherLine
    <3>1. status' # "W_PREPARING"
      BY <2>3 DEF MoreData, OtherLine
    <3>2. s[i].kind # "w"
      BY <1>5, <2>3 DEF MoreData, OtherLine
    <3>3. ASSUME NEW a, Open(a)' PROVE FALSE
      <4>1. /\ a \in 1 .. i' - 1 /\ s[a].kind = "w"
            /\ \A k \in a + 1 .. i' - 1 : s[k].kind = ">"
        BY <1>11, <3>3 DEF Open, s
      <4>2. a \in 1 .. i - 1
        BY <1>1, <1>2, <3>2, <4>1
      <4>3. i \in a + 1 .. i' - 1 /\ \A k \in a + 1 .. i - 1 : k \in a + 1 .. i' - 1
        BY <1>1, <1>2, <4>2
      <4>4. Open(a) /\ s[i].kind = ">"
        BY <4>1, <4>2, <4>3 DEF Open, s
      <4>5. MoreData /\ status # "W_PREPARING"
        BY <1>5, <2>3, <4>4 DEF OtherLine
      <4> QED
        BY <1>1, <1>7, <4>4, <4>5 DEF Building
    <3> QED
      BY <3>1, <3>3
  <2> QED
    BY <2>1, <2>2, <2>3 DEF TextLine
<1>13. Building'
  BY <1>12 DEF Building
<1> QED
  BY <1>10, <1>11, <1>13 DEF TextInv, s

\* TextInv holds at first ...
LEMMA TextInvInit == AmpInit => TextInv
<1> SUFFICES ASSUME AmpInit, config.source # "table" PROVE TextInv
  BY DEF TextInv
<1>1. Len(config.script) \in Nat
  BY ScriptType DEF AmpInit
<1>2. CommandsOf(config.script, 0) = <<>>
  BY <1>1, CommandsByLine
<1> QED
  BY <1>1, <1>2 DEF AmpInit, TextInv, Building

\* ... and is kept by every step.
LEMMA TextInvNext ==
    ASSUME AmpInv, TextInv, [AmpNext]_avars
    PROVE  TextInv'
<1>1. SUFFICES ASSUME config.source # "table", Complete(config.script), config' = config
               PROVE  TextInv'
  <2>1. config' = config
    BY DEF AmpNext, InitStep, InitReset, InitBus, LoadTable, LoadText, LoadFails, TableStep, TableEnd,
           TextLine, TextEnd, tas5805mSetVolume, tas5805mGetVolume, Restart, avars, ampVars
  <2>2. ~(config.source # "table" /\ Complete(config.script)) => TextInv'
    BY <2>1 DEF TextInv, Complete
  <2> QED
    BY <1>1, <2>1, <2>2
<1>2. CASE LoadText
  <2>1. i' = 1 /\ sent' = <<>> /\ status' = "NOTHING"
    BY <1>2 DEF LoadText
  <2>2. Len(config.script) \in Nat
    BY <1>1, ScriptType DEF AmpInv, AmpTypeOK
  <2>3. CommandsOf(config.script, 0) = <<>>
    BY <2>2, CommandsByLine
  <2>4. Building'
    BY <2>1 DEF Building, Open
  <2> QED
    BY <1>1, <2>1, <2>2, <2>3, <2>4 DEF TextInv
<1>3. CASE TextLine
  BY <1>1, <1>3, TextLineSends
<1>4. CASE LoadTable \/ TableStep \/ TableEnd
  <2>1. apc # "table"
    BY <1>1 DEF AmpInv, InTable
  <2> QED
    BY <1>1, <1>4, <2>1 DEF LoadTable, TableStep, TableEnd
<1>5. ASSUME i' = i, sent' = sent, apc' # "text" \/ UNCHANGED <<apc, status, cmd, cmd_data_len>>
      PROVE  TextInv'
  BY <1>1, <1>5 DEF TextInv, Building, Open, Holds
<1>6. CASE InitReset \/ InitBus \/ LoadFails \/ TextEnd \/ Restart
  BY <1>5, <1>6 DEF InitReset, InitBus, LoadFails, TextEnd, Restart, InitDone, Goto, textVars
<1>7. CASE tas5805mGetVolume \/ (\E v \in Volumes : tas5805mSetVolume(v)) \/ UNCHANGED avars
  BY <1>5, <1>7 DEF tas5805mGetVolume, tas5805mSetVolume, avars, ampVars, textVars
<1> QED
  BY <1>2, <1>3, <1>4, <1>6, <1>7 DEF AmpNext, InitStep

\* At each line of any text whose lines have their values, the commands it has
\* completed so far were sent, each once, in order and with its data
\* (tas5805m_pa_set_config_from_code).
THEOREM CommandsSent == AmpSpec => []SentAsWritten
<1>1. TextInv => SentAsWritten
  BY DEF TextInv, SentAsWritten
<1>2. AmpSpec => []TextInv
  BY AmpInvAlways, TextInvInit, TextInvNext, PTL DEF AmpSpec
<1> QED
  BY <1>1, <1>2, PTL

-----------------------------------------------------------------------------
(* What is left to do of an initialisation, in steps.                      *)

Size == IF config.source = "table" THEN Len(Table) ELSE Len(config.script)

InitWork ==
    IF apc = "bus" THEN Size + 3
    ELSE IF apc = "load" THEN Size + 2
    ELSE IF apc \in {"table", "text"} THEN Size + 2 - i
    ELSE 0

\* The loops do not leave their table or text.
LEMMA WithinSize ==
    ASSUME AmpInv
    PROVE  /\ Size \in Nat /\ i \in Nat \ {0}
           /\ apc \in {"table", "text"} => i <= Size + 1
<1>1. i \in Nat \ {0} /\ config \in Configs
  BY DEF AmpInv, AmpTypeOK
<1>2. CASE config.source = "table"
  <2>1. Size = Len(Table)
    BY <1>2 DEF Size
  <2>2. Table \in Seq(Entry)
    BY <1>1, <1>2, TablesStayInside
  <2>3. apc # "text"
    BY <1>2 DEF AmpInv, InText
  <2>4. ASSUME apc = "table" PROVE i <= Len(Table) + 1
    <3>1. PICK heads : StaysInside(Table, heads) /\ i \in heads
      BY <2>4 DEF AmpInv, InTable
    <3>2. i \in 1 .. Len(Table) + 1
      BY <3>1 DEF StaysInside
    <3> QED
      BY <3>2
  <2> QED
    BY <1>1, <2>1, <2>2, <2>3, <2>4, LenProperties
<1>3. CASE config.source # "table"
  <2>1. Size = Len(config.script) /\ Len(config.script) \in Nat
    BY <1>1, <1>3, ScriptType DEF Size
  <2>2. apc # "table"
    BY <1>3 DEF AmpInv, InTable
  <2>3. apc = "text" => i <= Len(config.script) + 1
    BY DEF AmpInv, InText
  <2> QED
    BY <1>1, <2>1, <2>2, <2>3
<1> QED
  BY <1>2, <1>3

\* Every step of an initialisation leaves less to do, whatever the bursts of a
\* table, the lines of a text and the writes that fail: none makes more than
\* three steps beside one for each entry or line (transmit_registers and the
\* loops over the text).  This is InitReturns without its fairness.
THEOREM InitAdvances ==
    AmpSpec => [][InitStep => InitWork' \in Nat /\ InitWork' < InitWork]_avars
<1>0. ASSUME NEW n \in Nat, NEW a \in Nat, NEW b \in Nat, b > a, b <= n + 1
      PROVE  n + 2 - b \in Nat /\ n + 2 - b < n + 2 - a
  BY <1>0
<1>1. ASSUME AmpInv, AmpInv', InitStep
      PROVE  InitWork' \in Nat /\ InitWork' < InitWork
  <2>1. config' = config
    BY <1>1 DEF InitStep, InitBus, LoadTable, LoadText, LoadFails, TableStep, TableEnd, TextLine, TextEnd
  <2>2. Table' = Table /\ Size' = Size
    BY <2>1 DEF Table, Size
  <2>3. PICK n \in Nat : n = Size
    BY <1>1, WithinSize
  <2>4. i \in Nat \ {0} /\ (apc \in {"table", "text"} => i <= n + 1)
    BY <1>1, <2>3, WithinSize
  <2>5. i' \in Nat \ {0} /\ (apc' \in {"table", "text"} => i' <= n + 1)
    <3>1. (i \in Nat \ {0} /\ (apc \in {"table", "text"} => i <= Size + 1))'
      BY <1>1, WithinSize, PTL
    <3> QED
      BY <2>2, <2>3, <3>1
  <2>6. CASE InitBus
    <3>1. apc = "bus" /\ apc' \in {"load", "idle", "halted"}
      BY <2>6 DEF InitBus, Goto
    <3> QED
      BY <2>2, <2>3, <3>1 DEF InitWork
  <2>7. CASE LoadTable \/ LoadText \/ LoadFails
    <3>1. apc = "load" /\ ((apc' \in {"table", "text"} /\ i' = 1) \/ apc' = "idle")
      BY <2>7 DEF LoadTable, LoadText, LoadFails, InitDone, Goto
    <3> QED
      BY <2>2, <2>3, <3>1 DEF InitWork
  <2>8. CASE TableStep \/ TextLine
    <3>1. apc \in {"table", "text"} /\ apc' = apc
      BY <2>8 DEF TableStep, TextLine
    <3>2. i' > i
      <4>1. CASE TextLine
        BY <2>4, <4>1 DEF TextLine
      <4>2. CASE TableStep
        <5>1. PICK heads : StaysInside(Table, heads) /\ i \in heads
          BY <1>1, <4>2 DEF AmpInv, InTable, TableStep
        <5>2. i' = i + 1 \/ (i' = AfterBurst(i) /\ Offset(i) = CFG_META_BURST)
          BY <4>2 DEF TableStep
        <5>3. Offset(i) = CFG_META_BURST => Value(i) \in Byte
          <6>1. i # Len(Table) + 1
            <7>1. i <= Len(Table) /\ Len(Table) = n
              BY <1>1, <2>3, <4>2 DEF TableStep, AmpInv, InTable, Size
            <7> QED
              BY <2>4, <7>1
          <6> QED
            BY <5>1, <6>1 DEF StaysInside, Offset, Value
        <5>4. ASSUME NEW v \in Byte PROVE i + v \div 2 + 1 + 1 > i
          BY <2>4 DEF Byte
        <5> QED
          BY <2>4, <5>2, <5>3, <5>4 DEF AfterBurst
      <4> QED
        BY <2>8, <4>1, <4>2
    <3>3. PICK a \in Nat, b \in Nat : a = i /\ b = i'
      BY <2>4, <2>5
    <3>4. b > a /\ b <= n + 1 /\ a <= n + 1
      BY <2>4, <2>5, <3>1, <3>2, <3>3, Zenon
    <3>5. n \in Nat
      BY <1>1, <2>3, WithinSize
    <3>6. n + 2 - b \in Nat /\ n + 2 - b < n + 2 - a
      BY <1>0, <3>3, <3>4, <3>5
    <3>7. InitWork = n + 2 - a /\ InitWork' = n + 2 - b
      BY <2>2, <2>3, <3>1, <3>3 DEF InitWork
    <3> QED
      BY <3>6, <3>7
  <2>9. CASE TableEnd \/ TextEnd
    <3>1. apc \in {"table", "text"} /\ apc' = "idle"
      BY <2>9 DEF TableEnd, TextEnd, InitDone, Goto
    <3> QED
      BY <2>3, <2>4, <3>1 DEF InitWork
  <2> QED
    BY <1>1, <2>6, <2>7, <2>8, <2>9 DEF InitStep
<1>2. AmpInv /\ AmpInv' /\ [AmpNext]_avars
      => [InitStep => InitWork' \in Nat /\ InitWork' < InitWork]_avars
  BY <1>1
<1> QED
  BY <1>2, AmpInvAlways, PTL DEF AmpSpec
=============================================================================
