------------------------------ MODULE AmpTable ------------------------------
(***************************************************************************)
(* tas5805m_registers, the register table of the TAS5805M amplifier        *)
(* (components/codec/TAS5805M/tas5805_agc_drc3_eq0.h), as the sequence of  *)
(* its entries <<offset, value>>.                                          *)
(*                                                                         *)
(* The chip has 8-bit register numbers, and more registers than that: they *)
(* lie in books of pages of 128 registers.  Register 0 of every page       *)
(* selects a page of the book, register \h7f of page 0 selects a book.     *)
(* Book 0 holds the control registers, the other books the coefficients of *)
(* the filters.  The order of the entries and every address are those of   *)
(* the code; the values of the coefficients are abstracted to Unknown.     *)
(***************************************************************************)
EXTENDS Integers, Sequences

Unknown == -1    \* some byte

CFG_META_SWITCH == 255
CFG_META_DELAY  == 254
CFG_META_BURST  == 253
CFG_END_1       == \haa
CFG_END_2       == \hcc
CFG_END_3       == \hee

-----------------------------------------------------------------------------
Reg(offset, value) == << <<offset, value>> >>
Page(p)            == Reg(0, p)

\* Broken variant for testing CoefsOffControls: a register too low.
BookTooLow(b)      == Reg(\h7e, b)

Book(b)            == Reg(\h7f, b)

\* Coefficients for the registers first to last, one entry each.
Coefs(first, last) == [n \in 1 .. last - first + 1 |-> <<first + n - 1, Unknown>>]

\* The way from wherever the table is to a page of a book.
Select(b, p) == Page(0) \o Book(b) \o Page(p)

-----------------------------------------------------------------------------
\* Reset and control registers.  Register 2 differs between the boards.
StartUp(board) ==
    Page(0) \o Book(0) \o Reg(\h03, \h02) \o Reg(\h01, \h11)
    \o Page(0) \o Page(0) \o Page(0) \o Page(0) \o Page(0)
    \o Book(0) \o Reg(\h03, \h02) \o Reg(CFG_META_DELAY, 5)
    \o Page(0) \o Book(0) \o Reg(\h03, \h00)
    \o Page(0) \o Book(0) \o Reg(\h46, \h11)
    \o Page(0) \o Book(0) \o Reg(\h03, \h02)
    \o Page(0) \o Book(0) \o Reg(\h78, \h80)
    \o Page(0) \o Book(0) \o Reg(\h61, \h0b) \o Reg(\h60, \h01)
    \o Reg(\h7d, \h11) \o Reg(\h7e, \hff) \o Page(1) \o Reg(\h51, \h05)
    \o Page(0) \o Reg(\h02, IF board = "CUPID_BOARD_V2" THEN \h14 ELSE \h10)
    \o Reg(\h53, \h00) \o Reg(\h54, \h13)
    \o Page(0) \o Page(0) \o Page(0) \o Page(0)

Book8cPages29To2e ==
    Page(0) \o Book(0) \o Reg(\h66, \h86) \o Book(\h8c)
    \o Page(\h29) \o Coefs(\h18, \h27)
    \o Page(\h2a) \o Coefs(\h24, \h2b) \o Coefs(\h30, \h33)
    \o Page(\h2c) \o Coefs(\h0c, \h23) \o Coefs(\h28, \h2f) \o Coefs(\h34, \h3b)
                  \o Coefs(\h48, \h4f) \o Coefs(\h5c, \h6f) \o Coefs(\h74, \h77)
    \o Page(\h2d) \o Coefs(\h18, \h2f)
    \o Page(\h2e) \o Coefs(\h24, \h27)

Book8cPage31 == Page(\h31) \o Coefs(\h48, \h7f)
Book8cPage32 == Page(\h32) \o Coefs(\h08, \h7f)
Book8cPage33 == Page(\h33) \o Coefs(\h08, \h7f)
Book8cPage34 == Page(\h34) \o Coefs(\h08, \h7f)
Book8cPage35 == Page(\h35) \o Coefs(\h08, \h67)

BookAaPage24 == Select(\haa, \h24) \o Coefs(\h18, \h7f)
BookAaPage25 == Page(\h25) \o Coefs(\h08, \h7f)
BookAaPage26 == Page(\h26) \o Coefs(\h08, \h7f)
BookAaPage27 == Page(\h27) \o Coefs(\h08, \h7f)
BookAaPage28 == Page(\h28) \o Coefs(\h08, \h7f)

BookAaPages29To2f ==
    Page(\h29) \o Coefs(\h08, \h17)
    \o Page(\h2e) \o Coefs(\h7c, \h7f)
    \o Page(\h2f) \o Coefs(\h08, \h17) \o Coefs(\h1c, \h2f)
    \o Page(\h2a) \o Coefs(\h48, \h5b)

\* After the blocks of whole pages, the table goes to and fro between the books.
MixedBooks ==
    Select(\h8c, \h2b) \o Coefs(\h34, \h5b)
    \o Page(\h2d) \o Coefs(\h58, \h7f)
    \o Select(\haa, \h2e) \o Coefs(\h40, \h53)
    \o Page(\h2b) \o Coefs(\h20, \h33) \o Coefs(\h0c, \h1f)

MixedBooksGoOn ==
    Page(\h2a) \o Coefs(\h34, \h47)
    \o Select(\h8c, \h2d) \o Coefs(\h30, \h57)
    \o Select(\haa, \h2a) \o Coefs(\h5c, \h7f)
    \o Page(\h2b) \o Coefs(\h08, \h0b)

MixedBooksEnd ==
    Page(\h2e) \o Coefs(\h54, \h67)
    \o Select(\h8c, \h2e) \o Coefs(\h10, \h13) \o Coefs(\h0c, \h0f)
                          \o Coefs(\h08, \h0b) \o Coefs(\h18, \h23)

\* Broken variants: without the closing lines (ControlReached), and the state
\* set before the page is selected (PlaysWhenClean).
RegisterTuningEarly ==
    Reg(\h03, \h03) \o Page(0) \o Book(0) \o Reg(\h30, \h00) \o Reg(\h4c, \h30)
    \o Page(0) \o Book(0) \o Reg(\h78, \h80)
RegisterTuningShort ==
    Page(0) \o Book(0) \o Reg(\h30, \h00) \o Reg(\h4c, \h30) \o Reg(\h03, \h03)

\* "Register Tuning": the volume, and state 3, in which the amplifier plays.
RegisterTuning ==
    Page(0) \o Book(0) \o Reg(\h30, \h00) \o Reg(\h4c, \h30) \o Reg(\h03, \h03)
    \o Page(0) \o Book(0) \o Reg(\h78, \h80)

EndMarker == Reg(CFG_END_1, \hbb) \o Reg(CFG_END_2, \hdd) \o Reg(CFG_END_3, \hff)

Registers(board) ==
    StartUp(board)
    \o Book8cPages29To2e \o Book8cPage31 \o Book8cPage32 \o Book8cPage33
    \o Book8cPage34 \o Book8cPage35
    \o BookAaPage24 \o BookAaPage25 \o BookAaPage26 \o BookAaPage27
    \o BookAaPage28 \o BookAaPages29To2f
    \o MixedBooks \o MixedBooksGoOn \o MixedBooksEnd
    \o RegisterTuning \o EndMarker

tas5805m_registers ==
    [CUPID_BOARD_V2 |-> Registers("CUPID_BOARD_V2"),
     DU1906_MODULE  |-> Registers("DU1906_MODULE")]

Boards == DOMAIN tas5805m_registers

=============================================================================
