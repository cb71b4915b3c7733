---------------------------- MODULE AudioProtocol ----------------------------
(***************************************************************************)
(* What the host can rely on when it waits for each test to end: the       *)
(* protocol of an audio test on the UART, without tasks, driver or shared  *)
(* state.  A test is started, prints the frames of its recording in order  *)
(* and gives replies, all under its own name, and ends when it was         *)
(* answered; a start that fails makes its file refuse further tests.       *)
(***************************************************************************)
EXTENDS Naturals, Sequences

CONSTANTS
    Tests,        \* the tests
    File(_),      \* the source file of a test
    StartErrors,  \* replies of a start that fails
    SilentLoads,  \* tests whose start may fail without a reply
    TaskErrors,   \* replies of the tasks, but for record_end
    RecSize,      \* bytes of a recording
    FrameSize,    \* bytes of a frame
    Lossless      \* TRUE: no frame is lost

VARIABLES
    phase,     \* idle, or the test is starting or running
    test,      \* the last test that was started
    refused,   \* files that start no test
    dump,      \* frames the test has printed: header, number, place
    heard      \* replies the test has given: header, text

pvars == <<phase, test, refused, dump, heard>>

ProtocolInit ==
    /\ phase = "idle"
    /\ test = "none"
    /\ refused = {}
    /\ dump = <<>>
    /\ heard = {}

Start(c) ==
    /\ phase = "idle"
    /\ File(c) \notin refused
    /\ phase' = "starting"
    /\ test' = c
    /\ refused' = refused \cup {File(c)}
    /\ dump' = <<>>
    /\ heard' = {}

\* The tasks exist: the file takes tests again.
Started ==
    /\ phase = "starting"
    /\ phase' = "running"
    /\ refused' = refused \ {File(test)}
    /\ UNCHANGED <<test, dump, heard>>

\* The file refuses from now on.  The recorder may be there without a player.
StartFails ==
    /\ phase = "starting"
    /\ phase' \in {"running", "idle"}
    /\ \/ \E what \in StartErrors : heard' = heard \cup {<<test, what>>}
       \/ test \in SilentLoads /\ UNCHANGED heard
    /\ UNCHANGED <<test, refused, dump>>

\* The next frame, or one after frames that were lost.
Frame(number) ==
    /\ phase # "idle"
    /\ \A r \in heard : r[2] # "record_end"
    /\ \A i \in 1 .. Len(dump) : dump[i].idx < number
    /\ Lossless => number = Len(dump)
    /\ (number + 1) * FrameSize <= RecSize
    /\ dump' = Append(dump, [hdr |-> test, idx |-> number, at |-> number * FrameSize])
    /\ UNCHANGED <<phase, test, refused, heard>>

\* A reply of a task; it may be the last thing the test does.
EndsOrNot == phase' = phase \/ (phase = "running" /\ phase' = "idle")

ErrorReply(what) ==
    /\ phase # "idle"
    /\ heard' = heard \cup {<<test, what>>}
    /\ EndsOrNot
    /\ UNCHANGED <<test, refused, dump>>

\* record_end comes once, after a dump to which no whole frame is missing.
RecordEnd ==
    /\ phase # "idle"
    /\ \A r \in heard : r[2] # "record_end"
    /\ Lossless => (Len(dump) + 1) * FrameSize > RecSize
    /\ heard' = heard \cup {<<test, "record_end">>}
    /\ EndsOrNot
    /\ UNCHANGED <<test, refused, dump>>

\* The player is the last task: by then the recorder has answered.
Ends ==
    /\ phase = "running"
    /\ heard # {}
    /\ phase' = "idle"
    /\ UNCHANGED <<test, refused, dump, heard>>

ProtocolNext ==
    \/ \E c \in Tests : Start(c)
    \/ Started
    \/ StartFails
    \/ \E number \in 0 .. RecSize : Frame(number)
    \/ \E what \in TaskErrors : ErrorReply(what)
    \/ RecordEnd
    \/ Ends

ProtocolSpec == ProtocolInit /\ [][ProtocolNext]_pvars

=============================================================================
