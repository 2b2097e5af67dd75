----------------------------- MODULE MCLibrary -----------------------------
(***************************************************************************)
(* The parts that stand on their own: the C library of the Pi, its timeouts*)
(* and random numbers, the test programs on two and on four Pis, and on    *)
(* the laptop my-install's choice of the ttys and cmd-watch.  One of them  *)
(* runs, and the others stay as they begin.                                *)
(***************************************************************************)
EXTENDS Queue

CONSTANTS
    e1, e2, e3, e4,
    Width, Thousand, Gap, Arguments, LastUsec,              \* of Timeouts
    Devices, Ttys, CommandLines, MaxAttempts, Granule, BootTime, MaxNow, MaxRuns,     \* of Install
    Files, Interesting, LastSecond,                         \* of CmdWatch
    Few, Many, N, Length, Rows, Share, Shapes               \* of Programs

VARIABLES
    which,
    now, looked, waiting, s, us, t, begun, asked,
    buf, r, words, initialized_p, status, calls, origin,
    bitCall, libCall,
    program, call, inside, result, pc, mem, sent, overrun,
    plugged, mtime, installNow, argv, arg, dev_name, num_pis, pi_prog, phase, i, attempts,
    devices, since, runs, previous, quiet, exec_argv, tied,
    last_mtime, changed_p, entries, watch, exists, modified, clock, dirty

T == INSTANCE Timeouts
ASSUME LooksOften == T!Looks

\* The second seed makes the first step of the seeding borrow.
R == INSTANCE Random WITH
    Arrays <- {"a", "b"}, Sizes <- {4, 8, 40}, Seeds <- {0, 2 * 127773}, MaxCalls <- 4,
    mem <- words

\* The bytes 0x00, 0x31, 0xff.
B == INSTANCE Bits WITH
    W <- 4, Bytes <- {{}, {0, 4, 5}, 0..7}, MaxLen <- 2, call <- bitCall

\* Room for two words of 8 bytes and one more byte.
L == INSTANCE Lib WITH
    Memory <- 17, Chars <- {0, 1, 200}, Room <- 3, Width <- 8, Buffers <- {0, 2, 4},
    call <- libCall

\* The programs on the Pis they are written for, and on more.
P(Pis) == INSTANCE Programs WITH Size <- Pis, rows_per_process <- Rows, local_size <- Share
ASSUME PisRight == /\ {Few, Many, N, Length, Rows, Share} \subseteq Nat \ {0} /\ Share <= Length
                   /\ P(Few)!Divides /\ Many > Few

\* Circles that overlap, on rows of several Pis.
MCShapes == <<[x |-> 1, y |-> 1, radius |-> 1, r |-> 200, g |-> 100, b |-> 50],
              [x |-> 2, y |-> 1, radius |-> 2, r |-> 20, g |-> 255, b |-> 0]>>

MCArguments ==
    {<<"3", "prog.bin">>, <<"--last", "2", "prog.bin">>, <<"6", "prog.bin", "--device", "tty">>,
     <<"2", "--first">>, <<"prog.bin", "--device">>, <<"?">>, <<"prog.bin", "--addr", "0">>,
     <<"1", "prog.bin", "--exec", "make", "?">>}
MCTtys == {{}, 1..3, 1..5}
I == INSTANCE Install WITH Arguments <- CommandLines, now <- installNow
ASSUME InstallsWell == I!ConstantsRight
W == INSTANCE CmdWatch

TimeVars == <<now, looked, waiting, s, us, t, begun, asked>>
RandomVars == <<buf, r, words, initialized_p, status, calls, origin>>
ProgramVars == <<program, call, inside, result, pc, mem, sent, overrun>>
InstallVars == <<plugged, mtime, installNow, argv, arg, dev_name, num_pis, pi_prog, phase, i,
                 attempts, devices, since, runs, previous, quiet, exec_argv, tied>>
WatchVars == <<last_mtime, changed_p, entries, watch, exists, modified, clock, dirty>>
Vars == <<which, queueVars, TimeVars, RandomVars, bitCall, libCall, ProgramVars, InstallVars,
          WatchVars>>

Absent(v) == v = "-"
NoInstall ==
    /\ Absent(plugged) /\ Absent(mtime) /\ Absent(installNow) /\ Absent(argv) /\ Absent(arg)
    /\ Absent(dev_name) /\ Absent(num_pis) /\ Absent(pi_prog) /\ Absent(phase)
    /\ Absent(i) /\ Absent(attempts) /\ Absent(devices) /\ Absent(since)
    /\ Absent(runs) /\ Absent(previous) /\ Absent(quiet)
    /\ Absent(exec_argv) /\ Absent(tied)

InitAll ==
    /\ which \in {"queue", "timeouts", "random", "bits", "lib", "two", "four", "install", "watch"}
    /\ Init /\ T!Init /\ R!Init /\ B!Init /\ L!Init /\ W!Init
    /\ IF which = "install" THEN I!Init ELSE NoInstall
    /\ IF which = "four" THEN P(Many)!Init ELSE P(Few)!Init

NextAll ==
    /\ UNCHANGED which
    /\ IF which = "queue" THEN Next ELSE UNCHANGED queueVars
    /\ IF which = "timeouts" THEN T!Next ELSE UNCHANGED TimeVars
    /\ IF which = "random" THEN R!Next ELSE UNCHANGED RandomVars
    /\ IF which = "bits" THEN B!Next ELSE UNCHANGED bitCall
    /\ IF which = "lib" THEN L!Next ELSE UNCHANGED libCall
    /\ IF which = "two" THEN P(Few)!Next ELSE IF which = "four" THEN P(Many)!Next
       ELSE UNCHANGED ProgramVars
    /\ IF which = "install" THEN I!Next ELSE UNCHANGED InstallVars
    /\ IF which = "watch" THEN W!Next ELSE UNCHANGED WatchVars

FairnessAll ==
    /\ WF_ProgramVars(which = "two" /\ P(Few)!Run) /\ WF_ProgramVars(which = "four" /\ P(Many)!Run)
    /\ WF_InstallVars(which = "install" /\ I!Main) /\ WF_InstallVars(which = "install" /\ I!Tick)
    /\ WF_WatchVars(which = "watch" /\ W!Watch) /\ WF_WatchVars(which = "watch" /\ W!Second)
    /\ \A f \in Files : WF_WatchVars(which = "watch" /\ W!Save(f))

SpecAll == InitAll /\ [][NextAll]_Vars /\ FairnessAll

-----------------------------------------------------------------------------
\* The properties of the parts, stated where the parts are.

\* The two pointers of the random generator stay SEP apart, and the numbers are
\* those of the recurrence, in whatever array they live (random.c:137-399).
StreamsRight == R!FrontRear /\ R!Stream

\* A delay or timeout ends neither early nor late although the counter wraps, and
\* one that is over stays so (timer.c:22, timeout.h:32).
TimeoutsExact == T!TimeoutsExact

\* The field functions and the checksum compute what they should, and so do the
\* functions of the C library for all arguments but those of the four departures
\* that Lib names: there the code is wrong (bit-support.h, crc.c, libc/*.c).
LibraryRight == /\ B!BitsRight /\ B!CrcRight
                /\ L!MemoryRight /\ L!StringsRight /\ L!NumbersRight

\* While every boot leaves its tty the newest, every rank gets one of its own,
\* and the same one on the next run (find-ttyusb.c:64-171); and what last_mtime
\* has got to says nothing against a save the command has not seen, but for
\* those of the same second (cmd-watch.c:52-59).
ToolsRight == /\ which = "install" => I!IInv /\ I!Distinct /\ I!SameRanks
              /\ W!IInv /\ W!NoSaveOvertaken

\* my-install gets to the echo or says why not, but for the two cases in which it
\* waits for a Pi that has its program; a save in a later second than any seen
\* is followed by a run of the command, unless fork fails; and the test programs
\* end, or stop as they must on more Pis than they are written for.
InstallEnds == (which = "install") ~> (which = "install" /\ (I!Done \/ I!Hangs))
SavesBuilt ==
    \A f \in Interesting : (which = "watch" /\ W!Fresh(f)) ~> (which = "watch" /\ W!Settled(f))
ProgramsEnd ==
    /\ (which = "two" /\ program # "none") ~> (which = "two" /\ P(Few)!Ended)
    /\ (which = "four" /\ program # "none") ~> (which = "four" /\ P(Many)!Ended)
AllEnd == InstallEnds /\ SavesBuilt /\ ProgramsEnd

\* On the Pis that a program is written for, the root ends with what one computer
\* computes alone (matmul.c, matmul-hard.c, mpi.c, mergesort.c, render.c).
RootHasResult ==
    /\ which # "four" => P(Few)!RootHasResult
    /\ which = "four" => P(Many)!RootHasResult
=============================================================================
