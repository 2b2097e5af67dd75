------------------------------ MODULE Install ------------------------------
(***************************************************************************)
(* my-install on the laptop: it parses its arguments, and for each rank    *)
(* looks for a tty (find-ttyusb.c), opens it (open-tty.c), and boots the   *)
(* Pi behind it.  Which Pi gets which rank, and so which one is the root   *)
(* with the wires to all others, depends on the modification times of the  *)
(* ttys alone: find_ttyusb_i takes the oldest every time, and a boot       *)
(* writes to the tty and makes it the newest.  The program is run again    *)
(* and again on the same ttys.                                             *)
(***************************************************************************)
EXTENDS Integers, Sequences, FiniteSets

CONSTANTS
    Devices,        \* the names scandir sorts and its filter accepts, 1..n
    Ttys,           \* the sets of them that may be there
    Arguments,      \* the command lines: sequences of strings
    MaxAttempts,    \* of open_tty
    Granule,        \* the granularity of st_mtime
    BootTime,       \* least time a boot takes
    MaxNow,         \* bound: no boot takes longer than it must after this time
    MaxRuns         \* bound: runs of my-install

VARIABLES
    plugged,        \* the ttys in /dev
    mtime,          \* their modification times
    now,
    argv, arg,      \* the arguments, and the one main looks at
    dev_name,       \* 0: none
    num_pis, pi_prog, exec_argv,
    phase,
    i, attempts,
    devices,        \* devices[i + 1].portname
    since,          \* when the boot of this Pi began
    runs, previous, \* history: the runs, and devices[] of the last one
    quiet,          \* history: nobody plugged, unplugged or typed
    tied            \* history: a boot left another tty with the time of its own

options == <<argv, arg, num_pis, pi_prog, exec_argv>>
ttys == <<plugged, mtime>>
loop == <<i, attempts, devices, since>>
history == <<runs, previous, quiet, tied>>
vars == <<ttys, now, options, dev_name, phase, loop, history>>

Stamp(t) == t - (t % Granule)

Init ==
    /\ plugged \in Ttys
    /\ now = 2 * Granule        \* bound: at most one tty has just been plugged in
    /\ mtime \in [Devices -> {Granule, now}]
    /\ \A d, e \in Devices : mtime[d] = now /\ mtime[e] = now => d = e /\ d \in plugged
    /\ argv \in Arguments /\ arg = 1
    /\ dev_name = 0 /\ num_pis = 0 /\ pi_prog = FALSE /\ exec_argv = FALSE
    /\ phase = "main" /\ i = 0 /\ attempts = 0 /\ devices = <<>> /\ since = 0
    /\ runs = 1 /\ previous = <<>> /\ quiet = TRUE /\ tied = FALSE

-----------------------------------------------------------------------------
(* find-ttyusb.c.  Ties go to the first name.                              *)

Older(d, e) == mtime[d] < mtime[e] \/ (mtime[d] = mtime[e] /\ d <= e)
Newer(d, e) == mtime[d] > mtime[e] \/ (mtime[d] = mtime[e] /\ d <= e)
find_ttyusb_first == CHOOSE d \in plugged : \A e \in plugged : Older(d, e)
find_ttyusb_last == CHOOSE d \in plugged : \A e \in plugged : Newer(d, e)

find_ttyusb_iRoot(k) == IF k = 0 THEN find_ttyusb_last ELSE find_ttyusb_first
find_ttyusb_i(k) == find_ttyusb_first

\* There are no ttys, or one that scandir saw has gone when stat asks for it (a
\* single one is not asked for).
NotFound ==
    /\ phase' = "panic"
    /\ \/ plugged = {} /\ UNCHANGED <<plugged, quiet>>
       \/ /\ Cardinality(plugged) > 1
          /\ \E d \in plugged : plugged' = plugged \ {d}
          /\ quiet' = FALSE
    /\ UNCHANGED <<mtime, now, options, dev_name, loop, runs, previous, tied>>

-----------------------------------------------------------------------------
(* main.                                                                   *)

Dies(why) == phase' = why /\ UNCHANGED <<ttys, now, options, dev_name, loop, history>>

Parsed(n) ==
    /\ arg' = arg + n
    /\ UNCHANGED <<ttys, now, argv, phase, loop, history>>

Digits == <<"0", "1", "2", "3", "4", "5", "6", "7", "8", "9">>

\* An option with an argument, after which "rest" holds.
WithArgument(rest) == IF arg + 1 > Len(argv) THEN Dies("usage") ELSE rest

\* Bound: numbers of one digit.  A number of ttys is not looked at here.
Option ==
    /\ phase = "main" /\ arg <= Len(argv)
    /\ \/ \E k \in 0..9 :
             /\ argv[arg] = Digits[k + 1] /\ num_pis' = k
             /\ Parsed(1) /\ UNCHANGED <<dev_name, pi_prog, exec_argv>>
       \/ /\ argv[arg] \in {"--first", "--last"} /\ plugged # {}
          /\ dev_name' = IF argv[arg] = "--first" THEN find_ttyusb_first ELSE find_ttyusb_last
          /\ Parsed(1) /\ UNCHANGED <<num_pis, pi_prog, exec_argv>>
       \/ argv[arg] \in {"--first", "--last"} /\ NotFound
       \/ /\ argv[arg] = "--device"
          /\ WithArgument(/\ dev_name' \in Devices
                          /\ Parsed(2) /\ UNCHANGED <<num_pis, pi_prog, exec_argv>>)
       \/ /\ argv[arg] \in {"--baud", "--addr"}
          /\ WithArgument(Parsed(2) /\ UNCHANGED <<dev_name, num_pis, pi_prog, exec_argv>>)
       \/ /\ argv[arg] = "--exec"
          /\ WithArgument(/\ exec_argv' = TRUE /\ Parsed(Len(argv) + 1 - arg)
                          /\ UNCHANGED <<dev_name, num_pis, pi_prog>>)
       \/ /\ argv[arg] = "prog.bin" /\ pi_prog' = TRUE
          /\ Parsed(1) /\ UNCHANGED <<dev_name, num_pis, exec_argv>>
       \/ argv[arg] = "?" /\ Dies("usage")

\* The options are read; without a program there is nothing to do.
Parse ==
    /\ phase = "main" /\ arg > Len(argv)
    /\ phase' = IF pi_prog THEN "find" ELSE "usage"
    /\ UNCHANGED <<ttys, now, options, dev_name, loop, history>>

\* The device of rank i, for the first five ranks.  What the options said is
\* forgotten.
Find ==
    /\ phase = "find" /\ i < num_pis /\ i <= 4 /\ plugged # {}
    /\ dev_name' = find_ttyusb_i(i) /\ phase' = "open"
    /\ attempts' = 0
    /\ UNCHANGED <<ttys, now, options, i, devices, since, history>>

FindPanics ==
    /\ phase = "find" /\ i < num_pis
    /\ IF i > 4 THEN Dies("panic") ELSE NotFound

\* open_tty: a second between the attempts, which is not told apart here.
OpenFails ==
    /\ phase = "open"
    /\ attempts' = attempts + 1
    /\ phase' = IF attempts' = MaxAttempts THEN "panic" ELSE "open"
    /\ UNCHANGED <<ttys, now, options, dev_name, i, devices, since, history>>

Opens ==
    /\ phase = "open" /\ dev_name \in plugged
    /\ phase' = "boot" /\ since' = now
    /\ UNCHANGED <<ttys, now, options, dev_name, i, attempts, devices, history>>

\* simple_boot writes until its end.  A Pi that has its program already does
\* not answer, unless the program ends: what happens then is left out.
Boot ==
    /\ phase = "boot" /\ dev_name \in plugged
    /\ IF \E k \in DOMAIN devices : devices[k] = dev_name
       THEN phase' = "stuck" /\ UNCHANGED <<mtime, i, devices, tied>>
       ELSE /\ now >= since + BootTime
            /\ mtime' = [mtime EXCEPT ![dev_name] = Stamp(now)]
            /\ tied' = (tied \/ \E d \in plugged \ {dev_name} : mtime[d] >= Stamp(now))
            /\ devices' = Append(devices, dev_name)
            /\ i' = i + 1 /\ phase' = "find"
    /\ UNCHANGED <<plugged, now, options, dev_name, attempts, since, runs, previous, quiet>>

Echo ==
    /\ phase = "find" /\ i >= num_pis /\ phase' = IF exec_argv THEN "todo" ELSE "echo"
    /\ UNCHANGED <<ttys, now, options, dev_name, loop, history>>

\* pi_echo copies what the user types to one of the ttys.  Bound: of what makes
\* a tty newer between two runs one thing happens.
Type ==
    /\ phase = "echo" /\ quiet
    /\ \E k \in DOMAIN devices : mtime' = [mtime EXCEPT ![devices[k]] = Stamp(now)]
    /\ quiet' = FALSE
    /\ UNCHANGED <<plugged, now, options, dev_name, phase, loop, runs, previous, tied>>

\* The programs end, the Pis reboot, and my-install is started again.
Again ==
    /\ phase = "echo" /\ runs < MaxRuns /\ num_pis > 0
    /\ runs' = runs + 1 /\ previous' = devices
    /\ arg' = 1 /\ dev_name' = 0 /\ num_pis' = 0 /\ pi_prog' = FALSE /\ exec_argv' = FALSE
    /\ phase' = "main" /\ i' = 0 /\ attempts' = 0 /\ devices' = <<>> /\ since' = 0
    /\ UNCHANGED <<ttys, now, argv, quiet, tied>>

\* Bound: a tty is plugged again between two runs only.
Replug(d) ==
    /\ phase = "echo" /\ quiet /\ d \in plugged /\ mtime[d] # Stamp(now)
    /\ mtime' = [mtime EXCEPT ![d] = Stamp(now)]
    /\ quiet' = FALSE
    /\ UNCHANGED <<plugged, now, options, dev_name, phase, loop, runs, previous, tied>>

\* Bound: one tty, between find_ttyusb_i and open, in the first run.
Unplug(d) ==
    /\ phase = "open" /\ runs = 1 /\ d \in plugged /\ plugged \in Ttys
    /\ plugged' = plugged \ {d}
    /\ quiet' = (quiet /\ devices = <<>>)
    /\ UNCHANGED <<mtime, now, options, dev_name, phase, loop, runs, previous, tied>>

Tick ==
    /\ phase = "boot" /\ (now < since + BootTime \/ now < MaxNow)
    /\ now' = now + 1
    /\ UNCHANGED <<ttys, options, dev_name, phase, loop, history>>

Main == Option \/ Parse \/ Find \/ FindPanics \/ OpenFails \/ Opens \/ Boot \/ Echo
Next == Main \/ Type \/ Again \/ Tick \/ \E d \in Devices : Replug(d) \/ Unplug(d)

Fairness == WF_vars(Main) /\ WF_vars(Tick)
Spec == Init /\ [][Next]_vars /\ Fairness

-----------------------------------------------------------------------------
TypeOK ==
    /\ arg \in 1..(Len(argv) + 1) /\ attempts \in 0..MaxAttempts
    /\ i = Len(devices) /\ dev_name \in Devices \union {0}

\* While there are enough ttys, and every boot left its own the newest, every
\* rank gets a tty of its own (find-ttyusb.c:163-171, my-install.c:151-196).
Distinct == phase = "stuck" => tied \/ Cardinality(plugged) < num_pis

\* A run gives every Pi the rank it had in the run before, if it uses all ttys,
\* nobody typed or plugged in between and every boot left its tty the newest:
\* the root stays the one in the middle of the wiring.
SameRanks ==
    phase = "echo" /\ quiet /\ ~tied /\ Len(devices) = Len(previous)
       /\ Len(devices) = Cardinality(plugged) => devices = previous

\* It gets to the echo, or says why not.
Done == phase \in {"echo", "usage", "panic", "todo"}

\* It waits for ever for a Pi it has booted already.
Hangs == phase = "stuck" /\ (tied \/ Cardinality(plugged) < num_pis)
Ends == <>(Done \/ Hangs)
-----------------------------------------------------------------------------
(* Why: what the modification times say of the boots.                      *)

Booted == {devices[k] : k \in DOMAIN devices}
Before == {previous[k] : k \in DOMAIN previous}

Types ==
    /\ plugged \subseteq Devices /\ mtime \in [Devices -> Nat]
    /\ now \in Nat /\ since \in Nat /\ since <= now
    /\ num_pis \in Nat
    /\ devices \in Seq(Devices) /\ i = Len(devices)
    /\ previous \in Seq(Devices) /\ runs \in Nat \ {0}
    /\ phase \in {"main", "find", "open", "boot", "echo", "usage", "panic", "todo", "stuck"}

\* Nothing is newer than now, and during a boot not than its begin.
Times ==
    /\ \A d \in Devices : mtime[d] <= Stamp(now)
    /\ phase = "boot" => \A d \in Devices : mtime[d] <= Stamp(since)

\* A run's boots make their ttys the newest; so one that is chosen twice means
\* that none is left.
Ranked ==
    /\ phase = "main" => devices = <<>>
    /\ ~tied =>
          /\ phase # "echo" => \A d \in Booted, e \in plugged \ Booted : mtime[e] < mtime[d]
          /\ phase \in {"open", "boot"} /\ dev_name \in Booted => Cardinality(plugged) < num_pis
    /\ Cardinality(Booted) = i
    /\ phase \in {"open", "boot"} => dev_name \in Devices
    /\ phase = "stuck" => tied \/ Cardinality(plugged) < num_pis

\* While nobody interferes, a run leaves the ttys in the order of its boots, and
\* the next one takes them in this order, if there are no others.
InOrder ==
    /\ runs = 1 => previous = <<>>
    /\ quiet =>
          /\ Booted \subseteq plugged /\ Before \subseteq plugged
          /\ Cardinality(Before) = Len(previous)
          /\ ~tied => /\ \A j, k \in DOMAIN devices : j < k => mtime[devices[j]] < mtime[devices[k]]
                      /\ \A j, k \in DOMAIN previous : j < k => previous[j] # previous[k]
Cycle ==
    quiet /\ ~tied /\ Before = plugged =>
        /\ \A k \in DOMAIN devices \intersect DOMAIN previous : devices[k] = previous[k]
        /\ \A j, k \in DOMAIN previous : i < j /\ j < k => mtime[previous[j]] < mtime[previous[k]]
        /\ phase \in {"open", "boot"} /\ i < Len(previous) => dev_name = previous[i + 1]

\* Boots that take longer than the granularity of the modification times never
\* leave two ttys with the same.
NoTies == BootTime >= Granule => ~tied

IInv == Types /\ Times /\ Ranked /\ InOrder /\ Cycle /\ NoTies

\* What the constants stand for.
ConstantsRight ==
    /\ Devices \subseteq Nat /\ IsFiniteSet(Devices) /\ Ttys \subseteq SUBSET Devices
    /\ Granule \in Nat \ {0} /\ BootTime \in Nat
=============================================================================
