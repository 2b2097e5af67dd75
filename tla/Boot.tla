--------------------------------- MODULE Boot ---------------------------------
(***************************************************************************)
(* The bootloader: the loop of my-install.c over the Pis, simple_boot of   *)
(* put-code.c on the Unix side and get_code of get-code.h on each Pi, over *)
(* a byte stream in each direction.                                        *)
(*                                                                         *)
(* A byte is <<word, k>>, byte k of a protocol word, or <<text, 0>>.  What *)
(* get32 returns is a word only if its four bytes are that word's: a       *)
(* reader that is out of step reads "other".  crc32 has no collisions.     *)
(***************************************************************************)
EXTENDS Integers, SequencesExt

CONSTANTS
    NPis,           \* num_pis
    Rest,           \* bytes of the program after the two of its header
    Fits,           \* FALSE: the program would overwrite the bootloader
    MaxJunk,        \* bound: bytes in a tty before the first whole word
    MaxQueue,       \* bound: no new GET_PROG_INFO behind this many bytes
    MaxFaults       \* bound: bytes lost or garbled, Pis that lose power

ASSUME BootAssumption ==
    /\ NPis \in 1..4 /\ Rest \in Nat
    /\ Fits \in BOOLEAN
    /\ MaxJunk \in Nat /\ MaxQueue \in Nat \ {0}
    /\ MaxFaults \in Nat

VARIABLES
    cur,        \* the variable i of my-install's loop
    host,       \* where my-install is
    toHost,     \* bytes from Pi cur, not yet read
    toPi,       \* bytes to Pi cur, not yet read
    pi,         \* [Pis -> where it is]
    addr,       \* [Pis -> Places] what get_code received as addr
    nbytes,     \* [Pis -> Nat] what get_code received as nbytes
    cksum,      \* [Pis -> words]
    mem,        \* [Pis -> Seq(bytes)] the bytes its PUT8 loop has stored
    loaded,     \* history: the bytes that get_code has loaded, once it returns
    returned,   \* history: the address it returned
    faults

hostVars == <<cur, host>>
getVars == <<addr, nbytes, cksum>>
branchVars == <<loaded, returned>>
piVars == <<pi, getVars, mem, branchVars>>
vars == <<hostVars, toHost, toPi, piVars, faults>>

Pis == 0..(NPis - 1)
PiWords == {"GET_PROG_INFO", "GET_CODE", "BOOT_SUCCESS", "BOOT_ERROR", "PRINT_STRING"}
HostWords == {"PUT_PROG_INFO", "ARMBASE", "NBYTES", "CRC", "PUT_CODE"}
Lengths == {"GREETING", "COMPLAINT"}    \* strlen of the two strings of boot_putk
Words == PiWords \cup HostWords \cup Lengths
Places == {"ARMBASE", "zero", "elsewhere"}      \* addresses: 0 is none to main
Junk == <<"text", 0>>
LengthOf(w) == IF w = "GREETING" THEN 3 ELSE 2

Bytes(w) == [k \in 1..4 |-> <<w, k>>]
Drop(s, n) == SubSeq(s, n + 1, Len(s))
WordAt(s, at) == IF \E w \in Words : IsPrefix(Bytes(w), Drop(s, at - 1))
                 THEN s[at][1] ELSE "other"
Text(n) == [k \in 1..n |-> Junk]

\* The program: my-install writes i and num_pis over its first two bytes.
Code(i) == <<<<"rank", i>>, <<"size", NPis>>>> \o [k \in 1..Rest |-> <<"code", k>>]
\* crc32 of a Pi's memory.
Crc(i, bytes) == IF bytes = Code(i) THEN "CRC" ELSE "other"

Init ==
    /\ cur = 0 /\ host = "open" /\ toHost = <<>> /\ toPi = <<>>
    /\ pi = [i \in Pis |-> "wait"]
    /\ addr = [i \in Pis |-> "zero"] /\ nbytes = [i \in Pis |-> 0]
    /\ cksum = [i \in Pis |-> "other"] /\ mem = [i \in Pis |-> <<>>]
    /\ loaded = [i \in Pis |-> <<>>] /\ returned = [i \in Pis |-> "none"]
    /\ faults = 0

Connected(i) == i = cur /\ host \notin {"open", "echo", "died"}

-----------------------------------------------------------------------------
(* The Unix side: my-install and simple_boot.                              *)

\* open_tty, which may happen in the middle of a word of the Pi.
Open ==
    /\ host = "open" /\ cur < NPis
    /\ host' = "drain" /\ toPi' = <<>>
    /\ \E n \in 0..MaxJunk : toHost' = Text(n)
    /\ UNCHANGED <<cur, piVars, faults>>

\* All Pis are up: pi_echo.
Echo ==
    /\ host = "open" /\ cur = NPis
    /\ host' = "echo"
    /\ UNCHANGED <<cur, toHost, toPi, piVars, faults>>

GettingOp == host \in {"drain", "info", "crc", "success"}

\* get_op returns op.
GetOp(op) ==
    /\ Len(toHost) >= 4 /\ op = WordAt(toHost, 1) /\ op # "PRINT_STRING"
    /\ toHost' = Drop(toHost, 4)

\* get_op prints the string that follows PRINT_STRING and gets the next op.  It
\* dies of a length from 512, and one of 0 wraps in nbytes-1: it prints whatever
\* comes.  With any other it takes that many bytes, right or wrong.
PrintString ==
    /\ GettingOp /\ Len(toHost) >= 8 /\ WordAt(toHost, 1) = "PRINT_STRING"
    /\ LET w == WordAt(toHost, 5) IN
       \/ \E n \in 1..(Len(toHost) - 8) :
            /\ w \in Lengths => n = LengthOf(w)
            /\ toHost' = Drop(toHost, 8 + n) /\ UNCHANGED host
       \/ /\ w \notin Lengths
          /\ host' \in {"died", "printing"} /\ toHost' = Drop(toHost, 8)
    /\ UNCHANGED <<cur, toPi, piVars, faults>>

\* The loop of get_op over a length that has wrapped.
PrintAll ==
    /\ host = "printing" /\ toHost # <<>>
    /\ toHost' = Tail(toHost)
    /\ UNCHANGED <<hostVars, toPi, piVars, faults>>

\* Step 0 and 1: an op that is not GET_PROG_INFO costs one more byte.
Drain ==
    /\ host = "drain"
    /\ \E op \in Words \cup {"other"} :
        /\ GetOp(op)
        /\ IF op = "GET_PROG_INFO"
           THEN /\ host' = "info"
                /\ toPi' = toPi \o Bytes("PUT_PROG_INFO") \o Bytes("ARMBASE")
                                \o Bytes("NBYTES") \o Bytes("CRC")
           ELSE host' = "discard" /\ UNCHANGED toPi
    /\ UNCHANGED <<cur, piVars, faults>>

Discard ==
    /\ host = "discard" /\ toHost # <<>>
    /\ toHost' = Tail(toHost) /\ host' = "drain"
    /\ UNCHANGED <<cur, toPi, piVars, faults>>

\* Variant for mutation: every GET_PROG_INFO is answered.
DrainInfosAnswers ==
    /\ host = "info"
    /\ \E op \in Words \cup {"other"} :
        /\ GetOp(op)
        /\ host' = IF op = "GET_CODE" THEN "crc" ELSE "info"
        /\ toPi' = IF op = "GET_PROG_INFO"
                   THEN toPi \o Bytes("PUT_PROG_INFO") \o Bytes("ARMBASE")
                             \o Bytes("NBYTES") \o Bytes("CRC")
                   ELSE toPi
    /\ UNCHANGED <<cur, piVars, faults>>

\* Step 2: read until GET_CODE.
DrainInfos ==
    /\ host = "info"
    /\ \E op \in Words \cup {"other"} :
        GetOp(op) /\ host' = IF op = "GET_CODE" THEN "crc" ELSE "info"
    /\ UNCHANGED <<cur, toPi, piVars, faults>>

\* Step 3 and 4: the Pi's checksum, which get_op reads too.
CheckCrc ==
    /\ host = "crc"
    /\ \E op \in Words \cup {"other"} :
        /\ GetOp(op)
        /\ IF op = "CRC"
           THEN host' = "success" /\ toPi' = toPi \o Bytes("PUT_CODE") \o Code(cur)
           ELSE host' = "died" /\ UNCHANGED toPi
    /\ UNCHANGED <<cur, piVars, faults>>

\* Variant for mutation: any op ends the wait.
AwaitAnything ==
    /\ host = "success"
    /\ \E op \in Words \cup {"other"} : GetOp(op)
    /\ host' = "open" /\ cur' = cur + 1
    /\ UNCHANGED <<toPi, piVars, faults>>

\* Step 5: read until BOOT_SUCCESS; on to the next Pi.
AwaitSuccess ==
    /\ host = "success"
    /\ \E op \in Words \cup {"other"} :
        /\ GetOp(op)
        /\ IF op = "BOOT_SUCCESS"
           THEN host' = "open" /\ cur' = cur + 1
           ELSE UNCHANGED hostVars
    /\ UNCHANGED <<toPi, piVars, faults>>

\* What the host waits for is not there.
Starved ==
    \/ host \in {"discard", "printing"} /\ toHost = <<>>
    \/ GettingOp /\ Len(toHost) < 4
    \/ /\ GettingOp /\ WordAt(toHost, 1) = "PRINT_STRING"
       /\ \/ Len(toHost) < 8
          \/ WordAt(toHost, 5) \notin Lengths
          \/ \E n \in Lengths : WordAt(toHost, 5) = n /\ Len(toHost) < 8 + LengthOf(n)

\* The Pi waits for bytes that do not come, or runs the program.
Silent(i) ==
    \/ pi[i] = "run"
    \/ pi[i] \in {"op", "put"} /\ Len(toPi) < 4
    \/ pi[i] = "info" /\ Len(toPi) < 12
    \/ pi[i] = "code" /\ toPi = <<>> /\ Len(mem[i]) < nbytes[i]

\* read returns 0 after 10 s without a byte: get_uint8 dies.
ReadTimesOut ==
    /\ Starved /\ Silent(cur)
    /\ host' = "died"
    /\ UNCHANGED <<cur, toHost, toPi, piVars, faults>>

-----------------------------------------------------------------------------
(* The Pi: get_code.                                                       *)

Sends(i, bytes) == toHost' = IF Connected(i) THEN toHost \o bytes ELSE toHost

\* wait_for_data: 300 ms without data.
Resend(i) ==
    /\ Connected(i) /\ pi[i] = "wait" /\ Len(toHost) < MaxQueue
    /\ Sends(i, Bytes("GET_PROG_INFO"))
    /\ UNCHANGED <<hostVars, toPi, piVars, faults>>

HasData(i) ==
    /\ Connected(i) /\ pi[i] = "wait" /\ toPi # <<>>
    /\ pi' = [pi EXCEPT ![i] = "op"]
    /\ UNCHANGED <<hostVars, toHost, toPi, getVars, mem, branchVars, faults>>

Goes(i, to) == pi' = [pi EXCEPT ![i] = to]

\* get_code is over: its variables are gone.
Forgets(i) ==
    /\ addr' = [addr EXCEPT ![i] = "zero"] /\ nbytes' = [nbytes EXCEPT ![i] = 0]
    /\ cksum' = [cksum EXCEPT ![i] = "other"] /\ mem' = [mem EXCEPT ![i] = <<>>]

\* panic prints a message and clean_reboot another one.
Panic(i) ==
    /\ Goes(i, "reboot")
    /\ \E n \in {2, 4} : Sends(i, Text(n))

\* PUT_PROG_INFO
GetPutProgInfo(i) ==
    /\ Connected(i) /\ pi[i] = "op" /\ Len(toPi) >= 4
    /\ toPi' = Drop(toPi, 4)
    /\ IF WordAt(toPi, 1) = "PUT_PROG_INFO"
       THEN Goes(i, "info") /\ UNCHANGED toHost
       ELSE Panic(i)
    /\ UNCHANGED <<hostVars, getVars, mem, branchVars, faults>>

\* What a garbled length may be: other than the length of the program.
NBytes(w) == IF w = "NBYTES" THEN {Rest + 2} ELSE {0, Rest + 1, Rest + 3}

\* A garbled address is any other, 0 included.
Addresses(w) == IF w = "ARMBASE" THEN {"ARMBASE"} ELSE {"zero", "elsewhere"}

\* addr, nbytes and cksum, the collision check, GET_CODE and cksum.
GetInfo(i) ==
    /\ Connected(i) /\ pi[i] = "info" /\ Len(toPi) >= 12
    /\ toPi' = Drop(toPi, 12)
    /\ \E a \in Addresses(WordAt(toPi, 1)) : addr' = [addr EXCEPT ![i] = a]
    /\ \E n \in NBytes(WordAt(toPi, 5)) : nbytes' = [nbytes EXCEPT ![i] = n]
    /\ cksum' = [cksum EXCEPT ![i] = WordAt(toPi, 9)]
    /\ \/ /\ Fits \/ WordAt(toPi, 1) # "ARMBASE" \/ WordAt(toPi, 5) # "NBYTES"
          /\ Goes(i, "put") /\ Sends(i, Bytes("GET_CODE") \o Bytes(WordAt(toPi, 9)))
       \/ /\ ~Fits \/ WordAt(toPi, 1) # "ARMBASE" \/ WordAt(toPi, 5) # "NBYTES"
          /\ Panic(i)
    /\ UNCHANGED <<hostVars, mem, branchVars, faults>>

GetPutCode(i) ==
    /\ Connected(i) /\ pi[i] = "put" /\ Len(toPi) >= 4
    /\ toPi' = Drop(toPi, 4) /\ mem' = [mem EXCEPT ![i] = <<>>]
    /\ IF WordAt(toPi, 1) = "PUT_CODE"
       THEN Goes(i, "code") /\ UNCHANGED toHost
       ELSE Panic(i)
    /\ UNCHANGED <<hostVars, getVars, branchVars, faults>>

\* boot_get8 and PUT8
GetCodeByte(i) ==
    /\ Connected(i) /\ pi[i] = "code" /\ toPi # <<>> /\ Len(mem[i]) < nbytes[i]
    /\ toPi' = Tail(toPi) /\ mem' = [mem EXCEPT ![i] = Append(@, Head(toPi))]
    /\ UNCHANGED <<hostVars, toHost, pi, getVars, branchVars, faults>>

\* The checksum is right, and get_code returns addr: notmain reboots if that is
\* 0 and branches to it if not.
Returns(i) ==
    /\ pi[i] = "code" /\ Len(mem[i]) = nbytes[i] /\ Crc(i, mem[i]) = cksum[i]
    /\ Goes(i, IF addr[i] = "zero" THEN "reboot" ELSE "run") /\ Forgets(i)
    /\ loaded' = [loaded EXCEPT ![i] = mem[i]]
    /\ returned' = [returned EXCEPT ![i] = addr[i]]

\* Variant for mutation: no uart_flush_tx before get_code returns.
SucceedNoFlush(i) ==
    /\ Returns(i)
    /\ \E n \in 0..4 : Sends(i, Bytes("PRINT_STRING") \o Bytes("GREETING")
                                \o Text(LengthOf("GREETING"))
                                \o SubSeq(Bytes("BOOT_SUCCESS"), 1, n))
    /\ UNCHANGED <<hostVars, toPi, faults>>

\* boot_putk, BOOT_SUCCESS, uart_flush_tx.
Succeed(i) ==
    /\ Returns(i)
    /\ Sends(i, Bytes("PRINT_STRING") \o Bytes("GREETING")
                \o Text(LengthOf("GREETING")) \o Bytes("BOOT_SUCCESS"))
    /\ UNCHANGED <<hostVars, toPi, faults>>

\* boot_err: the checksum is wrong, or what was stored elsewhere, where there
\* may be no memory, does not read back.
Fail(i) ==
    /\ pi[i] = "code" /\ Len(mem[i]) = nbytes[i]
    /\ Crc(i, mem[i]) # cksum[i] \/ addr[i] = "elsewhere"
    /\ Goes(i, "reboot")
    /\ Sends(i, Bytes("PRINT_STRING") \o Bytes("COMPLAINT")
                \o Text(LengthOf("COMPLAINT")) \o Bytes("BOOT_ERROR"))
    /\ UNCHANGED <<hostVars, toPi, getVars, mem, branchVars, faults>>

\* What arrives while the Pi reboots is lost.
Deaf(i) ==
    /\ Connected(i) /\ pi[i] = "reboot" /\ toPi # <<>>
    /\ toPi' = Tail(toPi)
    /\ UNCHANGED <<hostVars, toHost, piVars, faults>>

\* The bootloader starts again, with a GET_PROG_INFO.
Reboot(i) ==
    /\ pi[i] = "reboot" /\ (Connected(i) => Len(toHost) < MaxQueue)
    /\ Goes(i, "wait") /\ Forgets(i) /\ Sends(i, Bytes("GET_PROG_INFO"))
    /\ UNCHANGED <<hostVars, toPi, branchVars, faults>>

-----------------------------------------------------------------------------
(* The environment.                                                        *)

\* A byte is lost or garbled on the way.
Fault ==
    /\ faults < MaxFaults /\ faults' = faults + 1
    /\ \/ /\ \E k \in DOMAIN toPi : toPi' \in {ReplaceAt(toPi, k, Junk), RemoveAt(toPi, k)}
          /\ UNCHANGED toHost
       \/ /\ \E k \in DOMAIN toHost :
                toHost' \in {ReplaceAt(toHost, k, Junk), RemoveAt(toHost, k)}
          /\ UNCHANGED toPi
    /\ UNCHANGED <<hostVars, piVars>>

\* A Pi loses power, and what is in its transmit FIFO.
Reset(i) ==
    /\ faults < MaxFaults /\ faults' = faults + 1
    /\ pi[i] # "reboot" /\ Goes(i, "reboot")
    /\ IF Connected(i)
       THEN \E n \in 0..8 : n <= Len(toHost) /\ toHost' = SubSeq(toHost, 1, Len(toHost) - n)
       ELSE UNCHANGED toHost
    /\ UNCHANGED <<hostVars, toPi, getVars, mem, branchVars>>

Terminated == host \in {"echo", "died"} /\ UNCHANGED vars

-----------------------------------------------------------------------------

Host ==
    \/ Open \/ Echo \/ PrintString \/ PrintAll \/ Drain \/ Discard
    \/ DrainInfos \/ CheckCrc \/ AwaitSuccess \/ ReadTimesOut

Reads(i) ==
    \/ HasData(i) \/ GetPutProgInfo(i) \/ GetInfo(i)
    \/ GetPutCode(i) \/ GetCodeByte(i) \/ Succeed(i) \/ Fail(i)

Next ==
    \/ Host
    \/ \E i \in Pis : Reads(i) \/ Resend(i) \/ Deaf(i) \/ Reboot(i) \/ Reset(i)
    \/ Fault \/ Terminated

\* my-install and the Pis keep running, and what is on a line arrives.
Spec ==
    /\ Init /\ [][Next]_vars
    /\ WF_vars(Host)
    /\ \A i \in Pis : WF_vars(Reads(i)) /\ WF_vars(Resend(i)) /\ WF_vars(Reboot(i))

-----------------------------------------------------------------------------
(* Properties.                                                             *)

\* Every variable keeps its type, and no more than one message is on its way to
\* the Pi: "the use of send-response" of BOOTLOADER.md:132.
TypeOK ==
    /\ cur \in 0..NPis
    /\ host \in {"open", "drain", "discard", "printing", "info", "crc", "success",
                "echo", "died"}
    /\ \A s \in {toHost, toPi} : \A k \in DOMAIN s :
        s[k][1] \in Words \cup {"other", "text", "rank", "size", "code"}
    /\ Len(toPi) <= (IF Rest > 10 THEN Rest + 6 ELSE 16)
    /\ pi \in [Pis -> {"wait", "op", "info", "put", "code", "reboot", "run"}]
    /\ addr \in [Pis -> Places] /\ nbytes \in [Pis -> 0..(Rest + 3)]
    /\ cksum \in [Pis -> Words \cup {"other"}]
    /\ \A i \in Pis : Len(mem[i]) <= nbytes[i] \/ pi[i] # "code"
    /\ faults \in 0..MaxFaults

\* The Pis are loaded in order, once each, with exactly the program sent to
\* them and their own rank in it, and my-install goes on only from a Pi that has
\* its whole program, whatever is lost, garbled, left over in a tty or rebooted.
\* Until something is, the program is at ARMBASE; a garbled address, which no
\* checksum covers, may put it elsewhere, and one of 0 is a Pi that answers
\* BOOT_SUCCESS and reboots.
L == INSTANCE Loader WITH
    Image <- LAMBDA i : Code(i), Nothing <- <<>>, Home <- "ARMBASE",
    Away <- {"zero", "elsewhere"}, Nowhere <- "none",
    reported <- cur, disturbed <- (faults > 0)
Implements == L!Spec

Undisturbed == faults = 0

\* The Pi of an undisturbed exchange prints only when nothing is on its way to it: its receive FIFO holds 8
\* bytes, and get-code.h:63-65 "only call boot_putk right after you have
\* completely received a message and the laptop side is quietly waiting".
QuietWhenPrinting ==
    [][\A i \in Pis :
        Undisturbed' /\ pi[i] # pi'[i] /\ pi'[i] \in {"reboot", "run"} => toPi' = <<>>]_vars

\* As long as nothing is lost or garbled and no Pi fails, every Pi is booted.
AllBooted == []Undisturbed => <>(host = "echo" /\ \A i \in Pis : pi[i] = "run")

\* my-install comes to an end: BOOTLOADER.md:125 "If at any point the Unix side
\* receives an unexpected or error message it simply exits with an error".
HostEnds == <>(host \in {"echo", "died"})
=============================================================================
