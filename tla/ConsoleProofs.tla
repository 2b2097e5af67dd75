---------------------------- MODULE ConsoleProofs ----------------------------
(***************************************************************************)
(* No byte between a program and the laptop is lost, doubled or overtaken, *)
(* whatever the number of Pis, the depth of the FIFOs and the output; and  *)
(* pi_echo and pi_cat end by themselves only when everything was said.     *)
(***************************************************************************)
EXTENDS Console, SequenceTheorems, FiniteSetTheorems, TLAPS

-----------------------------------------------------------------------------
(* Why BytesIntact holds: uart_init clears a FIFO nobody has written to,   *)
(* and the reset one that has been flushed; a receiver that is off has     *)
(* nothing in its FIFO.                                                    *)

Listening == {"notmain", "clean_reboot", "rpi_reboot"}
Heard(s, t) == LeavesOut(s, t) /\ (Len(t) <= FifoSize => s = t)

PiInv(i) ==
    /\ Len(tx[i]) <= FifoSize /\ Len(rx[i]) <= FifoSize
    /\ plugged[i] => read[i] \o tty[i] \o shift[i] \o tx[i] = sent[i]
    /\ pc[i] \in {"_cstart", "uart_on"} => tx[i] = <<>> /\ got[i] = <<>>
    /\ pc[i] = "uart_on" => rx[i] = <<>>
    /\ enabled[i] <=> pc[i] # "uart_on"
    /\ pc[i] = "rpi_reboot" => tx[i] = <<>> /\ shift[i] = <<>>
    /\ pc[i] \in Listening => Heard(got[i] \o rx[i], typed[i])

IInv ==
    /\ TypeOK /\ enabled \in [Pi -> BOOLEAN] /\ (Running => count < NumPis)
    /\ \A i \in Pi : PiInv(i)

-----------------------------------------------------------------------------
(* Why CleanExit holds: what was given to the UART is the output, then the *)
(* exit string, then the bootloader's message; and a Pi counts when, and   *)
(* only when, the bytes of its exit string were read one after the other.  *)

Whole(i) == Output[i] \o ExitString
Said(i) ==
    /\ sent[i] \o out[i] = CASE pc[i] \in {"clean_reboot", "rpi_reboot"} -> Whole(i)
                             [] pc[i] = "bootloader" -> Append(Whole(i), "boot")
                             [] OTHER -> Output[i]
    /\ pc[i] = "rpi_reboot" => out[i] = <<>>

Finished(i) == \E n \in 0..Len(read[i]) : SubSeq(read[i], 1, n) = Whole(i)

\* done[i] of a Pi that was never read is malloc's.
Counted == {i \in Pi : done[i] /\ read[i] # <<>>}
EchoInv ==
    /\ count = Cardinality(Counted) /\ \A i \in Counted : Finished(i)
    /\ exited = "clean" => count = NumPis
    /\ image = SubSeq(read[1], 1, IF Len(read[1]) < ImageSize THEN Len(read[1]) ELSE ImageSize)

\* pos bytes of the exit string were the last that pi_cat read.
CatInv ==
    /\ exited = "clean" => Finished(1)
    /\ Running => /\ pos \in 0..2 /\ pos <= Len(read[1])
                  /\ \A j \in 1..pos : read[1][Len(read[1]) - pos + j] = ExitString[j]

ExitInv ==
    /\ done \in [Pi -> BOOLEAN] /\ tool \in {"pi_echo", "pi_cat"}
    /\ \A i \in Pi : Said(i)
    /\ tool = "pi_echo" => EchoInv
    /\ tool = "pi_cat" => CatInv

-----------------------------------------------------------------------------
(* Bytes that move along the line.                                         *)

LEMMA Assoc ==
  \A a, b, c \in Seq(Bytes) : (a \o b) \o c = a \o (b \o c)
<1> TAKE a \in Seq(Bytes), b \in Seq(Bytes), c \in Seq(Bytes)
<1> QED BY ONLY ConcatAssociative, a \in Seq(Bytes), b \in Seq(Bytes), c \in Seq(Bytes)

LEMMA HeadThenTail ==
  ASSUME NEW x \in Seq(Bytes), x # <<>>
  PROVE  /\ Head(x) \in Bytes /\ Tail(x) \in Seq(Bytes) /\ <<Head(x)>> \in Seq(Bytes)
         /\ x = <<Head(x)>> \o Tail(x) /\ Len(Tail(x)) = Len(x) - 1
<1>1. Head(x) \in Bytes /\ Tail(x) \in Seq(Bytes) /\ Len(Tail(x)) = Len(x) - 1
  BY HeadTailProperties
<1>2. <<Head(x)>> \in Seq(Bytes) BY <1>1
<1>3. x = <<Head(x)>> \o Tail(x)
  <2>1. Len(x) \in 1..Len(x) BY EmptySeq
  <2>2. SubSeq(x, 1, Len(x)) = <<x[1]>> \o SubSeq(x, 2, Len(x))
    BY <2>1, SubSeqRecursiveFirst
  <2>3. SubSeq(x, 1, Len(x)) = x BY SubSeqFull
  <2>4. x[1] = Head(x) BY DEF Head
  <2>5. Tail(x) = SubSeq(x, 2, Len(x))
    <3>1. Head(SubSeq(x, 1, Len(x))) = x[1] /\ Tail(SubSeq(x, 1, Len(x))) = SubSeq(x, 1 + 1, Len(x))
      BY <2>1, HeadTailOfSubSeq
    <3>2. QED BY <2>3, <3>1
  <2>6. QED BY <2>2, <2>3, <2>4, <2>5
<1>4. QED BY <1>1, <1>2, <1>3

\* The first of the bytes behind crosses to the end of those ahead.
LEMMA FirstCrosses ==
  ASSUME NEW a \in Seq(Bytes), NEW x \in Seq(Bytes), x # <<>>
  PROVE  Append(a, Head(x)) \o Tail(x) = a \o x
<1>1. Head(x) \in Bytes /\ Tail(x) \in Seq(Bytes) /\ <<Head(x)>> \in Seq(Bytes)
      /\ x = <<Head(x)>> \o Tail(x)
  BY HeadThenTail
<1>2. Append(a, Head(x)) = a \o <<Head(x)>> BY <1>1, AppendIsConcat
<1>3. (a \o <<Head(x)>>) \o Tail(x) = a \o (<<Head(x)>> \o Tail(x))
  BY <1>1, Assoc
<1>4. QED BY <1>1, <1>2, <1>3

\* A byte more behind is a byte more in all.
LEMMA OneMoreBehind ==
  ASSUME NEW a \in Seq(Bytes), NEW x \in Seq(Bytes), NEW b \in Bytes
  PROVE  a \o Append(x, b) = Append(a \o x, b)
<1>1. <<b>> \in Seq(Bytes) OBVIOUS
<1>2. a \o x \in Seq(Bytes) BY ConcatProperties
<1>3. Append(x, b) = x \o <<b>> /\ Append(a \o x, b) = (a \o x) \o <<b>>
  BY <1>2, AppendIsConcat
<1>4. (a \o x) \o <<b>> = a \o (x \o <<b>>) BY <1>1, Assoc
<1>5. QED BY <1>3, <1>4

\* Where a sequence is cut does not matter.
LEMMA CutAndJoin ==
  ASSUME NEW x \in Seq(Bytes), NEW n \in 1..Len(x)
  PROVE  /\ SubSeq(x, 1, n) \in Seq(Bytes) /\ SubSeq(x, n + 1, Len(x)) \in Seq(Bytes)
         /\ SubSeq(x, 1, n) \o SubSeq(x, n + 1, Len(x)) = x
<1>1. Len(x) \in Nat BY LenProperties
<1>2. 1 \in 1..(Len(x) + 1) /\ n \in (1 - 1)..Len(x) /\ Len(x) \in n..Len(x) BY <1>1
<1>3. SubSeq(x, 1, n) \o SubSeq(x, n + 1, Len(x)) = SubSeq(x, 1, Len(x))
  BY <1>2, ConcatAdjacentSubSeq
<1>4. SubSeq(x, 1, Len(x)) = x BY SubSeqFull
<1>5. \A i \in 1..n : x[i] \in Bytes BY <1>1, ElementOfSeq
<1>6. \A i \in (n + 1)..Len(x) : x[i] \in Bytes BY <1>1, ElementOfSeq
<1>7. SubSeq(x, 1, n) \in Seq(Bytes) BY <1>5, SubSeqProperties
<1>8. SubSeq(x, n + 1, Len(x)) \in Seq(Bytes) BY <1>1, <1>6, SubSeqProperties
<1>9. QED BY <1>3, <1>4, <1>7, <1>8

LEMMA NothingMore ==
  /\ <<>> \in Seq(Bytes) /\ \A a, b \in Seq(Bytes) : a \o b \in Seq(Bytes)
  /\ \A a \in Seq(Bytes) : a \o <<>> = a /\ <<>> \o a = a
BY EmptySeq, ConcatProperties, ConcatEmptySeq

LEMMA ExitStringType == ExitString \in Seq(Bytes) /\ <<"boot">> \in Seq(Bytes)
<1>1. "D" \in Bytes /\ "!" \in Bytes /\ "n" \in Bytes /\ "boot" \in Bytes BY DEF Bytes, Nul
<1>2. QED BY <1>1 DEF ExitString

-----------------------------------------------------------------------------
(* One Pi at a time.                                                       *)

LEMMA Untouched ==
  ASSUME NEW j \in Pi, PiInv(j), pc'[j] = pc[j], plugged'[j] = plugged[j],
         tx'[j] = tx[j], shift'[j] = shift[j], rx'[j] = rx[j], sent'[j] = sent[j],
         got'[j] = got[j], enabled'[j] = enabled[j], tty'[j] = tty[j], read'[j] = read[j], typed'[j] = typed[j]
  PROVE  PiInv(j)'
BY DEF PiInv

LEMMA PiTypes ==
  ASSUME TypeOK, NEW j \in Pi
  PROVE  /\ out[j] \in Seq(Bytes) /\ tx[j] \in Seq(Bytes) /\ shift[j] \in Seq(Bytes)
         /\ rx[j] \in Seq(Bytes) /\ sent[j] \in Seq(Bytes) /\ got[j] \in Seq(Bytes)
         /\ tty[j] \in Seq(Bytes) /\ read[j] \in Seq(Bytes) /\ typed[j] \in Seq(Bytes)
         /\ read[j] \o tty[j] \in Seq(Bytes)
         /\ (read[j] \o tty[j]) \o shift[j] \in Seq(Bytes)
<1>1. /\ out[j] \in Seq(Bytes) /\ tx[j] \in Seq(Bytes) /\ shift[j] \in Seq(Bytes)
      /\ rx[j] \in Seq(Bytes) /\ sent[j] \in Seq(Bytes) /\ got[j] \in Seq(Bytes)
      /\ tty[j] \in Seq(Bytes) /\ read[j] \in Seq(Bytes) /\ typed[j] \in Seq(Bytes)
  BY DEF TypeOK
<1>2. QED BY <1>1, ConcatProperties

LEMMA NothingHeard == Heard(<<>>, <<>>)
<1>1. Len(<<>>) = 0 BY EmptySeq
<1>2. \A e : Len(e) = 0 => LeavesOut(e, e)
  <2> TAKE e
  <2> HAVE Len(e) = 0
  <2> DEFINE f == [k \in 1..0 |-> k]
  <2>1. f \in [1..Len(e) -> 1..Len(e)] OBVIOUS
  <2>2. \A k \in 1..Len(e) : FALSE OBVIOUS
  <2> HIDE DEF f
  <2> QED BY <2>1, <2>2 DEF LeavesOut
<1>3. LeavesOut(<<>>, <<>>) BY <1>1, <1>2
<1> QED BY <1>3 DEF Heard

LEMMA ShiftKeeps ==
  ASSUME IInv, Running, NEW i \in Pi, Shift(i)
  PROVE  IInv'
<1> USE DEF IInv
<1> UNCHANGED <<enabled, keys, pc, out, sent, got, rx, tty, read, typed, plugged,
                turn, count, exited>>
  BY DEF Shift, program, host, laptop
<1>1. shift[i] = <<>> /\ tx[i] # <<>> BY DEF Shift
<1>2. /\ Head(tx[i]) \in Bytes /\ Tail(tx[i]) \in Seq(Bytes) /\ <<Head(tx[i])>> \in Seq(Bytes)
      /\ tx[i] = <<Head(tx[i])>> \o Tail(tx[i]) /\ Len(Tail(tx[i])) = Len(tx[i]) - 1
  BY <1>1, PiTypes, HeadThenTail
<1>3. TypeOK' BY <1>2 DEF TypeOK, Shift
<1>4. tx'[i] = Tail(tx[i]) /\ shift'[i] = <<Head(tx[i])>> BY DEF Shift, TypeOK
<1>5. PiInv(i)'
  <2>1. (read[i] \o tty[i]) \o <<>> = read[i] \o tty[i] BY PiTypes, ConcatEmptySeq
  <2>2. (read[i] \o tty[i]) \o (<<Head(tx[i])>> \o Tail(tx[i]))
          = ((read[i] \o tty[i]) \o <<Head(tx[i])>>) \o Tail(tx[i])
    <3>1. read[i] \o tty[i] \in Seq(Bytes) BY PiTypes
    <3>2. QED BY <1>2, <3>1, Assoc
  <2>3. Len(tx[i]) \in Nat BY PiTypes, LenProperties
  <2>4. FifoSize \in Nat BY ConsoleAssumption
  <2>5. PiInv(i) OBVIOUS
  <2>6. plugged[i] => (read[i] \o tty[i]) \o shift'[i] \o tx'[i] = sent[i]
    BY <1>1, <1>2, <1>4, <2>1, <2>2, <2>5 DEF PiInv
  <2>7. Len(tx'[i]) <= FifoSize BY <1>2, <1>4, <2>3, <2>4, <2>5 DEF PiInv
  <2>8. pc[i] \notin {"_cstart", "uart_on", "rpi_reboot"} BY <1>1, <2>5 DEF PiInv
  <2>9. QED BY <2>5, <2>6, <2>7, <2>8 DEF PiInv
<1>6. \A j \in Pi : PiInv(j)'
  <2>1. ASSUME NEW j \in Pi, j # i PROVE PiInv(j)'
    BY <2>1, Untouched DEF Shift, TypeOK
  <2>2. QED BY <1>5, <2>1
<1>7. QED BY <1>3, <1>6 DEF Running

LEMMA TransmitKeeps ==
  ASSUME IInv, Running, NEW i \in Pi, Transmit(i)
  PROVE  IInv'
<1> USE DEF IInv
<1> UNCHANGED <<enabled, keys, pc, out, sent, got, rx, tx, read, typed, plugged,
                turn, count, exited>>
  BY DEF Transmit, program, host, laptop
<1>1. <<>> \in Seq(Bytes) /\ tty[i] \o shift[i] \in Seq(Bytes)
  BY PiTypes, ConcatProperties, EmptySeq
<1>2. TypeOK' BY <1>1 DEF TypeOK, Transmit
<1>3. shift'[i] = <<>> /\ tty'[i] = IF plugged[i] THEN tty[i] \o shift[i] ELSE <<>>
  BY DEF Transmit, TypeOK
<1>4. PiInv(i)'
  <2>1. (read[i] \o (tty[i] \o shift[i])) \o <<>> = read[i] \o (tty[i] \o shift[i])
    BY <1>1, PiTypes, ConcatProperties, ConcatEmptySeq
  <2>2. (read[i] \o tty[i]) \o shift[i] = read[i] \o (tty[i] \o shift[i])
    <3>1. read[i] \in Seq(Bytes) /\ tty[i] \in Seq(Bytes) /\ shift[i] \in Seq(Bytes)
      BY PiTypes
    <3>2. QED BY <3>1, Assoc
  <2>3. PiInv(i) OBVIOUS
  <2>4. plugged[i] => (read[i] \o tty'[i]) \o shift'[i] \o tx[i] = sent[i]
    BY <1>3, <2>1, <2>2, <2>3 DEF PiInv
  <2>5. QED BY <1>3, <2>3, <2>4 DEF PiInv
<1>5. \A j \in Pi : PiInv(j)'
  <2>1. ASSUME NEW j \in Pi, j # i PROVE PiInv(j)'
    BY <2>1, Untouched DEF Transmit, TypeOK
  <2>2. QED BY <1>4, <2>1
<1>6. QED BY <1>2, <1>5 DEF Running

LEMMA ResetsKeep ==
  ASSUME IInv, Running, NEW i \in Pi, uart_off(i) \/ uart_on(i) \/ rpi_reboot(i)
  PROVE  IInv'
<1> USE DEF IInv
<1> UNCHANGED <<keys, sent, tty, read, plugged, turn, count, exited>>
  BY DEF uart_off, uart_on, rpi_reboot, host, laptop
<1>1. <<>> \in Seq(Bytes) BY EmptySeq
<1>2. TypeOK' /\ enabled' \in [Pi -> BOOLEAN]
  <2>1. CASE uart_off(i) BY <1>1, <2>1 DEF TypeOK, uart_off, Goes, host
  <2>2. CASE uart_on(i) BY <1>1, <2>2 DEF TypeOK, uart_on, Goes
  <2>3. CASE rpi_reboot(i) BY <1>1, <2>3, ExitStringType DEF TypeOK, rpi_reboot, Goes, host
  <2>4. QED BY <2>1, <2>2, <2>3
<1>3. PiInv(i)'
  <2>1. PiInv(i) /\ FifoSize \in Nat /\ Len(<<>>) = 0 BY ConsoleAssumption, EmptySeq
  <2>2. <<>> \o <<>> = <<>> BY <1>1, ConcatEmptySeq
  <2>3. CASE uart_off(i)
    <3>1. /\ pc[i] = "_cstart" /\ pc'[i] = "uart_on" /\ tx'[i] = <<>> /\ rx'[i] = <<>>
          /\ ~enabled'[i] /\ shift' = shift /\ got' = got
      BY <2>3 DEF uart_off, Goes, TypeOK
    <3>2. pc'[i] \notin Listening BY <3>1 DEF Listening
    <3>3. QED BY <2>1, <3>1, <3>2 DEF PiInv
  <2>4. CASE uart_on(i)
    <3>1. /\ pc[i] = "uart_on" /\ pc'[i] = "notmain" /\ enabled'[i] /\ typed'[i] = <<>>
          /\ UNCHANGED <<tx, rx, shift, got>>
      BY <2>4 DEF uart_on, Goes, TypeOK
    <3>2. got[i] \o rx[i] = <<>> BY <2>1, <2>2, <3>1 DEF PiInv
    <3>3. Heard(got'[i] \o rx'[i], typed'[i]) BY <3>1, <3>2, NothingHeard
    <3>4. QED BY <2>1, <3>1, <3>3 DEF PiInv
  <2>5. CASE rpi_reboot(i)
    <3>1. /\ pc[i] = "rpi_reboot" /\ pc'[i] = "bootloader" /\ tx'[i] = <<>> /\ rx'[i] = <<>>
          /\ shift'[i] = <<>> /\ enabled' = enabled
      BY <2>5 DEF rpi_reboot, Goes, TypeOK
    <3>2. pc'[i] \notin Listening BY <3>1 DEF Listening
    <3>3. QED BY <2>1, <3>1, <3>2 DEF PiInv
  <2>6. QED BY <2>3, <2>4, <2>5
<1>4. \A j \in Pi : PiInv(j)'
  <2>1. ASSUME NEW j \in Pi, j # i PROVE PiInv(j)'
    <3>1. typed'[j] = typed[j] BY <2>1 DEF uart_off, uart_on, rpi_reboot, host, TypeOK
    <3>2. QED BY <2>1, <3>1, Untouched DEF uart_off, uart_on, rpi_reboot, Goes, TypeOK
  <2>2. QED BY <1>3, <2>1
<1>5. QED BY <1>2, <1>4 DEF Running

LEMMA PutKeeps ==
  ASSUME IInv, Running, NEW i \in Pi, uart_put8(i)
  PROVE  IInv'
<1> USE DEF IInv
<1> UNCHANGED <<enabled, keys, pc, got, rx, shift, tty, read, typed, plugged,
                turn, count, exited>>
  BY DEF uart_put8, host, laptop
<1>1. out[i] # <<>> /\ Len(tx[i]) < FifoSize BY DEF uart_put8, uart_can_put8
<1> DEFINE b == Head(out[i])
<1>2. b \in Bytes /\ Tail(out[i]) \in Seq(Bytes) BY <1>1, PiTypes, HeadThenTail
<1>3. tx'[i] = Append(tx[i], b) /\ sent'[i] = Append(sent[i], b)
  BY <1>1 DEF uart_put8, TypeOK
<1>4. Append(tx[i], b) \in Seq(Bytes) /\ Append(sent[i], b) \in Seq(Bytes)
  BY <1>2, PiTypes, AppendProperties
<1>5. TypeOK'
  <2>1. tx' \in [Pi -> Seq(Bytes)] BY <1>1, <1>4 DEF TypeOK, uart_put8
  <2>2. sent' \in [Pi -> Seq(Bytes)] BY <1>4 DEF TypeOK, uart_put8
  <2>3. out' \in [Pi -> Seq(Bytes)] BY <1>2 DEF TypeOK, uart_put8
  <2>4. QED BY <2>1, <2>2, <2>3 DEF TypeOK
<1>6. PiInv(i)'
  <2>1. PiInv(i) OBVIOUS
  <2>2. (read[i] \o tty[i]) \o shift[i] \in Seq(Bytes) /\ tx[i] \in Seq(Bytes) BY PiTypes
  <2>3. ((read[i] \o tty[i]) \o shift[i]) \o Append(tx[i], b)
          = Append(((read[i] \o tty[i]) \o shift[i]) \o tx[i], b)
    BY <1>2, <2>2, OneMoreBehind
  <2>4. Len(tx'[i]) <= FifoSize
    <3>1. Len(Append(tx[i], b)) = Len(tx[i]) + 1 BY <1>2, <2>2, AppendProperties
    <3>2. Len(tx[i]) \in Nat /\ FifoSize \in Nat BY <2>2, LenProperties, ConsoleAssumption
    <3>3. QED BY <1>1, <1>3, <3>1, <3>2
  <2>5. pc[i] \notin {"_cstart", "uart_on", "rpi_reboot"} BY DEF uart_put8
  <2>6. QED BY <1>3, <2>1, <2>3, <2>4, <2>5 DEF PiInv
<1>7. \A j \in Pi : PiInv(j)'
  <2>1. ASSUME NEW j \in Pi, j # i PROVE PiInv(j)'
    BY <2>1, Untouched DEF uart_put8, TypeOK
  <2>2. QED BY <1>6, <2>1
<1>8. QED BY <1>5, <1>7 DEF Running

LEMMA GetKeeps ==
  ASSUME IInv, Running, NEW i \in Pi, uart_get8(i)
  PROVE  IInv'
<1> USE DEF IInv
<1> UNCHANGED <<enabled, keys, pc, out, sent, tx, shift, tty, read, typed, plugged,
                turn, count, exited>>
  BY DEF uart_get8, host, laptop
<1>1. rx[i] # <<>> /\ pc[i] = "notmain" BY DEF uart_get8, uart_has_data
<1>2. /\ Head(rx[i]) \in Bytes /\ Tail(rx[i]) \in Seq(Bytes)
      /\ Len(Tail(rx[i])) = Len(rx[i]) - 1
  BY <1>1, PiTypes, HeadThenTail
<1>3. got'[i] = Append(got[i], Head(rx[i])) /\ rx'[i] = Tail(rx[i])
  BY <1>1 DEF uart_get8, TypeOK
<1>4. Append(got[i], Head(rx[i])) \in Seq(Bytes) BY <1>2, PiTypes, AppendProperties
<1>5. TypeOK'
  <2>1. got' \in [Pi -> Seq(Bytes)] BY <1>1, <1>4 DEF TypeOK, uart_get8
  <2>2. rx' \in [Pi -> Seq(Bytes)] BY <1>1, <1>2 DEF TypeOK, uart_get8
  <2>3. QED BY <2>1, <2>2 DEF TypeOK
<1>6. PiInv(i)'
  <2>1. PiInv(i) OBVIOUS
  <2>2. Append(got[i], Head(rx[i])) \o Tail(rx[i]) = got[i] \o rx[i]
    BY <1>1, PiTypes, FirstCrosses
  <2>3. Len(rx[i]) \in Nat /\ FifoSize \in Nat BY PiTypes, LenProperties, ConsoleAssumption
  <2>4. Len(rx'[i]) <= FifoSize BY <1>2, <1>3, <2>1, <2>3 DEF PiInv
  <2>5. QED BY <1>1, <1>3, <2>1, <2>2, <2>4 DEF PiInv
<1>7. \A j \in Pi : PiInv(j)'
  <2>1. ASSUME NEW j \in Pi, j # i PROVE PiInv(j)'
    BY <2>1, Untouched DEF uart_get8, TypeOK
  <2>2. QED BY <1>6, <2>1
<1>8. QED BY <1>5, <1>7 DEF Running

LEMMA EndKeeps ==
  ASSUME IInv, Running, NEW i \in Pi, clean_reboot(i) \/ uart_flush_tx(i)
  PROVE  IInv'
<1> USE DEF IInv
<1> UNCHANGED <<enabled, keys, sent, got, rx, tx, shift, tty, read, typed, plugged,
                turn, count, exited>>
  BY DEF clean_reboot, uart_flush_tx, uart, host, laptop
<1>1. TypeOK'
  <2>1. CASE clean_reboot(i) BY <2>1, ExitStringType DEF TypeOK, clean_reboot, Goes
  <2>2. CASE uart_flush_tx(i) BY <2>2 DEF TypeOK, uart_flush_tx, Goes
  <2>3. QED BY <2>1, <2>2
<1>2. PiInv(i)'
  <2>1. PiInv(i) OBVIOUS
  <2>2. CASE clean_reboot(i)
    <3>1. pc[i] = "notmain" /\ pc'[i] = "clean_reboot" BY <2>2 DEF clean_reboot, Goes, TypeOK
    <3>2. QED BY <2>1, <3>1 DEF PiInv, Listening
  <2>3. CASE uart_flush_tx(i)
    <3>1. pc[i] = "clean_reboot" /\ pc'[i] = "rpi_reboot" /\ tx[i] = <<>> /\ shift[i] = <<>>
      BY <2>3 DEF uart_flush_tx, uart_tx_is_empty, Goes, TypeOK
    <3>2. QED BY <2>1, <3>1 DEF PiInv, Listening
  <2>4. QED BY <2>2, <2>3
<1>3. \A j \in Pi : PiInv(j)'
  <2>1. ASSUME NEW j \in Pi, j # i PROVE PiInv(j)'
    BY <2>1, Untouched DEF clean_reboot, uart_flush_tx, Goes, TypeOK
  <2>2. QED BY <1>2, <2>1
<1>4. QED BY <1>1, <1>3 DEF Running

-----------------------------------------------------------------------------
(* The laptop.                                                             *)

LEMMA UnplugKeeps ==
  ASSUME IInv, Running, NEW i \in Pi, Unplug(i)
  PROVE  IInv'
<1> USE DEF IInv
<1> UNCHANGED <<enabled, keys, pc, out, sent, got, rx, tx, shift, read, typed,
                turn, count, exited>>
  BY DEF Unplug, uart, program, host, laptop
<1>1. TypeOK' BY NothingMore DEF TypeOK, Unplug
<1>2. PiInv(i)'
  <2>1. PiInv(i) /\ ~plugged'[i] BY DEF Unplug, TypeOK
  <2>2. QED BY <2>1 DEF PiInv
<1>3. \A j \in Pi : PiInv(j)'
  <2>1. ASSUME NEW j \in Pi, j # i PROVE PiInv(j)'
    BY <2>1, Untouched DEF Unplug, TypeOK
  <2>2. QED BY <1>2, <2>1
<1>4. QED BY <1>1, <1>3 DEF Running

LEMMA TurnType ==
  ASSUME IInv, NextTurn
  PROVE  turn' \in Pi
<1>1. NumPis \in Nat \ {0} /\ turn \in 1..NumPis BY ConsoleAssumption DEF IInv, TypeOK, Pi
<1>2. turn' \in 1..NumPis BY <1>1 DEF NextTurn
<1>3. QED BY <1>2 DEF Pi

LEMMA IdleKeeps ==
  ASSUME IInv, Running, Skip \/ Gone
  PROVE  IInv'
<1> USE DEF IInv
<1> UNCHANGED <<enabled, keys, pc, out, sent, got, rx, tx, shift, tty, plugged, read, typed,
                count>>
  BY DEF Skip, Gone, uart, program
<1>1. turn' \in Pi BY TurnType DEF Skip, Gone, TypeOK
<1>2. TypeOK' BY <1>1 DEF TypeOK
<1>3. \A j \in Pi : PiInv(j)' BY Untouched
<1>4. QED BY <1>2, <1>3 DEF Running

\* A byte more that is left out, and one that is not.
LEMMA LeavesOutMore ==
  ASSUME NEW s \in Seq(Bytes), NEW t \in Seq(Bytes), NEW b \in Bytes, LeavesOut(s, t)
  PROVE  LeavesOut(s, Append(t, b)) /\ LeavesOut(Append(s, b), Append(t, b))
<1> DEFINE m == Len(s)
           n == Len(t)
           s2 == Append(s, b)
           t2 == Append(t, b)
<1>1. /\ m \in Nat /\ n \in Nat /\ Len(s2) = m + 1 /\ Len(t2) = n + 1
      /\ s2[m + 1] = b /\ t2[n + 1] = b
      /\ \A k \in 1..m : s2[k] = s[k]
      /\ \A k \in 1..n : t2[k] = t[k]
  BY LenProperties, AppendProperties
<1>2. PICK f \in [1..m -> 1..n] : /\ \A j, k \in 1..m : j < k => f[j] < f[k]
                                 /\ \A k \in 1..m : s[k] = t[f[k]]
  BY DEF LeavesOut
<1> HIDE DEF m, n, s2, t2
<1>3. LeavesOut(s, t2)
  <2>1. f \in [1..m -> 1..(n + 1)] BY <1>1, <1>2
  <2>2. \A k \in 1..m : s[k] = t2[f[k]] BY <1>1, <1>2
  <2> QED BY <1>1, <1>2, <2>1, <2>2 DEF LeavesOut, m
<1>4. LeavesOut(s2, t2)
  <2> DEFINE g == [k \in 1..(m + 1) |-> IF k <= m THEN f[k] ELSE n + 1]
  <2>1. g \in [1..(m + 1) -> 1..(n + 1)]
    <3>1. ASSUME NEW k \in 1..(m + 1) PROVE (IF k <= m THEN f[k] ELSE n + 1) \in 1..(n + 1)
      <4>1. k <= m => k \in 1..m /\ f[k] \in 1..n BY <1>1, <1>2
      <4>2. \A v \in 1..n : v \in 1..(n + 1) BY <1>1
      <4>3. n + 1 \in 1..(n + 1) BY <1>1
      <4> QED BY <4>1, <4>2, <4>3
    <3> QED BY <3>1
  <2>2. ASSUME NEW j \in 1..(m + 1), NEW k \in 1..(m + 1), j < k PROVE g[j] < g[k]
    <3>1. j \in 1..m /\ g[j] = f[j] /\ f[j] \in 1..n BY <1>1, <1>2, <2>2
    <3>2. CASE k <= m
      <4>1. k \in 1..m /\ g[k] = f[k] BY <1>1, <3>2
      <4> QED BY <1>2, <2>2, <3>1, <4>1
    <3>3. CASE ~(k <= m)
      <4>1. g[k] = n + 1 BY <3>3
      <4> QED BY <1>1, <3>1, <4>1
    <3> QED BY <3>2, <3>3
  <2>3. ASSUME NEW k \in 1..(m + 1) PROVE s2[k] = t2[g[k]]
    <3>1. CASE k <= m
      <4>1. k \in 1..m /\ g[k] = f[k] /\ f[k] \in 1..n BY <1>1, <1>2, <3>1
      <4> QED BY <1>1, <1>2, <4>1
    <3>2. CASE ~(k <= m)
      <4>1. k = m + 1 /\ g[k] = n + 1 BY <1>1, <3>2
      <4> QED BY <1>1, <4>1
    <3> QED BY <3>1, <3>2
  <2> HIDE DEF g
  <2> QED BY <1>1, <2>1, <2>2, <2>3 DEF LeavesOut
<1> QED BY <1>3, <1>4 DEF s2, t2

\* A receiver that is on takes the byte if it has room, and one that has none
\* has been sent more than it holds.
LEMMA StillHeard ==
  ASSUME NEW g \in Seq(Bytes), NEW r \in Seq(Bytes), NEW t \in Seq(Bytes), NEW b \in Bytes,
         Heard(g \o r, t),
         NEW r2, r2 = IF Len(r) < FifoSize THEN Append(r, b) ELSE r
  PROVE  Heard(g \o r2, Append(t, b))
<1>1. /\ g \o r \in Seq(Bytes) /\ g \o Append(r, b) = Append(g \o r, b)
      /\ Len(g \o r) = Len(g) + Len(r) /\ Len(Append(t, b)) = Len(t) + 1
      /\ Len(g) \in Nat /\ Len(r) \in Nat /\ Len(t) \in Nat /\ FifoSize \in Nat
  BY OneMoreBehind, ConcatProperties, AppendProperties, LenProperties, ConsoleAssumption
<1>2. /\ LeavesOut(g \o r, Append(t, b)) /\ LeavesOut(Append(g \o r, b), Append(t, b))
  BY <1>1, LeavesOutMore DEF Heard
<1>3. LeavesOut(g \o r2, Append(t, b))
  BY <1>1, <1>2
<1>4. ASSUME Len(Append(t, b)) <= FifoSize PROVE g \o r2 = Append(t, b)
  <2>1. Len(t) < FifoSize /\ Len(t) <= FifoSize
    BY <1>1, <1>4
  <2>2. g \o r = t
    BY <2>1 DEF Heard
  <2>3. Len(t) = Len(g) + Len(r)
    BY <1>1, <2>2
  <2>4. Len(r) < FifoSize
    <3>1. \A a, c, d, f \in Nat : d = a + c /\ d < f => c < f
      OBVIOUS
    <3> QED BY <1>1, <2>1, <2>3, <3>1
  <2> QED BY <1>1, <2>2, <2>4
<1> QED BY <1>3, <1>4 DEF Heard

LEMMA TypedKeeps ==
  ASSUME IInv, Running, Typed
  PROVE  IInv'
<1> USE DEF IInv
<1> UNCHANGED <<enabled, pc, out, sent, got, tx, shift, tty, plugged, read, turn, count, exited>>
  BY DEF Typed, program
<1> DEFINE b == Head(keys)
<1>1. turn \in Pi /\ keys \in Seq(Bytes) /\ keys # <<>> BY DEF TypeOK, Typed
<1>2. b \in Bytes /\ keys' \in Seq(Bytes) BY <1>1, HeadThenTail DEF Typed
<1>3. typed'[turn] = Append(typed[turn], b) BY <1>1 DEF Typed, TypeOK
<1>4. rx'[turn] = IF enabled[turn] /\ Len(rx[turn]) < FifoSize THEN Append(rx[turn], b)
                                                            ELSE rx[turn]
  BY <1>1 DEF Typed, TypeOK
<1>5. /\ Append(rx[turn], b) \in Seq(Bytes) /\ Append(typed[turn], b) \in Seq(Bytes)
      /\ Len(Append(rx[turn], b)) = Len(rx[turn]) + 1
  BY <1>1, <1>2, PiTypes, AppendProperties
<1>6. TypeOK'
  <2>1. typed' \in [Pi -> Seq(Bytes)] BY <1>1, <1>5 DEF TypeOK, Typed
  <2>2. rx' \in [Pi -> Seq(Bytes)] BY <1>1, <1>5 DEF TypeOK, Typed
  <2>3. QED BY <1>2, <2>1, <2>2 DEF TypeOK
<1> HIDE DEF b
<1>7. PiInv(turn)'
  <2>1. PiInv(turn) BY <1>1
  <2>2. Len(rx[turn]) \in Nat /\ FifoSize \in Nat
    BY <1>1, PiTypes, LenProperties, ConsoleAssumption
  <2>3. Len(rx'[turn]) <= FifoSize BY <1>4, <1>5, <2>1, <2>2 DEF PiInv
  <2>4. pc[turn] = "uart_on" => rx'[turn] = <<>> BY <1>4, <2>1 DEF PiInv
  <2>5. ASSUME pc[turn] \in Listening PROVE Heard(got[turn] \o rx'[turn], typed'[turn])
    <3>1. enabled[turn] /\ Heard(got[turn] \o rx[turn], typed[turn])
      BY <2>1, <2>5 DEF PiInv, Listening
    <3>2. rx'[turn] = IF Len(rx[turn]) < FifoSize THEN Append(rx[turn], b) ELSE rx[turn]
      BY <1>4, <3>1
    <3>3. got[turn] \in Seq(Bytes) /\ rx[turn] \in Seq(Bytes) /\ typed[turn] \in Seq(Bytes)
      BY <1>1, PiTypes
    <3> QED BY <1>2, <1>3, <3>1, <3>2, <3>3, StillHeard
  <2> QED BY <2>1, <2>3, <2>4, <2>5 DEF PiInv
<1>8. \A j \in Pi : PiInv(j)'
  <2>1. ASSUME NEW j \in Pi, j # turn PROVE PiInv(j)'
    BY <1>1, <2>1, Untouched DEF Typed, TypeOK
  <2>2. QED BY <1>7, <2>1
<1>9. QED BY <1>6, <1>8 DEF Running

LEMMA TypedToNobodyKeeps ==
  ASSUME IInv, Running, TypedToNobody
  PROVE  IInv'
<1> USE DEF IInv
<1> UNCHANGED <<enabled, pc, out, sent, got, rx, tx, shift, tty, plugged, read, typed, turn, count>>
  BY DEF TypedToNobody, uart, program
<1>1. keys \in Seq(Bytes) /\ keys # <<>> /\ exited' = "died" /\ keys' = Tail(keys)
  BY DEF TypeOK, TypedToNobody
<1>2. keys' \in Seq(Bytes) BY <1>1, HeadThenTail
<1>3. TypeOK' BY <1>2 DEF TypeOK
<1>4. \A j \in Pi : PiInv(j)' BY Untouched
<1>5. QED BY <1>1, <1>3, <1>4 DEF Running

\* Reading cuts a piece off the tty and adds it to what was read.
LEMMA ReadKeeps ==
  ASSUME IInv, NEW i \in Pi, NEW n \in 1..Len(tty[i]),
         UNCHANGED <<enabled, keys, pc, out, sent, got, rx, tx, shift, plugged, typed>>,
         tty' = [tty EXCEPT ![i] = SubSeq(@, n + 1, Len(@))],
         read' = [read EXCEPT ![i] = @ \o SubSeq(tty[i], 1, n)]
  PROVE  /\ tty' \in [Pi -> Seq(Bytes)] /\ read' \in [Pi -> Seq(Bytes)]
         /\ \A j \in Pi : PiInv(j)'
<1> USE DEF IInv
<1> DEFINE buf == SubSeq(tty[i], 1, n)
           rest == SubSeq(tty[i], n + 1, Len(tty[i]))
<1>1. buf \in Seq(Bytes) /\ rest \in Seq(Bytes) /\ buf \o rest = tty[i]
  BY PiTypes, CutAndJoin
<1>2. read[i] \in Seq(Bytes) /\ read[i] \o buf \in Seq(Bytes)
  BY <1>1, PiTypes, NothingMore
<1>3. tty'[i] = rest /\ read'[i] = read[i] \o buf BY DEF TypeOK
<1>4. tty' \in [Pi -> Seq(Bytes)] BY <1>1 DEF TypeOK
<1>5. read' \in [Pi -> Seq(Bytes)] BY <1>2 DEF TypeOK
<1> HIDE DEF buf, rest
<1>6. read'[i] \o tty'[i] = read[i] \o tty[i]
  <2>1. (read[i] \o buf) \o rest = read[i] \o (buf \o rest) BY <1>1, <1>2, Assoc
  <2>2. QED BY <1>1, <1>3, <2>1
<1>7. PiInv(i)' BY <1>6 DEF PiInv
<1>8. ASSUME NEW j \in Pi, j # i PROVE PiInv(j)'
  BY <1>8, Untouched DEF TypeOK
<1>9. QED BY <1>4, <1>5, <1>7, <1>8

LEMMA EchoKeeps ==
  ASSUME IInv, Running, NEW n, Echo(n)
  PROVE  IInv'
<1> USE DEF IInv
<1>1. /\ UNCHANGED <<enabled, keys, pc, out, sent, got, rx, tx, shift, plugged, typed>>
      /\ n \in 1..Len(tty[turn]) /\ NextTurn
      /\ tty' = [tty EXCEPT ![turn] = SubSeq(@, n + 1, Len(@))]
      /\ read' = [read EXCEPT ![turn] = @ \o SubSeq(tty[turn], 1, n)]
  BY DEF Echo, uart, program
<1>2. turn \in Pi BY DEF TypeOK
<1>3. /\ tty' \in [Pi -> Seq(Bytes)] /\ read' \in [Pi -> Seq(Bytes)]
      /\ \A j \in Pi : PiInv(j)'
  BY <1>1, <1>2, ReadKeeps
<1>4. turn' \in Pi BY <1>1, TurnType
<1>5. count' \in 0..NumPis /\ (Running' => count' < NumPis)
  <2>1. count \in 0..NumPis /\ count < NumPis /\ NumPis \in Nat
    BY ConsoleAssumption DEF TypeOK
  <2>2. (count' = count + 1 \/ count' = count)
        /\ exited' = (IF count' = NumPis THEN "clean" ELSE exited)
    BY DEF Echo
  <2>3. QED BY <2>1, <2>2 DEF Running
<1>6. TypeOK' BY <1>1, <1>3, <1>4, <1>5 DEF TypeOK
<1>7. QED BY <1>1, <1>3, <1>5, <1>6

LEMMA CatKeeps ==
  ASSUME IInv, Running, NEW n, Cat(n)
  PROVE  IInv'
<1> USE DEF IInv
<1>1. /\ UNCHANGED <<enabled, keys, pc, out, sent, got, rx, tx, shift, plugged, typed, turn, count>>
      /\ n \in 1..Len(tty[1])
      /\ tty' = [tty EXCEPT ![1] = SubSeq(@, n + 1, Len(@))]
      /\ read' = [read EXCEPT ![1] = @ \o SubSeq(tty[1], 1, n)]
  BY DEF Cat, uart, program
<1>2. 1 \in Pi BY ConsoleAssumption DEF Pi
<1>3. /\ tty' \in [Pi -> Seq(Bytes)] /\ read' \in [Pi -> Seq(Bytes)]
      /\ \A j \in Pi : PiInv(j)'
  BY <1>1, <1>2, ReadKeeps
<1>4. TypeOK' BY <1>1, <1>3 DEF TypeOK
<1>5. QED BY <1>1, <1>3, <1>4 DEF Running

-----------------------------------------------------------------------------
LEMMA StartsRight == Init => IInv
<1> SUFFICES ASSUME Init PROVE IInv
  OBVIOUS
<1>1. NumPis \in Nat \ {0} /\ FifoSize \in Nat /\ Output \in [Pi -> Seq(Bytes)]
      /\ Keys \in Seq(Bytes) /\ Len(<<>>) = 0 /\ <<>> \in Seq(Bytes) /\ <<>> \o <<>> = <<>>
  BY ConsoleAssumption, NothingMore, EmptySeq
<1>2. TypeOK BY <1>1 DEF Init, TypeOK, EachPi, Pi
<1>3. ASSUME NEW i \in Pi PROVE PiInv(i)
  <2>1. /\ tx[i] = <<>> /\ shift[i] = <<>> /\ rx[i] = <<>> /\ sent[i] = <<>> /\ got[i] = <<>>
        /\ tty[i] = <<>> /\ read[i] = <<>> /\ typed[i] = <<>>
        /\ pc[i] \in {"off", "_cstart"} /\ enabled[i]
    BY DEF Init, EachPi
  <2>2. pc[i] \notin Listening BY <2>1 DEF Listening
  <2>3. QED BY <1>1, <2>1, <2>2 DEF PiInv
<1>4. enabled \in [Pi -> BOOLEAN] BY DEF Init, EachPi
<1>5. count = 0 BY DEF Init
<1>6. QED BY <1>1, <1>2, <1>3, <1>4, <1>5 DEF IInv

LEMMA StepKeeps == IInv /\ [Next]_vars => IInv'
<1> SUFFICES ASSUME IInv, [Next]_vars PROVE IInv'
  OBVIOUS
<1>1. CASE Next
  <2>1. Running BY <1>1 DEF Next
  <2>2. ASSUME NEW i \in Pi, Program(i) PROVE IInv'
    BY <2>1, <2>2, ResetsKeep, PutKeeps, GetKeeps, EndKeeps DEF Program
  <2>3. ASSUME NEW i \in Pi, Line(i) PROVE IInv'
    BY <2>1, <2>3, ShiftKeeps, TransmitKeeps DEF Line
  <2>4. ASSUME Reader PROVE IInv'
    BY <2>1, <2>4, IdleKeeps, EchoKeeps, CatKeeps DEF Reader
  <2>5. QED BY <1>1, <2>1, <2>2, <2>3, <2>4, UnplugKeeps, TypedKeeps,
                 TypedToNobodyKeeps DEF Next
<1>2. CASE UNCHANGED vars
  <2>1. UNCHANGED <<enabled, keys, pc, out, sent, got, rx, tx, shift, tty, plugged, read, typed,
                    turn, count, exited>>
    BY <1>2 DEF vars, uart, program, host, laptop
  <2>2. \A j \in Pi : PiInv(j)' BY <2>1, Untouched DEF IInv
  <2>3. TypeOK' BY <2>1 DEF IInv, TypeOK
  <2>4. QED BY <2>1, <2>2, <2>3 DEF IInv, Running
<1>3. QED BY <1>1, <1>2

\* The order of the bytes survives every interleaving of programs, UARTs,
\* resets, keys, reads and pulled plugs (uart.c:222-303, pi-echo.c:58-120).
THEOREM BytesIntactCorrect == Spec => []BytesIntact
<1>1. IInv => BytesIntact
  BY DEF IInv, PiInv, BytesIntact, OutputOrder, InputIntact, Listening, Heard
<1>2. QED BY StartsRight, StepKeeps, <1>1, PTL DEF Spec

-----------------------------------------------------------------------------
(* pi_done.                                                                *)

\* Induction, stated of a set of numbers.
LEMMA Counting ==
  ASSUME NEW B \in SUBSET Nat, 0 \in B, \A k \in B : k + 1 \in B
  PROVE  B = Nat
<1>1. SUFFICES ASSUME B # Nat PROVE FALSE
  OBVIOUS
<1> DEFINE All == {0..m : m \in Nat \ B}
<1>2. All \subseteq FiniteSubsetsOf(Nat) /\ All # {}
  <2>1. ASSUME NEW m \in Nat PROVE 0..m \in FiniteSubsetsOf(Nat)
    BY FS_Interval DEF FiniteSubsetsOf
  <2> QED BY <1>1, <2>1
<1>3. IsWellFoundedOn(StrictSubsetOrdering(Nat), FiniteSubsetsOf(Nat))
  BY FS_StrictSubsetOrderingWellFounded
<1> HIDE DEF All
<1>4. PICK least \in All : \A other \in All : ~(<<other, least>> \in StrictSubsetOrdering(Nat))
  BY <1>2, <1>3, WFMin
<1>5. PICK m \in Nat \ B : least = 0..m
  BY <1>4 DEF All
<1>6. m - 1 \in Nat \ B
  <2>1. m # 0 /\ m - 1 \in Nat /\ (m - 1) + 1 = m
    BY <1>5
  <2> QED BY <1>5, <2>1
<1>7. 0..(m - 1) \in All
  BY <1>6 DEF All
<1>8. <<0..(m - 1), 0..m>> \in StrictSubsetOrdering(Nat)
  <2>1. 0..(m - 1) \in SUBSET Nat /\ 0..m \in SUBSET Nat /\ 0..(m - 1) \subseteq 0..m
    BY <1>5, <1>6
  <2>2. m \in 0..m /\ m \notin 0..(m - 1)
    BY <1>5, <1>6
  <2> QED BY <2>1, <2>2 DEF StrictSubsetOrdering
<1> QED BY <1>4, <1>5, <1>7, <1>8

\* pi_done's state after each of the bytes of a buffer.
Scans(from, buf, scan) ==
    /\ DOMAIN scan = 0..Len(buf) /\ scan[0] = [pos |-> from, over |-> FALSE]
    /\ \A k \in 1..Len(buf) : scan[k] = Compare(scan[k - 1], buf[k])

LEMMA ScanExists ==
  ASSUME NEW from, NEW buf, Len(buf) \in Nat
  PROVE  \E scan : Scans(from, buf, scan) /\ Scan(from, buf) = scan[Len(buf)].pos
<1> DEFINE Step(scan, k) == IF k = 0 THEN [pos |-> from, over |-> FALSE]
                                     ELSE Compare(scan[k - 1], buf[k])
           B == {m \in Nat : \E scan : scan = [k \in 0..m |-> Step(scan, k)]}
<1>1. 0 \in B
  <2>1. [k \in 0..0 |-> [pos |-> from, over |-> FALSE]]
          = [k \in 0..0 |-> Step([j \in 0..0 |-> [pos |-> from, over |-> FALSE]], k)]
    OBVIOUS
  <2> QED BY <2>1
<1>2. ASSUME NEW m \in B PROVE m + 1 \in B
  <2>1. m \in Nat
    BY <1>2
  <2>2. PICK scan : scan = [k \in 0..m |-> Step(scan, k)]
    BY <1>2
  <2> HIDE DEF Step
  <2> DEFINE longer == [k \in 0..(m + 1) |-> IF k <= m THEN scan[k] ELSE Step(scan, k)]
  <2>3. ASSUME NEW k \in 0..(m + 1) PROVE longer[k] = Step(longer, k)
    <3>1. k # 0 => k - 1 \in 0..m /\ longer[k - 1] = scan[k - 1]
      BY <2>1
    <3>2. Step(longer, k) = Step(scan, k)
      BY <3>1 DEF Step
    <3>3. k <= m => scan[k] = Step(scan, k)
      BY <2>1, <2>2
    <3> QED BY <3>2, <3>3
  <2>4. longer = [k \in 0..(m + 1) |-> Step(longer, k)]
    <3>1. longer = [k \in 0..(m + 1) |-> longer[k]]
      OBVIOUS
    <3> HIDE DEF longer
    <3> QED BY <2>3, <3>1
  <2> QED BY <2>1, <2>4
<1>3. Len(buf) \in B
  <2> HIDE DEF B
  <2>1. B \in SUBSET Nat
    BY DEF B
  <2>2. B = Nat
    BY <1>1, <1>2, <2>1, Counting
  <2> QED BY <2>2
<1> DEFINE T(scan) == scan = [k \in 0..Len(buf) |-> Step(scan, k)]
           it == CHOOSE scan : T(scan)
<1>4. \E scan : T(scan)
  BY <1>3
<1>5. T(it)
  <2> HIDE DEF T
  <2> QED BY <1>4
<1>6. Scan(from, buf) = it[Len(buf)].pos
  BY DEF Scan
<1>7. Scans(from, buf, it)
  <2> HIDE DEF it
  <2>1. DOMAIN it = 0..Len(buf) /\ \A k \in 0..Len(buf) : it[k] = Step(it, k)
    BY <1>5
  <2>2. it[0] = [pos |-> from, over |-> FALSE]
    BY <2>1
  <2>3. \A k \in 1..Len(buf) : it[k] = Compare(it[k - 1], buf[k])
    BY <2>1
  <2> QED BY <2>1, <2>2, <2>3 DEF Scans
<1> QED BY <1>6, <1>7

\* The exit string is at the m-th byte and the two after it.
ExitAt(all, m) == m + 2 <= Len(all) /\ all[m] = "D" /\ all[m + 1] = "!" /\ all[m + 2] = "n"

\* The last p bytes begin the exit string.
Begun(all, e, p) ==
    /\ p \in 0..2 /\ p <= e
    /\ p = 1 => all[e] = "D"
    /\ p = 2 => all[e - 1] = "D" /\ all[e] = "!"

\* Where pi_done stands after the bytes up to the e-th.
ScanInv(all, e, s) ==
    /\ s \in [pos : 0..3, over : BOOLEAN]
    /\ ~s.over => Begun(all, e, s.pos)
    /\ s.over /\ s.pos = 3 => \E m \in 1..e : m + 2 <= e /\ ExitAt(all, m)

LEMMA ExitBytes ==
  /\ Len(ExitString) = 3 /\ ExitString[1] = "D" /\ ExitString[2] = "!" /\ ExitString[3] = "n"
  /\ \A b : b = "D" \/ b = "!" \/ b = "n" => b # Nul
BY DEF ExitString, Nul

LEMMA CompareKeeps ==
  ASSUME NEW all, Len(all) \in Nat, NEW e \in Nat, e + 1 <= Len(all), NEW s, ScanInv(all, e, s),
         NEW b, \A x \in {"D", "!", "n"} : b = x => all[e + 1] = x
  PROVE  /\ ScanInv(all, e + 1, Compare(s, b))
         /\ (s.over => s.pos = 3) /\ b # Nul => (Compare(s, b).over => Compare(s, b).pos = 3)
<1> DEFINE t == Compare(s, b)
<1>1. s \in [pos : 0..3, over : BOOLEAN]
  BY DEF ScanInv
<1>2. CASE s.over
  <2>1. t = s
    BY <1>2 DEF Compare
  <2>2. ASSUME s.pos = 3 PROVE \E m \in 1..(e + 1) : m + 2 <= e + 1 /\ ExitAt(all, m)
    <3>1. PICK m \in 1..e : m + 2 <= e /\ ExitAt(all, m)
      BY <1>2, <2>2 DEF ScanInv
    <3> QED BY <3>1
  <2> QED BY <1>1, <1>2, <2>1, <2>2 DEF ScanInv
<1>3. CASE ~s.over /\ b = Nul
  <2>1. t = [s EXCEPT !.over = TRUE]
    BY <1>3 DEF Compare
  <2>2. t.pos = s.pos /\ t.over /\ t \in [pos : 0..3, over : BOOLEAN]
    BY <1>1, <2>1
  <2>3. s.pos # 3
    BY <1>3 DEF ScanInv, Begun
  <2> QED BY <1>3, <2>2, <2>3 DEF ScanInv
<1>4. CASE ~s.over /\ b # Nul /\ b = ExitString[s.pos + 1]
  <2>1. t = [pos |-> s.pos + 1, over |-> s.pos + 1 = 3]
    BY <1>4, ExitBytes DEF Compare
  <2>2. Begun(all, e, s.pos)
    BY <1>4 DEF ScanInv
  <2>3. s.pos \in 0..2
    BY <2>2 DEF Begun
  <2>4. t \in [pos : 0..3, over : BOOLEAN] /\ t.pos = s.pos + 1 /\ (t.over <=> s.pos = 2)
    <3>1. s.pos + 1 \in 0..3 /\ (s.pos + 1 = 3 <=> s.pos = 2)
      BY <2>3
    <3>2. \A p, o : p \in 0..3 /\ o \in BOOLEAN
                    => [pos |-> p, over |-> o] \in [pos : 0..3, over : BOOLEAN]
      OBVIOUS
    <3>3. (s.pos + 1 = 3) \in BOOLEAN
      OBVIOUS
    <3>4. t \in [pos : 0..3, over : BOOLEAN]
      BY <2>1, <3>1, <3>2, <3>3, Zenon
    <3>5. t.pos = s.pos + 1 /\ t.over = (s.pos + 1 = 3)
      <4>1. \A p, o : [pos |-> p, over |-> o].pos = p /\ [pos |-> p, over |-> o].over = o
        OBVIOUS
      <4>2. /\ [pos |-> s.pos + 1, over |-> s.pos + 1 = 3].pos = s.pos + 1
            /\ [pos |-> s.pos + 1, over |-> s.pos + 1 = 3].over = (s.pos + 1 = 3)
        BY <4>1, Zenon
      <4> HIDE DEF t
      <4> QED BY <2>1, <4>2, Zenon
    <3> QED BY <3>1, <3>4, <3>5
  <2>5. CASE s.pos = 0
    <3>1. all[e + 1] = "D"
      BY <1>4, <2>5, ExitBytes
    <3>2. Begun(all, e + 1, 1)
      BY <3>1 DEF Begun
    <3> QED BY <2>4, <2>5, <3>2 DEF ScanInv
  <2>6. CASE s.pos = 1
    <3>1. all[e + 1] = "!" /\ all[e] = "D" /\ 1 <= e
      BY <1>4, <2>2, <2>6, ExitBytes DEF Begun
    <3>2. Begun(all, e + 1, 2)
      BY <3>1 DEF Begun
    <3> QED BY <2>4, <2>6, <3>2 DEF ScanInv
  <2>7. CASE s.pos = 2
    <3>1. all[e + 1] = "n" /\ all[e] = "!" /\ all[e - 1] = "D" /\ 2 <= e
      BY <1>4, <2>2, <2>7, ExitBytes DEF Begun
    <3>2. e - 1 \in 1..(e + 1) /\ (e - 1) + 2 <= e + 1 /\ ExitAt(all, e - 1)
      BY <3>1 DEF ExitAt
    <3> QED BY <2>4, <2>7, <3>2 DEF ScanInv
  <2> QED BY <2>3, <2>5, <2>6, <2>7
<1>5. CASE ~s.over /\ b # Nul /\ b # ExitString[s.pos + 1]
  <2>1. t = [s EXCEPT !.pos = 0]
    BY <1>5 DEF Compare
  <2>2. t.pos = 0 /\ ~t.over /\ t \in [pos : 0..3, over : BOOLEAN]
    BY <1>1, <1>5, <2>1
  <2>3. Begun(all, e + 1, 0)
    BY DEF Begun
  <2> QED BY <2>2, <2>3 DEF ScanInv
<1> QED BY <1>1, <1>2, <1>3, <1>4, <1>5

\* pi_done counts the bytes of the exit string with which what was read ends,
\* and finds it only where it is.
LEMMA ScanFinds ==
  ASSUME NEW r \in Seq(Bytes), NEW buf \in Seq(Bytes), NEW shown, Len(shown) = Len(buf),
         \A k \in 1..Len(buf) : \A x \in {"D", "!", "n"} : shown[k] = x => buf[k] = x,
         NEW from, Begun(r, Len(r), from)
  PROVE  /\ pi_done(from, shown) => \E m \in 1..Len(r \o buf) : ExitAt(r \o buf, m)
         /\ (\A k \in 1..Len(buf) : shown[k] # Nul) /\ ~pi_done(from, shown)
              => Begun(r \o buf, Len(r \o buf), Scan(from, shown))
<1> DEFINE all == r \o buf
           a == Len(r)
           L == Len(buf)
<1>1. /\ a \in Nat /\ L \in Nat /\ Len(all) = a + L
      /\ \A k \in 1..a : all[k] = r[k]
      /\ \A k \in 1..L : all[a + k] = buf[k]
  <2>1. a \in Nat /\ L \in Nat /\ Len(all) = a + L
        /\ \A k \in 1..(a + L) : all[k] = IF k <= a THEN r[k] ELSE buf[k - a]
    BY ConcatProperties, LenProperties
  <2>2. ASSUME NEW k \in 1..L PROVE all[a + k] = buf[k]
    <3>1. a + k \in 1..(a + L) /\ ~(a + k <= a) /\ (a + k) - a = k
      BY <2>1
    <3> QED BY <2>1, <3>1
  <2> QED BY <2>1, <2>2
<1>2. PICK scan : Scans(from, shown, scan) /\ Scan(from, shown) = scan[L].pos
  BY <1>1, ScanExists
<1> HIDE DEF all, a, L
<1> DEFINE NoNul == \A k \in 1..L : shown[k] # Nul
           Holds(k) == /\ ScanInv(all, a + k, scan[k])
                       /\ NoNul => (scan[k].over => scan[k].pos = 3)
           B == {k \in Nat : k <= L => Holds(k)}
<1>3. Holds(0)
  <2>1. scan[0] = [pos |-> from, over |-> FALSE]
    BY <1>2 DEF Scans
  <2>2. from \in 0..2 /\ from <= a
    BY DEF Begun, a
  <2>3. Begun(all, a, from)
    BY <1>1, <2>2 DEF Begun, a
  <2> QED BY <1>1, <2>1, <2>2, <2>3 DEF ScanInv
<1>4. ASSUME NEW k \in B PROVE k + 1 \in B
  <2>1. SUFFICES ASSUME k + 1 <= L PROVE Holds(k + 1)
    BY <1>4
  <2>2. k \in Nat /\ k <= L /\ k + 1 \in 1..L /\ Holds(k)
    BY <1>1, <1>4, <2>1
  <2>3. scan[k + 1] = Compare(scan[k], shown[k + 1])
    <3>1. \A j \in 1..L : scan[j] = Compare(scan[j - 1], shown[j])
      BY <1>2 DEF Scans, L
    <3>2. (k + 1) - 1 = k
      BY <2>2
    <3> QED BY <2>2, <3>1, <3>2
  <2>4. \A x \in {"D", "!", "n"} : shown[k + 1] = x => all[a + (k + 1)] = x
    BY <1>1, <2>2 DEF L
  <2>5. a + k \in Nat /\ (a + k) + 1 <= Len(all) /\ (a + k) + 1 = a + (k + 1) /\ Len(all) \in Nat
    BY <1>1, <2>2
  <2>6. /\ ScanInv(all, a + (k + 1), Compare(scan[k], shown[k + 1]))
        /\ (scan[k].over => scan[k].pos = 3) /\ shown[k + 1] # Nul
             => (Compare(scan[k], shown[k + 1]).over => Compare(scan[k], shown[k + 1]).pos = 3)
    <3>1. \A x \in {"D", "!", "n"} : shown[k + 1] = x => all[(a + k) + 1] = x
      BY <2>4, <2>5
    <3>2. ScanInv(all, a + k, scan[k])
      BY <2>2
    <3>3. /\ ScanInv(all, (a + k) + 1, Compare(scan[k], shown[k + 1]))
          /\ (scan[k].over => scan[k].pos = 3) /\ shown[k + 1] # Nul
               => (Compare(scan[k], shown[k + 1]).over => Compare(scan[k], shown[k + 1]).pos = 3)
      BY <2>5, <3>1, <3>2, CompareKeeps
    <3> QED BY <2>5, <3>3
  <2> QED BY <2>2, <2>3, <2>6
<1>5. Holds(L)
  <2>1. B \in SUBSET Nat /\ 0 \in B
    BY <1>3
  <2> HIDE DEF B
  <2>2. B = Nat
    BY <1>4, <2>1, Counting
  <2> QED BY <1>1, <2>2 DEF B
<1>6. pi_done(from, shown) <=> scan[L].pos = 3
  BY <1>2, ExitBytes DEF pi_done
<1>7. ASSUME scan[L].pos = 3 PROVE \E m \in 1..Len(all) : ExitAt(all, m)
  <2>1. scan[L].over
    BY <1>5, <1>7 DEF ScanInv, Begun
  <2> QED BY <1>1, <1>5, <1>7, <2>1 DEF ScanInv
<1>8. ASSUME NoNul, scan[L].pos # 3 PROVE Begun(all, Len(all), scan[L].pos)
  BY <1>1, <1>5, <1>8 DEF ScanInv
<1> QED BY <1>2, <1>6, <1>7, <1>8 DEF all, L

-----------------------------------------------------------------------------
(* What a Pi says, and where its exit string is.                           *)

\* All a Pi ever says.
Full(i) == Append(Whole(i), "boot")

LEMMA WholeType ==
  ASSUME NEW i \in Pi
  PROVE  /\ Output[i] \in Seq(Bytes) /\ Len(Output[i]) \in Nat
         /\ Whole(i) \in Seq(Bytes) /\ Len(Whole(i)) = Len(Output[i]) + 3
         /\ Full(i) \in Seq(Bytes) /\ Len(Full(i)) = Len(Output[i]) + 4
         /\ Full(i) = Whole(i) \o <<"boot">>
         /\ \A k \in 1..3 : Whole(i)[Len(Output[i]) + k] = ExitString[k]
         /\ \A k \in 1..(Len(Output[i]) + 3) : Full(i)[k] = Whole(i)[k]
<1>1. Output[i] \in Seq(Bytes) /\ ExitString \in Seq(Bytes) /\ "boot" \in Bytes
  BY ConsoleAssumption, ExitStringType DEF Bytes
<1>2. Len(Output[i]) \in Nat /\ Len(ExitString) = 3
  BY <1>1, LenProperties, ExitBytes
<1>3. /\ Whole(i) \in Seq(Bytes) /\ Len(Whole(i)) = Len(Output[i]) + 3
      /\ \A k \in 1..(Len(Output[i]) + 3) :
            Whole(i)[k] = IF k <= Len(Output[i]) THEN Output[i][k]
                                                 ELSE ExitString[k - Len(Output[i])]
  <2>1. /\ Output[i] \o ExitString \in Seq(Bytes)
        /\ Len(Output[i] \o ExitString) = Len(Output[i]) + Len(ExitString)
        /\ \A k \in 1..(Len(Output[i]) + Len(ExitString)) :
              (Output[i] \o ExitString)[k] = IF k <= Len(Output[i]) THEN Output[i][k]
                                                 ELSE ExitString[k - Len(Output[i])]
    BY <1>1, ConcatProperties
  <2> HIDE DEF ExitString
  <2> QED BY <1>2, <2>1 DEF Whole
<1>4. ASSUME NEW k \in 1..3 PROVE Whole(i)[Len(Output[i]) + k] = ExitString[k]
  <2>1. /\ Len(Output[i]) + k \in 1..(Len(Output[i]) + 3) /\ ~(Len(Output[i]) + k <= Len(Output[i]))
        /\ (Len(Output[i]) + k) - Len(Output[i]) = k
    BY <1>2
  <2> QED BY <1>3, <2>1
<1>5. /\ Full(i) \in Seq(Bytes) /\ Len(Full(i)) = Len(Whole(i)) + 1
      /\ Full(i) = Whole(i) \o <<"boot">>
      /\ \A k \in 1..Len(Whole(i)) : Full(i)[k] = Whole(i)[k]
  BY <1>1, <1>3, AppendProperties, AppendIsConcat DEF Full
<1>6. Len(Full(i)) = Len(Output[i]) + 4
  BY <1>2, <1>3, <1>5
<1> QED BY <1>1, <1>2, <1>3, <1>4, <1>5, <1>6

\* Three bytes that read like the exit string.
LEMMA LooksLikeIt ==
  ASSUME NEW w \in Seq(Bytes), NEW m \in 1..Len(w), m + 2 <= Len(w),
         w[m] = "D", w[m + 1] = "!", w[m + 2] = "n"
  PROVE  SubSeq(w, m, m + 2) = ExitString
<1>1. Len(w) \in Nat /\ m \in Int /\ m + 2 \in Int
  BY LenProperties
<1>2. \A k \in m..(m + 2) : w[k] \in Bytes
  BY <1>1, ElementOfSeq
<1>3. /\ SubSeq(w, m, m + 2) \in Seq(Bytes)
      /\ Len(SubSeq(w, m, m + 2)) = IF m <= m + 2 THEN (m + 2) - m + 1 ELSE 0
      /\ \A k \in 1..((m + 2) - m + 1) : SubSeq(w, m, m + 2)[k] = w[m + k - 1]
  BY <1>1, <1>2, SubSeqProperties
<1>4. (m + 2) - m + 1 = 3 /\ m <= m + 2 /\ m + 1 - 1 = m /\ m + 2 - 1 = m + 1 /\ m + 3 - 1 = m + 2
  BY <1>1
<1>5. \A k \in 1..3 : SubSeq(w, m, m + 2)[k] = ExitString[k]
  <2>1. \A k \in 1..3 : k = 1 \/ k = 2 \/ k = 3
    OBVIOUS
  <2>2. 1 \in 1..3 /\ 2 \in 1..3 /\ 3 \in 1..3
    OBVIOUS
  <2>3. /\ SubSeq(w, m, m + 2)[1] = "D" /\ SubSeq(w, m, m + 2)[2] = "!"
        /\ SubSeq(w, m, m + 2)[3] = "n"
    BY <1>3, <1>4, <2>2
  <2> QED BY <2>1, <2>3, ExitBytes
<1>6. Len(SubSeq(w, m, m + 2)) = Len(ExitString) /\ Len(ExitString) = 3
  BY <1>3, <1>4, ExitBytes
<1>7. \A k \in 1..Len(SubSeq(w, m, m + 2)) : SubSeq(w, m, m + 2)[k] = ExitString[k]
  BY <1>5, <1>6
<1> HIDE DEF ExitString
<1> QED BY <1>3, <1>6, <1>7, ExitStringType, SeqEqual

\* An exit string in what was read is the one at the end.
LEMMA FoundIsTheEnd ==
  ASSUME Unambiguous, NEW i \in Pi, NEW all \in Seq(Bytes), NEW rest \in Seq(Bytes),
         all \o rest = Full(i), NEW m \in 1..Len(all), ExitAt(all, m)
  PROVE  \E n \in 0..Len(all) : SubSeq(all, 1, n) = Whole(i)
<1> DEFINE L == Len(Output[i])
<1>1. /\ Len(all) \in Nat /\ Len(all) <= L + 4 /\ L \in Nat
      /\ \A k \in 1..Len(all) : all[k] = Full(i)[k]
  <2>1. /\ Len(all) \in Nat /\ Len(rest) \in Nat /\ Len(Full(i)) = Len(all) + Len(rest)
        /\ \A k \in 1..(Len(all) + Len(rest)) :
              Full(i)[k] = IF k <= Len(all) THEN all[k] ELSE rest[k - Len(all)]
    BY LenProperties, ConcatProperties
  <2> QED BY <2>1, WholeType
<1>2. /\ Whole(i) \in Seq(Bytes) /\ Len(Whole(i)) = L + 3
      /\ Whole(i)[L + 2] = "!" /\ \A k \in 1..(L + 3) : Full(i)[k] = Whole(i)[k]
  <2>1. \A k \in 1..3 : Whole(i)[L + k] = ExitString[k]
    BY WholeType
  <2>2. Whole(i)[L + 2] = "!"
    BY <2>1, ExitBytes
  <2> QED BY <2>2, WholeType
<1>3. m + 2 <= Len(all) /\ all[m] = "D" /\ all[m + 1] = "!" /\ all[m + 2] = "n"
  BY DEF ExitAt
<1> HIDE DEF L
<1>4. m \in Nat /\ m + 2 <= L + 4 /\ m >= 1
  BY <1>1, <1>3
<1>5. m > L
  <2>1. SUFFICES ASSUME m <= L PROVE FALSE
    BY <1>1, <1>4
  <2>2. m \in 1..L /\ m \in 1..(L + 3) /\ m + 1 \in 1..(L + 3) /\ m + 2 \in 1..(L + 3)
        /\ m + 1 \in 1..Len(all) /\ m + 2 \in 1..Len(all)
    BY <1>1, <1>3, <1>4, <2>1
  <2>3. Whole(i)[m] = "D" /\ Whole(i)[m + 1] = "!" /\ Whole(i)[m + 2] = "n"
    BY <1>1, <1>2, <1>3, <2>2
  <2>4. m \in 1..Len(Whole(i)) /\ m + 2 <= Len(Whole(i))
    BY <1>1, <1>2, <2>2
  <2>5. SubSeq(Whole(i), m, m + 2) = ExitString
    BY <1>2, <2>3, <2>4, LooksLikeIt
  <2> QED BY <2>2, <2>5 DEF Unambiguous, Whole, L
<1>6. m = L + 1
  <2>1. m = L + 1 \/ m = L + 2
    BY <1>1, <1>4, <1>5
  <2>2. ASSUME m = L + 2 PROVE FALSE
    <3>1. m \in 1..(L + 3) /\ all[m] = Whole(i)[m]
      BY <1>1, <1>2, <2>2
    <3> QED BY <1>2, <1>3, <2>2, <3>1
  <2> QED BY <2>1, <2>2
<1>7. L + 3 \in 0..Len(all) /\ L + 3 \in Nat
  BY <1>1, <1>3, <1>6
<1>8. \A k \in 1..(L + 3) : all[k] \in Bytes /\ all[k] = Whole(i)[k]
  <2>1. \A k \in 1..(L + 3) : k \in 1..Len(all)
    BY <1>1, <1>7
  <2> QED BY <1>1, <1>2, <2>1, ElementOfSeq
<1>9. SubSeq(all, 1, L + 3) = Whole(i)
  <2>1. /\ SubSeq(all, 1, L + 3) \in Seq(Bytes)
        /\ Len(SubSeq(all, 1, L + 3)) = IF 1 <= L + 3 THEN (L + 3) - 1 + 1 ELSE 0
        /\ \A k \in 1..((L + 3) - 1 + 1) : SubSeq(all, 1, L + 3)[k] = all[1 + k - 1]
    BY <1>7, <1>8, SubSeqProperties
  <2>2. /\ Len(SubSeq(all, 1, L + 3)) = L + 3
        /\ \A k \in 1..(L + 3) : SubSeq(all, 1, L + 3)[k] = all[k]
    BY <1>1, <2>1
  <2> QED BY <1>2, <1>8, <2>1, <2>2, SeqEqual
<1> QED BY <1>7, <1>9

\* z is how w begins.
Begins(z, w) == \E rest \in Seq(Bytes) : z \o rest = w

LEMMA BeginsMore ==
  ASSUME NEW z \in Seq(Bytes), NEW w, Begins(z, w), NEW c \in Seq(Bytes)
  PROVE  Begins(z, w \o c)
<1>1. PICK rest \in Seq(Bytes) : z \o rest = w
  BY DEF Begins
<1>2. (z \o rest) \o c = z \o (rest \o c)
  BY Assoc
<1>3. rest \o c \in Seq(Bytes)
  BY ConcatProperties
<1> QED BY <1>1, <1>2, <1>3 DEF Begins

LEMMA BeginsLess ==
  ASSUME NEW r \in Seq(Bytes), NEW b \in Seq(Bytes), NEW c \in Seq(Bytes), NEW t, t = b \o c,
         NEW w, Begins(r \o t, w)
  PROVE  Begins(r \o b, w)
<1>1. (r \o b) \o c = r \o t /\ r \o b \in Seq(Bytes)
  BY Assoc, ConcatProperties
<1>2. PICK rest \in Seq(Bytes) : (r \o t) \o rest = w
  BY DEF Begins
<1>3. \A a \in Seq(Bytes) : (a \o c) \o rest = a \o (c \o rest)
  BY <1>2, Assoc
<1>4. c \o rest \in Seq(Bytes)
  BY <1>2, ConcatProperties
<1>5. (r \o b) \o (c \o rest) = w
  BY <1>1, <1>2, <1>3, Zenon
<1> QED BY <1>4, <1>5 DEF Begins

\* What a Pi has still to say.
LEMMA SaysTheRest ==
  ASSUME NEW i \in Pi, Said(i)
  PROVE  \E q \in Seq(Bytes) : (sent[i] \o out[i]) \o q = Full(i)
<1>1. /\ Full(i) = Whole(i) \o <<"boot">> /\ Output[i] \in Seq(Bytes) /\ Full(i) \in Seq(Bytes)
      /\ <<"boot">> \in Seq(Bytes) /\ ExitString \in Seq(Bytes) /\ <<>> \in Seq(Bytes)
  BY WholeType, ExitStringType, NothingMore
<1>2. CASE pc[i] \in {"clean_reboot", "rpi_reboot"}
  <2>1. sent[i] \o out[i] = Whole(i)
    BY <1>2 DEF Said
  <2> QED BY <1>1, <2>1
<1>3. CASE pc[i] = "bootloader"
  <2>1. sent[i] \o out[i] = Full(i)
    BY <1>3 DEF Said, Full
  <2>2. Full(i) \o <<>> = Full(i)
    BY <1>1, ConcatEmptySeq
  <2> QED BY <1>1, <2>1, <2>2
<1>4. CASE pc[i] \notin {"clean_reboot", "rpi_reboot", "bootloader"}
  <2>1. sent[i] \o out[i] = Output[i]
    BY <1>4 DEF Said
  <2>2. (Output[i] \o ExitString) \o <<"boot">> = Output[i] \o (ExitString \o <<"boot">>)
    <3> HIDE DEF ExitString
    <3>1. PICK o \in Seq(Bytes) : o = Output[i]
      BY <1>1
    <3>2. PICK e \in Seq(Bytes) : e = ExitString
      BY <1>1
    <3>3. PICK b \in Seq(Bytes) : b = <<"boot">>
      BY <1>1
    <3>4. (o \o e) \o b = o \o (e \o b)
      BY Assoc
    <3> QED BY <3>1, <3>2, <3>3, <3>4, Zenon
  <2>3. ExitString \o <<"boot">> \in Seq(Bytes)
    BY <1>1, ConcatProperties
  <2>4. Output[i] \o (ExitString \o <<"boot">>) = Full(i)
    BY <1>1, <2>2 DEF Whole
  <2> QED BY <2>1, <2>3, <2>4
<1> QED BY <1>2, <1>3, <1>4

\* What was read and what waits to be read is how all a Pi says begins.
LEMMA ReadIsPrefix ==
  ASSUME TypeOK, NEW i \in Pi, PiInv(i), Said(i), plugged[i]
  PROVE  Begins(read[i] \o tty[i], Full(i))
<1> DEFINE z == read[i] \o tty[i]
<1>1. /\ z \in Seq(Bytes) /\ shift[i] \in Seq(Bytes) /\ tx[i] \in Seq(Bytes)
      /\ out[i] \in Seq(Bytes)
  BY PiTypes
<1>2. (z \o shift[i]) \o tx[i] = sent[i]
  BY DEF PiInv
<1>3. PICK q \in Seq(Bytes) : (sent[i] \o out[i]) \o q = Full(i)
  BY SaysTheRest
<1> HIDE DEF z
<1>4. Begins(z, z \o shift[i])
  BY <1>1 DEF Begins
<1>5. Begins(z, (z \o shift[i]) \o tx[i])
  BY <1>1, <1>4, BeginsMore
<1>6. Begins(z, sent[i] \o out[i])
  BY <1>1, <1>2, <1>5, BeginsMore
<1>7. Begins(z, (sent[i] \o out[i]) \o q)
  BY <1>1, <1>6, BeginsMore
<1> QED BY <1>3, <1>7 DEF z

-----------------------------------------------------------------------------
(* The invariant of CleanExit.                                             *)

\* A Pi that has been read to its end stays so.
LEMMA FinishedStays ==
  ASSUME NEW i \in Pi, NEW r \in Seq(Bytes), NEW buf \in Seq(Bytes), NEW n \in 0..Len(r),
         SubSeq(r, 1, n) = Whole(i)
  PROVE  n \in 0..Len(r \o buf) /\ SubSeq(r \o buf, 1, n) = Whole(i)
<1>1. Len(r) \in Nat /\ Len(buf) \in Nat /\ Len(r \o buf) = Len(r) + Len(buf)
  BY LenProperties, ConcatProperties
<1>2. n # 0
  <2>1. SUFFICES ASSUME n = 0 PROVE FALSE
    OBVIOUS
  <2>2. SubSeq(r, 1, 0) = <<>>
    BY SubSeqEmpty
  <2>3. Len(Whole(i)) = 0
    BY <2>1, <2>2, EmptySeq
  <2> QED BY <2>3, WholeType
<1>3. n \in 1..Len(r) /\ 1 \in 1..Len(r) /\ n \in 0..Len(r \o buf)
  BY <1>1, <1>2
<1>4. SubSeq(r \o buf, 1, n) = SubSeq(r, 1, n)
  BY <1>3, SubSeqOfConcat1
<1> QED BY <1>3, <1>4

LEMMA ShownKeeps ==
  ASSUME NEW i, NEW buf \in Seq(Bytes)
  PROVE  /\ Len(Shown(i, buf)) = Len(buf)
         /\ \A k \in 1..Len(buf) : \A x \in {"D", "!", "n"} :
               Shown(i, buf)[k] = x => buf[k] = x
         /\ tool = "pi_cat" => \A k \in 1..Len(buf) : Shown(i, buf)[k] # Nul
<1>1. CASE ForImage(i)
  BY <1>1 DEF Shown, ForImage
<1>2. CASE ~ForImage(i)
  <2>1. Shown(i, buf) = remove_nonprint(buf)
    BY <1>2 DEF Shown
  <2>2. Len(buf) \in Nat /\ DOMAIN buf = 1..Len(buf)
    BY LenProperties
  <2>3. remove_nonprint(buf) = [k \in 1..Len(buf) |-> IF buf[k] = Nul THEN "p" ELSE buf[k]]
    BY <2>2 DEF remove_nonprint
  <2>4. Len(remove_nonprint(buf)) = Len(buf)
    BY <2>2, <2>3
  <2>5. \A k \in 1..Len(buf) :
           remove_nonprint(buf)[k] = IF buf[k] = Nul THEN "p" ELSE buf[k]
    BY <2>3
  <2>6. "p" \notin {"D", "!", "n"} /\ "p" # Nul
    BY DEF Nul
  <2> QED BY <2>1, <2>4, <2>5, <2>6
<1> QED BY <1>1, <1>2

LEMMA BegunIs ==
  ASSUME NEW r \in Seq(Bytes), NEW p
  PROVE  Begun(r, Len(r), p) <=>
           p \in 0..2 /\ p <= Len(r) /\ \A j \in 1..p : r[Len(r) - p + j] = ExitString[j]
<1>1. Len(r) \in Nat
  BY LenProperties
<1>2. CASE p \notin 0..2
  BY <1>2 DEF Begun
<1>3. CASE p = 0
  BY <1>1, <1>3 DEF Begun
<1>4. CASE p = 1
  <2>1. (\A j \in 1..1 : r[Len(r) - 1 + j] = ExitString[j]) <=> r[Len(r)] = "D"
    <3>1. \A j \in 1..1 : j = 1 /\ Len(r) - 1 + j = Len(r)
      BY <1>1
    <3>2. 1 \in 1..1
      OBVIOUS
    <3> QED BY <3>1, <3>2, ExitBytes
  <2> QED BY <1>4, <2>1 DEF Begun
<1>5. CASE p = 2
  <2>1. (\A j \in 1..2 : r[Len(r) - 2 + j] = ExitString[j])
           <=> r[Len(r) - 1] = "D" /\ r[Len(r)] = "!"
    <3>1. Len(r) - 2 + 1 = Len(r) - 1 /\ Len(r) - 2 + 2 = Len(r)
      BY <1>1
    <3>2. 1 \in 1..2 /\ 2 \in 1..2 /\ \A j \in 1..2 : j = 1 \/ j = 2
      OBVIOUS
    <3> QED BY <3>1, <3>2, ExitBytes
  <2> QED BY <1>5, <2>1 DEF Begun
<1> QED BY <1>2, <1>3, <1>4, <1>5

\* A read of n bytes from Pi i's tty, when pi_done is given them behind the
\* "from" bytes of the exit string that came before.
LEMMA ReadFinds ==
  ASSUME Unambiguous, TypeOK, NEW i \in Pi, PiInv(i), Said(i), plugged[i],
         NEW n \in 1..Len(tty[i]), NEW from, Begun(read[i], Len(read[i]), from)
  PROVE  LET buf == SubSeq(tty[i], 1, n)
             all == read[i] \o buf
         IN  /\ buf \in Seq(Bytes) /\ all \in Seq(Bytes) /\ all # <<>>
             /\ pi_done(from, Shown(i, buf)) =>
                  \E k \in 0..Len(all) : SubSeq(all, 1, k) = Whole(i)
             /\ tool = "pi_cat" /\ ~pi_done(from, Shown(i, buf)) =>
                  Begun(all, Len(all), Scan(from, Shown(i, buf)))
<1> DEFINE buf == SubSeq(tty[i], 1, n)
           rest == SubSeq(tty[i], n + 1, Len(tty[i]))
           all == read[i] \o buf
<1>1. /\ buf \in Seq(Bytes) /\ rest \in Seq(Bytes) /\ buf \o rest = tty[i]
      /\ read[i] \in Seq(Bytes) /\ Len(buf) = n
  <2>1. tty[i] \in Seq(Bytes) /\ read[i] \in Seq(Bytes) /\ Len(tty[i]) \in Nat
    BY PiTypes, LenProperties
  <2>2. \A k \in 1..n : tty[i][k] \in Bytes
    BY <2>1, ElementOfSeq
  <2>3. Len(buf) = n
    BY <2>1, <2>2, SubSeqProperties
  <2> QED BY <2>1, <2>3, CutAndJoin
<1>2. all \in Seq(Bytes) /\ all # <<>>
  <2>1. all \in Seq(Bytes) /\ Len(all) = Len(read[i]) + Len(buf) /\ Len(read[i]) \in Nat
    BY <1>1, ConcatProperties, LenProperties
  <2>2. Len(all) # 0 /\ Len(<<>>) = 0
    BY <1>1, <2>1, EmptySeq
  <2> QED BY <2>1, <2>2
<1>3. Begins(all, Full(i))
  <2>1. Begins(read[i] \o tty[i], Full(i))
    BY ReadIsPrefix
  <2> HIDE DEF buf, rest
  <2> QED BY <1>1, <2>1, BeginsLess
<1>4. PICK tail \in Seq(Bytes) : all \o tail = Full(i)
  BY <1>3 DEF Begins
<1> HIDE DEF buf, rest
<1>5. /\ Len(Shown(i, buf)) = Len(buf)
      /\ \A k \in 1..Len(buf) : \A x \in {"D", "!", "n"} :
            Shown(i, buf)[k] = x => buf[k] = x
      /\ tool = "pi_cat" => \A k \in 1..Len(buf) : Shown(i, buf)[k] # Nul
  BY <1>1, ShownKeeps
<1>6. /\ pi_done(from, Shown(i, buf)) => \E m \in 1..Len(all) : ExitAt(all, m)
      /\ (\A k \in 1..Len(buf) : Shown(i, buf)[k] # Nul) /\ ~pi_done(from, Shown(i, buf))
           => Begun(all, Len(all), Scan(from, Shown(i, buf)))
  <2>1. PICK r \in Seq(Bytes), b \in Seq(Bytes) : r = read[i] /\ b = buf
    BY <1>1
  <2> DEFINE shown == Shown(i, buf)
  <2>2. /\ Len(shown) = Len(b) /\ Begun(r, Len(r), from)
        /\ \A k \in 1..Len(b) : \A x \in {"D", "!", "n"} : shown[k] = x => b[k] = x
    BY <1>5, <2>1
  <2> HIDE DEF shown
  <2>3. /\ pi_done(from, shown) => \E m \in 1..Len(r \o b) : ExitAt(r \o b, m)
        /\ (\A k \in 1..Len(b) : shown[k] # Nul) /\ ~pi_done(from, shown)
             => Begun(r \o b, Len(r \o b), Scan(from, shown))
    BY <2>2, ScanFinds
  <2> QED BY <2>1, <2>3 DEF shown
<1>7. pi_done(from, Shown(i, buf)) => \E k \in 0..Len(all) : SubSeq(all, 1, k) = Whole(i)
  <2> HIDE DEF all
  <2> QED BY <1>2, <1>4, <1>6, FoundIsTheEnd
<1>8. tool = "pi_cat" /\ ~pi_done(from, Shown(i, buf)) =>
        Begun(all, Len(all), Scan(from, Shown(i, buf)))
  BY <1>5, <1>6
<1> QED BY <1>1, <1>2, <1>7, <1>8 DEF buf

\* What the Pis' steps leave alone.
LaptopKept == UNCHANGED <<tool, turn, done, count, pos, image, exited, read>>

LEMMA LaptopKeeps ==
  ASSUME ExitInv, LaptopKept, \A j \in Pi : Said(j)'
  PROVE  ExitInv'
<1> USE DEF LaptopKept
<1>1. Counted' = Counted /\ \A j : Finished(j)' <=> Finished(j)
  BY DEF Counted, Finished, Whole
<1>2. tool = "pi_echo" => EchoInv'
  BY <1>1 DEF ExitInv, EchoInv
<1>3. tool = "pi_cat" => CatInv'
  BY <1>1 DEF ExitInv, CatInv, Running
<1> QED BY <1>2, <1>3 DEF ExitInv

LEMMA SaidUntouched ==
  ASSUME NEW j \in Pi, Said(j), pc'[j] = pc[j], out'[j] = out[j], sent'[j] = sent[j]
  PROVE  Said(j)'
BY DEF Said, Whole

LEMMA ProgramSaid ==
  ASSUME TypeOK, NEW i \in Pi, Program(i), Said(i)
  PROVE  Said(i)' /\ \A j \in Pi \ {i} : pc'[j] = pc[j] /\ out'[j] = out[j] /\ sent'[j] = sent[j]
<1>1. ASSUME NEW j \in Pi \ {i} PROVE pc'[j] = pc[j] /\ out'[j] = out[j] /\ sent'[j] = sent[j]
  <2>1. pc' = [pc EXCEPT ![i] = pc'[i]] /\ out' = [out EXCEPT ![i] = out'[i]]
        /\ sent' = [sent EXCEPT ![i] = sent'[i]]
    BY DEF Program, uart_off, uart_on, uart_put8, uart_get8, clean_reboot, uart_flush_tx,
           rpi_reboot, Goes, TypeOK
  <2> QED BY <2>1 DEF TypeOK
<1> SUFFICES Said(i)'
  BY <1>1
<1>2. /\ out[i] \in Seq(Bytes) /\ sent[i] \in Seq(Bytes) /\ Output[i] \in Seq(Bytes)
      /\ \A x \in Seq(Bytes) : x \o <<>> = x /\ <<>> \o x = x
  BY PiTypes, WholeType, NothingMore
<1>3. CASE uart_off(i) \/ uart_on(i)
  <2>1. /\ pc[i] \in {"_cstart", "uart_on"} /\ pc'[i] \in {"uart_on", "notmain"}
        /\ out' = out /\ sent' = sent
    BY <1>3 DEF uart_off, uart_on, Goes, TypeOK
  <2> QED BY <2>1 DEF Said, Whole
<1>4. CASE uart_put8(i)
  <2>1. /\ pc' = pc /\ pc[i] # "rpi_reboot" /\ out[i] # <<>>
        /\ sent'[i] = Append(sent[i], Head(out[i])) /\ out'[i] = Tail(out[i])
    BY <1>4 DEF uart_put8, TypeOK
  <2>2. Append(sent[i], Head(out[i])) \o Tail(out[i]) = sent[i] \o out[i]
    BY <1>2, <2>1, FirstCrosses
  <2> QED BY <2>1, <2>2 DEF Said, Whole
<1>5. CASE uart_get8(i)
  <2>1. pc' = pc /\ out' = out /\ sent' = sent
    BY <1>5 DEF uart_get8
  <2> QED BY <2>1 DEF Said, Whole
<1>6. CASE clean_reboot(i)
  <2>1. /\ pc[i] = "notmain" /\ out[i] = <<>> /\ pc'[i] = "clean_reboot"
        /\ out'[i] = ExitString /\ sent' = sent
    BY <1>6 DEF clean_reboot, Goes, TypeOK
  <2>2. sent[i] = Output[i]
    BY <1>2, <2>1 DEF Said
  <2>3. sent'[i] \o out'[i] = Whole(i)
    BY <2>1, <2>2 DEF Whole
  <2> QED BY <2>1, <2>3 DEF Said, Whole
<1>7. CASE uart_flush_tx(i)
  <2>1. /\ pc[i] = "clean_reboot" /\ out[i] = <<>> /\ pc'[i] = "rpi_reboot"
        /\ out' = out /\ sent' = sent
    BY <1>7 DEF uart_flush_tx, Goes, TypeOK
  <2> QED BY <2>1 DEF Said, Whole
<1>8. CASE rpi_reboot(i)
  <2>1. /\ pc[i] = "rpi_reboot" /\ pc'[i] = "bootloader" /\ out'[i] = <<"boot">> /\ sent' = sent
    BY <1>8 DEF rpi_reboot, Goes, TypeOK
  <2>2. sent[i] = Whole(i)
    <3>1. out[i] = <<>> /\ sent[i] \o out[i] = Whole(i)
      BY <2>1 DEF Said
    <3> QED BY <1>2, <3>1
  <2>3. sent'[i] \o out'[i] = Append(Whole(i), "boot")
    <3>1. Full(i) = Whole(i) \o <<"boot">>
      BY WholeType
    <3> QED BY <2>1, <2>2, <3>1 DEF Full
  <2> QED BY <2>1, <2>3 DEF Said, Whole
<1> QED BY <1>1, <1>3, <1>4, <1>5, <1>6, <1>7, <1>8 DEF Program

LEMMA PisKeepExit ==
  ASSUME TypeOK, ExitInv, NEW i \in Pi, Program(i) \/ Line(i) \/ Unplug(i)
  PROVE  ExitInv'
<1>1. LaptopKept
  BY DEF Program, uart_off, uart_on, uart_put8, uart_get8, clean_reboot, uart_flush_tx,
         rpi_reboot, Line, Shift, Transmit, Unplug, host, laptop, LaptopKept
<1>2. \A j \in Pi : Said(j)
  BY DEF ExitInv
<1>3. \A j \in Pi : Said(j)'
  <2>1. CASE Program(i)
    BY <1>2, <2>1, ProgramSaid, SaidUntouched
  <2>2. CASE Line(i) \/ Unplug(i)
    <3>1. UNCHANGED <<pc, out, sent>>
      BY <2>2 DEF Line, Shift, Transmit, Unplug, program
    <3> QED BY <1>2, <3>1, SaidUntouched
  <2> QED BY <2>1, <2>2
<1> QED BY <1>1, <1>3, LaptopKeeps

LEMMA IdleKeepsExit ==
  ASSUME ExitInv, Running, Skip \/ Gone \/ Typed \/ TypedToNobody
  PROVE  ExitInv'
<1>1. UNCHANGED <<pc, out, sent, tool, done, count, pos, image, read>>
      /\ (exited' = exited \/ exited' = "gone" \/ exited' = "died")
  BY DEF Skip, Gone, Typed, TypedToNobody, program
<1>2. \A j \in Pi : Said(j)'
  BY <1>1, SaidUntouched DEF ExitInv
<1>3. Counted' = Counted /\ \A j : Finished(j)' <=> Finished(j)
  BY <1>1 DEF Counted, Finished, Whole
<1>4. tool = "pi_echo" => EchoInv'
  BY <1>1, <1>3 DEF ExitInv, EchoInv
<1>5. tool = "pi_cat" => CatInv'
  BY <1>1, <1>3 DEF ExitInv, CatInv, Running
<1> QED BY <1>1, <1>2, <1>4, <1>5 DEF ExitInv

LEMMA CatKeepsExit ==
  ASSUME Unambiguous, IInv, ExitInv, Running, NEW n, Cat(n)
  PROVE  ExitInv'
<1> DEFINE buf == SubSeq(tty[1], 1, n)
           shown == Shown(1, buf)
<1>1. /\ n \in 1..Len(tty[1]) /\ tool = "pi_cat" /\ plugged[1] /\ tool' = tool /\ done' = done
      /\ read' = [read EXCEPT ![1] = @ \o buf] /\ pos' = Scan(pos, shown)
      /\ exited' = (IF pi_done(pos, shown) THEN "clean" ELSE exited)
      /\ UNCHANGED <<pc, out, sent>>
  BY DEF Cat, program
<1>2. 1 \in Pi /\ read \in [Pi -> Seq(Bytes)]
  BY ConsoleAssumption DEF Pi, IInv, TypeOK
<1>3. read'[1] = read[1] \o buf /\ read[1] \in Seq(Bytes)
  BY <1>1, <1>2
<1>4. Begun(read[1], Len(read[1]), pos)
  BY <1>1, <1>3, BegunIs DEF ExitInv, CatInv
<1>5. /\ read'[1] \in Seq(Bytes)
      /\ pi_done(pos, shown) => \E k \in 0..Len(read'[1]) : SubSeq(read'[1], 1, k) = Whole(1)
      /\ ~pi_done(pos, shown) => Begun(read'[1], Len(read'[1]), pos')
  <2>1. TypeOK /\ PiInv(1) /\ Said(1)
    BY <1>2 DEF IInv, ExitInv
  <2> HIDE DEF shown
  <2>2. /\ read[1] \o buf \in Seq(Bytes)
        /\ pi_done(pos, shown) =>
             \E k \in 0..Len(read[1] \o buf) : SubSeq(read[1] \o buf, 1, k) = Whole(1)
        /\ ~pi_done(pos, shown) => Begun(read[1] \o buf, Len(read[1] \o buf), Scan(pos, shown))
    BY <1>1, <1>2, <1>4, <2>1, ReadFinds DEF shown
  <2> HIDE DEF buf
  <2> QED BY <1>1, <1>3, <2>2
<1> HIDE DEF shown, buf
<1>6. pi_done(pos, shown) => Finished(1)'
  BY <1>5 DEF Finished, Whole
<1>7. ~pi_done(pos, shown) =>
        /\ pos' \in 0..2 /\ pos' <= Len(read'[1])
        /\ \A j \in 1..pos' : read'[1][Len(read'[1]) - pos' + j] = ExitString[j]
  BY <1>5, BegunIs
<1>8. CatInv'
  BY <1>1, <1>6, <1>7 DEF CatInv, Running
<1>9. \A j \in Pi : Said(j)'
  BY <1>1, SaidUntouched DEF ExitInv
<1> QED BY <1>1, <1>8, <1>9 DEF ExitInv

\* Counting one more Pi.
LEMMA OneMoreCounted ==
  ASSUME IInv, NEW i \in Pi, i \notin Counted, NEW one, one = Counted \cup {i}
  PROVE  Cardinality(one) = Cardinality(Counted) + 1
<1>1. IsFiniteSet(Counted)
  <2>1. NumPis \in Nat
    BY ConsoleAssumption
  <2>2. IsFiniteSet(Pi)
    BY <2>1, FS_Interval DEF Pi
  <2> QED BY <2>2, FS_Subset DEF Counted
<1> QED BY <1>1, FS_AddElement

\* The image is what the first Pi printed first.
FirstOf(r) == SubSeq(r, 1, IF Len(r) < ImageSize THEN Len(r) ELSE ImageSize)
Filled(img, buf) ==
    IF Len(img) < ImageSize
    THEN SubSeq(img \o buf, 1, IF Len(img) + Len(buf) < ImageSize
                               THEN Len(img) + Len(buf) ELSE ImageSize)
    ELSE img

LEMMA ImageGrows ==
  ASSUME Unambiguous, NEW r \in Seq(Bytes), NEW buf \in Seq(Bytes)
  PROVE  Filled(FirstOf(r), buf) = FirstOf(r \o buf)
<1> DEFINE img == FirstOf(r)
           now == Filled(img, buf)
<1>1. ImageSize \in Nat
  <2>1. 1 \in Pi
    BY ConsoleAssumption DEF Pi
  <2>2. Len(Output[1]) \in Nat
    BY <2>1, WholeType
  <2> QED BY <2>2 DEF Unambiguous
<1>2. Len(r) \in Nat /\ Len(buf) \in Nat /\ Len(r \o buf) = Len(r) + Len(buf)
  BY LenProperties, ConcatProperties
<1>3. CASE Len(r) < ImageSize
  <2>1. img = r
    BY <1>3, SubSeqFull DEF FirstOf
  <2> QED BY <1>2, <1>3, <2>1 DEF FirstOf, Filled
<1>4. CASE ~(Len(r) < ImageSize)
  <2>1. img = SubSeq(r, 1, ImageSize)
    BY <1>4 DEF FirstOf
  <2>2. CASE ImageSize = 0
    <3>1. img = <<>> /\ SubSeq(r \o buf, 1, 0) = <<>> /\ Len(<<>>) = 0
      BY <2>1, <2>2, SubSeqEmpty, EmptySeq
    <3>2. now = <<>>
      BY <2>2, <3>1 DEF Filled
    <3>3. FirstOf(r \o buf) = SubSeq(r \o buf, 1, 0)
      <4>1. (IF Len(r \o buf) < ImageSize THEN Len(r \o buf) ELSE ImageSize) = 0
        BY <1>2, <2>2
      <4> QED BY <4>1 DEF FirstOf
    <3> QED BY <3>1, <3>2, <3>3
  <2>3. CASE ImageSize # 0
    <3>1. 1 \in 1..Len(r) /\ ImageSize \in 1..Len(r)
      BY <1>1, <1>2, <1>4, <2>3
    <3>2. SubSeq(r \o buf, 1, ImageSize) = SubSeq(r, 1, ImageSize)
      BY <3>1, SubSeqOfConcat1
    <3>3. \A k \in 1..ImageSize : r[k] \in Bytes
      BY <1>2, <3>1, ElementOfSeq
    <3>4. Len(img) = ImageSize
      BY <1>1, <2>1, <2>3, <3>3, SubSeqProperties
    <3>5. now = img
      BY <1>1, <3>4 DEF Filled
    <3> QED BY <1>1, <1>2, <1>4, <2>1, <3>2, <3>5 DEF FirstOf
  <2> QED BY <2>2, <2>3
<1> QED BY <1>3, <1>4

LEMMA EchoKeepsExit ==
  ASSUME Unambiguous, IInv, ExitInv, Running, NEW n, Echo(n)
  PROVE  ExitInv'
<1> DEFINE buf == SubSeq(tty[turn], 1, n)
           saw == pi_done(0, Shown(turn, buf))
<1>1. /\ n \in 1..Len(tty[turn]) /\ tool = "pi_echo" /\ plugged[turn] /\ ~done[turn]
      /\ tool' = tool
      /\ read' = [read EXCEPT ![turn] = @ \o buf] /\ done' = [done EXCEPT ![turn] = saw]
      /\ count' = (IF saw THEN count + 1 ELSE count)
      /\ exited' = (IF count' = NumPis THEN "clean" ELSE exited)
      /\ UNCHANGED <<pc, out, sent>>
  BY DEF Echo, program
<1>2. update_image(turn, buf)
  BY DEF Echo
<1>3. /\ turn \in Pi /\ read \in [Pi -> Seq(Bytes)] /\ done \in [Pi -> BOOLEAN]
      /\ 1 \in Pi /\ \A j \in Pi : read[j] \in Seq(Bytes)
  <2>1. turn \in Pi /\ read \in [Pi -> Seq(Bytes)] /\ done \in [Pi -> BOOLEAN]
    BY DEF IInv, TypeOK, ExitInv
  <2>2. 1 \in Pi
    BY ConsoleAssumption DEF Pi
  <2>3. \A j \in Pi : read[j] \in Seq(Bytes)
    BY <2>1
  <2> QED BY <2>1, <2>2, <2>3
<1>4. EchoInv
  BY <1>1 DEF ExitInv
<1>5. /\ read'[turn] = read[turn] \o buf /\ \A j \in Pi \ {turn} : read'[j] = read[j]
      /\ done'[turn] = saw /\ \A j \in Pi \ {turn} : done'[j] = done[j]
  BY <1>1, <1>3
<1>6. saw \in BOOLEAN
  BY DEF pi_done
<1>7. /\ buf \in Seq(Bytes) /\ read'[turn] # <<>>
      /\ saw => \E k \in 0..Len(read'[turn]) : SubSeq(read'[turn], 1, k) = Whole(turn)
  <2>1. TypeOK /\ PiInv(turn) /\ Said(turn)
    BY <1>3 DEF IInv, ExitInv
  <2>2. Begun(read[turn], Len(read[turn]), 0)
    <3>1. Len(read[turn]) \in Nat
      BY <1>3, LenProperties
    <3> QED BY <3>1 DEF Begun
  <2>3. /\ buf \in Seq(Bytes) /\ read[turn] \o buf # <<>>
        /\ pi_done(0, Shown(turn, buf)) =>
             \E k \in 0..Len(read[turn] \o buf) : SubSeq(read[turn] \o buf, 1, k) = Whole(turn)
    BY <1>1, <1>3, <2>1, <2>2, ReadFinds
  <2> HIDE DEF buf
  <2> QED BY <1>5, <2>3
<1> HIDE DEF saw, buf
<1>8. Counted' = IF saw THEN Counted \cup {turn} ELSE Counted
  BY <1>3, <1>5, <1>7, <1>1 DEF Counted
<1>9. turn \notin Counted
  BY <1>1 DEF Counted
<1>10. count' = Cardinality(Counted')
  <2>1. CASE saw
    <3>1. Counted' = Counted \cup {turn}
      BY <1>8, <2>1
    <3>2. Cardinality(Counted') = Cardinality(Counted) + 1
      BY <1>3, <1>9, <3>1, OneMoreCounted
    <3> QED BY <1>1, <1>4, <2>1, <3>2 DEF EchoInv
  <2>2. CASE ~saw
    BY <1>1, <1>4, <1>8, <2>2 DEF EchoInv
  <2> QED BY <2>1, <2>2
<1>11. ASSUME NEW j \in Pi, j \in Counted' PROVE Finished(j)'
  <2>1. CASE j = turn /\ saw
    BY <1>7, <2>1 DEF Finished, Whole
  <2>2. CASE j \in Counted
    <3>1. j # turn
      BY <1>9, <2>2
    <3>2. Finished(j) /\ read'[j] = read[j]
      BY <1>4, <1>5, <2>2, <3>1 DEF EchoInv
    <3> QED BY <3>2 DEF Finished, Whole
  <2> QED BY <1>8, <1>11, <2>1, <2>2
<1>12. exited' = "clean" => count' = NumPis
  BY <1>1 DEF Running
<1>13. image' = FirstOf(read'[1])
  <2>1. image = FirstOf(read[1])
    BY <1>4 DEF EchoInv, FirstOf
  <2>2. CASE turn = 1
    <3>1. image' = Filled(image, buf)
      BY <1>1, <1>2, <2>2 DEF update_image, ForImage, Filled
    <3>2. Filled(FirstOf(read[1]), buf) = FirstOf(read[1] \o buf)
      BY <1>3, <1>7, ImageGrows
    <3> QED BY <1>5, <2>1, <2>2, <3>1, <3>2
  <2>3. CASE turn # 1
    <3>1. image' = image /\ read'[1] = read[1]
      BY <1>2, <1>3, <1>5, <2>3 DEF update_image, ForImage
    <3> QED BY <2>1, <3>1
  <2> QED BY <2>2, <2>3
<1>14. EchoInv'
  <2>1. \A j \in Counted' : Finished(j)'
    <3>1. \A j \in Counted' : j \in Pi
      BY DEF Counted
    <3> QED BY <1>11, <3>1
  <2> QED BY <1>10, <1>12, <1>13, <2>1 DEF EchoInv, FirstOf
<1>15. \A j \in Pi : Said(j)'
  BY <1>1, SaidUntouched DEF ExitInv
<1>16. done' \in [Pi -> BOOLEAN]
  BY <1>1, <1>3, <1>6
<1> QED BY <1>1, <1>14, <1>15, <1>16 DEF ExitInv

-----------------------------------------------------------------------------
LEMMA ImageFits ==
  ASSUME Unambiguous
  PROVE  1 \in Pi /\ ImageSize \in Nat /\ ImageSize <= Len(Whole(1))
<1>1. 1 \in Pi
  BY ConsoleAssumption DEF Pi
<1>2. Len(Output[1]) \in Nat /\ Len(Whole(1)) = Len(Output[1]) + 3
  BY <1>1, WholeType
<1> QED BY <1>1, <1>2 DEF Unambiguous

LEMMA StartsExit ==
  ASSUME Unambiguous, Init
  PROVE  ExitInv
<1>1. /\ tool \in {"pi_echo", "pi_cat"} /\ done \in [Pi -> BOOLEAN] /\ out = Output
      /\ pc = [i \in Pi |-> IF tool = "pi_cat" /\ i > 1 THEN "off" ELSE "_cstart"]
      /\ sent = [i \in Pi |-> <<>>] /\ read = [i \in Pi |-> <<>>]
      /\ count = 0 /\ pos = 0 /\ image = <<>> /\ exited = "no"
  BY DEF Init, EachPi
<1>2. 1 \in Pi /\ read[1] = <<>> /\ Len(<<>>) = 0 /\ ImageSize \in Nat
  BY <1>1, ImageFits, EmptySeq
<1>3. ASSUME NEW i \in Pi PROVE Said(i)
  <2>1. Output[i] \in Seq(Bytes) /\ <<>> \o Output[i] = Output[i]
    BY WholeType, NothingMore
  <2>2. pc[i] \in {"off", "_cstart"} /\ sent[i] = <<>> /\ out[i] = Output[i]
    BY <1>1
  <2> QED BY <2>1, <2>2 DEF Said
<1>4. EchoInv
  <2>1. Counted = {}
    BY <1>1 DEF Counted
  <2>2. Cardinality({}) = 0
    BY FS_EmptySet
  <2>3. FirstOf(<<>>) = <<>>
    <3>1. (IF Len(<<>>) < ImageSize THEN Len(<<>>) ELSE ImageSize) = 0
      BY <1>2
    <3> QED BY <3>1, SubSeqEmpty DEF FirstOf
  <2> QED BY <1>1, <1>2, <2>1, <2>2, <2>3 DEF EchoInv, FirstOf
<1>5. CatInv
  BY <1>1, <1>2 DEF CatInv
<1> QED BY <1>1, <1>3, <1>4, <1>5 DEF ExitInv

LEMMA StepKeepsExit ==
  ASSUME Unambiguous, IInv, ExitInv, [Next]_vars
  PROVE  ExitInv'
<1>1. CASE Next
  <2>1. Running /\ TypeOK
    BY <1>1 DEF Next, IInv
  <2>2. ASSUME NEW i \in Pi, Program(i) \/ Line(i) \/ Unplug(i) PROVE ExitInv'
    BY <2>1, <2>2, PisKeepExit
  <2>3. ASSUME Reader PROVE ExitInv'
    BY <2>1, <2>3, IdleKeepsExit, EchoKeepsExit, CatKeepsExit DEF Reader
  <2> QED BY <1>1, <2>1, <2>2, <2>3, IdleKeepsExit DEF Next
<1>2. CASE UNCHANGED vars
  <2>1. LaptopKept /\ UNCHANGED <<pc, out, sent>>
    BY <1>2 DEF vars, program, host, laptop, LaptopKept
  <2>2. \A j \in Pi : Said(j)'
    BY <2>1, SaidUntouched DEF ExitInv
  <2> QED BY <2>1, <2>2, LaptopKeeps
<1> QED BY <1>1, <1>2

\* When each Pi was counted, all of them said what they had to say.
LEMMA ExitIsClean ==
  ASSUME Unambiguous, IInv, ExitInv
  PROVE  CleanExit
<1> SUFFICES ASSUME exited = "clean" PROVE CleanExit
  BY DEF CleanExit
<1>1. CASE tool = "pi_cat"
  BY <1>1 DEF ExitInv, CatInv, CleanExit, Finished, Whole
<1>2. CASE tool = "pi_echo"
  <2>1. EchoInv /\ count = NumPis
    BY <1>2 DEF ExitInv, EchoInv
  <2>2. Counted = Pi
    <3>1. NumPis \in Nat \ {0}
      BY ConsoleAssumption
    <3>2. IsFiniteSet(Pi) /\ Cardinality(Pi) = NumPis
      BY <3>1, FS_Interval DEF Pi
    <3>3. Counted \in SUBSET Pi /\ Cardinality(Counted) = NumPis
      BY <2>1 DEF Counted, EchoInv
    <3> QED BY <3>2, <3>3, FS_Subset
  <2>3. \A i \in Pi : Finished(i)
    BY <2>1, <2>2 DEF EchoInv
  <2>4. image = SubSeq(Whole(1), 1, ImageSize)
    <3>1. PICK n \in 0..Len(read[1]) : SubSeq(read[1], 1, n) = Whole(1)
      BY <2>3, ImageFits DEF Finished
    <3>2. read[1] \in Seq(Bytes) /\ Len(read[1]) \in Nat
      BY ImageFits, LenProperties DEF IInv, TypeOK
    <3>3. \A k \in 1..n : read[1][k] \in Bytes
      BY <3>1, <3>2, ElementOfSeq
    <3>4. /\ Len(Whole(1)) = IF 1 <= n THEN n - 1 + 1 ELSE 0
          /\ \A k \in 1..(n - 1 + 1) : Whole(1)[k] = read[1][1 + k - 1]
      BY <3>1, <3>2, <3>3, SubSeqProperties
    <3>5. Len(Whole(1)) = n /\ \A k \in 1..n : Whole(1)[k] = read[1][k]
      BY <3>1, <3>2, <3>4
    <3>6. ImageSize \in 0..n
      BY <3>1, <3>2, <3>5, ImageFits
    <3>7. image = SubSeq(read[1], 1, ImageSize)
      BY <2>1, <3>1, <3>2, <3>6 DEF EchoInv
    <3>8. CASE ImageSize = 0
      BY <3>7, <3>8, SubSeqEmpty
    <3>9. CASE ImageSize # 0
      <4>1. \A k \in 1..ImageSize : k \in 1..n
        BY <3>1, <3>2, <3>6
      <4>2. \A k \in 1..ImageSize : read[1][k] \in Bytes /\ Whole(1)[k] = read[1][k]
        BY <3>3, <3>5, <4>1
      <4> DEFINE x == SubSeq(read[1], 1, ImageSize)
                 y == SubSeq(Whole(1), 1, ImageSize)
      <4>3. /\ x \in Seq(Bytes) /\ Len(x) = IF 1 <= ImageSize THEN ImageSize - 1 + 1 ELSE 0
            /\ y \in Seq(Bytes) /\ Len(y) = IF 1 <= ImageSize THEN ImageSize - 1 + 1 ELSE 0
            /\ \A k \in 1..(ImageSize - 1 + 1) : x[k] = read[1][1 + k - 1]
            /\ \A k \in 1..(ImageSize - 1 + 1) : y[k] = Whole(1)[1 + k - 1]
        BY <4>2, ImageFits, SubSeqProperties
      <4> HIDE DEF x, y
      <4>4. /\ Len(x) = ImageSize /\ Len(y) = ImageSize
            /\ \A k \in 1..ImageSize : x[k] = y[k]
        BY <3>9, <4>2, <4>3, ImageFits
      <4>5. x = y
        BY <4>3, <4>4, SeqEqual
      <4> USE DEF x, y
      <4> QED BY <3>7, <4>5
    <3> QED BY <3>8, <3>9
  <2> QED BY <1>2, <2>3, <2>4 DEF CleanExit, Finished, Whole
<1> QED BY <1>1, <1>2 DEF ExitInv

\* pi_echo and pi_cat end by themselves only when each Pi's exit string was
\* read, and the image is what the first Pi printed first (pi-echo.c:22-33,
\* 58-155, pi-cat.c:20-84).
THEOREM CleanExitCorrect ==
  ASSUME Unambiguous
  PROVE  Spec => []CleanExit
<1>1. Init => IInv /\ ExitInv
  BY StartsRight, StartsExit
<1>2. IInv /\ ExitInv /\ [Next]_vars => (IInv /\ ExitInv)'
  BY StepKeeps, StepKeepsExit
<1>3. IInv /\ ExitInv => CleanExit
  BY ExitIsClean
<1> QED BY <1>1, <1>2, <1>3, PTL DEF Spec

=============================================================================
