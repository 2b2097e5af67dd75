--------------------------- MODULE LibraryProofs ---------------------------
(***************************************************************************)
(* The parts that stand on their own, for every value of their constants:  *)
(* the list of Q.h represents the client's sequence, the waits of timer.c  *)
(* and timeout.h are exact, my-install gives every rank a tty of its own   *)
(* and the same one again on the next run while every boot leaves its tty  *)
(* the newest, last_mtime of cmd-watch does not get past a save it has yet *)
(* to see, and the root of each test program ends with what one computer   *)
(* computes alone.                                                         *)
(***************************************************************************)
EXTENDS MCLibrary, SequenceTheorems, FiniteSetTheorems, TLAPS

-----------------------------------------------------------------------------
(* The queue: what an operation relinks is found from head, tail and the   *)
(* position alone, so the invariant needs nothing but the types.           *)

QueueInv == TypeOK /\ Represents

LEMMA QInit == Init => QueueInv
<1> SUFFICES ASSUME Init PROVE QueueInv
  OBVIOUS
<1>1. seq = <<>> /\ Len(seq) = 0 /\ DOMAIN seq = {}
  BY DEF Init
<1>2. TypeOK
  BY <1>1 DEF Init, TypeOK, Pointers
<1>3. Represents
  BY <1>1 DEF Init, Represents, Ends, Linked, NoTwice
<1> QED BY <1>2, <1>3 DEF QueueInv

\* The ends of the list are those of the sequence.
LEMMA EndsOf ==
  ASSUME QueueInv
  PROVE  /\ DOMAIN seq = 1..Len(seq) /\ Len(seq) \in Nat
         /\ \A k \in 1..Len(seq) : seq[k] \in Elements
         /\ head = Null <=> seq = <<>>
         /\ tail = Null <=> seq = <<>>
         /\ seq # <<>> => /\ Len(seq) >= 1 /\ head = seq[1] /\ tail = seq[Len(seq)]
                          /\ next[tail] = Null
<1>1. seq \in Seq(Elements)
  BY DEF QueueInv, TypeOK
<1>2. DOMAIN seq = 1..Len(seq) /\ Len(seq) \in Nat /\ \A k \in 1..Len(seq) : seq[k] \in Elements
  BY <1>1
<1>3. seq # <<>> => Len(seq) >= 1
  BY <1>1, EmptySeq, <1>2
<1>4. seq # <<>> => seq[1] \in Elements /\ seq[Len(seq)] \in Elements
  BY <1>2, <1>3
<1> QED BY <1>2, <1>3, <1>4, NullIsNoElement DEF QueueInv, Represents, Ends

\* Its links are those of neighbours.
LEMMA LinksOf ==
  ASSUME QueueInv
  PROVE  /\ \A k \in 1..(Len(seq) - 1) : next[seq[k]] = seq[k + 1]
         /\ \A j, k \in 1..Len(seq) : seq[j] = seq[k] => j = k
<1>1. DOMAIN seq = 1..Len(seq) /\ Len(seq) \in Nat /\ Linked /\ NoTwice
  BY EndsOf DEF QueueInv, Represents
<1>2. ASSUME NEW k \in 1..(Len(seq) - 1) PROVE next[seq[k]] = seq[k + 1]
  <2>1. k \in 1..Len(seq) /\ k + 1 \in 1..Len(seq)
    BY <1>1
  <2> QED BY <1>1, <2>1 DEF Linked
<1>3. ASSUME NEW j \in 1..Len(seq), NEW k \in 1..Len(seq), seq[j] = seq[k] PROVE j = k
  BY <1>1, <1>3 DEF NoTwice
<1> QED BY <1>2, <1>3

LEMMA PopInv == ASSUME QueueInv, Q_pop PROVE QueueInv'
<1>1. seq \in Seq(Elements) /\ seq # <<>> /\ Len(seq) \in Nat /\ Len(seq) >= 1
  BY EndsOf DEF Q_pop, QueueInv, TypeOK
<1>2. /\ seq' = Tail(seq) /\ seq' \in Seq(Elements) /\ Len(seq') = Len(seq) - 1
      /\ \A k \in 1..Len(seq') : seq'[k] = seq[k + 1]
      /\ DOMAIN seq' = 1..Len(seq')
  BY <1>1, HeadTailProperties DEF Q_pop
<1>3. head = seq[1] /\ tail = seq[Len(seq)] /\ next[tail] = Null /\ DOMAIN seq = 1..Len(seq)
  BY <1>1, EndsOf
<1>4. /\ \A j \in 1..Len(seq) : seq[j] \in Elements
      /\ \A k \in 1..(Len(seq) - 1) : next[seq[k]] = seq[k + 1]
      /\ \A j, k \in 1..Len(seq) : seq[j] = seq[k] => j = k
  BY <1>3, EndsOf, LinksOf
<1>5. CASE Len(seq) = 1
  <2>1. next[head] = Null /\ Len(seq') = 0 /\ seq' = <<>>
    BY <1>2, <1>3, <1>5, EmptySeq
  <2>2. head' = Null /\ tail' = Null
    BY <2>1 DEF Q_pop
  <2>3. TypeOK'
    BY <1>1, <1>2, <1>3, <1>4, <1>5, <2>2 DEF Q_pop, QueueInv, TypeOK, Represents, Pointers
  <2>4. Represents'
    BY <1>2, <1>3, <1>5, <2>1, <2>2 DEF Q_pop, QueueInv, Represents, Ends, Linked, NoTwice
  <2> QED BY <2>3, <2>4 DEF QueueInv
<1>6. CASE Len(seq) > 1
  <2>1. next[head] = seq[2] /\ seq[2] \in Elements /\ seq[2] # Null
    BY <1>1, <1>3, <1>4, <1>6, NullIsNoElement
  <2>2. head' = seq'[1] /\ tail' = tail /\ tail' = seq'[Len(seq')] /\ next' = next /\ seq' # <<>>
    <3>1. head' = next[head] /\ tail' = tail /\ next' = next
      BY <2>1 DEF Q_pop
    <3>2. 1 \in 1..Len(seq') /\ Len(seq') \in 1..Len(seq') /\ Len(seq') + 1 = Len(seq)
      BY <1>1, <1>2, <1>6
    <3>3. seq'[1] = seq[2] /\ seq'[Len(seq')] = seq[Len(seq)]
      BY <1>2, <3>2
    <3>4. seq' # <<>>
      <4> SUFFICES ASSUME seq' = <<>> PROVE FALSE
        OBVIOUS
      <4>1. Len(seq') = 0
        OBVIOUS
      <4>2. 1 \in 1..0
        BY <3>2, <4>1
      <4> QED BY <4>2
    <3> QED BY <1>3, <2>1, <3>1, <3>3, <3>4
  <2>3. TypeOK'
    BY <1>1, <1>2, <1>3, <1>4, <1>6, <2>1, <2>2 DEF Q_pop, QueueInv, TypeOK, Represents, Pointers
  <2>4. Ends'
    BY <1>3, <2>2 DEF Ends
  <2>5. Linked' /\ NoTwice'
    <3>1. ASSUME NEW k \in 1..Len(seq'), k + 1 \in 1..Len(seq') PROVE next'[seq'[k]] = seq'[k + 1]
      BY <1>1, <1>2, <1>4, <2>2, <3>1
    <3>2. ASSUME NEW j \in 1..Len(seq'), NEW k \in 1..Len(seq'), seq'[j] = seq'[k] PROVE j = k
      BY <1>1, <1>2, <1>4, <3>2
    <3> QED BY <1>2, <3>1, <3>2 DEF Linked, NoTwice
  <2>6. cnt' = Len(seq') /\ popped'[1] = popped'[2]
    BY <1>2, <1>3 DEF Q_pop, QueueInv, Represents
  <2> QED BY <2>3, <2>4, <2>5, <2>6 DEF QueueInv, Represents
<1>7. Len(seq) = 1 \/ Len(seq) > 1
  <2>1. Len(seq) \in Nat /\ Len(seq) >= 1
    BY <1>1
  <2>2. \A n \in Nat : n >= 1 => n = 1 \/ n > 1
    OBVIOUS
  <2> QED BY <2>1, <2>2
<1> QED BY <1>5, <1>6, <1>7

\* seq' is seq with e after its k-th element.
Inserted(k, e) ==
    /\ seq' \in Seq(Elements) /\ Len(seq') = Len(seq) + 1
    /\ \A m \in 1..k : seq'[m] = seq[m]
    /\ seq'[k + 1] = e
    /\ \A m \in (k + 1)..Len(seq) : seq'[m + 1] = seq[m]

\* The state after an element was appended, whoever asked for it.
LEMMA AppendInv ==
  ASSUME QueueInv, NEW e \in Elements, Free(e), Append1(e), Inserted(Len(seq), e), popped' = popped
  PROVE  QueueInv'
<1>1. /\ seq \in Seq(Elements) /\ Len(seq) \in Nat /\ DOMAIN seq = 1..Len(seq)
      /\ next \in [Elements -> Pointers] /\ cnt = Len(seq)
      /\ \A k \in 1..Len(seq) : seq[k] \in Elements /\ seq[k] # e
  BY EndsOf DEF QueueInv, TypeOK, Represents, Free, In
<1>2. /\ seq' \in Seq(Elements) /\ Len(seq') = Len(seq) + 1 /\ DOMAIN seq' = 1..(Len(seq) + 1)
      /\ \A k \in 1..Len(seq) : seq'[k] = seq[k]
      /\ seq'[Len(seq) + 1] = e /\ seq' # <<>>
  <2>1. /\ seq' \in Seq(Elements) /\ Len(seq') = Len(seq) + 1 /\ seq'[Len(seq) + 1] = e
        /\ \A k \in 1..Len(seq) : seq'[k] = seq[k]
    BY DEF Inserted
  <2>2. DOMAIN seq' = 1..(Len(seq) + 1)
    BY <2>1
  <2>3. seq' # <<>>
    BY <1>1, <2>1, EmptySeq
  <2> QED BY <2>1, <2>2, <2>3
<1>3. /\ \A k \in 1..(Len(seq) - 1) : next[seq[k]] = seq[k + 1]
      /\ \A j, k \in 1..Len(seq) : seq[j] = seq[k] => j = k
  BY LinksOf
<1>4. CASE seq = <<>>
  <2>1. Len(seq) = 0 /\ tail = Null
    BY <1>4, EndsOf
  <2>2. head' = e /\ tail' = e /\ next' = [next EXCEPT ![e] = Null] /\ cnt' = cnt + 1
    BY <2>1 DEF Append1
  <2>3. TypeOK'
    BY <1>1, <1>2, <2>2 DEF QueueInv, TypeOK, Pointers
  <2>4. Ends' /\ Linked' /\ NoTwice'
    BY <1>1, <1>2, <2>1, <2>2 DEF Ends, Linked, NoTwice
  <2>5. cnt' = Len(seq') /\ popped'[1] = popped'[2]
    BY <1>1, <1>2, <2>2 DEF QueueInv, Represents
  <2> QED BY <2>3, <2>4, <2>5 DEF QueueInv, Represents
<1>5. CASE seq # <<>>
  <2>1. Len(seq) >= 1 /\ head = seq[1] /\ tail = seq[Len(seq)] /\ tail # Null /\ tail \in Elements
    BY <1>5, <1>1, EndsOf
  <2>2. /\ head' = head /\ tail' = e /\ cnt' = cnt + 1
        /\ next' = [next EXCEPT ![e] = Null, ![tail] = e]
    BY <2>1 DEF Append1
  <2>3. TypeOK'
    BY <1>1, <1>2, <2>1, <2>2 DEF QueueInv, TypeOK, Pointers
  <2>4. tail # e
    BY <1>1, <2>1
  <2>5. Ends'
    BY <1>1, <1>2, <2>1, <2>2, <2>4 DEF Ends
  <2>6. Linked'
    <3>1. ASSUME NEW k \in 1..Len(seq) PROVE next'[seq'[k]] = seq'[k + 1]
      <4>1. CASE k = Len(seq)
        BY <1>1, <1>2, <2>1, <2>2, <4>1
      <4>2. CASE k < Len(seq)
        <5>1. seq[k] # tail /\ seq[k] # e /\ seq[k] \in Elements
          BY <1>1, <1>3, <2>1, <4>2
        <5>2. next'[seq[k]] = next[seq[k]]
          BY <5>1, <2>2, <1>1
        <5>3. k \in 1..(Len(seq) - 1) /\ k + 1 \in 1..Len(seq)
          <6>1. Len(seq) \in Nat
            BY <1>1
          <6> QED BY <6>1, <4>2
        <5>4. seq'[k] = seq[k] /\ seq'[k + 1] = seq[k + 1] /\ next[seq[k]] = seq[k + 1]
          BY <1>2, <1>3, <5>3
        <5> QED BY <5>2, <5>4
      <4>3. k = Len(seq) \/ k < Len(seq)
        <5>1. Len(seq) \in Nat
          BY <1>1
        <5> QED BY <5>1
      <4> QED BY <4>1, <4>2, <4>3
    <3> QED BY <1>1, <1>2, <3>1 DEF Linked
  <2>7. NoTwice'
    BY <1>1, <1>2, <1>3 DEF NoTwice
  <2>8. cnt' = Len(seq') /\ popped'[1] = popped'[2]
    BY <1>1, <1>2, <2>2 DEF QueueInv, Represents
  <2> QED BY <2>3, <2>5, <2>6, <2>7, <2>8 DEF QueueInv, Represents
<1> QED BY <1>4, <1>5

\* The same for an element put at the front.
LEMMA PushInv ==
  ASSUME QueueInv, NEW e \in Elements, Free(e), Push1(e), seq' = <<e>> \o seq, popped' = popped
  PROVE  QueueInv'
<1>1. /\ seq \in Seq(Elements) /\ Len(seq) \in Nat /\ DOMAIN seq = 1..Len(seq)
      /\ next \in [Elements -> Pointers] /\ cnt = Len(seq)
      /\ \A k \in 1..Len(seq) : seq[k] \in Elements /\ seq[k] # e
  BY EndsOf DEF QueueInv, TypeOK, Represents, Free, In
<1>2. /\ seq' \in Seq(Elements) /\ Len(seq') = Len(seq) + 1 /\ DOMAIN seq' = 1..(Len(seq) + 1)
      /\ seq'[1] = e /\ seq' # <<>>
      /\ \A k \in 1..Len(seq) : seq'[k + 1] = seq[k]
  <2>1. <<e>> \in Seq(Elements) /\ Len(<<e>>) = 1 /\ <<e>>[1] = e
    OBVIOUS
  <2>2. seq' = <<e>> \o seq
    OBVIOUS
  <2>3. /\ seq' \in Seq(Elements) /\ Len(seq') = 1 + Len(seq)
        /\ \A m \in 1..(1 + Len(seq)) : seq'[m] = IF m <= 1 THEN <<e>>[m] ELSE seq[m - 1]
    BY <1>1, <2>1, <2>2, ConcatProperties
  <2> QED BY <1>1, <2>1, <2>3
<1>3. /\ \A k \in 1..(Len(seq) - 1) : next[seq[k]] = seq[k + 1]
      /\ \A j, k \in 1..Len(seq) : seq[j] = seq[k] => j = k
  BY LinksOf
<1>4. /\ head' = e /\ next' = [next EXCEPT ![e] = head] /\ cnt' = cnt + 1
      /\ tail' = IF tail = Null THEN e ELSE tail
  BY DEF Push1
<1>5. /\ seq = <<>> => tail' = e /\ head = Null /\ Len(seq) = 0
      /\ seq # <<>> => /\ head = seq[1] /\ tail' = tail /\ tail = seq[Len(seq)]
                       /\ next[tail] = Null /\ Len(seq) >= 1
  BY <1>4, EndsOf
<1>6. head \in Pointers /\ tail' \in Pointers /\ e \in Pointers
  BY <1>4 DEF QueueInv, TypeOK, Pointers
<1>7. TypeOK'
  BY <1>1, <1>2, <1>4, <1>6 DEF QueueInv, TypeOK
<1>8. Ends'
  <2>1. CASE seq = <<>>
    BY <1>1, <1>2, <1>4, <1>5, <2>1 DEF Ends
  <2>2. CASE seq # <<>>
    <3>1. tail' = seq'[Len(seq')] /\ tail' # e /\ tail' \in Elements
      BY <1>1, <1>2, <1>5, <2>2
    <3> QED BY <1>1, <1>2, <1>4, <1>5, <2>2, <3>1 DEF Ends
  <2> QED BY <2>1, <2>2
<1>9. Linked' /\ NoTwice'
  <2>1. ASSUME NEW k \in 1..Len(seq) PROVE next'[seq'[k]] = seq'[k + 1]
    <3>1. Len(seq) \in Nat /\ seq # <<>>
      BY <1>1
    <3>2. CASE k = 1
      BY <1>1, <1>2, <1>4, <1>5, <3>1, <3>2
    <3>3. CASE k > 1
      <4>1. k - 1 \in 1..(Len(seq) - 1) /\ k - 1 \in 1..Len(seq) /\ k - 1 + 1 = k
        <5>1. Len(seq) \in Nat
          BY <1>1
        <5> QED BY <5>1, <3>3
      <4>2. seq'[k] = seq[k - 1] /\ seq'[k + 1] = seq[k] /\ next[seq[k - 1]] = seq[k]
        BY <1>2, <1>3, <4>1
      <4>3. seq[k - 1] # e /\ seq[k - 1] \in Elements
        BY <1>1, <4>1
      <4>4. next'[seq[k - 1]] = next[seq[k - 1]]
        BY <1>1, <1>4, <4>3
      <4> QED BY <4>2, <4>4
    <3>4. k = 1 \/ k > 1
      BY ONLY <3>1, k \in 1..Len(seq)
    <3> QED BY <3>2, <3>3, <3>4
  <2>2. ASSUME NEW j \in 1..(Len(seq) + 1), NEW k \in 1..(Len(seq) + 1), seq'[j] = seq'[k]
        PROVE  j = k
    <3>1. Len(seq) \in Nat
      BY <1>1
    <3>2. ASSUME NEW m \in 1..(Len(seq) + 1), m # 1
          PROVE  m - 1 \in 1..Len(seq) /\ seq'[m] = seq[m - 1] /\ seq'[m] # e
      <4>1. m - 1 \in 1..Len(seq) /\ (m - 1) + 1 = m
        BY <3>1, <3>2
      <4> QED BY <1>1, <1>2, <4>1
    <3>3. CASE j = 1 \/ k = 1
      BY <1>2, <2>2, <3>2, <3>3
    <3>4. CASE j # 1 /\ k # 1
      <4>1. j - 1 = k - 1
        BY <1>3, <2>2, <3>2, <3>4
      <4>2. j \in Int /\ k \in Int
        BY <3>1
      <4> QED BY <4>1, <4>2
    <3> QED BY <3>3, <3>4
  <2>3. Linked'
    <3>1. ASSUME NEW k \in 1..(Len(seq) + 1), k + 1 \in 1..(Len(seq) + 1) PROVE k \in 1..Len(seq)
      <4>1. Len(seq) \in Nat
        BY <1>1
      <4> QED BY <3>1, <4>1
    <3> QED BY <1>2, <2>1, <3>1 DEF Linked
  <2>4. NoTwice'
    BY <1>2, <2>2 DEF NoTwice
  <2> QED BY <2>3, <2>4
<1>10. cnt' = Len(seq') /\ popped'[1] = popped'[2]
  BY <1>1, <1>2, <1>4 DEF QueueInv, Represents
<1> QED BY <1>7, <1>8, <1>9, <1>10 DEF QueueInv, Represents

LEMMA InsertedBy ==
  ASSUME QueueInv, NEW k \in 1..Len(seq), NEW e \in Elements,
         seq' = SubSeq(seq, 1, k) \o <<e>> \o SubSeq(seq, k + 1, Len(seq))
  PROVE  Inserted(k, e)
<1> DEFINE n == Len(seq)
           p == SubSeq(seq, 1, k)
           q == SubSeq(seq, k + 1, n)
<1>1. n \in Nat /\ k \in Int /\ 1 <= k /\ k <= n /\ \A m \in 1..n : seq[m] \in Elements
  BY EndsOf
<1>2. p \in Seq(Elements) /\ Len(p) = k /\ \A m \in 1..k : p[m] = seq[m]
  <2>1. \A m \in 1..k : seq[m] \in Elements
    BY <1>1
  <2>2. /\ SubSeq(seq, 1, k) \in Seq(Elements)
        /\ Len(SubSeq(seq, 1, k)) = IF 1 <= k THEN k - 1 + 1 ELSE 0
        /\ \A m \in 1..(k - 1 + 1) : SubSeq(seq, 1, k)[m] = seq[1 + m - 1]
    BY <1>1, <2>1, SubSeqProperties
  <2>3. k - 1 + 1 = k /\ \A m \in 1..k : 1 + m - 1 = m
    BY <1>1
  <2> QED BY <1>1, <2>2, <2>3
<1>3. /\ q \in Seq(Elements) /\ Len(q) = n - k
      /\ \A m \in 1..(n - k) : q[m] = seq[k + m]
  <2>1. \A m \in (k + 1)..n : seq[m] \in Elements
    BY <1>1
  <2>2. /\ SubSeq(seq, k + 1, n) \in Seq(Elements)
        /\ Len(SubSeq(seq, k + 1, n)) = IF k + 1 <= n THEN n - (k + 1) + 1 ELSE 0
        /\ \A m \in 1..(n - (k + 1) + 1) : SubSeq(seq, k + 1, n)[m] = seq[(k + 1) + m - 1]
    BY <1>1, <2>1, SubSeqProperties
  <2>3. n - (k + 1) + 1 = n - k /\ \A m \in 1..(n - k) : (k + 1) + m - 1 = k + m
    BY <1>1
  <2>4. (IF k + 1 <= n THEN n - (k + 1) + 1 ELSE 0) = n - k
    BY <1>1
  <2> QED BY <2>2, <2>3, <2>4
<1> HIDE DEF n, p, q
<1>4. <<e>> \in Seq(Elements) /\ Len(<<e>>) = 1 /\ <<e>>[1] = e
  OBVIOUS
<1>5. /\ p \o <<e>> \in Seq(Elements) /\ Len(p \o <<e>>) = k + 1
      /\ \A m \in 1..(k + 1) : (p \o <<e>>)[m] = IF m <= k THEN p[m] ELSE <<e>>[m - k]
  BY <1>2, <1>4, ConcatProperties
<1>6. /\ seq' \in Seq(Elements) /\ Len(seq') = (k + 1) + (n - k)
      /\ \A m \in 1..((k + 1) + (n - k)) :
            seq'[m] = IF m <= k + 1 THEN (p \o <<e>>)[m] ELSE q[m - (k + 1)]
  <2> DEFINE pe == p \o <<e>>
  <2>1. seq' = pe \o q
    BY DEF n, p, q
  <2>2. pe \in Seq(Elements) /\ Len(pe) = k + 1
    BY <1>5
  <2>3. q \in Seq(Elements) /\ Len(q) = n - k
    BY <1>3
  <2> HIDE DEF pe
  <2>4. /\ pe \o q \in Seq(Elements) /\ Len(pe \o q) = Len(pe) + Len(q)
        /\ \A m \in 1..(Len(pe) + Len(q)) :
              (pe \o q)[m] = IF m <= Len(pe) THEN pe[m] ELSE q[m - Len(pe)]
    BY <2>2, <2>3, ConcatProperties
  <2>5. \A m \in 1..((k + 1) + (n - k)) :
           (pe \o q)[m] = IF m <= k + 1 THEN pe[m] ELSE q[m - (k + 1)]
    BY ONLY <2>2, <2>3, <2>4
  <2>6. pe \o q \in Seq(Elements) /\ Len(pe \o q) = (k + 1) + (n - k)
    BY ONLY <2>2, <2>3, <2>4
  <2>7. pe = p \o <<e>>
    BY DEF pe
  <2> QED BY ONLY <2>1, <2>5, <2>6, <2>7
<1>7. Len(seq') = n + 1
  <2>1. (k + 1) + (n - k) = n + 1
    BY <1>1
  <2> QED BY <1>6, <2>1
<1>8. ASSUME NEW m \in 1..k PROVE seq'[m] = seq[m]
  <2>1. m \in 1..(k + 1) /\ m \in 1..((k + 1) + (n - k)) /\ m <= k /\ m <= k + 1
    BY <1>1
  <2>2. seq'[m] = (p \o <<e>>)[m]
    BY <1>6, <2>1
  <2>3. (p \o <<e>>)[m] = p[m]
    BY <1>5, <2>1
  <2> QED BY <1>2, <2>2, <2>3
<1>9. seq'[k + 1] = e
  BY <1>1, <1>4, <1>5, <1>6
<1>10. ASSUME NEW m \in (k + 1)..n PROVE seq'[m + 1] = seq[m]
  <2>1. m + 1 \in 1..((k + 1) + (n - k)) /\ ~(m + 1 <= k + 1) /\ (m + 1) - (k + 1) = m - k
    BY <1>1
  <2>2. m - k \in 1..(n - k) /\ k + (m - k) = m
    BY <1>1
  <2> QED BY <1>3, <1>6, <2>1, <2>2
<1> QED BY <1>6, <1>7, <1>8, <1>9, <1>10 DEF Inserted, n

\* Between two neighbours only the link of the first changes.
LEMMA InsertInv ==
  ASSUME QueueInv, NEW k \in 1..Len(seq), NEW e \in Elements, Free(e), Insert(k, e),
         Inserted(k, e), popped' = popped
  PROVE  QueueInv'
<1>1. /\ seq \in Seq(Elements) /\ Len(seq) \in Nat /\ DOMAIN seq = 1..Len(seq)
      /\ next \in [Elements -> Pointers] /\ cnt = Len(seq)
      /\ \A j \in 1..Len(seq) : seq[j] \in Elements /\ seq[j] # e
  BY EndsOf DEF QueueInv, TypeOK, Represents, Free, In
<1>2. /\ \A j \in 1..(Len(seq) - 1) : next[seq[j]] = seq[j + 1]
      /\ \A m, j \in 1..Len(seq) : seq[m] = seq[j] => m = j
  BY LinksOf
<1>3. /\ seq # <<>> /\ head = seq[1] /\ tail = seq[Len(seq)] /\ next[tail] = Null
      /\ tail \in Elements
  <2>1. seq # <<>>
    BY <1>1
  <2> QED BY <1>1, <2>1, EndsOf
<1>4. CASE tail = seq[k]
  <2>1. k = Len(seq)
    <3>1. Len(seq) \in 1..Len(seq)
      BY <1>1
    <3> QED BY <1>2, <1>3, <1>4, <3>1
  <2>2. Append1(e) /\ Inserted(Len(seq), e)
    BY <1>4, <2>1 DEF Insert
  <2> QED BY <2>2, AppendInv
<1>5. CASE tail # seq[k]
  <2>1. Len(seq) \in Nat /\ k \in Int /\ 1 <= k /\ k < Len(seq)
    <3>1. Len(seq) \in Nat /\ k # Len(seq)
      BY <1>1, <1>3, <1>5
    <3> QED BY <3>1
  <2>2. /\ head' = head /\ tail' = tail /\ cnt' = cnt + 1
        /\ next' = [next EXCEPT ![e] = next[seq[k]], ![seq[k]] = e]
    BY <1>5 DEF Insert
  <2>3. /\ seq' \in Seq(Elements) /\ Len(seq') = Len(seq) + 1 /\ DOMAIN seq' = 1..(Len(seq) + 1)
        /\ \A m \in 1..k : seq'[m] = seq[m]
        /\ seq'[k + 1] = e
        /\ \A m \in (k + 1)..Len(seq) : seq'[m + 1] = seq[m]
    BY DEF Inserted
  <2>4. next[seq[k]] = seq[k + 1] /\ seq[k + 1] \in Elements /\ seq[k] \in Elements /\ seq[k] # e
    <3>1. k \in 1..(Len(seq) - 1) /\ k + 1 \in 1..Len(seq)
      BY <2>1
    <3> QED BY <1>1, <1>2, <3>1
  <2>5. /\ next'[e] = seq[k + 1] /\ next'[seq[k]] = e
        /\ \A d \in Elements : d # e /\ d # seq[k] => next'[d] = next[d]
        /\ next' \in [Elements -> Pointers]
    BY <1>1, <2>2, <2>4 DEF Pointers
  <2>6. TypeOK'
    BY <1>1, <2>2, <2>3, <2>5 DEF QueueInv, TypeOK
  <2>7. Ends'
    <3>1. 1 \in 1..k /\ Len(seq) \in (k + 1)..Len(seq)
      BY <2>1
    <3>2. seq' # <<>> /\ head' = seq'[1] /\ tail' = seq'[Len(seq')]
      BY <1>3, <2>2, <2>3, <3>1
    <3>3. next'[tail'] = Null
      BY <1>1, <1>3, <1>5, <2>1, <2>2, <2>5
    <3> QED BY <3>2, <3>3 DEF Ends
  <2>8. ASSUME NEW j \in 1..Len(seq) PROVE next'[seq'[j]] = seq'[j + 1]
    <3>1. CASE j < k
      <4>1. /\ j \in 1..k /\ j + 1 \in 1..k /\ j \in 1..(Len(seq) - 1) /\ j # k
            /\ j \in 1..Len(seq) /\ k \in 1..Len(seq)
        BY <2>1, <3>1
      <4>2. seq[j] # seq[k] /\ seq[j] # e /\ seq[j] \in Elements
        BY <1>1, <1>2, <4>1
      <4>3. seq'[j] = seq[j] /\ seq'[j + 1] = seq[j + 1] /\ next[seq[j]] = seq[j + 1]
        BY <1>2, <2>3, <4>1
      <4> QED BY <2>5, <4>2, <4>3
    <3>2. CASE j = k
      <4>1. k \in 1..k
        BY <2>1
      <4> QED BY <2>3, <2>5, <3>2, <4>1
    <3>3. CASE j = k + 1
      <4>1. k + 1 \in (k + 1)..Len(seq)
        BY <2>1
      <4> QED BY <2>3, <2>5, <3>3, <4>1
    <3>4. CASE j > k + 1
      <4>1. /\ j - 1 \in (k + 1)..Len(seq) /\ j \in (k + 1)..Len(seq) /\ (j - 1) + 1 = j
            /\ j - 1 \in 1..(Len(seq) - 1) /\ j - 1 \in 1..Len(seq) /\ j - 1 # k
            /\ k \in 1..Len(seq)
        BY <2>1, <3>4
      <4>2. seq[j - 1] # seq[k] /\ seq[j - 1] # e /\ seq[j - 1] \in Elements
        BY <1>1, <1>2, <4>1
      <4>3. seq'[j] = seq[j - 1] /\ seq'[j + 1] = seq[j] /\ next[seq[j - 1]] = seq[j]
        BY <1>2, <2>3, <4>1
      <4> QED BY <2>5, <4>2, <4>3
    <3>5. j < k \/ j = k \/ j = k + 1 \/ j > k + 1
      BY <2>1
    <3> QED BY <3>1, <3>2, <3>3, <3>4, <3>5
  <2>9. Linked'
    <3>1. ASSUME NEW j \in 1..(Len(seq) + 1), j + 1 \in 1..(Len(seq) + 1) PROVE j \in 1..Len(seq)
      BY <2>1, <3>1
    <3> QED BY <2>3, <2>8, <3>1 DEF Linked
  <2>10. NoTwice'
    <3> DEFINE old(m) == IF m <= k THEN m ELSE m - 1
    <3>1. ASSUME NEW m \in 1..(Len(seq) + 1), m # k + 1
          PROVE  old(m) \in 1..Len(seq) /\ seq'[m] = seq[old(m)] /\ seq'[m] # e
      <4>1. CASE m <= k
        <5>1. m \in 1..k /\ m \in 1..Len(seq)
          BY <2>1, <4>1
        <5> QED BY <1>1, <2>3, <4>1, <5>1
      <4>2. CASE ~(m <= k)
        <5>1. m - 1 \in (k + 1)..Len(seq) /\ (m - 1) + 1 = m /\ m - 1 \in 1..Len(seq)
          BY <2>1, <3>1, <4>2
        <5> QED BY <1>1, <2>3, <4>2, <5>1
      <4> QED BY <4>1, <4>2
    <3>2. ASSUME NEW m \in 1..(Len(seq) + 1), NEW j \in 1..(Len(seq) + 1), seq'[m] = seq'[j]
          PROVE  m = j
      <4>1. CASE m = k + 1 \/ j = k + 1
        BY <2>3, <3>1, <3>2, <4>1
      <4>2. CASE m # k + 1 /\ j # k + 1
        <5>1. old(m) = old(j)
          BY <1>2, <3>1, <3>2, <4>2
        <5> QED BY <2>1, <4>2, <5>1
      <4> QED BY <4>1, <4>2
    <3> QED BY <2>3, <3>2 DEF NoTwice
  <2>11. cnt' = Len(seq') /\ popped'[1] = popped'[2]
    BY <1>1, <2>2, <2>3 DEF QueueInv, Represents
  <2> QED BY <2>6, <2>7, <2>9, <2>10, <2>11 DEF QueueInv, Represents
<1> QED BY <1>4, <1>5

LEMMA StepIInv == QueueInv /\ [Next]_queueVars => QueueInv'
<1> SUFFICES ASSUME QueueInv, [Next]_queueVars PROVE QueueInv'
  OBVIOUS
<1>1. seq \in Seq(Elements)
  BY DEF QueueInv, TypeOK
<1>2. CASE Q_pop
  BY <1>2, PopInv
<1>3. CASE Q_popEmpty
  <2>1. seq = <<>> /\ popped' = <<Null, Null>>
    BY <1>3, EndsOf DEF Q_popEmpty
  <2>2. UNCHANGED <<queue, seq>>
    BY <1>3 DEF Q_popEmpty
  <2> QED BY <2>1, <2>2 DEF queue, QueueInv, TypeOK, Pointers, Represents, Ends, Linked, NoTwice
<1>4. CASE Q_init
  <2>1. seq' = <<>> /\ Len(seq') = 0 /\ DOMAIN seq' = {}
    BY <1>4 DEF Q_init
  <2> QED BY <1>4, <2>1 DEF Q_init, QueueInv, TypeOK, Pointers, Represents, Ends, Linked, NoTwice
<1>5. ASSUME NEW e \in Elements, Q_append(e) PROVE QueueInv'
  <2>1. seq' = Append(seq, e) /\ Free(e) /\ Append1(e) /\ popped' = popped
    BY <1>5 DEF Q_append
  <2>2. Inserted(Len(seq), e)
    BY <1>1, <2>1, AppendProperties DEF Inserted
  <2> QED BY <2>1, <2>2, AppendInv
<1>6. ASSUME NEW e \in Elements, Q_push(e) PROVE QueueInv'
  BY <1>6, PushInv DEF Q_push
<1>7. ASSUME NEW e \in Elements, NEW k \in 1..Len(seq), Q_insert_after(k, e) PROVE QueueInv'
  <2>1. /\ seq' = SubSeq(seq, 1, k) \o <<e>> \o SubSeq(seq, k + 1, Len(seq))
        /\ Free(e) /\ Insert(k, e) /\ popped' = popped
    BY <1>7 DEF Q_insert_after
  <2>2. Inserted(k, e)
    BY <2>1, InsertedBy
  <2> QED BY <2>1, <2>2, InsertInv
<1>8. CASE UNCHANGED queueVars
  BY <1>8 DEF queueVars, queue, QueueInv, TypeOK, Represents, Ends, Linked, NoTwice
<1> QED BY <1>2, <1>3, <1>4, <1>5, <1>6, <1>7, <1>8 DEF Next

-----------------------------------------------------------------------------
(* Readings of a counter that wraps.                                       *)

LEMMA ModFacts ==
  ASSUME NEW M \in Nat \ {0}, NEW a \in Int
  PROVE  a % M \in 0..(M - 1) /\ a \div M \in Int /\ a = M * (a \div M) + (a % M)
OBVIOUS

LEMMA ModUnique ==
  ASSUME NEW M \in Nat \ {0}, NEW k \in Int, NEW rem \in 0..(M - 1)
  PROVE  (M * k + rem) % M = rem
OBVIOUS

LEMMA MulSub ==
  ASSUME NEW M \in Nat \ {0}, NEW k \in Int, NEW j \in Int
  PROVE  M * (k - j) = M * k - M * j
OBVIOUS

LEMMA MulAtLeast ==
  ASSUME NEW M \in Nat \ {0}, NEW k \in Int
  PROVE  (k >= 0 => M * k >= 0) /\ (k <= -1 => M * k <= -M)
OBVIOUS

\* The difference of two readings is that of the times, as far as it fits into
\* the counter, and never more.
LEMMA Difference ==
  ASSUME NEW M \in Nat \ {0}, NEW a \in Int, NEW b \in Int, b <= a
  PROVE  /\ ((a % M) - (b % M)) % M \in Nat
         /\ ((a % M) - (b % M)) % M <= a - b
         /\ a - b < M => ((a % M) - (b % M)) % M = a - b
<1> DEFINE d == (a % M) - (b % M)
<1> DEFINE k == (a \div M) - (b \div M)
<1>1. d \in Int /\ k \in Int /\ a - b = M * k + d
  BY ModFacts, MulSub
<1>2. PICK q \in Int, rem \in 0..(M - 1) : d = M * q + rem /\ rem = d % M
  BY <1>1, ModFacts
<1> HIDE DEF d, k
<1>3. a - b = M * (k + q) + rem
  <2>1. M * (k - (-q)) = M * k - M * (-q) BY <1>1, MulSub
  <2>2. M * (0 - q) = M * 0 - M * q BY MulSub
  <2>3. QED BY <1>1, <1>2, <2>1, <2>2
<1>4. k + q \in Int /\ k + q >= 0
  <2>1. k + q <= -1 => M * (k + q) <= -M BY <1>1, MulAtLeast
  <2>2. M * (k + q) \in Int BY <1>1
  <2>3. QED BY <1>1, <1>2, <1>3, <2>1, <2>2
<1>5. M * (k + q) \in Int /\ M * (k + q) >= 0 BY <1>1, <1>4, MulAtLeast
<1>6. ASSUME a - b < M PROVE k + q = 0
  <2>1. ASSUME k + q >= 1 PROVE FALSE
    <3>1. M * ((k + q) - 1) = M * (k + q) - M * 1 BY <1>1, MulSub
    <3>2. M * ((k + q) - 1) >= 0 BY <1>1, <2>1, MulAtLeast
    <3>3. QED BY <1>2, <1>3, <1>5, <1>6, <3>1, <3>2
  <2>2. QED BY <1>4, <2>1
<1>7. rem \in Nat /\ rem <= a - b /\ (a - b < M => rem = a - b)
  BY <1>2, <1>3, <1>5, <1>6
<1>8. QED BY <1>2, <1>7 DEF d

-----------------------------------------------------------------------------
(* Delays and timeouts.                                                    *)

LEMMA TInit == ASSUME T!Looks, T!Init PROVE T!IInv
BY DEF T!Looks, T!Init, T!IInv

LEMMA TStart == ASSUME T!Looks, T!IInv, T!Start PROVE T!IInv'
<1> USE DEF T!Looks, T!IInv, T!Waits
<1>0. PICK a \in Arguments : T!delay_us(a % T!W) \/ T!delay_ms(a) \/ T!timeout_start(a)
  BY DEF T!Start
<1>1. a \in Nat /\ a % T!W \in Nat BY <1>0, ModFacts
<1>2. now % T!W \in 0..(T!W - 1) BY ModFacts
<1>3. CASE T!delay_us(a % T!W)
  BY <1>1, <1>2, <1>3 DEF T!delay_us, T!timer_get_usec
<1>4. CASE T!delay_ms(a)
  <2>1. PICK p \in Nat : p = a * Thousand BY <1>1
  <2>2. p % T!W \in Nat BY ModFacts
  <2>3. QED BY <1>2, <1>4, <2>1, <2>2 DEF T!delay_ms, T!timer_get_usec
<1>5. CASE T!timeout_start(a)
  BY <1>1, <1>2, <1>5 DEF T!timeout_start, T!timer_get_usec
<1>6. QED BY <1>0, <1>3, <1>4, <1>5

LEMMA TLook == ASSUME T!Looks, T!IInv, T!Look PROVE T!IInv'
<1> DEFINE d == ((now % T!W) - (begun % T!W)) % T!W
<1>0. T!W \in Nat \ {0} /\ now \in Int /\ begun \in Int /\ begun <= now
  BY DEF T!Looks, T!IInv
<1>1. d \in Nat /\ d <= now - begun /\ (now - begun < T!W => d = now - begun)
  BY <1>0, Difference
<1> USE DEF T!Looks, T!IInv
<1>2. T!Passed <=> d >= us BY DEF T!Look, T!Passed, T!timer_get_usec
<1> HIDE DEF d
<1>3. CASE T!Passed BY <1>1, <1>2, <1>3 DEF T!Look
<1>4. CASE ~T!Passed
  <2>1. us + Gap <= T!W /\ now > begun => now - begun < us
    BY <1>1, <1>2, <1>4 DEF T!Look
  <2>2. QED BY <1>4, <2>1 DEF T!Look
<1>5. QED BY <1>3, <1>4

LEMMA TTimeout == ASSUME T!Looks, T!IInv, T!timeout_usec PROVE T!IInv'
<1> DEFINE d == ((now % T!W) - (looked % T!W)) % T!W
<1>0. /\ T!W \in Nat \ {0} /\ now \in Int /\ looked \in Int /\ looked <= now
      /\ now - looked < T!W
  BY DEF T!Looks, T!IInv, T!timeout_usec
<1>1. d = now - looked BY <1>0, Difference
<1> USE DEF T!Looks, T!IInv
<1>2. now % T!W \in 0..(T!W - 1) BY ModFacts
<1>3. t' = [time_usecs |-> t.time_usecs + d, time_last |-> now % T!W]
  BY DEF T!timeout_usec, T!timeout_get_usec, T!timer_get_usec
<1> HIDE DEF d
<1>4. t'.time_usecs = now - begun /\ t'.time_last = now % T!W
  BY <1>1, <1>3 DEF T!timeout_usec
<1>5. QED BY <1>2, <1>4 DEF T!timeout_usec

LEMMA TTick == ASSUME T!Looks, T!IInv, T!Tick PROVE T!IInv'
BY DEF T!Looks, T!IInv, T!Tick, T!delay

LEMMA TStep == ASSUME T!Looks, T!IInv, [T!Next]_T!timeVars PROVE T!IInv'
<1>1. CASE UNCHANGED T!timeVars BY <1>1 DEF T!IInv, T!timeVars, T!delay
<1>2. QED BY <1>1, TStart, TLook, TTimeout, TTick DEF T!Next

LEMMA TExact == ASSUME T!Looks, T!IInv PROVE T!TimeoutsExact
<1> USE DEF T!Looks, T!IInv
<1>1. T!NotEarly BY DEF T!NotEarly
<1>2. T!Exact BY DEF T!Exact
<1>3. T!NotLate
  <2>1. CASE waiting = "timeout" BY <2>1 DEF T!NotLate
  <2>2. CASE waiting = "delay" /\ us + Gap <= T!W BY <2>2 DEF T!NotLate
  <2>3. QED BY <2>1, <2>2 DEF T!NotLate
<1>4. QED BY <1>1, <1>2, <1>3 DEF T!TimeoutsExact

-----------------------------------------------------------------------------
(* cmd-watch.                                                              *)

LEMMA WInit == W!Init => W!IInv
BY DEF W!Init, W!IInv, W!Types, W!NoSaveOvertaken, W!NoneOvertaken

\* Reading the directory: a file found newer sets changed_p.
LEMMA WScan ==
  ASSUME W!IInv, W!Opendir \/ W!Closedir \/ W!Fork \/ W!Waitpid \/ \E f \in Files : W!Stat(f)
  PROVE  W!IInv'
<1> USE DEF W!IInv, W!Types, W!NoSaveOvertaken, W!NoneOvertaken, W!scan, W!files
<1>1. CASE W!Opendir
  BY <1>1 DEF W!Opendir
<1>2. CASE W!Closedir
  BY <1>2 DEF W!Closedir
<1>3. CASE W!Fork
  BY <1>3 DEF W!Fork
<1>4. CASE W!Waitpid
  BY <1>4 DEF W!Waitpid
<1>5. ASSUME NEW f \in Files, W!Stat(f) PROVE W!IInv'
  <2>1. CASE W!Newer(f)
    BY <1>5, <2>1 DEF W!Stat, W!Seen, W!Newest, W!Newer
  <2>2. CASE ~W!Newer(f)
    BY <1>5, <2>2 DEF W!Stat, W!Seen, W!Newest
  <2> QED BY <2>1, <2>2
<1> QED BY <1>1, <1>2, <1>3, <1>4, <1>5

\* What is saved is saved now, and nothing that was seen is newer.
LEMMA WStep == ASSUME W!IInv, [W!Next]_W!watchVars PROVE W!IInv'
<1>1. CASE W!Watch
  BY <1>1, WScan DEF W!Watch
<1> USE DEF W!IInv, W!Types, W!NoSaveOvertaken, W!NoneOvertaken, W!scan, W!files
<1>2. CASE W!Second
  BY <1>2 DEF W!Second
<1>3. ASSUME NEW f \in Files, W!Remove(f) PROVE W!IInv'
  BY <1>3 DEF W!Remove
<1>4. ASSUME NEW f \in Files, W!Save(f) PROVE W!IInv'
  BY <1>4 DEF W!Save
<1>5. CASE UNCHANGED W!watchVars
  BY <1>5 DEF W!watchVars
<1> QED BY <1>1, <1>2, <1>3, <1>4, <1>5 DEF W!Next

-----------------------------------------------------------------------------
(* my-install.                                                             *)

\* Sets are counted in Install as they are here.
LEMMA SameCount ==
  ASSUME NEW X
  PROVE  I!Cardinality(X) = Cardinality(X) /\ I!IsFiniteSet(X) = IsFiniteSet(X)
BY DEF I!Cardinality, Cardinality, I!IsFiniteSet, IsFiniteSet

LEMMA IInit == ASSUME I!ConstantsRight, I!Init PROVE I!IInv
<1> USE DEF I!ConstantsRight, I!Init
<1>1. PICK G \in Nat \ {0} : G = Granule
  OBVIOUS
<1>10. /\ I!Stamp(installNow) = 2 * G
       /\ \A d \in Devices : mtime[d] \in Nat /\ mtime[d] <= 2 * G
  <2>1. (2 * G) % G = 0
    <3>1. (G * 2 + 0) % G = 0
      BY <1>1, ModUnique
    <3>2. G * 2 + 0 = 2 * G
      BY <1>1
    <3> QED BY <3>1, <3>2
  <2>2. installNow = 2 * G /\ mtime \in [Devices -> {G, 2 * G}]
    BY <1>1
  <2> QED BY <1>1, <2>1, <2>2 DEF I!Stamp
<1>11. plugged \subseteq Devices
  OBVIOUS
<1>2. devices = <<>> /\ DOMAIN devices = {} /\ previous = <<>> /\ DOMAIN previous = {}
  OBVIOUS
<1>3. I!Booted = {} /\ I!Before = {} /\ I!Cardinality({}) = 0
  BY <1>2, FS_EmptySet, SameCount DEF I!Booted, I!Before
<1>4. I!Types
  BY <1>1, <1>2, <1>10, <1>11 DEF I!Types
<1>5. I!Times
  BY <1>1, <1>10 DEF I!Times
<1>6. I!Ranked
  BY <1>2, <1>3 DEF I!Ranked
<1>7. I!InOrder
  BY <1>2, <1>3 DEF I!InOrder
<1>8. I!Cycle
  BY <1>2, <1>3 DEF I!Cycle
<1>9. I!NoTies
  BY DEF I!NoTies
<1> QED BY <1>4, <1>5, <1>6, <1>7, <1>8, <1>9 DEF I!IInv

\* The clock of the file system: what is later is not older, and what is a
\* boot later is newer, if boots take long enough.
LEMMA StampLater ==
  ASSUME I!ConstantsRight, NEW a \in Nat, NEW b \in Nat
  PROVE  /\ I!Stamp(a) \in Nat /\ I!Stamp(a) <= a
         /\ a <= b => I!Stamp(a) <= I!Stamp(b)
         /\ BootTime >= Granule /\ a + BootTime <= b => I!Stamp(a) < I!Stamp(b)
<1>1. PICK G \in Nat \ {0} : G = Granule
  BY DEF I!ConstantsRight
<1>2. /\ a % G \in 0..(G - 1) /\ a \div G \in Int /\ a = G * (a \div G) + (a % G)
      /\ b % G \in 0..(G - 1) /\ b \div G \in Int /\ b = G * (b \div G) + (b % G)
  BY <1>1, ModFacts
<1>3. PICK u \in Int, v \in Int : u = a \div G /\ v = b \div G
  BY <1>2
<1>4. G * u \in Int /\ G * v \in Int /\ G * (v - u) = G * v - G * u
  BY <1>1, <1>3, MulSub
<1>5. I!Stamp(a) = G * u /\ I!Stamp(b) = G * v
  BY <1>1, <1>2, <1>3, <1>4 DEF I!Stamp
<1>6. v - u >= 0 => G * v >= G * u
  BY <1>1, <1>3, <1>4, MulAtLeast
<1>7. v - u <= -1 => G * v - G * u <= -G
  BY <1>1, <1>3, <1>4, MulAtLeast
<1>8. a <= b => G * u <= G * v
  BY <1>1, <1>2, <1>3, <1>4, <1>6, <1>7
<1>9. a + G <= b => G * u < G * v
  BY <1>1, <1>2, <1>3, <1>4
<1>10. u >= 0 /\ G * u >= 0
  <2>1. u <= -1 => G * u <= -G
    BY <1>1, <1>3, MulAtLeast
  <2>2. u >= 0
    BY <1>1, <1>2, <1>3, <1>4, <2>1
  <2> QED BY <1>1, <1>3, <2>2, MulAtLeast
<1>11. BootTime \in Nat
  BY <1>1 DEF I!ConstantsRight
<1> QED BY <1>1, <1>2, <1>3, <1>4, <1>5, <1>8, <1>9, <1>10, <1>11

\* What the sequences and the sets of their elements are.
LEMMA SequencesOf ==
  ASSUME I!Types
  PROVE  /\ i \in Nat /\ DOMAIN devices = 1..i /\ Len(devices) = i
         /\ \A k \in 1..i : devices[k] \in Devices
         /\ Len(previous) \in Nat /\ DOMAIN previous = 1..Len(previous)
         /\ \A k \in 1..Len(previous) : previous[k] \in Devices
BY DEF I!Types

\* The oldest tty exists: there are finitely many, and the ties go by name.
LEMMA OldestExists ==
  ASSUME I!ConstantsRight, I!Types, plugged # {}
  PROVE  \E d \in plugged : \A e \in plugged : I!Older(d, e)
<1> DEFINE U(d) == {e \in plugged : I!Older(e, d)}
           All == {U(d) : d \in plugged}
<1>1. IsFiniteSet(plugged) /\ plugged \subseteq Nat /\ \A d \in plugged : mtime[d] \in Nat
  BY SameCount, FS_Subset DEF I!ConstantsRight, I!Types
<1>2. All \subseteq FiniteSubsetsOf(plugged) /\ All # {}
  <2>1. FiniteSubsetsOf(plugged) = SUBSET plugged
    BY <1>1, FS_FiniteSubsetsOfFinite
  <2>2. All \subseteq SUBSET plugged /\ All # {}
    OBVIOUS
  <2> QED BY <2>1, <2>2
<1>3. IsWellFoundedOn(StrictSubsetOrdering(plugged), FiniteSubsetsOf(plugged))
  BY FS_StrictSubsetOrderingWellFounded
<1> HIDE DEF All
<1>4. PICK least \in All : \A other \in All : ~(<<other, least>> \in StrictSubsetOrdering(plugged))
  BY <1>2, <1>3, WFMin
<1>5. PICK d \in plugged : least = U(d)
  BY <1>4 DEF All
<1>6. ASSUME NEW e \in plugged PROVE I!Older(d, e)
  <2>1. CASE ~I!Older(d, e)
    <3>1. I!Older(e, d) /\ I!Older(d, d)
      BY <1>1, <2>1 DEF I!Older
    <3>2. ASSUME NEW x \in plugged, I!Older(x, e) PROVE I!Older(x, d)
      <4>1. /\ mtime[x] \in Nat /\ mtime[e] \in Nat /\ mtime[d] \in Nat
            /\ x \in Nat /\ e \in Nat /\ d \in Nat
        BY <1>1
      <4> QED BY <3>1, <3>2, <4>1 DEF I!Older
    <3>3. U(e) \subseteq U(d)
      BY <3>2
    <3>4. d \in U(d) /\ d \notin U(e)
      BY <2>1, <3>1
    <3>5. U(e) \in All /\ U(e) \in SUBSET plugged /\ U(d) \in SUBSET plugged
      BY DEF All
    <3>6. <<U(e), U(d)>> \in StrictSubsetOrdering(plugged)
      BY <3>3, <3>4, <3>5 DEF StrictSubsetOrdering
    <3> QED BY <1>4, <1>5, <3>5, <3>6
  <2> QED BY <2>1
<1> QED BY <1>6

LEMMA FirstIsOldest ==
  ASSUME I!ConstantsRight, I!Types, plugged # {}
  PROVE  /\ I!find_ttyusb_first \in plugged
         /\ \A e \in plugged : I!Older(I!find_ttyusb_first, e)
<1> DEFINE Earliest(d) == d \in plugged /\ \A e \in plugged : I!Older(d, e)
<1>1. \E d : Earliest(d)
  BY OldestExists
<1>2. I!find_ttyusb_first = CHOOSE d \in plugged : \A e \in plugged : I!Older(d, e)
  BY DEF I!find_ttyusb_first
<1> QED BY <1>1, <1>2

\* A step that leaves the ttys, the boots and the clock alone.
IKept ==
    /\ UNCHANGED <<plugged, mtime, installNow, devices, previous, i, quiet, runs, tied>>
    /\ num_pis' \in Nat /\ since' \in Nat /\ since' <= installNow

\* Option, Parse, open_tty and the echo choose no tty.
LEMMA IKeptInv ==
  ASSUME I!IInv, IKept,
         \/ /\ phase' \in {"main", "find", "echo", "usage", "panic", "todo"}
            /\ phase \in {"main", "find", "open"}
            /\ phase' = "main" => phase = "main"
         \/ /\ phase = "open" /\ phase' \in {"open", "boot"}
            /\ UNCHANGED <<dev_name, num_pis>>
            /\ phase' = "boot" => since' = installNow
  PROVE  I!IInv'
<1> USE DEF IKept
<1>1. I!Booted' = I!Booted /\ I!Before' = I!Before
  BY DEF I!Booted, I!Before
<1>2. I!Types'
  BY DEF I!IInv, I!Types
<1>3. I!Times'
  BY DEF I!IInv, I!Times, I!Stamp
<1>4. I!Ranked'
  BY <1>1 DEF I!IInv, I!Ranked
<1>5. I!InOrder'
  BY <1>1 DEF I!IInv, I!InOrder
<1>6. I!Cycle'
  BY <1>1 DEF I!IInv, I!Cycle
<1>7. I!NoTies'
  BY DEF I!IInv, I!NoTies
<1> QED BY <1>2, <1>3, <1>4, <1>5, <1>6, <1>7 DEF I!IInv

\* A tty that is gone ends my-install.
LEMMA INotFound ==
  ASSUME I!IInv, phase \in {"main", "find"}, I!NotFound
  PROVE  I!IInv'
<1> USE DEF I!options, I!ttys, I!loop, I!history
<1>1. /\ phase' = "panic" /\ plugged' \subseteq plugged
      /\ quiet' => quiet /\ plugged' = plugged
      /\ UNCHANGED <<mtime, installNow, num_pis, i, devices, since, runs, previous, tied>>
  BY DEF I!NotFound
<1>2. I!Booted' = I!Booted /\ I!Before' = I!Before
  BY <1>1 DEF I!Booted, I!Before
<1>3. I!Types' /\ I!Times' /\ I!NoTies'
  BY <1>1 DEF I!IInv, I!Types, I!Times, I!NoTies, I!Stamp
<1>4. I!Ranked'
  BY <1>1, <1>2 DEF I!IInv, I!Ranked
<1>5. I!InOrder'
  BY <1>1, <1>2 DEF I!IInv, I!InOrder
<1>6. I!Cycle'
  BY <1>1, <1>2 DEF I!IInv, I!Cycle
<1> QED BY <1>3, <1>4, <1>5, <1>6 DEF I!IInv

LEMMA IOption == ASSUME I!IInv, I!Option PROVE I!IInv'
<1> USE DEF I!options, I!ttys, I!loop, I!history
<1>1. num_pis \in Nat /\ since \in Nat /\ since <= installNow
  BY DEF I!IInv, I!Types
<1>2. CASE phase = "main" /\ I!NotFound
  BY <1>2, INotFound
<1>3. CASE ~(phase = "main" /\ I!NotFound)
  <2>1. /\ phase = "main"
        /\ UNCHANGED <<plugged, mtime, installNow, devices, previous, i, quiet, runs, since, tied>>
        /\ phase' \in {"main", "usage"}
        /\ num_pis' = num_pis \/ num_pis' \in 0..9
    BY <1>3 DEF I!Option, I!Dies, I!Parsed, I!WithArgument
  <2> QED BY <1>1, <2>1, IKeptInv DEF IKept
<1> QED BY <1>2, <1>3

LEMMA IOthers ==
  ASSUME I!IInv, I!Parse \/ I!OpenFails \/ I!Opens \/ I!Echo
  PROVE  I!IInv'
<1> USE DEF I!options, I!ttys, I!loop, I!history
<1>1. num_pis \in Nat /\ since \in Nat /\ since <= installNow /\ installNow \in Nat
  BY DEF I!IInv, I!Types
<1>2. IKept
  BY <1>1 DEF I!Parse, I!OpenFails, I!Opens, I!Echo, I!Dies, IKept
<1> QED BY <1>2, IKeptInv DEF I!Parse, I!OpenFails, I!Opens, I!Echo

\* A tty that was booted is the oldest only if every tty was; and with the ttys
\* of the run before and no others, the oldest is that of the same rank.
LEMMA IFind == ASSUME I!ConstantsRight, I!IInv, I!Find PROVE I!IInv'
<1> DEFINE first == I!find_ttyusb_first
<1>0. /\ phase = "find" /\ i < num_pis /\ plugged # {}
      /\ dev_name' = first /\ phase' = "open"
      /\ UNCHANGED <<plugged, mtime, installNow, num_pis, i, devices, since, runs, previous, quiet,
                     tied>>
  BY DEF I!Find, I!find_ttyusb_i, I!ttys, I!options, I!history
<1>1. first \in plugged /\ \A e \in plugged : I!Older(first, e)
  BY <1>0, FirstIsOldest DEF I!IInv
<1> HIDE DEF first
<1>2. dev_name' = first /\ phase' = "open"
  BY <1>0
<1>3. I!Booted' = I!Booted /\ I!Before' = I!Before
  BY <1>0 DEF I!Booted, I!Before
<1>4. /\ plugged \subseteq Devices /\ \A d \in Devices : mtime[d] \in Nat
      /\ i \in Nat /\ num_pis \in Nat /\ DOMAIN devices = 1..i
      /\ DOMAIN previous = 1..Len(previous) /\ Len(previous) \in Nat
      /\ \A k \in 1..i : devices[k] \in Devices
  BY SequencesOf DEF I!IInv, I!Types
<1>5. ~tied => \A d \in I!Booted, e \in plugged \ I!Booted : mtime[e] < mtime[d]
  BY <1>0 DEF I!IInv, I!Ranked
<1>6. ASSUME ~tied, first \in I!Booted PROVE I!Cardinality(plugged) < num_pis
  <2>1. plugged \subseteq I!Booted
    BY <1>1, <1>4, <1>5, <1>6 DEF I!Older
  <2>2. I!Booted \subseteq Devices /\ IsFiniteSet(Devices)
    BY <1>4, SameCount DEF I!Booted, I!ConstantsRight
  <2>3. IsFiniteSet(I!Booted) /\ IsFiniteSet(plugged)
    BY <1>4, <2>2, FS_Subset
  <2>4. Cardinality(plugged) <= Cardinality(I!Booted) /\ Cardinality(plugged) \in Nat
    BY <2>1, <2>3, FS_Subset, FS_CardinalityType
  <2>5. Cardinality(I!Booted) = i
    BY SameCount DEF I!IInv, I!Ranked
  <2> QED BY <1>0, <1>4, <2>4, <2>5, SameCount
<1>7. ASSUME quiet, ~tied, I!Before = plugged, i < Len(previous) PROVE first = previous[i + 1]
  <2>1. /\ \A k \in 1..i : k \in 1..Len(previous)
        /\ i + 1 \in 1..Len(previous)
    BY <1>4, <1>7
  <2>2. \A k \in 1..i : devices[k] = previous[k]
    BY <1>4, <1>7, <2>1 DEF I!IInv, I!Cycle
  <2>3. \A k \in 1..Len(previous) : i + 1 < k => mtime[previous[i + 1]] < mtime[previous[k]]
    BY <1>4, <1>7, <2>1 DEF I!IInv, I!Cycle
  <2>4. previous[i + 1] \in plugged /\ previous[i + 1] \in Devices
    BY <1>4, <1>7, <2>1 DEF I!Before
  <2>5. previous[i + 1] \notin I!Booted
    <3>1. ASSUME NEW k \in 1..i PROVE previous[k] # previous[i + 1]
      <4>1. k < i + 1
        BY <1>4
      <4> QED BY <1>4, <1>7, <2>1, <4>1 DEF I!IInv, I!InOrder
    <3> QED BY <1>4, <2>2, <3>1 DEF I!Booted
  <2>6. PICK k \in 1..Len(previous) : first = previous[k]
    BY <1>1, <1>4, <1>7 DEF I!Before
  <2>7. ~(mtime[previous[i + 1]] < mtime[first])
    BY <1>1, <1>4, <2>4 DEF I!Older
  <2>8. CASE k <= i
    <3>1. k \in 1..i /\ first \in I!Booted
      BY <1>4, <2>2, <2>6, <2>8 DEF I!Booted
    <3> QED BY <1>5, <1>7, <2>4, <2>5, <2>7, <3>1
  <2>9. CASE k > i + 1
    BY <2>3, <2>6, <2>7, <2>9
  <2> QED BY <1>4, <2>6, <2>8, <2>9
<1>8. I!Types' /\ I!Times' /\ I!InOrder' /\ I!NoTies'
  BY <1>0, <1>2, <1>3 DEF I!IInv, I!Types, I!Times, I!InOrder, I!NoTies, I!Stamp
<1>9. I!Ranked'
  BY <1>0, <1>1, <1>2, <1>3, <1>4, <1>6 DEF I!IInv, I!Ranked
<1>10. I!Cycle'
  BY <1>0, <1>2, <1>3, <1>7 DEF I!IInv, I!Cycle
<1> QED BY <1>8, <1>9, <1>10 DEF I!IInv

\* A boot makes its tty the newest.
LEMMA IBoot == ASSUME I!ConstantsRight, I!IInv, I!Boot PROVE I!IInv'
<1>1. /\ phase = "boot" /\ dev_name \in plugged
      /\ UNCHANGED <<plugged, installNow, num_pis, dev_name, since, runs, previous, quiet>>
  BY DEF I!Boot, I!options, I!history
<1>2. /\ plugged \subseteq Devices /\ mtime \in [Devices -> Nat] /\ dev_name \in Devices
      /\ i \in Nat /\ num_pis \in Nat /\ DOMAIN devices = 1..i /\ Len(devices) = i
      /\ DOMAIN previous = 1..Len(previous) /\ Len(previous) \in Nat
      /\ devices \in Seq(Devices) /\ \A k \in 1..i : devices[k] \in Devices
      /\ \A k \in 1..Len(previous) : previous[k] \in Devices
      /\ installNow \in Nat /\ since \in Nat
  BY <1>1, SequencesOf DEF I!IInv, I!Types
<1>3. I!Before' = I!Before
  BY <1>1 DEF I!Before
<1>4. CASE \E k \in DOMAIN devices : devices[k] = dev_name
  <2>1. phase' = "stuck" /\ UNCHANGED <<mtime, i, devices, tied>>
    BY <1>4 DEF I!Boot
  <2>2. I!Booted' = I!Booted /\ dev_name \in I!Booted
    BY <1>4, <2>1 DEF I!Booted
  <2>3. tied \/ I!Cardinality(plugged) < num_pis
    BY <1>1, <2>2 DEF I!IInv, I!Ranked
  <2>4. I!Types' /\ I!Times' /\ I!InOrder' /\ I!Cycle' /\ I!NoTies'
    BY <1>1, <1>3, <2>1, <2>2 DEF I!IInv, I!Types, I!Times, I!InOrder, I!Cycle, I!NoTies, I!Stamp
  <2>5. I!Ranked'
    BY <1>1, <2>1, <2>2, <2>3 DEF I!IInv, I!Ranked
  <2> QED BY <2>4, <2>5 DEF I!IInv
<1>5. CASE ~\E k \in DOMAIN devices : devices[k] = dev_name
  <2> DEFINE new == I!Stamp(installNow)
  <2>1. /\ installNow >= since + BootTime
        /\ mtime' = [mtime EXCEPT ![dev_name] = new]
        /\ tied' = (tied \/ \E d \in plugged \ {dev_name} : mtime[d] >= new)
        /\ devices' = Append(devices, dev_name)
        /\ i' = i + 1 /\ phase' = "find"
    BY <1>5 DEF I!Boot
  <2>2. /\ new \in Nat /\ I!Stamp(since) \in Nat /\ I!Stamp(since) <= new
        /\ BootTime >= Granule => I!Stamp(since) < new
    <3>1. BootTime \in Nat
      BY DEF I!ConstantsRight
    <3>2. since <= installNow
      BY <1>2, <2>1, <3>1
    <3> QED BY <1>2, <2>1, <3>1, <3>2, StampLater
  <2>3. \A d \in Devices : mtime[d] \in Nat /\ mtime[d] <= I!Stamp(since)
    BY <1>1, <1>2 DEF I!IInv, I!Times
  <2> HIDE DEF new
  <2>4. /\ mtime'[dev_name] = new /\ mtime' \in [Devices -> Nat]
        /\ \A d \in Devices : d # dev_name => mtime'[d] = mtime[d]
    BY <1>2, <2>1, <2>2
  <2>14. I!NoTies'
    <3>1. BootTime >= Granule => \A d \in plugged : ~(mtime[d] >= new)
      BY <1>2, <2>2, <2>3
    <3> QED BY <2>1, <3>1 DEF I!IInv, I!NoTies
  <2>15. ~tied' => ~tied /\ \A d \in plugged : d # dev_name => mtime[d] < new
    <3>1. ~tied' => ~tied /\ \A d \in plugged : d # dev_name => ~(mtime[d] >= new)
      BY <2>1, Zenon
    <3>2. \A d \in plugged : ~(mtime[d] >= new) => mtime[d] < new
      BY <1>2, <2>2, <2>3
    <3> QED BY <3>1, <3>2
  <2>5. /\ devices' \in Seq(Devices) /\ Len(devices') = i + 1 /\ DOMAIN devices' = 1..(i + 1)
        /\ devices'[i + 1] = dev_name
        /\ \A k \in 1..i : devices'[k] = devices[k] /\ devices[k] # dev_name
    <3>1. /\ devices' \in Seq(Devices) /\ Len(devices') = i + 1
          /\ devices'[i + 1] = dev_name /\ \A k \in 1..i : devices'[k] = devices[k]
      BY <1>2, <2>1, AppendProperties
    <3>2. DOMAIN devices' = 1..(i + 1)
      BY <3>1
    <3> QED BY <1>2, <1>5, <3>1, <3>2
  <2>6. I!Booted' = I!Booted \union {dev_name} /\ dev_name \notin I!Booted
    <3>1. \A k \in 1..(i + 1) : k \in 1..i \/ k = i + 1
      BY <1>2
    <3>2. \A k \in 1..i : k \in 1..(i + 1)
      BY <1>2
    <3>3. i + 1 \in 1..(i + 1)
      BY <1>2
    <3> QED BY <1>2, <2>5, <3>1, <3>2, <3>3 DEF I!Booted
  <2>7. I!Cardinality(I!Booted') = i + 1
    <3>1. I!Booted \subseteq Devices /\ IsFiniteSet(Devices)
      BY <1>2, SameCount DEF I!Booted, I!ConstantsRight
    <3>2. IsFiniteSet(I!Booted)
      BY <3>1, FS_Subset
    <3>3. Cardinality(I!Booted) = i
      BY SameCount DEF I!IInv, I!Ranked
    <3>4. Cardinality(I!Booted') = Cardinality(I!Booted) + 1
      BY <2>6, <3>2, FS_AddElement
    <3> QED BY <3>3, <3>4, SameCount
  <2>8. I!Types'
    BY <1>1, <2>1, <2>4, <2>5 DEF I!IInv, I!Types
  <2>9. I!Times'
    <3>1. I!Stamp(installNow)' = new
      BY <1>1 DEF I!Stamp, new
    <3>2. \A d \in Devices : mtime'[d] \in Nat /\ mtime'[d] <= new
      <4>1. ASSUME NEW d \in Devices PROVE mtime'[d] \in Nat /\ mtime'[d] <= new
        <5>1. mtime[d] \in Nat /\ mtime[d] <= new /\ new \in Nat
          BY <1>2, <2>2, <2>3
        <5>2. mtime'[d] = new \/ mtime'[d] = mtime[d]
          BY <2>4
        <5> QED BY <5>1, <5>2
      <4> QED BY <4>1
    <3> QED BY <2>1, <3>1, <3>2 DEF I!Times
  <2>10. I!Ranked'
    <3>1. ~tied => \A d \in I!Booted, e \in plugged \ I!Booted : mtime[e] < mtime[d]
      BY <1>1 DEF I!IInv, I!Ranked
    <3>2. I!Booted \subseteq Devices
      BY <1>2 DEF I!Booted
    <3>3. ASSUME ~tied', NEW d \in I!Booted', NEW e \in plugged \ I!Booted'
          PROVE  mtime'[e] < mtime'[d]
      <4>1. e \in plugged /\ e # dev_name /\ e \notin I!Booted /\ mtime'[e] = mtime[e]
        BY <1>2, <2>4, <2>6
      <4>2. CASE d = dev_name
        BY <2>4, <2>15, <3>3, <4>1, <4>2
      <4>3. CASE d # dev_name
        <5>1. d \in I!Booted /\ mtime'[d] = mtime[d]
          BY <2>4, <2>6, <3>2, <4>3
        <5> QED BY <2>15, <3>1, <3>3, <4>1, <5>1
      <4> QED BY <4>2, <4>3
    <3> QED BY <1>1, <2>1, <2>7, <3>3 DEF I!Ranked
  <2>11. I!InOrder'
    <3>1. ASSUME quiet, ~tied', NEW j \in 1..(i + 1), NEW k \in 1..(i + 1), j < k
          PROVE  mtime'[devices'[j]] < mtime'[devices'[k]]
      <4>1. j \in 1..i /\ mtime'[devices'[j]] = mtime[devices[j]]
        <5>1. j \in 1..i
          BY <1>2, <3>1
        <5> QED BY <1>2, <2>4, <2>5, <5>1
      <4>2. CASE k = i + 1
        <5>1. devices[j] \in I!Booted /\ devices[j] # dev_name
          BY <1>2, <2>5, <4>1 DEF I!Booted
        <5>2. devices[j] \in plugged
          BY <3>1, <5>1 DEF I!IInv, I!InOrder
        <5> QED BY <1>2, <2>4, <2>5, <2>15, <3>1, <4>1, <4>2, <5>1, <5>2
      <4>3. CASE k # i + 1
        <5>1. k \in 1..i
          BY <1>2, <4>3
        <5>2. mtime'[devices'[k]] = mtime[devices[k]]
          BY <1>2, <2>4, <2>5, <5>1
        <5> QED BY <1>2, <2>15, <3>1, <4>1, <5>1, <5>2 DEF I!IInv, I!InOrder
      <4> QED BY <4>2, <4>3
    <3>2. quiet => I!Booted' \subseteq plugged
      BY <1>1, <2>6 DEF I!IInv, I!InOrder
    <3> QED BY <1>1, <1>3, <2>5, <2>15, <3>1, <3>2 DEF I!IInv, I!InOrder
  <2>12. I!Cycle'
    <3> SUFFICES ASSUME quiet, ~tied', I!Before = plugged PROVE I!Cycle'
      BY <1>1, <1>3 DEF I!Cycle
    <3>1. /\ \A k \in 1..i : k \in 1..Len(previous) => devices[k] = previous[k]
          /\ \A j, k \in 1..Len(previous) : i < j /\ j < k => mtime[previous[j]] < mtime[previous[k]]
          /\ i < Len(previous) => dev_name = previous[i + 1]
      BY <1>1, <1>2, <2>15 DEF I!IInv, I!Cycle
    <3>2. \A j, k \in 1..Len(previous) : j < k => previous[j] # previous[k]
      BY <1>2, <2>15 DEF I!IInv, I!InOrder
    <3>3. ASSUME NEW k \in 1..(i + 1), k \in 1..Len(previous) PROVE devices'[k] = previous[k]
      <4>1. CASE k = i + 1
        BY <1>2, <2>5, <3>1, <3>3, <4>1
      <4>2. CASE k # i + 1
        <5>1. k \in 1..i
          BY <1>2, <4>2
        <5> QED BY <2>5, <3>1, <3>3, <5>1
      <4> QED BY <4>1, <4>2
    <3>4. ASSUME NEW j \in 1..Len(previous), NEW k \in 1..Len(previous), i + 1 < j, j < k
          PROVE  mtime'[previous[j]] < mtime'[previous[k]]
      <4>1. /\ i < j /\ i < Len(previous) /\ i + 1 \in 1..Len(previous) /\ i + 1 < k
        BY <1>2, <3>4
      <4>2. previous[j] # dev_name /\ previous[k] # dev_name
        BY <3>1, <3>2, <3>4, <4>1
      <4> QED BY <1>2, <2>4, <3>1, <3>4, <4>1, <4>2
    <3> QED BY <1>1, <1>2, <2>1, <2>5, <3>3, <3>4 DEF I!Cycle
  <2> QED BY <2>8, <2>9, <2>10, <2>11, <2>12, <2>14 DEF I!IInv
<1> QED BY <1>4, <1>5

\* Typing or plugging in again ends the order, and only that.
LEMMA ITouched ==
  ASSUME I!ConstantsRight, I!IInv, I!Type \/ \E d \in Devices : I!Replug(d)
  PROVE  I!IInv'
<1>1. /\ phase = "echo" /\ phase' = phase /\ quiet' = FALSE
      /\ UNCHANGED <<plugged, installNow, num_pis, i, devices, since, runs, previous, tied>>
      /\ \E d \in Devices : mtime' = [mtime EXCEPT ![d] = I!Stamp(installNow)]
  BY SequencesOf DEF I!IInv, I!Type, I!Replug, I!options, I!loop
<1>2. I!Stamp(installNow) \in Nat
  BY StampLater DEF I!IInv, I!Types
<1>3. /\ mtime' \in [Devices -> Nat] /\ I!Stamp(installNow)' = I!Stamp(installNow)
      /\ \A d \in Devices : mtime'[d] \in {mtime[d], I!Stamp(installNow)}
  <2>1. mtime \in [Devices -> Nat]
    BY DEF I!IInv, I!Types
  <2> QED BY <1>1, <1>2, <2>1 DEF I!Stamp
<1>4. I!Booted' = I!Booted /\ I!Before' = I!Before
  BY <1>1 DEF I!Booted, I!Before
<1>5. I!Types'
  BY <1>1, <1>3 DEF I!IInv, I!Types
<1>6. I!Times'
  <2>1. ASSUME NEW d \in Devices PROVE mtime'[d] <= I!Stamp(installNow)
    <3>1. mtime[d] <= I!Stamp(installNow)
      BY DEF I!IInv, I!Times
    <3> QED BY <1>2, <1>3, <3>1
  <2> QED BY <1>1, <1>3, <2>1 DEF I!Times
<1>7. I!Ranked' /\ I!InOrder' /\ I!Cycle' /\ I!NoTies'
  BY <1>1, <1>4 DEF I!IInv, I!Ranked, I!InOrder, I!Cycle, I!NoTies
<1> QED BY <1>5, <1>6, <1>7 DEF I!IInv

\* The next run begins with the ttys in the order of this one's boots.
LEMMA IAgain == ASSUME I!ConstantsRight, I!IInv, I!Again PROVE I!IInv'
<1>1. /\ phase = "echo" /\ runs' = runs + 1 /\ previous' = devices
      /\ num_pis' = 0 /\ phase' = "main" /\ i' = 0 /\ devices' = <<>> /\ since' = 0
      /\ UNCHANGED <<plugged, mtime, installNow, quiet, tied>>
  BY DEF I!Again, I!ttys
<1>2. /\ DOMAIN devices' = {} /\ Len(devices') = 0 /\ devices' \in Seq(Devices)
      /\ I!Booted' = {} /\ I!Before' = I!Booted
      /\ DOMAIN devices = 1..i /\ Len(devices) = i /\ i \in Nat
      /\ \A k \in 1..i : devices[k] \in Devices
  BY <1>1, SequencesOf DEF I!Booted, I!Before, I!IInv
<1>3. I!Cardinality({}) = 0
  BY FS_EmptySet, SameCount
<1>4. I!Types' /\ I!Times' /\ I!NoTies'
  BY <1>1, <1>2 DEF I!IInv, I!Types, I!Times, I!NoTies, I!Stamp
<1>5. I!Ranked'
  BY <1>1, <1>2, <1>3 DEF I!Ranked
<1>6. quiet /\ ~tied => \A j, k \in 1..i : j < k => mtime[devices[j]] < mtime[devices[k]]
  BY <1>2 DEF I!IInv, I!InOrder
<1>7. \A d \in Devices : mtime[d] \in Nat
  BY DEF I!IInv, I!Types
<1>8. quiet /\ ~tied => \A j, k \in 1..i : j < k => devices[j] # devices[k]
  BY <1>2, <1>6, <1>7
<1>9. runs' # 1
  BY <1>1 DEF I!IInv, I!Types
<1>10. I!InOrder'
  BY <1>1, <1>2, <1>8, <1>9 DEF I!IInv, I!InOrder, I!Ranked
<1>11. I!Cycle'
  BY <1>1, <1>2, <1>6 DEF I!Cycle
<1> QED BY <1>4, <1>5, <1>10, <1>11 DEF I!IInv

LEMMA IUnplug ==
  ASSUME I!ConstantsRight, I!IInv, NEW d \in Devices, I!Unplug(d)
  PROVE  I!IInv'
<1>1. /\ phase = "open" /\ runs = 1 /\ plugged' = plugged \ {d}
      /\ quiet' = (quiet /\ devices = <<>>) /\ phase' = phase
      /\ UNCHANGED <<mtime, installNow, num_pis, dev_name, i, devices, since, runs, previous,
                     tied>>
  BY DEF I!Unplug, I!options, I!loop
<1>2. /\ i \in Nat /\ DOMAIN devices = 1..i /\ Len(devices) = i /\ plugged \subseteq Devices
      /\ num_pis \in Nat
  BY SequencesOf DEF I!IInv, I!Types
<1>3. /\ previous = <<>> /\ DOMAIN previous = {} /\ Len(previous) = 0 /\ I!Before = {}
      /\ I!Before' = {} /\ I!Booted' = I!Booted
  BY <1>1 DEF I!IInv, I!InOrder, I!Before, I!Booted
<1>4. quiet' => quiet /\ i = 0 /\ DOMAIN devices = {} /\ I!Booted = {}
  <2>1. quiet' => quiet /\ devices = <<>>
    BY <1>1, Zenon
  <2>2. devices = <<>> => i = 0 /\ DOMAIN devices = {} /\ I!Booted = {}
    BY <1>2 DEF I!Booted
  <2> QED BY <2>1, <2>2
<1>5. I!Cardinality({}) = 0
  BY FS_EmptySet, SameCount
<1>6. I!Cardinality(plugged) < num_pis => I!Cardinality(plugged') < num_pis
  <2>1. IsFiniteSet(plugged) /\ plugged' \in SUBSET plugged
    BY <1>1, <1>2, FS_Subset, SameCount DEF I!ConstantsRight
  <2>2. IsFiniteSet(plugged')
    BY <2>1, FS_Subset
  <2>3. /\ Cardinality(plugged') <= Cardinality(plugged)
        /\ Cardinality(plugged) \in Nat /\ Cardinality(plugged') \in Nat
    BY <2>1, <2>2, FS_Subset, FS_CardinalityType
  <2> QED BY <1>2, <2>3, SameCount
<1>7. I!Types' /\ I!Times' /\ I!NoTies'
  BY <1>1 DEF I!IInv, I!Types, I!Times, I!NoTies, I!Stamp
<1>8. I!Ranked'
  BY <1>1, <1>3, <1>6 DEF I!IInv, I!Ranked
<1>9. I!InOrder'
  BY <1>1, <1>2, <1>3, <1>4, <1>5 DEF I!IInv, I!InOrder
<1>10. I!Cycle'
  BY <1>1, <1>2, <1>3, <1>4 DEF I!Cycle
<1> QED BY <1>7, <1>8, <1>9, <1>10 DEF I!IInv

LEMMA ITick == ASSUME I!ConstantsRight, I!IInv, I!Tick PROVE I!IInv'
<1>1. /\ installNow' = installNow + 1
      /\ UNCHANGED <<plugged, mtime, num_pis, dev_name, phase, i, devices, since, runs, previous,
                     quiet, tied>>
  BY DEF I!Tick, I!ttys, I!options, I!loop, I!history
<1>2. I!Booted' = I!Booted /\ I!Before' = I!Before
  BY <1>1 DEF I!Booted, I!Before
<1>3. I!Types'
  BY <1>1 DEF I!IInv, I!Types
<1>4. /\ I!Stamp(installNow) <= I!Stamp(installNow') /\ I!Stamp(installNow) \in Nat
      /\ I!Stamp(installNow') \in Nat /\ I!Stamp(since)' = I!Stamp(since)
  <2>1. installNow \in Nat /\ installNow' \in Nat /\ installNow <= installNow'
    BY <1>1 DEF I!IInv, I!Types
  <2> QED BY <1>1, <2>1, StampLater DEF I!Stamp
<1>5. I!Times'
  <2>1. ASSUME NEW d \in Devices PROVE mtime[d] <= I!Stamp(installNow')
    <3>1. mtime[d] \in Nat /\ mtime[d] <= I!Stamp(installNow)
      BY DEF I!IInv, I!Types, I!Times
    <3> QED BY <1>4, <3>1
  <2>2. I!Stamp(installNow)' = I!Stamp(installNow')
    BY DEF I!Stamp
  <2> QED BY <1>1, <1>4, <2>1, <2>2 DEF I!IInv, I!Times
<1>6. I!Ranked' /\ I!InOrder' /\ I!Cycle' /\ I!NoTies'
  BY <1>1, <1>2 DEF I!IInv, I!Ranked, I!InOrder, I!Cycle, I!NoTies
<1> QED BY <1>3, <1>5, <1>6 DEF I!IInv

LEMMA IStep == ASSUME I!ConstantsRight, I!IInv, [I!Next]_InstallVars PROVE I!IInv'
<1>1. CASE UNCHANGED InstallVars
  <2>1. I!Booted' = I!Booted /\ I!Before' = I!Before
    BY <1>1 DEF InstallVars, I!Booted, I!Before
  <2> QED BY <1>1, <2>1 DEF InstallVars, I!IInv, I!Types, I!Times, I!Ranked, I!InOrder, I!Cycle,
                            I!NoTies, I!Stamp
<1>2. CASE I!FindPanics
  <2>1. CASE i > 4
    <3>1. phase = "find" /\ IKept /\ phase' = "panic"
      BY <1>2, <2>1 DEF I!FindPanics, I!Dies, IKept, I!IInv, I!Types, I!ttys, I!options, I!loop,
                        I!history
    <3> QED BY <3>1, IKeptInv
  <2>2. CASE ~(i > 4)
    BY <1>2, <2>2, INotFound DEF I!FindPanics
  <2> QED BY <2>1, <2>2
<1> QED BY <1>1, <1>2, IOption, IOthers, IFind, IBoot, ITouched, IAgain, IUnplug, ITick
        DEF I!Next, I!Main

\* What the invariant is for.
LEMMA IRight == ASSUME I!ConstantsRight, I!IInv PROVE I!Distinct /\ I!SameRanks
<1>1. /\ i \in Nat /\ DOMAIN devices = 1..i /\ Len(devices) = i /\ plugged \subseteq Devices
      /\ num_pis \in Nat /\ DOMAIN previous = 1..Len(previous) /\ Len(previous) \in Nat
      /\ devices \in Seq(Devices) /\ previous \in Seq(Devices)
  BY SequencesOf DEF I!IInv, I!Types
<1>2. IsFiniteSet(plugged)
  BY <1>1, FS_Subset, SameCount DEF I!ConstantsRight
<1>3. I!Cardinality(plugged) \in Nat
  BY <1>2, FS_CardinalityType, SameCount
<1>4. I!Distinct
  BY <1>1, <1>3 DEF I!IInv, I!Ranked, I!Distinct
<1>5. ASSUME quiet, ~tied, Len(devices) = Len(previous), Len(devices) = I!Cardinality(plugged)
      PROVE  devices = previous
  <2>1. I!Before \in SUBSET plugged /\ I!Cardinality(I!Before) = I!Cardinality(plugged)
    BY <1>5 DEF I!IInv, I!InOrder
  <2>2. I!Before = plugged
    BY <1>2, <2>1, FS_Subset, SameCount
  <2>3. \A k \in 1..i : devices[k] = previous[k]
    BY <1>1, <1>5, <2>2 DEF I!IInv, I!Cycle
  <2> QED BY <1>1, <1>5, <2>3
<1> QED BY <1>4, <1>5 DEF I!SameRanks

-----------------------------------------------------------------------------
(* The test programs, on S Pis.  First, induction over the numbers.        *)

\* Induction, stated of a set of numbers.
LEMMA Counting ==
  ASSUME NEW Numbers \in SUBSET Nat, 0 \in Numbers, \A k \in Numbers : k + 1 \in Numbers
  PROVE  Numbers = Nat
<1>1. SUFFICES ASSUME Numbers # Nat PROVE FALSE
  OBVIOUS
<1> DEFINE All == {0..m : m \in Nat \ Numbers}
<1>2. All \subseteq FiniteSubsetsOf(Nat) /\ All # {}
  <2>1. ASSUME NEW m \in Nat PROVE 0..m \in FiniteSubsetsOf(Nat)
    BY FS_Interval DEF FiniteSubsetsOf
  <2> QED BY <1>1, <2>1
<1>3. IsWellFoundedOn(StrictSubsetOrdering(Nat), FiniteSubsetsOf(Nat))
  BY FS_StrictSubsetOrderingWellFounded
<1> HIDE DEF All
<1>4. PICK least \in All : \A other \in All : ~(<<other, least>> \in StrictSubsetOrdering(Nat))
  BY <1>2, <1>3, WFMin
<1>5. PICK m \in Nat \ Numbers : least = 0..m
  BY <1>4 DEF All
<1>6. m - 1 \in Nat \ Numbers
  <2>1. m # 0 /\ m - 1 \in Nat /\ (m - 1) + 1 = m
    BY <1>5
  <2> QED BY <1>5, <2>1
<1>7. 0..(m - 1) \in All
  BY <1>6 DEF All
<1>8. <<0..(m - 1), 0..m>> \in StrictSubsetOrdering(Nat)
  <2>1. 0..(m - 1) \in SUBSET Nat /\ 0..m \in SUBSET Nat /\ 0..(m - 1) \subseteq 0..m
    BY <1>5, <1>6
  <2>2. m \in 0..m /\ m \notin 0..(m - 1)
    BY <1>5, <1>6
  <2> QED BY <2>1, <2>2 DEF StrictSubsetOrdering
<1> QED BY <1>4, <1>5, <1>7, <1>8

-----------------------------------------------------------------------------
(* Where the rows lie in the flat arrays.                                  *)

LEMMA MulPos == ASSUME NEW a \in Nat \ {0}, NEW b \in Nat \ {0} PROVE a * b \in Nat \ {0}
OBVIOUS

LEMMA Distribute ==
  ASSUME NEW a \in Int, NEW b \in Int, NEW c \in Int
  PROVE  a * (b + c) = a * b + a * c /\ (a * b) * c = a * (b * c) /\ a * b \in Int
OBVIOUS

LEMMA DivUnique ==
  ASSUME NEW M \in Nat \ {0}, NEW k \in Int, NEW rem \in 0..(M - 1)
  PROVE  (M * k + rem) \div M = k /\ (M * k + rem) % M = rem
OBVIOUS

\* A place below Q * M, divided by M.
LEMMA Below ==
  ASSUME NEW M \in Nat \ {0}, NEW Q \in Nat, NEW x \in 0..(Q * M - 1)
  PROVE  /\ x \div M \in 0..(Q - 1) /\ x % M \in 0..(M - 1)
         /\ x = M * (x \div M) + (x % M)
<1>1. x \in Int /\ x % M \in 0..(M - 1) /\ x \div M \in Int /\ x = M * (x \div M) + (x % M)
  BY ModFacts
<1>2. x \div M >= 0
  <2>1. CASE x \div M <= -1
    <3>1. M * (x \div M) <= -M BY <1>1, <2>1, MulAtLeast
    <3> QED BY <1>1, <3>1
  <2> QED BY <1>1, <2>1
<1>3. x \div M <= Q - 1
  <2>1. CASE x \div M - Q >= 0
    <3>1. M * (x \div M - Q) >= 0 BY <1>1, <2>1, MulAtLeast
    <3>2. M * (x \div M - Q) = M * (x \div M) - Q * M BY <1>1
    <3> QED BY <1>1, <3>1, <3>2
  <2> QED BY <1>1, <2>1
<1> QED BY <1>1, <1>2, <1>3

\* Conversely.
LEMMA Place ==
  ASSUME NEW M \in Nat \ {0}, NEW Q \in Nat, NEW u \in 0..(Q - 1), NEW v \in 0..(M - 1)
  PROVE  /\ M * u + v \in 0..(Q * M - 1)
         /\ (M * u + v) \div M = u /\ (M * u + v) % M = v
<1>1. M * (Q - 1 - u) >= 0 /\ M * u >= 0 BY MulAtLeast
<1>2. M * (Q - 1 - u) = Q * M - M - M * u OBVIOUS
<1> QED BY <1>1, <1>2, DivUnique

\* The blocks of the Pis are of Q stretches of M places each.
LEMMA Blocks ==
  ASSUME NEW M \in Nat \ {0}, NEW Q \in Nat \ {0}, NEW Z \in Nat,
         NEW x \in 0..(Z * (Q * M) - 1)
  PROVE  /\ x \div (Q * M) \in 0..(Z - 1) /\ x % (Q * M) \in 0..(Q * M - 1)
         /\ x \div M = (x \div (Q * M)) * Q + (x % (Q * M)) \div M
         /\ x % M = (x % (Q * M)) % M
         /\ (x % (Q * M)) \div M \in 0..(Q - 1) /\ x % M \in 0..(M - 1)
<1> DEFINE u == x \div (Q * M)
           v == x % (Q * M)
<1>1. Q * M \in Nat \ {0} BY MulPos
<1>2. u \in 0..(Z - 1) /\ v \in 0..(Q * M - 1) /\ x = (Q * M) * u + v
  BY <1>1, Below
<1>3. v \div M \in 0..(Q - 1) /\ v % M \in 0..(M - 1) /\ v = M * (v \div M) + (v % M)
  BY <1>2, Below
<1> DEFINE d == v \div M
           e == v % M
<1> HIDE DEF u, v, d, e
<1>4. d \in 0..(Q - 1) /\ e \in 0..(M - 1) /\ v = M * d + e
  BY <1>3 DEF d, e
<1>5. x = M * (u * Q + d) + e
  <2>1. (Q * M) * u = M * (u * Q) BY <1>2
  <2>2. M * (u * Q + d) = M * (u * Q) + M * d BY <1>2, <1>4, Distribute
  <2> QED BY <1>2, <1>4, <2>1, <2>2
<1>6. u * Q + d \in Int BY <1>2, <1>4, Distribute
<1>7. x \div M = u * Q + d /\ x % M = e BY <1>4, <1>5, <1>6, DivUnique
<1> QED BY <1>2, <1>3, <1>4, <1>7 DEF u, v, d, e

-----------------------------------------------------------------------------
(* Sums.                                                                   *)

\* Whatever satisfies the recursion is the sum.
Sums(w, f, k) == w = [j \in 0..k |-> IF j = 0 THEN 0 ELSE w[j - 1] + f[j - 1]]

LEMMA SumIs ==
  ASSUME NEW S, NEW f, NEW k \in Nat, NEW w, Sums(w, f, k)
  PROVE  P(S)!AddUp(f, k) = w[k]
<1> DEFINE Fits(sum) == sum = [j \in 0..k |-> IF j = 0 THEN 0 ELSE sum[j - 1] + f[j - 1]]
           it == CHOOSE sum : Fits(sum)
<1>1. Fits(w) BY DEF Sums
<1>2. Fits(it)
  <2> HIDE DEF Fits
  <2> QED BY <1>1
<1>3. P(S)!AddUp(f, k) = it[k] BY DEF P!AddUp
<1> HIDE DEF it
<1> DEFINE Same == {m \in Nat : m <= k => it[m] = w[m]}
<1>4. it[0] = 0 /\ w[0] = 0 BY <1>1, <1>2
<1>5. ASSUME NEW m \in Same PROVE m + 1 \in Same
  <2>1. CASE m + 1 <= k
    <3>1. m + 1 \in 0..k /\ m + 1 # 0 /\ (m + 1) - 1 = m /\ m <= k BY <2>1
    <3>2. it[m + 1] = it[m] + f[m] /\ w[m + 1] = w[m] + f[m] BY <1>1, <1>2, <3>1
    <3> QED BY <3>1, <3>2
  <2> QED BY <2>1
<1>6. Same = Nat
  <2>1. 0 \in Same BY <1>4
  <2> HIDE DEF Same
  <2>2. Same \in SUBSET Nat BY DEF Same
  <2> QED BY <1>5, <2>1, <2>2, Counting
<1>7. k \in Same => it[k] = w[k] OBVIOUS
<1> HIDE DEF Same
<1> QED BY <1>3, <1>6, <1>7

LEMMA SumOfEqual ==
  ASSUME NEW S, NEW k \in Nat, NEW c \in Int, NEW f, \A j \in P(S)!Index(k) : f[j] = c
  PROVE  P(S)!AddUp(f, k) = k * c
<1> DEFINE w == [j \in 0..k |-> j * c]
<1>1. ASSUME NEW j \in 0..k PROVE w[j] = IF j = 0 THEN 0 ELSE w[j - 1] + f[j - 1]
  <2>1. CASE j = 0 BY <2>1
  <2>2. CASE j # 0
    <3>1. j - 1 \in 0..k /\ j - 1 \in P(S)!Index(k) BY <2>2 DEF P!Index
    <3>2. j * c = (j - 1) * c + c
      <4>1. ((j - 1) + 1) * c = (j - 1) * c + 1 * c BY <3>1
      <4>2. (j - 1) + 1 = j /\ 1 * c = c OBVIOUS
      <4> QED BY <4>1, <4>2
    <3> QED BY <2>2, <3>1, <3>2
  <2> QED BY <2>1, <2>2
<1>2. w = [j \in 0..k |-> IF j = 0 THEN 0 ELSE w[j - 1] + f[j - 1]]
  <2>1. w = [j \in 0..k |-> w[j]] OBVIOUS
  <2> HIDE DEF w
  <2> QED BY <1>1, <2>1
<1>3. w[k] = k * c OBVIOUS
<1> HIDE DEF w
<1>4. Sums(w, f, k) BY <1>2 DEF Sums
<1> QED BY <1>3, <1>4, SumIs

LEMMA SumOfFour ==
  ASSUME NEW S, NEW f, \A j \in 0..3 : f[j] \in Int
  PROVE  P(S)!AddUp(f, 4) = f[0] + f[1] + f[2] + f[3]
<1> DEFINE w == [j \in 0..4 |-> IF j = 0 THEN 0 ELSE IF j = 1 THEN f[0]
                               ELSE IF j = 2 THEN f[0] + f[1]
                               ELSE IF j = 3 THEN f[0] + f[1] + f[2] ELSE f[0] + f[1] + f[2] + f[3]]
<1>1. ASSUME NEW j \in 0..4 PROVE w[j] = IF j = 0 THEN 0 ELSE w[j - 1] + f[j - 1]
  <2>1. /\ w[0] = 0 /\ w[1] = f[0] /\ w[2] = f[0] + f[1] /\ w[3] = f[0] + f[1] + f[2]
        /\ w[4] = f[0] + f[1] + f[2] + f[3]
    OBVIOUS
  <2> HIDE DEF w
  <2>2. j = 0 \/ j = 1 \/ j = 2 \/ j = 3 \/ j = 4 OBVIOUS
  <2> QED BY <2>1, <2>2
<1>2. w = [j \in 0..4 |-> IF j = 0 THEN 0 ELSE w[j - 1] + f[j - 1]]
  <2>1. w = [j \in 0..4 |-> w[j]] OBVIOUS
  <2> HIDE DEF w
  <2> QED BY <1>1, <2>1
<1>3. w[4] = f[0] + f[1] + f[2] + f[3] OBVIOUS
<1> HIDE DEF w
<1>4. 4 \in Nat /\ Sums(w, f, 4) BY <1>2 DEF Sums
<1>5. P(S)!AddUp(f, 4) = w[4] BY ONLY <1>4, SumIs
<1> QED BY <1>3, <1>5

-----------------------------------------------------------------------------
(* The merge of two stretches.                                             *)

Turned(S, a, left, mid, right, turns) ==
    turns = [k \in 0..Length |-> IF k = 0 THEN [arr |-> a, i |-> 0, j |-> 0]
                                 ELSE P(S)!Turn(a, left, mid, right)[turns[k - 1]]]

LEMMA TurnsExist ==
  ASSUME NEW S, Length \in Nat, NEW a \in P(S)!Data, NEW left, NEW mid, NEW right
  PROVE  \E turns : /\ Turned(S, a, left, mid, right, turns)
                    /\ P(S)!merge(left, mid, right)[a] = turns[right - left + 1].arr
<1> DEFINE Step(turns, k) == IF k = 0 THEN [arr |-> a, i |-> 0, j |-> 0]
                             ELSE P(S)!Turn(a, left, mid, right)[turns[k - 1]]
           Good == {m \in Nat : \E turns : turns = [k \in 0..m |-> Step(turns, k)]}
<1>1. 0 \in Good
  <2>1. [k \in 0..0 |-> [arr |-> a, i |-> 0, j |-> 0]]
          = [k \in 0..0 |-> Step([x \in 0..0 |-> [arr |-> a, i |-> 0, j |-> 0]], k)]
    OBVIOUS
  <2> QED BY <2>1
<1>2. ASSUME NEW m \in Good PROVE m + 1 \in Good
  <2>1. m \in Nat BY <1>2
  <2>2. PICK turns : turns = [k \in 0..m |-> Step(turns, k)] BY <1>2
  <2> HIDE DEF Step
  <2> DEFINE longer == [k \in 0..(m + 1) |-> IF k <= m THEN turns[k] ELSE Step(turns, k)]
  <2>3. ASSUME NEW k \in 0..(m + 1) PROVE longer[k] = Step(longer, k)
    <3>1. k # 0 => k - 1 \in 0..m /\ longer[k - 1] = turns[k - 1] BY <2>1
    <3>2. Step(longer, k) = Step(turns, k) BY <3>1 DEF Step
    <3>3. k <= m => turns[k] = Step(turns, k) BY <2>1, <2>2
    <3> QED BY <3>2, <3>3
  <2>4. longer = [k \in 0..(m + 1) |-> Step(longer, k)]
    <3>1. longer = [k \in 0..(m + 1) |-> longer[k]] OBVIOUS
    <3> HIDE DEF longer
    <3> QED BY <2>3, <3>1
  <2> HIDE DEF longer
  <2>5. \E w : w = [k \in 0..(m + 1) |-> Step(w, k)] BY <2>4
  <2> QED BY <2>1, <2>5
<1>3. Length \in Good
  <2> HIDE DEF Good
  <2>1. Good \in SUBSET Nat BY DEF Good
  <2>2. Good = Nat BY <1>1, <1>2, <2>1, Counting
  <2> QED BY <2>2
<1> DEFINE it == CHOOSE turns : Turned(S, a, left, mid, right, turns)
<1>4. \E turns : Turned(S, a, left, mid, right, turns) BY <1>3 DEF Turned
<1>5. Turned(S, a, left, mid, right, it) BY <1>4
<1>6. P(S)!merge(left, mid, right)[a] = it[right - left + 1].arr BY DEF P!merge, Turned
<1> HIDE DEF it
<1> QED BY <1>5, <1>6


\* All on the right is less than what is on the left: it goes first.
Rotated(a, left, mid, right) ==
    [x \in DOMAIN a |->
        IF x < left \/ x > right THEN a[x]
        ELSE IF x < left + (right - mid) THEN a[mid + 1 + (x - left)] ELSE a[x - (right - mid)]]

LEMMA MergeRotates ==
  ASSUME NEW S, Length \in Nat, NEW K \in Nat, K <= Length,
         P(S)!Index(K) \subseteq P(S)!Index(Length),
         NEW a \in [P(S)!Index(K) -> Int], a \in P(S)!Data,
         [P(S)!Index(K) -> Int] \subseteq P(S)!Data,
         NEW left \in P(S)!Index(K), NEW mid \in P(S)!Index(K), NEW right \in P(S)!Index(K),
         left <= mid, mid < right,
         \A x \in left..mid, y \in (mid + 1)..right : a[x] > a[y]
  PROVE  P(S)!merge(left, mid, right)[a] = Rotated(a, left, mid, right)
<1> DEFINE q == right - mid
           Arr(k) == [x \in P(S)!Index(K) |->
                         IF x < left \/ x >= left + k THEN a[x]
                         ELSE IF x < left + q THEN a[mid + 1 + (x - left)] ELSE a[x - q]]
           Stage(k) == [arr |-> Arr(k), i |-> IF k <= q THEN 0 ELSE k - q, j |-> IF k <= q THEN k ELSE q]
<1>0. DOMAIN a = P(S)!Index(K) /\ q \in Nat /\ q >= 1 /\ K \in Nat /\ left + q <= right
      /\ right < K /\ q <= right
  BY DEF P!Index
<1>1. PICK turns : /\ Turned(S, a, left, mid, right, turns)
                   /\ P(S)!merge(left, mid, right)[a] = turns[right - left + 1].arr
  BY TurnsExist
<1>2. ASSUME NEW k \in Nat
      PROVE  Arr(k) \in [P(S)!Index(K) -> Int] /\ Stage(k) \in [arr : P(S)!Data, i : Nat, j : Nat]
  <2>1. ASSUME NEW x \in P(S)!Index(K), ~(x < left \/ x >= left + k), x < left + q
        PROVE  a[mid + 1 + (x - left)] \in Int
    <3>1. mid + 1 + (x - left) \in P(S)!Index(K) BY <1>0, <2>1 DEF P!Index
    <3> QED BY <3>1
  <2>2. ASSUME NEW x \in P(S)!Index(K), ~(x < left \/ x >= left + k), ~(x < left + q)
        PROVE  a[x - q] \in Int
    <3>1. x - q \in P(S)!Index(K) BY <1>0, <2>2 DEF P!Index
    <3> QED BY <3>1
  <2>3. \A x \in P(S)!Index(K) : a[x] \in Int OBVIOUS
  <2>4. Arr(k) \in [P(S)!Index(K) -> Int] BY <2>1, <2>2, <2>3
  <2> HIDE DEF Arr
  <2>5. (IF k <= q THEN 0 ELSE k - q) \in Nat /\ (IF k <= q THEN k ELSE q) \in Nat BY <1>0
  <2> QED BY <2>4, <2>5
<1>3. Stage(0) = [arr |-> a, i |-> 0, j |-> 0]
  <2>1. ASSUME NEW x \in P(S)!Index(K) PROVE Arr(0)[x] = a[x] BY DEF P!Index
  <2>2. Arr(0) = a
    <3> HIDE DEF Arr
    <3>1. Arr(0) \in [P(S)!Index(K) -> Int] BY <1>2
    <3> QED BY <2>1, <3>1
  <2> QED BY <2>2, <1>0
<1>4. ASSUME NEW k \in Nat, k + 1 <= Length
      PROVE  P(S)!Turn(a, left, mid, right)[Stage(k)] = Stage(k + 1)
  <2> DEFINE at == Stage(k)
             place == left + at.i + at.j
             fromL == at.j >= right - mid \/ (left + at.i <= mid /\ a[left + at.i] <= a[mid + 1 + at.j])
  <2>1. at \in [arr : P(S)!Data, i : Nat, j : Nat] BY <1>2
  <2>2. P(S)!Turn(a, left, mid, right)[at]
          = IF fromL THEN [arr |-> [at.arr EXCEPT ![place] = a[left + at.i]], i |-> at.i + 1, j |-> at.j]
            ELSE [arr |-> [at.arr EXCEPT ![place] = a[mid + 1 + at.j]], i |-> at.i, j |-> at.j + 1]
    <3> HIDE DEF at
    <3> QED BY <2>1 DEF P!Turn
  <2>3. at.arr = Arr(k) /\ place = left + k
    <3>1. at.arr = Arr(k) /\ at.i + at.j = k BY <1>0
    <3>2. at.i \in Nat /\ at.j \in Nat BY <2>1
    <3> QED BY <3>1, <3>2 DEF P!Index
  <2>4. CASE k < q
    <3>1. at.i = 0 /\ at.j = k BY <1>0, <2>4
    <3>2. ~fromL
      <4>1. left \in left..mid /\ mid + 1 + k \in (mid + 1)..right BY <1>0, <2>4 DEF P!Index
      <4>2. a[left] > a[mid + 1 + k] BY <4>1
      <4>3. a[left] \in Int /\ a[mid + 1 + k] \in Int
        <5>1. mid + 1 + k \in P(S)!Index(K) BY <1>0, <2>4 DEF P!Index
        <5> QED BY <5>1
      <4>4. ~(at.j >= right - mid) BY <1>0, <2>4, <3>1
      <4>5. left + at.i = left BY <3>1 DEF P!Index
      <4> QED BY <3>1, <4>2, <4>3, <4>4, <4>5
    <3>3. [Arr(k) EXCEPT ![left + k] = a[mid + 1 + k]] = Arr(k + 1)
      <4>1. ASSUME NEW x \in P(S)!Index(K)
            PROVE  [Arr(k) EXCEPT ![left + k] = a[mid + 1 + k]][x] = Arr(k + 1)[x]
        <5>1. CASE x = left + k
          <6>1. ~(x < left \/ x >= left + (k + 1)) /\ x < left + q /\ x - left = k
            BY <1>0, <2>4, <5>1 DEF P!Index
          <6> QED BY <5>1, <6>1
        <5>2. CASE x # left + k
          <6>1. x >= left + k <=> x >= left + (k + 1) BY <5>2 DEF P!Index
          <6> QED BY <5>2, <6>1
        <5> QED BY <5>1, <5>2
      <4> QED BY <4>1
    <3>4. Stage(k + 1) = [arr |-> Arr(k + 1), i |-> 0, j |-> k + 1] BY <1>0, <2>4
    <3> HIDE DEF Stage, Arr
    <3> QED BY <2>2, <2>3, <3>1, <3>2, <3>3, <3>4
  <2>5. CASE ~(k < q)
    <3>1. at.i = k - q /\ at.j = q
      <4>1. k = q => k - q = 0 BY <1>0
      <4> QED BY <1>0, <2>5, <4>1
    <3>2. fromL BY <1>0, <3>1
    <3>3. [Arr(k) EXCEPT ![left + k] = a[left + (k - q)]] = Arr(k + 1)
      <4>1. ASSUME NEW x \in P(S)!Index(K)
            PROVE  [Arr(k) EXCEPT ![left + k] = a[left + (k - q)]][x] = Arr(k + 1)[x]
        <5>1. CASE x = left + k
          <6>1. /\ ~(x < left \/ x >= left + (k + 1)) /\ ~(x < left + q)
                /\ x - q = left + (k - q)
            BY <1>0, <2>5, <5>1 DEF P!Index
          <6> QED BY <5>1, <6>1
        <5>2. CASE x # left + k
          <6>1. x >= left + k <=> x >= left + (k + 1) BY <5>2 DEF P!Index
          <6> QED BY <5>2, <6>1
        <5> QED BY <5>1, <5>2
      <4> QED BY <4>1
    <3>4. Stage(k + 1) = [arr |-> Arr(k + 1), i |-> (k - q) + 1, j |-> q] BY <1>0, <2>5
    <3> HIDE DEF Stage, Arr
    <3> QED BY <2>2, <2>3, <3>1, <3>2, <3>3, <3>4
  <2> QED BY <2>4, <2>5
<1> DEFINE Right == {k \in Nat : k <= Length => turns[k] = Stage(k)}
<1>5. 0 \in Right BY <1>1, <1>3 DEF Turned
<1>6. ASSUME NEW k \in Right PROVE k + 1 \in Right
  <2> HIDE DEF Stage
  <2>1. CASE k + 1 <= Length
    <3>1. k + 1 \in 0..Length /\ k + 1 # 0 /\ (k + 1) - 1 = k /\ k <= Length /\ k \in Nat BY <2>1
    <3>2. turns[k + 1] = P(S)!Turn(a, left, mid, right)[turns[k]] BY <1>1, <3>1 DEF Turned
    <3> QED BY <1>4, <2>1, <3>1, <3>2
  <2> QED BY <2>1
<1>7. turns[right - left + 1] = Stage(right - left + 1)
  <2> HIDE DEF Stage
  <2>1. right - left + 1 \in Nat /\ right - left + 1 <= Length BY <1>0 DEF P!Index
  <2>2. Right = Nat
    <3> HIDE DEF Right
    <3>1. Right \in SUBSET Nat BY DEF Right
    <3> QED BY <1>5, <1>6, <3>1, Counting
  <2>3. right - left + 1 \in Right BY <2>1, <2>2
  <2> QED BY <2>1, <2>3
<1>8. Arr(right - left + 1) = Rotated(a, left, mid, right)
  <2>1. ASSUME NEW x \in P(S)!Index(K) PROVE x >= left + (right - left + 1) <=> x > right
    BY <1>0 DEF P!Index
  <2> QED BY <1>0, <2>1 DEF Rotated
<1> QED BY <1>1, <1>7, <1>8

-----------------------------------------------------------------------------
(* The recursion of merge_sort.                                            *)

Mid(of) == of.left + ((of.right - of.left) \div 2)
Lower(of) == [left |-> of.left, right |-> Mid(of)]
Upper(of) == [left |-> Mid(of) + 1, right |-> of.right]
SortWith(S, f, of) ==
    [a \in P(S)!Data |-> IF of.left >= of.right THEN a
                    ELSE P(S)!merge(of.left, Mid(of), of.right)[f[Upper(of)][f[Lower(of)][a]]]]

LEMMA Halves ==
  ASSUME NEW S, NEW K \in Nat, NEW of \in [left : P(S)!Index(K), right : P(S)!Index(K)],
         of.left < of.right
  PROVE  /\ of.left <= Mid(of) /\ Mid(of) < of.right
         /\ Lower(of) \in [left : P(S)!Index(K), right : P(S)!Index(K)]
         /\ Upper(of) \in [left : P(S)!Index(K), right : P(S)!Index(K)]
<1>1. of.left \in 0..(K - 1) /\ of.right \in 0..(K - 1) BY DEF P!Index
<1>2. (of.right - of.left) \div 2 >= 0 /\ (of.right - of.left) \div 2 < of.right - of.left
  BY <1>1
<1>3. (of.right - of.left) \div 2 \in Int BY <1>1
<1>4. of.left <= Mid(of) /\ Mid(of) < of.right /\ Mid(of) \in Int BY <1>1, <1>2, <1>3 DEF Mid
<1> QED BY <1>1, <1>4 DEF P!Index, Lower, Upper

LEMMA SortRecurs ==
  ASSUME NEW S, Length \in Nat
  PROVE  \A of \in P(S)!Stretch : P(S)!merge_sort[of] = SortWith(S, P(S)!merge_sort, of)
<1> DEFINE Partial(f, d) == \A of \in P(S)!Stretch : of.right - of.left < d => f[of] = SortWith(S, f, of)
           Good == {d \in Nat : \E f : f = [of \in P(S)!Stretch |-> f[of]] /\ Partial(f, d)}
<1>0. \A of \in P(S)!Stretch : of.left \in Nat /\ of.right \in Nat /\ of.right < Length
  BY DEF P!Stretch, P!Index
<1>1. 0 \in Good
  <2> DEFINE f == [of \in P(S)!Stretch |-> [a \in P(S)!Data |-> a]]
  <2>1. ASSUME NEW of \in P(S)!Stretch, of.right - of.left < 0 PROVE f[of] = SortWith(S, f, of)
    <3>1. of.left >= of.right BY <1>0, <2>1
    <3> QED BY <3>1 DEF SortWith
  <2>2. f = [of \in P(S)!Stretch |-> f[of]] OBVIOUS
  <2> HIDE DEF f
  <2> QED BY <2>1, <2>2
<1>2. ASSUME NEW d \in Good PROVE d + 1 \in Good
  <2>1. d \in Nat BY <1>2
  <2>2. PICK f : f = [of \in P(S)!Stretch |-> f[of]] /\ Partial(f, d) BY <1>2
  <2> DEFINE g == [of \in P(S)!Stretch |-> SortWith(S, f, of)]
  <2>3. ASSUME NEW of \in P(S)!Stretch, of.right - of.left < d + 1 PROVE g[of] = SortWith(S, g, of)
    <3>1. CASE of.left >= of.right
      <4>1. SortWith(S, f, of) = SortWith(S, g, of)
        <5> HIDE DEF g
        <5> QED BY <3>1 DEF SortWith
      <4> QED BY <4>1
    <3>2. CASE of.left < of.right
      <4>1. /\ of.left <= Mid(of) /\ Mid(of) < of.right
            /\ Lower(of) \in P(S)!Stretch /\ Upper(of) \in P(S)!Stretch
        BY <3>2, Halves DEF P!Stretch
      <4>2. Mid(of) \in Int BY <4>1 DEF P!Stretch, Lower, P!Index
      <4>3. /\ Lower(of).right - Lower(of).left < d /\ Upper(of).right - Upper(of).left < d
        BY <1>0, <2>1, <2>3, <4>1, <4>2 DEF Lower, Upper
      <4>4. g[Lower(of)] = f[Lower(of)] /\ g[Upper(of)] = f[Upper(of)]
        BY <2>2, <4>1, <4>3
      <4>5. SortWith(S, f, of) = SortWith(S, g, of)
        <5> HIDE DEF g
        <5> QED BY <4>4 DEF SortWith
      <4> QED BY <4>5
    <3> QED BY <1>0, <3>1, <3>2
  <2>4. g = [of \in P(S)!Stretch |-> g[of]] OBVIOUS
  <2> HIDE DEF g
  <2>5. Partial(g, d + 1) BY <2>3
  <2>6. \E h : h = [of \in P(S)!Stretch |-> h[of]] /\ Partial(h, d + 1) BY <2>4, <2>5
  <2> HIDE DEF Partial
  <2> QED BY <2>1, <2>6
<1>3. Length \in Good
  <2> HIDE DEF Good
  <2>1. Good \in SUBSET Nat BY DEF Good
  <2>2. Good = Nat BY <1>1, <1>2, <2>1, Counting
  <2> QED BY <2>2
<1> DEFINE Fits(f) == f = [of \in P(S)!Stretch |-> SortWith(S, f, of)]
<1>4. \E f : Fits(f)
  <2>1. PICK f : f = [of \in P(S)!Stretch |-> f[of]] /\ Partial(f, Length) BY <1>3
  <2>2. \A of \in P(S)!Stretch : of.right - of.left < Length BY <1>0
  <2>3. \A of \in P(S)!Stretch : f[of] = SortWith(S, f, of) BY <2>1, <2>2
  <2>4. f = [of \in P(S)!Stretch |-> SortWith(S, f, of)] BY <2>1, <2>3
  <2> QED BY <2>4
<1>5. P(S)!merge_sort = CHOOSE f : Fits(f)
  BY DEF P!merge_sort, P!Stretch, SortWith, Mid, Lower, Upper
<1>6. Fits(P(S)!merge_sort)
  <2> HIDE DEF Fits
  <2> QED BY <1>4, <1>5
<1> QED BY <1>6

\* The numbers of mergesort.c descend.
Descends(a, left, right) == \A x, y \in left..right : x < y => a[x] > a[y]
Reversed(a, left, right) ==
    [x \in DOMAIN a |-> IF left <= x /\ x <= right THEN a[left + right - x] ELSE a[x]]

LEMMA ReversedIs ==
  ASSUME NEW S, NEW K \in Nat, NEW a \in [P(S)!Index(K) -> Int], NEW left \in P(S)!Index(K),
         NEW right \in P(S)!Index(K)
  PROVE  /\ Reversed(a, left, right) \in [P(S)!Index(K) -> Int]
         /\ \A x \in P(S)!Index(K) : Reversed(a, left, right)[x]
               = IF left <= x /\ x <= right THEN a[left + right - x] ELSE a[x]
<1>1. ASSUME NEW x \in P(S)!Index(K), left <= x, x <= right PROVE left + right - x \in P(S)!Index(K)
  BY <1>1 DEF P!Index
<1>2. DOMAIN a = P(S)!Index(K) /\ \A x \in P(S)!Index(K) : a[x] \in Int OBVIOUS
<1> QED BY <1>1, <1>2 DEF Reversed

LEMMA SortReverses ==
  ASSUME NEW S, Length \in Nat, NEW K \in Nat, K <= Length,
         [P(S)!Index(K) -> Int] \subseteq P(S)!Data
  PROVE  \A of \in [left : P(S)!Index(K), right : P(S)!Index(K)], a \in [P(S)!Index(K) -> Int] :
            Descends(a, of.left, of.right)
            => P(S)!merge_sort[of][a] = Reversed(a, of.left, of.right)
<1> DEFINE Interval == [left : P(S)!Index(K), right : P(S)!Index(K)]
           Array == [P(S)!Index(K) -> Int]
           Right(d) == \A of \in Interval, a \in Array :
                          of.right - of.left < d /\ Descends(a, of.left, of.right)
                          => P(S)!merge_sort[of][a] = Reversed(a, of.left, of.right)
           Good == {d \in Nat : Right(d)}
<1>0. /\ \A of \in Interval : of.left \in P(S)!Index(K) /\ of.right \in P(S)!Index(K) /\ of \in P(S)!Stretch
      /\ \A x \in P(S)!Index(K) : x \in Int /\ 0 <= x /\ x < K
      /\ P(S)!Index(K) \subseteq P(S)!Index(Length)
  BY DEF P!Stretch, P!Index
<1>1. ASSUME NEW of \in Interval, NEW a \in Array, of.left >= of.right
      PROVE  P(S)!merge_sort[of][a] = Reversed(a, of.left, of.right)
  <2>1. P(S)!merge_sort[of][a] = a
    <3>1. P(S)!merge_sort[of] = SortWith(S, P(S)!merge_sort, of) BY <1>0, SortRecurs
    <3> QED BY <1>1, <3>1 DEF SortWith
  <2>2. \A x \in P(S)!Index(K) : Reversed(a, of.left, of.right)[x] = a[x]
    <3>1. ASSUME NEW x \in P(S)!Index(K), of.left <= x, x <= of.right
          PROVE  of.left + of.right - x = x
      BY <1>0, <1>1, <3>1
    <3> QED BY <1>0, <3>1, ReversedIs
  <2>3. Reversed(a, of.left, of.right) \in Array BY <1>0, ReversedIs
  <2> QED BY <2>1, <2>2, <2>3
<1>2. 0 \in Good
  <2>1. \A of \in Interval : of.right - of.left < 0 => of.left >= of.right BY <1>0
  <2> QED BY <1>1, <2>1
<1>3. ASSUME NEW d \in Good PROVE d + 1 \in Good
  <2>0. d \in Nat /\ Right(d) BY <1>3
  <2>1. ASSUME NEW of \in Interval, NEW a \in Array, of.right - of.left < d + 1,
               Descends(a, of.left, of.right)
        PROVE  P(S)!merge_sort[of][a] = Reversed(a, of.left, of.right)
    <3> DEFINE l == of.left
               last == of.right
               m == Mid(of)
               b == Reversed(a, l, m)
               c == Reversed(b, m + 1, last)
    <3>1. CASE l < last
      <4>1. /\ l <= m /\ m < last /\ Lower(of) \in Interval /\ Upper(of) \in Interval
            /\ Lower(of).left = l /\ Lower(of).right = m /\ Upper(of).left = m + 1
            /\ Upper(of).right = last
        BY <3>1, Halves DEF Lower, Upper
      <4>2. l \in P(S)!Index(K) /\ last \in P(S)!Index(K) /\ m \in P(S)!Index(K)
            /\ m + 1 \in P(S)!Index(K)
        BY <1>0, <4>1
      <4>3. l \in Int /\ last \in Int /\ m \in Int /\ 0 <= l /\ last < K BY <1>0, <4>2
      <4>4. of \in P(S)!Stretch /\ a \in P(S)!Data BY <1>0
      <4> HIDE DEF l, last, m, b, c
      <4>5. P(S)!merge_sort[of][a]
            = P(S)!merge(l, m, last)[P(S)!merge_sort[Upper(of)][P(S)!merge_sort[Lower(of)][a]]]
        <5>1. P(S)!merge_sort[of] = SortWith(S, P(S)!merge_sort, of) BY <4>4, SortRecurs
        <5>2. SortWith(S, P(S)!merge_sort, of)[a]
              = P(S)!merge(l, m, last)[P(S)!merge_sort[Upper(of)][P(S)!merge_sort[Lower(of)][a]]]
          BY <3>1, <4>3, <4>4 DEF SortWith, l, last, m
        <5> QED BY <5>1, <5>2
      <4>6. /\ b \in Array /\ c \in Array
            /\ \A x \in P(S)!Index(K) : b[x] = IF l <= x /\ x <= m THEN a[l + m - x] ELSE a[x]
            /\ \A x \in P(S)!Index(K) : c[x] = IF m + 1 <= x /\ x <= last THEN b[m + 1 + last - x] ELSE b[x]
        <5>1. /\ b \in Array
              /\ \A x \in P(S)!Index(K) : b[x] = IF l <= x /\ x <= m THEN a[l + m - x] ELSE a[x]
          BY <4>2, ReversedIs DEF b
        <5>2. /\ c \in Array
              /\ \A x \in P(S)!Index(K) : c[x] = IF m + 1 <= x /\ x <= last THEN b[m + 1 + last - x] ELSE b[x]
          BY <4>2, <5>1, ReversedIs DEF c
        <5> QED BY <5>1, <5>2
      <4>7. P(S)!merge_sort[Lower(of)][a] = b
        <5>1. Descends(a, l, m) BY <2>1, <4>1, <4>3 DEF Descends, l, last
        <5>2. m - l < d BY <2>1, <2>0, <4>1, <4>3 DEF l, last
        <5> QED BY <2>0, <4>1, <5>1, <5>2 DEF b
      <4>8. P(S)!merge_sort[Upper(of)][b] = c
        <5>1. ASSUME NEW x \in (m + 1)..last PROVE b[x] = a[x]
          <6>1. x \in P(S)!Index(K) /\ ~(x <= m) BY <4>1, <4>2, <4>3 DEF P!Index
          <6> QED BY <4>6, <6>1
        <5>2. Descends(b, m + 1, last)
          <6>1. \A x \in (m + 1)..last : x \in l..last BY <4>1, <4>3
          <6> QED BY <2>1, <5>1, <6>1 DEF Descends, l, last
        <5>3. last - (m + 1) < d BY <2>1, <2>0, <4>1, <4>3 DEF l, last
        <5> QED BY <2>0, <4>1, <4>6, <5>2, <5>3 DEF c
      <4>9. ASSUME NEW x \in l..m
            PROVE  l + m - x \in l..m /\ x \in P(S)!Index(K) /\ c[x] = a[l + m - x]
        <5>1. x \in Int /\ l <= x /\ x <= m /\ x < K /\ 0 <= x BY <4>1, <4>3
        <5>2. l + m - x \in l..m /\ ~(m + 1 <= x) BY <4>3, <5>1
        <5>3. x \in P(S)!Index(K) BY <5>1 DEF P!Index
        <5> QED BY <4>6, <5>1, <5>2, <5>3
      <4>10. ASSUME NEW x \in (m + 1)..last
             PROVE  m + 1 + last - x \in (m + 1)..last /\ x \in P(S)!Index(K)
                    /\ c[x] = a[m + 1 + last - x]
        <5>1. /\ m + 1 + last - x \in (m + 1)..last /\ m + 1 <= x /\ x <= last
              /\ ~(m + 1 + last - x <= m)
              /\ x \in 0..(K - 1) /\ m + 1 + last - x \in 0..(K - 1)
          BY <4>1, <4>3
        <5>2. x \in P(S)!Index(K) /\ m + 1 + last - x \in P(S)!Index(K) BY <5>1 DEF P!Index
        <5> QED BY <4>6, <5>1, <5>2
      <4>11. \A x \in l..m, y \in (m + 1)..last : c[x] > c[y]
        <5> SUFFICES ASSUME NEW x \in l..m, NEW y \in (m + 1)..last PROVE c[x] > c[y]
          OBVIOUS
        <5>1. c[x] = a[l + m - x] /\ c[y] = a[m + 1 + last - y] BY <4>9, <4>10
        <5>2. l + m - x \in l..last /\ m + 1 + last - y \in l..last /\ l + m - x < m + 1 + last - y
          BY <4>1, <4>3
        <5> QED BY <2>1, <5>1, <5>2 DEF Descends, l, last
      <4>12. P(S)!merge(l, m, last)[c] = Rotated(c, l, m, last)
        <5>1. c \in [P(S)!Index(K) -> Int] /\ c \in P(S)!Data BY <4>6
        <5>2. P(S)!Index(K) \subseteq P(S)!Index(Length) BY <1>0
        <5>3. l <= m /\ m < last BY <4>1
        <5> HIDE DEF Interval, Array, Right, Good
        <5> QED BY <4>2, <4>11, <5>1, <5>2, <5>3, MergeRotates
      <4>13. Rotated(c, l, m, last) = Reversed(a, l, last)
        <5>1. DOMAIN c = P(S)!Index(K) /\ DOMAIN a = P(S)!Index(K) BY <4>6
        <5>2. ASSUME NEW x \in P(S)!Index(K)
              PROVE (IF x < l \/ x > last THEN c[x]
                     ELSE IF x < l + (last - m) THEN c[m + 1 + (x - l)] ELSE c[x - (last - m)])
                    = IF l <= x /\ x <= last THEN a[l + last - x] ELSE a[x]
          <6>0. x \in Int BY <1>0
          <6>1. CASE x < l \/ x > last
            <7>1. ~(m + 1 <= x /\ x <= last) /\ ~(l <= x /\ x <= m) /\ ~(l <= x /\ x <= last)
              BY <4>1, <4>3, <6>0, <6>1
            <7>2. c[x] = b[x] BY <4>6, <7>1
            <7>3. b[x] = a[x] BY <4>6, <7>1
            <7> QED BY <6>1, <7>1, <7>2, <7>3
          <6>2. CASE ~(x < l \/ x > last) /\ x < l + (last - m)
            <7>1. m + 1 + (x - l) \in (m + 1)..last
                  /\ m + 1 + last - (m + 1 + (x - l)) = l + last - x
              BY <4>1, <4>3, <6>0, <6>2
            <7>2. c[m + 1 + (x - l)] = a[l + last - x] BY <4>10, <7>1
            <7>3. l <= x /\ x <= last BY <4>3, <6>0, <6>2
            <7> QED BY <6>2, <7>2, <7>3
          <6>3. CASE ~(x < l \/ x > last) /\ ~(x < l + (last - m))
            <7>1. x - (last - m) \in l..m /\ l + m - (x - (last - m)) = l + last - x
              BY <4>1, <4>3, <6>0, <6>3
            <7>2. c[x - (last - m)] = a[l + last - x] BY <4>9, <7>1
            <7>3. l <= x /\ x <= last BY <4>3, <6>0, <6>3
            <7> QED BY <6>3, <7>2, <7>3
          <6> QED BY <6>1, <6>2, <6>3
        <5> QED BY <5>1, <5>2 DEF Rotated, Reversed
      <4> QED BY <4>5, <4>7, <4>8, <4>12, <4>13 DEF l, last
    <3> QED BY <1>0, <1>1, <3>1
  <2> HIDE DEF Interval, Array
  <2>2. Right(d + 1) BY <2>1
  <2> HIDE DEF Right
  <2> QED BY <2>0, <2>2
<1>4. Good = Nat
  <2> HIDE DEF Good
  <2>1. Good \in SUBSET Nat BY DEF Good
  <2> QED BY <1>2, <1>3, <2>1, Counting
<1>5. Right(K)
  <2> HIDE DEF Right
  <2> QED BY <1>4
<1>6. \A of \in Interval : of.right - of.left < K BY <1>0
<1> QED BY <1>5, <1>6

\* The chunks as the Pis send them: each of them sorted.
Chunks(S) ==
    [x \in P(S)!Index(Length) |->
        101 - Share * (x \div Share) - Share + (x % Share)]
Sorted(S) == [x \in P(S)!Index(Length) |-> 101 - Length + x]

LEMMA Sizes ==
  ASSUME NEW S, P(S)!Divides
  PROVE  /\ S \in Nat \ {0} /\ N \in Nat \ {0} /\ Length \in Nat \ {0}
         /\ Rows \in Nat \ {0} /\ N = S * Rows
         /\ Share \in Nat \ {0} /\ Length = S * Share
BY DEF P!Divides

LEMMA ChunksMerge ==
  ASSUME NEW S, P(S)!Divides, NEW m, "arr" \in DOMAIN m, m.arr = Chunks(S)
  PROVE  P(S)!merge_chunks(m).arr = Sorted(S)
<1> DEFINE ls == Share
           Front(k) ==
               [x \in P(S)!Index(Length) |-> IF x < (k + 1) * ls THEN 101 - (k + 1) * ls + x ELSE Chunks(S)[x]]
           Fits(merged) == merged = [k \in 0..(S - 1) |->
                            IF k = 0 THEN m.arr
                            ELSE P(S)!merge(0, k * ls - 1, (k + 1) * ls - 1)[merged[k - 1]]]
           w == [k \in 0..(S - 1) |-> Front(k)]
           it == CHOOSE merged : Fits(merged)
<1>1. S \in Nat \ {0} /\ Length \in Nat \ {0} /\ ls \in Nat \ {0} /\ Length = S * ls
  BY Sizes
<1> HIDE DEF ls
<1>2. \A x \in P(S)!Index(Length) : x \in Int /\ 0 <= x /\ x < Length BY <1>1 DEF P!Index
<1>3. \A x \in P(S)!Index(Length) : /\ x \div ls \in Int /\ x % ls \in Int
                                    /\ Chunks(S)[x] = 101 - ls * (x \div ls) - ls + (x % ls)
                                    /\ Chunks(S)[x] \in Int
  <2> SUFFICES ASSUME NEW x \in P(S)!Index(Length)
               PROVE  /\ x \div ls \in Int /\ x % ls \in Int
                      /\ Chunks(S)[x] = 101 - ls * (x \div ls) - ls + (x % ls)
                      /\ Chunks(S)[x] \in Int
    OBVIOUS
  <2>1. x \div ls \in Int /\ x % ls \in Int
    <3>1. x \in Int /\ ls \in Nat \ {0} BY <1>1, <1>2
    <3> QED BY ONLY <3>1, ModFacts
  <2>2. Chunks(S)[x] = 101 - ls * (x \div ls) - ls + (x % ls) BY DEF Chunks, ls
  <2>3. ls * (x \div ls) \in Int BY <1>1, <2>1
  <2> QED BY <1>1, <2>1, <2>2, <2>3
<1>4. ASSUME NEW k \in Nat PROVE Front(k) \in [P(S)!Index(Length) -> Int]
  <2>1. (k + 1) * ls \in Int BY <1>1
  <2> QED BY <1>2, <1>3, <2>1
<1>5. Front(0) = m.arr
  <2>1. ASSUME NEW x \in P(S)!Index(Length) PROVE Front(0)[x] = Chunks(S)[x]
    <3>1. (0 + 1) * ls = ls BY <1>1
    <3>2. CASE x < ls
      <4>1. x \in 0..(ls - 1) /\ ls * 0 + x = x /\ ls * 0 = 0 BY <1>1, <1>2, <3>2
      <4>2. x \div ls = 0 /\ x % ls = x BY <1>1, <4>1, DivUnique
      <4>3. Chunks(S)[x] = 101 - ls + x BY <1>1, <1>2, <1>3, <4>1, <4>2
      <4> QED BY <3>1, <3>2, <4>3
    <3> QED BY <3>1, <3>2
  <2>2. Chunks(S) = [x \in P(S)!Index(Length) |-> Chunks(S)[x]] BY DEF Chunks
  <2> QED BY <2>1, <2>2
<1>6. ASSUME NEW k \in 1..(S - 1)
      PROVE  Front(k) = P(S)!merge(0, k * ls - 1, (k + 1) * ls - 1)[Front(k - 1)]
  <2> DEFINE p == k * ls
             a == Front(k - 1)
  <2>1. p \in Int /\ (k + 1) * ls = p + ls /\ ((k - 1) + 1) * ls = p
    <3>1. (k + 1) * ls = k * ls + 1 * ls /\ 1 * ls = ls BY <1>1
    <3>2. (k - 1) + 1 = k OBVIOUS
    <3> QED BY <1>1, <3>1, <3>2
  <2>2. p >= 1 /\ p + ls <= Length
    <3>1. ls * (k - 1) >= 0 /\ ls * (S - 1 - k) >= 0 BY <1>1, MulAtLeast
    <3>2. ls * (k - 1) = p - ls BY <1>1
    <3>3. ls * (S - 1 - k) = Length - ls - p BY <1>1
    <3> QED BY <1>1, <2>1, <3>1, <3>2, <3>3
  <2>3. a \in [P(S)!Index(Length) -> Int] /\ a \in P(S)!Data
    <3>1. k - 1 \in Nat OBVIOUS
    <3> QED BY <1>4, <3>1 DEF P!Data
  <2>4. \A x \in P(S)!Index(Length) : a[x] = IF x < p THEN 101 - p + x ELSE Chunks(S)[x] BY <2>1
  <2>5. ASSUME NEW y \in p..(p + ls - 1)
        PROVE  y \in P(S)!Index(Length) /\ Chunks(S)[y] = 101 - p - ls + (y - p)
    <3>1. y - p \in 0..(ls - 1) /\ ls * k + (y - p) = y BY <1>1, <2>1
    <3>2. y \div ls = k /\ y % ls = y - p
      <4>1. k \in Int /\ ls \in Nat \ {0} BY <1>1
      <4>2. (ls * k + (y - p)) \div ls = k /\ (ls * k + (y - p)) % ls = y - p
        BY ONLY <3>1, <4>1, DivUnique
      <4> QED BY <3>1, <4>2
    <3>3. y \in P(S)!Index(Length) BY <1>1, <2>1, <2>2 DEF P!Index
    <3>4. ls * k = p BY <1>1
    <3> QED BY <1>3, <3>2, <3>3, <3>4
  <2> HIDE DEF p, a
  <2>6. \A x \in 0..(p - 1), y \in ((p - 1) + 1)..(p + ls - 1) : a[x] > a[y]
    <3> SUFFICES ASSUME NEW x \in 0..(p - 1), NEW y \in ((p - 1) + 1)..(p + ls - 1)
                 PROVE  a[x] > a[y]
      OBVIOUS
    <3>1. x \in P(S)!Index(Length) /\ x < p BY <1>1, <2>1, <2>2 DEF P!Index
    <3>2. y \in p..(p + ls - 1) /\ ~(y < p) BY <1>1, <2>1
    <3>3. a[x] = 101 - p + x BY <2>4, <3>1
    <3>4. a[y] = 101 - p - ls + (y - p) BY <2>4, <2>5, <3>2
    <3> QED BY <1>1, <2>1, <3>2, <3>3, <3>4
  <2>7. P(S)!merge(0, p - 1, p + ls - 1)[a] = Rotated(a, 0, p - 1, p + ls - 1)
    <3>1. /\ 0 \in P(S)!Index(Length) /\ p - 1 \in P(S)!Index(Length)
          /\ p + ls - 1 \in P(S)!Index(Length)
          /\ 0 <= p - 1 /\ p - 1 < p + ls - 1
      BY <1>1, <2>1, <2>2 DEF P!Index
    <3>2. [P(S)!Index(Length) -> Int] \subseteq P(S)!Data /\ Length \in Nat /\ Length <= Length
      BY <1>1 DEF P!Data
    <3> QED BY <2>3, <2>6, <3>1, <3>2, MergeRotates
  <2>8. Rotated(a, 0, p - 1, p + ls - 1) = Front(k)
    <3>1. ASSUME NEW x \in P(S)!Index(Length)
          PROVE  (IF x < 0 \/ x > p + ls - 1 THEN a[x]
                  ELSE IF x < 0 + ((p + ls - 1) - (p - 1)) THEN a[(p - 1) + 1 + (x - 0)]
                  ELSE a[x - ((p + ls - 1) - (p - 1))])
                 = IF x < (k + 1) * ls THEN 101 - (k + 1) * ls + x ELSE Chunks(S)[x]
      <4>0. x \in Int /\ 0 <= x /\ x < Length /\ (p + ls - 1) - (p - 1) = ls BY <1>1, <1>2, <2>1
      <4>1. CASE x > p + ls - 1
        <5>1. ~(x < p) /\ ~(x < p + ls) BY <1>1, <2>1, <4>0, <4>1
        <5> QED BY <2>1, <2>4, <4>1, <5>1
      <4>2. CASE ~(x > p + ls - 1) /\ x < ls
        <5>1. (p - 1) + 1 + (x - 0) = p + x /\ p + x \in p..(p + ls - 1) /\ ~(p + x < p)
              /\ x < p + ls /\ ~(x < 0) /\ x < 0 + ls
          BY <1>1, <2>1, <2>2, <4>0, <4>2
        <5>2. a[p + x] = 101 - p - ls + ((p + x) - p) BY <2>4, <2>5, <5>1
        <5> QED BY <1>1, <2>1, <4>0, <4>2, <5>1, <5>2
      <4>3. CASE ~(x > p + ls - 1) /\ ~(x < ls)
        <5>1. x - ls \in P(S)!Index(Length) /\ x - ls < p /\ x < p + ls /\ ~(x < 0) /\ ~(x < 0 + ls)
          BY <1>1, <2>1, <2>2, <4>0, <4>3 DEF P!Index
        <5>2. a[x - ls] = 101 - p + (x - ls) BY <2>4, <5>1
        <5> QED BY <1>1, <2>1, <4>0, <4>3, <5>1, <5>2
      <4> QED BY <4>1, <4>2, <4>3
    <3>2. DOMAIN a = P(S)!Index(Length) BY <2>3
    <3> QED BY <3>1, <3>2 DEF Rotated
  <2> HIDE DEF Front
  <2>9. Front(k - 1) = a BY DEF a
  <2>10. k * ls = p BY DEF p
  <2>11. (k + 1) * ls = p + ls BY <2>1
  <2>12. P(S)!merge(0, k * ls - 1, (k + 1) * ls - 1) = P(S)!merge(0, p - 1, p + ls - 1)
    <3>1. k * ls - 1 = p - 1 BY <2>10
    <3>2. (k + 1) * ls - 1 = p + ls - 1 BY <1>1, <2>1, <2>11
    <3> QED BY <3>1, <3>2
  <2> QED BY <2>7, <2>8, <2>9, <2>12
<1>7. Fits(w)
  <2> HIDE DEF Front
  <2>1. ASSUME NEW k \in 0..(S - 1)
        PROVE  w[k] = IF k = 0 THEN m.arr ELSE P(S)!merge(0, k * ls - 1, (k + 1) * ls - 1)[w[k - 1]]
    <3>1. CASE k = 0 BY <1>1, <1>5, <3>1
    <3>2. CASE k # 0
      <4>1. k \in 1..(S - 1) /\ k - 1 \in 0..(S - 1) BY <1>1, <3>2
      <4> QED BY <1>6, <3>2, <4>1
    <3> QED BY <3>1, <3>2
  <2>2. w = [k \in 0..(S - 1) |-> w[k]] OBVIOUS
  <2> HIDE DEF w
  <2> QED BY <2>1, <2>2
<1>8. Fits(it)
  <2> HIDE DEF Fits, w
  <2> QED BY <1>7
<1>9. P(S)!merge_chunks(m).arr = it[S - 1] BY DEF P!merge_chunks, ls
<1> HIDE DEF it
<1> DEFINE Same == {k \in Nat : k <= S - 1 => it[k] = w[k]}
<1>10. 0 \in Same
  <2>1. 0 \in 0..(S - 1) BY <1>1
  <2> HIDE DEF w
  <2>2. it[0] = m.arr /\ w[0] = m.arr BY <1>7, <1>8, <2>1
  <2> QED BY <2>2
<1>11. ASSUME NEW k \in Same PROVE k + 1 \in Same
  <2> HIDE DEF w
  <2>1. CASE k + 1 <= S - 1
    <3>1. k \in Nat /\ k + 1 \in 0..(S - 1) /\ k + 1 # 0 /\ (k + 1) - 1 = k /\ k <= S - 1
      BY <1>1, <2>1
    <3>2. it[k] = w[k] BY <3>1
    <3>3. it[k + 1] = P(S)!merge(0, (k + 1) * ls - 1, ((k + 1) + 1) * ls - 1)[it[k]]
      BY <1>8, <3>1
    <3>4. w[k + 1] = P(S)!merge(0, (k + 1) * ls - 1, ((k + 1) + 1) * ls - 1)[w[k]]
      BY <1>7, <3>1
    <3> QED BY <3>1, <3>2, <3>3, <3>4
  <2> QED BY <2>1
<1>12. it[S - 1] = Front(S - 1)
  <2>1. Same = Nat
    <3> HIDE DEF Same
    <3>1. Same \in SUBSET Nat BY DEF Same
    <3> QED BY <1>10, <1>11, <3>1, Counting
  <2>2. S - 1 \in Nat /\ S - 1 <= S - 1 BY <1>1
  <2> HIDE DEF Front
  <2>3. S - 1 \in Same BY <2>1, <2>2
  <2>4. it[S - 1] = w[S - 1] BY <2>2, <2>3
  <2> QED BY <2>2, <2>4
<1>13. Front(S - 1) = Sorted(S)
  <2>1. ((S - 1) + 1) * ls = Length BY <1>1
  <2>2. ASSUME NEW x \in P(S)!Index(Length)
        PROVE  (IF x < ((S - 1) + 1) * ls THEN 101 - ((S - 1) + 1) * ls + x ELSE Chunks(S)[x])
               = 101 - Length + x
    BY <1>2, <2>1
  <2> QED BY <2>2 DEF Sorted
<1> QED BY <1>9, <1>12, <1>13

-----------------------------------------------------------------------------
(* The steps of the programs.                                              *)

\* The calls in the steps before each step, and the step of each call.
Before(p) ==
    CASE p \in {"mpi", "matmul"} -> <<0, 0, 1, 2, 2, 3>>
      [] p = "matmul_hard" -> <<0, 0, 1, 2, 3, 3, 4, 5, 5>>
      [] p = "mergesort" -> <<0, 0, 1, 1, 2, 2>>
      [] p = "render" -> <<0, 0, 1, 2, 3, 4, 5, 6, 6, 7>>
Calls(p) ==
    CASE p \in {"mpi", "matmul"} -> <<2, 3, 5>>
      [] p = "matmul_hard" -> <<2, 3, 4, 6, 7>>
      [] p = "mergesort" -> <<2, 4>>
      [] p = "render" -> <<2, 3, 4, 5, 6, 7, 9>>

LEMMA MatmulIs ==
  ASSUME NEW S
  PROVE  /\ Len(P(S)!Matmul) = 5 /\ Len(P(S)!Mpi) = 5
         /\ P(S)!Matmul[1] = P(S)!Local("example") /\ P(S)!Mpi[1] = P(S)!Local("example")
         /\ P(S)!Matmul[2] = P(S)!FMPI_Bcast("B") /\ P(S)!Mpi[2] = P(S)!FMPI_Bcast("B")
         /\ P(S)!Matmul[3] = P(S)!FMPI_Scatter("A", "A_sub", Rows * N)
         /\ P(S)!Mpi[3] = P(S)!FMPI_Scatter("A", "A_sub", Rows * N)
         /\ P(S)!Matmul[4] = P(S)!Local("matmul_int8") /\ P(S)!Mpi[4] = P(S)!Local("matmul")
         /\ P(S)!Matmul[5] = P(S)!FMPI_Gather("C_sub", "C", Rows * N)
         /\ P(S)!Mpi[5] = P(S)!FMPI_Gather("C_sub", "C", Rows * N)
BY DEF P!Matmul, P!Mpi

LEMMA MatmulHardIs ==
  ASSUME NEW S
  PROVE  /\ Len(P(S)!MatmulHard) = 8
         /\ P(S)!MatmulHard[1] = P(S)!Local("generate_matrices")
         /\ P(S)!MatmulHard[2] = P(S)!FMPI_Bcast("B")
         /\ P(S)!MatmulHard[3] = P(S)!FMPI_Scatter("A", "A_sub", Rows * N)
         /\ P(S)!MatmulHard[4] = P(S)!FMPI_Barrier
         /\ P(S)!MatmulHard[5] = P(S)!Local("matmul")
         /\ P(S)!MatmulHard[6] = P(S)!FMPI_Gather("C_sub", "C", Rows * N)
         /\ P(S)!MatmulHard[7] = P(S)!FMPI_Barrier
         /\ P(S)!MatmulHard[8] = P(S)!Local("verify_result")
BY DEF P!MatmulHard

LEMMA MergeSortIs ==
  ASSUME NEW S
  PROVE  /\ Len(P(S)!MergeSort) = 5
         /\ P(S)!MergeSort[1] = P(S)!Local("fill")
         /\ P(S)!MergeSort[2] = P(S)!FMPI_Scatter("arr", "sub_arr", Share)
         /\ P(S)!MergeSort[3] = P(S)!Local("merge_sort")
         /\ P(S)!MergeSort[4] = P(S)!FMPI_Gather("sub_arr", "arr", Share)
         /\ P(S)!MergeSort[5] = P(S)!Local("merge")
BY DEF P!MergeSort

LEMMA RenderIs ==
  ASSUME NEW S
  PROVE  /\ Len(P(S)!Render) = 9
         /\ P(S)!Render[1] = P(S)!Local("random_circles")
         /\ P(S)!Render[2] = P(S)!FMPI_Bcast("x") /\ P(S)!Render[3] = P(S)!FMPI_Bcast("y")
         /\ P(S)!Render[4] = P(S)!FMPI_Bcast("radius")
         /\ P(S)!Render[5] = P(S)!FMPI_Bcast("r") /\ P(S)!Render[6] = P(S)!FMPI_Bcast("g")
         /\ P(S)!Render[7] = P(S)!FMPI_Bcast("b")
         /\ P(S)!Render[8] = P(S)!Local("render")
         /\ P(S)!Render[9]
               = P(S)!FMPI_Gather("image_sub", "image", Rows * N * P(S)!Channels)
BY DEF P!Render

LEMMA NamesAre ==
  ASSUME NEW S
  PROVE  /\ P(S)!Names[1] = "x" /\ P(S)!Names[2] = "y" /\ P(S)!Names[3] = "radius"
         /\ P(S)!Names[4] = "r" /\ P(S)!Names[5] = "g" /\ P(S)!Names[6] = "b"
         /\ DOMAIN P(S)!Names = 1..6 /\ P(S)!Circle = {"x", "y", "radius", "r", "g", "b"}
<1>1. /\ P(S)!Names[1] = "x" /\ P(S)!Names[2] = "y" /\ P(S)!Names[3] = "radius"
      /\ P(S)!Names[4] = "r" /\ P(S)!Names[5] = "g" /\ P(S)!Names[6] = "b"
      /\ DOMAIN P(S)!Names = 1..6
  BY DEF P!Names
<1>2. \A k \in 1..6 : k = 1 \/ k = 2 \/ k = 3 \/ k = 4 \/ k = 5 \/ k = 6 OBVIOUS
<1> QED BY <1>1, <1>2 DEF P!Circle

\* What the k-th step of p does to the calls.
StepIs(S, p, k) ==
    /\ Before(p)[k] \in 0..6
    /\ P(S)!Steps(p)[k].op \in {"local", "barrier", "bcast", "scatter", "gather"}
    /\ P(S)!Steps(p)[k].op = "local" => Before(p)[k + 1] = Before(p)[k]
    /\ P(S)!Steps(p)[k].op # "local" => Before(p)[k + 1] = Before(p)[k] + 1 /\ Calls(p)[Before(p)[k] + 1] = k

\* What each of the steps is.
LEMMA MpiOps ==
  ASSUME NEW S
  PROVE  /\ P(S)!Mpi[1].op = "local" /\ P(S)!Mpi[2].op = "bcast" /\ P(S)!Mpi[3].op = "scatter"
         /\ P(S)!Mpi[4].op = "local" /\ P(S)!Mpi[5].op = "gather"
BY DEF P!Mpi, P!Matmul, P!Local, P!FMPI_Bcast, P!FMPI_Scatter, P!FMPI_Gather

LEMMA MatmulOps ==
  ASSUME NEW S
  PROVE  /\ P(S)!Matmul[1].op = "local" /\ P(S)!Matmul[2].op = "bcast"
         /\ P(S)!Matmul[3].op = "scatter"
         /\ P(S)!Matmul[4].op = "local" /\ P(S)!Matmul[5].op = "gather"
BY DEF P!Matmul, P!Local, P!FMPI_Bcast, P!FMPI_Scatter, P!FMPI_Gather

LEMMA MatmulHardOps ==
  ASSUME NEW S
  PROVE  /\ P(S)!MatmulHard[1].op = "local" /\ P(S)!MatmulHard[2].op = "bcast"
         /\ P(S)!MatmulHard[3].op = "scatter"
         /\ P(S)!MatmulHard[4].op = "barrier" /\ P(S)!MatmulHard[5].op = "local"
         /\ P(S)!MatmulHard[6].op = "gather"
         /\ P(S)!MatmulHard[7].op = "barrier" /\ P(S)!MatmulHard[8].op = "local"
BY DEF P!MatmulHard, P!Local, P!FMPI_Bcast, P!FMPI_Scatter, P!FMPI_Barrier, P!FMPI_Gather

LEMMA MergeSortOps ==
  ASSUME NEW S
  PROVE  /\ P(S)!MergeSort[1].op = "local" /\ P(S)!MergeSort[2].op = "scatter"
         /\ P(S)!MergeSort[3].op = "local"
         /\ P(S)!MergeSort[4].op = "gather" /\ P(S)!MergeSort[5].op = "local"
BY DEF P!MergeSort, P!Local, P!FMPI_Scatter, P!FMPI_Gather

LEMMA RenderOps ==
  ASSUME NEW S
  PROVE  /\ P(S)!Render[1].op = "local" /\ P(S)!Render[2].op = "bcast"
         /\ P(S)!Render[3].op = "bcast"
         /\ P(S)!Render[4].op = "bcast" /\ P(S)!Render[5].op = "bcast"
         /\ P(S)!Render[6].op = "bcast"
         /\ P(S)!Render[7].op = "bcast" /\ P(S)!Render[8].op = "local"
         /\ P(S)!Render[9].op = "gather"
BY DEF P!Render, P!Local, P!FMPI_Bcast, P!FMPI_Gather

LEMMA StepFacts ==
  ASSUME NEW S, NEW p \in P(S)!Programs
  PROVE  /\ Len(P(S)!Steps(p)) \in 5..9 /\ Before(p)[1] = 0
         /\ \A k \in 1..Len(P(S)!Steps(p)) : StepIs(S, p, k)
<1>1. CASE p = "mpi"
  <2>1. P(S)!Steps(p) = P(S)!Mpi BY <1>1 DEF P!Steps
  <2>2. Before(p) = <<0, 0, 1, 2, 2, 3>> /\ Calls(p) = <<2, 3, 5>>
    BY <1>1 DEF Before, Calls
  <2>3. /\ P(S)!Steps(p)[1].op = "local" /\ P(S)!Steps(p)[2].op = "bcast"
        /\ P(S)!Steps(p)[3].op = "scatter"
        /\ P(S)!Steps(p)[4].op = "local" /\ P(S)!Steps(p)[5].op = "gather"
    BY <2>1, MpiOps
  <2>4. StepIs(S, p, 1) BY <2>2, <2>3 DEF StepIs
  <2>5. StepIs(S, p, 2) BY <2>2, <2>3 DEF StepIs
  <2>6. StepIs(S, p, 3) BY <2>2, <2>3 DEF StepIs
  <2>7. StepIs(S, p, 4) BY <2>2, <2>3 DEF StepIs
  <2>8. StepIs(S, p, 5) BY <2>2, <2>3 DEF StepIs
  <2>9. Len(P(S)!Steps(p)) = 5 BY <2>1, MatmulIs
  <2>10. \A k \in 1..5 : k = 1 \/ k = 2 \/ k = 3 \/ k = 4 \/ k = 5 OBVIOUS
  <2>11. \A k \in 1..5 : StepIs(S, p, k)
    BY <2>4, <2>5, <2>6, <2>7, <2>8, <2>10
  <2>12. Before(p)[1] = 0 BY <2>2
  <2> QED BY <2>9, <2>11, <2>12
<1>2. CASE p = "matmul"
  <2>1. P(S)!Steps(p) = P(S)!Matmul BY <1>2 DEF P!Steps
  <2>2. Before(p) = <<0, 0, 1, 2, 2, 3>> /\ Calls(p) = <<2, 3, 5>>
    BY <1>2 DEF Before, Calls
  <2>3. /\ P(S)!Steps(p)[1].op = "local" /\ P(S)!Steps(p)[2].op = "bcast"
        /\ P(S)!Steps(p)[3].op = "scatter"
        /\ P(S)!Steps(p)[4].op = "local" /\ P(S)!Steps(p)[5].op = "gather"
    BY <2>1, MatmulOps
  <2>4. StepIs(S, p, 1) BY <2>2, <2>3 DEF StepIs
  <2>5. StepIs(S, p, 2) BY <2>2, <2>3 DEF StepIs
  <2>6. StepIs(S, p, 3) BY <2>2, <2>3 DEF StepIs
  <2>7. StepIs(S, p, 4) BY <2>2, <2>3 DEF StepIs
  <2>8. StepIs(S, p, 5) BY <2>2, <2>3 DEF StepIs
  <2>9. Len(P(S)!Steps(p)) = 5 BY <2>1, MatmulIs
  <2>10. \A k \in 1..5 : k = 1 \/ k = 2 \/ k = 3 \/ k = 4 \/ k = 5 OBVIOUS
  <2>11. \A k \in 1..5 : StepIs(S, p, k)
    BY <2>4, <2>5, <2>6, <2>7, <2>8, <2>10
  <2>12. Before(p)[1] = 0 BY <2>2
  <2> QED BY <2>9, <2>11, <2>12
<1>3. CASE p = "matmul_hard"
  <2>1. P(S)!Steps(p) = P(S)!MatmulHard BY <1>3 DEF P!Steps
  <2>2. Before(p) = <<0, 0, 1, 2, 3, 3, 4, 5, 5>> /\ Calls(p) = <<2, 3, 4, 6, 7>>
    BY <1>3 DEF Before, Calls
  <2>3. /\ P(S)!Steps(p)[1].op = "local" /\ P(S)!Steps(p)[2].op = "bcast"
        /\ P(S)!Steps(p)[3].op = "scatter" /\ P(S)!Steps(p)[4].op = "barrier"
        /\ P(S)!Steps(p)[5].op = "local" /\ P(S)!Steps(p)[6].op = "gather"
        /\ P(S)!Steps(p)[7].op = "barrier" /\ P(S)!Steps(p)[8].op = "local"
    BY <2>1, MatmulHardOps
  <2>4. StepIs(S, p, 1) BY <2>2, <2>3 DEF StepIs
  <2>5. StepIs(S, p, 2) BY <2>2, <2>3 DEF StepIs
  <2>6. StepIs(S, p, 3) BY <2>2, <2>3 DEF StepIs
  <2>7. StepIs(S, p, 4) BY <2>2, <2>3 DEF StepIs
  <2>8. StepIs(S, p, 5) BY <2>2, <2>3 DEF StepIs
  <2>9. StepIs(S, p, 6) BY <2>2, <2>3 DEF StepIs
  <2>10. StepIs(S, p, 7) BY <2>2, <2>3 DEF StepIs
  <2>11. StepIs(S, p, 8) BY <2>2, <2>3 DEF StepIs
  <2>12. Len(P(S)!Steps(p)) = 8 BY <2>1, MatmulHardIs
  <2>13. \A k \in 1..8 : k = 1 \/ k = 2 \/ k = 3 \/ k = 4 \/ k = 5 \/ k = 6 \/ k = 7 \/ k = 8
    OBVIOUS
  <2>14. \A k \in 1..8 : StepIs(S, p, k)
    BY <2>4, <2>5, <2>6, <2>7, <2>8, <2>9, <2>10, <2>11, <2>13
  <2>15. Before(p)[1] = 0 BY <2>2
  <2> QED BY <2>12, <2>14, <2>15
<1>4. CASE p = "mergesort"
  <2>1. P(S)!Steps(p) = P(S)!MergeSort BY <1>4 DEF P!Steps
  <2>2. Before(p) = <<0, 0, 1, 1, 2, 2>> /\ Calls(p) = <<2, 4>>
    BY <1>4 DEF Before, Calls
  <2>3. /\ P(S)!Steps(p)[1].op = "local" /\ P(S)!Steps(p)[2].op = "scatter"
        /\ P(S)!Steps(p)[3].op = "local"
        /\ P(S)!Steps(p)[4].op = "gather" /\ P(S)!Steps(p)[5].op = "local"
    BY <2>1, MergeSortOps
  <2>4. StepIs(S, p, 1) BY <2>2, <2>3 DEF StepIs
  <2>5. StepIs(S, p, 2) BY <2>2, <2>3 DEF StepIs
  <2>6. StepIs(S, p, 3) BY <2>2, <2>3 DEF StepIs
  <2>7. StepIs(S, p, 4) BY <2>2, <2>3 DEF StepIs
  <2>8. StepIs(S, p, 5) BY <2>2, <2>3 DEF StepIs
  <2>9. Len(P(S)!Steps(p)) = 5 BY <2>1, MergeSortIs
  <2>10. \A k \in 1..5 : k = 1 \/ k = 2 \/ k = 3 \/ k = 4 \/ k = 5 OBVIOUS
  <2>11. \A k \in 1..5 : StepIs(S, p, k)
    BY <2>4, <2>5, <2>6, <2>7, <2>8, <2>10
  <2>12. Before(p)[1] = 0 BY <2>2
  <2> QED BY <2>9, <2>11, <2>12
<1>5. CASE p = "render"
  <2>1. P(S)!Steps(p) = P(S)!Render BY <1>5 DEF P!Steps
  <2>2. Before(p) = <<0, 0, 1, 2, 3, 4, 5, 6, 6, 7>> /\ Calls(p) = <<2, 3, 4, 5, 6, 7, 9>>
    BY <1>5 DEF Before, Calls
  <2>3. /\ P(S)!Steps(p)[1].op = "local" /\ P(S)!Steps(p)[2].op = "bcast"
        /\ P(S)!Steps(p)[3].op = "bcast" /\ P(S)!Steps(p)[4].op = "bcast"
        /\ P(S)!Steps(p)[5].op = "bcast"
        /\ P(S)!Steps(p)[6].op = "bcast" /\ P(S)!Steps(p)[7].op = "bcast"
        /\ P(S)!Steps(p)[8].op = "local" /\ P(S)!Steps(p)[9].op = "gather"
    BY <2>1, RenderOps
  <2>4. StepIs(S, p, 1) BY <2>2, <2>3 DEF StepIs
  <2>5. StepIs(S, p, 2) BY <2>2, <2>3 DEF StepIs
  <2>6. StepIs(S, p, 3) BY <2>2, <2>3 DEF StepIs
  <2>7. StepIs(S, p, 4) BY <2>2, <2>3 DEF StepIs
  <2>8. StepIs(S, p, 5) BY <2>2, <2>3 DEF StepIs
  <2>9. StepIs(S, p, 6) BY <2>2, <2>3 DEF StepIs
  <2>10. StepIs(S, p, 7) BY <2>2, <2>3 DEF StepIs
  <2>11. StepIs(S, p, 8) BY <2>2, <2>3 DEF StepIs
  <2>12. StepIs(S, p, 9) BY <2>2, <2>3 DEF StepIs
  <2>13. Len(P(S)!Steps(p)) = 9 BY <2>1, RenderIs
  <2>14. \A k \in 1..9 : k = 1 \/ k = 2 \/ k = 3 \/ k = 4 \/ k = 5 \/ k = 6 \/ k = 7 \/ k = 8 \/ k = 9
    OBVIOUS
  <2>15. \A k \in 1..9 : StepIs(S, p, k)
    BY <2>4, <2>5, <2>6, <2>7, <2>8, <2>9, <2>10, <2>11, <2>12, <2>14
  <2>16. Before(p)[1] = 0 BY <2>2
  <2> QED BY <2>13, <2>15, <2>16
<1> QED BY <1>1, <1>2, <1>3, <1>4, <1>5 DEF P!Programs

-----------------------------------------------------------------------------
(* The arrays of all Pis when all are at the same step: each Pi's own at a *)
(* step depend on nothing else.                                            *)

Buffers(S, m, step) == [w \in P(S)!Node |-> m[w][step.send]]
Followed(S, m, step, n) ==
    IF step.op = "local" THEN P(S)!Computed(step.f, n, m[n])
    ELSE IF step.op = "barrier" THEN m[n]
    ELSE [m[n] EXCEPT ![step.recv] = P(S)!Received(n, step, @, Buffers(S, m, step))]

After(S, p) ==
    LET after[k \in 1..(Len(P(S)!Steps(p)) + 1)] ==
            IF k = 1 THEN [n \in P(S)!Node |-> P(S)!Arrays(p)]
            ELSE [n \in P(S)!Node |-> Followed(S, after[k - 1], P(S)!Steps(p)[k - 1], n)]
    IN  after

Start(S, p) == [n \in P(S)!Node |-> P(S)!Arrays(p)]
Together(S, m, step) == [n \in P(S)!Node |-> Followed(S, m, step, n)]

LEMMA AllAre ==
  ASSUME NEW S, NEW m, NEW step, NEW n \in P(S)!Node
  PROVE  Together(S, m, step)[n] = Followed(S, m, step, n)
BY DEF Together

LEMMA AfterIs ==
  ASSUME NEW S, NEW p \in P(S)!Programs
  PROVE  /\ After(S, p)[1] = Start(S, p)
         /\ \A k \in 1..Len(P(S)!Steps(p)) : After(S, p)[k + 1]
               = Together(S, After(S, p)[k], P(S)!Steps(p)[k])
<1> DEFINE Step(f, k) == IF k = 1 THEN [n \in P(S)!Node |-> P(S)!Arrays(p)]
                         ELSE [n \in P(S)!Node |-> Followed(S, f[k - 1], P(S)!Steps(p)[k - 1], n)]
           Good == {m \in Nat : \E f : f = [k \in 1..(m + 1) |-> Step(f, k)]}
           Fits(f) == f = [k \in 1..(Len(P(S)!Steps(p)) + 1) |-> Step(f, k)]
<1>1. 0 \in Good
  <2> DEFINE f == [k \in 1..(0 + 1) |-> [n \in P(S)!Node |-> P(S)!Arrays(p)]]
  <2>1. \A k \in 1..(0 + 1) : k = 1 OBVIOUS
  <2>2. f = [k \in 1..(0 + 1) |-> Step(f, k)] BY <2>1
  <2> HIDE DEF f, Step
  <2>3. \E g : g = [k \in 1..(0 + 1) |-> Step(g, k)] BY <2>2
  <2> QED BY <2>3
<1>2. ASSUME NEW m \in Good PROVE m + 1 \in Good
  <2>1. m \in Nat BY <1>2
  <2>2. PICK f : f = [k \in 1..(m + 1) |-> Step(f, k)] BY <1>2
  <2> HIDE DEF Step
  <2> DEFINE longer == [k \in 1..((m + 1) + 1) |-> IF k <= m + 1 THEN f[k] ELSE Step(f, k)]
  <2>3. ASSUME NEW k \in 1..((m + 1) + 1) PROVE longer[k] = Step(longer, k)
    <3>1. k # 1 => k - 1 \in 1..(m + 1) /\ longer[k - 1] = f[k - 1] BY <2>1
    <3>2. Step(longer, k) = Step(f, k)
      <4> HIDE DEF longer
      <4> QED BY <3>1 DEF Step
    <3>3. k <= m + 1 => f[k] = Step(f, k) BY <2>1, <2>2
    <3> QED BY <3>2, <3>3
  <2>4. longer = [k \in 1..((m + 1) + 1) |-> Step(longer, k)]
    <3>1. longer = [k \in 1..((m + 1) + 1) |-> longer[k]] OBVIOUS
    <3> HIDE DEF longer
    <3> QED BY <2>3, <3>1
  <2> HIDE DEF longer
  <2>5. \E w : w = [k \in 1..((m + 1) + 1) |-> Step(w, k)] BY <2>4
  <2> QED BY <2>1, <2>5
<1>3. Len(P(S)!Steps(p)) \in Nat
  <2>1. Len(P(S)!Steps(p)) \in 5..9 BY StepFacts
  <2> QED BY <2>1
<1>4. \E f : Fits(f)
  <2>1. Good = Nat
    <3> HIDE DEF Good
    <3>1. Good \in SUBSET Nat BY DEF Good
    <3> QED BY <1>1, <1>2, <3>1, Counting
  <2> HIDE DEF Step
  <2> QED BY <1>3, <2>1
<1>5. After(S, p) = CHOOSE f : Fits(f) BY DEF After
<1>6. Fits(After(S, p))
  <2> HIDE DEF Fits
  <2> QED BY <1>4, <1>5
<1>7. \A k \in 1..(Len(P(S)!Steps(p)) + 1) : After(S, p)[k] = Step(After(S, p), k)
  <2> HIDE DEF Step
  <2> QED BY <1>6
<1>8. After(S, p)[1] = [n \in P(S)!Node |-> P(S)!Arrays(p)]
  <2>1. 1 \in 1..(Len(P(S)!Steps(p)) + 1) BY <1>3
  <2> QED BY <1>7, <2>1
<1>9. ASSUME NEW k \in 1..Len(P(S)!Steps(p))
      PROVE  After(S, p)[k + 1] = [n \in P(S)!Node |-> Followed(S, After(S, p)[k], P(S)!Steps(p)[k], n)]
  <2>1. k + 1 \in 1..(Len(P(S)!Steps(p)) + 1) /\ k + 1 # 1 /\ (k + 1) - 1 = k BY <1>3
  <2>2. After(S, p)[k + 1] = Step(After(S, p), k + 1) BY <1>7, <2>1
  <2> QED BY <2>1, <2>2
<1> QED BY <1>8, <1>9 DEF Start, Together

LEMMA AfterAll ==
  ASSUME NEW S, NEW p \in P(S)!Programs, NEW k \in 1..Len(P(S)!Steps(p)), NEW later, later = k + 1
  PROVE  After(S, p)[later] = Together(S, After(S, p)[k], P(S)!Steps(p)[k])
BY AfterIs

LEMMA AtFirst ==
  ASSUME NEW S, NEW p \in P(S)!Programs, NEW n \in P(S)!Node
  PROVE  After(S, p)[1][n] = P(S)!Arrays(p)
<1>1. After(S, p)[1] = Start(S, p) BY AfterIs
<1> QED BY <1>1 DEF Start

\* A receive buffer depends on what the root gave, and the root's on all.
LEMMA ReceivedSame ==
  ASSUME NEW S, NEW n \in P(S)!Node, NEW step, step.op \in {"bcast", "scatter", "gather"}, NEW old,
         NEW f, NEW g,
         f[P(S)!root] = g[P(S)!root], n = P(S)!root => \A w \in P(S)!Node : f[w] = g[w]
  PROVE  P(S)!Received(n, step, old, f) = P(S)!Received(n, step, old, g)
<1>1. CASE step.op = "bcast" BY <1>1 DEF P!Received
<1>2. CASE step.op = "scatter"
  <2>1. P(S)!Received(n, step, old, f)
        = [x \in P(S)!Index(step.cnt) |->
              IF n * step.cnt + x \in DOMAIN f[P(S)!root]
              THEN f[P(S)!root][n * step.cnt + x] ELSE P(S)!junk]
    BY <1>2 DEF P!Received
  <2>2. P(S)!Received(n, step, old, g)
        = [x \in P(S)!Index(step.cnt) |->
              IF n * step.cnt + x \in DOMAIN g[P(S)!root]
              THEN g[P(S)!root][n * step.cnt + x] ELSE P(S)!junk]
    BY <1>2 DEF P!Received
  <2> QED BY <2>1, <2>2
<1>3. CASE step.op = "gather"
  <2>1. CASE n = P(S)!root
    <3>1. \A j \in DOMAIN old :
          (IF j \div step.cnt \in P(S)!Node THEN f[j \div step.cnt][j % step.cnt] ELSE old[j])
                              = (IF j \div step.cnt \in P(S)!Node THEN g[j \div step.cnt][j % step.cnt] ELSE old[j])
      BY <2>1
    <3> QED BY <1>3, <2>1, <3>1 DEF P!Received
  <2>2. CASE n # P(S)!root BY <1>3, <2>2 DEF P!Received
  <2> QED BY <2>1, <2>2
<1> QED BY <1>1, <1>2, <1>3

-----------------------------------------------------------------------------
(* The invariant: every Pi is where the program brings it, and what it gave*)
(* to a call is what it had there, although the Pis are at different steps.*)

Gave(S, p, n, c) ==
    IF P(S)!Steps(p)[Calls(p)[c]].op = "barrier" THEN <<>>
    ELSE After(S, p)[Calls(p)[c]][n][P(S)!Steps(p)[Calls(p)[c]].send]

Idle(S) == /\ pc = [n \in P(S)!Node |-> 1] /\ call = [n \in P(S)!Node |-> 1]
           /\ inside = [n \in P(S)!Node |-> FALSE] /\ sent = [n \in P(S)!Node |-> <<>>]
Progress(S) ==
    /\ pc \in [P(S)!Node -> 1..(Len(P(S)!Steps(program)) + 1)]
    /\ call = [n \in P(S)!Node |-> Before(program)[pc[n]] + 1]
    /\ inside \in [P(S)!Node -> BOOLEAN]
    /\ \A n \in P(S)!Node : inside[n] => pc[n] <= Len(P(S)!Steps(program)) /\ P(S)!Steps(program)[pc[n]].op # "local"
Arrived(S) == mem = [n \in P(S)!Node |-> After(S, program)[pc[n]][n]]
GaveInTurn(S) ==
    /\ sent \in [P(S)!Node -> Seq({Gave(S, program, n, c) : n \in P(S)!Node, c \in Nat})]
    /\ \A n \in P(S)!Node : /\ Len(sent[n]) = IF inside[n] THEN call[n] ELSE call[n] - 1
                            /\ \A c \in 1..Len(sent[n]) : sent[n][c] = Gave(S, program, n, c)
Lockstep(S) ==
    /\ program \in P(S)!Programs \cup {"none"}
    /\ program = "none" => Idle(S)
    /\ program # "none" => Progress(S) /\ Arrived(S) /\ GaveInTurn(S)
    /\ overrun => ~P(S)!Divides

LEMMA NotNone == ASSUME NEW S PROVE "none" \notin P(S)!Programs
BY DEF P!Programs

LEMMA StepCount ==
  ASSUME NEW S, NEW p \in P(S)!Programs
  PROVE  Len(P(S)!Steps(p)) \in Nat /\ Len(P(S)!Steps(p)) >= 1
<1>1. Len(P(S)!Steps(p)) \in 5..9 BY StepFacts
<1>2. \A k \in 5..9 : k \in Nat /\ k >= 1 OBVIOUS
<1> QED BY ONLY <1>1, <1>2

LEMMA BeforeNat ==
  ASSUME NEW S, NEW p \in P(S)!Programs, NEW k \in 1..(Len(P(S)!Steps(p)) + 1)
  PROVE  Before(p)[k] \in Nat
<1>1. Len(P(S)!Steps(p)) \in Nat /\ Len(P(S)!Steps(p)) >= 1
  BY StepCount
<1>2. CASE k \in 1..Len(P(S)!Steps(p))
  <2>1. Before(p)[k] \in 0..6 BY <1>2, StepFacts DEF StepIs
  <2> QED BY <2>1
<1>3. CASE k = Len(P(S)!Steps(p)) + 1
  <2>1. Len(P(S)!Steps(p)) \in 1..Len(P(S)!Steps(p)) BY <1>1
  <2>2. StepIs(S, p, Len(P(S)!Steps(p))) BY <2>1, StepFacts
  <2> QED BY <1>3, <2>2 DEF StepIs
<1> QED BY <1>1, <1>2, <1>3

LEMMA LockInit == ASSUME NEW S PROVE P(S)!Init => Lockstep(S)
BY NotNone DEF P!Init, P!Collectives!Init, Lockstep, Idle, P!Node

LEMMA LockLoad ==
  ASSUME NEW S, Lockstep(S), NEW p \in P(S)!Programs, P(S)!Load(p)
  PROVE  Lockstep(S)'
<1>1. program = "none" /\ program' = p /\ p # "none" /\ Idle(S)
  BY NotNone DEF P!Load, Lockstep
<1>2. pc' = pc /\ call' = call /\ inside' = inside /\ sent' = sent /\ overrun' = overrun
      /\ mem' = [n \in P(S)!Node |-> P(S)!Arrays(p)]
  BY DEF P!Load
<1>3. Len(P(S)!Steps(p)) \in Nat /\ Before(p)[1] = 0
  <2>1. Len(P(S)!Steps(p)) \in 5..9 BY StepFacts
  <2> QED BY <2>1, StepFacts
<1>4. Progress(S)' BY <1>1, <1>2, <1>3 DEF Progress, Idle
<1>5. Arrived(S)'
  <2>1. pc' = [n \in P(S)!Node |-> 1] BY <1>1, <1>2 DEF Idle
  <2>2. \A n \in P(S)!Node : After(S, p)[pc'[n]][n] = P(S)!Arrays(p) BY <2>1, AtFirst
  <2> QED BY <1>1, <1>2, <2>2 DEF Arrived
<1>6. GaveInTurn(S)' BY <1>1, <1>2 DEF GaveInTurn, Idle
<1> QED BY <1>1, <1>2, <1>4, <1>5, <1>6 DEF Lockstep

\* What the actions of one Pi have in common.
LEMMA Stepping ==
  ASSUME NEW S, Lockstep(S), program # "none", NEW n \in P(S)!Node,
         pc[n] <= Len(P(S)!Steps(program))
  PROVE  /\ program \in P(S)!Programs /\ pc[n] \in 1..Len(P(S)!Steps(program))
         /\ Len(P(S)!Steps(program)) \in Nat
         /\ StepIs(S, program, pc[n])
         /\ mem[n] = After(S, program)[pc[n]][n]
         /\ After(S, program)[pc[n] + 1][n]
               = Followed(S, After(S, program)[pc[n]], P(S)!Steps(program)[pc[n]], n)
         /\ call[n] = Before(program)[pc[n]] + 1
<1>1. program \in P(S)!Programs /\ Progress(S) /\ Arrived(S) BY DEF Lockstep
<1>2. Len(P(S)!Steps(program)) \in Nat
  <2>1. Len(P(S)!Steps(program)) \in 5..9 BY <1>1, StepFacts
  <2> QED BY <2>1
<1>3. pc[n] \in 1..Len(P(S)!Steps(program)) BY <1>1, <1>2 DEF Progress
<1>4. mem[n] = After(S, program)[pc[n]][n] /\ call[n] = Before(program)[pc[n]] + 1
  BY <1>1 DEF Arrived, Progress
<1>5. StepIs(S, program, pc[n]) BY <1>1, <1>3, StepFacts
<1>6. After(S, program)[pc[n] + 1] = Together(S, After(S, program)[pc[n]], P(S)!Steps(program)[pc[n]])
  BY <1>1, <1>3, AfterAll
<1> QED BY <1>1, <1>2, <1>3, <1>4, <1>5, <1>6, AllAre

\* A Pi that has computed or left a call is a step further, with the arrays of
\* that step; the others are where they were.
LEMMA Further ==
  ASSUME NEW S, Lockstep(S), program # "none", NEW n \in P(S)!Node,
         pc[n] <= Len(P(S)!Steps(program)),
         pc' = [pc EXCEPT ![n] = @ + 1], mem' = [mem EXCEPT ![n] = mem'[n]], program' = program,
         mem'[n] = After(S, program)[pc[n] + 1][n],
         call' = [call EXCEPT ![n] = Before(program)[pc[n] + 1] + 1],
         inside' = [inside EXCEPT ![n] = FALSE]
  PROVE  Progress(S)' /\ Arrived(S)'
<1>1. Progress(S) /\ Arrived(S) /\ program \in P(S)!Programs BY DEF Lockstep
<1>2. Len(P(S)!Steps(program)) \in Nat /\ pc[n] \in 1..Len(P(S)!Steps(program)) BY Stepping
<1>3. pc' \in [P(S)!Node -> 1..(Len(P(S)!Steps(program)) + 1)]
  <2>1. pc[n] + 1 \in 1..(Len(P(S)!Steps(program)) + 1) BY <1>2
  <2> QED BY <1>1, <2>1 DEF Progress
<1>4. call' = [w \in P(S)!Node |-> Before(program)[pc'[w]] + 1] BY <1>1 DEF Progress
<1>5. inside' \in [P(S)!Node -> BOOLEAN]
      /\ \A w \in P(S)!Node : inside'[w] => pc'[w] <= Len(P(S)!Steps(program)) /\ P(S)!Steps(program)[pc'[w]].op # "local"
  BY <1>1 DEF Progress
<1>6. Progress(S)' BY <1>3, <1>4, <1>5 DEF Progress
<1>7. mem' = [w \in P(S)!Node |-> After(S, program)[pc'[w]][w]] BY <1>1 DEF Arrived, Progress
<1> QED BY <1>6, <1>7 DEF Arrived

LEMMA LockCompute ==
  ASSUME NEW S, Lockstep(S), NEW n \in P(S)!Node, P(S)!Compute(n)
  PROVE  Lockstep(S)'
<1>1. program # "none" /\ pc[n] <= Len(P(S)!Steps(program))
      /\ P(S)!Steps(program)[pc[n]].op = "local"
  BY DEF P!Compute, P!At
<1>2. /\ pc' = [pc EXCEPT ![n] = @ + 1] /\ program' = program /\ call' = call /\ inside' = inside
      /\ sent' = sent /\ overrun' = overrun
      /\ mem' = [mem EXCEPT ![n] = P(S)!Computed(P(S)!Steps(program)[pc[n]].f, n, @)]
  BY DEF P!Compute, P!Here
<1>3. Progress(S) /\ Arrived(S) /\ GaveInTurn(S) BY <1>1 DEF Lockstep
<1>4. mem'[n] = After(S, program)[pc[n] + 1][n] /\ mem' = [mem EXCEPT ![n] = mem'[n]]
  <2>1. mem'[n] = P(S)!Computed(P(S)!Steps(program)[pc[n]].f, n, mem[n]) BY <1>2, <1>3 DEF Arrived
  <2>2. mem[n] = After(S, program)[pc[n]][n] BY <1>1, Stepping
  <2>3. After(S, program)[pc[n] + 1][n]
        = Followed(S, After(S, program)[pc[n]], P(S)!Steps(program)[pc[n]], n)
    BY <1>1, Stepping
  <2> QED BY <1>1, <1>2, <2>1, <2>2, <2>3 DEF Followed
<1>5. call' = [call EXCEPT ![n] = Before(program)[pc[n] + 1] + 1]
  <2>1. call[n] = Before(program)[pc[n]] + 1 /\ Before(program)[pc[n] + 1] = Before(program)[pc[n]]
    BY <1>1, Stepping DEF StepIs
  <2> QED BY <1>2, <1>3, <2>1 DEF Progress
<1>6. inside' = [inside EXCEPT ![n] = FALSE]
  <2>1. inside[n] = FALSE /\ inside \in [P(S)!Node -> BOOLEAN] BY <1>1, <1>3 DEF Progress
  <2> QED BY <1>2, <2>1
<1>7. Progress(S)' /\ Arrived(S)' BY <1>1, <1>2, <1>4, <1>5, <1>6, Further
<1>8. GaveInTurn(S)' BY <1>2, <1>3 DEF GaveInTurn
<1> QED BY <1>1, <1>2, <1>7, <1>8 DEF Lockstep

LEMMA LockEnter == ASSUME NEW S, Lockstep(S), NEW n \in P(S)!Node, P(S)!Enter(n) PROVE Lockstep(S)'
<1>1. program # "none" /\ pc[n] <= Len(P(S)!Steps(program))
      /\ P(S)!Steps(program)[pc[n]].op # "local"
  BY DEF P!Enter, P!At
<1>2. /\ pc' = pc /\ program' = program /\ call' = call /\ mem' = mem /\ overrun' = overrun
      /\ ~inside[n] /\ inside' = [inside EXCEPT ![n] = TRUE]
      /\ sent' = [sent EXCEPT ![n] = Append(@, IF P(S)!Steps(program)[pc[n]].op = "barrier" THEN <<>>
                                               ELSE mem[n][P(S)!Steps(program)[pc[n]].send])]
  BY DEF P!Enter, P!Collectives!Enter, P!Here
<1>3. Progress(S) /\ Arrived(S) /\ GaveInTurn(S) /\ program \in P(S)!Programs BY <1>1 DEF Lockstep
<1>4. Progress(S)' BY <1>1, <1>2, <1>3 DEF Progress
<1>5. Arrived(S)' BY <1>2, <1>3 DEF Arrived
<1>6. /\ call[n] \in Nat /\ call[n] >= 1 /\ Calls(program)[call[n]] = pc[n]
      /\ mem[n] = After(S, program)[pc[n]][n]
  <2>1. StepIs(S, program, pc[n]) /\ call[n] = Before(program)[pc[n]] + 1 BY <1>1, Stepping
  <2>2. Before(program)[pc[n]] \in 0..6 /\ Calls(program)[Before(program)[pc[n]] + 1] = pc[n]
    BY <1>1, <2>1 DEF StepIs
  <2> QED BY <1>1, <2>1, <2>2, Stepping
<1> DEFINE Gifts == {Gave(S, program, w, c) : w \in P(S)!Node, c \in Nat}
           new == Gave(S, program, n, call[n])
<1>7. sent' = [sent EXCEPT ![n] = Append(sent[n], new)] BY <1>2, <1>6 DEF Gave
<1>8. sent \in [P(S)!Node -> Seq(Gifts)] /\ new \in Gifts
  <2>1. sent \in [P(S)!Node -> Seq(Gifts)] BY <1>3 DEF GaveInTurn
  <2> QED BY <1>6, <2>1
<1>9. /\ \A w \in P(S)!Node : Len(sent[w]) = IF inside[w] THEN call[w] ELSE call[w] - 1
      /\ \A w \in P(S)!Node : \A c \in 1..Len(sent[w]) : sent[w][c] = Gave(S, program, w, c)
  BY <1>3 DEF GaveInTurn
<1>10. inside \in [P(S)!Node -> BOOLEAN] BY <1>3 DEF Progress
<1> HIDE DEF Gifts, new
<1>11. /\ Append(sent[n], new) \in Seq(Gifts) /\ Len(Append(sent[n], new)) = call[n]
       /\ \A c \in 1..call[n] : Append(sent[n], new)[c] = IF c = call[n] THEN new ELSE sent[n][c]
  <2>1. sent[n] \in Seq(Gifts) /\ Len(sent[n]) = call[n] - 1 BY <1>2, <1>8, <1>9
  <2> QED BY <1>6, <1>8, <2>1, AppendProperties
<1>12. sent' \in [P(S)!Node -> Seq(Gifts)] BY <1>7, <1>8, <1>11
<1>13. ASSUME NEW w \in P(S)!Node
       PROVE  /\ Len(sent'[w]) = IF inside'[w] THEN call[w] ELSE call[w] - 1
              /\ \A c \in 1..Len(sent'[w]) : sent'[w][c] = Gave(S, program, w, c)
  <2>1. CASE w = n
    <3>1. sent'[w] = Append(sent[n], new) /\ inside'[w] BY <1>2, <1>7, <1>8, <1>10, <2>1
    <3>2. \A c \in 1..call[n] : c # call[n] => c \in 1..Len(sent[n]) BY <1>2, <1>6, <1>9
    <3>3. \A c \in 1..call[n] : Append(sent[n], new)[c] = Gave(S, program, n, c)
      BY <1>9, <1>11, <3>2 DEF new
    <3> QED BY <1>11, <2>1, <3>1, <3>3
  <2>2. CASE w # n
    <3>1. sent'[w] = sent[w] /\ inside'[w] = inside[w] BY <1>2, <1>7, <1>8, <1>10, <2>2
    <3> QED BY <1>9, <3>1
  <2> QED BY <2>1, <2>2
<1>14. GaveInTurn(S)'
  <2>1. program' = program /\ call' = call BY <1>2
  <2> QED BY ONLY <2>1, <1>12, <1>13 DEF GaveInTurn, Gifts, P!Node
<1>15. overrun' => ~P(S)!Divides' BY <1>2 DEF Lockstep, P!Divides
<1>16. program' \in P(S)!Programs' \cup {"none"} /\ program' # "none" BY <1>1, <1>2, <1>3 DEF P!Programs
<1> QED BY ONLY <1>4, <1>5, <1>14, <1>15, <1>16 DEF Lockstep

LEMMA LockLeave ==
  ASSUME NEW S, Lockstep(S), 0 \in P(S)!Node, NEW n \in P(S)!Node, P(S)!Leave(n)
  PROVE  Lockstep(S)'
<1> DEFINE here == P(S)!Steps(program)[pc[n]]
           from == [w \in P(S)!Node |-> IF call[n] <= Len(sent[w]) THEN sent[w][call[n]] ELSE <<>>]
           all == After(S, program)[pc[n]]
<1>1. program # "none" /\ pc[n] <= Len(P(S)!Steps(program)) /\ here.op # "local"
  BY DEF P!Leave, P!At
<1>2. /\ pc' = [pc EXCEPT ![n] = @ + 1] /\ program' = program /\ sent' = sent
      /\ overrun' = overrun
      /\ inside[n] /\ inside' = [inside EXCEPT ![n] = FALSE] /\ call' = [call EXCEPT ![n] = @ + 1]
      /\ IF n = P(S)!root THEN \A w \in P(S)!Node : P(S)!Collectives!Entered(w, call[n])
                     ELSE P(S)!Collectives!Entered(P(S)!root, call[n])
  BY DEF P!Leave, P!Collectives!Leave, P!Node, P!root
<1>3. mem' = IF here.op = "barrier" THEN mem
             ELSE [mem EXCEPT ![n][here.recv] = P(S)!Received(n, here, @, from)]
  BY DEF P!Leave, P!Here
<1>4. Progress(S) /\ Arrived(S) /\ GaveInTurn(S) /\ program \in P(S)!Programs BY <1>1 DEF Lockstep
<1>5. /\ StepIs(S, program, pc[n]) /\ call[n] = Before(program)[pc[n]] + 1 /\ mem[n] = all[n]
      /\ After(S, program)[pc[n] + 1][n] = Followed(S, all, here, n)
  BY <1>1, Stepping
<1>6. /\ call[n] \in Nat /\ call[n] >= 1 /\ Calls(program)[call[n]] = pc[n]
      /\ here.op \in {"barrier", "bcast", "scatter", "gather"}
      /\ Before(program)[pc[n] + 1] = call[n]
  BY <1>1, <1>5 DEF StepIs
<1> HIDE DEF here, all
<1>7. ASSUME NEW w \in P(S)!Node, P(S)!Collectives!Entered(w, call[n]), here.op # "barrier"
      PROVE  from[w] = all[w][here.send]
  <2>1. Len(sent[w]) = IF inside[w] THEN call[w] ELSE call[w] - 1 BY <1>4 DEF GaveInTurn
  <2>2. call[w] \in Nat
    <3>1. call[w] = Before(program)[pc[w]] + 1 /\ pc[w] \in 1..(Len(P(S)!Steps(program)) + 1)
      BY <1>4 DEF Progress
    <3>2. Before(program)[pc[w]] \in Nat BY <1>4, <3>1, BeforeNat
    <3> QED BY <3>1, <3>2
  <2>3. call[w] > call[n] \/ (call[w] = call[n] /\ inside[w])
    BY <1>7 DEF P!Collectives!Entered
  <2>4. call[n] \in 1..Len(sent[w]) BY <1>6, <2>1, <2>2, <2>3
  <2>5. sent[w][call[n]] = Gave(S, program, w, call[n]) BY <1>4, <2>4 DEF GaveInTurn
  <2>6. Gave(S, program, w, call[n]) = all[w][here.send] BY <1>6, <1>7 DEF Gave, here, all
  <2>7. call[n] <= Len(sent[w]) BY <1>6, <2>1, <2>2, <2>4
  <2> QED BY <2>5, <2>6, <2>7
<1>8. mem'[n] = Followed(S, all, here, n) /\ mem' = [mem EXCEPT ![n] = mem'[n]]
  <2>1. n \in DOMAIN mem /\ mem = [w \in P(S)!Node |-> mem[w]] BY <1>4 DEF Arrived
  <2>2. CASE here.op = "barrier"
    <3>1. mem' = mem BY <1>3, <2>2
    <3>2. Followed(S, all, here, n) = all[n] BY <2>2 DEF Followed
    <3> QED BY <1>5, <2>1, <3>1, <3>2
  <2>3. CASE here.op # "barrier"
    <3> DEFINE new == P(S)!Received(n, here, mem[n][here.recv], from)
    <3>1. mem' = [mem EXCEPT ![n] = [mem[n] EXCEPT ![here.recv] = new]]
      <4> HIDE DEF from
      <4> QED BY <1>3, <2>1, <2>3
    <3>2. new = P(S)!Received(n, here, mem[n][here.recv], Buffers(S, all, here))
      <4>1. here.op \in {"bcast", "scatter", "gather"} BY <1>6, <2>3
      <4>2. 0 \in P(S)!Node /\ P(S)!root = 0 BY DEF P!root
      <4> DEFINE to == Buffers(S, all, here)
      <4>3. \A w \in P(S)!Node : to[w] = all[w][here.send] BY DEF Buffers
      <4>4. ASSUME NEW w \in P(S)!Node, P(S)!Collectives!Entered(w, call[n]) PROVE from[w] = to[w]
        BY <1>7, <2>3, <4>3, <4>4
      <4>5. P(S)!Collectives!Entered(P(S)!root, call[n]) BY <1>2, <4>2
      <4> HIDE DEF from, to
      <4>6. from[P(S)!root] = to[P(S)!root] BY <4>2, <4>4, <4>5
      <4>7. n = P(S)!root => \A w \in P(S)!Node : from[w] = to[w] BY <1>2, <4>4
      <4> QED BY <4>1, <4>6, <4>7, ReceivedSame DEF to
    <3>3. Followed(S, all, here, n)
          = [all[n] EXCEPT ![here.recv] = P(S)!Received(n, here, @, Buffers(S, all, here))]
      BY <1>1, <1>6, <2>3 DEF Followed, here
    <3> HIDE DEF new
    <3>4. Followed(S, all, here, n) = [mem[n] EXCEPT ![here.recv] = new] BY <1>5, <3>2, <3>3
    <3> QED BY <2>1, <3>1, <3>4
  <2> QED BY <2>2, <2>3
<1>9. call' = [call EXCEPT ![n] = Before(program)[pc[n] + 1] + 1] BY <1>2, <1>6
<1>10. mem'[n] = After(S, program)[pc[n] + 1][n] BY <1>5, <1>8
<1>11. Progress(S)' /\ Arrived(S)' BY <1>1, <1>2, <1>8, <1>9, <1>10, Further
<1>12. GaveInTurn(S)'
  <2>1. call \in [P(S)!Node -> Int] /\ inside \in [P(S)!Node -> BOOLEAN]
    <3>1. ASSUME NEW w \in P(S)!Node PROVE Before(program)[pc[w]] + 1 \in Int
      <4>1. pc[w] \in 1..(Len(P(S)!Steps(program)) + 1) BY <1>4 DEF Progress
      <4> QED BY <1>4, <4>1, BeforeNat
    <3> QED BY <1>4, <3>1 DEF Progress
  <2>2. ASSUME NEW w \in P(S)!Node
        PROVE  (IF inside'[w] THEN call'[w] ELSE call'[w] - 1) = IF inside[w] THEN call[w] ELSE call[w] - 1
    <3>1. CASE w = n BY <1>2, <2>1, <3>1
    <3>2. CASE w # n
      <4>1. inside'[w] = inside[w] /\ call'[w] = call[w] BY <1>2, <2>1, <3>2
      <4> QED BY <4>1
    <3> QED BY <3>1, <3>2
  <2> QED BY <1>2, <1>4, <2>2 DEF GaveInTurn
<1> QED BY <1>1, <1>2, <1>4, <1>11, <1>12 DEF Lockstep

Count(S) == Rows * N
Matrices == {"A", "B", "C", "A_sub", "C_sub"}

LEMMA CountIs ==
  ASSUME NEW S, P(S)!Divides
  PROVE  /\ Count(S) \in Nat \ {0} /\ N * N = S * Count(S) /\ N * N \in Nat /\ 0 \in P(S)!Node
         /\ Count(S) * P(S)!Channels \in Nat \ {0}
         /\ N * N * P(S)!Channels = S * (Count(S) * P(S)!Channels)
<1>1. /\ S \in Nat \ {0} /\ N \in Nat \ {0} /\ Rows \in Nat \ {0}
      /\ N = S * Rows
  BY Sizes
<1>2. Count(S) \in Nat \ {0} BY <1>1, MulPos DEF Count
<1>3. N * N = S * Count(S)
  <2>1. (S * Rows) * N = S * (Rows * N) BY <1>1, Distribute
  <2> QED BY <1>1, <2>1 DEF Count
<1>4. N * N \in Nat BY <1>1, MulPos
<1>5. 0 \in P(S)!Node BY <1>1 DEF P!Node
<1>6. Count(S) * P(S)!Channels \in Nat \ {0} BY <1>2, MulPos DEF P!Channels
<1>7. (S * Count(S)) * P(S)!Channels = S * (Count(S) * P(S)!Channels)
  BY <1>1, <1>2, Distribute DEF P!Channels
<1> QED BY <1>2, <1>3, <1>4, <1>5, <1>6, <1>7

\* The blocks of all Pis are the whole.
LEMMA InBlock ==
  ASSUME NEW S, S \in Nat \ {0}, NEW c \in Nat \ {0}, NEW n \in P(S)!Node, NEW x \in P(S)!Index(c)
  PROVE  n * c + x \in P(S)!Index(S * c)
<1>1. S \in Nat /\ x \in 0..(c - 1) /\ n \in 0..(S - 1) BY DEF P!Index, P!Node
<1>2. c * n + x \in 0..(S * c - 1) BY ONLY <1>1, c \in Nat \ {0}, Place
<1>3. c * n = n * c BY <1>1
<1> QED BY <1>2, <1>3 DEF P!Index

\* What the root gathers fits: on as many Pis as the programs are written for, the
\* blocks of all Pis fill the array.
LEMMA BlocksFit ==
  ASSUME NEW S, P(S)!Divides, program \in P(S)!Programs,
         NEW k \in 1..Len(P(S)!Steps(program)), P(S)!Steps(program)[k].op = "gather"
  PROVE  P(S)!Room(P(S)!Steps(program)[k])
<1> DEFINE step == P(S)!Steps(program)[k]
<1>0. S \in Nat \ {0} BY Sizes
<1>1. step.cnt \in Nat \ {0} /\ DOMAIN P(S)!Arrays(program)[step.recv] = P(S)!Index(S * step.cnt)
  <2>1. Count(S) \in Nat \ {0} /\ N * N = S * Count(S)
        /\ Count(S) * P(S)!Channels \in Nat \ {0}
        /\ N * N * P(S)!Channels = S * (Count(S) * P(S)!Channels)
    BY CountIs
  <2>2. CASE program \in {"mpi", "matmul"}
    <3>1. Len(P(S)!Steps(program)) = 5 BY <2>2, MatmulIs DEF P!Steps
    <3>2. k = 1 \/ k = 2 \/ k = 3 \/ k = 4 \/ k = 5 BY <3>1
    <3>3. P(S)!Steps(program) = P(S)!Mpi \/ P(S)!Steps(program) = P(S)!Matmul
      BY <2>2 DEF P!Steps
    <3>4. k = 5 BY <3>2, <3>3, MpiOps, MatmulOps
    <3>5. step = P(S)!FMPI_Gather("C_sub", "C", Count(S)) BY <3>3, <3>4, MatmulIs DEF Count
    <3>6. step.cnt = Count(S) /\ step.recv = "C" BY <3>5 DEF P!FMPI_Gather
    <3>7. DOMAIN P(S)!Arrays(program)["C"] = P(S)!Index(N * N) BY <2>2 DEF P!Arrays, P!Junk
    <3> HIDE DEF step
    <3> QED BY <2>1, <3>6, <3>7
  <2>3. CASE program = "matmul_hard"
    <3>1. Len(P(S)!Steps(program)) = 8 /\ P(S)!Steps(program) = P(S)!MatmulHard
      BY <2>3, MatmulHardIs DEF P!Steps
    <3>2. k = 1 \/ k = 2 \/ k = 3 \/ k = 4 \/ k = 5 \/ k = 6 \/ k = 7 \/ k = 8 BY <3>1
    <3>4. k = 6 BY <3>1, <3>2, MatmulHardOps
    <3>5. step = P(S)!FMPI_Gather("C_sub", "C", Count(S)) BY <3>1, <3>4, MatmulHardIs DEF Count
    <3>6. step.cnt = Count(S) /\ step.recv = "C" BY <3>5 DEF P!FMPI_Gather
    <3>7. DOMAIN P(S)!Arrays(program)["C"] = P(S)!Index(N * N) BY <2>3 DEF P!Arrays, P!Junk
    <3> HIDE DEF step
    <3> QED BY <2>1, <3>6, <3>7
  <2>4. CASE program = "mergesort"
    <3>1. Len(P(S)!Steps(program)) = 5 /\ P(S)!Steps(program) = P(S)!MergeSort
      BY <2>4, MergeSortIs DEF P!Steps
    <3>2. k = 1 \/ k = 2 \/ k = 3 \/ k = 4 \/ k = 5 BY <3>1
    <3>4. k = 4 BY <3>1, <3>2, MergeSortOps
    <3>5. step = P(S)!FMPI_Gather("sub_arr", "arr", Share) BY <3>1, <3>4, MergeSortIs
    <3>6. step.cnt = Share /\ step.recv = "arr" BY <3>5 DEF P!FMPI_Gather
    <3>7. DOMAIN P(S)!Arrays(program)["arr"] = P(S)!Index(Length) BY <2>4 DEF P!Arrays, P!Junk
    <3> HIDE DEF step
    <3> QED BY <3>6, <3>7, Sizes
  <2>5. CASE program = "render"
    <3>1. Len(P(S)!Steps(program)) = 9 /\ P(S)!Steps(program) = P(S)!Render
      BY <2>5, RenderIs DEF P!Steps
    <3>2. k = 1 \/ k = 2 \/ k = 3 \/ k = 4 \/ k = 5 \/ k = 6 \/ k = 7 \/ k = 8 \/ k = 9 BY <3>1
    <3>4. k = 9 BY <3>1, <3>2, RenderOps
    <3>5. step = P(S)!FMPI_Gather("image_sub", "image", Count(S) * P(S)!Channels)
      BY <3>1, <3>4, RenderIs DEF Count
    <3>6. step.cnt = Count(S) * P(S)!Channels /\ step.recv = "image" BY <3>5 DEF P!FMPI_Gather
    <3>7. DOMAIN P(S)!Arrays(program)["image"] = P(S)!Index(N * N * P(S)!Channels)
      BY <2>5 DEF P!Arrays, P!Zeroes
    <3> HIDE DEF step
    <3> QED BY <2>1, <3>6, <3>7
  <2> QED BY <2>2, <2>3, <2>4, <2>5 DEF P!Programs
<1> HIDE DEF step
<1>2. ASSUME NEW n \in P(S)!Node, NEW x \in P(S)!Index(step.cnt)
      PROVE  n * step.cnt + x \in P(S)!Index(S * step.cnt)
  BY <1>0, <1>1, InBlock
<1>3. P(S)!Room(step) BY <1>1, <1>2 DEF P!Room
<1> QED BY <1>3 DEF step

LEMMA LockOverruns ==
  ASSUME NEW S, Lockstep(S), 0 \in P(S)!Node, P(S)!Overruns
  PROVE  Lockstep(S)'
<1>1. /\ program # "none" /\ pc[P(S)!root] <= Len(P(S)!Steps(program))
      /\ P(S)!Steps(program)[pc[P(S)!root]].op = "gather"
      /\ ~P(S)!Room(P(S)!Steps(program)[pc[P(S)!root]])
  BY DEF P!Overruns, P!At, P!Spills, P!Here
<1>2. P(S)!root \in P(S)!Node BY DEF P!root
<1>3. program \in P(S)!Programs /\ pc[P(S)!root] \in 1..Len(P(S)!Steps(program))
  BY <1>1, <1>2, Stepping
<1>4. ~P(S)!Divides BY <1>1, <1>3, BlocksFit
<1>5. program' = program /\ pc' = pc /\ call' = call /\ inside' = inside /\ mem' = mem
      /\ sent' = sent
  BY DEF P!Overruns
<1>6. Progress(S) /\ Arrived(S) /\ GaveInTurn(S) BY <1>1 DEF Lockstep
<1>7. Progress(S)' /\ Arrived(S)' /\ GaveInTurn(S)'
  <2>1. Progress(S)' BY <1>5, <1>6 DEF Progress
  <2>2. Arrived(S)' BY <1>5, <1>6 DEF Arrived
  <2>3. GaveInTurn(S)' BY <1>5, <1>6 DEF GaveInTurn
  <2> QED BY <2>1, <2>2, <2>3
<1> QED BY <1>1, <1>3, <1>4, <1>5, <1>7 DEF Lockstep

LEMMA LockStep ==
  ASSUME NEW S, 0 \in P(S)!Node, Lockstep(S), [P(S)!Next]_(P(S)!programsVars)
  PROVE  Lockstep(S)'
<1>1. CASE UNCHANGED P(S)!programsVars
  <2>1. program' = program /\ pc' = pc /\ call' = call /\ inside' = inside /\ mem' = mem
        /\ sent' = sent /\ overrun' = overrun
    BY <1>1 DEF P!programsVars
  <2>2. Idle(S) => Idle(S)' BY <2>1 DEF Idle
  <2>3. Progress(S) => Progress(S)' BY <2>1 DEF Progress
  <2>4. Arrived(S) => Arrived(S)' BY <2>1 DEF Arrived
  <2>5. GaveInTurn(S) => GaveInTurn(S)' BY <2>1 DEF GaveInTurn
  <2> QED BY <2>1, <2>2, <2>3, <2>4, <2>5 DEF Lockstep
<1>2. ASSUME NEW p \in P(S)!Programs, P(S)!Load(p) PROVE Lockstep(S)' BY <1>2, LockLoad
<1>3. ASSUME NEW n \in P(S)!Node, P(S)!Compute(n) PROVE Lockstep(S)' BY <1>3, LockCompute
<1>4. ASSUME NEW n \in P(S)!Node, P(S)!Enter(n) PROVE Lockstep(S)' BY <1>4, LockEnter
<1>5. ASSUME NEW n \in P(S)!Node, P(S)!Leave(n) PROVE Lockstep(S)' BY <1>5, LockLeave
<1>6. ASSUME P(S)!Overruns PROVE Lockstep(S)' BY <1>6, LockOverruns
<1> QED BY <1>1, <1>2, <1>3, <1>4, <1>5, <1>6 DEF P!Next, P!Run

\* A Pi behind matmul.c's assertions has passed them.
Asserted(S) ==
    program = "matmul" => \A n \in P(S)!Node : pc[n] > 3 \/ (pc[n] = 3 /\ inside[n]) => N = 4

LEMMA AssertedStep ==
  ASSUME NEW S, 0 \in P(S)!Node, Lockstep(S), Asserted(S), [P(S)!Next]_(P(S)!programsVars)
  PROVE  Asserted(S)'
<1>1. CASE UNCHANGED P(S)!programsVars BY <1>1 DEF Asserted, P!programsVars
<1>2. ASSUME NEW p \in P(S)!Programs, P(S)!Load(p) PROVE Asserted(S)'
  <2>1. Idle(S) /\ pc' = pc BY <1>2 DEF P!Load, Lockstep
  <2> QED BY <2>1 DEF Asserted, Idle
<1>3. ASSUME program # "none" PROVE pc \in [P(S)!Node -> Int] /\ inside \in [P(S)!Node -> BOOLEAN]
  <2>1. program \in P(S)!Programs /\ Progress(S) BY <1>3 DEF Lockstep
  <2>2. Len(P(S)!Steps(program)) \in Nat BY <2>1, StepCount
  <2> QED BY <2>1, <2>2 DEF Progress
<1>4. Len(P(S)!Matmul) = 5 /\ P(S)!Matmul[3].op = "scatter" BY MatmulIs, MatmulOps
<1>5. ASSUME NEW n \in P(S)!Node, P(S)!Compute(n) PROVE Asserted(S)'
  <2>1. /\ program # "none" /\ program' = program /\ pc' = [pc EXCEPT ![n] = @ + 1] /\ inside' = inside
        /\ P(S)!Steps(program)[pc[n]].op = "local"
    BY <1>5 DEF P!Compute, P!At
  <2> SUFFICES ASSUME program = "matmul", NEW w \in P(S)!Node,
                      pc'[w] > 3 \/ (pc'[w] = 3 /\ inside'[w])
               PROVE  N = 4
    BY <2>1 DEF Asserted
  <2>2. pc[n] # 3 BY <1>4, <2>1 DEF P!Steps
  <2>3. inside[n] = FALSE
    <3>1. Progress(S) BY <2>1 DEF Lockstep
    <3> QED BY <1>3, <2>1, <3>1 DEF Progress
  <2>4. pc[w] > 3 \/ (pc[w] = 3 /\ inside[w]) BY <1>3, <2>1, <2>2, <2>3
  <2> QED BY <2>4 DEF Asserted
<1>6. ASSUME NEW n \in P(S)!Node, P(S)!Enter(n) PROVE Asserted(S)'
  <2>1. /\ program # "none" /\ program' = program /\ pc' = pc
        /\ inside' = [inside EXCEPT ![n] = TRUE]
        /\ program = "matmul" /\ P(S)!Steps(program)[pc[n]].op = "scatter" => N = 4
    BY <1>6 DEF P!Enter, P!At, P!Asserts, P!Here, P!Collectives!Enter
  <2> SUFFICES ASSUME program = "matmul", NEW w \in P(S)!Node,
                      pc[w] > 3 \/ (pc[w] = 3 /\ inside'[w])
               PROVE  N = 4
    BY <2>1 DEF Asserted
  <2>2. CASE w = n /\ pc[w] = 3 BY <1>4, <2>1, <2>2 DEF P!Steps
  <2>3. CASE ~(w = n /\ pc[w] = 3)
    <3>1. pc[w] > 3 \/ (pc[w] = 3 /\ inside[w]) BY <1>3, <2>1, <2>3
    <3> QED BY <3>1 DEF Asserted
  <2> QED BY <2>2, <2>3
<1>7. ASSUME NEW n \in P(S)!Node, P(S)!Leave(n) PROVE Asserted(S)'
  <2>1. /\ program # "none" /\ program' = program /\ pc' = [pc EXCEPT ![n] = @ + 1]
        /\ inside[n] /\ inside' = [inside EXCEPT ![n] = FALSE]
    BY <1>7 DEF P!Leave, P!At, P!Collectives!Leave
  <2> SUFFICES ASSUME program = "matmul", NEW w \in P(S)!Node,
                      pc'[w] > 3 \/ (pc'[w] = 3 /\ inside'[w])
               PROVE  N = 4
    BY <2>1 DEF Asserted
  <2>2. pc[w] > 3 \/ (pc[w] = 3 /\ inside[w]) BY <1>3, <2>1
  <2> QED BY <2>2 DEF Asserted
<1>8. ASSUME P(S)!Overruns PROVE Asserted(S)' BY <1>8 DEF P!Overruns, Asserted
<1> QED BY <1>1, <1>2, <1>5, <1>6, <1>7, <1>8 DEF P!Next, P!Run

-----------------------------------------------------------------------------
(* What each kind of step leaves.                                          *)

LEMMA BarrierKeeps ==
  ASSUME NEW S, NEW m, NEW n \in P(S)!Node
  PROVE  Followed(S, m, P(S)!FMPI_Barrier, n) = m[n]
BY DEF Followed, P!FMPI_Barrier

LEMMA StepKinds ==
  ASSUME NEW S, 0 \in P(S)!Node, NEW m, NEW n \in P(S)!Node, NEW f
  PROVE  /\ Followed(S, m, P(S)!Local(f), n) = P(S)!Computed(f, n, m[n])
         /\ Followed(S, m, P(S)!FMPI_Bcast(f), n) = [m[n] EXCEPT ![f] = m[P(S)!root][f]]
<1>1. Followed(S, m, P(S)!Local(f), n) = P(S)!Computed(f, n, m[n])
  BY DEF Followed, P!Local
<1>2. Followed(S, m, P(S)!FMPI_Bcast(f), n)
      = [m[n] EXCEPT ![f] = Buffers(S, m, P(S)!FMPI_Bcast(f))[P(S)!root]]
  BY DEF Followed, P!FMPI_Bcast, P!Received
<1>3. Buffers(S, m, P(S)!FMPI_Bcast(f))[P(S)!root] = m[P(S)!root][f]
  BY DEF Buffers, P!FMPI_Bcast, P!root
<1> QED BY <1>1, <1>2, <1>3

Part(S, a, n, c) == [x \in P(S)!Index(c) |-> a[n * c + x]]

LEMMA Scattered ==
  ASSUME NEW S, S \in Nat \ {0}, NEW m, NEW n \in P(S)!Node, NEW from, NEW to, NEW c \in Nat \ {0},
         DOMAIN m[P(S)!root][from] = P(S)!Index(S * c)
  PROVE  Followed(S, m, P(S)!FMPI_Scatter(from, to, c), n)
        = [m[n] EXCEPT ![to] = Part(S, m[P(S)!root][from], n, c)]
<1> DEFINE step == P(S)!FMPI_Scatter(from, to, c)
<1>0. P(S)!root \in P(S)!Node BY DEF P!root, P!Node
<1>1. step.op = "scatter" /\ step.send = from /\ step.recv = to /\ step.cnt = c
  BY DEF P!FMPI_Scatter
<1> HIDE DEF step
<1>2. Buffers(S, m, step)[P(S)!root] = m[P(S)!root][from] BY <1>0, <1>1 DEF Buffers
<1> DEFINE buffers == Buffers(S, m, step)
           old == m[n][to]
<1>3. Followed(S, m, step, n) = [m[n] EXCEPT ![to] = P(S)!Received(n, step, old, buffers)]
  BY <1>1 DEF Followed
<1>4. P(S)!Received(n, step, old, buffers)
        = [x \in P(S)!Index(c) |-> IF n * c + x \in DOMAIN buffers[P(S)!root]
                                    THEN buffers[P(S)!root][n * c + x] ELSE P(S)!junk]
  BY <1>1 DEF P!Received
<1> HIDE DEF buffers, old
<1>5. ASSUME NEW x \in P(S)!Index(c) PROVE n * c + x \in DOMAIN buffers[P(S)!root]
  BY <1>2, InBlock DEF buffers
<1>6. P(S)!Received(n, step, old, buffers) = [x \in P(S)!Index(c) |-> m[P(S)!root][from][n * c + x]]
  BY <1>2, <1>4, <1>5 DEF buffers
<1> QED BY <1>3, <1>6 DEF step, Part

Whole(S, f, k) == [x \in P(S)!Index(k) |-> f[x]]

\* Whatever the parts of the Pis are parts of comes together at the root.
LEMMA Gathered ==
  ASSUME NEW S, S \in Nat \ {0}, NEW m, NEW from, NEW to, NEW c \in Nat \ {0},
         to \in DOMAIN m[P(S)!root], DOMAIN m[P(S)!root][to] = P(S)!Index(S * c),
         NEW whole, \A n \in P(S)!Node, x \in P(S)!Index(c) : m[n][from][x] = whole[c * n + x]
  PROVE  Followed(S, m, P(S)!FMPI_Gather(from, to, c), P(S)!root)[to] = Whole(S, whole, S * c)
<1> DEFINE step == P(S)!FMPI_Gather(from, to, c)
           old == m[P(S)!root][to]
           buffers == Buffers(S, m, step)
<1>0. 0 \in P(S)!Node /\ P(S)!root = 0 BY DEF P!Node, P!root
<1>1. step.op = "gather" /\ step.send = from /\ step.recv = to /\ step.cnt = c
  BY DEF P!FMPI_Gather
<1> HIDE DEF step
<1>2. \A w \in P(S)!Node : buffers[w] = m[w][from] BY <1>1 DEF Buffers
<1>3. Followed(S, m, step, P(S)!root)
      = [m[P(S)!root] EXCEPT ![to] = P(S)!Received(P(S)!root, step, old, buffers)]
  BY <1>1 DEF Followed
<1>4. P(S)!Received(P(S)!root, step, old, buffers)
        = [j \in DOMAIN old |-> IF j \div c \in P(S)!Node THEN buffers[j \div c][j % c] ELSE old[j]]
  BY <1>1 DEF P!Received
<1>5. ASSUME NEW j \in P(S)!Index(S * c)
      PROVE  (IF j \div c \in P(S)!Node THEN buffers[j \div c][j % c] ELSE old[j]) = whole[j]
  <2>1. j \in 0..(S * c - 1) BY DEF P!Index
  <2>2. j \div c \in 0..(S - 1) /\ j % c \in 0..(c - 1) /\ j = c * (j \div c) + (j % c)
    BY <2>1, Below
  <2>3. j \div c \in P(S)!Node /\ j % c \in P(S)!Index(c) BY <2>2 DEF P!Node, P!Index
  <2> QED BY <1>2, <2>2, <2>3
<1> HIDE DEF buffers
<1>6. P(S)!Received(P(S)!root, step, old, buffers) = [j \in P(S)!Index(S * c) |-> whole[j]]
  BY <1>4, <1>5
<1> QED BY <1>3, <1>6 DEF step, Whole

-----------------------------------------------------------------------------
(* The products.                                                           *)

\* The rows of a Pi are those of the whole.
RowSum(S, A0, B0, u, v) == P(S)!AddUp([k \in P(S)!Index(N) |-> A0[u * N + k] * B0[k * N + v]], N)

Crossed(S, u, v) ==
    \A k \in P(S)!Index(N) : /\ u * N + k \in P(S)!Index(N * N) /\ k * N + v \in P(S)!Index(N * N)
                             /\ (u * N + k) \div N = u /\ (u * N + k) % N = k
                             /\ (k * N + v) \div N = k /\ (k * N + v) % N = v

LEMMA RowsAre ==
  ASSUME NEW S, P(S)!Divides, NEW n \in P(S)!Node, NEW x \in P(S)!Index(Count(S)), NEW A0, NEW B0,
         NEW m,
         m.A_sub = Part(S, A0, n, Count(S)), m.B = B0,
         NEW j, j = Count(S) * n + x, NEW u, u = j \div N, NEW v, v = j % N
  PROVE  /\ j \in P(S)!Index(N * N) /\ u \in Int /\ v \in Int
         /\ P(S)!rows(m)[x] = RowSum(S, A0, B0, u, v)
         /\ Crossed(S, u, v)
<1> DEFINE rpp == Rows
<1>1. /\ S \in Nat \ {0} /\ N \in Nat \ {0} /\ rpp \in Nat \ {0}
      /\ Count(S) \in Nat \ {0} /\ N * N = S * Count(S) /\ Count(S) = rpp * N
  BY Sizes, CountIs DEF Count
<1>2. x \in 0..(Count(S) - 1) /\ n \in 0..(S - 1) BY DEF P!Index, P!Node
<1>3. j \in 0..(S * Count(S) - 1) /\ j \div Count(S) = n /\ j % Count(S) = x
  <2>1. Count(S) \in Nat \ {0} /\ S \in Nat /\ x \in 0..(Count(S) - 1) /\ n \in 0..(S - 1)
    BY <1>1, <1>2
  <2>2. /\ Count(S) * n + x \in 0..(S * Count(S) - 1)
        /\ (Count(S) * n + x) \div Count(S) = n /\ (Count(S) * n + x) % Count(S) = x
    BY ONLY <2>1, Place
  <2> QED BY <2>2
<1> HIDE DEF rpp
<1>4. j \div N = n * rpp + (x \div N) /\ j % N = x % N /\ x \div N \in 0..(rpp - 1)
  <2>1. /\ j \div N = (j \div Count(S)) * rpp + ((j % Count(S)) \div N)
        /\ j % N = (j % Count(S)) % N
        /\ (j % Count(S)) \div N \in 0..(rpp - 1)
    <3>1. j \in 0..(S * (rpp * N) - 1) BY <1>1, <1>3
    <3>2. S \in Nat /\ N \in Nat \ {0} /\ rpp \in Nat \ {0} BY <1>1
    <3>3. /\ j \div N = (j \div (rpp * N)) * rpp + ((j % (rpp * N)) \div N)
          /\ j % N = (j % (rpp * N)) % N
          /\ (j % (rpp * N)) \div N \in 0..(rpp - 1)
      BY ONLY <3>1, <3>2, Blocks
    <3>4. rpp * N = Count(S) BY <1>1
    <3> QED BY <3>3, <3>4
  <2> QED BY <1>3, <2>1
<1>5. /\ j \in 0..(N * N - 1) /\ j \div N \in 0..(N - 1) /\ j % N \in 0..(N - 1)
  <2>1. j \in 0..(N * N - 1) BY <1>1, <1>3
  <2> QED BY <1>1, <2>1, Below
<1>6. ASSUME NEW k \in P(S)!Index(N)
      PROVE  /\ (j \div N) * N + k \in P(S)!Index(N * N) /\ k * N + (j % N) \in P(S)!Index(N * N)
             /\ ((j \div N) * N + k) \div N = j \div N /\ ((j \div N) * N + k) % N = k
             /\ (k * N + (j % N)) \div N = k /\ (k * N + (j % N)) % N = j % N
             /\ n * Count(S) + ((x \div N) * N + k) = (j \div N) * N + k
             /\ (x \div N) * N + k \in P(S)!Index(Count(S))
  <2> DEFINE w == x \div N
  <2>1. u \in 0..(N - 1) /\ v \in 0..(N - 1) /\ k \in 0..(N - 1) /\ w \in 0..(rpp - 1)
        /\ u = n * rpp + w
    BY <1>4, <1>5 DEF P!Index
  <2> HIDE DEF w
  <2>2. N * u + k \in 0..(N * N - 1) /\ (N * u + k) \div N = u /\ (N * u + k) % N = k
    <3>1. N \in Nat \ {0} /\ N \in Nat /\ u \in 0..(N - 1) /\ k \in 0..(N - 1) BY <1>1, <2>1
    <3> QED BY ONLY <3>1, Place
  <2>3. N * k + v \in 0..(N * N - 1) /\ (N * k + v) \div N = k /\ (N * k + v) % N = v
    <3>1. N \in Nat \ {0} /\ N \in Nat /\ v \in 0..(N - 1) /\ k \in 0..(N - 1) BY <1>1, <2>1
    <3> QED BY ONLY <3>1, Place
  <2>4. N * w + k \in 0..(rpp * N - 1)
    <3>1. N \in Nat \ {0} /\ rpp \in Nat /\ w \in 0..(rpp - 1) /\ k \in 0..(N - 1) BY <1>1, <2>1
    <3> QED BY ONLY <3>1, Place
  <2>5. n * Count(S) + (w * N + k) = u * N + k
    <3>1. n * Count(S) = (n * rpp) * N BY <1>1, <1>2, Distribute
    <3>2. (n * rpp + w) * N = (n * rpp) * N + w * N
      <4>1. n * rpp \in Int BY <1>1, <1>2, Distribute
      <4> QED BY <1>1, <2>1, <4>1
    <3>3. n * Count(S) \in Int /\ w * N \in Int BY <1>1, <1>2, <2>1, Distribute
    <3> QED BY <2>1, <3>1, <3>2, <3>3
  <2>6. N * u = u * N /\ N * k = k * N /\ N * w = w * N BY <1>1, <2>1
  <2> QED BY <1>1, <2>2, <2>3, <2>4, <2>5, <2>6 DEF P!Index, w
<1>7. P(S)!rows(m)[x] = RowSum(S, A0, B0, j \div N, j % N)
  <2>1. \A k \in P(S)!Index(N) : m.A_sub[(x \div N) * N + k] = A0[(j \div N) * N + k]
    BY <1>6 DEF Part
  <2>2. \A k \in P(S)!Index(N) : m.A_sub[(x \div N) * N + k] * m.B[k * N + (x % N)]
                            = A0[(j \div N) * N + k] * B0[k * N + (j % N)]
    BY <1>4, <2>1
  <2>3. P(S)!rows(m)[x]
        = P(S)!AddUp([k \in P(S)!Index(N) |-> m.A_sub[(x \div N) * N + k] * m.B[k * N + (x % N)]], N)
    BY DEF P!rows, Count
  <2>4. [k \in P(S)!Index(N) |-> m.A_sub[(x \div N) * N + k] * m.B[k * N + (x % N)]]
          = [k \in P(S)!Index(N) |-> A0[(j \div N) * N + k] * B0[k * N + (j % N)]]
    BY <2>2
  <2> QED BY <2>3, <2>4 DEF RowSum
<1>8. j \in P(S)!Index(N * N) /\ j \div N \in Int /\ j % N \in Int BY <1>5 DEF P!Index
<1> QED BY <1>6, <1>7, <1>8 DEF Crossed

\* The matrices, given out.
LEMMA MatricesGiven ==
  ASSUME NEW S, P(S)!Divides, NEW m, NEW sc, NEW bc, NEW A0, NEW B0,
         \A n \in P(S)!Node : DOMAIN m[n] = Matrices /\ DOMAIN m[n].C = P(S)!Index(N * N),
         m[P(S)!root].A = A0, m[P(S)!root].B = B0, DOMAIN A0 = P(S)!Index(N * N),
         bc = Together(S, m, P(S)!FMPI_Bcast("B")),
         sc = Together(S, bc, P(S)!FMPI_Scatter("A", "A_sub", Count(S)))
  PROVE  \A n \in P(S)!Node : /\ DOMAIN sc[n] = Matrices /\ DOMAIN sc[n].C = P(S)!Index(N * N)
                              /\ sc[n].B = B0
                              /\ sc[n].A_sub = Part(S, A0, n, Count(S))
<1>0. /\ 0 \in P(S)!Node /\ P(S)!root = 0 /\ S \in Nat \ {0}
      /\ Count(S) \in Nat \ {0} /\ N * N = S * Count(S)
  BY CountIs, Sizes DEF P!root
<1>1. ASSUME NEW n \in P(S)!Node
      PROVE  /\ DOMAIN bc[n] = Matrices /\ DOMAIN bc[n].C = P(S)!Index(N * N) /\ bc[n].B = B0
             /\ bc[n].A = m[n].A
  <2>1. bc[n] = [m[n] EXCEPT !["B"] = m[P(S)!root]["B"]]
    <3>1. Followed(S, m, P(S)!FMPI_Bcast("B"), n) = [m[n] EXCEPT !["B"] = m[P(S)!root]["B"]]
      BY <1>0, StepKinds
    <3> QED BY <3>1, AllAre
  <2>2. DOMAIN m[n] = Matrices /\ DOMAIN m[n].C = P(S)!Index(N * N) OBVIOUS
  <2> QED BY <2>1, <2>2 DEF Matrices
<1>2. ASSUME NEW n \in P(S)!Node
      PROVE  /\ DOMAIN sc[n] = Matrices /\ DOMAIN sc[n].C = P(S)!Index(N * N) /\ sc[n].B = B0
             /\ sc[n].A_sub = Part(S, A0, n, Count(S))
  <2>1. sc[n] = [bc[n] EXCEPT !["A_sub"] = Part(S, bc[P(S)!root]["A"], n, Count(S))]
    <3>1. DOMAIN bc[P(S)!root]["A"] = P(S)!Index(S * Count(S)) BY <1>0, <1>1
    <3>2. Followed(S, bc, P(S)!FMPI_Scatter("A", "A_sub", Count(S)), n)
          = [bc[n] EXCEPT !["A_sub"] = Part(S, bc[P(S)!root]["A"], n, Count(S))]
      BY ONLY <1>0, <1>2, <3>1, Scattered
    <3>3. Together(S, bc, P(S)!FMPI_Scatter("A", "A_sub", Count(S)))[n]
          = Followed(S, bc, P(S)!FMPI_Scatter("A", "A_sub", Count(S)), n)
      BY ONLY <1>2, AllAre
    <3> QED BY ONLY <3>2, <3>3, sc = Together(S, bc, P(S)!FMPI_Scatter("A", "A_sub", Count(S)))
  <2>2. bc[P(S)!root]["A"] = A0 BY <1>0, <1>1
  <2>3. DOMAIN bc[n] = Matrices /\ DOMAIN bc[n].C = P(S)!Index(N * N) /\ bc[n].B = B0 BY <1>1
  <2> QED BY <2>1, <2>2, <2>3 DEF Matrices
<1> QED BY <1>2

ExampleA(S) == [y \in P(S)!Index(N * N) |-> (y \div N) + (y % N)]
ExampleB(S) == [y \in P(S)!Index(N * N) |-> (y \div N) - (y % N)]

LEMMA ExampleRows ==
  ASSUME NEW S, P(S)!Divides, NEW n \in P(S)!Node, NEW x \in P(S)!Index(Count(S)), NEW m,
         m.A_sub = Part(S, ExampleA(S), n, Count(S)), m.B = ExampleB(S)
  PROVE  P(S)!rows(m)[x] = P(S)!Product[Count(S) * n + x] /\ Count(S) * n + x \in P(S)!Index(N * N)
<1> DEFINE j == Count(S) * n + x
           u == j \div N
           v == j % N
<1>1. /\ j \in P(S)!Index(N * N) /\ u \in Int /\ v \in Int
      /\ P(S)!rows(m)[x] = RowSum(S, ExampleA(S), ExampleB(S), u, v)
      /\ Crossed(S, u, v)
  <2>1. j = Count(S) * n + x /\ u = j \div N /\ v = j % N OBVIOUS
  <2> HIDE DEF j, u, v
  <2> QED BY <2>1, RowsAre
<1>2. P(S)!Product[j] = P(S)!AddUp([k \in P(S)!Index(N) |-> (u + k) * (k - v)], N)
  BY <1>1 DEF P!Product
<1> HIDE DEF j, u, v
<1>3. ASSUME NEW k \in P(S)!Index(N)
      PROVE  ExampleA(S)[u * N + k] * ExampleB(S)[k * N + v] = (u + k) * (k - v)
  BY <1>1 DEF ExampleA, ExampleB, Crossed
<1>4. [k \in P(S)!Index(N) |-> ExampleA(S)[u * N + k] * ExampleB(S)[k * N + v]]
      = [k \in P(S)!Index(N) |-> (u + k) * (k - v)]
  BY <1>3
<1>5. RowSum(S, ExampleA(S), ExampleB(S), u, v) = P(S)!AddUp([k \in P(S)!Index(N) |-> (u + k) * (k - v)], N)
  BY <1>4 DEF RowSum
<1> QED BY <1>1, <1>2, <1>5 DEF j

\* The product of matmul.c fits into int8_t.
LEMMA ProductFits ==
  ASSUME NEW S, N = 4, NEW j \in P(S)!Index(N * N)
  PROVE  P(S)!int8(P(S)!Product[j]) = P(S)!Product[j]
<1> DEFINE u == j \div 4
           v == j % 4
           f == [k \in P(S)!Index(4) |-> (u + k) * (k - v)]
<1>1. j \in 0..15 BY DEF P!Index
<1>2. u \in 0..3 /\ v \in 0..3 BY <1>1
<1>3. P(S)!Product[j] = P(S)!AddUp(f, 4) BY DEF P!Product
<1> HIDE DEF u, v
<1>4. f[0] = u * (0 - v) /\ f[1] = (u + 1) * (1 - v) /\ f[2] = (u + 2) * (2 - v)
      /\ f[3] = (u + 3) * (3 - v)
  BY <1>2 DEF P!Index
<1> HIDE DEF f
<1>5. f[0] \in -9..0 /\ f[1] \in -8..4 /\ f[2] \in -5..10 /\ f[3] \in 0..18
  <2>1. u = 0 \/ u = 1 \/ u = 2 \/ u = 3 BY <1>2
  <2>2. v = 0 \/ v = 1 \/ v = 2 \/ v = 3 BY <1>2
  <2> QED BY <1>4, <2>1, <2>2
<1>6. P(S)!AddUp(f, 4) = f[0] + f[1] + f[2] + f[3]
  <2>1. \A k \in 0..3 : k = 0 \/ k = 1 \/ k = 2 \/ k = 3 OBVIOUS
  <2>2. \A k \in 0..3 : f[k] \in Int BY <1>5, <2>1
  <2> QED BY <2>2, SumOfFour
<1>7. P(S)!Product[j] \in -128..127 BY <1>3, <1>5, <1>6
<1> QED BY <1>7 DEF P!int8

OnesB(S) == [y \in P(S)!Index(N * N) |-> 1]
RowsA(S) == [y \in P(S)!Index(N * N) |-> (y \div N) + 1]

LEMMA HardRows ==
  ASSUME NEW S, P(S)!Divides, NEW n \in P(S)!Node, NEW x \in P(S)!Index(Count(S)), NEW m,
         m.A_sub = Part(S, RowsA(S), n, Count(S)), m.B = OnesB(S)
  PROVE  P(S)!rows(m)[x] = P(S)!expected[Count(S) * n + x]
<1> DEFINE j == Count(S) * n + x
           u == j \div N
           v == j % N
           f == [k \in P(S)!Index(N) |-> RowsA(S)[u * N + k] * OnesB(S)[k * N + v]]
<1>1. /\ j \in P(S)!Index(N * N) /\ u \in Int /\ v \in Int
      /\ P(S)!rows(m)[x] = RowSum(S, RowsA(S), OnesB(S), u, v)
      /\ Crossed(S, u, v)
  <2>1. j = Count(S) * n + x /\ u = j \div N /\ v = j % N OBVIOUS
  <2> HIDE DEF j, u, v, f
  <2> QED BY <2>1, RowsAre
<1>2. N \in Nat BY Sizes
<1>3. ASSUME NEW k \in P(S)!Index(N) PROVE f[k] = u + 1
  <2> HIDE DEF j, u, v
  <2>1. RowsA(S)[u * N + k] = u + 1 /\ OnesB(S)[k * N + v] = 1 BY <1>1 DEF RowsA, OnesB, Crossed
  <2> QED BY <1>1, <2>1
<1>4. P(S)!expected[j] = (u + 1) * N BY <1>1 DEF P!expected
<1>5. RowSum(S, RowsA(S), OnesB(S), u, v) = P(S)!AddUp(f, N) BY DEF RowSum
<1> HIDE DEF f, u, v
<1>6. P(S)!AddUp(f, N) = N * (u + 1)
  <2>1. u + 1 \in Int BY <1>1
  <2> QED BY <1>2, <1>3, <2>1, SumOfEqual
<1> QED BY <1>1, <1>2, <1>4, <1>5, <1>6 DEF j

LEMMA ExampleResult ==
  ASSUME NEW S, P(S)!Divides, NEW p \in {"mpi", "matmul"}, p = "matmul" => N = 4
  PROVE  After(S, p)[6][P(S)!root].C = P(S)!Product
<1> DEFINE a == After(S, p)
<1>0. 0 \in P(S)!Node /\ P(S)!root = 0 /\ p \in P(S)!Programs /\ Count(S) \in Nat \ {0}
      /\ N * N = S * Count(S)
      /\ S \in Nat \ {0}
  BY CountIs, Sizes DEF P!root, P!Programs
<1>1. /\ Len(P(S)!Steps(p)) = 5 /\ P(S)!Steps(p)[1] = P(S)!Local("example")
      /\ P(S)!Steps(p)[2] = P(S)!FMPI_Bcast("B")
      /\ P(S)!Steps(p)[3] = P(S)!FMPI_Scatter("A", "A_sub", Count(S))
      /\ P(S)!Steps(p)[5] = P(S)!FMPI_Gather("C_sub", "C", Count(S))
      /\ P(S)!Steps(p)[4] = P(S)!Local(IF p = "mpi" THEN "matmul" ELSE "matmul_int8")
  BY MatmulIs DEF P!Steps, Count
<1>2. /\ a[2] = Together(S, a[1], P(S)!Local("example"))
      /\ a[3] = Together(S, a[2], P(S)!FMPI_Bcast("B"))
      /\ a[4] = Together(S, a[3], P(S)!FMPI_Scatter("A", "A_sub", Count(S)))
      /\ a[5] = Together(S, a[4], P(S)!Steps(p)[4])
      /\ a[6] = Together(S, a[5], P(S)!FMPI_Gather("C_sub", "C", Count(S)))
  <2>1. ASSUME NEW k \in 1..5, NEW later, later = k + 1
        PROVE  a[later] = Together(S, a[k], P(S)!Steps(p)[k])
    <3>1. k \in 1..Len(P(S)!Steps(p)) BY <1>1
    <3>2. After(S, p)[later] = Together(S, After(S, p)[k], P(S)!Steps(p)[k])
      BY ONLY <1>0, <2>1, <3>1, AfterAll
    <3> QED BY <3>2
  <2> HIDE DEF a
  <2>2. a[2] = Together(S, a[1], P(S)!Steps(p)[1]) BY <2>1
  <2>3. a[3] = Together(S, a[2], P(S)!Steps(p)[2]) BY <2>1
  <2>4. a[4] = Together(S, a[3], P(S)!Steps(p)[3]) BY <2>1
  <2>5. a[5] = Together(S, a[4], P(S)!Steps(p)[4]) BY <2>1
  <2>6. a[6] = Together(S, a[5], P(S)!Steps(p)[5]) BY <2>1
  <2> QED BY <1>1, <2>2, <2>3, <2>4, <2>5, <2>6
<1>3. ASSUME NEW n \in P(S)!Node
      PROVE  DOMAIN a[1][n] = Matrices /\ DOMAIN a[1][n].C = P(S)!Index(N * N)
  <2>1. a[1][n] = P(S)!Arrays(p) BY <1>0, AtFirst
  <2> HIDE DEF a
  <2> QED BY <2>1 DEF P!Arrays, Matrices, P!Junk
<1> HIDE DEF a
<1>4. /\ \A n \in P(S)!Node : DOMAIN a[2][n] = Matrices /\ DOMAIN a[2][n].C = P(S)!Index(N * N)
      /\ a[2][P(S)!root].A = ExampleA(S) /\ a[2][P(S)!root].B = ExampleB(S)
  <2>1. ASSUME NEW n \in P(S)!Node
        PROVE  a[2][n] = IF n = P(S)!root THEN P(S)!example(a[1][n]) ELSE a[1][n]
    <3>1. Followed(S, a[1], P(S)!Local("example"), n) = P(S)!Computed("example", n, a[1][n])
      BY <1>0, StepKinds
    <3> QED BY <1>2, <3>1, AllAre DEF P!Computed
  <2>2. ASSUME NEW n \in P(S)!Node
        PROVE  /\ DOMAIN P(S)!example(a[1][n]) = Matrices /\ P(S)!example(a[1][n]).C = a[1][n].C
               /\ P(S)!example(a[1][n]).A = ExampleA(S) /\ P(S)!example(a[1][n]).B = ExampleB(S)
    BY <1>3 DEF P!example, Matrices, ExampleA, ExampleB
  <2> QED BY <1>0, <1>3, <2>1, <2>2
<1>5. \A n \in P(S)!Node : /\ DOMAIN a[4][n] = Matrices /\ DOMAIN a[4][n].C = P(S)!Index(N * N)
                           /\ a[4][n].B = ExampleB(S)
                           /\ a[4][n].A_sub = Part(S, ExampleA(S), n, Count(S))
  <2>1. DOMAIN ExampleA(S) = P(S)!Index(N * N) BY DEF ExampleA
  <2> QED BY <1>2, <1>4, <2>1, MatricesGiven
<1>6. ASSUME NEW n \in P(S)!Node
      PROVE  /\ DOMAIN a[5][n] = Matrices /\ DOMAIN a[5][n].C = P(S)!Index(N * N)
             /\ \A x \in P(S)!Index(Count(S)) : a[5][n].C_sub[x] = P(S)!Product[Count(S) * n + x]
  <2>1. \A x \in P(S)!Index(Count(S)) : /\ P(S)!rows(a[4][n])[x] = P(S)!Product[Count(S) * n + x]
                               /\ Count(S) * n + x \in P(S)!Index(N * N)
    BY <1>5, ExampleRows
  <2>2. DOMAIN P(S)!rows(a[4][n]) = P(S)!Index(Count(S)) BY DEF P!rows, Count
  <2>3. CASE p = "mpi"
    <3>1. a[5][n] = P(S)!matmul(a[4][n])
      <4>1. Followed(S, a[4], P(S)!Local("matmul"), n) = P(S)!Computed("matmul", n, a[4][n])
        BY <1>0, StepKinds
      <4> QED BY <1>1, <1>2, <2>3, <4>1, AllAre DEF P!Computed
    <3> QED BY <1>5, <2>1, <3>1 DEF P!matmul, Matrices
  <2>4. CASE p = "matmul"
    <3>1. a[5][n] = P(S)!matmul_int8(a[4][n])
      <4>1. Followed(S, a[4], P(S)!Local("matmul_int8"), n) = P(S)!Computed("matmul_int8", n, a[4][n])
        BY <1>0, StepKinds
      <4> QED BY <1>1, <1>2, <2>4, <4>1, AllAre DEF P!Computed
    <3>2. a[5][n].C_sub = [x \in P(S)!Index(Count(S)) |-> P(S)!int8(P(S)!rows(a[4][n])[x])]
          /\ DOMAIN a[5][n] = Matrices /\ a[5][n].C = a[4][n].C
      BY <1>5, <3>1 DEF P!matmul_int8, Matrices, Count
    <3>3. \A x \in P(S)!Index(Count(S)) : P(S)!int8(P(S)!rows(a[4][n])[x]) = P(S)!Product[Count(S) * n + x]
      BY <2>1, <2>4, ProductFits
    <3> QED BY <1>5, <3>2, <3>3
  <2> QED BY <2>3, <2>4
<1>7. Followed(S, a[5], P(S)!FMPI_Gather("C_sub", "C", Count(S)), P(S)!root)["C"]
      = Whole(S, P(S)!Product, S * Count(S))
  <2>1. "C" \in DOMAIN a[5][P(S)!root] /\ DOMAIN a[5][P(S)!root]["C"] = P(S)!Index(S * Count(S))
    BY <1>0, <1>6 DEF Matrices
  <2>2. \A n \in P(S)!Node, x \in P(S)!Index(Count(S)) : a[5][n]["C_sub"][x]
        = P(S)!Product[Count(S) * n + x]
    BY <1>6
  <2> QED BY <1>0, <2>1, <2>2, Gathered
<1>8. P(S)!Product = Whole(S, P(S)!Product, N * N) BY DEF P!Product, Whole
<1> QED BY <1>0, <1>2, <1>7, <1>8, AllAre DEF a

LEMMA HardResult ==
  ASSUME NEW S, P(S)!Divides
  PROVE  After(S, "matmul_hard")[9][P(S)!root].C = P(S)!expected
<1> DEFINE p == "matmul_hard"
           a == After(S, p)
<1>0. 0 \in P(S)!Node /\ P(S)!root = 0 /\ p \in P(S)!Programs /\ Count(S) \in Nat \ {0}
      /\ N * N = S * Count(S)
      /\ S \in Nat \ {0}
  BY CountIs, Sizes DEF P!root, P!Programs
<1>1. /\ Len(P(S)!Steps(p)) = 8 /\ P(S)!Steps(p)[1] = P(S)!Local("generate_matrices")
      /\ P(S)!Steps(p)[2] = P(S)!FMPI_Bcast("B")
      /\ P(S)!Steps(p)[3] = P(S)!FMPI_Scatter("A", "A_sub", Count(S))
      /\ P(S)!Steps(p)[4] = P(S)!FMPI_Barrier
      /\ P(S)!Steps(p)[5] = P(S)!Local("matmul")
      /\ P(S)!Steps(p)[6] = P(S)!FMPI_Gather("C_sub", "C", Count(S))
      /\ P(S)!Steps(p)[7] = P(S)!FMPI_Barrier /\ P(S)!Steps(p)[8] = P(S)!Local("verify_result")
  BY MatmulHardIs DEF P!Steps, Count
<1> HIDE DEF p
<1>2. /\ a[2] = Together(S, a[1], P(S)!Local("generate_matrices"))
      /\ a[3] = Together(S, a[2], P(S)!FMPI_Bcast("B"))
      /\ a[4] = Together(S, a[3], P(S)!FMPI_Scatter("A", "A_sub", Count(S)))
      /\ a[5] = Together(S, a[4], P(S)!FMPI_Barrier)
      /\ a[6] = Together(S, a[5], P(S)!Local("matmul"))
      /\ a[7] = Together(S, a[6], P(S)!FMPI_Gather("C_sub", "C", Count(S)))
      /\ a[8] = Together(S, a[7], P(S)!FMPI_Barrier)
      /\ a[9] = Together(S, a[8], P(S)!Local("verify_result"))
  <2>1. ASSUME NEW k \in 1..8, NEW later, later = k + 1
        PROVE  a[later] = Together(S, a[k], P(S)!Steps(p)[k])
    <3>1. k \in 1..Len(P(S)!Steps(p)) BY <1>1
    <3>2. After(S, p)[later] = Together(S, After(S, p)[k], P(S)!Steps(p)[k])
      BY ONLY <1>0, <2>1, <3>1, AfterAll
    <3> QED BY <3>2
  <2> HIDE DEF a
  <2>2. a[2] = Together(S, a[1], P(S)!Steps(p)[1]) BY <2>1
  <2>3. a[3] = Together(S, a[2], P(S)!Steps(p)[2]) BY <2>1
  <2>4. a[4] = Together(S, a[3], P(S)!Steps(p)[3]) BY <2>1
  <2>5. a[5] = Together(S, a[4], P(S)!Steps(p)[4]) BY <2>1
  <2>6. a[6] = Together(S, a[5], P(S)!Steps(p)[5]) BY <2>1
  <2>7. a[7] = Together(S, a[6], P(S)!Steps(p)[6]) BY <2>1
  <2>8. a[8] = Together(S, a[7], P(S)!Steps(p)[7]) BY <2>1
  <2>9. a[9] = Together(S, a[8], P(S)!Steps(p)[8]) BY <2>1
  <2> QED BY <1>1, <2>2, <2>3, <2>4, <2>5, <2>6, <2>7, <2>8, <2>9
<1>3. ASSUME NEW n \in P(S)!Node
      PROVE  DOMAIN a[1][n] = Matrices /\ DOMAIN a[1][n].C = P(S)!Index(N * N)
  <2>1. a[1][n] = P(S)!Arrays(p) BY <1>0, AtFirst
  <2> HIDE DEF a
  <2> QED BY <2>1 DEF P!Arrays, Matrices, P!Junk, p
<1> HIDE DEF a
<1>4. /\ \A n \in P(S)!Node : DOMAIN a[2][n] = Matrices /\ DOMAIN a[2][n].C = P(S)!Index(N * N)
      /\ a[2][P(S)!root].A = RowsA(S) /\ a[2][P(S)!root].B = OnesB(S)
  <2>1. ASSUME NEW n \in P(S)!Node
        PROVE  a[2][n] = IF n = P(S)!root THEN P(S)!generate_matrices(a[1][n]) ELSE a[1][n]
    <3>1. Followed(S, a[1], P(S)!Local("generate_matrices"), n)
          = P(S)!Computed("generate_matrices", n, a[1][n])
      BY <1>0, StepKinds
    <3> QED BY <1>2, <3>1, AllAre DEF P!Computed
  <2>2. ASSUME NEW n \in P(S)!Node
        PROVE  /\ DOMAIN P(S)!generate_matrices(a[1][n]) = Matrices
               /\ P(S)!generate_matrices(a[1][n]).C = a[1][n].C
               /\ P(S)!generate_matrices(a[1][n]).A = RowsA(S)
               /\ P(S)!generate_matrices(a[1][n]).B = OnesB(S)
    BY <1>3 DEF P!generate_matrices, Matrices, RowsA, OnesB
  <2> QED BY <1>0, <1>3, <2>1, <2>2
<1>5. \A n \in P(S)!Node : /\ DOMAIN a[5][n] = Matrices /\ DOMAIN a[5][n].C = P(S)!Index(N * N)
                           /\ a[5][n].B = OnesB(S)
                           /\ a[5][n].A_sub = Part(S, RowsA(S), n, Count(S))
  <2>1. \A n \in P(S)!Node : /\ DOMAIN a[4][n] = Matrices /\ DOMAIN a[4][n].C = P(S)!Index(N * N)
                             /\ a[4][n].B = OnesB(S)
                             /\ a[4][n].A_sub = Part(S, RowsA(S), n, Count(S))
    <3>1. DOMAIN RowsA(S) = P(S)!Index(N * N) BY DEF RowsA
    <3> QED BY <1>2, <1>4, <3>1, MatricesGiven
  <2>2. ASSUME NEW n \in P(S)!Node PROVE a[5][n] = a[4][n]
    <3>1. Followed(S, a[4], P(S)!FMPI_Barrier, n) = a[4][n] BY <1>0, BarrierKeeps
    <3> QED BY <1>2, <3>1, AllAre
  <2> QED BY <2>1, <2>2
<1>6. ASSUME NEW n \in P(S)!Node
      PROVE  /\ DOMAIN a[6][n] = Matrices /\ DOMAIN a[6][n].C = P(S)!Index(N * N)
             /\ \A x \in P(S)!Index(Count(S)) : a[6][n].C_sub[x] = P(S)!expected[Count(S) * n + x]
  <2>1. \A x \in P(S)!Index(Count(S)) : P(S)!rows(a[5][n])[x] = P(S)!expected[Count(S) * n + x]
    BY <1>5, HardRows
  <2>2. a[6][n] = P(S)!matmul(a[5][n])
    <3>1. Followed(S, a[5], P(S)!Local("matmul"), n) = P(S)!Computed("matmul", n, a[5][n])
      BY <1>0, StepKinds
    <3> QED BY <1>2, <3>1, AllAre DEF P!Computed
  <2> QED BY <1>5, <2>1, <2>2 DEF P!matmul, Matrices
<1>7. a[7][P(S)!root].C = Whole(S, P(S)!expected, S * Count(S))
  <2>1. "C" \in DOMAIN a[6][P(S)!root] /\ DOMAIN a[6][P(S)!root]["C"] = P(S)!Index(S * Count(S))
    BY <1>0, <1>6 DEF Matrices
  <2>2. \A n \in P(S)!Node, x \in P(S)!Index(Count(S)) : a[6][n]["C_sub"][x]
        = P(S)!expected[Count(S) * n + x]
    BY <1>6
  <2>3. Followed(S, a[6], P(S)!FMPI_Gather("C_sub", "C", Count(S)), P(S)!root)["C"]
        = Whole(S, P(S)!expected, S * Count(S))
    <3> DEFINE m == a[6]
               whole == P(S)!expected
    <3>1. "C" \in DOMAIN m[P(S)!root] /\ DOMAIN m[P(S)!root]["C"] = P(S)!Index(S * Count(S)) BY <2>1
    <3>2. \A n \in P(S)!Node, x \in P(S)!Index(Count(S)) : m[n]["C_sub"][x] = whole[Count(S) * n + x]
      BY <2>2
    <3>3. S \in Nat \ {0} /\ Count(S) \in Nat \ {0} BY <1>0
    <3> HIDE DEF m, whole
    <3>4. Followed(S, m, P(S)!FMPI_Gather("C_sub", "C", Count(S)), P(S)!root)["C"]
          = Whole(S, whole, S * Count(S))
      BY ONLY <3>1, <3>2, <3>3, Gathered
    <3> QED BY <3>4 DEF m, whole
  <2> QED BY <1>0, <1>2, <2>3, AllAre
<1>8. a[9][P(S)!root] = a[7][P(S)!root]
  <2>1. a[8][P(S)!root] = a[7][P(S)!root]
    <3>1. Followed(S, a[7], P(S)!FMPI_Barrier, P(S)!root) = a[7][P(S)!root] BY <1>0, BarrierKeeps
    <3> QED BY <1>0, <1>2, <3>1, AllAre
  <2>2. a[9][P(S)!root] = P(S)!Computed("verify_result", P(S)!root, a[8][P(S)!root])
    <3>1. Followed(S, a[8], P(S)!Local("verify_result"), P(S)!root)
          = P(S)!Computed("verify_result", P(S)!root, a[8][P(S)!root])
      BY <1>0, StepKinds
    <3> QED BY <1>0, <1>2, <3>1, AllAre
  <2> QED BY <2>1, <2>2 DEF P!Computed
<1>9. P(S)!expected = Whole(S, P(S)!expected, N * N) BY DEF P!expected, Whole
<1> QED BY <1>0, <1>7, <1>8, <1>9 DEF a, p

-----------------------------------------------------------------------------
(* The sorted array.                                                       *)

Filled(S) == [y \in P(S)!Index(Length) |-> 100 - y]

\* The share of a Pi, sorted where it is.
LEMMA ShareSorted ==
  ASSUME NEW S, P(S)!Divides, NEW n \in P(S)!Node, NEW m, "sub_arr" \in DOMAIN m,
         m.sub_arr = Part(S, Filled(S), n, Share)
  PROVE  /\ DOMAIN P(S)!sort_local(m) = DOMAIN m
         /\ \A name \in DOMAIN m \ {"sub_arr"} : P(S)!sort_local(m)[name] = m[name]
         /\ \A x \in P(S)!Index(Share) : P(S)!sort_local(m).sub_arr[x]
               = Chunks(S)[Share * n + x]
<1> DEFINE c == Share
           a == m.sub_arr
           of == [left |-> 0, right |-> c - 1]
<1>1. S \in Nat \ {0} /\ Length \in Nat \ {0} /\ c \in Nat \ {0} /\ Length = S * c
  BY Sizes
<1> HIDE DEF c, a
<1>2. n \in 0..(S - 1) BY DEF P!Node
<1>3. ASSUME NEW x \in P(S)!Index(c)
      PROVE  /\ c * n + x \in P(S)!Index(Length) /\ (c * n + x) \div c = n /\ (c * n + x) % c = x
             /\ x \in 0..(c - 1) /\ n * c + x = c * n + x /\ c * n \in Int
  <2>1. x \in 0..(c - 1) BY DEF P!Index
  <2>2. c * n + x \in 0..(S * c - 1) /\ (c * n + x) \div c = n /\ (c * n + x) % c = x
    <3>1. c \in Nat \ {0} /\ S \in Nat BY <1>1
    <3> QED BY ONLY <3>1, <1>2, <2>1, Place
  <2>3. n * c + x = c * n + x /\ c * n \in Int BY <1>1, <1>2
  <2> QED BY <1>1, <2>1, <2>2, <2>3 DEF P!Index
<1>4. ASSUME NEW x \in P(S)!Index(c) PROVE a[x] = 100 - (c * n + x) /\ a[x] \in Int
  <2>1. a[x] = Filled(S)[n * c + x] BY DEF Part, a, c
  <2>2. Filled(S)[c * n + x] = 100 - (c * n + x) BY <1>3 DEF Filled
  <2> QED BY <1>3, <2>1, <2>2
<1>5. a \in [P(S)!Index(c) -> Int]
  <2>1. a = Part(S, Filled(S), n, c) BY DEF a, c
  <2>2. DOMAIN a = P(S)!Index(c) /\ a = [x \in P(S)!Index(c) |-> a[x]] BY <2>1 DEF Part
  <2> QED BY <1>4, <2>2
<1>6. of \in [left : P(S)!Index(c), right : P(S)!Index(c)] /\ of.left = 0 /\ of.right = c - 1
  BY <1>1 DEF P!Index
<1>7. Descends(a, 0, c - 1)
  <2> SUFFICES ASSUME NEW x \in 0..(c - 1), NEW y \in 0..(c - 1), x < y PROVE a[x] > a[y]
    BY DEF Descends
  <2>1. x \in P(S)!Index(c) /\ y \in P(S)!Index(c) BY DEF P!Index
  <2> QED BY <1>3, <1>4, <2>1
<1>8. P(S)!merge_sort[of][a] = Reversed(a, 0, c - 1)
  <2>1. c \in Nat /\ Length \in Nat /\ [P(S)!Index(c) -> Int] \subseteq P(S)!Data
    BY <1>1 DEF P!Data, c
  <2>2. c <= Length
    <3>1. c * (S - 1) >= 0 BY <1>1, MulAtLeast
    <3>2. c * (S - 1) = S * c - c BY <1>1
    <3> QED BY <1>1, <3>1, <3>2
  <2> HIDE DEF of
  <2> QED BY <1>5, <1>6, <1>7, <2>1, <2>2, SortReverses
<1>9. ASSUME NEW x \in P(S)!Index(c) PROVE Reversed(a, 0, c - 1)[x] = Chunks(S)[c * n + x]
  <2>1. 0 \in P(S)!Index(c) /\ c - 1 \in P(S)!Index(c) /\ c \in Nat BY <1>1 DEF P!Index
  <2>2. Reversed(a, 0, c - 1)[x] = IF 0 <= x /\ x <= c - 1 THEN a[0 + (c - 1) - x] ELSE a[x]
    BY <1>5, <2>1, ReversedIs
  <2>3. 0 <= x /\ x <= c - 1 /\ 0 + (c - 1) - x \in P(S)!Index(c) BY <1>1, <1>3 DEF P!Index
  <2>4. a[0 + (c - 1) - x] = 100 - (c * n + (0 + (c - 1) - x)) BY <1>4, <2>3
  <2>5. Chunks(S)[c * n + x] = 101 - c * n - c + x
    <3>1. Chunks(S)[c * n + x] = 101 - c * ((c * n + x) \div c) - c + ((c * n + x) % c)
      BY <1>3 DEF Chunks, c
    <3> QED BY <1>3, <3>1
  <2> QED BY <1>1, <1>3, <2>2, <2>3, <2>4, <2>5
<1>10. P(S)!sort_local(m) = [m EXCEPT !.sub_arr = P(S)!merge_sort[of][a]] BY DEF P!sort_local, a, c
<1> HIDE DEF of
<1> QED BY <1>8, <1>9, <1>10 DEF c

LEMMA SortResult ==
  ASSUME NEW S, P(S)!Divides
  PROVE  After(S, "mergesort")[6][P(S)!root].arr = Sorted(S)
<1> DEFINE p == "mergesort"
           a == After(S, p)
           c == Share
<1>0. 0 \in P(S)!Node /\ P(S)!root = 0 /\ p \in P(S)!Programs /\ c \in Nat \ {0} /\ Length = S * c
      /\ S \in Nat \ {0}
  BY CountIs, Sizes DEF P!root, P!Programs
<1>1. /\ Len(P(S)!Steps(p)) = 5 /\ P(S)!Steps(p)[1] = P(S)!Local("fill")
      /\ P(S)!Steps(p)[2] = P(S)!FMPI_Scatter("arr", "sub_arr", c)
      /\ P(S)!Steps(p)[3] = P(S)!Local("merge_sort")
      /\ P(S)!Steps(p)[4] = P(S)!FMPI_Gather("sub_arr", "arr", c)
      /\ P(S)!Steps(p)[5] = P(S)!Local("merge")
  BY MergeSortIs DEF P!Steps
<1>2. /\ a[2] = Together(S, a[1], P(S)!Local("fill"))
      /\ a[3] = Together(S, a[2], P(S)!FMPI_Scatter("arr", "sub_arr", c))
      /\ a[4] = Together(S, a[3], P(S)!Local("merge_sort"))
      /\ a[5] = Together(S, a[4], P(S)!FMPI_Gather("sub_arr", "arr", c))
      /\ a[6] = Together(S, a[5], P(S)!Local("merge"))
  <2> HIDE DEF p
  <2>1. ASSUME NEW k \in 1..5, NEW later, later = k + 1
        PROVE  a[later] = Together(S, a[k], P(S)!Steps(p)[k])
    <3>1. k \in 1..Len(P(S)!Steps(p)) BY <1>1
    <3>2. After(S, p)[later] = Together(S, After(S, p)[k], P(S)!Steps(p)[k])
      BY ONLY <1>0, <2>1, <3>1, AfterAll
    <3> QED BY <3>2
  <2> HIDE DEF a
  <2>2. a[2] = Together(S, a[1], P(S)!Steps(p)[1]) BY <2>1
  <2>3. a[3] = Together(S, a[2], P(S)!Steps(p)[2]) BY <2>1
  <2>4. a[4] = Together(S, a[3], P(S)!Steps(p)[3]) BY <2>1
  <2>5. a[5] = Together(S, a[4], P(S)!Steps(p)[4]) BY <2>1
  <2>6. a[6] = Together(S, a[5], P(S)!Steps(p)[5]) BY <2>1
  <2> QED BY <1>1, <2>2, <2>3, <2>4, <2>5, <2>6
<1>3. ASSUME NEW n \in P(S)!Node
      PROVE  DOMAIN a[1][n] = {"arr", "sub_arr"} /\ DOMAIN a[1][n].arr = P(S)!Index(Length)
  <2>1. a[1][n] = P(S)!Arrays(p) BY <1>0, AtFirst
  <2> QED BY <2>1 DEF P!Arrays, P!Junk
<1> HIDE DEF a, p
<1>4. ASSUME NEW n \in P(S)!Node
      PROVE  /\ DOMAIN a[2][n] = {"arr", "sub_arr"} /\ DOMAIN a[2][n].arr = P(S)!Index(Length)
             /\ n = P(S)!root => a[2][n].arr = Filled(S)
  <2>1. a[2][n] = IF n = P(S)!root THEN P(S)!fill(a[1][n]) ELSE a[1][n]
    <3>1. Followed(S, a[1], P(S)!Local("fill"), n) = P(S)!Computed("fill", n, a[1][n])
      BY <1>0, StepKinds
    <3> QED BY <1>2, <3>1, AllAre DEF P!Computed
  <2>2. DOMAIN P(S)!fill(a[1][n]) = {"arr", "sub_arr"} /\ P(S)!fill(a[1][n]).arr = Filled(S)
    BY <1>3 DEF P!fill, Filled
  <2>3. DOMAIN Filled(S) = P(S)!Index(Length) BY DEF Filled
  <2> QED BY <1>3, <2>1, <2>2, <2>3
<1>5. ASSUME NEW n \in P(S)!Node
      PROVE  /\ DOMAIN a[3][n] = {"arr", "sub_arr"} /\ DOMAIN a[3][n].arr = P(S)!Index(Length)
             /\ a[3][n].sub_arr = Part(S, Filled(S), n, c)
  <2>1. Followed(S, a[2], P(S)!FMPI_Scatter("arr", "sub_arr", c), n)
          = [a[2][n] EXCEPT !["sub_arr"] = Part(S, a[2][P(S)!root]["arr"], n, c)]
    <3>1. DOMAIN a[2][P(S)!root]["arr"] = P(S)!Index(S * c) BY <1>0, <1>4
    <3> QED BY <1>0, <3>1, Scattered
  <2>2. a[2][P(S)!root]["arr"] = Filled(S) BY <1>0, <1>4
  <2>3. a[3][n] = [a[2][n] EXCEPT !["sub_arr"] = Part(S, Filled(S), n, c)]
    BY <1>2, <2>1, <2>2, AllAre
  <2> QED BY <1>4, <2>3
<1>6. ASSUME NEW n \in P(S)!Node
      PROVE  /\ DOMAIN a[4][n] = {"arr", "sub_arr"} /\ DOMAIN a[4][n].arr = P(S)!Index(Length)
             /\ \A x \in P(S)!Index(c) : a[4][n]["sub_arr"][x] = Chunks(S)[c * n + x]
  <2>1. a[4][n] = P(S)!sort_local(a[3][n])
    <3>1. Followed(S, a[3], P(S)!Local("merge_sort"), n) = P(S)!Computed("merge_sort", n, a[3][n])
      BY <1>0, StepKinds
    <3> QED BY <1>2, <3>1, AllAre DEF P!Computed
  <2>2. "sub_arr" \in DOMAIN a[3][n] BY <1>5
  <2>3. /\ DOMAIN P(S)!sort_local(a[3][n]) = DOMAIN a[3][n]
        /\ \A name \in DOMAIN a[3][n] \ {"sub_arr"} : P(S)!sort_local(a[3][n])[name] = a[3][n][name]
        /\ \A x \in P(S)!Index(c) : P(S)!sort_local(a[3][n]).sub_arr[x] = Chunks(S)[c * n + x]
    BY <1>5, <2>2, ShareSorted
  <2> QED BY <1>5, <2>1, <2>3
<1>7. a[5][P(S)!root]["arr"] = Whole(S, Chunks(S), S * c)
      /\ DOMAIN a[5][P(S)!root] = {"arr", "sub_arr"}
  <2>1. "arr" \in DOMAIN a[4][P(S)!root] /\ DOMAIN a[4][P(S)!root]["arr"] = P(S)!Index(S * c)
    BY <1>0, <1>6
  <2>2. Followed(S, a[4], P(S)!FMPI_Gather("sub_arr", "arr", c), P(S)!root)["arr"]
        = Whole(S, Chunks(S), S * c)
    BY <1>0, <1>6, <2>1, Gathered
  <2>3. DOMAIN Followed(S, a[4], P(S)!FMPI_Gather("sub_arr", "arr", c), P(S)!root) = DOMAIN a[4][P(S)!root]
    BY DEF Followed, P!FMPI_Gather
  <2> QED BY <1>0, <1>2, <1>6, <2>2, <2>3, AllAre
<1>8. Chunks(S) = Whole(S, Chunks(S), Length) BY DEF Chunks, Whole
<1>9. a[6][P(S)!root] = P(S)!merge_chunks(a[5][P(S)!root])
  <2>1. Followed(S, a[5], P(S)!Local("merge"), P(S)!root)
        = P(S)!Computed("merge", P(S)!root, a[5][P(S)!root])
    BY <1>0, StepKinds
  <2> QED BY <1>0, <1>2, <2>1, AllAre DEF P!Computed
<1>10. "arr" \in DOMAIN a[5][P(S)!root] /\ a[5][P(S)!root].arr = Chunks(S) BY <1>0, <1>7, <1>8
<1>11. P(S)!merge_chunks(a[5][P(S)!root]).arr = Sorted(S) BY <1>10, ChunksMerge
<1> QED BY <1>9, <1>11 DEF a, p

-----------------------------------------------------------------------------
(* The picture.                                                            *)

Bytes(S) == Count(S) * P(S)!Channels
Pictures == {"x", "y", "radius", "r", "g", "b", "image", "image_sub"}
Drawn(S, c) == [y \in P(S)!Index(N * N * P(S)!Channels) |->
                P(S)!Pixel(c, y \div (N * P(S)!Channels), (y \div P(S)!Channels) % N, 0, y % P(S)!Channels)]

\* The pixels of a Pi are those of the whole.
LEMMA PixelsAre ==
  ASSUME NEW S, P(S)!Divides, NEW n \in P(S)!Node, NEW x \in P(S)!Index(Bytes(S)), NEW j,
         j = Bytes(S) * n + x
  PROVE  /\ j \in P(S)!Index(N * N * P(S)!Channels) /\ j % P(S)!Channels = x % P(S)!Channels
         /\ j \div (N * P(S)!Channels) = n * Rows + (x \div (N * P(S)!Channels))
         /\ (j \div P(S)!Channels) % N = (x \div P(S)!Channels) % N
<1> DEFINE rpp == Rows
           Wide == N * P(S)!Channels
<1>1. /\ S \in Nat \ {0} /\ N \in Nat \ {0} /\ rpp \in Nat \ {0} /\ S \in Nat
      /\ Count(S) \in Nat \ {0} /\ Count(S) = rpp * N /\ P(S)!Channels = 3
      /\ P(S)!Channels \in Nat \ {0}
      /\ Bytes(S) \in Nat \ {0} /\ N * N * P(S)!Channels = S * Bytes(S)
      /\ Bytes(S) = Count(S) * P(S)!Channels
  BY Sizes, CountIs DEF Count, P!Channels, Bytes
<1> HIDE DEF rpp
<1>2. x \in 0..(Bytes(S) - 1) /\ n \in 0..(S - 1) BY DEF P!Index, P!Node
<1>3. j \in 0..(S * Bytes(S) - 1) /\ j \div Bytes(S) = n /\ j % Bytes(S) = x
  BY ONLY <1>1, <1>2, j = Bytes(S) * n + x, Place
<1>4. Wide \in Nat \ {0} /\ Bytes(S) = rpp * Wide
  <2>1. N * 3 \in Nat \ {0} BY <1>1
  <2>2. (rpp * N) * 3 = rpp * (N * 3) BY <1>1, Distribute
  <2> QED BY <1>1, <2>1, <2>2
<1> HIDE DEF Wide
<1>5. j \div Wide = n * rpp + (x \div Wide)
  <2>1. j \in 0..(S * (rpp * Wide) - 1) BY <1>3, <1>4
  <2>2. j \div Wide = (j \div (rpp * Wide)) * rpp + ((j % (rpp * Wide)) \div Wide)
    BY ONLY <1>1, <1>4, <2>1, Blocks
  <2>3. j \div (rpp * Wide) = n /\ j % (rpp * Wide) = x BY <1>3, <1>4
  <2> QED BY <2>2, <2>3
<1>6. /\ j \div P(S)!Channels = n * Count(S) + (x \div P(S)!Channels)
      /\ j % P(S)!Channels = x % P(S)!Channels
      /\ x \div P(S)!Channels \in 0..(Count(S) - 1)
  <2>1. j \in 0..(S * (Count(S) * P(S)!Channels) - 1) BY <1>1, <1>3
  <2>2. /\ j \div P(S)!Channels
              = (j \div (Count(S) * P(S)!Channels)) * Count(S) + ((j % (Count(S) * P(S)!Channels)) \div P(S)!Channels)
        /\ j % P(S)!Channels = (j % (Count(S) * P(S)!Channels)) % P(S)!Channels
        /\ (j % (Count(S) * P(S)!Channels)) \div P(S)!Channels \in 0..(Count(S) - 1)
    <3>1. P(S)!Channels \in Nat \ {0} /\ Count(S) \in Nat \ {0} /\ S \in Nat BY <1>1
    <3> QED BY ONLY <3>1, <2>1, Blocks
  <2>3. j \div (Count(S) * P(S)!Channels) = n /\ j % (Count(S) * P(S)!Channels) = x BY <1>1, <1>3
  <2> QED BY <2>2, <2>3
<1>7. (j \div P(S)!Channels) % N = (x \div P(S)!Channels) % N
  <2> DEFINE y == x \div P(S)!Channels
             z == Count(S) * n + y
  <2>1. y \in 0..(Count(S) - 1) BY <1>6
  <2> HIDE DEF y
  <2>2. z \in 0..(S * Count(S) - 1) /\ z % Count(S) = y
    <3>1. Count(S) \in Nat \ {0} /\ S \in Nat BY <1>1
    <3> QED BY ONLY <3>1, <1>2, <2>1, Place
  <2>3. j \div P(S)!Channels = z
    <3>1. Count(S) * n = n * Count(S) BY <1>1, <1>2
    <3> QED BY <1>6, <3>1 DEF y
  <2> HIDE DEF z
  <2>4. z \in 0..(S * (rpp * N) - 1) BY <1>1, <2>2
  <2>5. z % N = (z % (rpp * N)) % N
    <3>1. N \in Nat \ {0} /\ rpp \in Nat \ {0} /\ S \in Nat BY <1>1
    <3> QED BY ONLY <3>1, <2>4, Blocks
  <2>6. z % (rpp * N) = y BY <1>1, <2>2
  <2> QED BY <2>3, <2>5, <2>6 DEF y
<1> QED BY <1>1, <1>3, <1>5, <1>6, <1>7 DEF P!Index, rpp, Wide

\* The arrays named in names are those of c on every Pi, all of them on the root.
Given(S, m, c, names) ==
    \A n \in P(S)!Node : /\ DOMAIN m[n] = Pictures /\ m[n].image_sub = P(S)!Zeroes(Bytes(S))
                         /\ DOMAIN m[n].image = P(S)!Index(N * N * P(S)!Channels)
                         /\ \A name \in names : m[n][name] = c[name]
                         /\ n = P(S)!root => \A name \in P(S)!Circle : m[n][name] = c[name]

LEMMA BcastGives ==
  ASSUME NEW S, 0 \in P(S)!Node, NEW m, NEW c, NEW names, Given(S, m, c, names),
         NEW f \in P(S)!Circle,
         NEW to, to = Together(S, m, P(S)!FMPI_Bcast(f))
  PROVE  Given(S, to, c, names \cup {f})
<1>0. 0 \in P(S)!Node /\ P(S)!root = 0 BY DEF P!root
<1>1. f \in Pictures \ {"image", "image_sub"} BY NamesAre DEF Pictures
<1>2. m[P(S)!root][f] = c[f] BY <1>0 DEF Given
<1> SUFFICES ASSUME NEW n \in P(S)!Node
             PROVE  /\ DOMAIN to[n] = Pictures /\ to[n].image_sub = P(S)!Zeroes(Bytes(S))
                    /\ DOMAIN to[n].image = P(S)!Index(N * N * P(S)!Channels)
                    /\ \A name \in names \cup {f} : to[n][name] = c[name]
                    /\ n = P(S)!root => \A name \in P(S)!Circle : to[n][name] = c[name]
  BY DEF Given
<1>3. to[n] = [m[n] EXCEPT ![f] = c[f]]
  <2>1. Followed(S, m, P(S)!FMPI_Bcast(f), n) = [m[n] EXCEPT ![f] = m[P(S)!root][f]]
    BY <1>0, StepKinds
  <2> QED BY <1>2, <2>1, AllAre
<1>4. /\ DOMAIN m[n] = Pictures /\ m[n].image_sub = P(S)!Zeroes(Bytes(S))
      /\ DOMAIN m[n].image = P(S)!Index(N * N * P(S)!Channels)
      /\ \A name \in names : m[n][name] = c[name]
      /\ n = P(S)!root => \A name \in P(S)!Circle : m[n][name] = c[name]
  BY DEF Given
<1>5. DOMAIN to[n] = Pictures BY <1>3, <1>4
<1>6. to[n][f] = c[f] BY <1>1, <1>3, <1>4
<1>7. \A name : name # f => to[n][name] = m[n][name] BY <1>3
<1>8. "image" # f /\ "image_sub" # f BY <1>1
<1>9. to[n].image_sub = m[n].image_sub /\ to[n].image = m[n].image BY <1>7, <1>8
<1> QED BY <1>4, <1>5, <1>6, <1>7, <1>9

\* What one Pi draws.
LEMMA RowsDrawn ==
  ASSUME NEW S, P(S)!Divides, NEW n \in P(S)!Node, NEW m, NEW c, DOMAIN m = Pictures,
         m.image_sub = P(S)!Zeroes(Bytes(S)),
         P(S)!circles(m) = c
  PROVE  /\ DOMAIN P(S)!render(m, n) = Pictures
         /\ \A name \in Pictures \ {"image_sub"} : P(S)!render(m, n)[name] = m[name]
         /\ \A x \in P(S)!Index(Bytes(S)) : P(S)!render(m, n).image_sub[x] = Drawn(S, c)[Bytes(S) * n + x]
<1>1. P(S)!render(m, n) = [m EXCEPT !.image_sub = [y \in P(S)!Index(Bytes(S)) |->
        P(S)!Pixel(c, n * Rows + (y \div (N * P(S)!Channels)),
              (y \div P(S)!Channels) % N, m.image_sub[y], y % P(S)!Channels)]]
  BY DEF P!render, Bytes, Count
<1>2. ASSUME NEW x \in P(S)!Index(Bytes(S))
      PROVE  P(S)!render(m, n).image_sub[x] = Drawn(S, c)[Bytes(S) * n + x]
  <2> DEFINE j == Bytes(S) * n + x
  <2>1. j = Bytes(S) * n + x OBVIOUS
  <2> HIDE DEF j
  <2>2. /\ j \in P(S)!Index(N * N * P(S)!Channels) /\ j % P(S)!Channels = x % P(S)!Channels
        /\ j \div (N * P(S)!Channels) = n * Rows + (x \div (N * P(S)!Channels))
        /\ (j \div P(S)!Channels) % N = (x \div P(S)!Channels) % N
    BY <2>1, PixelsAre
  <2>3. P(S)!render(m, n).image_sub[x]
          = P(S)!Pixel(c, n * Rows + (x \div (N * P(S)!Channels)),
                  (x \div P(S)!Channels) % N, m.image_sub[x], x % P(S)!Channels)
    BY <1>1 DEF Pictures
  <2>4. m.image_sub[x] = 0 BY DEF P!Zeroes
  <2>5. Drawn(S, c)[j]
        = P(S)!Pixel(c, j \div (N * P(S)!Channels), (j \div P(S)!Channels) % N, 0, j % P(S)!Channels)
    BY <2>2 DEF Drawn
  <2> QED BY <2>1, <2>2, <2>3, <2>4, <2>5
<1>3. DOMAIN P(S)!render(m, n) = Pictures
      /\ \A name \in Pictures \ {"image_sub"} : P(S)!render(m, n)[name] = m[name]
  BY <1>1
<1> QED BY <1>2, <1>3

LEMMA RenderResult ==
  ASSUME NEW S, P(S)!Divides
  PROVE  After(S, "render")[10][P(S)!root].image = P(S)!render_ans(After(S, "render")[10][P(S)!root])
<1> DEFINE p == "render"
           a == After(S, p)
           c == P(S)!circles(a[2][P(S)!root])
<1>0. 0 \in P(S)!Node /\ P(S)!root = 0 /\ p \in P(S)!Programs /\ Bytes(S) \in Nat \ {0}
      /\ N * N * P(S)!Channels = S * Bytes(S)
      /\ S \in Nat \ {0}
  BY CountIs, Sizes DEF P!root, P!Programs, Bytes
<1>1. /\ Len(P(S)!Steps(p)) = 9 /\ P(S)!Steps(p)[1] = P(S)!Local("random_circles")
      /\ P(S)!Steps(p)[2] = P(S)!FMPI_Bcast("x")
      /\ P(S)!Steps(p)[3] = P(S)!FMPI_Bcast("y") /\ P(S)!Steps(p)[4] = P(S)!FMPI_Bcast("radius")
      /\ P(S)!Steps(p)[5] = P(S)!FMPI_Bcast("r")
      /\ P(S)!Steps(p)[6] = P(S)!FMPI_Bcast("g") /\ P(S)!Steps(p)[7] = P(S)!FMPI_Bcast("b")
      /\ P(S)!Steps(p)[8] = P(S)!Local("render")
      /\ P(S)!Steps(p)[9] = P(S)!FMPI_Gather("image_sub", "image", Bytes(S))
  BY RenderIs DEF P!Steps, Bytes, Count
<1>2. /\ a[2] = Together(S, a[1], P(S)!Local("random_circles"))
      /\ a[3] = Together(S, a[2], P(S)!FMPI_Bcast("x"))
      /\ a[4] = Together(S, a[3], P(S)!FMPI_Bcast("y"))
      /\ a[5] = Together(S, a[4], P(S)!FMPI_Bcast("radius"))
      /\ a[6] = Together(S, a[5], P(S)!FMPI_Bcast("r"))
      /\ a[7] = Together(S, a[6], P(S)!FMPI_Bcast("g"))
      /\ a[8] = Together(S, a[7], P(S)!FMPI_Bcast("b"))
      /\ a[9] = Together(S, a[8], P(S)!Local("render"))
      /\ a[10] = Together(S, a[9], P(S)!FMPI_Gather("image_sub", "image", Bytes(S)))
  <2> HIDE DEF p
  <2>1. ASSUME NEW k \in 1..9, NEW later, later = k + 1
        PROVE  a[later] = Together(S, a[k], P(S)!Steps(p)[k])
    <3>1. k \in 1..Len(P(S)!Steps(p)) BY <1>1
    <3>2. After(S, p)[later] = Together(S, After(S, p)[k], P(S)!Steps(p)[k])
      BY ONLY <1>0, <2>1, <3>1, AfterAll
    <3> QED BY <3>2
  <2> HIDE DEF a
  <2>2. a[2] = Together(S, a[1], P(S)!Steps(p)[1]) BY <2>1
  <2>3. a[3] = Together(S, a[2], P(S)!Steps(p)[2]) BY <2>1
  <2>4. a[4] = Together(S, a[3], P(S)!Steps(p)[3]) BY <2>1
  <2>5. a[5] = Together(S, a[4], P(S)!Steps(p)[4]) BY <2>1
  <2>6. a[6] = Together(S, a[5], P(S)!Steps(p)[5]) BY <2>1
  <2>7. a[7] = Together(S, a[6], P(S)!Steps(p)[6]) BY <2>1
  <2>8. a[8] = Together(S, a[7], P(S)!Steps(p)[7]) BY <2>1
  <2>9. a[9] = Together(S, a[8], P(S)!Steps(p)[8]) BY <2>1
  <2>10. a[10] = Together(S, a[9], P(S)!Steps(p)[9]) BY <2>1
  <2> QED BY <1>1, <2>2, <2>3, <2>4, <2>5, <2>6, <2>7, <2>8, <2>9, <2>10
<1>3. ASSUME NEW n \in P(S)!Node
      PROVE  /\ DOMAIN a[1][n] = Pictures
             /\ DOMAIN a[1][n].image = P(S)!Index(N * N * P(S)!Channels)
             /\ a[1][n].image_sub = P(S)!Zeroes(Bytes(S))
  <2>1. a[1][n] = P(S)!Arrays(p) BY <1>0, AtFirst
  <2> QED BY <2>1 DEF P!Arrays, P!Zeroes, Pictures, Bytes, Count
<1> HIDE DEF a, p
<1>4. Given(S, a[2], c, {})
  <2> SUFFICES ASSUME NEW n \in P(S)!Node
               PROVE  /\ DOMAIN a[2][n] = Pictures /\ a[2][n].image_sub = P(S)!Zeroes(Bytes(S))
                      /\ DOMAIN a[2][n].image = P(S)!Index(N * N * P(S)!Channels)
                      /\ n = P(S)!root => \A name \in P(S)!Circle : a[2][n][name] = c[name]
    BY DEF Given
  <2>1. a[2][n] = IF n = P(S)!root THEN P(S)!random_circles(a[1][n]) ELSE a[1][n]
    <3>1. Followed(S, a[1], P(S)!Local("random_circles"), n) = P(S)!Computed("random_circles", n, a[1][n])
      BY <1>0, StepKinds
    <3> QED BY <1>2, <3>1, AllAre DEF P!Computed
  <2>2. "image" \in Pictures \ P(S)!Circle /\ "image_sub" \in Pictures \ P(S)!Circle
    BY NamesAre DEF Pictures
  <2>3. DOMAIN P(S)!random_circles(a[1][n]) = Pictures
        /\ \A name \in Pictures \ P(S)!Circle : P(S)!random_circles(a[1][n])[name] = a[1][n][name]
    BY <1>3 DEF P!random_circles
  <2>4. P(S)!random_circles(a[1][n]).image_sub = a[1][n].image_sub
        /\ P(S)!random_circles(a[1][n]).image = a[1][n].image
    BY <2>2, <2>3
  <2>5. n = P(S)!root => \A name \in P(S)!Circle : a[2][n][name] = c[name] BY DEF P!circles
  <2> QED BY <1>3, <2>1, <2>3, <2>4, <2>5
<1> HIDE DEF c
<1>5. Given(S, a[8], c, P(S)!Circle)
  <2>1. "x" \in P(S)!Circle /\ "y" \in P(S)!Circle /\ "radius" \in P(S)!Circle
        /\ "r" \in P(S)!Circle /\ "g" \in P(S)!Circle /\ "b" \in P(S)!Circle
    BY NamesAre
  <2>2. Given(S, a[3], c, {} \cup {"x"}) BY <1>0, <1>2, <1>4, <2>1, BcastGives
  <2>3. Given(S, a[4], c, {} \cup {"x"} \cup {"y"}) BY <1>0, <1>2, <2>1, <2>2, BcastGives
  <2>4. Given(S, a[5], c, {} \cup {"x"} \cup {"y"} \cup {"radius"})
    BY <1>0, <1>2, <2>1, <2>3, BcastGives
  <2>5. Given(S, a[6], c, {} \cup {"x"} \cup {"y"} \cup {"radius"} \cup {"r"})
    BY <1>0, <1>2, <2>1, <2>4, BcastGives
  <2>6. Given(S, a[7], c, {} \cup {"x"} \cup {"y"} \cup {"radius"} \cup {"r"} \cup {"g"})
    BY <1>0, <1>2, <2>1, <2>5, BcastGives
  <2>7. Given(S, a[8], c, {} \cup {"x"} \cup {"y"} \cup {"radius"} \cup {"r"} \cup {"g"} \cup {"b"})
    BY <1>0, <1>2, <2>1, <2>6, BcastGives
  <2>8. P(S)!Circle = {} \cup {"x"} \cup {"y"} \cup {"radius"} \cup {"r"} \cup {"g"} \cup {"b"}
    BY NamesAre
  <2> QED BY <2>7, <2>8
<1>6. ASSUME NEW n \in P(S)!Node
      PROVE  /\ DOMAIN a[9][n] = Pictures
             /\ DOMAIN a[9][n].image = P(S)!Index(N * N * P(S)!Channels)
             /\ \A name \in P(S)!Circle : a[9][n][name] = c[name]
             /\ \A x \in P(S)!Index(Bytes(S)) : a[9][n]["image_sub"][x] = Drawn(S, c)[Bytes(S) * n + x]
  <2>1. /\ DOMAIN a[8][n] = Pictures /\ a[8][n].image_sub = P(S)!Zeroes(Bytes(S))
        /\ DOMAIN a[8][n].image = P(S)!Index(N * N * P(S)!Channels)
        /\ \A name \in P(S)!Circle : a[8][n][name] = c[name]
    BY <1>5 DEF Given
  <2>2. P(S)!circles(a[8][n]) = c
    <3>1. c = [name \in P(S)!Circle |-> c[name]] BY DEF c, P!circles
    <3> QED BY <2>1, <3>1 DEF P!circles
  <2>3. a[9][n] = P(S)!render(a[8][n], n)
    <3>1. Followed(S, a[8], P(S)!Local("render"), n) = P(S)!Computed("render", n, a[8][n])
      BY <1>0, StepKinds
    <3> QED BY <1>2, <3>1, AllAre DEF P!Computed
  <2>4. /\ DOMAIN P(S)!render(a[8][n], n) = Pictures
        /\ \A name \in Pictures \ {"image_sub"} : P(S)!render(a[8][n], n)[name] = a[8][n][name]
        /\ \A x \in P(S)!Index(Bytes(S)) : P(S)!render(a[8][n], n).image_sub[x]
              = Drawn(S, c)[Bytes(S) * n + x]
    BY <2>1, <2>2, RowsDrawn
  <2>5. "image" \in Pictures \ {"image_sub"} /\ P(S)!Circle \subseteq Pictures \ {"image_sub"}
    BY NamesAre DEF Pictures
  <2> QED BY <2>1, <2>3, <2>4, <2>5
<1>7. /\ a[10][P(S)!root]["image"] = Whole(S, Drawn(S, c), S * Bytes(S))
      /\ \A name \in P(S)!Circle : a[10][P(S)!root][name] = c[name]
  <2>1. "image" \in DOMAIN a[9][P(S)!root]
        /\ DOMAIN a[9][P(S)!root]["image"] = P(S)!Index(S * Bytes(S))
    BY <1>0, <1>6 DEF Pictures
  <2>2. Followed(S, a[9], P(S)!FMPI_Gather("image_sub", "image", Bytes(S)), P(S)!root)["image"]
        = Whole(S, Drawn(S, c), S * Bytes(S))
    BY <1>0, <1>6, <2>1, Gathered
  <2>3. ASSUME NEW name, name # "image"
        PROVE  Followed(S, a[9], P(S)!FMPI_Gather("image_sub", "image", Bytes(S)), P(S)!root)[name]
              = a[9][P(S)!root][name]
    BY <2>3 DEF Followed, P!FMPI_Gather
  <2>4. \A name \in P(S)!Circle : name # "image" BY NamesAre
  <2> QED BY <1>0, <1>2, <1>6, <2>2, <2>3, <2>4, AllAre
<1>8. Whole(S, Drawn(S, c), S * Bytes(S)) = Drawn(S, c) BY <1>0 DEF Drawn, Whole
<1>9. P(S)!circles(a[10][P(S)!root]) = c
  <2>1. c = [name \in P(S)!Circle |-> c[name]] BY DEF c, P!circles
  <2> QED BY <1>7, <2>1 DEF P!circles
<1>10. P(S)!render_ans(a[10][P(S)!root]) = Drawn(S, c) BY <1>9 DEF P!render_ans, Drawn
<1> QED BY <1>7, <1>8, <1>10 DEF a, p

-----------------------------------------------------------------------------
LEMMA ResultThere ==
  ASSUME NEW S, 0 \in P(S)!Node, Lockstep(S), Asserted(S)
  PROVE  P(S)!RootHasResult
<1>0. overrun => ~P(S)!Divides BY DEF Lockstep
<1> SUFFICES ASSUME P(S)!Finished(P(S)!root), P(S)!Divides
             PROVE  CASE program \in {"mpi", "matmul"} -> mem[P(S)!root].C = P(S)!Product
                      [] program = "matmul_hard" -> P(S)!verify_result(mem[P(S)!root].C)
                      [] program = "mergesort" -> mem[P(S)!root].arr = [y \in P(S)!Index(Length) |-> 101 - Length + y]
                      [] program = "render" -> mem[P(S)!root].image = P(S)!render_ans(mem[P(S)!root])
  BY <1>0 DEF P!RootHasResult
<1>1. /\ program \in P(S)!Programs /\ Progress(S) /\ Arrived(S) /\ (program = "matmul" => N = 4)
      /\ pc[P(S)!root] > Len(P(S)!Steps(program)) /\ P(S)!root \in P(S)!Node
  <2>1. /\ program \in P(S)!Programs /\ Progress(S) /\ Arrived(S)
        /\ pc[P(S)!root] > Len(P(S)!Steps(program)) /\ P(S)!root \in P(S)!Node
    BY DEF P!Finished, Lockstep, P!root
  <2>2. program = "matmul" => Len(P(S)!Steps(program)) = 5 BY MatmulIs DEF P!Steps
  <2>3. ASSUME program = "matmul" PROVE N = 4
    <3>1. pc[P(S)!root] \in 1..(Len(P(S)!Steps(program)) + 1) BY <2>1 DEF Progress
    <3>2. pc[P(S)!root] > Len(P(S)!Steps(program)) BY <2>1
    <3>3. Len(P(S)!Steps(program)) = 5 BY <2>2, <2>3
    <3>4. pc[P(S)!root] > 3 BY ONLY <3>1, <3>2, <3>3
    <3> QED BY <2>1, <2>3, <3>4 DEF Asserted
  <2> QED BY <2>1, <2>3
<1>2. mem[P(S)!root] = After(S, program)[Len(P(S)!Steps(program)) + 1][P(S)!root]
  <2>1. pc[P(S)!root] \in 1..(Len(P(S)!Steps(program)) + 1) BY <1>1 DEF Progress
  <2>2. Len(P(S)!Steps(program)) \in Nat BY <1>1, StepCount
  <2>3. pc[P(S)!root] = Len(P(S)!Steps(program)) + 1 BY <1>1, <2>1, <2>2
  <2> QED BY <1>1, <2>3 DEF Arrived
<1>3. CASE program \in {"mpi", "matmul"}
  <2>1. Len(P(S)!Steps(program)) = 5 BY <1>3, MatmulIs DEF P!Steps
  <2>2. mem[P(S)!root].C = P(S)!Product BY <1>1, <1>2, <1>3, <2>1, ExampleResult
  <2> QED BY <1>3, <2>2
<1>4. CASE program = "matmul_hard"
  <2>1. Len(P(S)!Steps(program)) = 8 BY <1>4, MatmulHardIs DEF P!Steps
  <2>2. mem[P(S)!root].C = P(S)!expected
    <3>1. Len(P(S)!Steps(program)) + 1 = 9 BY <2>1
    <3>2. mem[P(S)!root] = After(S, "matmul_hard")[9][P(S)!root] BY <1>2, <1>4, <3>1
    <3> QED BY <3>2, HardResult
  <2> QED BY <1>4, <2>2 DEF P!verify_result
<1>5. CASE program = "mergesort"
  <2>1. Len(P(S)!Steps(program)) = 5 BY <1>5, MergeSortIs DEF P!Steps
  <2>2. mem[P(S)!root].arr = Sorted(S)
    <3>1. Len(P(S)!Steps(program)) + 1 = 6 BY <2>1
    <3>2. mem[P(S)!root] = After(S, "mergesort")[6][P(S)!root] BY <1>2, <1>5, <3>1
    <3> QED BY <3>2, SortResult
  <2> QED BY <1>5, <2>2 DEF Sorted
<1>6. CASE program = "render"
  <2>1. Len(P(S)!Steps(program)) = 9 BY <1>6, RenderIs DEF P!Steps
  <2>2. mem[P(S)!root].image = P(S)!render_ans(mem[P(S)!root])
    <3>1. Len(P(S)!Steps(program)) + 1 = 10 BY <2>1
    <3>2. mem[P(S)!root] = After(S, "render")[10][P(S)!root] BY <1>2, <1>6, <3>1
    <3> QED BY <3>2, RenderResult
  <2> QED BY <1>6, <2>2
<1> QED BY <1>1, <1>3, <1>4, <1>5, <1>6 DEF P!Programs

-----------------------------------------------------------------------------
(* The theorems.                                                           *)

\* Whatever operations the client calls, on however many elements, walking the
\* list from head gives its elements in order and ends at tail after cnt of
\* them, and Q_pop returns the first of them (Q.h:18-82).
THEOREM QueueRepresents == SpecAll => []Represents
<1>1. InitAll => QueueInv
  BY QInit DEF InitAll
<1>2. QueueInv /\ [NextAll]_Vars => QueueInv'
  BY StepIInv DEF NextAll, Vars
<1>3. QueueInv => Represents
  BY DEF QueueInv
<1> QED BY <1>1, <1>2, <1>3, PTL DEF SpecAll

\* Whatever the width of the counter and whatever the lengths asked for, no wait
\* ends early, timeout.h counts every microsecond once, and a wait is over at the
\* first look after its time, across any number of wraps (timer.c:18-25,
\* timeout.h:30-51).
THEOREM TimeoutsCorrect == SpecAll => []TimeoutsExact
<1>1. InitAll => T!IInv
  BY TInit, LooksOften DEF InitAll
<1>2. T!IInv /\ [NextAll]_Vars => T!IInv'
  BY TStep, LooksOften DEF NextAll, Vars, TimeVars, T!timeVars, T!delay
<1>3. T!IInv => TimeoutsExact
  BY TExact, LooksOften DEF TimeoutsExact
<1> QED BY <1>1, <1>2, <1>3, PTL DEF SpecAll

\* The invariant of the laptop's two tools.
ToolsInv == (which = "install" => I!IInv) /\ W!IInv

\* However many ttys and ranks there are, whoever plugs, unplugs and types, and
\* however short a boot is: unless a boot has left another tty with a time that
\* is not older, every rank gets a tty of its own while there are enough, and the
\* same one on the next run; and that does not happen if boots take longer than
\* the granularity of the times.  And the time of a save the command has not
\* seen is never below last_mtime, unless it is about to be run
\* (find-ttyusb.c:64-171, my-install.c:151-196, cmd-watch.c:52-59).
THEOREM ToolsCorrect == SpecAll => []ToolsRight
<1>1. InitAll => ToolsInv
  BY IInit, WInit, InstallsWell DEF InitAll, ToolsInv
<1>2. ToolsInv /\ [NextAll]_Vars => ToolsInv'
  <2> SUFFICES ASSUME ToolsInv, [NextAll]_Vars PROVE ToolsInv'
    OBVIOUS
  <2>1. which' = which
    BY DEF NextAll, Vars
  <2>2. ASSUME which = "install" PROVE I!IInv'
    <3>1. [I!Next]_InstallVars
      BY <2>2 DEF NextAll, Vars
    <3> QED BY <2>2, <3>1, IStep, InstallsWell DEF ToolsInv
  <2>3. W!IInv'
    <3>1. [W!Next]_W!watchVars
      BY DEF NextAll, Vars, WatchVars, W!watchVars, W!scan, W!files
    <3> QED BY <3>1, WStep DEF ToolsInv
  <2> QED BY <2>1, <2>2, <2>3 DEF ToolsInv
<1>3. ToolsInv => ToolsRight
  BY IRight, InstallsWell DEF ToolsInv, ToolsRight, W!IInv
<1> QED BY <1>1, <1>2, <1>3, PTL DEF SpecAll

\* The programs that run, on however many Pis.
Running(S) == Lockstep(S) /\ Asserted(S)
ProgramsInv == (which # "four" => Running(Few)) /\ (which = "four" => Running(Many))

\* Whatever share of the rows and numbers is written into the programs, whatever
\* the circles, and in whatever order the Pis compute and enter and leave the
\* collectives: on the number of Pis for which the shares are the whole, the root
\* writes nothing behind its arrays and ends with the product, the sorted numbers
\* and the picture that one computer computes alone (matmul.c, matmul-hard.c,
\* mpi.c, mergesort.c, render.c).
THEOREM ProgramsCorrect == SpecAll => []RootHasResult
<1>0. 0 \in P(Few)!Node /\ 0 \in P(Many)!Node
  BY PisRight DEF P!Node
<1>1. InitAll => ProgramsInv
  <2>1. ASSUME NEW S, P(S)!Init PROVE Running(S)
    <3>1. Asserted(S) BY <2>1 DEF Asserted, P!Init
    <3> QED BY <2>1, <3>1, LockInit DEF Running
  <2> QED BY <2>1 DEF InitAll, ProgramsInv
<1>2. ProgramsInv /\ [NextAll]_Vars => ProgramsInv'
  <2> SUFFICES ASSUME ProgramsInv, [NextAll]_Vars PROVE ProgramsInv'
    OBVIOUS
  <2>1. which' = which
    BY DEF NextAll, Vars
  <2>2. ASSUME which # "four" PROVE Running(Few)'
    <3>1. [P(Few)!Next]_(P(Few)!programsVars)
      BY <2>2 DEF NextAll, Vars, ProgramVars, P!programsVars
    <3>2. Lockstep(Few) /\ Asserted(Few) BY <2>2 DEF ProgramsInv, Running
    <3>3. Lockstep(Few)' BY <1>0, <3>1, <3>2, LockStep
    <3>4. Asserted(Few)' BY <1>0, <3>1, <3>2, AssertedStep
    <3> QED BY <3>3, <3>4 DEF Running
  <2>3. ASSUME which = "four" PROVE Running(Many)'
    <3>1. [P(Many)!Next]_(P(Many)!programsVars)
      BY <2>3 DEF NextAll, Vars, ProgramVars, P!programsVars
    <3>2. Lockstep(Many) /\ Asserted(Many) BY <2>3 DEF ProgramsInv, Running
    <3>3. Lockstep(Many)' BY <1>0, <3>1, <3>2, LockStep
    <3>4. Asserted(Many)' BY <1>0, <3>1, <3>2, AssertedStep
    <3> QED BY <3>3, <3>4 DEF Running
  <2> QED BY <2>1, <2>2, <2>3 DEF ProgramsInv
<1>3. ProgramsInv => RootHasResult
  BY <1>0, ResultThere DEF ProgramsInv, Running, RootHasResult
<1> QED BY <1>1, <1>2, <1>3, PTL DEF SpecAll
=============================================================================
