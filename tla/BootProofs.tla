----------------------------- MODULE BootProofs -----------------------------
(***************************************************************************)
(* The bootloader keeps its promise for every number of Pis, every program *)
(* and every number of faults: Boot implements Loader.                     *)
(***************************************************************************)
EXTENDS Boot, SequenceTheorems, TLAPS

Byte == (Words \cup {"other", "text", "rank", "size", "code"}) \X Nat

\* Some byte of s is one of word w.
Has(s, w) == \E k \in DOMAIN s : s[k][1] = w

\* s is what is left of t after reading, losing or garbling bytes.
Less(s, t) ==
    /\ s \in Seq(Byte) /\ Len(s) <= Len(t)
    /\ \A k \in 1..Len(s) :
         s[k][1] = "text" \/ \E j \in 1..Len(t) : k <= j /\ s[k] = t[j]

-----------------------------------------------------------------------------
(* Sequences of bytes.                                                     *)

LEMMA JunkIsByte == Junk \in Byte
BY DEF Junk, Byte

LEMMA BytesOf ==
  ASSUME NEW w \in Words \cup {"other"}
  PROVE  /\ Bytes(w) \in Seq(Byte) /\ Len(Bytes(w)) = 4
         /\ \A k \in 1..4 : Bytes(w)[k] = <<w, k>>
         /\ \A v : Has(Bytes(w), v) <=> v = w
<1>1. \A k \in 1..4 : Bytes(w)[k] = <<w, k>> BY DEF Bytes
<1>2. \A k \in 1..4 : <<w, k>> \in Byte BY DEF Byte
<1>3. Bytes(w) \in Seq(Byte) /\ Len(Bytes(w)) = 4
  BY <1>2 DEF Bytes
<1>4. DOMAIN Bytes(w) = 1..4 BY DEF Bytes
<1>5. ASSUME NEW v PROVE Has(Bytes(w), v) <=> v = w
  <2>1. 1 \in 1..4 OBVIOUS
  <2>2. QED BY <1>1, <1>4, <2>1 DEF Has
<1>6. QED BY <1>1, <1>3, <1>5

LEMMA TextOf ==
  ASSUME NEW n \in Nat
  PROVE  /\ Text(n) \in Seq(Byte) /\ Len(Text(n)) = n
         /\ \A v : Has(Text(n), v) => v = "text"
<1>1. Text(n) \in Seq(Byte) /\ Len(Text(n)) = n /\ DOMAIN Text(n) = 1..n
  BY JunkIsByte DEF Text
<1>2. \A k \in 1..n : Text(n)[k][1] = "text" BY DEF Text, Junk
<1>3. QED BY <1>1, <1>2 DEF Has

LEMMA ConcatBytes ==
  ASSUME NEW s \in Seq(Byte), NEW t \in Seq(Byte)
  PROVE  /\ s \o t \in Seq(Byte) /\ Len(s \o t) = Len(s) + Len(t)
         /\ \A k \in 1..Len(s) : (s \o t)[k] = s[k]
         /\ \A k \in 1..Len(t) : (s \o t)[Len(s) + k] = t[k]
<1>1. Len(s) \in Nat /\ Len(t) \in Nat OBVIOUS
<1>2. s \o t \in Seq(Byte) /\ Len(s \o t) = Len(s) + Len(t) OBVIOUS
<1>3. \A k \in 1..Len(s) : (s \o t)[k] = s[k] BY <1>1
<1>4. \A k \in 1..Len(t) : (s \o t)[Len(s) + k] = t[k] BY <1>1
<1>5. QED BY <1>2, <1>3, <1>4

LEMMA PrefixOf ==
  ASSUME NEW s \in Seq(Byte), NEW n \in 0..Len(s)
  PROVE  SubSeq(s, 1, n) \in Seq(Byte) /\ Len(SubSeq(s, 1, n)) = n
         /\ \A k \in 1..n : SubSeq(s, 1, n)[k] = s[k]
<1>1. Len(s) \in Nat OBVIOUS
<1>2. QED BY <1>1

Cat(s, t) == s \o t

LEMMA CatOf ==
  ASSUME NEW s \in Seq(Byte), NEW t \in Seq(Byte)
  PROVE  /\ Cat(s, t) \in Seq(Byte) /\ Len(Cat(s, t)) = Len(s) + Len(t)
         /\ \A k \in 1..Len(s) : Cat(s, t)[k] = s[k]
         /\ \A k \in 1..Len(t) : Cat(s, t)[Len(s) + k] = t[k]
BY ConcatBytes DEF Cat

LEMMA FourOf ==
  ASSUME NEW a \in Seq(Byte), NEW b \in Seq(Byte), NEW c \in Seq(Byte), NEW d \in Seq(Byte),
         Len(a) = 4, Len(b) = 4, Len(c) = 4, Len(d) = 4
  PROVE  LET z == Cat(Cat(Cat(a, b), c), d) IN
         /\ z \in Seq(Byte) /\ Len(z) = 16
         /\ \A k \in 1..4 : z[k] = a[k] /\ z[4 + k] = b[k]
         /\ \A k \in 1..4 : z[8 + k] = c[k] /\ z[12 + k] = d[k]
<1> DEFINE x == Cat(a, b)
           y == Cat(x, c)
           z == Cat(y, d)
<1>1. /\ x \in Seq(Byte) /\ Len(x) = 8
      /\ \A k \in 1..4 : x[k] = a[k] /\ x[4 + k] = b[k]
  <2>1. /\ x \in Seq(Byte) /\ Len(x) = Len(a) + Len(b)
        /\ \A k \in 1..Len(a) : x[k] = a[k]
        /\ \A k \in 1..Len(b) : x[Len(a) + k] = b[k]
    BY CatOf
  <2> HIDE DEF x
  <2>2. QED BY <2>1
<1> HIDE DEF x
<1>2. /\ y \in Seq(Byte) /\ Len(y) = 12
      /\ \A k \in 1..8 : y[k] = x[k]
      /\ \A k \in 1..4 : y[8 + k] = c[k]
  <2>1. /\ y \in Seq(Byte) /\ Len(y) = Len(x) + Len(c)
        /\ \A k \in 1..Len(x) : y[k] = x[k]
        /\ \A k \in 1..Len(c) : y[Len(x) + k] = c[k]
    BY <1>1, CatOf
  <2> HIDE DEF y
  <2>2. QED BY <1>1, <2>1, SMTT(30)
<1> HIDE DEF y
<1>3. /\ z \in Seq(Byte) /\ Len(z) = 16
      /\ \A k \in 1..12 : z[k] = y[k]
      /\ \A k \in 1..4 : z[12 + k] = d[k]
  <2>1. /\ z \in Seq(Byte) /\ Len(z) = Len(y) + Len(d)
        /\ \A k \in 1..Len(y) : z[k] = y[k]
        /\ \A k \in 1..Len(d) : z[Len(y) + k] = d[k]
    BY <1>2, CatOf
  <2> HIDE DEF z
  <2>2. QED BY <1>2, <2>1, SMTT(30)
<1> HIDE DEF z
<1>4. ASSUME NEW k \in 1..4
      PROVE z[k] = a[k] /\ z[4 + k] = b[k] /\ z[8 + k] = c[k] /\ z[12 + k] = d[k]
  <2>1. k \in 1..8 /\ k \in 1..12 /\ 4 + k \in 1..8 /\ 4 + k \in 1..12 /\ 8 + k \in 1..12
    OBVIOUS
  <2>0. z[k] = y[k] /\ z[4 + k] = y[4 + k] /\ z[8 + k] = y[8 + k] BY <1>3, <2>1, Zenon
  <2>2. z[k] = a[k] BY <1>1, <1>2, <2>0, <2>1, Zenon
  <2>3. z[4 + k] = b[k] BY <1>1, <1>2, <2>0, <2>1, Zenon
  <2>4. z[8 + k] = c[k] BY <1>2, <2>0, <2>1, Zenon
  <2>5. QED BY <1>3, <2>2, <2>3, <2>4
<1>5. QED BY <1>3, <1>4 DEF x, y, z

LEMMA HasConcat ==
  ASSUME NEW s \in Seq(Byte), NEW t \in Seq(Byte), NEW w
  PROVE  Has(s \o t, w) <=> Has(s, w) \/ Has(t, w)
<1>1. Len(s) \in Nat /\ Len(t) \in Nat
      /\ DOMAIN s = 1..Len(s) /\ DOMAIN t = 1..Len(t)
      /\ s \o t \in Seq(Byte) /\ DOMAIN (s \o t) = 1..(Len(s) + Len(t))
  OBVIOUS
<1>2. \A k \in 1..Len(s) : (s \o t)[k] = s[k] /\ k \in 1..(Len(s) + Len(t))
  BY <1>1
<1>3. \A k \in 1..Len(t) : (s \o t)[Len(s) + k] = t[k]
                           /\ Len(s) + k \in 1..(Len(s) + Len(t))
  BY <1>1
<1>4. ASSUME Has(s \o t, w) PROVE Has(s, w) \/ Has(t, w)
  <2>1. PICK k \in 1..(Len(s) + Len(t)) : (s \o t)[k][1] = w BY <1>1, <1>4 DEF Has
  <2>2. CASE k <= Len(s) BY <1>1, <1>2, <2>1, <2>2 DEF Has
  <2>3. CASE k > Len(s)
    <3>1. k - Len(s) \in 1..Len(t) /\ Len(s) + (k - Len(s)) = k BY <1>1, <2>3
    <3>2. t[k - Len(s)][1] = w BY <1>3, <2>1, <3>1
    <3>3. QED BY <1>1, <3>1, <3>2 DEF Has
  <2>4. QED BY <1>1, <2>2, <2>3
<1>5. Has(s, w) => Has(s \o t, w) BY <1>1, <1>2 DEF Has
<1>6. Has(t, w) => Has(s \o t, w) BY <1>1, <1>3 DEF Has
<1>7. QED BY <1>4, <1>5, <1>6

LEMMA HasCat ==
  ASSUME NEW s \in Seq(Byte), NEW t \in Seq(Byte)
  PROVE  Cat(s, t) \in Seq(Byte) /\ \A w : Has(Cat(s, t), w) <=> Has(s, w) \/ Has(t, w)
BY HasConcat, CatOf DEF Cat

LEMMA HasNothing == ~Has(<<>>, "CRC") /\ \A w : ~Has(<<>>, w)
BY DEF Has

-----------------------------------------------------------------------------
(* Less.                                                                   *)

LEMMA LessHas ==
  ASSUME NEW s, NEW t \in Seq(Byte), Less(s, t), NEW w, w # "text", Has(s, w)
  PROVE  Has(t, w)
<1>1. s \in Seq(Byte) /\ DOMAIN s = 1..Len(s) /\ DOMAIN t = 1..Len(t) BY DEF Less
<1>2. QED BY <1>1 DEF Less, Has

LEMMA LessSelf == ASSUME NEW s \in Seq(Byte) PROVE Less(s, s)
<1>1. Len(s) \in Nat OBVIOUS
<1>2. QED BY <1>1 DEF Less

LEMMA LessEmpty == ASSUME NEW s, Less(s, <<>>) PROVE s = <<>>
BY DEF Less

LEMMA DropLess ==
  ASSUME NEW s \in Seq(Byte), NEW n \in 0..Len(s)
  PROVE  /\ Less(Drop(s, n), s) /\ Len(Drop(s, n)) = Len(s) - n
         /\ \A k \in 1..(Len(s) - n) : Drop(s, n)[k] = s[n + k]
<1>1. Len(s) \in Nat OBVIOUS
<1>2. Drop(s, n) \in Seq(Byte) /\ Len(Drop(s, n)) = Len(s) - n
  BY <1>1 DEF Drop
<1>3. \A k \in 1..(Len(s) - n) : Drop(s, n)[k] = s[n + k] /\ n + k \in 1..Len(s) /\ k <= n + k
  BY <1>1 DEF Drop
<1>4. QED BY <1>1, <1>2, <1>3 DEF Less

LEMMA TailLess ==
  ASSUME NEW s \in Seq(Byte), s # <<>>
  PROVE  /\ Less(Tail(s), s) /\ Len(Tail(s)) = Len(s) - 1 /\ Head(s) = s[1]
         /\ \A k \in 1..(Len(s) - 1) : Tail(s)[k] = s[k + 1]
<1>1. Len(s) \in Nat /\ Len(s) > 0 OBVIOUS
<1>2. Tail(s) \in Seq(Byte) /\ Len(Tail(s)) = Len(s) - 1 /\ Head(s) = s[1] OBVIOUS
<1>3. \A k \in 1..(Len(s) - 1) : Tail(s)[k] = s[k + 1] /\ k + 1 \in 1..Len(s) /\ k <= k + 1
  BY <1>1
<1>4. QED BY <1>1, <1>2, <1>3 DEF Less

LEMMA PrefixLess ==
  ASSUME NEW s \in Seq(Byte), NEW n \in 0..Len(s)
  PROVE  Less(SubSeq(s, 1, n), s)
<1>1. Len(s) \in Nat OBVIOUS
<1>2. SubSeq(s, 1, n) \in Seq(Byte) /\ Len(SubSeq(s, 1, n)) = n
      /\ \A k \in 1..n : SubSeq(s, 1, n)[k] = s[k] /\ k \in 1..Len(s) /\ k <= k
  BY <1>1
<1>3. QED BY <1>1, <1>2 DEF Less

LEMMA ReplaceLess ==
  ASSUME NEW s \in Seq(Byte), NEW k \in DOMAIN s
  PROVE  Less(ReplaceAt(s, k, Junk), s)
<1> DEFINE r == [s EXCEPT ![k] = Junk]
<1>1. Len(s) \in Nat /\ DOMAIN s = 1..Len(s) OBVIOUS
<1>2. r \in Seq(Byte) /\ Len(r) = Len(s) BY JunkIsByte
<1>3. \A j \in 1..Len(s) : r[j] = (IF j = k THEN Junk ELSE s[j]) BY <1>1
<1>4. Junk[1] = "text" BY DEF Junk
<1>5. Less(r, s)
  <2> HIDE DEF r
  <2>1. QED BY <1>1, <1>2, <1>3, <1>4 DEF Less
<1>6. QED BY <1>5 DEF ReplaceAt

LEMMA RemoveLess ==
  ASSUME NEW s \in Seq(Byte), NEW k \in DOMAIN s
  PROVE  Less(RemoveAt(s, k), s)
<1> DEFINE a == SubSeq(s, 1, k - 1)
           b == SubSeq(s, k + 1, Len(s))
<1>1. Len(s) \in Nat /\ k \in 1..Len(s) OBVIOUS
<1>2. /\ a \in Seq(Byte) /\ Len(a) = k - 1
      /\ \A j \in 1..(k - 1) : a[j] = s[j]
  BY <1>1
<1>3. /\ b \in Seq(Byte) /\ Len(b) = Len(s) - k
      /\ \A j \in 1..(Len(s) - k) : b[j] = s[k + j]
  BY <1>1
<1>4. Less(a \o b, s)
  <2> HIDE DEF a, b
  <2>1. a \o b \in Seq(Byte) /\ Len(a \o b) = Len(s) - 1 BY <1>1, <1>2, <1>3
  <2>2. ASSUME NEW j \in 1..(Len(s) - 1)
        PROVE  (a \o b)[j] = (IF j < k THEN s[j] ELSE s[j + 1])
    <3>1. CASE j < k BY <1>1, <1>2, <1>3, <3>1
    <3>2. CASE ~(j < k)
      <4>6. k \in Int /\ j \in Int /\ j >= k BY <1>1, <3>2
      <4>5. j - (k - 1) \in 1..Len(b) /\ Len(a) + (j - (k - 1)) = j
        <5>1. Len(s) \in Int /\ j <= Len(s) - 1 BY <1>1
        <5>2. k \in Int /\ j \in Int /\ j >= k BY <1>1, <3>2
        <5>3. Len(a) = k - 1 /\ Len(b) = Len(s) - k BY <1>2, <1>3
        <5> HIDE DEF a, b
        <5>4. j - (k - 1) \in 1..(Len(s) - k) /\ (k - 1) + (j - (k - 1)) = j BY <5>1, <5>2
        <5>5. QED BY <5>3, <5>4
      <4>1. (a \o b)[j] = b[j - (k - 1)]
        <5>1. \A m \in 1..Len(b) : (a \o b)[Len(a) + m] = b[m] BY <1>2, <1>3, ConcatBytes
        <5>2. QED BY <4>5, <5>1
      <4>2. b[j - (k - 1)] = s[k + (j - (k - 1))] BY <1>3, <4>5
      <4>3. k + (j - (k - 1)) = j + 1 BY <1>1
      <4>4. QED BY <1>1, <3>2, <4>1, <4>2, <4>3, <4>6
    <3>3. QED BY <3>1, <3>2
  <2>3. \A j \in 1..(Len(s) - 1) : j \in 1..Len(s) /\ j + 1 \in 1..Len(s) /\ j <= j + 1
    BY <1>1
  <2>4. QED BY <1>1, <2>1, <2>2, <2>3 DEF Less
<1>5. QED BY <1>4 DEF RemoveAt

-----------------------------------------------------------------------------
(* Words.                                                                  *)

LEMMA WordsAreWords ==
  /\ "other" \notin Words /\ "text" \notin Words /\ "rank" \notin Words
  /\ "size" \notin Words /\ "code" \notin Words
  /\ \A v \in HostWords : v \in Words /\ v \notin PiWords \cup Lengths
  /\ PiWords \cup Lengths \subseteq Words
BY DEF Words, PiWords, HostWords, Lengths

LEMMA StartsWith ==
  ASSUME NEW s \in Seq(Byte), NEW w \in Words, NEW n \in 0..Len(s)
  PROVE  IsPrefix(Bytes(w), Drop(s, n))
           <=> n + 4 <= Len(s) /\ \A k \in 1..4 : s[n + k] = <<w, k>>
<1> DEFINE d == Drop(s, n)
           b == Bytes(w)
<1>1. Len(s) \in Nat /\ n \in Nat OBVIOUS
<1>2. d \in Seq(Byte) /\ Len(d) = Len(s) - n /\ \A k \in 1..(Len(s) - n) : d[k] = s[n + k]
  BY DropLess DEF Less
<1>3. b \in Seq(Byte) /\ Len(b) = 4 /\ \A k \in 1..4 : b[k] = <<w, k>>
  BY BytesOf
<1> HIDE DEF d, b
<1>4. SubSeq(b, 1, 4) \in Seq(Byte) /\ Len(SubSeq(b, 1, 4)) = 4
      /\ \A k \in 1..4 : SubSeq(b, 1, 4)[k] = <<w, k>>
  <2>1. SubSeq(b, 1, 4) \in Seq(Byte) /\ Len(SubSeq(b, 1, 4)) = 4
        /\ \A k \in 1..4 : SubSeq(b, 1, 4)[k] = b[k]
    <3>1. b \in Seq(Byte) /\ 4 \in 0..Len(b) BY <1>3
    <3>2. QED BY <3>1, PrefixOf
  <2>2. QED BY <1>3, <2>1
<1>5. ASSUME Len(d) >= 4
      PROVE  SubSeq(d, 1, 4) \in Seq(Byte) /\ Len(SubSeq(d, 1, 4)) = 4
             /\ \A k \in 1..4 : SubSeq(d, 1, 4)[k] = s[n + k]
  <2>1. SubSeq(d, 1, 4) \in Seq(Byte) /\ Len(SubSeq(d, 1, 4)) = 4
        /\ \A k \in 1..4 : SubSeq(d, 1, 4)[k] = d[k]
    BY <1>2, <1>5
  <2>2. \A k \in 1..4 : k \in 1..(Len(s) - n) BY <1>1, <1>2, <1>5
  <2>3. QED BY <2>1, <2>2, <1>2
<1>6. ASSUME Len(d) >= 4
      PROVE  SubSeq(b, 1, 4) = SubSeq(d, 1, 4) <=> \A k \in 1..4 : s[n + k] = <<w, k>>
  <2>1. ASSUME SubSeq(b, 1, 4) = SubSeq(d, 1, 4) PROVE \A k \in 1..4 : s[n + k] = <<w, k>>
    BY <1>4, <1>5, <1>6, <2>1
  <2>2. ASSUME \A k \in 1..4 : s[n + k] = <<w, k>> PROVE SubSeq(b, 1, 4) = SubSeq(d, 1, 4)
    <3> DEFINE x == SubSeq(b, 1, 4)
               y == SubSeq(d, 1, 4)
    <3>1. x \in Seq(Byte) /\ Len(x) = 4 /\ \A k \in 1..4 : x[k] = <<w, k>> BY <1>4
    <3>2. y \in Seq(Byte) /\ Len(y) = 4 /\ \A k \in 1..4 : y[k] = <<w, k>>
      BY <1>5, <1>6, <2>2
    <3> HIDE DEF x, y
    <3>3. x = y BY <3>1, <3>2, SeqEqual
    <3>4. QED BY <3>3 DEF x, y
  <2>3. QED BY <2>1, <2>2
<1>7. Len(d) >= 4 <=> n + 4 <= Len(s) BY <1>1, <1>2
<1>8. IsPrefix(b, d) <=> 4 <= Len(d) /\ SubSeq(b, 1, 4) = SubSeq(d, 1, 4)
  BY <1>3 DEF IsPrefix
<1>9. QED BY <1>6, <1>7, <1>8, <1>2 DEF b, d

\* What get32 finds: a word only if its four bytes are there.
LEMMA WordAtIs ==
  ASSUME NEW s \in Seq(Byte), NEW n \in 0..(Len(s) - 1)
  PROVE  /\ WordAt(s, n + 1) \in Words \cup {"other"}
         /\ WordAt(s, n + 1) # "other" =>
              n + 4 <= Len(s) /\ \A k \in 1..4 : s[n + k] = <<WordAt(s, n + 1), k>>
         /\ \A w \in Words :
              n + 4 <= Len(s) /\ (\A k \in 1..4 : s[n + k] = <<w, k>>) => WordAt(s, n + 1) = w
<1>1. Len(s) \in Nat /\ n \in 0..Len(s) /\ (n + 1) - 1 = n OBVIOUS
<1> DEFINE At(w) == n + 4 <= Len(s) /\ \A k \in 1..4 : s[n + k] = <<w, k>>
<1>2. \A w \in Words : IsPrefix(Bytes(w), Drop(s, n)) <=> At(w)
  BY <1>1, StartsWith
<1>3. \A w : At(w) => s[n + 1][1] = w
  <2>1. 1 \in 1..4 OBVIOUS
  <2>2. QED BY <2>1
<1>4. WordAt(s, n + 1) = IF \E w \in Words : At(w) THEN s[n + 1][1] ELSE "other"
  <2> HIDE DEF At
  <2>1. QED BY <1>1, <1>2 DEF WordAt
<1>5. \A w \in Words : At(w) => WordAt(s, n + 1) = w
  <2> HIDE DEF At
  <2>1. QED BY <1>3, <1>4
<1>6. WordAt(s, n + 1) \in Words \cup {"other"} /\ (WordAt(s, n + 1) # "other" => At(WordAt(s, n + 1)))
  <2> HIDE DEF At
  <2>1. QED BY <1>3, <1>4, WordsAreWords
<1>7. QED BY <1>5, <1>6

LEMMA WordThere ==
  ASSUME NEW s \in Seq(Byte), NEW n \in 0..(Len(s) - 1), WordAt(s, n + 1) \in Words
  PROVE  Has(s, WordAt(s, n + 1)) /\ s[n + 1] = <<WordAt(s, n + 1), 1>> /\ n + 4 <= Len(s)
<1>1. WordAt(s, n + 1) # "other" BY WordsAreWords
<1>2. n + 4 <= Len(s) /\ \A k \in 1..4 : s[n + k] = <<WordAt(s, n + 1), k>>
  BY <1>1, WordAtIs
<1>3. n + 1 \in 1..Len(s) /\ 1 \in 1..4 /\ DOMAIN s = 1..Len(s) OBVIOUS
<1>4. s[n + 1] = <<WordAt(s, n + 1), 1>> BY <1>2, <1>3
<1>5. s[n + 1][1] = WordAt(s, n + 1) BY <1>4
<1>6. QED BY <1>2, <1>3, <1>4, <1>5 DEF Has

-----------------------------------------------------------------------------
(* Code and the answer to GET_PROG_INFO.                                   *)

Info == Bytes("PUT_PROG_INFO") \o Bytes("ARMBASE") \o Bytes("NBYTES") \o Bytes("CRC")

LEMMA CodeOf ==
  ASSUME NEW i \in Nat
  PROVE  /\ Code(i) \in Seq(Byte) /\ Len(Code(i)) = Rest + 2 /\ Code(i) # <<>>
         /\ \A w \in Words : ~Has(Code(i), w)
<1> DEFINE h == <<<<"rank", i>>, <<"size", NPis>>>>
           r == [k \in 1..Rest |-> <<"code", k>>]
<1>1. Rest \in Nat /\ NPis \in Nat BY BootAssumption
<1>2. <<"rank", i>> \in Byte /\ <<"size", NPis>> \in Byte BY <1>1 DEF Byte
<1>3. h \in Seq(Byte) /\ Len(h) = 2 /\ h[1][1] = "rank" /\ h[2][1] = "size" BY <1>2
<1>4. \A k \in 1..Rest : <<"code", k>> \in Byte BY <1>1 DEF Byte
<1>5. r \in Seq(Byte) /\ Len(r) = Rest /\ \A k \in 1..Rest : r[k][1] = "code" BY <1>1, <1>4
<1> HIDE DEF h, r
<1>6. DOMAIN h = 1..2 /\ DOMAIN r = 1..Rest BY <1>3, <1>5
<1>7. \A w : Has(h, w) => w \in {"rank", "size"} BY <1>3, <1>6 DEF Has
<1>8. \A w : Has(r, w) => w = "code" BY <1>5, <1>6 DEF Has
<1>9. h \o r \in Seq(Byte) /\ Len(h \o r) = Rest + 2 /\ h \o r # <<>>
  <2>3. h \o r \in Seq(Byte) /\ Len(h \o r) = Len(h) + Len(r) BY <1>3, <1>5, ConcatBytes
  <2>1. h \o r \in Seq(Byte) /\ Len(h \o r) = Rest + 2 BY <1>1, <1>3, <1>5, <2>3
  <2>2. h \o r # <<>> BY <1>1, <2>1
  <2>4. QED BY <2>1, <2>2
<1>10. \A w : Has(h \o r, w) => w \in {"rank", "size", "code"}
  BY <1>3, <1>5, <1>7, <1>8, HasConcat
<1>11. Code(i) = h \o r BY DEF Code, h, r
<1>12. QED BY <1>9, <1>10, <1>11, WordsAreWords

LEMMA InfoOf ==
  /\ Info \in Seq(Byte) /\ Len(Info) = 16
  /\ \A w : Has(Info, w) => w \in {"PUT_PROG_INFO", "ARMBASE", "NBYTES", "CRC"}
  /\ \A k \in 1..4 : /\ Info[k] = <<"PUT_PROG_INFO", k>>
                     /\ Info[4 + k] = <<"ARMBASE", k>>
                     /\ Info[8 + k] = <<"NBYTES", k>>
                     /\ Info[12 + k] = <<"CRC", k>>
<1> DEFINE a == Bytes("PUT_PROG_INFO")
           b == Bytes("ARMBASE")
           c == Bytes("NBYTES")
           d == Bytes("CRC")
<1>1. {"PUT_PROG_INFO", "ARMBASE", "NBYTES", "CRC"} \subseteq Words BY DEF Words, HostWords
<1>2. /\ a \in Seq(Byte) /\ Len(a) = 4 /\ \A k \in 1..4 : a[k] = <<"PUT_PROG_INFO", k>>
      /\ \A v : Has(a, v) <=> v = "PUT_PROG_INFO"
  BY <1>1, BytesOf
<1>3. /\ b \in Seq(Byte) /\ Len(b) = 4 /\ \A k \in 1..4 : b[k] = <<"ARMBASE", k>>
      /\ \A v : Has(b, v) <=> v = "ARMBASE"
  BY <1>1, BytesOf
<1>4. /\ c \in Seq(Byte) /\ Len(c) = 4 /\ \A k \in 1..4 : c[k] = <<"NBYTES", k>>
      /\ \A v : Has(c, v) <=> v = "NBYTES"
  BY <1>1, BytesOf
<1>5. /\ d \in Seq(Byte) /\ Len(d) = 4 /\ \A k \in 1..4 : d[k] = <<"CRC", k>>
      /\ \A v : Has(d, v) <=> v = "CRC"
  BY <1>1, BytesOf
<1> HIDE DEF a, b, c, d
<1>6. LET z == Cat(Cat(Cat(a, b), c), d) IN
      /\ z \in Seq(Byte) /\ Len(z) = 16
      /\ \A k \in 1..4 : z[k] = a[k] /\ z[4 + k] = b[k]
      /\ \A k \in 1..4 : z[8 + k] = c[k] /\ z[12 + k] = d[k]
  BY <1>2, <1>3, <1>4, <1>5, FourOf, SMTT(30)
<1>7. a \o b \in Seq(Byte) /\ (a \o b) \o c \in Seq(Byte) BY <1>2, <1>3, <1>4
<1>9. Info = Cat(Cat(Cat(a, b), c), d) /\ Info = ((a \o b) \o c) \o d
  BY DEF Info, Cat, a, b, c, d
<1>10. \A w : Has(a \o b, w) => w \in {"PUT_PROG_INFO", "ARMBASE"}
  BY <1>2, <1>3, HasConcat
<1>11. \A w : Has((a \o b) \o c, w) => w \in {"PUT_PROG_INFO", "ARMBASE", "NBYTES"}
  BY <1>4, <1>7, <1>10, HasConcat
<1>12. \A w : Has(((a \o b) \o c) \o d, w) => w \in {"PUT_PROG_INFO", "ARMBASE", "NBYTES", "CRC"}
  BY <1>5, <1>7, <1>11, HasConcat
<1> DEFINE z == Cat(Cat(Cat(a, b), c), d)
<1>13. /\ z \in Seq(Byte) /\ Len(z) = 16
       /\ \A k \in 1..4 : z[k] = a[k] /\ z[4 + k] = b[k]
       /\ \A k \in 1..4 : z[8 + k] = c[k] /\ z[12 + k] = d[k]
  BY <1>6
<1>14. Info = z BY <1>9
<1> HIDE DEF z
<1>15. \A w : Has(Info, w) => w \in {"PUT_PROG_INFO", "ARMBASE", "NBYTES", "CRC"}
  BY <1>9, <1>12
<1>16. QED BY <1>2, <1>3, <1>4, <1>5, <1>13, <1>14, <1>15

-----------------------------------------------------------------------------
(* The invariant.                                                          *)

\* The Pi has read PUT_PROG_INFO and not yet loaded the program.
Past == {"info", "put", "code"}
PiStates == {"wait", "op", "reboot", "run"} \cup Past
HostStates ==
    {"open", "drain", "discard", "printing", "info", "crc", "success", "echo", "died"}
\* my-install has not asked Pi i for anything.
Ahead(i) == i > cur \/ (i = cur /\ host \in {"open", "drain", "discard"})
\* PUT_PROG_INFO is at the front, or gone.
Early(s) == \A k \in DOMAIN s : s[k][1] = "PUT_PROG_INFO" => k <= 4
Bound == IF Rest > 10 THEN Rest + 6 ELSE 16

Types ==
    /\ cur \in 0..NPis /\ host \in HostStates
    /\ toHost \in Seq(Byte) /\ toPi \in Seq(Byte)
    /\ pi \in [Pis -> PiStates]
    /\ addr \in [Pis -> Places] /\ nbytes \in [Pis -> 0..(Rest + 3)]
    /\ cksum \in [Pis -> Words \cup {"other"}]
    /\ mem \in [Pis -> Seq(Byte)] /\ loaded \in [Pis -> Seq(Byte)]
    /\ faults \in 0..MaxFaults
    /\ \A i \in Pis : pi[i] = "code" => Len(mem[i]) <= nbytes[i]

\* The Pis behind cur have been loaded, those ahead wait.
Loop ==
    /\ host \in {"drain", "discard", "printing", "info", "crc", "success"} => cur < NPis
    /\ host = "echo" => cur = NPis
    /\ \A i \in Pis : i < cur => loaded[i] = Code(i) /\ pi[i] \notin Past
    /\ \A i \in Pis : Ahead(i) => loaded[i] = <<>> /\ pi[i] \in {"wait", "reboot"}

\* One message at a time is on its way to the Pi.
ToPi ==
    /\ \A w \in PiWords \cup Lengths : ~Has(toPi, w)
    /\ host \in {"drain", "discard"} => toPi = <<>> /\ ~Has(toHost, "CRC")
    /\ host \in {"info", "crc"} => Len(toPi) <= 16 /\ ~Has(toPi, "PUT_CODE")
    /\ host \in {"info", "crc"} /\ Has(toHost, "CRC") => toPi = <<>>
    /\ Early(toPi)
    /\ Len(toPi) <= Bound

\* Pi cur has sent the checksum it was told.
Answered == Has(toHost, "CRC") \/ host = "success" \/ Has(toPi, "PUT_CODE")

\* What Pi cur has done with what it was sent.
Exchange ==
    cur < NPis /\ host # "open" =>
        /\ Answered => /\ pi[cur] # "info" /\ ~Has(toPi, "PUT_PROG_INFO")
                       /\ pi[cur] \in {"put", "code"} => cksum[cur] = "CRC"
        /\ pi[cur] \in Past => ~Has(toPi, "PUT_PROG_INFO")
        /\ pi[cur] = "info" /\ host \in {"info", "crc"} => Len(toPi) <= 12
        /\ pi[cur] = "code" => cksum[cur] = "CRC" /\ host \in {"success", "printing", "died"}
        /\ Has(toHost, "BOOT_SUCCESS") => loaded[cur] # <<>>
        /\ loaded[cur] # <<>> =>
             /\ loaded[cur] = Code(cur) /\ pi[cur] \notin Past
             /\ ~Has(toPi, "PUT_PROG_INFO") /\ host \in {"success", "printing", "died"}

IInv == Types /\ Loop /\ ToPi /\ Exchange

LEMMA Constants ==
  /\ NPis \in 1..4 /\ Rest \in Nat /\ MaxFaults \in Nat
  /\ Bound \in Nat /\ 16 <= Bound /\ Rest + 6 <= Bound
  /\ \A i \in Pis : i \in Nat /\ i < NPis
BY BootAssumption DEF Bound, Pis

LEMMA LessEarly ==
  ASSUME NEW s, NEW t \in Seq(Byte), Less(s, t), Early(t)
  PROVE  Early(s)
<1>1. s \in Seq(Byte) /\ DOMAIN s = 1..Len(s) /\ DOMAIN t = 1..Len(t) BY DEF Less
<1>2. ASSUME NEW k \in 1..Len(s), s[k][1] = "PUT_PROG_INFO" PROVE k <= 4
  <2>1. PICK j \in 1..Len(t) : k <= j /\ s[k] = t[j] BY <1>2 DEF Less
  <2>2. j <= 4 BY <1>1, <1>2, <2>1 DEF Early
  <2>3. QED BY <1>1, <2>1, <2>2
<1>3. QED BY <1>1, <1>2 DEF Early

LEMMA NotText == "text" \notin {"CRC", "BOOT_SUCCESS", "PUT_PROG_INFO", "PUT_CODE"}
                /\ "text" \notin PiWords \cup Lengths
BY DEF PiWords, Lengths

\* What getting less does to the predicates of the invariant.
LEMMA LessLine ==
  ASSUME NEW s, NEW t \in Seq(Byte), Less(s, t)
  PROVE  /\ s \in Seq(Byte) /\ Len(s) \in Nat /\ Len(t) \in Nat /\ Len(s) <= Len(t)
         /\ Has(s, "CRC") => Has(t, "CRC")
         /\ Has(s, "BOOT_SUCCESS") => Has(t, "BOOT_SUCCESS")
         /\ Has(s, "PUT_PROG_INFO") => Has(t, "PUT_PROG_INFO")
         /\ Has(s, "PUT_CODE") => Has(t, "PUT_CODE")
         /\ \A w \in PiWords \cup Lengths : Has(s, w) => Has(t, w)
         /\ Early(t) => Early(s)
         /\ t = <<>> => s = <<>>
<1>1. s \in Seq(Byte) /\ Len(s) \in Nat /\ Len(t) \in Nat /\ Len(s) <= Len(t) BY DEF Less
<1>2. QED BY <1>1, LessHas, LessEarly, LessEmpty, NotText

-----------------------------------------------------------------------------
(* Steps in which bytes are only read, lost or garbled.                    *)

Shrinks ==
    /\ Less(toHost', toHost) /\ Less(toPi', toPi) /\ faults' \in 0..MaxFaults
    /\ cur' = cur /\ pi' = pi /\ addr' = addr /\ nbytes' = nbytes /\ cksum' = cksum
    /\ mem' = mem /\ loaded' = loaded
    /\ \/ host' = host
       \/ host \notin {"open", "echo", "died"} /\ host' \in {"died", "printing"}
       \/ host \in {"drain", "discard"} /\ host' \in {"drain", "discard"}
       \/ host = "info" /\ host' = "crc"

LEMMA ShrinksKeeps == ASSUME IInv, Shrinks PROVE IInv'
<1>1. /\ cur' = cur /\ pi' = pi /\ addr' = addr /\ nbytes' = nbytes /\ cksum' = cksum
      /\ mem' = mem /\ loaded' = loaded /\ faults' \in 0..MaxFaults
      /\ host \in HostStates
      /\ \/ host' = host
         \/ host \notin {"open", "echo", "died"} /\ host' \in {"died", "printing"}
         \/ host \in {"drain", "discard"} /\ host' \in {"drain", "discard"}
         \/ host = "info" /\ host' = "crc"
  BY DEF Shrinks, IInv, Types
<1>2. /\ toHost' \in Seq(Byte)
      /\ Has(toHost', "CRC") => Has(toHost, "CRC")
      /\ Has(toHost', "BOOT_SUCCESS") => Has(toHost, "BOOT_SUCCESS")
  BY LessLine DEF Shrinks, IInv, Types
<1>3. /\ toPi' \in Seq(Byte) /\ Len(toPi') \in Nat /\ Len(toPi) \in Nat /\ Len(toPi') <= Len(toPi)
      /\ Has(toPi', "PUT_PROG_INFO") => Has(toPi, "PUT_PROG_INFO")
      /\ Has(toPi', "PUT_CODE") => Has(toPi, "PUT_CODE")
      /\ \A w \in PiWords \cup Lengths : Has(toPi', w) => Has(toPi, w)
      /\ Early(toPi) => Early(toPi')
      /\ toPi = <<>> => toPi' = <<>>
  BY LessLine DEF Shrinks, IInv, Types
<1>4. Types' BY <1>1, <1>2, <1>3 DEF Types, HostStates, IInv
<1>5. Loop'
  <2>1. \A i \in Pis : Ahead(i)' => Ahead(i) BY <1>1 DEF Ahead
  <2>2. QED BY <1>1, <2>1 DEF Loop, IInv, HostStates
<1>6. ToPi'
  <2>1. Bound \in Nat BY Constants
  <2>2. QED BY <1>1, <1>2, <1>3, <2>1 DEF ToPi, IInv
<1>7. Exchange'
  <2>1. SUFFICES ASSUME cur < NPis, host' # "open" PROVE Exchange' BY <1>1 DEF Exchange
  <2>2. host # "open" BY <1>1, <2>1
  <2>3. Answered' => Answered BY <1>1, <1>2, <1>3 DEF Answered
  <2>4. QED BY <1>1, <1>2, <1>3, <2>1, <2>2, <2>3 DEF Exchange, IInv
<1>8. QED BY <1>4, <1>5, <1>6, <1>7 DEF IInv

-----------------------------------------------------------------------------
(* Steps of a Pi that is, or gets, out of the exchange.                    *)

Drops(i) ==
    /\ Less(toPi', toPi) /\ toHost' \in Seq(Byte) /\ faults' \in 0..MaxFaults
    /\ Has(toHost', "CRC") => Has(toHost, "CRC")
    /\ Has(toHost', "BOOT_SUCCESS") => Has(toHost, "BOOT_SUCCESS")
    /\ cur' = cur /\ host' = host /\ addr' \in [Pis -> Places] /\ loaded' = loaded
    /\ \E q \in {"wait", "op", "reboot"} : pi' = [pi EXCEPT ![i] = q] /\ (q = "op" => ~Ahead(i))
    /\ nbytes' = nbytes \/ \E n \in 0..(Rest + 3) : nbytes' = [nbytes EXCEPT ![i] = n]
    /\ cksum' = cksum \/ \E c \in Words \cup {"other"} : cksum' = [cksum EXCEPT ![i] = c]
    /\ mem' = mem \/ mem' = [mem EXCEPT ![i] = <<>>]

LEMMA DropsKeeps == ASSUME IInv, NEW i \in Pis, Drops(i) PROVE IInv'
<1>1. /\ cur' = cur /\ host' = host /\ loaded' = loaded /\ faults' \in 0..MaxFaults
      /\ host \in HostStates
  BY DEF Drops, IInv, Types
<1>2. /\ toHost' \in Seq(Byte)
      /\ Has(toHost', "CRC") => Has(toHost, "CRC")
      /\ Has(toHost', "BOOT_SUCCESS") => Has(toHost, "BOOT_SUCCESS")
  BY DEF Drops
<1>3. /\ toPi' \in Seq(Byte) /\ Len(toPi') \in Nat /\ Len(toPi) \in Nat /\ Len(toPi') <= Len(toPi)
      /\ Has(toPi', "PUT_PROG_INFO") => Has(toPi, "PUT_PROG_INFO")
      /\ Has(toPi', "PUT_CODE") => Has(toPi, "PUT_CODE")
      /\ \A w \in PiWords \cup Lengths : Has(toPi', w) => Has(toPi, w)
      /\ Early(toPi) => Early(toPi')
      /\ toPi = <<>> => toPi' = <<>>
  BY LessLine DEF Drops, IInv, Types
<1>4. PICK q \in {"wait", "op", "reboot"} :
        pi' = [pi EXCEPT ![i] = q] /\ (q = "op" => ~Ahead(i))
  BY DEF Drops
<1>5. /\ pi' \in [Pis -> PiStates] /\ pi'[i] = q
      /\ \A j \in Pis : j # i => pi'[j] = pi[j]
      /\ pi'[i] \in {"wait", "op", "reboot"} /\ pi'[i] \notin Past
  BY <1>4 DEF IInv, Types, PiStates, Past
<1>6. /\ nbytes' \in [Pis -> 0..(Rest + 3)] /\ \A j \in Pis : j # i => nbytes'[j] = nbytes[j]
  <2>1. nbytes \in [Pis -> 0..(Rest + 3)] BY DEF IInv, Types
  <2>2. nbytes' = nbytes \/ \E n \in 0..(Rest + 3) : nbytes' = [nbytes EXCEPT ![i] = n]
    BY DEF Drops
  <2>3. QED BY <2>1, <2>2, Zenon
<1>7. /\ cksum' \in [Pis -> Words \cup {"other"}] /\ \A j \in Pis : j # i => cksum'[j] = cksum[j]
  <2>1. cksum \in [Pis -> Words \cup {"other"}] BY DEF IInv, Types
  <2>2. \/ cksum' = cksum
        \/ \E c \in Words \cup {"other"} : cksum' = [cksum EXCEPT ![i] = c]
    BY DEF Drops
  <2>3. QED BY <2>1, <2>2, Zenon
<1>8. /\ mem' \in [Pis -> Seq(Byte)] /\ \A j \in Pis : j # i => mem'[j] = mem[j]
  <2>1. mem \in [Pis -> Seq(Byte)] BY DEF IInv, Types
  <2>2. <<>> \in Seq(Byte) OBVIOUS
  <2>3. mem' = mem \/ mem' = [mem EXCEPT ![i] = <<>>] BY DEF Drops
  <2>4. QED BY <2>1, <2>2, <2>3
<1>9. Types'
  <2>1. \A j \in Pis : pi'[j] = "code" => Len(mem'[j]) <= nbytes'[j]
    BY <1>5, <1>6, <1>8 DEF IInv, Types, Past
  <2>2. addr' \in [Pis -> Places] BY DEF Drops
  <2>3. QED BY <1>1, <1>2, <1>3, <1>5, <1>6, <1>7, <1>8, <2>1, <2>2 DEF Types, IInv
<1>10. Loop'
  <2>1. \A j \in Pis : Ahead(j)' => Ahead(j) BY <1>1 DEF Ahead
  <2>2. Ahead(i) => pi'[i] \in {"wait", "reboot"} BY <1>4, <1>5
  <2>3. QED BY <1>1, <1>5, <2>1, <2>2 DEF Loop, IInv
<1>11. ToPi'
  <2>1. Bound \in Nat BY Constants
  <2>2. QED BY <1>1, <1>2, <1>3, <2>1 DEF ToPi, IInv
<1>12. Exchange'
  <2>1. SUFFICES ASSUME cur < NPis, host # "open" PROVE Exchange' BY <1>1 DEF Exchange
  <2>2. Answered' => Answered BY <1>1, <1>2, <1>3 DEF Answered
  <2>3. cur \in Pis BY <2>1, Constants DEF IInv, Types, Pis
  <2>4. pi'[cur] \in Past => pi'[cur] = pi[cur] /\ cksum'[cur] = cksum[cur]
    BY <1>5, <1>7, <2>3
  <2>5. "info" \in Past /\ "put" \in Past /\ "code" \in Past BY DEF Past
  <2>6. QED BY <1>1, <1>2, <1>3, <2>1, <2>2, <2>4, <2>5 DEF Exchange, IInv
<1>13. QED BY <1>9, <1>10, <1>11, <1>12 DEF IInv

-----------------------------------------------------------------------------
(* Where an action can happen.                                             *)

LEMMA ConnectedIs ==
  ASSUME IInv, NEW i \in Pis, Connected(i)
  PROVE  /\ i = cur /\ cur < NPis
         /\ host \in {"drain", "discard", "printing", "info", "crc", "success"}
BY Constants DEF IInv, Types, HostStates, Connected

LEMMA PastIs ==
  ASSUME IInv, NEW i \in Pis, pi[i] \in Past
  PROVE  /\ i = cur /\ cur < NPis /\ loaded[i] = <<>>
         /\ host \in {"printing", "info", "crc", "success", "died"}
<1>1. i = cur /\ host \notin {"open", "drain", "discard"}
  <2>1. ~Ahead(i) /\ ~(i < cur)
    BY DEF IInv, Loop, Past
  <2>2. i \in Nat /\ cur \in Nat BY Constants DEF IInv, Types
  <2>3. QED BY <2>1, <2>2 DEF Ahead
<1>2. cur < NPis BY <1>1, Constants
<1>3. host \in {"printing", "info", "crc", "success", "died"}
  BY <1>1, <1>2, Constants DEF IInv, Types, HostStates, Loop
<1>4. loaded[i] = <<>> BY <1>1, <1>2 DEF IInv, Exchange
<1>5. QED BY <1>1, <1>2, <1>3, <1>4

LEMMA FirstWord ==
  ASSUME NEW s \in Seq(Byte), s # <<>>
  PROVE  /\ WordAt(s, 1) \in Words \cup {"other"}
         /\ WordAt(s, 1) \in Words => Has(s, WordAt(s, 1))
<1>1. 0 \in 0..(Len(s) - 1) /\ 0 + 1 = 1 OBVIOUS
<1>2. QED BY <1>1, WordAtIs, WordThere

LEMMA NinthWord ==
  ASSUME NEW s \in Seq(Byte), Len(s) >= 12
  PROVE  /\ WordAt(s, 9) \in Words \cup {"other"}
         /\ WordAt(s, 9) \in Words => Has(s, WordAt(s, 9))
<1>1. 8 \in 0..(Len(s) - 1) /\ 8 + 1 = 9 OBVIOUS
<1>2. QED BY <1>1, WordAtIs, WordThere

LEMMA NotEmpty ==
  ASSUME NEW s \in Seq(Byte)
  PROVE  Len(s) \in Nat /\ (Len(s) >= 4 => s # <<>>) /\ (s # <<>> => Len(s) >= 1)
OBVIOUS

LEMMA SomeWords ==
  {"PUT_PROG_INFO", "ARMBASE", "NBYTES", "CRC", "PUT_CODE", "GET_PROG_INFO", "GET_CODE",
   "BOOT_SUCCESS", "BOOT_ERROR", "PRINT_STRING", "GREETING", "COMPLAINT"} \subseteq Words
BY DEF Words, PiWords, HostWords, Lengths

-----------------------------------------------------------------------------
(* The steps of a Pi in the exchange.                                      *)

LEMMA PutProgInfoKeeps ==
  ASSUME IInv, NEW i \in Pis, Connected(i), pi[i] = "op", Len(toPi) >= 4,
         toPi' = Drop(toPi, 4), WordAt(toPi, 1) = "PUT_PROG_INFO",
         pi' = [pi EXCEPT ![i] = "info"], toHost' = toHost,
         cur' = cur, host' = host, addr' = addr, nbytes' = nbytes, cksum' = cksum, mem' = mem,
         loaded' = loaded, faults' = faults
  PROVE  IInv'
<1>1. i = cur /\ cur < NPis /\ host \in {"drain", "discard", "printing", "info", "crc", "success"}
  BY ConnectedIs
<1>2. toPi \in Seq(Byte) BY DEF IInv, Types
<1>3. Has(toPi, "PUT_PROG_INFO") BY <1>2, NotEmpty, FirstWord, SomeWords
<1>4. 4 \in 0..Len(toPi) BY <1>2
<1>5. /\ Less(toPi', toPi) /\ Len(toPi') = Len(toPi) - 4
      /\ \A k \in 1..(Len(toPi) - 4) : toPi'[k] = toPi[4 + k]
  BY <1>2, <1>4, DropLess
<1>6. /\ toPi' \in Seq(Byte) /\ Len(toPi') \in Nat /\ Len(toPi) \in Nat
      /\ Has(toPi', "PUT_CODE") => Has(toPi, "PUT_CODE")
      /\ \A w \in PiWords \cup Lengths : Has(toPi', w) => Has(toPi, w)
      /\ Early(toPi) => Early(toPi')
      /\ toPi = <<>> => toPi' = <<>>
  BY <1>2, <1>5, LessLine
<1>7. ~Has(toPi', "PUT_PROG_INFO")
  <2>1. DOMAIN toPi' = 1..(Len(toPi) - 4) /\ DOMAIN toPi = 1..Len(toPi) BY <1>2, <1>5, <1>6
  <2>2. ASSUME NEW k \in 1..(Len(toPi) - 4) PROVE toPi'[k][1] # "PUT_PROG_INFO"
    <3>1. 4 + k \in DOMAIN toPi /\ ~(4 + k <= 4) BY <1>6, <2>1
    <3>2. toPi[4 + k][1] # "PUT_PROG_INFO" BY <3>1 DEF IInv, ToPi, Early
    <3>3. QED BY <1>5, <3>2
  <2>3. QED BY <2>1, <2>2 DEF Has
<1>8. /\ pi' \in [Pis -> PiStates] /\ pi'[i] = "info"
      /\ \A j \in Pis : j # i => pi'[j] = pi[j]
  BY DEF IInv, Types, PiStates, Past
<1>9. host \notin {"drain", "discard"} BY <1>3, HasNothing DEF IInv, ToPi
<1>10. Types' BY <1>6, <1>8 DEF IInv, Types
<1>11. Loop'
  <2>1. \A j \in Pis : Ahead(j)' => Ahead(j) BY DEF Ahead
  <2>2. ~Ahead(i) /\ ~(i < cur) BY <1>1, <1>9, Constants DEF Ahead
  <2>3. QED BY <1>8, <2>1, <2>2 DEF Loop, IInv, Ahead
<1>12. ToPi'
  <2>1. Bound \in Nat BY Constants
  <2>2. QED BY <1>5, <1>6, <2>1 DEF ToPi, IInv
<1>13. Exchange'
  <2>1. ~Answered /\ loaded[cur] = <<>> BY <1>1, <1>3 DEF IInv, Exchange
  <2>2. ~Answered' BY <1>6, <2>1 DEF Answered
  <2>3. ~Has(toHost', "BOOT_SUCCESS") BY <1>1, <2>1 DEF IInv, Exchange
  <2>4. host \in {"info", "crc"} => Len(toPi') <= 12 BY <1>5, <1>6 DEF IInv, ToPi
  <2>5. QED BY <1>1, <1>7, <1>8, <2>1, <2>2, <2>3, <2>4 DEF Exchange
<1>14. QED BY <1>10, <1>11, <1>12, <1>13 DEF IInv

LEMMA TwelveLeft ==
  ASSUME NEW s \in Seq(Byte), Len(s) >= 12, Len(s) <= 12
  PROVE  Drop(s, 12) = <<>>
<1>1. PICK n \in Nat : n = Len(s) OBVIOUS
<1>2. n = 12
  <2>1. n >= 12 /\ n <= 12 BY <1>1
  <2>2. QED BY <2>1
<1>3. n \in 0..Len(s) BY <1>1
<1>4. Less(Drop(s, n), s) /\ Len(Drop(s, n)) = Len(s) - n BY <1>3, DropLess
<1>5. Drop(s, n) \in Seq(Byte) /\ Len(Drop(s, n)) = 0 BY <1>1, <1>4 DEF Less
<1>6. Drop(s, n) = <<>> BY <1>5
<1>7. QED BY <1>2, <1>6

LEMMA Asks ==
  ASSUME NEW s \in Seq(Byte), NEW c \in Words \cup {"other"}
  PROVE  LET r == s \o (Bytes("GET_CODE") \o Bytes(c)) IN
         r \in Seq(Byte) /\ \A v : Has(r, v) => Has(s, v) \/ v \in {"GET_CODE", c}
<1> DEFINE a == Bytes("GET_CODE")
           b == Bytes(c)
<1>1. /\ a \in Seq(Byte) /\ b \in Seq(Byte)
      /\ \A v : Has(a, v) => v = "GET_CODE"
      /\ \A v : Has(b, v) => v = c
  BY BytesOf, SomeWords
<1> HIDE DEF a, b
<1>2. Cat(a, b) \in Seq(Byte) /\ \A v : Has(Cat(a, b), v) => v \in {"GET_CODE", c}
  BY <1>1, HasCat
<1>3. /\ Cat(s, Cat(a, b)) \in Seq(Byte)
      /\ \A v : Has(Cat(s, Cat(a, b)), v) => Has(s, v) \/ v \in {"GET_CODE", c}
  BY <1>2, HasCat
<1>4. QED BY <1>3 DEF Cat, a, b

LEMMA InfoKeeps ==
  ASSUME IInv, NEW i \in Pis, Connected(i), pi[i] = "info", Len(toPi) >= 12,
         toPi' = Drop(toPi, 12), addr' \in [Pis -> Places], NEW n \in 0..(Rest + 3), nbytes' = [nbytes EXCEPT ![i] = n],
         cksum' = [cksum EXCEPT ![i] = WordAt(toPi, 9)],
         pi' = [pi EXCEPT ![i] = "put"],
         toHost' = toHost \o (Bytes("GET_CODE") \o Bytes(WordAt(toPi, 9))),
         cur' = cur, host' = host, mem' = mem, loaded' = loaded, faults' = faults
  PROVE  IInv'
<1> DEFINE c == WordAt(toPi, 9)
<1>1. i = cur /\ cur < NPis /\ loaded[i] = <<>> /\ host # "open" BY PastIs DEF Past
<1>2. toPi \in Seq(Byte) /\ toHost \in Seq(Byte) BY DEF IInv, Types
<1>3. c \in Words \cup {"other"} /\ (c \in Words => Has(toPi, c)) BY <1>2, NinthWord
<1>4. c # "BOOT_SUCCESS"
  <2>1. \A w \in PiWords : ~Has(toPi, w) BY DEF IInv, ToPi
  <2>2. "BOOT_SUCCESS" \in PiWords BY DEF PiWords
  <2>3. QED BY <1>3, <2>1, <2>2, SomeWords
<1>5. /\ toHost' \in Seq(Byte)
      /\ Has(toHost', "CRC") => Has(toHost, "CRC") \/ c = "CRC"
      /\ Has(toHost', "BOOT_SUCCESS") => Has(toHost, "BOOT_SUCCESS")
  <2>1. /\ toHost' \in Seq(Byte)
        /\ \A v : Has(toHost', v) => Has(toHost, v) \/ v \in {"GET_CODE", c}
    BY <1>2, <1>3, Asks
  <2>2. QED BY <1>4, <2>1
<1> HIDE DEF c
<1>6. ~Answered /\ host \in {"printing", "info", "crc"}
  <2>1. ~Answered BY <1>1 DEF IInv, Exchange
  <2>2. host \in {"printing", "info", "crc", "success", "died"} /\ host # "died"
    BY PastIs DEF Past, Connected
  <2>3. QED BY <2>1, <2>2 DEF Answered
<1>7. host # "printing" => toPi' = <<>>
  <2>1. SUFFICES ASSUME host # "printing" PROVE toPi' = <<>> OBVIOUS
  <2>2. Len(toPi) <= 12 BY <1>1, <1>6, <2>1 DEF IInv, Exchange
  <2>3. QED BY <1>2, <2>2, TwelveLeft
<1>16. 12 \in 0..Len(toPi) BY <1>2
<1>17. Less(toPi', toPi) BY <1>2, <1>16, DropLess
<1>18. /\ toPi' \in Seq(Byte) /\ Len(toPi') \in Nat /\ Len(toPi) \in Nat /\ Len(toPi') <= Len(toPi)
       /\ Has(toPi', "PUT_PROG_INFO") => Has(toPi, "PUT_PROG_INFO")
       /\ Has(toPi', "PUT_CODE") => Has(toPi, "PUT_CODE")
       /\ \A w \in PiWords \cup Lengths : Has(toPi', w) => Has(toPi, w)
       /\ Early(toPi) => Early(toPi')
  BY <1>2, <1>17, LessLine
<1>8. /\ pi' \in [Pis -> PiStates] /\ pi'[i] = "put"
      /\ \A j \in Pis : j # i => pi'[j] = pi[j]
  BY DEF IInv, Types, PiStates, Past
<1>9. /\ cksum' \in [Pis -> Words \cup {"other"}] /\ cksum'[i] = c
      /\ \A j \in Pis : j # i => cksum'[j] = cksum[j]
  BY <1>3 DEF c, IInv, Types
<1>10. /\ nbytes' \in [Pis -> 0..(Rest + 3)] /\ \A j \in Pis : j # i => nbytes'[j] = nbytes[j]
  BY DEF IInv, Types
<1>11. Types'
  <2>1. \A j \in Pis : pi'[j] = "code" => Len(mem'[j]) <= nbytes'[j]
    BY <1>8, <1>10 DEF IInv, Types
  <2>2. QED BY <1>5, <1>8, <1>9, <1>10, <1>18, <2>1 DEF IInv, Types
<1>12. Loop'
  <2>1. \A j \in Pis : Ahead(j)' => Ahead(j) BY DEF Ahead
  <2>2. ~Ahead(i) /\ ~(i < cur) BY <1>1, <1>6, Constants DEF Ahead
  <2>3. QED BY <1>8, <2>1, <2>2 DEF Loop, IInv, Ahead
<1>13. ToPi'
  <2>1. Bound \in Nat BY Constants
  <2>2. host \in {"info", "crc"} => Len(toPi') = 0 BY <1>7
  <2>3. QED BY <1>6, <1>7, <1>18, <2>1, <2>2, HasNothing DEF ToPi, IInv
<1>14. Exchange'
  <2>1. Answered' => c = "CRC" BY <1>5, <1>6, <1>18 DEF Answered
  <2>2. ~Has(toHost', "BOOT_SUCCESS") BY <1>1, <1>5, <1>6 DEF IInv, Exchange
  <2>3. ~Has(toPi', "PUT_PROG_INFO") BY <1>1, <1>18 DEF IInv, Exchange, Past
  <2>4. QED BY <1>1, <1>8, <1>9, <2>1, <2>2, <2>3 DEF Exchange
<1>15. QED BY <1>11, <1>12, <1>13, <1>14 DEF IInv

LEMMA PutCodeKeeps ==
  ASSUME IInv, NEW i \in Pis, Connected(i), pi[i] = "put", Len(toPi) >= 4,
         toPi' = Drop(toPi, 4), WordAt(toPi, 1) = "PUT_CODE",
         mem' = [mem EXCEPT ![i] = <<>>],
         pi' = [pi EXCEPT ![i] = "code"], toHost' = toHost,
         cur' = cur, host' = host, addr' = addr, nbytes' = nbytes, cksum' = cksum,
         loaded' = loaded, faults' = faults
  PROVE  IInv'
<1>1. i = cur /\ cur < NPis /\ loaded[i] = <<>> BY PastIs DEF Past
<1>2. toPi \in Seq(Byte) /\ toHost \in Seq(Byte) BY DEF IInv, Types
<1>3. Has(toPi, "PUT_CODE") BY <1>2, NotEmpty, FirstWord, SomeWords
<1>4. 4 \in 0..Len(toPi) BY <1>2
<1>5. Less(toPi', toPi) BY <1>2, <1>4, DropLess
<1>6. /\ toPi' \in Seq(Byte) /\ Len(toPi') \in Nat /\ Len(toPi) \in Nat /\ Len(toPi') <= Len(toPi)
      /\ Has(toPi', "PUT_PROG_INFO") => Has(toPi, "PUT_PROG_INFO")
      /\ \A w \in PiWords \cup Lengths : Has(toPi', w) => Has(toPi, w)
      /\ Early(toPi) => Early(toPi')
  BY <1>2, <1>5, LessLine
<1>7. host \in {"success", "printing"}
  <2>1. host \in {"drain", "discard", "printing", "info", "crc", "success"} BY ConnectedIs
  <2>2. QED BY <1>3, <2>1, HasNothing DEF IInv, ToPi
<1>8. /\ pi' \in [Pis -> PiStates] /\ pi'[i] = "code"
      /\ \A j \in Pis : j # i => pi'[j] = pi[j]
  BY DEF IInv, Types, PiStates, Past
<1>9. /\ mem' \in [Pis -> Seq(Byte)] /\ mem'[i] = <<>>
      /\ \A j \in Pis : j # i => mem'[j] = mem[j]
  BY DEF IInv, Types
<1>10. Types'
  <2>1. nbytes[i] \in Nat BY Constants DEF IInv, Types
  <2>2. \A j \in Pis : pi'[j] = "code" => Len(mem'[j]) <= nbytes'[j]
    BY <1>8, <1>9, <2>1 DEF IInv, Types
  <2>3. QED BY <1>6, <1>8, <1>9, <2>2 DEF IInv, Types
<1>11. Loop'
  <2>1. \A j \in Pis : Ahead(j)' => Ahead(j) BY DEF Ahead
  <2>2. ~Ahead(i) /\ ~(i < cur) BY <1>1, <1>7, Constants DEF Ahead
  <2>3. QED BY <1>8, <2>1, <2>2 DEF Loop, IInv, Ahead
<1>12. ToPi'
  <2>1. Bound \in Nat BY Constants
  <2>2. QED BY <1>6, <1>7, <2>1 DEF ToPi, IInv
<1>13. Exchange'
  <2>1. Answered BY <1>3 DEF Answered
  <2>2. cksum[cur] = "CRC" /\ ~Has(toPi, "PUT_PROG_INFO") /\ ~Has(toHost, "BOOT_SUCCESS")
    BY <1>1, <1>7, <2>1 DEF IInv, Exchange
  <2>3. QED BY <1>1, <1>6, <1>7, <1>8, <2>2 DEF Exchange
<1>14. QED BY <1>10, <1>11, <1>12, <1>13 DEF IInv

LEMMA CodeByteKeeps ==
  ASSUME IInv, NEW i \in Pis, Connected(i), pi[i] = "code", toPi # <<>>,
         Len(mem[i]) < nbytes[i],
         toPi' = Tail(toPi), mem' = [mem EXCEPT ![i] = Append(mem[i], Head(toPi))],
         pi' = pi, toHost' = toHost, cur' = cur, host' = host, addr' = addr, nbytes' = nbytes,
         cksum' = cksum, loaded' = loaded, faults' = faults
  PROVE  IInv'
<1>1. i = cur /\ cur < NPis /\ loaded[i] = <<>> BY PastIs DEF Past
<1>2. toPi \in Seq(Byte) /\ toHost \in Seq(Byte) BY DEF IInv, Types
<1>3. Less(toPi', toPi) /\ Head(toPi) = toPi[1] BY <1>2, TailLess
<1>4. /\ toPi' \in Seq(Byte) /\ Len(toPi') \in Nat /\ Len(toPi) \in Nat /\ Len(toPi') <= Len(toPi)
      /\ Has(toPi', "PUT_PROG_INFO") => Has(toPi, "PUT_PROG_INFO")
      /\ Has(toPi', "PUT_CODE") => Has(toPi, "PUT_CODE")
      /\ \A w \in PiWords \cup Lengths : Has(toPi', w) => Has(toPi, w)
      /\ Early(toPi) => Early(toPi')
      /\ toPi = <<>> => toPi' = <<>>
  BY <1>2, <1>3, LessLine
<1>5. mem[i] \in Seq(Byte) /\ Head(toPi) \in Byte BY <1>2 DEF IInv, Types
<1>6. Append(mem[i], Head(toPi)) \in Seq(Byte)
      /\ Len(Append(mem[i], Head(toPi))) = Len(mem[i]) + 1
  BY <1>5
<1>7. /\ mem' \in [Pis -> Seq(Byte)] /\ Len(mem'[i]) = Len(mem[i]) + 1
      /\ \A j \in Pis : j # i => mem'[j] = mem[j]
  BY <1>6 DEF IInv, Types
<1>8. Types'
  <2>1. nbytes[i] \in Nat /\ Len(mem[i]) \in Nat BY <1>5, Constants DEF IInv, Types
  <2>2. Len(mem'[i]) <= nbytes'[i] BY <1>7, <2>1
  <2>3. \A j \in Pis : pi'[j] = "code" => Len(mem'[j]) <= nbytes'[j]
    BY <1>7, <2>2 DEF IInv, Types
  <2>4. QED BY <1>4, <1>7, <2>3 DEF IInv, Types
<1>9. Loop'
  <2>1. \A j \in Pis : Ahead(j)' => Ahead(j) BY DEF Ahead
  <2>2. QED BY <2>1 DEF Loop, IInv
<1>10. ToPi'
  <2>1. Bound \in Nat BY Constants
  <2>2. QED BY <1>4, <2>1 DEF ToPi, IInv
<1>11. Exchange'
  <2>1. Answered' => Answered BY <1>4 DEF Answered
  <2>2. QED BY <1>1, <1>4, <2>1 DEF IInv, Exchange
<1>12. QED BY <1>8, <1>9, <1>10, <1>11 DEF IInv

\* The checksum that get_code compares with is the one of the program, so
\* what it starts is.
LEMMA SucceedIs ==
  ASSUME IInv, NEW i \in Pis, pi[i] = "code", Crc(i, mem[i]) = cksum[i]
  PROVE  mem[i] = Code(i)
<1>1. i = cur /\ cur < NPis /\ host # "open" BY PastIs DEF Past
<1>2. cksum[i] = "CRC" BY <1>1 DEF IInv, Exchange
<1>3. QED BY <1>2 DEF Crc

LEMMA SucceedKeeps ==
  ASSUME IInv, NEW i \in Pis, Succeed(i)
  PROVE  IInv'
<1>1. /\ pi[i] = "code"
      /\ \E q \in {"run", "reboot"} : pi' = [pi EXCEPT ![i] = q]
      /\ addr' = [addr EXCEPT ![i] = "zero"] /\ nbytes' = [nbytes EXCEPT ![i] = 0] /\ cksum' = [cksum EXCEPT ![i] = "other"]
      /\ mem' = [mem EXCEPT ![i] = <<>>] /\ loaded' = [loaded EXCEPT ![i] = mem[i]]
      /\ cur' = cur /\ host' = host /\ toPi' = toPi /\ faults' = faults
  BY DEF Succeed, Returns, Goes, Forgets, hostVars
<1>2. i = cur /\ cur < NPis /\ host \in {"printing", "info", "crc", "success", "died"} BY <1>1, PastIs DEF Past
<1>3. mem[i] = Code(i) BY <1>1, SucceedIs DEF Succeed, Returns
<1>4. i \in Nat BY Constants
<1>5. Code(i) \in Seq(Byte) /\ Code(i) # <<>> BY <1>4, CodeOf
<1>6. toPi \in Seq(Byte) /\ toHost \in Seq(Byte) BY DEF IInv, Types
<1>7. toHost' \in Seq(Byte) /\ (Has(toHost', "CRC") => Has(toHost, "CRC"))
  <2> DEFINE a == Bytes("PRINT_STRING")
             b == Bytes("GREETING")
             c == Text(LengthOf("GREETING"))
             d == Bytes("BOOT_SUCCESS")
             m == Cat(Cat(Cat(a, b), c), d)
  <2>1. LengthOf("GREETING") \in Nat BY DEF LengthOf
  <2>2. /\ a \in Seq(Byte) /\ b \in Seq(Byte) /\ c \in Seq(Byte) /\ d \in Seq(Byte)
        /\ ~Has(a, "CRC") /\ ~Has(b, "CRC") /\ ~Has(c, "CRC") /\ ~Has(d, "CRC")
    BY <2>1, BytesOf, TextOf, SomeWords
  <2>3. toHost' = toHost \/ toHost' = Cat(toHost, m) BY DEF Succeed, Sends, Cat
  <2> HIDE DEF a, b, c, d
  <2>4. Cat(a, b) \in Seq(Byte) /\ ~Has(Cat(a, b), "CRC") BY <2>2, HasCat
  <2>5. Cat(Cat(a, b), c) \in Seq(Byte) /\ ~Has(Cat(Cat(a, b), c), "CRC") BY <2>2, <2>4, HasCat
  <2>6. m \in Seq(Byte) /\ ~Has(m, "CRC") BY <2>2, <2>5, HasCat
  <2> HIDE DEF m
  <2>7. Cat(toHost, m) \in Seq(Byte) /\ (Has(Cat(toHost, m), "CRC") => Has(toHost, "CRC"))
    BY <1>6, <2>6, HasCat
  <2>8. QED BY <1>6, <2>3, <2>7
<1>8. /\ pi' \in [Pis -> PiStates] /\ pi'[i] \in {"run", "reboot"}
      /\ \A j \in Pis : j # i => pi'[j] = pi[j]
  BY <1>1 DEF IInv, Types, PiStates, Past
<1>9. /\ loaded' \in [Pis -> Seq(Byte)] /\ loaded'[i] = Code(i)
      /\ \A j \in Pis : j # i => loaded'[j] = loaded[j]
  BY <1>1, <1>3, <1>5 DEF IInv, Types
<1>10. Types'
  <2>1. nbytes' \in [Pis -> 0..(Rest + 3)] /\ \A j \in Pis : j # i => nbytes'[j] = nbytes[j]
    BY <1>1, Constants DEF IInv, Types
  <2>2. cksum' \in [Pis -> Words \cup {"other"}] BY <1>1 DEF IInv, Types
  <2>3. /\ mem' \in [Pis -> Seq(Byte)] /\ \A j \in Pis : j # i => mem'[j] = mem[j]
    BY <1>1 DEF IInv, Types
  <2>4. \A j \in Pis : pi'[j] = "code" => Len(mem'[j]) <= nbytes'[j]
    BY <1>8, <2>1, <2>3 DEF IInv, Types
  <2>5. addr' \in [Pis -> Places] BY <1>1 DEF IInv, Types, Places
  <2>6. QED BY <1>1, <1>7, <1>8, <1>9, <2>1, <2>2, <2>3, <2>4, <2>5 DEF IInv, Types
<1>11. Loop'
  <2>1. \A j \in Pis : Ahead(j)' => Ahead(j) BY <1>1 DEF Ahead
  <2>2. ~Ahead(i) /\ ~(i < cur) BY <1>2, <1>4 DEF Ahead
  <2>3. QED BY <1>1, <1>8, <1>9, <2>1, <2>2 DEF Loop, IInv, Ahead
<1>12. ToPi' BY <1>1, <1>7 DEF ToPi, IInv
<1>13. Exchange'
  <2>1. host \in {"success", "printing", "died"} /\ ~Has(toPi, "PUT_PROG_INFO")
    BY <1>1, <1>2 DEF IInv, Exchange, Past
  <2>2. pi'[cur] \notin Past /\ pi'[cur] \notin {"info", "put", "code"} BY <1>2, <1>8 DEF Past
  <2>3. loaded'[cur] = Code(cur) /\ loaded'[cur] # <<>> BY <1>2, <1>5, <1>9
  <2>4. QED BY <1>1, <2>1, <2>2, <2>3 DEF Exchange
<1>14. QED BY <1>10, <1>11, <1>12, <1>13 DEF IInv

-----------------------------------------------------------------------------
(* The steps of my-install.                                                *)

LEMMA GetOpIs ==
  ASSUME IInv, NEW op, GetOp(op)
  PROVE  /\ Less(toHost', toHost) /\ op \in Words \cup {"other"}
         /\ op \in Words => Has(toHost, op)
<1>1. toHost \in Seq(Byte) BY DEF IInv, Types
<1>2. Len(toHost) >= 4 /\ op = WordAt(toHost, 1) /\ toHost' = Drop(toHost, 4) BY DEF GetOp
<1>3. toHost # <<>> BY <1>1, <1>2, NotEmpty
<1>4. 4 \in 0..Len(toHost) BY <1>1, <1>2
<1>5. QED BY <1>1, <1>2, <1>3, <1>4, DropLess, FirstWord

LEMMA OpenKeeps == ASSUME IInv, Open PROVE IInv'
<1>1. /\ host = "open" /\ cur < NPis /\ host' = "drain" /\ toPi' = <<>>
      /\ cur' = cur /\ faults' = faults
      /\ pi' = pi /\ addr' = addr /\ nbytes' = nbytes /\ cksum' = cksum /\ mem' = mem
      /\ loaded' = loaded
  BY DEF Open, piVars, getVars, branchVars
<1>2. toHost' \in Seq(Byte) /\ ~Has(toHost', "CRC") /\ ~Has(toHost', "BOOT_SUCCESS")
  <2>1. PICK n \in 0..MaxJunk : toHost' = Text(n) BY DEF Open
  <2>2. n \in Nat BY BootAssumption
  <2>3. QED BY <2>1, <2>2, TextOf
<1>3. Types'
  <2>1. <<>> \in Seq(Byte) OBVIOUS
  <2>2. QED BY <1>1, <1>2, <2>1 DEF IInv, Types, HostStates
<1>4. cur \in Nat /\ cur \in Pis BY <1>1, Constants DEF IInv, Types, Pis
<1>5. \A j \in Pis : Ahead(j)' <=> Ahead(j) BY <1>1 DEF Ahead
<1>6. Loop' BY <1>1, <1>5 DEF IInv, Loop
<1>7. ToPi'
  <2>1. Bound \in Nat BY Constants
  <2>2. Early(<<>>) /\ Len(<<>>) = 0 BY DEF Early
  <2>3. QED BY <1>1, <1>2, <2>1, <2>2, HasNothing DEF ToPi
<1>8. Exchange'
  <2>1. Ahead(cur) BY <1>1 DEF Ahead
  <2>2. loaded[cur] = <<>> /\ pi[cur] \in {"wait", "reboot"}
    BY <1>4, <2>1 DEF IInv, Loop
  <2>3. ~Answered' BY <1>1, <1>2, HasNothing DEF Answered
  <2>4. QED BY <1>1, <1>2, <2>2, <2>3 DEF Exchange, Past
<1>9. QED BY <1>3, <1>6, <1>7, <1>8 DEF IInv

LEMMA EchoKeeps == ASSUME IInv, Echo PROVE IInv'
<1>1. /\ host = "open" /\ cur = NPis /\ host' = "echo" /\ toPi' = toPi /\ toHost' = toHost
      /\ cur' = cur /\ faults' = faults
      /\ pi' = pi /\ addr' = addr /\ nbytes' = nbytes /\ cksum' = cksum /\ mem' = mem
      /\ loaded' = loaded
  BY DEF Echo, piVars, getVars, branchVars
<1>2. Types' BY <1>1 DEF IInv, Types, HostStates
<1>3. \A j \in Pis : Ahead(j)' => Ahead(j) BY <1>1 DEF Ahead
<1>4. Loop' BY <1>1, <1>3 DEF IInv, Loop
<1>5. ToPi' BY <1>1 DEF IInv, ToPi
<1>6. Exchange' BY <1>1, Constants DEF Exchange
<1>7. QED BY <1>2, <1>4, <1>5, <1>6 DEF IInv

\* Step 1 of simple_boot: the one answer to GET_PROG_INFO.
LEMMA AnswerKeeps ==
  ASSUME IInv, host = "drain", host' = "info", toPi' = Info, Less(toHost', toHost),
         cur' = cur, faults' = faults, pi' = pi, addr' = addr, nbytes' = nbytes, cksum' = cksum,
         mem' = mem, loaded' = loaded
  PROVE  IInv'
<1>1. /\ toHost' \in Seq(Byte)
      /\ Has(toHost', "CRC") => Has(toHost, "CRC")
      /\ Has(toHost', "BOOT_SUCCESS") => Has(toHost, "BOOT_SUCCESS")
  BY LessLine DEF IInv, Types
<1>2. Info \in Seq(Byte) /\ Len(Info) = 16 /\ ~Has(Info, "PUT_CODE")
      /\ \A w \in PiWords \cup Lengths : ~Has(Info, w)
  <2>1. {"PUT_PROG_INFO", "ARMBASE", "NBYTES", "CRC"} \cap (PiWords \cup Lengths) = {}
    BY DEF PiWords, Lengths
  <2>2. "PUT_CODE" \notin {"PUT_PROG_INFO", "ARMBASE", "NBYTES", "CRC"} OBVIOUS
  <2>3. QED BY <2>1, <2>2, InfoOf
<1>3. Early(Info)
  <2>1. DOMAIN Info = 1..16 BY <1>2
  <2>2. ASSUME NEW k \in 1..16, Info[k][1] = "PUT_PROG_INFO" PROVE k <= 4
    <3>1. CASE k \in 5..8
      <4>1. k - 4 \in 1..4 /\ 4 + (k - 4) = k BY <3>1
      <4>2. Info[k] = <<"ARMBASE", k - 4>> BY <4>1, InfoOf
      <4>3. QED BY <2>2, <4>2
    <3>2. CASE k \in 9..12
      <4>1. k - 8 \in 1..4 /\ 8 + (k - 8) = k BY <3>2
      <4>2. Info[k] = <<"NBYTES", k - 8>> BY <4>1, InfoOf
      <4>3. QED BY <2>2, <4>2
    <3>3. CASE k \in 13..16
      <4>1. k - 12 \in 1..4 /\ 12 + (k - 12) = k BY <3>3
      <4>2. Info[k] = <<"CRC", k - 12>> BY <4>1, InfoOf
      <4>3. QED BY <2>2, <4>2
    <3>4. QED BY <3>1, <3>2, <3>3
  <2>3. QED BY <2>1, <2>2 DEF Early
<1>4. cur < NPis /\ cur \in Pis BY Constants DEF IInv, Types, Loop, Pis
<1>5. Types' BY <1>1, <1>2 DEF IInv, Types, HostStates
<1>6. Loop'
  <2>1. \A j \in Pis : Ahead(j)' => Ahead(j) BY DEF Ahead
  <2>2. QED BY <1>4, <2>1 DEF IInv, Loop
<1>7. ~Has(toHost', "CRC") BY <1>1 DEF IInv, ToPi
<1>8. ToPi'
  <2>1. 16 <= Bound BY Constants
  <2>2. QED BY <1>2, <1>3, <1>7, <2>1 DEF ToPi
<1>9. Exchange'
  <2>1. Ahead(cur) BY DEF Ahead
  <2>2. loaded[cur] = <<>> /\ pi[cur] \in {"wait", "reboot"}
    BY <1>4, <2>1 DEF IInv, Loop
  <2>3. ~Has(toHost', "BOOT_SUCCESS") BY <1>1, <1>4, <2>2 DEF IInv, Exchange
  <2>4. ~Answered' BY <1>2, <1>7 DEF Answered
  <2>5. QED BY <2>2, <2>3, <2>4 DEF Exchange, Past
<1>10. QED BY <1>5, <1>6, <1>8, <1>9 DEF IInv

LEMMA ProgramOf ==
  ASSUME NEW i \in Nat
  PROVE  LET m == <<>> \o Bytes("PUT_CODE") \o Code(i) IN
         /\ m = Bytes("PUT_CODE") \o Code(i)
         /\ m \in Seq(Byte) /\ Len(m) = Rest + 6
         /\ \A w : Has(m, w) => w = "PUT_CODE" \/ Has(Code(i), w)
<1> DEFINE b == Bytes("PUT_CODE")
           c == Code(i)
<1>1. /\ b \in Seq(Byte) /\ Len(b) = 4 /\ c \in Seq(Byte) /\ Len(c) = Rest + 2
      /\ \A w : Has(b, w) => w = "PUT_CODE"
  BY BytesOf, CodeOf, SomeWords
<1>2. Rest \in Nat BY Constants
<1> HIDE DEF b, c
<1>3. <<>> \o b = b BY <1>1
<1>4. Cat(b, c) \in Seq(Byte) /\ Len(Cat(b, c)) = Len(b) + Len(c) BY <1>1, CatOf
<1>5. \A w : Has(Cat(b, c), w) => w = "PUT_CODE" \/ Has(c, w) BY <1>1, HasCat
<1>6. Len(Cat(b, c)) = Rest + 6 BY <1>1, <1>2, <1>4
<1>7. <<>> \o b \o c = Cat(b, c) BY <1>3 DEF Cat
<1>8. QED BY <1>4, <1>5, <1>6, <1>7 DEF b, c, Cat

LEMMA AcceptKeeps ==
  ASSUME IInv, host = "crc", host' = "success", Has(toHost, "CRC"),
         toPi' = toPi \o Bytes("PUT_CODE") \o Code(cur), Less(toHost', toHost),
         cur' = cur, faults' = faults, pi' = pi, addr' = addr, nbytes' = nbytes, cksum' = cksum,
         mem' = mem, loaded' = loaded
  PROVE  toPi = <<>> /\ IInv'
<1>1. /\ toHost' \in Seq(Byte)
      /\ Has(toHost', "CRC") => Has(toHost, "CRC")
      /\ Has(toHost', "BOOT_SUCCESS") => Has(toHost, "BOOT_SUCCESS")
  BY LessLine DEF IInv, Types
<1>2. cur < NPis /\ cur \in Pis /\ cur \in Nat BY Constants DEF IInv, Types, Loop, Pis
<1>3. toPi = <<>> BY DEF IInv, ToPi
<1>4. /\ toPi' \in Seq(Byte) /\ Len(toPi') = Rest + 6
      /\ \A w \in Words : Has(toPi', w) => w = "PUT_CODE"
  BY <1>2, <1>3, ProgramOf, CodeOf
<1>5. ~Has(toPi', "PUT_PROG_INFO") /\ \A w \in PiWords \cup Lengths : ~Has(toPi', w)
  <2>1. "PUT_PROG_INFO" # "PUT_CODE" /\ "PUT_CODE" \notin PiWords \cup Lengths
    BY DEF PiWords, Lengths
  <2>2. QED BY <1>4, <2>1, SomeWords, WordsAreWords
<1>6. Early(toPi') BY <1>5 DEF Early, Has
<1>7. Types' BY <1>1, <1>4 DEF IInv, Types, HostStates
<1>8. Loop'
  <2>1. \A j \in Pis : Ahead(j)' => Ahead(j) BY DEF Ahead
  <2>2. QED BY <1>2, <2>1 DEF IInv, Loop
<1>9. ToPi'
  <2>1. Rest + 6 <= Bound BY Constants
  <2>2. QED BY <1>4, <1>5, <1>6, <2>1 DEF ToPi
<1>10. Exchange'
  <2>1. Answered BY DEF Answered
  <2>2. loaded[cur] = <<>> /\ ~Has(toHost, "BOOT_SUCCESS") /\ pi[cur] # "info"
        /\ (pi[cur] \in {"put", "code"} => cksum[cur] = "CRC")
    BY <1>2, <2>1 DEF IInv, Exchange
  <2>3. QED BY <1>1, <1>5, <2>2 DEF Exchange
<1>11. QED BY <1>3, <1>7, <1>8, <1>9, <1>10 DEF IInv

\* Step 5: BOOT_SUCCESS comes from a Pi that has all of its program.
LEMMA SuccessIs ==
  ASSUME IInv, host = "success", Has(toHost, "BOOT_SUCCESS")
  PROVE  cur < NPis /\ cur \in Pis /\ loaded[cur] = Code(cur) /\ pi[cur] \notin Past
<1>1. cur < NPis /\ cur \in Pis BY Constants DEF IInv, Types, Loop, Pis
<1>2. QED BY <1>1 DEF IInv, Exchange

LEMMA SuccessKeeps ==
  ASSUME IInv, host = "success", host' = "open", cur' = cur + 1,
         Has(toHost, "BOOT_SUCCESS"), Less(toHost', toHost), toPi' = toPi,
         faults' = faults, pi' = pi, addr' = addr, nbytes' = nbytes, cksum' = cksum,
         mem' = mem, loaded' = loaded
  PROVE  IInv'
<1>1. toHost' \in Seq(Byte) BY DEF Less
<1>2. cur < NPis /\ cur \in Pis /\ loaded[cur] = Code(cur) /\ pi[cur] \notin Past BY SuccessIs
<1>3. cur \in Nat /\ NPis \in Nat /\ \A j \in Pis : j \in Nat BY Constants DEF IInv, Types
<1>4. Types'
  <2>1. cur + 1 \in 0..NPis BY <1>2, <1>3
  <2>2. QED BY <1>1, <2>1 DEF IInv, Types, HostStates
<1>5. Loop'
  <2>1. \A j \in Pis : Ahead(j)' => Ahead(j) BY <1>3 DEF Ahead
  <2>2. \A j \in Pis : j < cur + 1 => j < cur \/ j = cur BY <1>3
  <2>3. QED BY <1>2, <2>1, <2>2 DEF IInv, Loop
<1>6. ToPi' BY DEF IInv, ToPi
<1>7. Exchange' BY DEF Exchange
<1>8. QED BY <1>4, <1>5, <1>6, <1>7 DEF IInv

-----------------------------------------------------------------------------
(* Every step keeps the invariant.                                         *)

LEMMA InitInv == Init => IInv
<1> SUFFICES ASSUME Init PROVE IInv OBVIOUS
<1>1. <<>> \in Seq(Byte) /\ Len(<<>>) = 0 OBVIOUS
<1>2. Types
  <2>1. 0 \in 0..NPis /\ 0 \in 0..(Rest + 3) /\ 0 \in 0..MaxFaults BY Constants
  <2>2. QED BY <1>1, <2>1 DEF Init, Types, HostStates, PiStates, Places
<1>3. Loop BY Constants DEF Init, Loop, Ahead, Past
<1>4. ToPi
  <2>1. Early(<<>>) BY DEF Early
  <2>2. QED BY <1>1, <2>1, HasNothing, Constants DEF Init, ToPi
<1>5. Exchange BY DEF Init, Exchange
<1>6. QED BY <1>2, <1>3, <1>4, <1>5 DEF IInv

LEMMA SendsIs ==
  ASSUME IInv, NEW i, NEW b \in Seq(Byte), Sends(i, b)
  PROVE  toHost' \in Seq(Byte) /\ \A v : Has(toHost', v) => Has(toHost, v) \/ Has(b, v)
<1>1. toHost \in Seq(Byte) BY DEF IInv, Types
<1>2. toHost' = Cat(toHost, b) \/ toHost' = toHost BY DEF Sends, Cat
<1>3. QED BY <1>1, <1>2, HasCat

LEMMA HostKeeps ==
  ASSUME IInv, Host
  PROVE  IInv'
<1> USE DEF hostVars, piVars, getVars, branchVars
<1>1. toHost \in Seq(Byte) /\ toPi \in Seq(Byte) /\ faults \in 0..MaxFaults BY DEF IInv, Types
<1>2. Less(toHost, toHost) /\ Less(toPi, toPi) BY <1>1, LessSelf
<1>3. CASE Open BY <1>3, OpenKeeps
<1>4. CASE Echo BY <1>4, EchoKeeps
<1>5. CASE PrintString
  <2>1. Less(toHost', toHost)
    <3>1. PICK n \in 0..(Len(toHost) - 8) : toHost' = Drop(toHost, 8 + n)
      BY <1>1, <1>5 DEF PrintString
    <3>2. 8 + n \in 0..Len(toHost) BY <1>1, <1>5 DEF PrintString
    <3>3. QED BY <1>1, <3>1, <3>2, DropLess
  <2>2. Shrinks BY <1>1, <1>2, <1>5, <2>1 DEF Shrinks, PrintString, GettingOp
  <2>3. QED BY <2>2, ShrinksKeeps
<1>6. CASE Drain
  <2>1. PICK op \in Words \cup {"other"} :
          /\ GetOp(op)
          /\ IF op = "GET_PROG_INFO"
             THEN /\ host' = "info"
                  /\ toPi' = toPi \o Bytes("PUT_PROG_INFO") \o Bytes("ARMBASE")
                                  \o Bytes("NBYTES") \o Bytes("CRC")
             ELSE host' = "discard" /\ UNCHANGED toPi
    BY <1>6 DEF Drain
  <2>2. Less(toHost', toHost) BY <2>1, GetOpIs
  <2>3. /\ host = "drain" /\ cur' = cur /\ faults' = faults /\ pi' = pi /\ addr' = addr /\ nbytes' = nbytes
        /\ cksum' = cksum /\ mem' = mem /\ loaded' = loaded
    BY <1>6 DEF Drain
  <2>4. CASE op = "GET_PROG_INFO"
    <3>1. toPi = <<>> BY <2>3 DEF IInv, ToPi
    <3>2. Bytes("PUT_PROG_INFO") \in Seq(Byte) BY BytesOf, SomeWords
    <3>3. <<>> \o Bytes("PUT_PROG_INFO") = Bytes("PUT_PROG_INFO") BY <3>2
    <3>4. toPi' = Info BY <2>1, <2>4, <3>1, <3>3 DEF Info
    <3>5. QED BY <2>1, <2>2, <2>3, <2>4, <3>4, AnswerKeeps
  <2>5. CASE op # "GET_PROG_INFO"
    <3>1. Shrinks BY <1>1, <1>2, <2>1, <2>2, <2>3, <2>5 DEF Shrinks
    <3>2. QED BY <3>1, ShrinksKeeps
  <2>6. QED BY <2>4, <2>5
<1>7. CASE Discard
  <2>1. Less(toHost', toHost) BY <1>1, <1>7, TailLess DEF Discard
  <2>2. Shrinks BY <1>1, <1>2, <1>7, <2>1 DEF Shrinks, Discard
  <2>3. QED BY <2>2, ShrinksKeeps
<1>8. CASE DrainInfos
  <2>1. Less(toHost', toHost) BY <1>8, GetOpIs DEF DrainInfos
  <2>2. Shrinks BY <1>1, <1>2, <1>8, <2>1 DEF Shrinks, DrainInfos
  <2>3. QED BY <2>2, ShrinksKeeps
<1>9. CASE CheckCrc
  <2>1. PICK op \in Words \cup {"other"} :
          /\ GetOp(op)
          /\ IF op = "CRC"
             THEN host' = "success" /\ toPi' = toPi \o Bytes("PUT_CODE") \o Code(cur)
             ELSE host' = "died" /\ UNCHANGED toPi
    BY <1>9 DEF CheckCrc
  <2>2. Less(toHost', toHost) /\ (op \in Words => Has(toHost, op)) BY <2>1, GetOpIs
  <2>3. /\ host = "crc" /\ cur' = cur /\ faults' = faults /\ pi' = pi /\ addr' = addr /\ nbytes' = nbytes
        /\ cksum' = cksum /\ mem' = mem /\ loaded' = loaded
    BY <1>9 DEF CheckCrc
  <2>4. CASE op = "CRC" BY <2>1, <2>2, <2>3, <2>4, SomeWords, AcceptKeeps
  <2>5. CASE op # "CRC"
    <3>1. Shrinks BY <1>1, <1>2, <2>1, <2>2, <2>3, <2>5 DEF Shrinks
    <3>2. QED BY <3>1, ShrinksKeeps
  <2>6. QED BY <2>4, <2>5
<1>10. CASE AwaitSuccess
  <2>1. PICK op \in Words \cup {"other"} :
          /\ GetOp(op)
          /\ IF op = "BOOT_SUCCESS"
             THEN host' = "open" /\ cur' = cur + 1
             ELSE UNCHANGED hostVars
    BY <1>10 DEF AwaitSuccess
  <2>2. Less(toHost', toHost) /\ (op \in Words => Has(toHost, op)) BY <2>1, GetOpIs
  <2>3. /\ host = "success" /\ toPi' = toPi /\ faults' = faults /\ pi' = pi /\ addr' = addr /\ nbytes' = nbytes
        /\ cksum' = cksum /\ mem' = mem /\ loaded' = loaded
    BY <1>10 DEF AwaitSuccess
  <2>4. CASE op = "BOOT_SUCCESS" BY <2>1, <2>2, <2>3, <2>4, SomeWords, SuccessKeeps
  <2>5. CASE op # "BOOT_SUCCESS"
    <3>1. Shrinks BY <1>1, <1>2, <2>1, <2>2, <2>3, <2>5 DEF Shrinks
    <3>2. QED BY <3>1, ShrinksKeeps
  <2>6. QED BY <2>4, <2>5
<1>11. CASE ReadTimesOut
  <2>1. host \notin {"open", "echo", "died"} BY <1>11 DEF ReadTimesOut, Starved, GettingOp
  <2>2. Shrinks BY <1>1, <1>2, <1>11, <2>1 DEF Shrinks, ReadTimesOut
  <2>3. QED BY <2>2, ShrinksKeeps
<1>12. CASE PrintAll
  <2>1. Less(toHost', toHost) BY <1>1, <1>12, TailLess DEF PrintAll
  <2>2. Shrinks BY <1>1, <1>2, <1>12, <2>1 DEF Shrinks, PrintAll
  <2>3. QED BY <2>2, ShrinksKeeps
<1>13. QED BY <1>3, <1>4, <1>5, <1>6, <1>7, <1>8, <1>9, <1>10, <1>11, <1>12 DEF Host

LEMMA PanicIs ==
  ASSUME IInv, NEW i, Panic(i)
  PROVE  /\ pi' = [pi EXCEPT ![i] = "reboot"] /\ toHost' \in Seq(Byte)
         /\ Has(toHost', "CRC") => Has(toHost, "CRC")
         /\ Has(toHost', "BOOT_SUCCESS") => Has(toHost, "BOOT_SUCCESS")
<1>1. PICK n \in {2, 4} : Sends(i, Text(n)) BY DEF Panic
<1>2. Text(n) \in Seq(Byte) /\ \A v : Has(Text(n), v) => v = "text" BY TextOf
<1>3. toHost' \in Seq(Byte) /\ \A v : Has(toHost', v) => Has(toHost, v) \/ Has(Text(n), v)
  BY <1>1, <1>2, SendsIs
<1>4. QED BY <1>2, <1>3 DEF Panic, Goes

LEMMA FailSends ==
  ASSUME IInv, NEW i, pi[i] = "code", Fail(i)
  PROVE  /\ toHost' \in Seq(Byte)
         /\ Has(toHost', "CRC") => Has(toHost, "CRC")
         /\ Has(toHost', "BOOT_SUCCESS") => Has(toHost, "BOOT_SUCCESS")
<1> DEFINE a == Bytes("PRINT_STRING")
           b == Bytes("COMPLAINT")
           c == Text(LengthOf("COMPLAINT"))
           d == Bytes("BOOT_ERROR")
           m == Cat(Cat(Cat(a, b), c), d)
<1>1. LengthOf("COMPLAINT") \in Nat BY DEF LengthOf
<1>2. /\ a \in Seq(Byte) /\ b \in Seq(Byte) /\ c \in Seq(Byte) /\ d \in Seq(Byte)
      /\ \A v \in {"CRC", "BOOT_SUCCESS"} : ~Has(a, v) /\ ~Has(b, v) /\ ~Has(c, v) /\ ~Has(d, v)
  BY <1>1, BytesOf, TextOf, SomeWords
<1>3. Sends(i, m) BY DEF Fail, Cat
<1> HIDE DEF a, b, c, d
<1>4. Cat(a, b) \in Seq(Byte) /\ \A v \in {"CRC", "BOOT_SUCCESS"} : ~Has(Cat(a, b), v)
  BY <1>2, HasCat
<1>5. Cat(Cat(a, b), c) \in Seq(Byte)
      /\ \A v \in {"CRC", "BOOT_SUCCESS"} : ~Has(Cat(Cat(a, b), c), v)
  BY <1>2, <1>4, HasCat
<1>6. m \in Seq(Byte) /\ \A v \in {"CRC", "BOOT_SUCCESS"} : ~Has(m, v)
  BY <1>2, <1>5, HasCat
<1> HIDE DEF m
<1>7. toHost' \in Seq(Byte) /\ \A v : Has(toHost', v) => Has(toHost, v) \/ Has(m, v)
  BY <1>3, <1>6, SendsIs
<1>8. QED BY <1>6, <1>7

LEMMA ReadsKeeps ==
  ASSUME IInv, NEW i \in Pis, Reads(i)
  PROVE  IInv'
<1> USE DEF hostVars, getVars, branchVars
<1>1. /\ toHost \in Seq(Byte) /\ toPi \in Seq(Byte) /\ faults \in 0..MaxFaults
      /\ pi \in [Pis -> PiStates] /\ addr \in [Pis -> Places]
  BY DEF IInv, Types
<1>2. Less(toPi, toPi) BY <1>1, LessSelf
<1>3. CASE HasData(i)
  <2>1. i = cur /\ host \in {"drain", "discard", "printing", "info", "crc", "success"}
    BY <1>3, ConnectedIs DEF HasData
  <2>2. host \notin {"drain", "discard"} BY <1>3 DEF HasData, IInv, ToPi
  <2>3. ~Ahead(i) BY <2>1, <2>2, Constants DEF Ahead
  <2>4. Drops(i) BY <1>1, <1>2, <1>3, <2>3 DEF Drops, HasData
  <2>5. QED BY <2>4, DropsKeeps
<1>4. CASE GetPutProgInfo(i)
  <2>1. /\ Connected(i) /\ pi[i] = "op" /\ Len(toPi) >= 4 /\ toPi' = Drop(toPi, 4)
        /\ cur' = cur /\ host' = host /\ addr' = addr /\ nbytes' = nbytes /\ cksum' = cksum
        /\ mem' = mem /\ loaded' = loaded /\ faults' = faults
    BY <1>4 DEF GetPutProgInfo
  <2>2. CASE WordAt(toPi, 1) = "PUT_PROG_INFO"
    <3>1. pi' = [pi EXCEPT ![i] = "info"] /\ toHost' = toHost
      BY <1>4, <2>2 DEF GetPutProgInfo, Goes
    <3>2. QED BY <2>1, <2>2, <3>1, PutProgInfoKeeps
  <2>3. CASE WordAt(toPi, 1) # "PUT_PROG_INFO"
    <3>1. Panic(i) BY <1>4, <2>3 DEF GetPutProgInfo
    <3>2. 4 \in 0..Len(toPi) BY <1>1, <2>1
    <3>3. Less(toPi', toPi) BY <1>1, <2>1, <3>2, DropLess
    <3>4. Drops(i) BY <1>1, <2>1, <3>1, <3>3, PanicIs DEF Drops
    <3>5. QED BY <3>4, DropsKeeps
  <2>4. QED BY <2>2, <2>3
<1>5. CASE GetInfo(i)
  <2>1. /\ Connected(i) /\ pi[i] = "info" /\ Len(toPi) >= 12 /\ toPi' = Drop(toPi, 12)
        /\ cksum' = [cksum EXCEPT ![i] = WordAt(toPi, 9)]
        /\ cur' = cur /\ host' = host /\ mem' = mem /\ loaded' = loaded /\ faults' = faults
    BY <1>5 DEF GetInfo
  <2>2. PICK n \in NBytes(WordAt(toPi, 5)) : nbytes' = [nbytes EXCEPT ![i] = n]
    BY <1>5 DEF GetInfo
  <2>3. n \in 0..(Rest + 3) BY <2>2, Constants DEF NBytes
  <2>7. addr' \in [Pis -> Places]
    <3>1. PICK a \in Addresses(WordAt(toPi, 1)) : addr' = [addr EXCEPT ![i] = a]
      BY <1>5 DEF GetInfo
    <3>2. a \in Places BY DEF Addresses, Places
    <3>3. QED BY <1>1, <3>1, <3>2
  <2>4. CASE pi' = [pi EXCEPT ![i] = "put"]
             /\ Sends(i, Bytes("GET_CODE") \o Bytes(WordAt(toPi, 9)))
    <3>1. toHost' = toHost \o (Bytes("GET_CODE") \o Bytes(WordAt(toPi, 9)))
      BY <2>1, <2>4 DEF Sends
    <3>2. QED BY <2>1, <2>2, <2>3, <2>4, <2>7, <3>1, InfoKeeps
  <2>5. CASE Panic(i)
    <3>1. 12 \in 0..Len(toPi) BY <1>1, <2>1
    <3>2. Less(toPi', toPi) BY <1>1, <2>1, <3>1, DropLess
    <3>3. WordAt(toPi, 9) \in Words \cup {"other"} BY <1>1, <2>1, NinthWord
    <3>4. /\ pi' = [pi EXCEPT ![i] = "reboot"] /\ toHost' \in Seq(Byte)
          /\ Has(toHost', "CRC") => Has(toHost, "CRC")
          /\ Has(toHost', "BOOT_SUCCESS") => Has(toHost, "BOOT_SUCCESS")
      BY <2>5, PanicIs
    <3>5. Drops(i) BY <1>1, <2>1, <2>2, <2>3, <2>7, <3>2, <3>3, <3>4 DEF Drops
    <3>6. QED BY <3>5, DropsKeeps
  <2>6. QED BY <1>5, <2>4, <2>5 DEF GetInfo, Goes
<1>6. CASE GetPutCode(i)
  <2>1. /\ Connected(i) /\ pi[i] = "put" /\ Len(toPi) >= 4 /\ toPi' = Drop(toPi, 4)
        /\ mem' = [mem EXCEPT ![i] = <<>>]
        /\ cur' = cur /\ host' = host /\ addr' = addr /\ nbytes' = nbytes /\ cksum' = cksum
        /\ loaded' = loaded /\ faults' = faults
    BY <1>6 DEF GetPutCode
  <2>2. CASE WordAt(toPi, 1) = "PUT_CODE"
    <3>1. pi' = [pi EXCEPT ![i] = "code"] /\ toHost' = toHost
      BY <1>6, <2>2 DEF GetPutCode, Goes
    <3>2. QED BY <2>1, <2>2, <3>1, PutCodeKeeps
  <2>3. CASE WordAt(toPi, 1) # "PUT_CODE"
    <3>1. Panic(i) BY <1>6, <2>3 DEF GetPutCode
    <3>2. 4 \in 0..Len(toPi) BY <1>1, <2>1
    <3>3. Less(toPi', toPi) BY <1>1, <2>1, <3>2, DropLess
    <3>4. Drops(i) BY <1>1, <2>1, <3>1, <3>3, PanicIs DEF Drops
    <3>5. QED BY <3>4, DropsKeeps
  <2>4. QED BY <2>2, <2>3
<1>7. CASE GetCodeByte(i)
  <2>1. /\ Connected(i) /\ pi[i] = "code" /\ toPi # <<>> /\ Len(mem[i]) < nbytes[i]
        /\ toPi' = Tail(toPi) /\ mem' = [mem EXCEPT ![i] = Append(mem[i], Head(toPi))]
        /\ pi' = pi /\ toHost' = toHost /\ cur' = cur /\ host' = host /\ addr' = addr
        /\ nbytes' = nbytes
        /\ cksum' = cksum /\ loaded' = loaded /\ faults' = faults
    BY <1>7 DEF GetCodeByte
  <2>2. QED BY <2>1, CodeByteKeeps
<1>8. CASE Succeed(i) BY <1>8, SucceedKeeps
<1>9. CASE Fail(i)
  <2>1. pi[i] = "code" BY <1>9 DEF Fail
  <2>2. Drops(i) BY <1>1, <1>2, <1>9, <2>1, FailSends DEF Drops, Fail, Goes
  <2>3. QED BY <2>2, DropsKeeps
<1>10. QED BY <1>3, <1>4, <1>5, <1>6, <1>7, <1>8, <1>9 DEF Reads

LEMMA TalksKeeps ==
  ASSUME IInv, NEW i \in Pis, Resend(i) \/ Deaf(i) \/ Reboot(i) \/ Reset(i)
  PROVE  IInv'
<1> USE DEF hostVars, piVars, getVars, branchVars
<1>1. /\ toHost \in Seq(Byte) /\ toPi \in Seq(Byte) /\ faults \in 0..MaxFaults
      /\ pi \in [Pis -> PiStates] /\ addr \in [Pis -> Places]
  BY DEF IInv, Types
<1>2. Less(toPi, toPi) BY <1>1, LessSelf
<1>3. /\ Bytes("GET_PROG_INFO") \in Seq(Byte)
      /\ \A v : Has(Bytes("GET_PROG_INFO"), v) => v = "GET_PROG_INFO"
  BY BytesOf, SomeWords
<1>4. ASSUME Sends(i, Bytes("GET_PROG_INFO"))
      PROVE  /\ toHost' \in Seq(Byte)
             /\ Has(toHost', "CRC") => Has(toHost, "CRC")
             /\ Has(toHost', "BOOT_SUCCESS") => Has(toHost, "BOOT_SUCCESS")
  BY <1>3, <1>4, SendsIs
<1>5. CASE Resend(i)
  <2>1. pi' = [pi EXCEPT ![i] = "wait"] BY <1>1, <1>5 DEF Resend
  <2>2. Drops(i) BY <1>1, <1>2, <1>4, <1>5, <2>1 DEF Drops, Resend
  <2>3. QED BY <2>2, DropsKeeps
<1>6. CASE Deaf(i)
  <2>1. pi' = [pi EXCEPT ![i] = "reboot"] BY <1>1, <1>6 DEF Deaf
  <2>2. Less(toPi', toPi) BY <1>1, <1>6, TailLess DEF Deaf
  <2>3. Drops(i) BY <1>1, <1>6, <2>1, <2>2 DEF Drops, Deaf
  <2>4. QED BY <2>3, DropsKeeps
<1>7. CASE Reboot(i)
  <2>1. /\ pi' = [pi EXCEPT ![i] = "wait"] /\ addr' = [addr EXCEPT ![i] = "zero"]
        /\ nbytes' = [nbytes EXCEPT ![i] = 0] /\ cksum' = [cksum EXCEPT ![i] = "other"] /\ mem' = [mem EXCEPT ![i] = <<>>]
        /\ cur' = cur /\ host' = host /\ toPi' = toPi /\ loaded' = loaded /\ faults' = faults
        /\ Sends(i, Bytes("GET_PROG_INFO"))
    BY <1>7 DEF Reboot, Goes, Forgets
  <2>2. 0 \in 0..(Rest + 3) /\ addr' \in [Pis -> Places] BY <1>1, <2>1, Constants DEF Places
  <2>3. Drops(i) BY <1>1, <1>2, <1>4, <2>1, <2>2 DEF Drops
  <2>4. QED BY <2>3, DropsKeeps
<1>8. CASE Reset(i)
  <2>1. /\ pi' = [pi EXCEPT ![i] = "reboot"] /\ addr' = addr /\ nbytes' = nbytes /\ cksum' = cksum
        /\ mem' = mem /\ loaded' = loaded /\ cur' = cur /\ host' = host /\ toPi' = toPi
        /\ faults < MaxFaults /\ faults' = faults + 1
    BY <1>8 DEF Reset, Goes
  <2>2. faults' \in 0..MaxFaults BY <1>1, <2>1, Constants
  <2>3. Less(toHost', toHost)
    <3>1. CASE Connected(i)
      <4>1. PICK n \in 0..8 : n <= Len(toHost) /\ toHost' = SubSeq(toHost, 1, Len(toHost) - n)
        BY <1>8, <3>1 DEF Reset
      <4>2. Len(toHost) - n \in 0..Len(toHost) BY <1>1, <4>1
      <4>3. QED BY <1>1, <4>1, <4>2, PrefixLess
    <3>2. CASE ~Connected(i) BY <1>1, <1>8, <3>2, LessSelf DEF Reset
    <3>3. QED BY <3>1, <3>2
  <2>4. /\ toHost' \in Seq(Byte)
        /\ Has(toHost', "CRC") => Has(toHost, "CRC")
        /\ Has(toHost', "BOOT_SUCCESS") => Has(toHost, "BOOT_SUCCESS")
    BY <1>1, <2>3, LessLine
  <2>5. Drops(i) BY <1>1, <1>2, <2>1, <2>2, <2>4 DEF Drops
  <2>6. QED BY <2>5, DropsKeeps
<1>9. QED BY <1>5, <1>6, <1>7, <1>8

LEMMA FaultKeeps == ASSUME IInv, Fault PROVE IInv'
<1> USE DEF hostVars, piVars, getVars, branchVars
<1>1. /\ toHost \in Seq(Byte) /\ toPi \in Seq(Byte) /\ faults \in 0..MaxFaults
  BY DEF IInv, Types
<1>2. faults' \in 0..MaxFaults BY <1>1, Constants DEF Fault
<1>3. Less(toPi', toPi) /\ Less(toHost', toHost)
  <2>1. Less(toPi, toPi) /\ Less(toHost, toHost) BY <1>1, LessSelf
  <2>2. CASE /\ \E k \in DOMAIN toPi : toPi' \in {ReplaceAt(toPi, k, Junk), RemoveAt(toPi, k)}
             /\ UNCHANGED toHost
    BY <1>1, <2>1, <2>2, ReplaceLess, RemoveLess
  <2>3. CASE /\ \E k \in DOMAIN toHost :
                  toHost' \in {ReplaceAt(toHost, k, Junk), RemoveAt(toHost, k)}
             /\ UNCHANGED toPi
    BY <1>1, <2>1, <2>3, ReplaceLess, RemoveLess
  <2>4. QED BY <2>2, <2>3 DEF Fault
<1>4. Shrinks BY <1>2, <1>3 DEF Fault, Shrinks
<1>5. QED BY <1>4, ShrinksKeeps

LEMMA StutterKeeps == ASSUME IInv, UNCHANGED vars PROVE IInv'
<1>1. /\ toHost \in Seq(Byte) /\ toPi \in Seq(Byte) /\ faults \in 0..MaxFaults
  BY DEF IInv, Types
<1>2. Less(toPi, toPi) /\ Less(toHost, toHost) BY <1>1, LessSelf
<1>3. Shrinks BY <1>1, <1>2 DEF vars, hostVars, piVars, getVars, branchVars, Shrinks
<1>4. QED BY <1>3, ShrinksKeeps

LEMMA StepInv == IInv /\ [Next]_vars => IInv'
<1> SUFFICES ASSUME IInv, [Next]_vars PROVE IInv' OBVIOUS
<1>1. CASE Host BY <1>1, HostKeeps
<1>2. ASSUME NEW i \in Pis, Reads(i) PROVE IInv' BY <1>2, ReadsKeeps
<1>3. ASSUME NEW i \in Pis, Resend(i) \/ Deaf(i) \/ Reboot(i) \/ Reset(i) PROVE IInv'
  BY <1>3, TalksKeeps
<1>4. CASE Fault BY <1>4, FaultKeeps
<1>5. CASE Terminated \/ UNCHANGED vars BY <1>5, StutterKeeps DEF Terminated
<1>6. QED BY <1>1, <1>2, <1>3, <1>4, <1>5 DEF Next

\* What is on the line, what the Pis have read and loaded and where my-install
\* is fit together after every step (simple_boot, get_code), whatever is lost,
\* garbled, left over in a tty or rebooted.
THEOREM InvariantCorrect == Spec => []IInv
<1>1. Init => IInv BY InitInv
<1>2. IInv /\ [Next]_vars => IInv' BY StepInv
<1>3. QED BY <1>1, <1>2, PTL DEF Spec

\* No more than one message is on its way to a Pi (simple_boot, get_code).
THEOREM TypeCorrect == Spec => []TypeOK
<1>1. ASSUME IInv PROVE TypeOK
  <2>1. \A s \in {toHost, toPi} : \A k \in DOMAIN s :
           s[k][1] \in Words \cup {"other", "text", "rank", "size", "code"}
    <3>1. \A s \in Seq(Byte) : \A k \in DOMAIN s : s[k] \in Byte OBVIOUS
    <3>2. \A b \in Byte : b[1] \in Words \cup {"other", "text", "rank", "size", "code"}
      BY DEF Byte
    <3>3. toHost \in Seq(Byte) /\ toPi \in Seq(Byte) BY <1>1 DEF IInv, Types
    <3>4. QED BY <3>1, <3>2, <3>3
  <2>2. Len(toPi) <= (IF Rest > 10 THEN Rest + 6 ELSE 16) BY <1>1 DEF IInv, ToPi, Bound
  <2>3. QED BY <1>1, <2>1, <2>2 DEF TypeOK, IInv, Types, HostStates, PiStates, Past
<1>2. QED BY InvariantCorrect, <1>1, PTL

-----------------------------------------------------------------------------
(* Without a fault.                                                        *)

Program == Bytes("PUT_CODE") \o Code(cur)

\* Where the Pi is says what is on the line to it.
Exact ==
    /\ \A i \in Pis : Ahead(i) => pi[i] = "wait"
    /\ cur < NPis /\ host \notin {"open", "drain", "discard"} =>
         /\ pi[cur] = "op" => toPi = Info
         /\ pi[cur] = "wait" => toPi \in {Info, <<>>}
         /\ pi[cur] = "info" => toPi = Drop(Info, 4)
         /\ pi[cur] = "put" => cksum[cur] = "CRC" /\ nbytes[cur] = Rest + 2
                               /\ toPi \in {<<>>, Program}
         /\ pi[cur] = "code" => mem[cur] \o toPi = Code(cur) /\ nbytes[cur] = Rest + 2
         /\ pi[cur] \in {"run", "reboot"} => toPi = <<>>
         /\ host \in {"info", "crc"} /\ Has(toHost, "CRC") => pi[cur] = "put"

XInv == faults = 0 => Exact

Quiet ==
  \A i \in Pis :
    Undisturbed' /\ pi[i] # pi'[i] /\ pi'[i] \in {"reboot", "run"} => toPi' = <<>>

LEMMA InfoWords ==
  /\ WordAt(Info, 1) = "PUT_PROG_INFO"
  /\ WordAt(Drop(Info, 4), 1) = "ARMBASE"
  /\ WordAt(Drop(Info, 4), 5) = "NBYTES"
  /\ WordAt(Drop(Info, 4), 9) = "CRC"
  /\ Len(Drop(Info, 4)) = 12 /\ Drop(Drop(Info, 4), 12) = <<>>
<1> DEFINE d == Drop(Info, 4)
<1>1. Info \in Seq(Byte) /\ Len(Info) = 16 /\ 4 \in 0..Len(Info) BY InfoOf
<1>2. /\ d \in Seq(Byte) /\ Len(d) = Len(Info) - 4
      /\ \A k \in 1..(Len(Info) - 4) : d[k] = Info[4 + k]
  BY <1>1, DropLess DEF Less
<1>3. PICK n \in Nat : n = Len(d) BY <1>2
<1>4. n = 12 BY <1>1, <1>2, <1>3
<1> HIDE DEF d
<1>5. ASSUME NEW k \in 1..4
      PROVE d[k] = <<"ARMBASE", k>> /\ d[4 + k] = <<"NBYTES", k>> /\ d[8 + k] = <<"CRC", k>>
  <2>1. k \in 1..(Len(Info) - 4) /\ 4 + k \in 1..(Len(Info) - 4) /\ 8 + k \in 1..(Len(Info) - 4)
    BY <1>1
  <2>2. 4 + (4 + k) = 8 + k /\ 4 + (8 + k) = 12 + k OBVIOUS
  <2>3. d[k] = Info[4 + k] /\ d[4 + k] = Info[8 + k] /\ d[8 + k] = Info[12 + k]
    BY <1>2, <2>1, <2>2
  <2>4. QED BY <2>3, InfoOf
<1>6. WordAt(Info, 1) = "PUT_PROG_INFO"
  <2>1. 0 \in 0..(Len(Info) - 1) /\ 0 + 4 <= Len(Info) /\ 0 + 1 = 1 /\ \A k \in 1..4 : 0 + k = k
    BY <1>1
  <2>2. \A k \in 1..4 : Info[0 + k] = <<"PUT_PROG_INFO", k>> BY <2>1, InfoOf
  <2>3. WordAt(Info, 0 + 1) = "PUT_PROG_INFO" BY <1>1, <2>1, <2>2, WordAtIs, SomeWords
  <2>4. QED BY <2>1, <2>3
<1>7. WordAt(d, 1) = "ARMBASE"
  <2>1. 0 \in 0..(Len(d) - 1) /\ 0 + 4 <= Len(d) /\ 0 + 1 = 1 /\ \A k \in 1..4 : 0 + k = k
    BY <1>3, <1>4
  <2>2. \A k \in 1..4 : d[0 + k] = <<"ARMBASE", k>> BY <2>1, <1>5
  <2>3. WordAt(d, 0 + 1) = "ARMBASE" BY <1>2, <2>1, <2>2, WordAtIs, SomeWords
  <2>4. QED BY <2>1, <2>3
<1>8. WordAt(d, 5) = "NBYTES"
  <2>1. 4 \in 0..(Len(d) - 1) /\ 4 + 4 <= Len(d) /\ 4 + 1 = 5 BY <1>3, <1>4
  <2>2. WordAt(d, 4 + 1) = "NBYTES" BY <1>2, <1>5, <2>1, WordAtIs, SomeWords
  <2>3. QED BY <2>1, <2>2
<1>9. WordAt(d, 9) = "CRC"
  <2>1. 8 \in 0..(Len(d) - 1) /\ 8 + 4 <= Len(d) /\ 8 + 1 = 9 BY <1>3, <1>4
  <2>2. WordAt(d, 8 + 1) = "CRC" BY <1>2, <1>5, <2>1, WordAtIs, SomeWords
  <2>3. QED BY <2>1, <2>2
<1>10. Len(d) = 12 /\ Drop(d, 12) = <<>>
  <2>1. Len(d) = 12 BY <1>3, <1>4, Zenon
  <2>2. Len(d) >= 12 /\ Len(d) <= 12 BY <1>3, <1>4
  <2>3. QED BY <1>2, <2>1, <2>2, TwelveLeft
<1>11. QED BY <1>6, <1>7, <1>8, <1>9, <1>10 DEF d

LEMMA ProgramWords ==
  ASSUME IInv, cur < NPis
  PROVE  /\ WordAt(Program, 1) = "PUT_CODE" /\ Drop(Program, 4) = Code(cur)
         /\ Program \in Seq(Byte) /\ Code(cur) \in Seq(Byte) /\ Len(Code(cur)) = Rest + 2
<1> DEFINE b == Bytes("PUT_CODE")
           c == Code(cur)
           p == Cat(b, c)
           d == Drop(p, 4)
<1>1. Rest \in Nat /\ cur \in Nat BY Constants DEF IInv, Types
<1>2. /\ b \in Seq(Byte) /\ Len(b) = 4 /\ \A k \in 1..4 : b[k] = <<"PUT_CODE", k>>
      /\ c \in Seq(Byte) /\ Len(c) = Rest + 2
  BY <1>1, BytesOf, CodeOf, SomeWords
<1>3. Program = p BY DEF Program, Cat
<1> HIDE DEF b, c
<1>4. /\ p \in Seq(Byte) /\ Len(p) = Len(b) + Len(c)
      /\ \A k \in 1..Len(b) : p[k] = b[k]
      /\ \A k \in 1..Len(c) : p[Len(b) + k] = c[k]
  BY <1>2, CatOf
<1> HIDE DEF p
<1>5. Len(p) \in Nat /\ 4 \in 0..Len(p) /\ Len(p) - 4 = Len(c) BY <1>1, <1>2, <1>4
<1>6. /\ d \in Seq(Byte) /\ Len(d) = Len(p) - 4
      /\ \A k \in 1..(Len(p) - 4) : d[k] = p[4 + k]
  BY <1>4, <1>5, DropLess DEF Less
<1> HIDE DEF d
<1>7. d = c
  <2>1. Len(d) = Len(c) BY <1>5, <1>6
  <2>2. \A k \in 1..Len(c) : d[k] = c[k] BY <1>2, <1>4, <1>5, <1>6
  <2>3. QED BY <1>2, <1>6, <2>1, <2>2, SeqEqual
<1>8. WordAt(p, 1) = "PUT_CODE"
  <2>1. 0 \in 0..(Len(p) - 1) /\ 0 + 4 <= Len(p) /\ 0 + 1 = 1 /\ \A k \in 1..4 : 0 + k = k
    BY <1>1, <1>2, <1>4
  <2>2. \A k \in 1..4 : p[0 + k] = <<"PUT_CODE", k>> BY <1>2, <1>4, <2>1
  <2>3. WordAt(p, 0 + 1) = "PUT_CODE" BY <1>4, <2>1, <2>2, WordAtIs, SomeWords
  <2>4. QED BY <2>1, <2>3
<1>9. QED BY <1>2, <1>3, <1>4, <1>7, <1>8 DEF b, c, d

LEMMA ByteMoves ==
  ASSUME NEW s \in Seq(Byte), NEW t \in Seq(Byte), t # <<>>
  PROVE  Append(s, Head(t)) \o Tail(t) = s \o t
<1> DEFINE a == Append(s, Head(t))
           b == Tail(t)
<1>1. Len(s) \in Nat /\ Len(t) \in Nat /\ Len(t) > 0 OBVIOUS
<1>2. Head(t) \in Byte /\ Head(t) = t[1] OBVIOUS
<1>3. /\ a \in Seq(Byte) /\ Len(a) = Len(s) + 1 /\ a[Len(s) + 1] = t[1]
      /\ \A k \in 1..Len(s) : a[k] = s[k]
  BY <1>1, <1>2
<1>4. /\ b \in Seq(Byte) /\ Len(b) = Len(t) - 1
      /\ \A k \in 1..(Len(t) - 1) : b[k] = t[k + 1]
  BY TailLess DEF Less
<1> HIDE DEF a, b
<1>5. /\ Cat(a, b) \in Seq(Byte) /\ Len(Cat(a, b)) = Len(a) + Len(b)
      /\ \A k \in 1..Len(a) : Cat(a, b)[k] = a[k]
      /\ \A k \in 1..Len(b) : Cat(a, b)[Len(a) + k] = b[k]
  BY <1>3, <1>4, CatOf
<1>6. /\ Cat(s, t) \in Seq(Byte) /\ Len(Cat(s, t)) = Len(s) + Len(t)
      /\ \A k \in 1..Len(s) : Cat(s, t)[k] = s[k]
      /\ \A k \in 1..Len(t) : Cat(s, t)[Len(s) + k] = t[k]
  BY CatOf
<1>7. Len(Cat(a, b)) = Len(Cat(s, t)) BY <1>1, <1>3, <1>4, <1>5, <1>6
<1>8. ASSUME NEW k \in 1..Len(Cat(s, t)) PROVE Cat(a, b)[k] = Cat(s, t)[k]
  <2>1. CASE k <= Len(s)
    <3>1. k \in 1..Len(s) /\ k \in 1..Len(a) BY <1>1, <1>3, <1>6, <2>1
    <3>2. QED BY <1>3, <1>5, <1>6, <3>1
  <2>2. CASE k = Len(s) + 1
    <3>1. k \in 1..Len(a) /\ 1 \in 1..Len(t) BY <1>1, <1>3, <2>2
    <3>2. Cat(a, b)[k] = t[1] BY <1>3, <1>5, <2>2, <3>1
    <3>3. Cat(s, t)[k] = t[1] BY <1>6, <2>2, <3>1
    <3>4. QED BY <3>2, <3>3
  <2>3. CASE k > Len(s) + 1
    <3> DEFINE j == k - (Len(s) + 1)
    <3>1. /\ j \in 1..Len(b) /\ j + 1 \in 1..Len(t) /\ j \in 1..(Len(t) - 1)
          /\ k = Len(a) + j /\ k = Len(s) + (j + 1)
      BY <1>1, <1>3, <1>4, <1>6, <2>3
    <3> HIDE DEF j
    <3>2. Cat(a, b)[k] = b[j] BY <1>5, <3>1
    <3>3. b[j] = t[j + 1] BY <1>4, <3>1
    <3>4. Cat(s, t)[k] = t[j + 1] BY <1>6, <3>1
    <3>5. QED BY <3>2, <3>3, <3>4
  <2>4. k <= Len(s) \/ k = Len(s) + 1 \/ k > Len(s) + 1 BY <1>1
  <2>5. QED BY <2>1, <2>2, <2>3, <2>4
<1>9. Cat(a, b) = Cat(s, t) BY <1>5, <1>6, <1>7, <1>8, SeqEqual
<1>10. QED BY <1>9 DEF Cat, a, b

LEMMA AllRead ==
  ASSUME NEW s \in Seq(Byte), NEW t \in Seq(Byte), NEW c, s \o t = c, Len(s) = Len(c)
  PROVE  t = <<>>
<1>1. Len(Cat(s, t)) = Len(s) + Len(t) BY CatOf
<1>2. Cat(s, t) = c BY DEF Cat
<1>3. Len(t) = 0 BY <1>1, <1>2
<1>4. QED BY <1>3

LEMMA EmptyFirst == ASSUME NEW s \in Seq(Byte) PROVE <<>> \o s = s
OBVIOUS

\* Only Pi cur reads, and only when it has been asked.
LEMMA ReadsIs ==
  ASSUME IInv, NEW i \in Pis, Reads(i)
  PROVE  i = cur /\ cur < NPis /\ host \notin {"open", "drain", "discard"}
<1>1. CASE HasData(i) BY <1>1, ConnectedIs DEF HasData, IInv, ToPi
<1>2. CASE GetPutProgInfo(i)
  <2>1. pi[i] = "op" /\ Connected(i) BY <1>2 DEF GetPutProgInfo
  <2>2. ~Ahead(i) BY <2>1 DEF IInv, Loop
  <2>3. QED BY <2>1, <2>2, ConnectedIs DEF Ahead
<1>3. CASE \/ GetInfo(i) \/ GetPutCode(i) \/ GetCodeByte(i) \/ Succeed(i) \/ Fail(i)
  <2>1. pi[i] \in Past
    BY <1>3 DEF GetInfo, GetPutCode, GetCodeByte, Succeed, Returns, Fail, Past
  <2>2. QED BY <2>1, PastIs
<1>4. QED BY <1>1, <1>2, <1>3 DEF Reads

LEMMA InitExact == Init => Exact
BY DEF Init, Exact

\* Steps that leave the Pis and the line to them alone.
LEMMA StillExact ==
  ASSUME IInv, Exact, Shrinks, toPi' = toPi
  PROVE  Exact'
<1>1. /\ cur' = cur /\ pi' = pi /\ nbytes' = nbytes /\ cksum' = cksum /\ mem' = mem
      /\ \/ host' = host
         \/ host \notin {"open", "echo", "died"} /\ host' \in {"died", "printing"}
         \/ host \in {"drain", "discard"} /\ host' \in {"drain", "discard"}
         \/ host = "info" /\ host' = "crc"
  BY DEF Shrinks
<1>2. Has(toHost', "CRC") => Has(toHost, "CRC") BY LessLine DEF Shrinks, IInv, Types
<1>3. \A j \in Pis : Ahead(j)' => Ahead(j) BY <1>1 DEF Ahead
<1>4. Program' = Program BY <1>1 DEF Program
<1>5. CASE host \in {"drain", "discard"} /\ host' \in {"died", "printing"} /\ cur < NPis
  <2>1. toPi = <<>> BY <1>5 DEF IInv, ToPi
  <2>2. cur \in Pis BY <1>5, Constants DEF IInv, Types, Pis
  <2>3. Ahead(cur) BY <1>5 DEF Ahead
  <2>4. pi[cur] = "wait" BY <2>2, <2>3 DEF Exact
  <2>5. QED BY <1>1, <1>3, <1>5, <2>1, <2>4 DEF Exact
<1>6. CASE ~(host \in {"drain", "discard"} /\ host' \in {"died", "printing"} /\ cur < NPis)
  BY <1>1, <1>2, <1>3, <1>4, <1>6 DEF Exact
<1>7. QED BY <1>5, <1>6

LEMMA HostExact ==
  ASSUME IInv, Exact, Host
  PROVE  Exact'
<1> USE DEF hostVars, piVars, getVars, branchVars
<1>1. toHost \in Seq(Byte) /\ toPi \in Seq(Byte) /\ faults \in 0..MaxFaults BY DEF IInv, Types
<1>2. Less(toHost, toHost) /\ Less(toPi, toPi) BY <1>1, LessSelf
<1>3. CASE Open
  <2>1. \A j \in Pis : Ahead(j)' => Ahead(j) BY <1>3 DEF Open, Ahead
  <2>2. QED BY <1>3, <2>1 DEF Open, Exact
<1>4. CASE Echo
  <2>1. \A j \in Pis : Ahead(j)' => Ahead(j) BY <1>4 DEF Echo, Ahead
  <2>2. ~(cur' < NPis) BY <1>4, Constants DEF Echo
  <2>3. QED BY <1>4, <2>1, <2>2 DEF Echo, Exact
<1>5. CASE PrintString
  <2>1. Less(toHost', toHost)
    <3>1. PICK n \in 0..(Len(toHost) - 8) : toHost' = Drop(toHost, 8 + n)
      BY <1>1, <1>5 DEF PrintString
    <3>2. 8 + n \in 0..Len(toHost) BY <1>1, <1>5 DEF PrintString
    <3>3. QED BY <1>1, <3>1, <3>2, DropLess
  <2>2. Shrinks BY <1>1, <1>2, <1>5, <2>1 DEF Shrinks, PrintString, GettingOp
  <2>3. QED BY <1>5, <2>2, StillExact DEF PrintString
<1>6. CASE Drain
  <2>1. PICK op \in Words \cup {"other"} :
          /\ GetOp(op)
          /\ IF op = "GET_PROG_INFO"
             THEN /\ host' = "info"
                  /\ toPi' = toPi \o Bytes("PUT_PROG_INFO") \o Bytes("ARMBASE")
                                  \o Bytes("NBYTES") \o Bytes("CRC")
             ELSE host' = "discard" /\ UNCHANGED toPi
    BY <1>6 DEF Drain
  <2>2. Less(toHost', toHost) BY <2>1, GetOpIs
  <2>3. /\ host = "drain" /\ cur' = cur /\ faults' = faults /\ pi' = pi /\ addr' = addr /\ nbytes' = nbytes
        /\ cksum' = cksum /\ mem' = mem /\ loaded' = loaded
    BY <1>6 DEF Drain
  <2>4. CASE op = "GET_PROG_INFO"
    <3>1. toPi = <<>> BY <2>3 DEF IInv, ToPi
    <3>2. Bytes("PUT_PROG_INFO") \in Seq(Byte) BY BytesOf, SomeWords
    <3>3. toPi' = Info BY <2>1, <2>4, <3>1, <3>2, EmptyFirst DEF Info
    <3>4. ~Has(toHost', "CRC") BY <1>1, <2>2, <2>3, LessLine DEF IInv, ToPi
    <3>5. cur \in Pis /\ Ahead(cur) BY <2>3, Constants DEF IInv, Types, Loop, Pis, Ahead
    <3>6. pi[cur] = "wait" BY <3>5 DEF Exact
    <3>7. \A j \in Pis : Ahead(j)' => Ahead(j) BY <2>1, <2>3, <2>4 DEF Ahead
    <3>8. QED BY <2>3, <3>3, <3>4, <3>6, <3>7 DEF Exact
  <2>5. CASE op # "GET_PROG_INFO"
    <3>1. Shrinks BY <1>1, <1>2, <2>1, <2>2, <2>3, <2>5 DEF Shrinks
    <3>2. QED BY <2>1, <2>5, <3>1, StillExact
  <2>6. QED BY <2>4, <2>5
<1>7. CASE Discard
  <2>1. Less(toHost', toHost) BY <1>1, <1>7, TailLess DEF Discard
  <2>2. Shrinks BY <1>1, <1>2, <1>7, <2>1 DEF Shrinks, Discard
  <2>3. QED BY <1>7, <2>2, StillExact DEF Discard
<1>8. CASE DrainInfos
  <2>1. Less(toHost', toHost) BY <1>8, GetOpIs DEF DrainInfos
  <2>2. Shrinks BY <1>1, <1>2, <1>8, <2>1 DEF Shrinks, DrainInfos
  <2>3. QED BY <1>8, <2>2, StillExact DEF DrainInfos
<1>9. CASE CheckCrc
  <2>1. PICK op \in Words \cup {"other"} :
          /\ GetOp(op)
          /\ IF op = "CRC"
             THEN host' = "success" /\ toPi' = toPi \o Bytes("PUT_CODE") \o Code(cur)
             ELSE host' = "died" /\ UNCHANGED toPi
    BY <1>9 DEF CheckCrc
  <2>2. Less(toHost', toHost) /\ (op \in Words => Has(toHost, op)) BY <2>1, GetOpIs
  <2>3. /\ host = "crc" /\ cur' = cur /\ faults' = faults /\ pi' = pi /\ addr' = addr /\ nbytes' = nbytes
        /\ cksum' = cksum /\ mem' = mem /\ loaded' = loaded
    BY <1>9 DEF CheckCrc
  <2>4. CASE op = "CRC"
    <3>1. Has(toHost, "CRC") BY <2>2, <2>4, SomeWords
    <3>2. toPi = <<>> BY <2>3, <3>1 DEF IInv, ToPi
    <3>3. cur < NPis /\ cur \in Nat BY <2>3 DEF IInv, Types, Loop
    <3>4. toPi' = Program'
      <4>1. toPi' = <<>> \o Bytes("PUT_CODE") \o Code(cur) BY <2>1, <2>4, <3>2
      <4>2. toPi' = Bytes("PUT_CODE") \o Code(cur) BY <3>3, <4>1, ProgramOf
      <4>3. QED BY <2>3, <4>2 DEF Program
    <3>5. pi[cur] = "put" BY <2>3, <3>1, <3>3 DEF Exact
    <3>6. \A j \in Pis : Ahead(j)' => Ahead(j) BY <2>1, <2>3, <2>4 DEF Ahead
    <3>7. cksum[cur] = "CRC" /\ nbytes[cur] = Rest + 2 BY <2>3, <3>3, <3>5 DEF Exact
    <3>8. host' = "success" BY <2>1, <2>4
    <3>9. QED BY <2>3, <3>4, <3>5, <3>6, <3>7, <3>8 DEF Exact
  <2>5. CASE op # "CRC"
    <3>1. Shrinks BY <1>1, <1>2, <2>1, <2>2, <2>3, <2>5 DEF Shrinks
    <3>2. QED BY <2>1, <2>5, <3>1, StillExact
  <2>6. QED BY <2>4, <2>5
<1>10. CASE AwaitSuccess
  <2>1. PICK op \in Words \cup {"other"} :
          /\ GetOp(op)
          /\ IF op = "BOOT_SUCCESS"
             THEN host' = "open" /\ cur' = cur + 1
             ELSE UNCHANGED hostVars
    BY <1>10 DEF AwaitSuccess
  <2>2. Less(toHost', toHost) BY <2>1, GetOpIs
  <2>3. /\ host = "success" /\ toPi' = toPi /\ faults' = faults /\ pi' = pi /\ addr' = addr /\ nbytes' = nbytes
        /\ cksum' = cksum /\ mem' = mem /\ loaded' = loaded
    BY <1>10 DEF AwaitSuccess
  <2>4. CASE op = "BOOT_SUCCESS"
    <3>1. cur \in Nat /\ \A j \in Pis : j \in Nat BY Constants DEF IInv, Types
    <3>2. \A j \in Pis : Ahead(j)' => Ahead(j) BY <2>1, <2>4, <3>1 DEF Ahead
    <3>3. host' = "open" BY <2>1, <2>4
    <3>4. QED BY <2>3, <3>2, <3>3 DEF Exact
  <2>5. CASE op # "BOOT_SUCCESS"
    <3>1. Shrinks BY <1>1, <1>2, <2>1, <2>2, <2>3, <2>5 DEF Shrinks
    <3>2. QED BY <2>3, <3>1, StillExact
  <2>6. QED BY <2>4, <2>5
<1>11. CASE ReadTimesOut
  <2>1. host \notin {"open", "echo", "died"} BY <1>11 DEF ReadTimesOut, Starved, GettingOp
  <2>2. Shrinks BY <1>1, <1>2, <1>11, <2>1 DEF Shrinks, ReadTimesOut
  <2>3. QED BY <1>11, <2>2, StillExact DEF ReadTimesOut
<1>12. CASE PrintAll
  <2>1. Less(toHost', toHost) BY <1>1, <1>12, TailLess DEF PrintAll
  <2>2. Shrinks BY <1>1, <1>2, <1>12, <2>1 DEF Shrinks, PrintAll
  <2>3. QED BY <1>12, <2>2, StillExact DEF PrintAll
<1>13. QED BY <1>3, <1>4, <1>5, <1>6, <1>7, <1>8, <1>9, <1>10, <1>11, <1>12 DEF Host

LEMMA ReadsExact ==
  ASSUME IInv, IInv', Exact, NEW i \in Pis, Reads(i)
  PROVE  Exact'
<1> USE DEF hostVars
<1>1. i = cur /\ cur < NPis /\ host \notin {"open", "drain", "discard"} BY ReadsIs
<1>2. cur' = cur /\ host' = host
  BY DEF Reads, HasData, GetPutProgInfo, GetInfo, GetPutCode, GetCodeByte, Succeed, Fail
<1> USE DEF getVars, branchVars
<1>3. pi \in [Pis -> PiStates] /\ cksum \in [Pis -> Words \cup {"other"}]
      /\ nbytes \in [Pis -> 0..(Rest + 3)] /\ mem \in [Pis -> Seq(Byte)]
      /\ toPi \in Seq(Byte)
  BY DEF IInv, Types
<1>4. \A j \in Pis : Ahead(j)' => Ahead(j) /\ j # i BY <1>1, <1>2, Constants DEF Ahead, IInv, Types
<1>5. Program' = Program BY <1>2 DEF Program
<1> DEFINE Follows ==
         /\ pi'[i] = "op" => toPi' = Info
         /\ pi'[i] = "info" => toPi' = Drop(Info, 4)
         /\ pi'[i] = "put" => cksum'[i] = "CRC" /\ nbytes'[i] = Rest + 2
                               /\ toPi' \in {<<>>, Program}
         /\ pi'[i] = "code" => mem'[i] \o toPi' = Code(i) /\ nbytes'[i] = Rest + 2
         /\ pi'[i] \in {"run", "reboot"} => toPi' = <<>>
         /\ host \in {"info", "crc"} /\ Has(toHost', "CRC") => pi'[i] = "put"
         /\ pi'[i] # "wait" /\ \A j \in Pis : j # i => pi'[j] = pi[j]
<1>6. ASSUME Follows PROVE Exact' BY <1>1, <1>2, <1>4, <1>5, <1>6 DEF Exact
<1>7. CASE HasData(i)
  <2>1. /\ toPi # <<>> /\ pi[i] = "wait" /\ pi' = [pi EXCEPT ![i] = "op"]
        /\ toPi' = toPi /\ toHost' = toHost
    BY <1>7 DEF HasData
  <2>2. pi'[i] = "op" /\ \A j \in Pis : j # i => pi'[j] = pi[j] BY <1>3, <2>1
  <2>3. toPi = Info /\ ~(host \in {"info", "crc"} /\ Has(toHost, "CRC"))
    BY <1>1, <2>1 DEF Exact
  <2>4. Follows BY <2>1, <2>2, <2>3
  <2>5. QED BY <1>6, <2>4
<1>8. CASE GetPutProgInfo(i)
  <2>1. pi[i] = "op" /\ toPi' = Drop(toPi, 4) BY <1>8 DEF GetPutProgInfo
  <2>2. toPi = Info /\ ~(host \in {"info", "crc"} /\ Has(toHost, "CRC"))
    BY <1>1, <2>1 DEF Exact
  <2>3. pi' = [pi EXCEPT ![i] = "info"] /\ toHost' = toHost
    BY <1>8, <2>2, InfoWords DEF GetPutProgInfo, Goes
  <2>4. pi'[i] = "info" /\ \A j \in Pis : j # i => pi'[j] = pi[j] BY <1>3, <2>3
  <2>5. Follows BY <2>1, <2>2, <2>3, <2>4
  <2>6. QED BY <1>6, <2>5
<1>9. CASE GetInfo(i)
  <2>1. pi[i] = "info" /\ toPi' = Drop(toPi, 12) BY <1>9 DEF GetInfo
  <2>2. toPi = Drop(Info, 4) /\ ~(host \in {"info", "crc"} /\ Has(toHost, "CRC"))
    BY <1>1, <2>1 DEF Exact
  <2>3. toPi' = <<>> BY <2>1, <2>2, InfoWords
  <2>4. cksum'[i] = "CRC" BY <1>3, <1>9, <2>2, InfoWords DEF GetInfo
  <2>5. nbytes'[i] = Rest + 2
    <3>1. PICK n \in NBytes(WordAt(toPi, 5)) : nbytes' = [nbytes EXCEPT ![i] = n]
      BY <1>9 DEF GetInfo
    <3>2. n = Rest + 2 BY <2>2, <3>1, InfoWords DEF NBytes
    <3>3. QED BY <1>3, <3>1, <3>2
  <2>6. CASE pi' = [pi EXCEPT ![i] = "put"]
    <3>1. pi'[i] = "put" /\ \A j \in Pis : j # i => pi'[j] = pi[j] BY <1>3, <2>6
    <3>2. Follows BY <2>3, <2>4, <2>5, <3>1
    <3>3. QED BY <1>6, <3>2
  <2>7. CASE Panic(i)
    <3>1. pi' = [pi EXCEPT ![i] = "reboot"] /\ (Has(toHost', "CRC") => Has(toHost, "CRC"))
      BY <2>7, PanicIs
    <3>2. pi'[i] = "reboot" /\ \A j \in Pis : j # i => pi'[j] = pi[j] BY <1>3, <3>1
    <3>3. Follows BY <2>2, <2>3, <3>1, <3>2
    <3>4. QED BY <1>6, <3>3
  <2>8. QED BY <1>9, <2>6, <2>7 DEF GetInfo, Goes
<1>10. CASE GetPutCode(i)
  <2>1. /\ pi[i] = "put" /\ Len(toPi) >= 4 /\ toPi' = Drop(toPi, 4)
        /\ mem' = [mem EXCEPT ![i] = <<>>] /\ nbytes' = nbytes
    BY <1>10 DEF GetPutCode
  <2>2. toPi = Program /\ nbytes[i] = Rest + 2
    <3>1. toPi # <<>> BY <1>3, <2>1, NotEmpty
    <3>2. QED BY <1>1, <2>1, <3>1 DEF Exact
  <2>3. WordAt(toPi, 1) = "PUT_CODE" /\ toPi' = Code(i) /\ Code(i) \in Seq(Byte)
    BY <1>1, <2>1, <2>2, ProgramWords
  <2>4. pi' = [pi EXCEPT ![i] = "code"] BY <1>10, <2>3 DEF GetPutCode, Goes
  <2>5. pi'[i] = "code" /\ \A j \in Pis : j # i => pi'[j] = pi[j] BY <1>3, <2>4
  <2>6. mem'[i] = <<>> BY <1>3, <2>1
  <2>7. mem'[i] \o toPi' = Code(i) BY <2>3, <2>6, EmptyFirst
  <2>8. host \notin {"info", "crc"} BY <1>1, <1>2, <2>5 DEF IInv, Exchange
  <2>9. Follows BY <2>1, <2>2, <2>5, <2>7, <2>8
  <2>10. QED BY <1>6, <2>9
<1>11. CASE GetCodeByte(i)
  <2>1. /\ pi[i] = "code" /\ toPi # <<>> /\ toPi' = Tail(toPi)
        /\ mem' = [mem EXCEPT ![i] = Append(mem[i], Head(toPi))]
        /\ pi' = pi /\ nbytes' = nbytes
    BY <1>11 DEF GetCodeByte
  <2>2. mem[i] \o toPi = Code(i) /\ nbytes[i] = Rest + 2 BY <1>1, <2>1 DEF Exact
  <2>3. mem'[i] = Append(mem[i], Head(toPi)) /\ mem[i] \in Seq(Byte) BY <1>3, <2>1
  <2>4. mem'[i] \o toPi' = Code(i) BY <1>3, <2>1, <2>2, <2>3, ByteMoves
  <2>5. host \notin {"info", "crc"} BY <1>1, <2>1 DEF IInv, Exchange
  <2>6. Follows BY <2>1, <2>2, <2>4, <2>5
  <2>7. QED BY <1>6, <2>6
<1>12. CASE Succeed(i) \/ Fail(i)
  <2>1. /\ pi[i] = "code" /\ Len(mem[i]) = nbytes[i] /\ toPi' = toPi
        /\ pi' = [pi EXCEPT ![i] = "run"] \/ pi' = [pi EXCEPT ![i] = "reboot"]
    BY <1>12 DEF Succeed, Returns, Fail, Goes
  <2>2. mem[i] \o toPi = Code(i) /\ nbytes[i] = Rest + 2 BY <1>1, <2>1 DEF Exact
  <2>3. toPi = <<>>
    <3>1. mem[i] \in Seq(Byte) /\ Len(mem[i]) = Len(Code(i))
      BY <1>1, <1>3, <2>1, <2>2, ProgramWords
    <3>2. QED BY <1>3, <2>2, <3>1, AllRead
  <2>4. pi'[i] \in {"run", "reboot"} /\ \A j \in Pis : j # i => pi'[j] = pi[j] BY <1>3, <2>1
  <2>5. host \notin {"info", "crc"} BY <1>1, <2>1 DEF IInv, Exchange
  <2>6. Follows BY <2>1, <2>3, <2>4, <2>5
  <2>7. QED BY <1>6, <2>6
<1>13. QED BY <1>7, <1>8, <1>9, <1>10, <1>11, <1>12 DEF Reads

LEMMA TalksExact ==
  ASSUME IInv, Exact, NEW i \in Pis, Resend(i) \/ Deaf(i) \/ Reboot(i)
  PROVE  Exact'
<1> USE DEF hostVars, piVars, getVars, branchVars
<1>1. ~Deaf(i)
  <2>1. SUFFICES ASSUME Deaf(i) PROVE FALSE OBVIOUS
  <2>2. Connected(i) /\ pi[i] = "reboot" /\ toPi # <<>> BY <2>1 DEF Deaf
  <2>3. i = cur /\ cur < NPis /\ host \in {"drain", "discard", "printing", "info", "crc", "success"}
    BY <2>2, ConnectedIs
  <2>4. host \notin {"open", "drain", "discard"} BY <2>2, <2>3 DEF Exact, Ahead
  <2>5. QED BY <2>2, <2>3, <2>4 DEF Exact
<1>2. /\ Bytes("GET_PROG_INFO") \in Seq(Byte) /\ ~Has(Bytes("GET_PROG_INFO"), "CRC")
      /\ pi \in [Pis -> PiStates]
  BY BytesOf, SomeWords DEF IInv, Types
<1>3. Has(toHost', "CRC") => Has(toHost, "CRC")
  BY <1>1, <1>2, SendsIs DEF Resend, Reboot
<1>4. cur' = cur /\ host' = host /\ toPi' = toPi BY <1>1 DEF Resend, Reboot
<1>5. Program' = Program /\ \A j \in Pis : Ahead(j)' => Ahead(j) BY <1>4 DEF Program, Ahead
<1>6. CASE Resend(i)
  <2>1. pi' = pi /\ nbytes' = nbytes /\ cksum' = cksum /\ mem' = mem BY <1>6 DEF Resend
  <2>2. QED BY <1>3, <1>4, <1>5, <2>1 DEF Exact
<1>7. CASE Reboot(i)
  <2>1. pi[i] = "reboot" /\ pi' = [pi EXCEPT ![i] = "wait"] BY <1>7 DEF Reboot, Goes
  <2>2. /\ nbytes' = [nbytes EXCEPT ![i] = 0] /\ cksum' = [cksum EXCEPT ![i] = "other"]
        /\ mem' = [mem EXCEPT ![i] = <<>>]
    BY <1>7 DEF Reboot, Forgets
  <2>3. pi'[i] = "wait" /\ \A j \in Pis : j # i => pi'[j] = pi[j] BY <1>2, <2>1
  <2>4. /\ \A j \in Pis : j # i => cksum'[j] = cksum[j] /\ nbytes'[j] = nbytes[j] /\ mem'[j] = mem[j]
    BY <2>2 DEF IInv, Types
  <2>5. cur < NPis => cur \in Pis BY Constants DEF IInv, Types, Pis
  <2>6. CASE i = cur
    <3>1. cur < NPis BY <2>6, Constants
    <3>2. host \notin {"open", "drain", "discard"} => toPi' = <<>>
                   /\ ~(host \in {"info", "crc"} /\ Has(toHost, "CRC"))
      BY <1>4, <2>1, <2>6, <3>1 DEF Exact
    <3>3. QED BY <1>3, <1>4, <1>5, <2>3, <2>6, <3>2 DEF Exact
  <2>7. CASE i # cur
    <3>1. cur < NPis => pi'[cur] = pi[cur] /\ cksum'[cur] = cksum[cur]
                        /\ nbytes'[cur] = nbytes[cur] /\ mem'[cur] = mem[cur]
      BY <2>3, <2>4, <2>5, <2>7
    <3>2. \A j \in Pis : Ahead(j)' => pi'[j] = "wait" BY <1>5, <2>3 DEF Exact
    <3>3. QED BY <1>3, <1>4, <1>5, <3>1, <3>2 DEF Exact
  <2>8. QED BY <2>6, <2>7
<1>8. QED BY <1>1, <1>6, <1>7

\* A step without a fault, from a state without one.
LEMMA StepUndisturbed ==
  ASSUME IInv, [Next]_vars, faults' = 0
  PROVE  faults = 0 /\ ~Fault /\ \A i \in Pis : ~Reset(i)
<1>1. faults \in Nat BY Constants DEF IInv, Types
<1>2. ~Fault /\ \A i \in Pis : ~Reset(i) BY <1>1 DEF Fault, Reset
<1>3. faults = 0
  BY <1>2 DEF Next, Host, Reads, Open, Echo, PrintString, PrintAll, Drain, Discard, DrainInfos,
              CheckCrc, AwaitSuccess, ReadTimesOut, HasData, GetPutProgInfo, GetInfo,
              GetPutCode, GetCodeByte, Succeed, Fail, Resend, Deaf, Reboot, Terminated, vars
<1>4. QED BY <1>2, <1>3

LEMMA StepExact ==
  ASSUME IInv, XInv, [Next]_vars, faults' = 0
  PROVE  Exact /\ Exact'
<1>2. ~Fault /\ \A i \in Pis : ~Reset(i) BY StepUndisturbed
<1>3. faults = 0 BY StepUndisturbed
<1>4. Exact BY <1>3 DEF XInv
<1>5. IInv' BY StepInv
<1>6. CASE Host BY <1>4, <1>6, HostExact
<1>7. ASSUME NEW i \in Pis, Reads(i) PROVE Exact' BY <1>4, <1>5, <1>7, ReadsExact
<1>8. ASSUME NEW i \in Pis, Resend(i) \/ Deaf(i) \/ Reboot(i) PROVE Exact'
  BY <1>4, <1>8, TalksExact
<1>9. CASE Terminated \/ UNCHANGED vars
  <2>1. Shrinks /\ toPi' = toPi
    <3>1. /\ toHost \in Seq(Byte) /\ toPi \in Seq(Byte) /\ faults \in 0..MaxFaults
      BY DEF IInv, Types
    <3>2. Less(toPi, toPi) /\ Less(toHost, toHost) BY <3>1, LessSelf
    <3>3. QED BY <1>9, <3>1, <3>2 DEF Terminated, vars, hostVars, piVars, getVars, branchVars, Shrinks
  <2>2. QED BY <1>4, <2>1, StillExact
<1>10. QED BY <1>2, <1>4, <1>6, <1>7, <1>8, <1>9 DEF Next

LEMMA StepQuiet == IInv /\ XInv /\ [Next]_vars => Quiet
<1> SUFFICES ASSUME IInv, XInv, [Next]_vars, faults' = 0, NEW i \in Pis,
                    pi[i] # pi'[i], pi'[i] \in {"reboot", "run"}
             PROVE  toPi' = <<>>
  BY DEF Quiet, Undisturbed
<1>1. Exact' BY StepExact
<1>2. PICK j \in Pis : Reads(j)
  <2>1. faults \in Nat /\ pi \in [Pis -> PiStates] BY Constants DEF IInv, Types
  <2>2. ~Fault /\ \A j \in Pis : ~Reset(j) BY <2>1 DEF Fault, Reset
  <2>3. ~Host /\ ~Terminated /\ ~UNCHANGED vars
    BY DEF Host, Open, Echo, PrintString, PrintAll, Drain, Discard, DrainInfos, CheckCrc,
           AwaitSuccess, ReadTimesOut, Terminated, vars, piVars
  <2>4. \A j \in Pis : ~Resend(j) /\ ~Deaf(j) BY DEF Resend, Deaf, piVars
  <2>5. \A j \in Pis : ~Reboot(j)
    <3>1. SUFFICES ASSUME NEW j \in Pis, Reboot(j) PROVE FALSE OBVIOUS
    <3>2. pi' = [pi EXCEPT ![j] = "wait"] BY <3>1 DEF Reboot, Goes
    <3>3. QED BY <2>1, <3>2
  <2>6. QED BY <2>2, <2>3, <2>4, <2>5 DEF Next
<1>3. j = cur /\ cur < NPis /\ host \notin {"open", "drain", "discard"} BY <1>2, ReadsIs
<1>4. cur' = cur /\ host' = host
  BY <1>2 DEF Reads, HasData, GetPutProgInfo, GetInfo, GetPutCode, GetCodeByte, Succeed, Fail,
              hostVars
<1>5. i = j
  <2>1. pi \in [Pis -> PiStates] BY DEF IInv, Types
  <2>2. \E q : pi' = [pi EXCEPT ![j] = q] \/ pi' = pi
    BY <1>2 DEF Reads, HasData, GetPutProgInfo, GetInfo, GetPutCode, GetCodeByte, Succeed, Fail,
                Goes, Panic, Returns
  <2>3. QED BY <2>1, <2>2
<1>6. QED BY <1>1, <1>3, <1>4, <1>5 DEF Exact

\* The Pi of an undisturbed exchange prints only when nothing is on its way to
\* it (get_code, get-code.h:63-65), for every number of Pis and every program.
THEOREM QuietCorrect == Spec => QuietWhenPrinting
<1>1. Init => XInv BY InitExact DEF XInv
<1>2. IInv /\ XInv /\ [Next]_vars => XInv' BY StepExact DEF XInv
<1>3. IInv /\ XInv /\ [Next]_vars => Quiet BY StepQuiet
<1>4. Spec => []IInv BY InvariantCorrect
<1>5. QED BY <1>1, <1>2, <1>3, <1>4, PTL DEF Spec, QuietWhenPrinting, Quiet

-----------------------------------------------------------------------------
(* The refinement.                                                         *)

\* Until something is disturbed, the program goes to ARMBASE.
Home ==
  faults = 0 => \A i \in Pis : pi[i] \in {"put", "code"} => addr[i] = "ARMBASE"

LEMMA StepHome ==
  ASSUME IInv, XInv, Home, [Next]_vars
  PROVE  Home'
<1> USE DEF getVars
<1> SUFFICES ASSUME faults' = 0, NEW i \in Pis, pi'[i] \in {"put", "code"}
             PROVE  addr'[i] = "ARMBASE"
  BY DEF Home
<1>1. ~Fault /\ \A j \in Pis : ~Reset(j) BY StepUndisturbed
<1>2. Exact BY StepExact
<1>3. pi[i] \in {"put", "code"} => addr[i] = "ARMBASE" BY StepUndisturbed DEF Home
<1>4. pi \in [Pis -> PiStates] /\ addr \in [Pis -> Places] BY DEF IInv, Types
<1>5. CASE addr' = addr /\ pi'[i] = pi[i] BY <1>3, <1>5
<1>6. CASE Host \/ Terminated \/ UNCHANGED vars
  <2>1. addr' = addr /\ pi' = pi
    BY <1>6 DEF Host, Open, Echo, PrintString, PrintAll, Drain, Discard, DrainInfos, CheckCrc,
                AwaitSuccess, ReadTimesOut, Terminated, vars, piVars
  <2>2. QED BY <1>5, <2>1
<1>7. ASSUME NEW j \in Pis, Reads(j) PROVE addr'[i] = "ARMBASE"
  <2>1. CASE GetInfo(j)
    <3>1. PICK a \in Addresses(WordAt(toPi, 1)) : addr' = [addr EXCEPT ![j] = a]
      BY <2>1 DEF GetInfo
    <3>2. CASE j = i
      <4>1. pi[i] = "info" BY <2>1, <3>2 DEF GetInfo
      <4>2. i = cur /\ cur < NPis /\ host \notin {"open", "drain", "discard"}
        BY <1>7, <3>2, ReadsIs
      <4>3. toPi = Drop(Info, 4) BY <1>2, <4>1, <4>2 DEF Exact
      <4>4. a = "ARMBASE" BY <3>1, <4>3, InfoWords DEF Addresses
      <4>5. QED BY <1>4, <3>1, <3>2, <4>4
    <3>3. CASE j # i
      <4>1. addr'[i] = addr[i] BY <1>4, <3>1, <3>3
      <4>2. pi'[i] = pi[i] BY <1>4, <2>1, <3>3 DEF GetInfo, Goes, Panic
      <4>3. QED BY <1>3, <4>1, <4>2
    <3>4. QED BY <3>2, <3>3
  <2>2. CASE Succeed(j)
    <3>1. /\ addr' = [addr EXCEPT ![j] = "zero"]
          /\ \E q \in {"run", "reboot"} : pi' = [pi EXCEPT ![j] = q]
      BY <2>2 DEF Succeed, Returns, Goes, Forgets
    <3>2. j # i BY <1>4, <3>1
    <3>3. addr'[i] = addr[i] /\ pi'[i] = pi[i] BY <1>4, <3>1, <3>2
    <3>4. QED BY <1>3, <3>3
  <2>3. CASE HasData(j) \/ GetPutProgInfo(j) \/ GetPutCode(j) \/ GetCodeByte(j) \/ Fail(j)
    <3>1. addr' = addr BY <2>3 DEF HasData, GetPutProgInfo, GetPutCode, GetCodeByte, Fail
    <3>2. \/ pi' = pi
          \/ \E q \in {"op", "info", "reboot"} : pi' = [pi EXCEPT ![j] = q]
          \/ pi[j] = "put" /\ pi' = [pi EXCEPT ![j] = "code"]
      BY <2>3 DEF HasData, GetPutProgInfo, GetPutCode, GetCodeByte, Fail, Goes, Panic
    <3>3. pi[i] \in {"put", "code"} BY <1>4, <3>2
    <3>4. QED BY <1>3, <3>1, <3>3
  <2>4. QED BY <1>7, <2>1, <2>2, <2>3 DEF Reads
<1>8. ASSUME NEW j \in Pis, Resend(j) \/ Deaf(j) PROVE addr'[i] = "ARMBASE"
  BY <1>5, <1>8 DEF Resend, Deaf, piVars
<1>9. ASSUME NEW j \in Pis, Reboot(j) PROVE addr'[i] = "ARMBASE"
  <2>1. addr' = [addr EXCEPT ![j] = "zero"] /\ pi' = [pi EXCEPT ![j] = "wait"]
    BY <1>9 DEF Reboot, Goes, Forgets
  <2>2. j # i BY <1>4, <2>1
  <2>3. addr'[i] = addr[i] /\ pi'[i] = pi[i] BY <1>4, <2>1, <2>2
  <2>4. QED BY <1>3, <2>3
<1>10. QED BY <1>1, <1>6, <1>7, <1>8, <1>9 DEF Next

LEMMA InitImplements == Init => L!Init
BY DEF Init, L!Init, Pis

\* The steps that my-install and the Pis take on what is there.
Same == loaded' = loaded /\ returned' = returned /\ cur' = cur /\ faults' = faults

\* The return of get_code is Loader's Load.
LEMMA SucceedImplements ==
  ASSUME IInv, Home, NEW i \in Pis, Succeed(i)
  PROVE  L!Load
<1>1. /\ pi[i] = "code" /\ cur' = cur /\ faults' = faults
      /\ loaded' = [loaded EXCEPT ![i] = mem[i]]
      /\ returned' = [returned EXCEPT ![i] = addr[i]]
  BY DEF Succeed, Returns, hostVars
<1>2. i = cur /\ cur < NPis /\ loaded[i] = <<>> BY <1>1, PastIs DEF Past
<1>3. mem[i] = Code(i) BY <1>1, SucceedIs DEF Succeed, Returns
<1>4. addr[i] \in {"ARMBASE"} \cup {"zero", "elsewhere"} BY DEF IInv, Types, Places
<1>5. addr[i] = "ARMBASE" \/ faults > 0
  <2>1. faults \in Nat BY Constants DEF IInv, Types
  <2>2. QED BY <1>1, <2>1 DEF Home
<1>6. QED BY <1>1, <1>2, <1>3, <1>4, <1>5 DEF L!Load

\* BOOT_SUCCESS is Loader's Report.
LEMMA AwaitImplements ==
  ASSUME IInv, AwaitSuccess
  PROVE  L!Report \/ Same
<1>1. PICK op \in Words \cup {"other"} :
        /\ GetOp(op)
        /\ IF op = "BOOT_SUCCESS"
           THEN host' = "open" /\ cur' = cur + 1
           ELSE UNCHANGED hostVars
  BY DEF AwaitSuccess
<1>2. loaded' = loaded /\ returned' = returned /\ faults' = faults /\ host = "success"
  BY DEF AwaitSuccess, piVars, branchVars
<1>3. CASE op = "BOOT_SUCCESS"
  <2>1. Has(toHost, "BOOT_SUCCESS") BY <1>1, <1>3, GetOpIs, SomeWords
  <2>2. cur < NPis /\ loaded[cur] = Code(cur) BY <1>2, <2>1, SuccessIs
  <2>3. QED BY <1>1, <1>2, <1>3, <2>2 DEF L!Report
<1>4. CASE op # "BOOT_SUCCESS" BY <1>1, <1>2, <1>4 DEF hostVars, Same
<1>5. QED BY <1>3, <1>4

\* What is lost, garbled or loses power is Loader's Disturb.
LEMMA FaultImplements ==
  ASSUME IInv, Fault \/ \E i \in Pis : Reset(i)
  PROVE  L!Disturb
<1>1. faults' = faults + 1 /\ loaded' = loaded /\ returned' = returned /\ cur' = cur
  BY DEF Fault, Reset, hostVars, piVars, branchVars
<1>2. faults' > 0
  <2>1. faults \in Nat BY Constants DEF IInv, Types
  <2>2. QED BY <1>1, <2>1
<1>3. QED BY <1>1, <1>2 DEF L!Disturb

LEMMA StepImplements == IInv /\ Home /\ [Next]_vars => [L!Next]_(L!vars)
<1> SUFFICES ASSUME IInv, Home, [Next]_vars PROVE L!Next \/ Same BY DEF L!vars, Same
<1> USE DEF hostVars, piVars, branchVars
<1>1. ASSUME Host PROVE L!Next \/ Same
  <2>1. CASE AwaitSuccess BY <2>1, AwaitImplements DEF L!Next
  <2>2. CASE \/ Open \/ Echo \/ PrintString \/ PrintAll \/ Drain \/ Discard
             \/ DrainInfos \/ CheckCrc \/ ReadTimesOut
    BY <2>2 DEF Open, Echo, PrintString, PrintAll, Drain, Discard, DrainInfos, CheckCrc,
                ReadTimesOut, Same
  <2>3. QED BY <1>1, <2>1, <2>2 DEF Host
<1>2. ASSUME NEW i \in Pis, Reads(i) PROVE L!Next \/ Same
  <2>1. CASE Succeed(i) BY <2>1, SucceedImplements DEF L!Next
  <2>2. CASE \/ HasData(i) \/ GetPutProgInfo(i) \/ GetInfo(i) \/ GetPutCode(i)
             \/ GetCodeByte(i) \/ Fail(i)
    BY <2>2 DEF HasData, GetPutProgInfo, GetInfo, GetPutCode, GetCodeByte, Fail, Same
  <2>3. QED BY <1>2, <2>1, <2>2 DEF Reads
<1>3. ASSUME NEW i \in Pis, Resend(i) \/ Deaf(i) \/ Reboot(i) PROVE Same
  BY <1>3 DEF Resend, Deaf, Reboot, Same
<1>4. CASE Fault \/ \E i \in Pis : Reset(i) BY <1>4, FaultImplements DEF L!Next
<1>5. CASE Terminated \/ UNCHANGED vars BY <1>5 DEF Terminated, vars, Same
<1>6. QED BY <1>1, <1>2, <1>3, <1>4, <1>5 DEF Next

\* The Pis are loaded in order, once each, with exactly the program sent to them
\* and their own rank in it, and my-install goes on only from a Pi that has all
\* of its program, at ARMBASE unless something was lost or garbled or lost power
\* (my-install.c, simple_boot, get_code), for every number of Pis, program and
\* number of faults.
THEOREM ImplementsCorrect == Spec => Implements
<1>1. Init => L!Init BY InitImplements
<1>2. Init => XInv BY InitExact DEF XInv
<1>3. Init => Home BY DEF Init, Home
<1>4. IInv /\ XInv /\ [Next]_vars => XInv' BY StepExact DEF XInv
<1>5. IInv /\ XInv /\ Home /\ [Next]_vars => Home' BY StepHome
<1>6. IInv /\ Home /\ [Next]_vars => [L!Next]_(L!vars) BY StepImplements
<1>7. Spec => []IInv BY InvariantCorrect
<1>8. QED BY <1>1, <1>2, <1>3, <1>4, <1>5, <1>6, <1>7, PTL DEF Spec, Implements, L!Spec
=============================================================================
