--------------------------- MODULE CircularProofs ---------------------------
(***************************************************************************)
(* Proofs about Circular for every queue size, value set and call size:    *)
(* the types, which asserts of circular.h hold, what the peeks see, and    *)
(* that the queue implements Fifo.  The argument is about distances on the *)
(* ring: the space a push has counted can only grow, since head is the     *)
(* producer's, and the elements a pop has counted can only grow, since     *)
(* tail is the consumer's.  While a cq_peek_n lends tail the elements from *)
(* its start to head are, modulo the size, those there were and those that *)
(* have been pushed since, which is what its assert compares.              *)
(***************************************************************************)
EXTENDS Circular, TLAPS

\* The elements from t to h, and the slot of the k-th of them.
Distance(h, t) == (h - t) % CQ_N
Place(first, k) == (first + k - 1) % CQ_N

\* The strengthening: what each side still relies on between two of its steps.
Types ==
    /\ c_buf \in [Slot -> Value] /\ head \in Slot /\ tail \in Slot
    /\ isr \in {"producer", "consumer"} /\ ints \in BOOLEAN
    /\ ppc \in {"idle", "1", "2"} /\ data \in Seq(Value)
    /\ cpc \in {"idle", "test", "1", "2", "peek", "peeked", "restore", "check"}
    /\ left \in Nat /\ e \in Value /\ taken \in Value /\ seen \in Seq(Value)
    /\ saved \in Slot \cup {-1} /\ sz \in 0..(CQ_N - 1) /\ pushed \in Nat
    /\ panicked \in {"no", "buffer should have space", "will deadlock", "sz == cq_nelem(c)"}

\* A push under way has something to push and the space for all of it, also
\* when the handler that interrupts it puts tail back.
Space ==
    ppc # "idle" =>
        /\ Len(data) \in 1..(CQ_N - 1 - Distance(head, tail))
        /\ isr = "consumer" => Len(data) <= CQ_N - 1 - Distance(head, Oldest)

\* A pop past its test, and a peek, have an element at tail.
Front ==
    /\ cpc \in {"1", "2", "peek"} => head # tail
    /\ cpc = "2" => e = c_buf[tail]
    /\ cpc \in {"test", "1", "2"} => left \in Nat \ {0}

\* Inside cq_peek_n the distance from its start to head counts the pushes, and
\* as many elements as are still to be popped are left.
Lent ==
    /\ cpc \in {"restore", "check"} => saved # -1
    /\ cpc \in {"idle", "peek", "peeked"} => saved = -1
    /\ saved # -1 => Distance(head, saved) = (sz + pushed) % CQ_N
    /\ saved # -1 /\ cpc \in {"test", "1", "2"} => left <= Distance(head, tail)
    /\ cpc = "check" => tail = saved

\* What an undisturbed peek has read, and where it stands.
Reads(first) == \A k \in 1..Len(seen) : seen[k] = c_buf[Place(first, k)]
Looks ==
    /\ Len(seen) <= sz /\ Reads(saved)
    /\ cpc \in {"test", "1"} => Len(seen) + left <= sz /\ tail = Place(saved, Len(seen) + 1)
    /\ cpc = "2" => /\ Len(seen) \in 1..sz /\ Len(seen) + left <= sz + 1
                    /\ tail = Place(saved, Len(seen))
Seen ==
    ~Disturbed =>
        /\ saved # -1 => Looks
        /\ cpc = "peeked" => Len(seen) <= Distance(head, tail) /\ Reads(tail)

Inv == Types /\ Space /\ Front /\ Lent /\ Seen /\ AssertsHold

-----------------------------------------------------------------------------
(* Distances on the ring.                                                  *)

LEMMA Size == CQ_N \in Nat \ {0, 1}
  BY CircularAssumption

LEMMA DistanceIs ==
    ASSUME NEW h \in Slot, NEW t \in Slot
    PROVE  /\ Distance(h, t) = IF h >= t THEN h - t ELSE h - t + CQ_N
           /\ NElem(h, t) = Distance(h, t)
  <1>1. h - t \in (1 - CQ_N)..(CQ_N - 1)
    BY Size DEF Slot
  <1>2. NElem(h, t) = (h - t) % CQ_N
    BY <1>1, CircularAssumption DEF NElem
  <1>3. (h - t) % CQ_N = IF h >= t THEN h - t ELSE h - t + CQ_N
    BY Size DEF Slot
  <1> QED BY <1>2, <1>3 DEF Distance

LEMMA IncrIs ==
    ASSUME NEW i \in Slot
    PROVE  Incr(i) = IF i = CQ_N - 1 THEN 0 ELSE i + 1
  BY Size DEF Slot, Incr

\* What the tests of the indices mean for the distance.
LEMMA Tests ==
    ASSUME NEW h \in Slot, NEW t \in Slot
    PROVE  /\ Distance(h, t) \in 0..(CQ_N - 1)
           /\ h = t <=> Distance(h, t) = 0
           /\ Incr(h) = t <=> Distance(h, t) = CQ_N - 1
  <1>1. Distance(h, t) = IF h >= t THEN h - t ELSE h - t + CQ_N
    BY DistanceIs
  <1>2. Incr(h) = IF h = CQ_N - 1 THEN 0 ELSE h + 1
    BY IncrIs
  <1> QED BY <1>1, <1>2, Size DEF Slot

\* Moving head adds one element, moving tail takes one.
LEMMA Moves ==
    ASSUME NEW h \in Slot, NEW t \in Slot
    PROVE  /\ Incr(h) \in Slot
           /\ Incr(h) # t => Distance(Incr(h), t) = Distance(h, t) + 1
           /\ h # t => Distance(h, Incr(t)) = Distance(h, t) - 1
  <1>1. /\ Incr(h) = IF h = CQ_N - 1 THEN 0 ELSE h + 1
        /\ Incr(t) = IF t = CQ_N - 1 THEN 0 ELSE t + 1
    BY IncrIs
  <1>2. Incr(h) \in Slot /\ Incr(t) \in Slot
    BY <1>1, Size DEF Slot
  <1>3. Distance(h, t) = IF h >= t THEN h - t ELSE h - t + CQ_N
    BY DistanceIs
  <1>4. Distance(Incr(h), t) = IF Incr(h) >= t THEN Incr(h) - t ELSE Incr(h) - t + CQ_N
    BY <1>2, DistanceIs
  <1>5. Distance(h, Incr(t)) = IF h >= Incr(t) THEN h - Incr(t) ELSE h - Incr(t) + CQ_N
    BY <1>2, DistanceIs
  <1> QED BY <1>1, <1>2, <1>3, <1>4, <1>5, Size DEF Slot

-----------------------------------------------------------------------------
(* Segments of the ring, as sequences.                                     *)

Segment(b, first, n) == [k \in 1..n |-> b[Place(first, k)]]

LEMMA Wrap ==
    ASSUME NEW i \in 0..(2 * CQ_N - 1)
    PROVE  i % CQ_N = IF i < CQ_N THEN i ELSE i - CQ_N
  BY Size

LEMMA PlaceIs ==
    ASSUME NEW first \in Slot, NEW k \in 1..CQ_N
    PROVE  /\ Place(first, k) = IF first + k - 1 < CQ_N THEN first + k - 1 ELSE first + k - 1 - CQ_N
           /\ Place(first, k) \in Slot
  <1> DEFINE i == first + k - 1
  <1>1. i \in 0..(2 * CQ_N - 1)
    BY Size DEF Slot
  <1> HIDE DEF i
  <1>2. i % CQ_N = IF i < CQ_N THEN i ELSE i - CQ_N
    BY <1>1, Wrap
  <1>3. i % CQ_N \in Slot
    BY <1>1, <1>2, Size DEF Slot
  <1>4. Place(first, k) = IF i < CQ_N THEN i ELSE i - CQ_N
    BY <1>2 DEF Place, i
  <1>5. Place(first, k) \in Slot
    BY <1>3 DEF Place, i
  <1> QED BY <1>4, <1>5, Size DEF i, Slot

LEMMA SegmentIsSeq ==
    ASSUME NEW b \in [Slot -> Value], NEW first \in Slot, NEW n \in 0..CQ_N
    PROVE  /\ Segment(b, first, n) \in Seq(Value)
           /\ Len(Segment(b, first, n)) = n
           /\ \A k \in 1..n : Segment(b, first, n)[k] = b[Place(first, k)]
  <1>1. \A k \in 1..n : k \in 1..CQ_N
    BY Size
  <1>2. \A k \in 1..n : b[Place(first, k)] \in Value
    BY <1>1, PlaceIs
  <1>3. Segment(b, first, n) \in [1..n -> Value]
    BY <1>2 DEF Segment
  <1> QED BY <1>3, Size DEF Segment

\* The slot at head is the one after the last element.
LEMMA HeadIs ==
    ASSUME NEW h \in Slot, NEW t \in Slot
    PROVE  Place(t, Distance(h, t) + 1) = h
  <1>1. Distance(h, t) = IF h >= t THEN h - t ELSE h - t + CQ_N
    BY DistanceIs
  <1>2. Distance(h, t) + 1 \in 1..CQ_N
    BY Tests, Size
  <1> DEFINE k == Distance(h, t) + 1
  <1>3. k \in 1..CQ_N /\ t + k - 1 = IF h >= t THEN h ELSE h + CQ_N
    BY <1>1, <1>2, Size DEF Slot
  <1> HIDE DEF k
  <1>4. Place(t, k) = IF t + k - 1 < CQ_N THEN t + k - 1 ELSE t + k - 1 - CQ_N
    BY <1>3, PlaceIs
  <1>5. Place(t, k) = h
    BY <1>3, <1>4, Size DEF Slot
  <1> QED BY <1>5 DEF k

LEMMA SegmentAppend ==
    ASSUME NEW b \in [Slot -> Value], NEW first \in Slot, NEW n \in 0..(CQ_N - 1)
    PROVE  /\ b[Place(first, n + 1)] \in Value
           /\ Append(Segment(b, first, n), b[Place(first, n + 1)]) = Segment(b, first, n + 1)
  <1> DEFINE s == Segment(b, first, n)  r == Segment(b, first, n + 1)  x == b[Place(first, n + 1)]
  <1>1. n \in 0..CQ_N /\ n + 1 \in 0..CQ_N /\ n + 1 \in 1..CQ_N
    BY Size
  <1>2. x \in Value
    BY <1>1, PlaceIs
  <1>3. s \in Seq(Value) /\ Len(s) = n /\ \A k \in 1..n : s[k] = b[Place(first, k)]
    BY <1>1, SegmentIsSeq
  <1>4. r \in Seq(Value) /\ Len(r) = n + 1 /\ \A k \in 1..(n + 1) : r[k] = b[Place(first, k)]
    BY <1>1, SegmentIsSeq
  <1> HIDE DEF s, r, x
  <1>5. r[n + 1] = x
    BY <1>1, <1>4 DEF x
  <1>6. \A k \in 1..n : r[k] = s[k]
    BY <1>1, <1>3, <1>4
  <1>7. Append(s, x) \in Seq(Value) /\ Len(Append(s, x)) = n + 1
    BY <1>2, <1>3
  <1>8. \A k \in 1..(n + 1) : Append(s, x)[k] = r[k]
    BY <1>1, <1>2, <1>3, <1>5, <1>6
  <1>9. Append(s, x) = r
    BY <1>4, <1>7, <1>8
  <1> QED BY <1>2, <1>9 DEF s, r, x

LEMMA SegmentTail ==
    ASSUME NEW b \in [Slot -> Value], NEW first \in Slot, NEW n \in 1..CQ_N
    PROVE  /\ Segment(b, first, n) # <<>>
           /\ Head(Segment(b, first, n)) = b[first]
           /\ Tail(Segment(b, first, n)) = Segment(b, Incr(first), n - 1)
  <1> DEFINE s == Segment(b, first, n)  r == Segment(b, Incr(first), n - 1)
  <1>1. Incr(first) \in Slot /\ n \in 0..CQ_N /\ n - 1 \in 0..CQ_N /\ 1 \in 1..CQ_N
    BY Moves, Size
  <1>2. s \in Seq(Value) /\ Len(s) = n /\ \A k \in 1..n : s[k] = b[Place(first, k)]
    BY <1>1, SegmentIsSeq
  <1>3. r \in Seq(Value) /\ Len(r) = n - 1 /\ \A k \in 1..(n - 1) : r[k] = b[Place(Incr(first), k)]
    BY <1>1, SegmentIsSeq
  <1>4. Place(first, 1) = first
    BY <1>1, PlaceIs, Size DEF Slot
  <1>5. ASSUME NEW k \in 1..(n - 1)
        PROVE  Place(Incr(first), k) = Place(first, k + 1)
    <2>1. k \in 1..CQ_N /\ k + 1 \in 1..CQ_N
      BY Size
    <2>2. Place(Incr(first), k)
            = IF Incr(first) + k - 1 < CQ_N THEN Incr(first) + k - 1 ELSE Incr(first) + k - 1 - CQ_N
      BY <1>1, <2>1, PlaceIs
    <2>3. Place(first, k + 1)
            = IF first + (k + 1) - 1 < CQ_N THEN first + (k + 1) - 1 ELSE first + (k + 1) - 1 - CQ_N
      BY <2>1, PlaceIs
    <2>4. Incr(first) = IF first = CQ_N - 1 THEN 0 ELSE first + 1
      BY IncrIs
    <2> QED BY <2>1, <2>2, <2>3, <2>4, Size DEF Slot
  <1> HIDE DEF s, r
  <1>6. s # <<>> /\ Head(s) = b[first]
    BY <1>1, <1>2, <1>4
  <1>7. Tail(s) \in Seq(Value) /\ Len(Tail(s)) = n - 1 /\ \A k \in 1..(n - 1) : Tail(s)[k] = s[k + 1]
    BY <1>1, <1>2, <1>6
  <1>8. ASSUME NEW k \in 1..(n - 1) PROVE Tail(s)[k] = r[k]
    <2>1. k + 1 \in 1..n
      BY <1>1
    <2> QED BY <1>2, <1>3, <1>5, <1>7, <2>1
  <1>9. Tail(s) = r
    BY <1>1, <1>3, <1>7, <1>8
  <1> QED BY <1>6, <1>9 DEF s, r

\* Writing the slot at head leaves the elements alone.
LEMMA WriteKeeps ==
    ASSUME NEW b \in [Slot -> Value], NEW h \in Slot, NEW first \in Slot, NEW x \in Value,
           NEW n \in 0..Distance(h, first)
    PROVE  \A k \in 1..n : [b EXCEPT ![h] = x][Place(first, k)] = b[Place(first, k)]
  <1>1. ASSUME NEW k \in 1..n PROVE Place(first, k) \in Slot /\ Place(first, k) # h
    <2>1. Distance(h, first) = IF h >= first THEN h - first ELSE h - first + CQ_N
      BY DistanceIs
    <2>2. Distance(h, first) \in 0..(CQ_N - 1)
      BY Tests
    <2>3. k \in 1..CQ_N /\ k <= Distance(h, first)
      BY <2>2, Size
    <2>4. /\ Place(first, k) = IF first + k - 1 < CQ_N THEN first + k - 1 ELSE first + k - 1 - CQ_N
          /\ Place(first, k) \in Slot
      BY <2>3, PlaceIs
    <2> QED BY <2>1, <2>3, <2>4, Size DEF Slot
  <1> QED BY <1>1

LEMMA SegmentWrite ==
    ASSUME NEW b \in [Slot -> Value], NEW h \in Slot, NEW first \in Slot, NEW x \in Value,
           NEW n \in 0..Distance(h, first)
    PROVE  Segment([b EXCEPT ![h] = x], first, n) = Segment(b, first, n)
  BY WriteKeeps DEF Segment

\* The next place, and the first.
LEMMA PlaceNext ==
    ASSUME NEW first \in Slot, NEW k \in 1..(CQ_N - 1)
    PROVE  Incr(Place(first, k)) = Place(first, k + 1)
  <1>1. k \in 1..CQ_N /\ k + 1 \in 1..CQ_N
    BY Size
  <1>2. /\ Place(first, k) = IF first + k - 1 < CQ_N THEN first + k - 1 ELSE first + k - 1 - CQ_N
        /\ Place(first, k) \in Slot
    BY <1>1, PlaceIs
  <1>3. Place(first, k + 1)
          = IF first + (k + 1) - 1 < CQ_N THEN first + (k + 1) - 1 ELSE first + (k + 1) - 1 - CQ_N
    BY <1>1, PlaceIs
  <1>4. Incr(Place(first, k)) = IF Place(first, k) = CQ_N - 1 THEN 0 ELSE Place(first, k) + 1
    BY <1>2, IncrIs
  <1> QED BY <1>1, <1>2, <1>3, <1>4, Size DEF Slot

LEMMA PlaceFirst == ASSUME NEW first \in Slot PROVE Place(first, 1) = first
  BY PlaceIs, Size DEF Slot

-----------------------------------------------------------------------------
(* Counting round the ring.                                                *)

LEMMA Divide ==
    ASSUME NEW M \in Nat \ {0}, NEW a \in Int
    PROVE  a % M \in 0..(M - 1) /\ a \div M \in Int /\ a = M * (a \div M) + (a % M)
  OBVIOUS

LEMMA Remainder ==
    ASSUME NEW M \in Nat \ {0}, NEW k \in Int, NEW r \in 0..(M - 1)
    PROVE  (M * k + r) % M = r
  OBVIOUS

LEMMA Product == ASSUME NEW M \in Nat, NEW k \in Int PROVE M * (k + 1) = M * k + M /\ M * k \in Int
  OBVIOUS

\* One more, counted round the ring.
LEMMA OneMore ==
    ASSUME NEW a \in Nat
    PROVE  (a + 1) % CQ_N = IF a % CQ_N = CQ_N - 1 THEN 0 ELSE (a % CQ_N) + 1
  <1>0. CQ_N \in Nat \ {0} /\ a \in Int
    BY Size
  <1>1. PICK k \in Int, r \in 0..(CQ_N - 1) : a = CQ_N * k + r /\ r = a % CQ_N
    BY <1>0, Divide
  <1>2. CQ_N * (k + 1) = CQ_N * k + CQ_N /\ CQ_N * k \in Int
    BY Product, Size
  <1>3. CASE r = CQ_N - 1
    <2>1. a + 1 = CQ_N * (k + 1) + 0
      BY <1>1, <1>2, <1>3, Size
    <2>2. (CQ_N * (k + 1) + 0) % CQ_N = 0
      BY Remainder, Size
    <2> QED BY <1>1, <1>3, <2>1, <2>2
  <1>4. CASE r # CQ_N - 1
    <2>1. r + 1 \in 0..(CQ_N - 1) /\ a + 1 = CQ_N * k + (r + 1)
      BY <1>1, <1>2, <1>4, Size
    <2>2. (CQ_N * k + (r + 1)) % CQ_N = r + 1
      BY <2>1, Remainder, Size
    <2> QED BY <1>1, <1>4, <2>1, <2>2
  <1> QED BY <1>3, <1>4

LEMMA HeadMoves ==
    ASSUME NEW h \in Slot, NEW t \in Slot
    PROVE  Distance(Incr(h), t) = IF Distance(h, t) = CQ_N - 1 THEN 0 ELSE Distance(h, t) + 1
  <1>1. /\ Incr(h) = (IF h = CQ_N - 1 THEN 0 ELSE h + 1) /\ Incr(h) \in Slot
        /\ Distance(h, t) = IF h >= t THEN h - t ELSE h - t + CQ_N
    BY IncrIs, Moves, DistanceIs
  <1>2. Distance(Incr(h), t) = IF Incr(h) >= t THEN Incr(h) - t ELSE Incr(h) - t + CQ_N
    BY <1>1, DistanceIs
  <1> QED BY <1>1, <1>2, Size DEF Slot

-----------------------------------------------------------------------------
(* The inductive invariant.                                                *)

LEMMA InitInv == Init => Inv
  <1> SUFFICES ASSUME Init PROVE Inv
    OBVIOUS
  <1>1. Types
    BY Size DEF Init, Types, Slot
  <1> QED BY <1>1 DEF Init, Inv, Space, Front, Lent, Seen, AssertsHold, Disturbed

\* The types of the numbers, apart.
LEMMA Numbers ==
    ASSUME Types
    PROVE  /\ pushed \in Nat /\ sz \in 0..(CQ_N - 1) /\ Len(seen) \in Nat /\ left \in Nat
           /\ tail \in Int /\ tail # -1 /\ taken \in Value
  <1>1. pushed \in Nat /\ sz \in 0..(CQ_N - 1) /\ left \in Nat /\ tail \in Slot /\ taken \in Value
        /\ seen \in Seq(Value)
    BY Zenon DEF Types
  <1> QED BY <1>1, Size DEF Slot

LEMMA Distances ==
    ASSUME Types
    PROVE  /\ Distance(head, tail) \in 0..(CQ_N - 1)
           /\ (head = tail) <=> (Distance(head, tail) = 0)
           /\ (Incr(head) = tail) <=> (Distance(head, tail) = CQ_N - 1)
           /\ cq_nelem = Distance(head, tail)
           /\ cq_nspace = CQ_N - 1 - Distance(head, tail)
  <1>1. cq_nelem = Distance(head, tail)
    BY DistanceIs DEF cq_nelem, Types
  <1> QED BY <1>1, Tests DEF Types, cq_nspace

\* An undisturbed cq_peek_n still finds the queue as long as it was.
LEMMA Undisturbed ==
    ASSUME Types, Lent, saved # -1, ~Disturbed
    PROVE  pushed = 0 /\ Distance(head, saved) = sz
  <1>1. pushed = 0
    BY Numbers DEF Disturbed
  <1>2. sz \in 0..(2 * CQ_N - 1) /\ sz < CQ_N /\ sz + 0 = sz
    BY Numbers, Size
  <1>3. sz % CQ_N = sz
    BY <1>2, Wrap
  <1> QED BY <1>1, <1>2, <1>3 DEF Lent

LEMMA CallPushInv == ASSUME Inv, Running, NEW s \in Blocks, CallPush(s) PROVE Inv'
  <1> USE DEF Inv, Running
  <1>1. /\ Distance(head, tail) \in 0..(CQ_N - 1)
        /\ (Incr(head) = tail) <=> (Distance(head, tail) = CQ_N - 1)
        /\ cq_nspace = CQ_N - 1 - Distance(head, tail)
    BY Distances
  <1>2. s \in Seq(Value) /\ Len(s) \in Nat \ {0}
    BY CircularAssumption DEF Blocks
  <1>3. Len(s) \in 1..(CQ_N - 1 - Distance(head, tail))
    <2>1. IF Len(s) = 1 THEN Incr(head) # tail ELSE cq_nspace >= Len(s)
      BY DEF CallPush, cq_full
    <2> DEFINE d == Distance(head, tail)
    <2>2. d \in 0..(CQ_N - 1) /\ (d = CQ_N - 1 => Incr(head) = tail) /\ cq_nspace = CQ_N - 1 - d
      BY <1>1
    <2> HIDE DEF d
    <2>3. CASE Len(s) = 1
      BY <2>1, <2>2, <2>3, Size DEF d
    <2>4. CASE Len(s) # 1
      BY <1>2, <2>1, <2>2, <2>4, Size DEF d
    <2> QED BY <2>3, <2>4
  <1>4. isr = "consumer" => saved = -1
    BY DEF CallPush, Proceeds, Lent
  <1>5. UNCHANGED <<c_buf, head, tail, isr, ints, cpc, left, e, taken, saved, sz, seen, pushed, panicked>>
        /\ ppc' = "1" /\ data' = s
    BY DEF CallPush, consumer
  <1>6. Types'
    BY <1>2, <1>5 DEF Types
  <1>7. Space'
    <2>1. isr = "consumer" => Oldest' = tail
      BY <1>4, <1>5 DEF Oldest
    <2>2. Len(s) <= CQ_N - 1 - Distance(head, tail)
      BY <1>1, <1>3, Size
    <2> QED BY <1>3, <1>5, <2>1, <2>2 DEF Space
  <1> QED BY <1>5, <1>6, <1>7
          DEF Front, Lent, Seen, Looks, Reads, AssertsHold, cq_empty, cpsr_int_enabled, Disturbed

LEMMA WriteInv == ASSUME Inv, Running, Write PROVE Inv'
  <1> USE DEF Inv, Running
  <1>1. /\ Distance(head, tail) \in 0..(CQ_N - 1)
        /\ (Incr(head) = tail) <=> (Distance(head, tail) = CQ_N - 1)
        /\ cq_nspace = CQ_N - 1 - Distance(head, tail)
    BY Distances
  <1>2. Len(data) \in 1..(CQ_N - 1 - Distance(head, tail)) /\ data \in Seq(Value)
    BY DEF Write, Space, Types
  <1>3. ~cq_full /\ cq_nspace # 0 /\ data[1] \in Value
    <2>1. Distance(head, tail) # CQ_N - 1 /\ cq_nspace # 0
      BY <1>1, <1>2, Size
    <2> QED BY <1>1, <1>2, <2>1, Size DEF cq_full
  <1>4. /\ ppc = "1" /\ ppc' = "2" /\ c_buf' = [c_buf EXCEPT ![head] = data[1]]
        /\ UNCHANGED <<head, tail, isr, ints, data, cpc, left, e, taken, saved, sz, seen, pushed, panicked>>
    BY <1>3 DEF Write, consumer
  <1>5. Types' /\ Space'
    BY <1>3, <1>4 DEF Types, Space, Oldest
  <1>6. Front'
    BY <1>4 DEF Types, Front
  <1>7. ASSUME NEW first \in Slot, Len(seen) \in 0..Distance(head, first), Reads(first)
        PROVE  Reads(first)'
    <2>1. PICK n \in 0..Distance(head, first) : n = Len(seen)
      BY <1>7
    <2>2. \A k \in 1..n : [c_buf EXCEPT ![head] = data[1]][Place(first, k)] = c_buf[Place(first, k)]
      BY <1>3, WriteKeeps DEF Types
    <2> QED BY <1>4, <1>7, <2>1, <2>2 DEF Reads
  <1>8. Seen'
    <2> SUFFICES ASSUME ~Disturbed
                 PROVE  /\ saved # -1 => Looks'
                        /\ cpc = "peeked" => Len(seen) <= Distance(head, tail) /\ Reads(tail)'
      BY <1>4 DEF Seen, Disturbed, Reads
    <2>0. Len(seen) \in Nat
      BY DEF Types
    <2>1. CASE saved # -1
      <3>1. saved \in Slot /\ Distance(head, saved) = sz /\ Looks
        BY <2>1, Undisturbed DEF Types, Seen
      <3>2. Len(seen) \in 0..Distance(head, saved)
        BY <2>0, <3>1, Size DEF Looks, Types
      <3>a. Reads(saved)
        BY <3>1 DEF Looks
      <3>3. Reads(saved)'
        <4>1. PICK first \in Slot : first = saved
          BY <3>1
        <4>2. Reads(first)'
          BY <1>7, <3>2, <3>a, <4>1
        <4> QED BY <1>4, <4>1, <4>2 DEF Reads
      <3>4. Looks'
        BY <1>4, <3>1, <3>3 DEF Looks, Reads
      <3>5. cpc # "peeked"
        BY <2>1 DEF Lent
      <3> QED BY <3>4, <3>5
    <2>2. CASE cpc = "peeked"
      <3>1. Len(seen) <= Distance(head, tail) /\ Reads(tail) /\ saved = -1
        BY <2>2 DEF Seen, Lent
      <3>2. Len(seen) \in 0..Distance(head, tail)
        BY <1>1, <2>0, <3>1, Size
      <3>3. Reads(tail)'
        <4>1. PICK first \in Slot : first = tail
          BY DEF Types
        <4>2. Reads(first)'
          BY <1>7, <3>1, <3>2, <4>1
        <4> QED BY <1>4, <4>1, <4>2 DEF Reads
      <3> QED BY <3>1, <3>3
    <2> QED BY <2>1, <2>2
  <1> QED BY <1>4, <1>5, <1>6, <1>8 DEF Lent, AssertsHold, cq_empty, cpsr_int_enabled, Disturbed

LEMMA PublishInv == ASSUME Inv, Running, Publish PROVE Inv'
  <1> USE DEF Inv, Running
  <1>0. Distance(head, tail) \in 0..(CQ_N - 1)
        /\ ((Incr(head) = tail) <=> (Distance(head, tail) = CQ_N - 1))
    BY Distances
  <1>1. /\ ppc = "2" /\ head' = Incr(head) /\ data' = Tail(data)
        /\ ppc' = IF Len(data) = 1 THEN "idle" ELSE "1"
        /\ pushed' = IF saved = -1 THEN pushed ELSE pushed + 1
        /\ UNCHANGED <<c_buf, tail, isr, ints, cpc, left, e, taken, saved, sz, seen, panicked>>
    BY DEF Publish, consumer
  <1>2. Len(data) \in 1..(CQ_N - 1 - Distance(head, tail)) /\ data \in Seq(Value)
    BY <1>1 DEF Space, Types
  <1>3. Tail(data) \in Seq(Value) /\ Len(Tail(data)) = Len(data) - 1
    BY <1>2
  <1>4. Incr(head) # tail
    BY <1>0, <1>2, Size
  <1>5. Incr(head) \in Slot /\ Distance(Incr(head), tail) = Distance(head, tail) + 1
    BY <1>4, Moves DEF Types
  <1>6. Types'
    BY <1>1, <1>3, <1>5 DEF Types
  <1>7. isr = "consumer" => saved = -1
    BY DEF Publish, Proceeds, Lent
  <1>8. Space'
    <2>1. Len(data) # 1 => Len(data) - 1 \in 1..(CQ_N - 1 - (Distance(head, tail) + 1))
      <3>1. PICK d \in 0..(CQ_N - 1), n \in Int : d = Distance(head, tail) /\ n = Len(data)
        BY <1>0, <1>2
      <3>2. n # 1 => n - 1 \in 1..(CQ_N - 1 - (d + 1))
        BY <1>2, <3>1, Size
      <3> QED BY <3>1, <3>2
    <2>2. isr = "consumer" => Oldest' = tail
      BY <1>1, <1>7 DEF Oldest
    <2>3. Len(data) - 1 <= CQ_N - 1 - (Distance(head, tail) + 1)
      BY <1>0, <1>2, Size
    <2> QED BY <1>1, <1>3, <1>5, <2>1, <2>2, <2>3 DEF Space
  <1>9. Front'
    BY <1>1, <1>4 DEF Front
  <1>10. Lent'
    <2>1. ASSUME saved # -1
          PROVE  Distance(Incr(head), saved) = (sz + (pushed + 1)) % CQ_N
      <3>1. saved \in Slot /\ head \in Slot /\ sz + pushed \in Nat /\ sz + (pushed + 1) = (sz + pushed) + 1
        BY <2>1, Size DEF Types
      <3>2. Distance(Incr(head), saved)
              = IF Distance(head, saved) = CQ_N - 1 THEN 0 ELSE Distance(head, saved) + 1
        BY <3>1, HeadMoves
      <3>3. ((sz + pushed) + 1) % CQ_N
              = IF (sz + pushed) % CQ_N = CQ_N - 1 THEN 0 ELSE ((sz + pushed) % CQ_N) + 1
        BY <3>1, OneMore
      <3>4. Distance(head, saved) = (sz + pushed) % CQ_N
        BY <2>1 DEF Lent
      <3> QED BY <3>1, <3>2, <3>3, <3>4
    <2>2. saved # -1 /\ cpc \in {"test", "1", "2"} => left <= Distance(head, tail) + 1
      BY <1>0, Size DEF Lent, Types
    <2> QED BY <1>1, <1>5, <2>1, <2>2 DEF Lent
  <1>11. Seen'
    <2>1. CASE saved # -1
      <3>1. pushed' > 0
        BY <1>1, <2>1 DEF Types
      <3> QED BY <3>1 DEF Seen, Disturbed
    <2>2. CASE saved = -1
      <3>1. cpc = "peeked" /\ ~Disturbed => Len(seen) <= Distance(head, tail) + 1
        BY <1>0, Size DEF Seen, Types
      <3> QED BY <1>1, <1>5, <2>2, <3>1 DEF Seen, Disturbed, Reads
    <2> QED BY <2>1, <2>2
  <1>12. AssertsHold'
    BY <1>1 DEF AssertsHold, Disturbed, cq_empty, cpsr_int_enabled, Types
  <1> QED BY <1>6, <1>8, <1>9, <1>10, <1>11, <1>12

LEMMA CallPopInv == ASSUME Inv, Running, NEW n \in 1..MaxN, CallPop(n) PROVE Inv'
  <1> USE DEF Inv, Running
  <1>1. /\ cpc = "idle" /\ cpc' = "test" /\ left' = n /\ saved = -1 /\ n \in Nat \ {0}
        /\ UNCHANGED <<c_buf, head, tail, isr, ints, ppc, data, e, taken, saved, sz, seen, pushed, panicked>>
    BY CircularAssumption DEF CallPop, Calls, Lent, producer
  <1>2. Types' /\ Space' /\ Front'
    BY <1>1 DEF Types, Space, Front, Oldest
  <1> QED BY <1>1, <1>2 DEF Lent, Seen, AssertsHold, cq_empty, cpsr_int_enabled, Disturbed

LEMMA CallPeekNInv == ASSUME Inv, Running, NEW n \in 1..MaxN, CallPeekN(n) PROVE Inv'
  <1> USE DEF Inv, Running
  <1>0. Distance(head, tail) \in 0..(CQ_N - 1) /\ cq_nelem = Distance(head, tail)
    BY Distances
  <1>1. /\ cpc = "idle" /\ cpc' = "test" /\ left' = n /\ n \in Nat \ {0}
        /\ saved = -1 /\ saved' = tail /\ pushed = 0 /\ seen' = <<>>
        /\ n <= Distance(head, tail) /\ sz' = Distance(head, tail)
        /\ UNCHANGED <<c_buf, head, tail, isr, ints, ppc, data, e, taken, pushed, panicked>>
    BY <1>0, CircularAssumption DEF CallPeekN, Calls, Lent, producer
  <1>2. tail # -1
    BY Size DEF Types, Slot
  <1>3. Types' /\ Space' /\ Front'
    BY <1>0, <1>1, <1>2 DEF Types, Space, Front, Oldest
  <1>4. Lent'
    <2> DEFINE d == Distance(head, tail)
    <2>1. d \in 0..(2 * CQ_N - 1) /\ d < CQ_N /\ d + 0 = d
      BY <1>0, Size
    <2> HIDE DEF d
    <2>2. d = (d + 0) % CQ_N
      BY <2>1, Wrap
    <2> QED BY <1>1, <1>2, <2>2 DEF Lent, d
  <1>5. Seen'
    <2>1. Len(seen') = 0 /\ tail = Place(tail, 1)
      BY <1>1, PlaceFirst DEF Types
    <2>2. 0 <= sz' /\ 0 + n <= sz' /\ 0 + 1 = 1
      BY <1>0, <1>1, Size
    <2>3. Reads(tail)'
      BY <2>1 DEF Reads
    <2>4. Looks'
      BY <1>1, <2>1, <2>2, <2>3 DEF Looks, Reads
    <2> QED BY <1>1, <2>4 DEF Seen
  <1> QED BY <1>1, <1>3, <1>4, <1>5 DEF AssertsHold, cq_empty, cpsr_int_enabled, Disturbed

LEMMA TestInv == ASSUME Inv, Running, Test PROVE Inv'
  <1> USE DEF Inv, Running
  <1>0. (head = tail) <=> (Distance(head, tail) = 0)
    BY Distances
  <1>1. CASE cq_empty
    <2>1. /\ ~cpsr_int_enabled /\ panicked' = "will deadlock"
          /\ UNCHANGED <<c_buf, head, tail, isr, ints, ppc, data, cpc, left, e, taken, saved, sz, seen, pushed>>
      BY <1>1 DEF Test, Panic, producer
    <2>2. saved = -1
      <3>1. Distance(head, tail) = 0
        BY <1>0, <1>1 DEF cq_empty
      <3>2. cpc = "test" /\ left \in Nat \ {0}
        BY DEF Test, Consumes, Front
      <3>3. ~(left <= 0)
        BY <3>2
      <3> QED BY <3>1, <3>2, <3>3 DEF Lent
    <2>3. Types' /\ Space' /\ Front'
      BY <2>1 DEF Types, Space, Front, Oldest
    <2>4. Lent' /\ Seen'
      BY <2>1 DEF Lent, Seen, Looks, Reads, Disturbed
    <2> QED BY <1>1, <2>1, <2>2, <2>3, <2>4 DEF AssertsHold, cq_empty, cpsr_int_enabled, Disturbed
  <1>2. CASE ~cq_empty
    <2>1. /\ cpc = "test" /\ cpc' = "1"
          /\ UNCHANGED <<c_buf, head, tail, isr, ints, ppc, data, left, e, taken, saved, sz, seen, pushed, panicked>>
      BY <1>2 DEF Test, Consumes, producer
    <2>2. Types' /\ Space' /\ Front' /\ Lent'
      BY <1>2, <2>1 DEF Types, Space, Front, Lent, Oldest, cq_empty
    <2>3. Seen'
      BY <2>1 DEF Seen, Looks, Reads, Disturbed
    <2> QED BY <2>1, <2>2, <2>3 DEF AssertsHold, cq_empty, cpsr_int_enabled, Disturbed
  <1> QED BY <1>1, <1>2

LEMMA ReadInv == ASSUME Inv, Running, Read PROVE Inv'
  <1> USE DEF Inv, Running
  <1>1. /\ cpc = "1" /\ cpc' = "2" /\ e' = c_buf[tail] /\ c_buf[tail] \in Value
        /\ seen' = IF saved = -1 THEN seen ELSE Append(seen, c_buf[tail])
        /\ UNCHANGED <<c_buf, head, tail, isr, ints, ppc, data, left, taken, saved, sz, pushed, panicked>>
    BY DEF Read, Consumes, producer, Types
  <1>2. /\ Append(seen, c_buf[tail]) \in Seq(Value)
        /\ Len(Append(seen, c_buf[tail])) = Len(seen) + 1
        /\ Len(seen) \in Nat
        /\ \A k \in 1..(Len(seen) + 1) :
              Append(seen, c_buf[tail])[k] = IF k = Len(seen) + 1 THEN c_buf[tail] ELSE seen[k]
    BY <1>1 DEF Types
  <1>3. Types'
    BY <1>1, <1>2 DEF Types
  <1>4. Space' /\ Front' /\ Lent'
    BY <1>1 DEF Types, Space, Front, Lent, Oldest
  <1>5. Seen'
    <2>1. CASE saved = -1
      BY <1>1, <2>1 DEF Seen
    <2>2. CASE saved # -1 /\ ~Disturbed
      <3>1. /\ Len(seen) + left <= sz /\ tail = Place(saved, Len(seen) + 1) /\ Reads(saved)
            /\ left \in Nat \ {0}
        BY <1>1, <2>2 DEF Seen, Looks, Front
      <3>2. Len(seen) + 1 \in 1..sz /\ Len(seen) + 1 <= sz /\ (Len(seen) + 1) + left <= sz + 1
        BY <1>2, <3>1, Size DEF Types
      <3>3. Reads(saved)'
        <4>1. \A k \in 1..(Len(seen) + 1) :
                 Append(seen, c_buf[tail])[k] = c_buf[Place(saved, k)]
          BY <1>2, <3>1 DEF Reads
        <4> QED BY <1>1, <1>2, <2>2, <4>1 DEF Reads
      <3>4. Looks'
        BY <1>1, <1>2, <2>2, <3>1, <3>2, <3>3 DEF Looks, Reads
      <3> QED BY <1>1, <3>4 DEF Seen
    <2>3. CASE Disturbed
      BY <1>1, <2>3 DEF Seen, Disturbed
    <2> QED BY <2>1, <2>2, <2>3
  <1> QED BY <1>1, <1>3, <1>4, <1>5 DEF AssertsHold, cq_empty, cpsr_int_enabled, Disturbed

LEMMA ReleaseInv == ASSUME Inv, Running, Release PROVE Inv'
  <1> USE DEF Inv, Running
  <1>0. Distance(head, tail) \in 0..(CQ_N - 1)
    BY Distances
  <1>1. /\ cpc = "2" /\ tail' = Incr(tail) /\ left' = left - 1 /\ left \in Nat \ {0}
        /\ taken' = (IF saved = -1 THEN e ELSE taken)
        /\ cpc' = (IF left > 1 THEN "test" ELSE IF saved = -1 THEN "idle" ELSE "restore")
        /\ UNCHANGED <<c_buf, head, isr, ints, ppc, data, e, saved, sz, seen, pushed, panicked>>
    BY DEF Release, Consumes, Front, producer
  <1>2. head # tail
    BY <1>1 DEF Front
  <1>3. Incr(tail) \in Slot /\ Distance(head, Incr(tail)) = Distance(head, tail) - 1
    BY <1>2, Moves DEF Types
  <1>4. Types'
    BY <1>1, <1>3 DEF Types
  <1>5. Space'
    <2>1. ppc # "idle" => /\ Len(data) \in 1..(CQ_N - 1 - Distance(head, tail))
                          /\ isr = "consumer" => Len(data) <= CQ_N - 1 - Distance(head, Oldest)
      BY DEF Space
    <2>2. ppc # "idle" => Len(data) \in 1..(CQ_N - 1 - Distance(head, Incr(tail)))
      BY <1>0, <1>3, <2>1, Size
    <2>3. ppc # "idle" /\ isr = "consumer" => Len(data) <= CQ_N - 1 - Distance(head, Oldest')
      <3>1. CASE saved = -1
        <4>1. Oldest' = Incr(tail)
          BY <1>1, <3>1 DEF Oldest
        <4>2. ppc # "idle" => Len(data) <= CQ_N - 1 - Distance(head, Incr(tail))
          BY <1>0, <1>3, <2>2, Size
        <4> QED BY <4>1, <4>2
      <3>2. CASE saved # -1
        <4>1. Oldest' = Oldest
          BY <1>1, <3>2 DEF Oldest
        <4> QED BY <2>1, <4>1
      <3> QED BY <3>1, <3>2
    <2> QED BY <1>1, <2>2, <2>3 DEF Space
  <1>6. Front'
    BY <1>1 DEF Front
  <1>7. Lent'
    <2>1. saved # -1 => left - 1 <= Distance(head, Incr(tail))
      BY <1>0, <1>1, <1>3 DEF Lent
    <2>2. cpc' \in {"test", "idle", "restore"} /\ (saved # -1 => cpc' # "idle") /\ (cpc' = "restore" => saved # -1)
          /\ (cpc' = "idle" => saved = -1)
      BY <1>1
    <2> QED BY <1>1, <2>1, <2>2 DEF Lent
  <1>8. Seen'
    <2>1. CASE saved = -1
      BY <1>1, <2>1 DEF Seen
    <2>2. CASE saved # -1 /\ ~Disturbed
      <3>1. /\ Len(seen) \in 1..sz /\ Len(seen) + left <= sz + 1 /\ tail = Place(saved, Len(seen))
            /\ Reads(saved) /\ saved \in Slot /\ sz \in 0..(CQ_N - 1)
        BY <1>1, <2>2 DEF Seen, Looks, Types
      <3>2. Len(seen) \in 1..(CQ_N - 1) /\ Len(seen) <= sz /\ Len(seen) + (left - 1) <= sz
        BY <1>1, <3>1, Size
      <3>3. Incr(tail) = Place(saved, Len(seen) + 1)
        BY <3>1, <3>2, PlaceNext
      <3>4. Looks'
        BY <1>1, <3>1, <3>2, <3>3 DEF Looks, Reads
      <3> QED BY <1>1, <3>4 DEF Seen
    <2>3. CASE Disturbed
      BY <1>1, <2>3 DEF Seen, Disturbed
    <2> QED BY <2>1, <2>2, <2>3
  <1> QED BY <1>1, <1>4, <1>5, <1>6, <1>7, <1>8 DEF AssertsHold, Disturbed

LEMMA RestoreInv == ASSUME Inv, Running, Restore PROVE Inv'
  <1> USE DEF Inv, Running
  <1>1. /\ cpc = "restore" /\ cpc' = "check" /\ tail' = saved /\ saved \in Slot /\ saved # -1
        /\ UNCHANGED <<c_buf, head, isr, ints, ppc, data, left, e, taken, saved, sz, seen, pushed, panicked>>
    BY DEF Restore, Consumes, Lent, producer, Types
  <1>2. Types'
    BY <1>1 DEF Types
  <1>3. Space'
    <2>1. ppc # "idle" => isr = "consumer"
      BY DEF Restore, Consumes, Proceeds, Types
    <2>2. Oldest = saved /\ Oldest' = saved
      BY <1>1 DEF Oldest
    <2>3. Distance(head, saved) \in 0..(CQ_N - 1)
      BY <1>1, Tests DEF Types
    <2>4. ppc # "idle" => /\ Len(data) \in Nat \ {0} /\ Len(data) <= CQ_N - 1 - Distance(head, saved)
      <3> SUFFICES ASSUME ppc # "idle" PROVE Len(data) \in Nat \ {0} /\ Len(data) <= CQ_N - 1 - Distance(head, saved)
        OBVIOUS
      <3>1. Len(data) \in 1..(CQ_N - 1 - Distance(head, tail))
        BY DEF Space
      <3>2. Distance(head, tail) \in 0..(CQ_N - 1)
        BY Distances
      <3> QED BY <2>1, <2>2, <3>1, <3>2, Size DEF Space
    <2>5. ppc # "idle" => Len(data) \in 1..(CQ_N - 1 - Distance(head, saved))
      BY <2>3, <2>4, Size
    <2> QED BY <1>1, <2>2, <2>4, <2>5 DEF Space
  <1>4. Front' /\ Lent'
    BY <1>1 DEF Front, Lent
  <1>5. Seen'
    BY <1>1 DEF Seen, Looks, Reads, Disturbed
  <1> QED BY <1>1, <1>2, <1>3, <1>4, <1>5 DEF AssertsHold, Disturbed

\* The assert sees every push but a whole round of the ring.
LEMMA CheckInv == ASSUME Inv, Running, Check PROVE Inv'
  <1> USE DEF Inv, Running
  <1>1. /\ cpc = "check" /\ tail = saved /\ saved # -1 /\ saved \in Slot
        /\ cq_nelem = Distance(head, tail)
    BY Distances DEF Check, Consumes, Lent, Types
  <1>2. sz \in 0..(CQ_N - 1) /\ pushed \in Nat /\ cq_nelem = (sz + pushed) % CQ_N
    BY <1>1 DEF Lent, Types
  <1>3. ASSUME pushed < CQ_N
        PROVE  (cq_nelem = sz) <=> (pushed = 0)
    <2> DEFINE i == sz + pushed
    <2>1. i \in 0..(2 * CQ_N - 1)
      BY <1>2, <1>3, Size
    <2> HIDE DEF i
    <2>2. i % CQ_N = IF i < CQ_N THEN i ELSE i - CQ_N
      BY <2>1, Wrap
    <2> QED BY <1>2, <1>3, <2>1, <2>2, Size DEF i
  <1>4. CASE cq_nelem = sz
    <2>1. /\ cpc' = "peeked" /\ saved' = -1
          /\ UNCHANGED <<c_buf, head, tail, isr, ints, ppc, data, left, e, taken, sz, seen, pushed, panicked>>
      BY <1>4 DEF Check, producer
    <2>2. Types' /\ Front' /\ Lent'
      BY <2>1 DEF Types, Front, Lent
    <2>3. Space'
      BY <1>1, <2>1 DEF Space, Oldest
    <2>4. Seen'
      BY <1>1, <1>4, <2>1 DEF Seen, Looks, Reads, Disturbed
    <2>5. pushed > 0 => pushed >= CQ_N
      BY <1>2, <1>3, <1>4, Size
    <2> QED BY <2>1, <2>2, <2>3, <2>4, <2>5 DEF AssertsHold, Disturbed
  <1>5. CASE cq_nelem # sz
    <2>1. /\ panicked' = "sz == cq_nelem(c)"
          /\ UNCHANGED <<c_buf, head, tail, isr, ints, ppc, data, cpc, saved, left, e, taken, sz, seen, pushed>>
      BY <1>5 DEF Check, Panic, producer
    <2>2. Types' /\ Space' /\ Front'
      BY <2>1 DEF Types, Space, Front, Oldest
    <2>4. Lent' /\ Seen'
      BY <2>1 DEF Lent, Seen, Looks, Reads, Disturbed
    <2>3. pushed > 0
      BY <1>2, <1>3, <1>5, Size
    <2> QED BY <1>1, <2>1, <2>2, <2>3, <2>4 DEF AssertsHold, Disturbed
  <1> QED BY <1>4, <1>5

LEMMA PeekInv == ASSUME Inv, Running, CallPeek \/ Peek \/ PeekReturns PROVE Inv'
  <1> USE DEF Inv, Running
  <1>0. Distance(head, tail) \in 0..(CQ_N - 1) /\ ((head = tail) <=> (Distance(head, tail) = 0))
    BY Distances
  <1>1. CASE CallPeek
    <2>1. /\ cpc = "idle" /\ cpc' = "peek" /\ head # tail
          /\ UNCHANGED <<c_buf, head, tail, isr, ints, ppc, data, left, e, taken, saved, sz, seen, pushed, panicked>>
      BY <1>1 DEF CallPeek, Calls, producer, cq_empty
    <2>2. Types' /\ Space' /\ Front' /\ Lent'
      BY <2>1 DEF Types, Space, Front, Lent, Oldest
    <2> QED BY <2>1, <2>2 DEF Lent, Seen, AssertsHold, cq_empty, cpsr_int_enabled, Disturbed
  <1>2. CASE Peek
    <2>1. /\ cpc = "peek" /\ cpc' = "peeked" /\ e' = c_buf[tail] /\ c_buf[tail] \in Value
          /\ seen' = <<c_buf[tail]>> /\ head # tail /\ saved = -1
          /\ UNCHANGED <<c_buf, head, tail, isr, ints, ppc, data, left, taken, saved, sz, pushed, panicked>>
      BY <1>2 DEF Peek, Consumes, Front, Lent, Types, producer
    <2>2. seen' \in Seq(Value) /\ Len(seen') = 1 /\ seen'[1] = c_buf[tail]
      BY <2>1
    <2>3. Types' /\ Space' /\ Front' /\ Lent'
      BY <2>1, <2>2 DEF Types, Space, Front, Lent, Oldest
    <2>4. Reads(tail)' /\ 1 <= Distance(head, tail)
      <3>1. Place(tail, 1) = tail
        BY PlaceFirst DEF Types
      <3>2. 1 <= Distance(head, tail)
        BY <1>0, <2>1, Size
      <3> QED BY <2>1, <2>2, <3>1, <3>2 DEF Reads
    <2>5. Seen'
      BY <2>1, <2>2, <2>4 DEF Seen, Reads
    <2> QED BY <2>1, <2>3, <2>5 DEF AssertsHold, cq_empty, cpsr_int_enabled, Disturbed
  <1>3. CASE PeekReturns
    <2>1. /\ cpc = "peeked" /\ cpc' = "idle" /\ seen' = <<>> /\ seen' \in Seq(Value) /\ saved = -1
          /\ UNCHANGED <<c_buf, head, tail, isr, ints, ppc, data, left, e, taken, saved, sz, pushed, panicked>>
      BY <1>3 DEF PeekReturns, Consumes, Lent, producer
    <2>2. Types' /\ Space' /\ Front' /\ Lent' /\ Seen'
      BY <2>1 DEF Types, Space, Front, Lent, Seen, Oldest
    <2> QED BY <2>1, <2>2 DEF AssertsHold, cq_empty, cpsr_int_enabled, Disturbed
  <1> QED BY <1>1, <1>2, <1>3

\* While nothing but the interrupt mask changes, nothing changes.
LEMMA RestInv == ASSUME Inv, (Running /\ SwitchInterrupts) \/ UNCHANGED vars PROVE Inv'
  <1> USE DEF Inv, Running
  <1>1. /\ ints' \in BOOLEAN /\ (panicked # "no" => ints' = ints)
        /\ UNCHANGED <<c_buf, head, tail, isr, ppc, data, cpc, left, e, taken, saved, sz, seen, pushed, panicked>>
    BY DEF SwitchInterrupts, vars, producer, consumer, Types
  <1>2. Types' /\ Space' /\ Front'
    BY <1>1 DEF Types, Space, Front, Oldest
  <1>3. Lent' /\ Seen'
    BY <1>1 DEF Lent, Seen, Looks, Reads, Disturbed
  <1> QED BY <1>1, <1>2, <1>3 DEF AssertsHold, Disturbed, cq_empty, cpsr_int_enabled

LEMMA StepInv == ASSUME Inv, [Next]_vars PROVE Inv'
  <1>1. CASE UNCHANGED vars
    BY <1>1, RestInv
  <1>2. CASE Next
    <2>1. Running
      BY <1>2 DEF Next
    <2>2. CASE Produce \/ \E s \in Blocks : CallPush(s)
      BY <2>1, <2>2, CallPushInv, WriteInv, PublishInv DEF Produce
    <2>3. CASE Consume
      BY <2>1, <2>3, TestInv, ReadInv, ReleaseInv, RestoreInv, CheckInv, PeekInv DEF Consume
    <2>4. CASE CallConsumer
      BY <2>1, <2>4, CallPopInv, CallPeekNInv, PeekInv DEF CallConsumer, CallPopNonblock
    <2>5. CASE SwitchInterrupts
      BY <2>1, <2>5, RestInv
    <2> QED BY <1>2, <2>2, <2>3, <2>4, <2>5 DEF Next
  <1> QED BY <1>1, <1>2

LEMMA Invariant == Spec => []Inv
  <1>1. Init => Inv
    BY InitInv
  <1>2. Inv /\ [Next]_vars => Inv'
    BY StepInv
  <1> QED BY <1>1, <1>2, PTL DEF Spec

\* The types hold: circular.h never lets an index leave the buffer.
THEOREM TypeCorrect == Spec => []TypeOK
  <1>1. Inv => TypeOK
    BY DEF Inv, Types, TypeOK
  <1> QED BY <1>1, Invariant, PTL

\* No "impossible" panic and no assert of cq_push fires, a blocking pop panics
\* only where it would wait for ever, and the assert of cq_peek_n fires only,
\* and short of a whole round always, when a push came during the call
\* (circular.h:94, 106, 154, 170).
THEOREM AssertsCorrect == Spec => []AssertsHold
  <1>1. Inv => AssertsHold
    BY DEF Inv
  <1> QED BY <1>1, Invariant, PTL

-----------------------------------------------------------------------------
(* The refinement of Fifo.                                                 *)

LEMMA ContentsIs ==
    ASSUME Inv
    PROVE  /\ Oldest \in Slot
           /\ Contents = Segment(c_buf, Oldest, Distance(head, Oldest))
           /\ Distance(head, Oldest) \in 0..(CQ_N - 1)
  <1>1. Oldest \in Slot
    BY DEF Inv, Types, Oldest
  <1>2. Contents = Segment(c_buf, Oldest, Distance(head, Oldest))
    BY DEF Contents, Segment, Place, Held, Distance
  <1> QED BY <1>1, <1>2, Tests DEF Inv, Types

\* cq_peek returns the front of the queue, whatever was pushed since, and an
\* undisturbed cq_peek_n as many elements of it as it was asked for.
THEOREM PeekCorrect == Spec => []PeekSeesFront
  <1>1. ASSUME Inv, cpc = "peeked", ~Disturbed
        PROVE  Len(seen) <= Len(Contents) /\ \A k \in 1..Len(seen) : seen[k] = Contents[k]
    <2>1. saved = -1 /\ Len(seen) <= Distance(head, tail) /\ Reads(tail) /\ Len(seen) \in Nat
      BY <1>1, Numbers DEF Inv, Lent, Seen
    <2>2. tail \in Slot /\ c_buf \in [Slot -> Value]
      BY <1>1 DEF Inv, Types
    <2>3. Contents = Segment(c_buf, tail, Distance(head, tail)) /\ Distance(head, tail) \in 0..(CQ_N - 1)
      BY <1>1, <2>1, ContentsIs DEF Oldest
    <2> DEFINE d == Distance(head, tail)
    <2>4. d \in 0..CQ_N
      BY <2>3, Size
    <2> HIDE DEF d
    <2>5. Len(Contents) = d /\ \A k \in 1..d : Contents[k] = c_buf[Place(tail, k)]
      BY <2>2, <2>3, <2>4, SegmentIsSeq DEF d
    <2>6. Len(seen) <= d
      BY <2>1 DEF d
    <2>7. \A k \in 1..Len(seen) : k \in 1..d
      BY <2>1, <2>4, <2>6
    <2> QED BY <2>1, <2>5, <2>6, <2>7 DEF Reads
  <1>2. Inv => PeekSeesFront
    BY <1>1 DEF PeekSeesFront
  <1> QED BY <1>2, Invariant, PTL

\* The queue Fifo is told.
Told == IF Disturbed THEN <<>> ELSE Contents

LEMMA InitRefines == Init => Queue!Init
  <1> SUFFICES ASSUME Init PROVE Queue!Init
    OBVIOUS
  <1>1. Inv
    BY InitInv
  <1>2. Oldest = 0 /\ head = 0 /\ saved = -1 /\ ~Disturbed
    BY DEF Init, Oldest, Disturbed
  <1>3. Distance(head, Oldest) = 0
    BY <1>1, <1>2, Tests, Size DEF Slot
  <1>4. Contents = <<>>
    BY <1>1, <1>3, ContentsIs DEF Segment
  <1>5. taken \in Value
    BY <1>1 DEF Inv, Types
  <1> QED BY <1>2, <1>4, <1>5 DEF Queue!Init

\* After a push during a look ahead Fifo promises nothing.
LEMMA DisturbedRefines ==
    ASSUME Inv, [Next]_vars, Disturbed
    PROVE  Queue!Next
  <1>1. Inv'
    BY StepInv
  <1>2. pushed' >= pushed
    <2>1. pushed' = pushed \/ pushed' = pushed + 1
      BY DEF Next, Produce, Consume, CallConsumer, CallPush, Write, Publish, CallPop, CallPopNonblock,
             CallPeekN, Test, Read, Release, Restore, Check, CallPeek, Peek, PeekReturns,
             SwitchInterrupts, vars
    <2> QED BY <2>1, Numbers DEF Inv
  <1>3. Disturbed' /\ taken' \in Value
    <2>1. pushed \in Nat /\ pushed' \in Nat /\ taken' \in Value
      BY <1>1, Zenon DEF Inv, Types
    <2> QED BY <1>2, <2>1 DEF Disturbed
  <1>4. Queue!Unknown
    BY <1>3 DEF Queue!Unknown
  <1> QED BY <1>4 DEF Queue!Next

\* A push that moves head puts its element at the end of the queue, unless it
\* disturbs a look ahead.
LEMMA PublishRefines == ASSUME Inv, Running, Publish, ~Disturbed PROVE Queue!Next
  <1>1. /\ ppc = "2" /\ head' = Incr(head) /\ UNCHANGED <<c_buf, tail, saved, taken>>
        /\ pushed' = IF saved = -1 THEN pushed ELSE pushed + 1
    BY DEF Publish, consumer
  <1>a. CASE saved # -1
    <2>1. pushed' > 0
      BY <1>1, <1>a, Numbers DEF Inv
    <2>2. Queue!Disturb
      BY <1>1, <1>a, <2>1 DEF Queue!Disturb, Disturbed
    <2> QED BY <2>2 DEF Queue!Next
  <1>b. CASE saved = -1
    <2>1. ~Disturbed'
      BY <1>1, <1>b DEF Disturbed
    <2>2. Inv'
      BY PublishInv
    <2>3. /\ c_buf \in [Slot -> Value] /\ head \in Slot /\ tail \in Slot /\ data \in Seq(Value)
          /\ Len(data) \in 1..(CQ_N - 1 - Distance(head, tail))
      BY <1>1 DEF Inv, Types, Space
    <2> DEFINE d == Distance(head, tail)
    <2>4. d \in 0..(CQ_N - 1) /\ ((Incr(head) = tail) <=> (d = CQ_N - 1))
      BY <2>3, Tests
    <2>5. d \in 0..(CQ_N - 2) /\ Incr(head) # tail
      <3> HIDE DEF d
      <3>1. Len(data) \in 1..(CQ_N - 1 - d)
        BY <2>3 DEF d
      <3> QED BY <2>4, <3>1, Size
    <2>6. Distance(Incr(head), tail) = d + 1
      BY <2>3, <2>5, Moves
    <2>7. Contents = Segment(c_buf, tail, d)
      BY <1>b, ContentsIs DEF Oldest
    <2>8. Contents' = Segment(c_buf, tail, d + 1)
      <3>1. Contents' = Segment(c_buf', Oldest', Distance(head', Oldest'))
        BY DEF Contents, Segment, Place, Held, Distance
      <3>2. Oldest' = tail
        BY <1>1, <1>b DEF Oldest
      <3> QED BY <1>1, <2>6, <3>1, <3>2
    <2> HIDE DEF d
    <2>9. c_buf[Place(tail, d + 1)] \in Value /\ Contents' = Append(Contents, c_buf[Place(tail, d + 1)])
      BY <2>3, <2>4, <2>7, <2>8, SegmentAppend
    <2>10. Len(Contents) = d
      BY <2>3, <2>4, <2>7, SegmentIsSeq, Size
    <2>11. Len(Contents) < CQ_N - 1
      BY <2>5, <2>10, Size
    <2>12. Queue!Push(c_buf[Place(tail, d + 1)])
      <3>1. saved' = -1 /\ taken' = taken
        BY <1>1, <1>b
      <3>2. ~Disturbed /\ ~(saved # -1) /\ (saved' # -1) = (saved # -1) /\ Disturbed' = Disturbed
        BY <1>1, <1>b, <3>1 DEF Disturbed
      <3>3. (IF Disturbed THEN <<>> ELSE Contents) = Contents
        OBVIOUS
      <3>4. (IF Disturbed THEN <<>> ELSE Contents)' = Append(Contents, c_buf[Place(tail, d + 1)])
        BY <2>1, <2>9
      <3> QED BY <2>11, <3>1, <3>2, <3>3, <3>4 DEF Queue!Push
    <2> QED BY <2>9, <2>12 DEF Queue!Next
  <1> QED BY <1>a, <1>b

\* A pop that moves tail returns the front of the queue; inside cq_peek_n it
\* changes nothing.
LEMMA ReleaseRefines ==
    ASSUME Inv, Release, ~Disturbed
    PROVE  Queue!Next \/ UNCHANGED <<Told, taken, saved, Disturbed>>
  <1>1. /\ cpc = "2" /\ tail' = Incr(tail) /\ taken' = (IF saved = -1 THEN e ELSE taken)
        /\ UNCHANGED <<c_buf, head, saved, pushed>>
    BY DEF Release, Consumes
  <1>2. c_buf \in [Slot -> Value] /\ head \in Slot /\ tail \in Slot /\ head # tail /\ e = c_buf[tail]
    BY <1>1 DEF Inv, Types, Front
  <1>3. Contents' = Segment(c_buf', Oldest', Distance(head', Oldest'))
    BY DEF Contents, Segment, Place, Held, Distance
  <1>0. Disturbed' = Disturbed
    BY <1>1 DEF Disturbed
  <1>4. CASE saved = -1
    <2> DEFINE d == Distance(head, tail)
    <2>1. d \in 1..CQ_N /\ Distance(head, Incr(tail)) = d - 1
      BY <1>2, Tests, Moves, Size
    <2>2. Contents = Segment(c_buf, tail, d)
      BY <1>4, ContentsIs DEF Oldest
    <2>3. Contents' = Segment(c_buf, Incr(tail), d - 1)
      <3>1. Oldest' = Incr(tail)
        BY <1>1, <1>4 DEF Oldest
      <3> QED BY <1>1, <1>3, <2>1, <3>1
    <2> HIDE DEF d
    <2>4. Contents # <<>> /\ Head(Contents) = c_buf[tail] /\ Tail(Contents) = Contents'
      BY <1>2, <2>1, <2>2, <2>3, SegmentTail
    <2>5. Queue!Pop
      BY <1>0, <1>1, <1>2, <1>4, <2>4 DEF Queue!Pop
    <2> QED BY <2>5 DEF Queue!Next
  <1>5. CASE saved # -1
    <2>1. Oldest' = Oldest
      BY <1>1, <1>5 DEF Oldest
    <2>2. Contents' = Contents
      BY <1>1, <1>3, <2>1, ContentsIs
    <2> QED BY <1>0, <1>1, <1>5, <2>2 DEF Told
  <1> QED BY <1>4, <1>5

\* A cq_peek_n begins and returns: the queue stays.
LEMMA LookRefines ==
    ASSUME Inv, ~Disturbed, (\E n \in 1..MaxN : CallPeekN(n)) \/ (Check /\ saved' # saved)
    PROVE  Queue!Next
  <1>1. /\ UNCHANGED <<c_buf, head, tail, taken, pushed>>
        /\ \/ saved = -1 /\ saved' = tail
           \/ saved = tail /\ saved' = -1
    BY DEF CallPeekN, Calls, Check, Consumes, Inv, Lent
  <1>2. tail # -1
    BY Numbers DEF Inv
  <1>3. Oldest' = Oldest /\ Disturbed' = Disturbed /\ (saved' # -1) = (saved = -1)
    BY <1>1, <1>2 DEF Oldest, Disturbed
  <1>4. Contents' = Contents
    BY <1>1, <1>3 DEF Contents, Held
  <1>5. Queue!Look
    BY <1>1, <1>3, <1>4 DEF Queue!Look
  <1> QED BY <1>5 DEF Queue!Next

\* Nothing else changes what the queue holds.
LEMMA OthersStutter ==
    ASSUME Inv, Running,
           \/ Write \/ (\E s \in Blocks : CallPush(s))
           \/ Test \/ Read \/ Restore \/ (Check /\ saved' = saved) \/ Peek \/ PeekReturns \/ CallPeek
           \/ (\E n \in 1..MaxN : CallPop(n) \/ CallPopNonblock(n)) \/ SwitchInterrupts
           \/ UNCHANGED vars
    PROVE  UNCHANGED <<Told, taken, saved, Disturbed>>
  <1>1. Contents' = Segment(c_buf', Oldest', Distance(head', Oldest'))
    BY DEF Contents, Segment, Place, Held, Distance
  <1>2. CASE Write
    <2>1. /\ UNCHANGED <<head, tail, saved, taken, pushed>> /\ ppc = "1"
          /\ (c_buf' = c_buf \/ c_buf' = [c_buf EXCEPT ![head] = data[1]])
      BY <1>2 DEF Write, consumer
    <2>2. /\ Oldest' = Oldest /\ Oldest \in Slot /\ head \in Slot /\ c_buf \in [Slot -> Value]
          /\ Disturbed' = Disturbed
      BY <2>1 DEF Oldest, Inv, Types, Disturbed
    <2>3. data[1] \in Value
      <3>1. Len(data) \in Nat \ {0} /\ data \in Seq(Value)
        <4>1. Len(data) \in 1..(CQ_N - 1 - Distance(head, tail)) /\ data \in Seq(Value)
          BY <2>1 DEF Inv, Space, Types
        <4> QED BY <4>1
      <3> QED BY <3>1
    <2>4. Distance(head, Oldest) \in 0..Distance(head, Oldest)
      BY <2>2, Tests, Size
    <2>5. Segment([c_buf EXCEPT ![head] = data[1]], Oldest, Distance(head, Oldest))
            = Segment(c_buf, Oldest, Distance(head, Oldest))
      BY <2>2, <2>3, <2>4, SegmentWrite
    <2>6. Contents' = Contents
      BY <1>1, <2>1, <2>2, <2>5, ContentsIs
    <2> QED BY <2>1, <2>2, <2>6 DEF Told
  <1>3. ASSUME UNCHANGED <<c_buf, head, taken, saved, pushed>>, Oldest' = Oldest
        PROVE  UNCHANGED <<Told, taken, saved, Disturbed>>
    BY <1>1, <1>3, ContentsIs DEF Told, Disturbed
  <1>4. CASE Restore
    <2>1. saved # -1 /\ UNCHANGED <<c_buf, head, taken, saved, pushed>>
      BY <1>4 DEF Restore, Consumes, Inv, Lent
    <2> QED BY <1>3, <2>1 DEF Oldest
  <1>6. ASSUME UNCHANGED <<c_buf, head, tail, taken, saved, pushed>>
        PROVE  UNCHANGED <<Told, taken, saved, Disturbed>>
    BY <1>3, <1>6 DEF Oldest
  <1>7. CASE (\E s \in Blocks : CallPush(s)) \/ SwitchInterrupts \/ UNCHANGED vars
    BY <1>6, <1>7 DEF CallPush, SwitchInterrupts, vars, consumer
  <1>8. CASE Test \/ Read \/ (Check /\ saved' = saved) \/ Peek \/ PeekReturns \/ CallPeek
    BY <1>6, <1>8 DEF Test, Read, Check, Peek, PeekReturns, CallPeek
  <1>9. CASE \E n \in 1..MaxN : CallPop(n) \/ CallPopNonblock(n)
    BY <1>6, <1>9 DEF CallPop, CallPopNonblock
  <1> QED BY <1>2, <1>4, <1>7, <1>8, <1>9

\* The queue of circular.h is a bounded FIFO for every size: each push and pop
\* takes effect at once, when its index moves, whatever the other side is at,
\* as long as no push comes during a cq_peek_n.
THEOREM RefinementCorrect == Spec => Implements
  <1>1. Init => Queue!Init
    BY InitRefines
  <1>2. ASSUME Inv, [Next]_vars
        PROVE  Queue!Next \/ UNCHANGED <<Told, taken, (saved # -1), Disturbed>>
    <2>1. CASE Disturbed
      BY <1>2, <2>1, DisturbedRefines
    <2>2. CASE ~Disturbed
      <3>1. Queue!Next \/ UNCHANGED <<Told, taken, saved, Disturbed>>
        <4>1. CASE Next
          <5>1. CASE Produce \/ (\E s \in Blocks : CallPush(s)) \/ SwitchInterrupts
            BY <1>2, <2>2, <4>1, <5>1, PublishRefines, OthersStutter DEF Next, Produce
          <5>2. CASE Consume
            BY <1>2, <2>2, <4>1, <5>2, ReleaseRefines, LookRefines, OthersStutter DEF Next, Consume
          <5>3. CASE CallConsumer
            BY <1>2, <2>2, <4>1, <5>3, LookRefines, OthersStutter DEF Next, CallConsumer
          <5> QED BY <4>1, <5>1, <5>2, <5>3 DEF Next
        <4>2. CASE UNCHANGED vars
          <5>1. UNCHANGED <<c_buf, head, tail, saved, taken, pushed>>
            BY <4>2 DEF vars, consumer
          <5> QED BY <5>1 DEF Told, Disturbed, Contents, Oldest, Held
        <4> QED BY <1>2, <4>1, <4>2
      <3> QED BY <3>1
    <2> QED BY <2>1, <2>2
  <1>3. Inv /\ [Next]_vars => [Queue!Next]_<<Told, taken, (saved # -1), Disturbed>>
    BY <1>2
  <1>4. Spec => []Inv
    BY Invariant
  <1> QED BY <1>1, <1>3, <1>4, PTL DEF Spec, Implements, Queue!Spec, Told
=============================================================================
