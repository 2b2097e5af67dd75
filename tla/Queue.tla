------------------------------- MODULE Queue -------------------------------
(***************************************************************************)
(* Q.h of libpi and libunix: a queue of the client's elements, linked      *)
(* through their own field next, with a tail pointer and a count beside    *)
(* the list.  The four operations that change it keep the three in step    *)
(* by hand.  seq is the sequence the client believes it has.               *)
(***************************************************************************)
EXTENDS Integers, Sequences

CONSTANTS Elements, Null
ASSUME NullIsNoElement == Null \notin Elements

VARIABLES
    head, tail, cnt,    \* Q_t
    next,               \* e->next, also of elements that are in no queue
    seq,                \* history: the elements in order
    popped              \* history: what Q_pop returned, and what it should have

queue == <<head, tail, cnt, next>>
queueVars == <<queue, seq, popped>>

Pointers == Elements \union {Null}
In(e) == \E k \in DOMAIN seq : seq[k] = e
Free(e) == e \in Elements /\ ~In(e)

Init ==
    /\ head = Null /\ tail = Null /\ cnt = 0 /\ next = [e \in Elements |-> Null]
    /\ seq = <<>> /\ popped = <<Null, Null>>

-----------------------------------------------------------------------------
\* Variant for mutation: the tail keeps pointing at the last element taken.
Q_popKeepsTail ==
    /\ head # Null
    /\ cnt' = cnt - 1 /\ head' = next[head]
    /\ popped' = <<head, seq[1]>> /\ seq' = Tail(seq)
    /\ UNCHANGED <<tail, next>>

Q_pop ==
    /\ head # Null
    /\ cnt' = cnt - 1 /\ head' = next[head]
    /\ tail' = IF next[head] = Null THEN Null ELSE tail
    /\ popped' = <<head, seq[1]>> /\ seq' = Tail(seq)
    /\ UNCHANGED next

\* An empty queue gives null, after Q_empty's assertions.
Q_popEmpty ==
    /\ head = Null /\ popped' = <<Null, IF seq = <<>> THEN Null ELSE seq[1]>>
    /\ UNCHANGED <<queue, seq>>

Append1(e) ==
    /\ cnt' = cnt + 1 /\ tail' = e
    /\ IF tail = Null
       THEN head' = e /\ next' = [next EXCEPT ![e] = Null]
       ELSE head' = head /\ next' = [next EXCEPT ![e] = Null, ![tail] = e]

Push1(e) ==
    /\ cnt' = cnt + 1 /\ next' = [next EXCEPT ![e] = head]
    /\ head' = e /\ tail' = IF tail = Null THEN e ELSE tail

Q_append(e) == Free(e) /\ Append1(e) /\ seq' = Append(seq, e) /\ UNCHANGED popped
Q_push(e) == Free(e) /\ Push1(e) /\ seq' = <<e>> \o seq /\ UNCHANGED popped

Insert(k, e) ==
    IF tail = seq[k] THEN Append1(e)
    ELSE /\ cnt' = cnt + 1 /\ next' = [next EXCEPT ![e] = next[seq[k]], ![seq[k]] = e]
         /\ UNCHANGED <<head, tail>>

\* After the k-th element; Q_push when the client names none.
Q_insert_after(k, e) ==
    /\ Free(e) /\ k \in DOMAIN seq /\ Insert(k, e)
    /\ seq' = SubSeq(seq, 1, k) \o <<e>> \o SubSeq(seq, k + 1, Len(seq))
    /\ UNCHANGED popped

Q_init ==
    /\ head' = Null /\ tail' = Null /\ cnt' = 0 /\ seq' = <<>>
    /\ UNCHANGED <<next, popped>>

Next == \/ Q_pop \/ Q_popEmpty \/ Q_init
        \/ \E e \in Elements : \/ Q_append(e) \/ Q_push(e)
                               \/ \E k \in 1..Len(seq) : Q_insert_after(k, e)

Spec == Init /\ [][Next]_queueVars

-----------------------------------------------------------------------------
TypeOK ==
    /\ head \in Pointers /\ tail \in Pointers /\ cnt \in Nat
    /\ next \in [Elements -> Pointers] /\ seq \in Seq(Elements)
    /\ popped \in Pointers \X Pointers

Ends ==
    IF seq = <<>> THEN head = Null /\ tail = Null
    ELSE head = seq[1] /\ tail = seq[Len(seq)] /\ next[tail] = Null
Linked == \A k \in DOMAIN seq : k + 1 \in DOMAIN seq => next[seq[k]] = seq[k + 1]
NoTwice == \A j, k \in DOMAIN seq : seq[j] = seq[k] => j = k

\* Walking from head meets the client's elements in order, each once, and
\* stops at tail after cnt of them; so Q_empty's assertions hold and what is
\* popped is the first (Q.h:18-82).
Represents == Ends /\ Linked /\ NoTwice /\ cnt = Len(seq) /\ popped[1] = popped[2]
=============================================================================
