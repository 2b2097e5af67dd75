------------------------------ MODULE Programs ------------------------------
(***************************************************************************)
(* The test programs that compute something: matmul.c, matmul-hard.c,      *)
(* mergesort.c and render.c run on every Pi, on top of the collectives,    *)
(* which are taken as Collective promises them.  A program is the sequence *)
(* of its steps, the same on every Pi; its arrays are flat.  The share of  *)
(* one Pi is written into the programs, for a certain number of Pis, and   *)
(* only matmul.c asserts that it runs on that many.  On more, the root     *)
(* reads and writes behind its arrays.  mpi.c is matmul.c before it came   *)
(* to the Pi: it divides the rows by the number of processes.              *)
(***************************************************************************)
EXTENDS Integers, Sequences

CONSTANTS
    Size,           \* Pis
    N,              \* rows
    Length,         \* of the array that is sorted
    rows_per_process, local_size,   \* the share of one Pi, of the rows and of that array
    Shapes          \* a sequence of circles of render.c

VARIABLES
    program,
    call, inside, result,   \* of Collective
    pc,             \* [Node -> the step it is at]
    mem,            \* [Node -> its arrays by name]
    sent,           \* [Node -> what it gave to each call, when it entered]
    overrun         \* the root has written behind its array

\* As many Pis as the programs are written for.
Divides == /\ {Size, N, Length, rows_per_process, local_size} \subseteq Nat \ {0}
           /\ N = Size * rows_per_process /\ Length = Size * local_size

programsVars == <<program, call, inside, result, pc, mem, sent, overrun>>

Node == 0..(Size - 1)
root == 0

\* What is received is in mem; no program has more than 8 calls.
Collectives == INSTANCE Collective WITH
    Node <- 0..(Size - 1), Root <- 0, NCalls <- 8,
    Result <- LAMBDA n, c : <<n, c>>, NoResult <- <<>>

Index(k) == 0..(k - 1)
junk == 77                              \* of the stack
Junk(k) == [i \in Index(k) |-> junk]
Channels == 3
Names == <<"x", "y", "radius", "r", "g", "b">>

Zeroes(k) == [i \in Index(k) |-> 0]
Arrays(p) ==
    CASE p \in {"mpi", "matmul", "matmul_hard"} ->
            [A |-> Junk(N * N), B |-> Junk(N * N), C |-> Junk(N * N),
             A_sub |-> Junk(rows_per_process * N), C_sub |-> Junk(rows_per_process * N)]
      [] p = "mergesort" -> [arr |-> Junk(Length), sub_arr |-> Junk(local_size)]
      [] p = "render" ->
            [x |-> Junk(Len(Shapes)), y |-> Junk(Len(Shapes)), radius |-> Junk(Len(Shapes)),
             r |-> Junk(Len(Shapes)), g |-> Junk(Len(Shapes)), b |-> Junk(Len(Shapes)),
             image |-> Zeroes(N * N * Channels),
             image_sub |-> Zeroes(rows_per_process * N * Channels)]

-----------------------------------------------------------------------------
(* The steps.  cnt is the count of one Pi.                                 *)

Local(f) == [op |-> "local", f |-> f]
FMPI_Barrier == [op |-> "barrier"]
FMPI_Bcast(buffer) == [op |-> "bcast", send |-> buffer, recv |-> buffer]
FMPI_Scatter(from, to, cnt) == [op |-> "scatter", send |-> from, recv |-> to, cnt |-> cnt]
FMPI_Gather(from, to, cnt) == [op |-> "gather", send |-> from, recv |-> to, cnt |-> cnt]

Matmul ==
    <<Local("example"), FMPI_Bcast("B"), FMPI_Scatter("A", "A_sub", rows_per_process * N),
      Local("matmul_int8"), FMPI_Gather("C_sub", "C", rows_per_process * N)>>

\* The calls are those of MPI.
Mpi == [Matmul EXCEPT ![4] = Local("matmul")]

MatmulHard ==
    <<Local("generate_matrices"), FMPI_Bcast("B"),
      FMPI_Scatter("A", "A_sub", rows_per_process * N), FMPI_Barrier,
      Local("matmul"), FMPI_Gather("C_sub", "C", rows_per_process * N), FMPI_Barrier,
      Local("verify_result")>>

MergeSort ==
    <<Local("fill"), FMPI_Scatter("arr", "sub_arr", local_size), Local("merge_sort"),
      FMPI_Gather("sub_arr", "arr", local_size), Local("merge")>>

Render ==
    <<Local("random_circles"), FMPI_Bcast("x"), FMPI_Bcast("y"), FMPI_Bcast("radius"),
      FMPI_Bcast("r"), FMPI_Bcast("g"), FMPI_Bcast("b"), Local("render"),
      FMPI_Gather("image_sub", "image", rows_per_process * N * Channels)>>

Steps(p) ==
    CASE p = "mpi" -> Mpi [] p = "matmul" -> Matmul [] p = "matmul_hard" -> MatmulHard
      [] p = "mergesort" -> MergeSort [] p = "render" -> Render

-----------------------------------------------------------------------------
(* What a Pi computes from its own arrays.                                 *)

\* f[0] + ... + f[k - 1].
AddUp(f, k) ==
    LET sum[i \in 0..k] == IF i = 0 THEN 0 ELSE sum[i - 1] + f[i - 1]
    IN  sum[k]
int8(x) == ((x + 128) % 256) - 128

example(m) ==
    [m EXCEPT !.A = [i \in Index(N * N) |-> (i \div N) + (i % N)],
              !.B = [i \in Index(N * N) |-> (i \div N) - (i % N)]]
generate_matrices(m) ==
    [m EXCEPT !.A = [i \in Index(N * N) |-> (i \div N) + 1],
              !.B = [i \in Index(N * N) |-> 1]]

\* What generate_matrices expects of the product, and verify_result asks.
expected == [i \in Index(N * N) |-> (i \div N + 1) * N]
verify_result(C) == C = expected

\* The rows the Pi was given; C[j] is of type int8_t in matmul.c, and wide enough
\* in the others.
rows(m) ==
    [i \in Index(rows_per_process * N) |->
        AddUp([k \in Index(N) |-> m.A_sub[(i \div N) * N + k] * m.B[k * N + (i % N)]], N)]
matmul(m) == [m EXCEPT !.C_sub = rows(m)]
matmul_int8(m) == [m EXCEPT !.C_sub = [i \in Index(rows_per_process * N) |-> int8(rows(m)[i])]]

fill(m) == [m EXCEPT !.arr = [i \in Index(Length) |-> 100 - i]]

Data == [Index(Length) -> Int] \union [Index(local_size) -> Int]

\* One turn of merge's loops: a is the array as it was, with L and R in it.
Turn(a, left, mid, right) ==
    [at \in [arr : Data, i : Nat, j : Nat] |->
        LET k == left + at.i + at.j
            fromL == at.j >= right - mid \/ (left + at.i <= mid /\ a[left + at.i] <= a[mid + 1 + at.j])
        IN  IF fromL THEN [arr |-> [at.arr EXCEPT ![k] = a[left + at.i]], i |-> at.i + 1, j |-> at.j]
            ELSE [arr |-> [at.arr EXCEPT ![k] = a[mid + 1 + at.j]], i |-> at.i, j |-> at.j + 1]]

\* The sorted stretches of an array from left to mid and from there to right.
merge(left, mid, right) ==
    [a \in Data |->
        LET turns[k \in 0..Length] == IF k = 0 THEN [arr |-> a, i |-> 0, j |-> 0]
                                     ELSE Turn(a, left, mid, right)[turns[k - 1]]
        IN  turns[right - left + 1].arr]

Stretch == [left : Index(Length), right : Index(Length)]
merge_sort[of \in Stretch] ==
    LET mid == of.left + ((of.right - of.left) \div 2)
    IN  [a \in Data |->
            IF of.left >= of.right THEN a
            ELSE merge(of.left, mid, of.right)
                    [merge_sort[[left |-> mid + 1, right |-> of.right]]
                        [merge_sort[[left |-> of.left, right |-> mid]][a]]]]

sort_local(m) == [m EXCEPT !.sub_arr = merge_sort[[left |-> 0, right |-> local_size - 1]][@]]

merge_chunks(m) ==
    LET merged[i \in 0..(Size - 1)] ==
            IF i = 0 THEN m.arr
            ELSE merge(0, i * local_size - 1, (i + 1) * local_size - 1)[merged[i - 1]]
    IN  [m EXCEPT !.arr = merged[Size - 1]]

Circle == {Names[k] : k \in DOMAIN Names}
random_circles(m) ==
    [name \in DOMAIN m |-> IF name \in Circle
                           THEN [i \in Index(Len(Shapes)) |-> Shapes[i + 1][name]] ELSE m[name]]

is_inside_circle(cx, cy, x, y, r) == (x - cx) * (x - cx) + (y - cy) * (y - cy) <= r * r

\* Circle after circle, each mixed half and half with what is there.
Pixel(c, px, py, old, idx) ==
    LET drawn[k \in 0..Len(Shapes)] ==
            IF k = 0 THEN old
            ELSE IF is_inside_circle(c.x[k - 1], c.y[k - 1], px, py, c.radius[k - 1])
            THEN (c[Names[idx + 4]][k - 1] \div 2) + (drawn[k - 1] \div 2) ELSE drawn[k - 1]
    IN  drawn[Len(Shapes)]
circles(m) == [name \in Circle |-> m[name]]

\* Variant for mutation: every Pi draws the first rows.
renderFirst(m, rank) ==
    [m EXCEPT !.image_sub = [i \in Index(rows_per_process * N * Channels) |->
        Pixel(circles(m), i \div (N * Channels), (i \div Channels) % N, m.image_sub[i], i % Channels)]]

render(m, rank) ==
    [m EXCEPT !.image_sub = [i \in Index(rows_per_process * N * Channels) |->
        Pixel(circles(m), rank * rows_per_process + (i \div (N * Channels)),
              (i \div Channels) % N, m.image_sub[i], i % Channels)]]

\* render-ans.c, of the same circles: one computer draws all rows.
render_ans(m) ==
    [i \in Index(N * N * Channels) |->
        Pixel(circles(m), i \div (N * Channels), (i \div Channels) % N, 0, i % Channels)]

\* Steps of the root alone leave the arrays of the others.
Computed(f, n, m) ==
    CASE f = "example" -> IF n = root THEN example(m) ELSE m
      [] f = "generate_matrices" -> IF n = root THEN generate_matrices(m) ELSE m
      [] f = "matmul" -> matmul(m)
      [] f = "matmul_int8" -> matmul_int8(m)
      [] f = "verify_result" -> m
      [] f = "fill" -> IF n = root THEN fill(m) ELSE m
      [] f = "merge_sort" -> sort_local(m)
      [] f = "merge" -> IF n = root THEN merge_chunks(m) ELSE m
      [] f = "random_circles" -> IF n = root THEN random_circles(m) ELSE m
      [] f = "render" -> render(m, n)

-----------------------------------------------------------------------------
(* What a receive buffer holds after a call that gave the buffers in from; *)
(* what the root sends from behind its array is junk.                      *)

Received(n, step, old, from) ==
    CASE step.op = "bcast" -> from[root]
      [] step.op = "scatter" -> [i \in Index(step.cnt) |->
                                IF n * step.cnt + i \in DOMAIN from[root]
                                THEN from[root][n * step.cnt + i] ELSE junk]
      [] step.op = "gather" ->
            IF n = root THEN [i \in DOMAIN old |->
                                IF i \div step.cnt \in Node
                                THEN from[i \div step.cnt][i % step.cnt] ELSE old[i]]
            ELSE old

-----------------------------------------------------------------------------
Init ==
    /\ program = "none"
    /\ Collectives!Init
    /\ pc = [n \in Node |-> 1]
    /\ mem = [n \in Node |-> <<>>]
    /\ sent = [n \in Node |-> <<>>]
    /\ overrun = FALSE

\* The bootloader gives all Pis the same program; mpi.c computes its share.
Load(p) ==
    /\ program = "none" /\ program' = p
    /\ p = "mpi" => rows_per_process = N \div Size
    /\ mem' = [n \in Node |-> Arrays(p)]
    /\ UNCHANGED <<call, inside, result, pc, sent, overrun>>

At(n, local) ==
    /\ program # "none" /\ pc[n] <= Len(Steps(program))
    /\ (Steps(program)[pc[n]].op = "local") = local
Here(n) == Steps(program)[pc[n]]

\* matmul.c's assertions, between its broadcast and its scatter.
Asserts(n) == program = "matmul" /\ Here(n).op = "scatter" => N = 4 /\ Size = 2

\* The blocks of all Pis lie within the root's array.
Room(step) ==
    \A n \in Node, i \in Index(step.cnt) : n * step.cnt + i \in DOMAIN Arrays(program)[step.recv]
Spills(n) == n = root /\ Here(n).op = "gather" /\ ~Room(Here(n))

Compute(n) ==
    /\ At(n, TRUE)
    /\ mem' = [mem EXCEPT ![n] = Computed(Here(n).f, n, @)]
    /\ pc' = [pc EXCEPT ![n] = @ + 1]
    /\ UNCHANGED <<program, call, inside, result, sent, overrun>>

Enter(n) ==
    /\ At(n, FALSE) /\ Asserts(n) /\ Collectives!Enter(n)
    /\ sent' = [sent EXCEPT ![n] = Append(@, IF Here(n).op = "barrier" THEN <<>> ELSE mem[n][Here(n).send])]
    /\ UNCHANGED <<program, pc, mem, overrun>>

Leave(n) ==
    /\ At(n, FALSE) /\ ~Spills(n) /\ Collectives!Leave(n)
    /\ LET from == [w \in Node |-> IF call[n] <= Len(sent[w]) THEN sent[w][call[n]] ELSE <<>>]
       IN  mem' = IF Here(n).op = "barrier" THEN mem
                  ELSE [mem EXCEPT ![n][Here(n).recv] = Received(n, Here(n), @, from)]
    /\ pc' = [pc EXCEPT ![n] = @ + 1]
    /\ UNCHANGED <<program, sent, overrun>>

\* The root takes in more than its array holds; what it does from there on is
\* anybody's guess, and left out.
Overruns ==
    /\ ~overrun
    /\ At(root, FALSE) /\ Spills(root) /\ inside[root]
    /\ \A n \in Node : Collectives!Entered(n, call[root])
    /\ overrun' = TRUE
    /\ UNCHANGED <<program, call, inside, result, pc, mem, sent>>

Run == (\E n \in Node : Compute(n) \/ Enter(n) \/ Leave(n)) \/ Overruns
Programs == {"mpi", "matmul", "matmul_hard", "mergesort", "render"}
Next == (\E p \in Programs : Load(p)) \/ Run

Fairness == WF_programsVars(Run)
Spec == Init /\ [][Next]_programsVars /\ Fairness

-----------------------------------------------------------------------------
Finished(n) == program # "none" /\ pc[n] > Len(Steps(program))

\* The product of the two matrices of example, row by row and column by column.
Product == [i \in Index(N * N) |-> AddUp([k \in Index(N) |-> ((i \div N) + k) * (k - (i % N))], N)]

\* On as many Pis as the program is written for, the root writes nothing behind
\* its arrays, and when it is done they hold what one computer would have
\* computed alone: the product, which fits into int8_t for matmul.c and is what
\* verify_result expects in matmul-hard.c; the sorted numbers; the picture of
\* render-ans.c.  Every row was computed by one Pi, from arrays that had
\* arrived, and came back to its place.
RootHasResult ==
    /\ overrun => ~Divides
    /\ Finished(root) /\ Divides =>
       CASE program \in {"mpi", "matmul"} -> mem[root].C = Product
         [] program = "matmul_hard" -> verify_result(mem[root].C)
         [] program = "mergesort" -> mem[root].arr = [i \in Index(Length) |-> 101 - Length + i]
         [] program = "render" -> mem[root].image = render_ans(mem[root])

Stopped(n) == At(n, FALSE) /\ ~inside[n] /\ ~Asserts(n)

\* On as many Pis as it is written for, the program ends on all of them.  On
\* more, matmul.c stops at its assertion, and of every other program the root
\* writes behind its array.
Ended ==
    IF Divides THEN \A n \in Node : Finished(n)
    ELSE IF program = "matmul" THEN \A n \in Node : Stopped(n) ELSE overrun

ProgramsEnd == (program # "none") ~> Ended
=============================================================================
